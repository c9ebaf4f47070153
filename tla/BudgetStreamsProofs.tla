-------------------------- MODULE BudgetStreamsProofs --------------------------
(***************************************************************************)
(* Proofs about BudgetStreams, for any number of streams, workers, pods,   *)
(* connections and budgets, and for any responses.                         *)
(***************************************************************************)
EXTENDS BudgetStreams, FiniteSetTheorems, TLAPS

(***************************************************************************)
(* Transactions.  Whatever a step does, it moves one process from one      *)
(* label to another, and opens a transaction, takes a lock, or closes it.  *)
(***************************************************************************)
Modes == {"update", "nokey", "key"}

Labels(p) ==
    IF p \in Streams
    THEN {"idle", "forwarded", "denied", "sent", "responding"} \cup CheckLabels \cup ChargeLabels
    ELSE {"idle", "resetting", "deleting", "abandoned"}

AllLabels ==
    {"idle", "forwarded", "denied", "sent", "responding", "resetting", "deleting", "abandoned"}
    \cup CheckLabels \cup ChargeLabels

\* Exactly the steps of a transaction hold a connection, and only they wait for locks.
Discipline ==
    /\ pc \in [Procs -> AllLabels] /\ \A p \in Procs : pc[p] \in Labels(p)
    /\ conn \in [Procs -> BOOLEAN]
    /\ locks \in [Procs -> SUBSET (Budgets \X Modes)]
    /\ want \in [Procs -> Seq(Budgets \X Modes)]
    /\ \A p \in Procs :
          /\ conn[p] <=> pc[p] \in InTransaction
          /\ ~conn[p] => locks[p] = {} /\ want[p] = <<>>

PoolKept == \A p \in Procs : Cardinality(Using(PodOf[p])) <= PoolSize

LocksExclude ==
    \A p, q \in Procs : p # q =>
        \A l \in locks[p] : \A k \in locks[q] : l[1] = k[1] => ~Conflicting(l[2], k[2])

Waits == Discipline /\ PoolKept /\ LocksExclude

\* The connections a pod uses are finitely many.
LEMMA UsingFinite ==
    ASSUME NEW pod
    PROVE  IsFiniteSet(Using(pod)) /\ Cardinality(Using(pod)) \in Nat
<1>1. Using(pod) \in SUBSET Procs /\ IsFiniteSet(Procs)
  BY StreamAssumption DEF Using
<1> QED
  BY <1>1, FS_Subset, FS_CardinalityType

\* A step inside or outside of a transaction that takes and gives nothing.
LEMMA Moves ==
    ASSUME Waits, NEW p \in Procs, NEW l \in Labels(p), l \in AllLabels,
           pc' = [pc EXCEPT ![p] = l], l \in InTransaction <=> pc[p] \in InTransaction,
           UNCHANGED waiting
    PROVE  Waits'
<1>1. Discipline'
  BY DEF Waits, Discipline, waiting
<1>2. PoolKept'
  BY DEF Waits, PoolKept, Using, waiting
<1>3. LocksExclude'
  BY DEF Waits, LocksExclude, waiting
<1> QED
  BY <1>1, <1>2, <1>3 DEF Waits

\* BEGIN: a free connection is taken, and no row is locked yet.
LEMMA Begins ==
    ASSUME Waits, NEW p \in Procs, NEW l \in Labels(p), l \in AllLabels, l \in InTransaction,
           pc[p] \notin InTransaction, NEW order \in Seq(Budgets \X Modes),
           Begin(p, order, l)
    PROVE  Waits'
<1>0. /\ FreeConnection(p) /\ conn' = [conn EXCEPT ![p] = TRUE] /\ UNCHANGED locks
      /\ want' = [want EXCEPT ![p] = order] /\ pc' = [pc EXCEPT ![p] = l]
  BY DEF Begin
<1>4. \A q \in Procs : conn'[q] <=> q = p \/ conn[q]
  BY <1>0, Zenon DEF Waits, Discipline
<1>1. Discipline'
  BY <1>0 DEF Waits, Discipline
<1>2. ASSUME NEW q \in Procs
      PROVE  Cardinality(Using(PodOf[q]))' <= PoolSize
  <2> DEFINE U == Using(PodOf[q])
  <2>1. IsFiniteSet(U) /\ Cardinality(U) \in Nat /\ PoolSize \in Nat
    BY UsingFinite, StreamAssumption
  <2>2. CASE PodOf[q] = PodOf[p]
    <3>1. U' = U \cup {p}
      BY <1>4, <2>2 DEF Using
    <3>2. Cardinality(U) < PoolSize
      BY <1>0, <2>2 DEF FreeConnection
    <3> HIDE DEF U
    <3>3. Cardinality(U \cup {p}) = IF p \in U THEN Cardinality(U) ELSE Cardinality(U) + 1
      BY <2>1, FS_AddElement, Zenon
    <3>4. Cardinality(U') <= PoolSize
      BY <2>1, <3>1, <3>2, <3>3
    <3> QED
      BY <3>4 DEF U
  <2>3. CASE PodOf[q] # PodOf[p]
    <3>1. U' = U
      BY <1>4, <2>3 DEF Using
    <3> QED
      BY <3>1 DEF Waits, PoolKept
  <2> QED
    BY <2>2, <2>3
<1>3. LocksExclude'
  BY <1>0 DEF Waits, LocksExclude
<1> QED
  BY <1>1, <1>2, <1>3 DEF Waits, PoolKept

\* A row lock is granted when nobody holds a conflicting one.
LEMMA LockTaken ==
    ASSUME Waits, NEW p \in Procs, LockRow(p)
    PROVE  Waits'
<1>0. /\ want[p] # <<>> /\ Blockers(p) = {} /\ want[p] \in Seq(Budgets \X Modes)
      /\ locks' = [locks EXCEPT ![p] = @ \cup {Head(want[p])}]
      /\ want' = [want EXCEPT ![p] = Tail(@)] /\ UNCHANGED <<pc, conn>>
  BY DEF LockRow, Waits, Discipline
<1>1. Head(want[p]) \in Budgets \X Modes /\ Tail(want[p]) \in Seq(Budgets \X Modes) /\ conn[p]
  BY <1>0 DEF Waits, Discipline
<1> DEFINE h == Head(want[p])
<1>2. /\ locks' = [locks EXCEPT ![p] = locks[p] \cup {h}]
      /\ want' = [want EXCEPT ![p] = Tail(want[p])]
  BY <1>0
<1> HIDE DEF h
<1>3. h \in Budgets \X Modes
  BY <1>1 DEF h
<1>4. Discipline'
  BY <1>0, <1>1, <1>2, <1>3 DEF Waits, Discipline
<1>5. PoolKept'
  BY <1>0 DEF Waits, PoolKept, Using
<1>6. \A q \in Procs : q # p =>
          \A k \in locks[q] : k[1] = h[1] => ~Conflicting(k[2], h[2])
  BY <1>0 DEF Blockers, h
<1>7. \A m, n : Conflicting(m, n) <=> Conflicting(n, m)
  <2>1. \A m, n : {m, n} = {n, m}
    OBVIOUS
  <2> QED
    BY <2>1 DEF Conflicting
<1>8. LocksExclude'
  <2> SUFFICES ASSUME NEW q \in Procs, NEW r \in Procs, q # r,
                      NEW l \in locks'[q], NEW k \in locks'[r], l[1] = k[1]
               PROVE  ~Conflicting(l[2], k[2])
    BY DEF LocksExclude, Conflicting
  <2>1. CASE l \in locks[q] /\ k \in locks[r]
    BY <2>1 DEF Waits, LocksExclude
  <2>2. CASE q = p /\ l = h
    <3>1. k \in locks[r] /\ r # p
      BY <1>2, <2>2 DEF Waits, Discipline
    <3>2. ~Conflicting(k[2], l[2])
      BY <1>6, <2>2, <3>1
    <3> QED
      BY <1>7, <3>2
  <2>3. CASE r = p /\ k = h
    <3>1. l \in locks[q] /\ q # p
      BY <1>2, <2>3 DEF Waits, Discipline
    <3> QED
      BY <1>6, <2>3, <3>1
  <2> QED
    BY <1>2, <2>1, <2>2, <2>3 DEF Waits, Discipline
<1> QED
  BY <1>4, <1>5, <1>8 DEF Waits

\* COMMIT or ROLLBACK, or a step outside of a transaction.
LEMMA Closes ==
    ASSUME Waits, NEW p \in Procs, NEW l \in Labels(p), l \in AllLabels, l \notin InTransaction,
           pc' = [pc EXCEPT ![p] = l], Close(p)
    PROVE  Waits'
<1>0. /\ conn' = [conn EXCEPT ![p] = FALSE] /\ locks' = [locks EXCEPT ![p] = {}]
      /\ want' = [want EXCEPT ![p] = <<>>]
  BY DEF Close
<1>4. \A q \in Procs : conn'[q] <=> q # p /\ conn[q]
  BY <1>0, Zenon DEF Waits, Discipline
<1>5. /\ conn' \in [Procs -> BOOLEAN] /\ pc' \in [Procs -> AllLabels]
      /\ locks' \in [Procs -> SUBSET (Budgets \X Modes)]
      /\ want' \in [Procs -> Seq(Budgets \X Modes)]
  <2>1. <<>> \in Seq(Budgets \X Modes)
    OBVIOUS
  <2> QED
    BY <1>0, <2>1 DEF Waits, Discipline
<1>6. ASSUME NEW q \in Procs
      PROVE  /\ pc'[q] \in Labels(q)
             /\ conn'[q] <=> pc'[q] \in InTransaction
             /\ locks'[q] = IF q = p THEN {} ELSE locks[q]
             /\ want'[q] = IF q = p THEN <<>> ELSE want[q]
  BY <1>0, <1>4 DEF Waits, Discipline
<1>1. Discipline'
  BY <1>4, <1>5, <1>6 DEF Waits, Discipline, Labels, InTransaction, CheckLabels, ChargeLabels
<1>2. ASSUME NEW q \in Procs
      PROVE  Cardinality(Using(PodOf[q]))' <= PoolSize
  <2> DEFINE U == Using(PodOf[q])
  <2>1. IsFiniteSet(U) /\ Cardinality(U) \in Nat /\ PoolSize \in Nat /\ Cardinality(U) <= PoolSize
    BY UsingFinite, StreamAssumption DEF Waits, PoolKept
  <2>2. U' \in SUBSET U
    BY <1>4 DEF Using
  <2> HIDE DEF U
  <2>3. Cardinality(U') <= Cardinality(U) /\ Cardinality(U') \in Nat
    BY <2>1, <2>2, FS_Subset, FS_CardinalityType
  <2>4. Cardinality(U') <= PoolSize
    BY <2>1, <2>3
  <2> QED
    BY <2>4 DEF U
<1>3. LocksExclude'
  BY <1>6 DEF Waits, LocksExclude, Conflicting
<1> QED
  BY <1>1, <1>2, <1>3 DEF Waits, PoolKept

(***************************************************************************)
(* The data of a stream: what it has buffered is a beginning of the        *)
(* response, nothing before the response and all of it at its end.         *)
(***************************************************************************)
StreamData ==
    /\ id \in [Streams -> Ids]
    /\ model \in [Streams -> Models \cup {NoModel}]
    /\ body \in [Streams -> Bodies \cup {NoBody}]
    /\ buffer \in [Streams -> Seq(Events)]
    /\ states \subseteq Ids /\ left \subseteq Ids

Receiving == {"responding", "cost"}

Buffering(s) ==
    /\ IsPrefix(buffer[s], body[s].events)
    /\ pc[s] \notin Receiving => buffer[s] = <<>>
    /\ pc[s] = "cost" => buffer[s] = body[s].events /\ body[s] \in Bodies
    /\ pc[s] = "responding" => body[s] \in Bodies

Typed == Waits /\ StreamData /\ \A s \in Streams : Buffering(s)

\* A body is a sequence of events.
LEMMA BodyTypes ==
    ASSUME NEW b \in Bodies \cup {NoBody}
    PROVE  b.events \in Seq(Events) /\ b.model \in Models \cup {NoModel}
<1>1. NoBody.events = <<>> /\ NoBody.model = NoModel
  BY DEF NoBody
<1>2. <<>> \in Seq(Events)
  OBVIOUS
<1> HIDE DEF NoBody
<1> QED
  BY <1>1, <1>2, StreamAssumption

\* The empty buffer is a beginning of every response.
LEMMA EmptyPrefix ==
    ASSUME NEW b \in Bodies \cup {NoBody}
    PROVE  IsPrefix(<<>>, b.events) /\ <<>> \in Seq(Events)
<1>1. b.events \in Seq(Events)
  BY BodyTypes
<1> HIDE DEF Events
<1> QED
  BY <1>1 DEF IsPrefix

\* The next events of a response make a longer beginning of it, or all of it.
LEMMA NextEvents ==
    ASSUME NEW old \in Seq(Events), NEW all \in Seq(Events), IsPrefix(old, all),
           NEW n \in Len(old) + 1 .. Len(all)
    PROVE  LET new == Buffered(old, SubSeq(all, Len(old) + 1, n)) IN
           new \in Seq(Events) /\ IsPrefix(new, all) /\ (n = Len(all) => new = all)
<1> DEFINE new == old \o SubSeq(all, Len(old) + 1, n)
<1> HIDE DEF Events
<1>1. new \in Seq(Events) /\ Len(new) = n
  OBVIOUS
<1>2. \A i \in 1..n : new[i] = all[i]
  BY DEF IsPrefix
<1>3. IsPrefix(new, all)
  BY <1>1, <1>2 DEF IsPrefix
<1>4. n = Len(all) => new = all
  BY <1>1, <1>2
<1> QED
  BY <1>1, <1>3, <1>4 DEF Buffered

\* A step that does not concern the data keeps it, if it leaves or keeps receiving.
LEMMA DataKept ==
    ASSUME Typed, NEW p \in Procs, NEW l,
           pc' = [pc EXCEPT ![p] = l], l \notin Receiving, pc[p] \notin Receiving,
           UNCHANGED <<id, body, buffer>>
    PROVE  \A s \in Streams : Buffering(s)'
<1> SUFFICES ASSUME NEW s \in Streams
             PROVE  Buffering(s)'
  OBVIOUS
<1>1. s \in Procs /\ pc \in [Procs -> AllLabels]
  BY DEF Procs, Typed, Waits, Discipline
<1>2. pc'[s] = IF s = p THEN l ELSE pc[s]
  BY <1>1
<1> QED
  BY <1>2 DEF Typed, Buffering, Receiving

\* Steps that leave the data alone.
LEMMA Quiet ==
    ASSUME Typed, Waits', NEW p \in Procs, NEW l, UNCHANGED data,
           pc' = [pc EXCEPT ![p] = l], l \notin Receiving, pc[p] \notin Receiving
    PROVE  Typed'
<1>1. StreamData'
  BY DEF Typed, StreamData, data
<1>2. UNCHANGED <<id, body, buffer>>
  BY DEF data
<1> QED
  BY <1>1, <1>2, DataKept DEF Typed

\* The stream ends.
LEMMA Ends ==
    ASSUME Typed, Waits', NEW s \in Streams, GoneIdle(s), states' \subseteq Ids, left' \subseteq Ids
    PROVE  Typed'
<1>0. /\ pc' = [pc EXCEPT ![s] = "idle"] /\ model' = [model EXCEPT ![s] = NoModel]
      /\ body' = [body EXCEPT ![s] = NoBody] /\ buffer' = [buffer EXCEPT ![s] = <<>>]
      /\ UNCHANGED id
  BY DEF GoneIdle
<1>1. IsPrefix(<<>>, NoBody.events) /\ <<>> \in Seq(Events)
  BY EmptyPrefix
<1>2. StreamData'
  <2> HIDE DEF Events, NoBody
  <2> QED
    BY <1>0, <1>1 DEF Typed, StreamData
<1>3. ASSUME NEW t \in Streams
      PROVE  Buffering(t)'
  <2> HIDE DEF Events, NoBody
  <2>1. /\ pc'[t] = IF t = s THEN "idle" ELSE pc[t]
        /\ buffer'[t] = IF t = s THEN <<>> ELSE buffer[t]
        /\ body'[t] = IF t = s THEN NoBody ELSE body[t]
    BY <1>0 DEF Typed, StreamData, Waits, Discipline, Procs
  <2> QED
    BY <1>1, <2>1 DEF Typed, Buffering, Receiving
<1> QED
  BY <1>2, <1>3 DEF Typed

\* Row locks of the check are those of every enabled budget.
LEMMA CheckLockTypes ==
    ASSUME NEW order, Ordered(order)
    PROVE  [i \in DOMAIN order |-> <<order[i], "update">>] \in Seq(Budgets \X Modes)
<1>1. order \in Seq(Budgets)
  BY StreamAssumption DEF Ordered
<1> HIDE DEF Budgets
<1>2. \A i \in 1..Len(order) : <<order[i], "update">> \in Budgets \X Modes
  BY <1>1 DEF Modes
<1> QED
  BY <1>1, <1>2

\* The steps of a check keep the types.
LEMMA TypeCheck ==
    ASSUME Typed, NEW s \in Streams, Check(s) \/ CheckFails(s)
    PROVE  Typed'
<1>0. /\ s \in Procs /\ Waits
      /\ \A l \in CheckLabels \cup {"forwarded", "denied"} : l \in Labels(s) /\ l \in AllLabels
  BY DEF Typed, Procs, Labels, AllLabels
<1>1. CASE BeginCheck(s)
  <2>1. PICK order : Ordered(order) /\ pc[s] = "check"
                     /\ Begin(s, [i \in DOMAIN order |-> <<order[i], "update">>], "locking")
    BY <1>1 DEF BeginCheck
  <2> DEFINE lockOrder == [i \in DOMAIN order |-> <<order[i], "update">>]
  <2>2. lockOrder \in Seq(Budgets \X Modes) /\ Begin(s, lockOrder, "locking")
    BY <2>1, CheckLockTypes
  <2> HIDE DEF lockOrder
  <2>3. Waits'
    BY <1>0, <2>1, <2>2, Begins DEF InTransaction, CheckLabels
  <2>4. UNCHANGED data /\ pc' = [pc EXCEPT ![s] = "locking"]
    BY <2>2 DEF Begin
  <2> QED
    BY <1>0, <2>1, <2>3, <2>4, Quiet DEF Receiving
<1>2. CASE LockRow(s)
  <2>1. Waits' /\ UNCHANGED <<pc, data>>
    BY <1>0, <1>2, LockTaken DEF LockRow
  <2> QED
    BY <2>1 DEF Typed, StreamData, Buffering, data
<1>3. CASE AllowUnmatched(s)
  <2>1. Waits'
    BY <1>0, <1>3, Closes DEF AllowUnmatched, InTransaction
  <2> QED
    BY <1>0, <1>3, <2>1, Quiet DEF AllowUnmatched, Receiving
<1>4. CASE Match(s)
  <2>1. PICK l \in {"pricing", "deciding"} : pc' = [pc EXCEPT ![s] = l]
    BY <1>4 DEF Match
  <2>2. l \in CheckLabels
    BY DEF CheckLabels
  <2>3. Waits'
    BY <1>0, <1>4, <2>1, <2>2, Moves DEF Match, InTransaction
  <2> QED
    BY <1>0, <1>4, <2>1, <2>3, Quiet DEF Match, Receiving
<1>5. CASE EstimateCost(s)
  <2>1. Waits'
    BY <1>0, <1>5, Moves DEF EstimateCost, InTransaction, CheckLabels
  <2> QED
    BY <1>0, <1>5, <2>1, Quiet DEF EstimateCost, Receiving
<1>6. CASE Reserve(s)
  <2>1. Waits'
    BY <1>0, <1>6, Closes DEF Reserve, InTransaction
  <2> QED
    BY <1>0, <1>6, <2>1, Quiet DEF Reserve, Receiving
<1>7. CASE Deny(s)
  <2>1. Waits'
    BY <1>0, <1>7, Closes DEF Deny, InTransaction
  <2> QED
    BY <1>0, <1>7, <2>1, Quiet DEF Deny, Receiving
<1>8. CASE CheckFails(s)
  <2>1. Waits'
    BY <1>0, <1>8, Closes DEF CheckFails, InTransaction
  <2> QED
    BY <1>0, <1>8, <2>1, Quiet DEF CheckFails, Receiving
<1> QED
  BY <1>1, <1>2, <1>3, <1>4, <1>5, <1>6, <1>7, <1>8 DEF Check

\* The end of a stream, with its transaction if it is in one, keeps the types.
LEMMA TypeEnds ==
    ASSUME Typed, NEW s \in Streams, GoneIdle(s), states' \subseteq Ids, left' \subseteq Ids,
           Close(s) \/ (UNCHANGED waiting /\ pc[s] \notin InTransaction)
    PROVE  Typed'
<1>0. /\ s \in Procs /\ Waits /\ "idle" \notin InTransaction
      /\ "idle" \in Labels(s) /\ "idle" \in AllLabels
  BY DEF Typed, Procs, Labels, AllLabels, InTransaction
<1>1. pc' = [pc EXCEPT ![s] = "idle"]
  BY DEF GoneIdle
<1>2. Waits'
  <2>1. CASE Close(s)
    BY <1>0, <1>1, <2>1, Closes
  <2>2. CASE UNCHANGED waiting /\ pc[s] \notin InTransaction
    BY <1>0, <1>1, <2>2, Moves
  <2> QED
    BY <2>1, <2>2
<1> QED
  BY <1>2, Ends

\* The row locks of the charge.
LEMMA ChargeLockTypes ==
    ASSUME NEW charged
    PROVE  ChargeLocks(charged) \in Seq(Budgets \X Modes)
<1>1. Chain \in Seq(Budgets) /\ Chain # <<>>
  BY StreamAssumption
<1> DEFINE f == [i \in DOMAIN Chain |-> <<Chain[i], IF Chain[i] \in charged THEN "nokey" ELSE "key">>]
           g == <<<<Head(Chain), "nokey">>>>
<1> HIDE DEF Budgets
<1>2. \A i \in 1..Len(Chain) :
          <<Chain[i], IF Chain[i] \in charged THEN "nokey" ELSE "key">> \in Budgets \X Modes
  BY <1>1 DEF Modes
<1>3. f \in Seq(Budgets \X Modes)
  BY <1>1, <1>2
<1>4. Head(Chain) \in Budgets
  BY <1>1
<1>5. <<Head(Chain), "nokey">> \in Budgets \X Modes
  BY <1>4 DEF Modes
<1>6. g \in Seq(Budgets \X Modes)
  BY <1>5
<1>7. ChargeLocks(charged) = f \o g
  BY DEF ChargeLocks
<1> HIDE DEF f, g
<1> QED
  BY <1>3, <1>6, <1>7

\* The steps of a charge keep the types.
LEMMA TypeCharge ==
    ASSUME Typed, NEW s \in Streams, Charge(s) \/ ChargeFails(s)
    PROVE  Typed'
<1>0. /\ s \in Procs /\ Waits
      /\ \A l \in {"reservation", "hierarchy", "beginning", "charging"} :
            l \in Labels(s) /\ l \in AllLabels
  BY DEF Typed, Procs, Labels, AllLabels, ChargeLabels
<1>1. CASE CalculateCost(s)
  <2>0. /\ pc[s] = "cost" /\ pc' = [pc EXCEPT ![s] = "reservation"]
        /\ body' = [body EXCEPT ![s] = NoBody] /\ buffer' = [buffer EXCEPT ![s] = <<>>]
        /\ UNCHANGED <<waiting, id, model, states, left>>
    BY <1>1 DEF CalculateCost
  <2>1. Waits'
    BY <1>0, <2>0, Moves DEF InTransaction
  <2>2. IsPrefix(<<>>, NoBody.events) /\ <<>> \in Seq(Events)
    BY EmptyPrefix
  <2> HIDE DEF Events, NoBody
  <2>3. StreamData'
    BY <2>0, <2>2 DEF Typed, StreamData
  <2>4. ASSUME NEW t \in Streams
        PROVE  Buffering(t)'
    <3>1. /\ pc'[t] = IF t = s THEN "reservation" ELSE pc[t]
          /\ buffer'[t] = IF t = s THEN <<>> ELSE buffer[t]
          /\ body'[t] = IF t = s THEN NoBody ELSE body[t]
      BY <2>0 DEF Typed, StreamData, Waits, Discipline, Procs
    <3> QED
      BY <2>2, <3>1 DEF Typed, Buffering, Receiving
  <2> QED
    BY <2>1, <2>3, <2>4 DEF Typed
<1>2. ASSUME pc[s] = "reservation", pc' = [pc EXCEPT ![s] = "hierarchy"],
             UNCHANGED <<waiting, data>>
      PROVE  Typed'
  <2>1. Waits'
    BY <1>0, <1>2, Moves DEF InTransaction
  <2> QED
    BY <1>0, <1>2, <2>1, Quiet DEF Receiving
<1>3. CASE GetBudgetsWithParent(s)
  <2>1. Waits'
    BY <1>0, <1>3, Moves DEF GetBudgetsWithParent, InTransaction
  <2> QED
    BY <1>0, <1>3, <2>1, Quiet DEF GetBudgetsWithParent, Receiving
<1>4. CASE BeginCharge(s)
  <2>1. PICK charged : pc[s] = "beginning" /\ Begin(s, ChargeLocks(charged), "charging")
    BY <1>4 DEF BeginCharge
  <2>2. ChargeLocks(charged) \in Seq(Budgets \X Modes)
    BY ChargeLockTypes
  <2>3. Waits'
    BY <1>0, <2>1, <2>2, Begins DEF InTransaction
  <2>4. UNCHANGED data /\ pc' = [pc EXCEPT ![s] = "charging"]
    BY <2>1 DEF Begin
  <2> QED
    BY <1>0, <2>1, <2>3, <2>4, Quiet DEF Receiving
<1>5. Finish(s) => GoneIdle(s) /\ states' \subseteq Ids /\ left' \subseteq Ids
  BY DEF Finish, Typed, StreamData
<1>6. CASE GetReservation(s)
  BY <1>2, <1>5, <1>6, TypeEnds DEF GetReservation, InTransaction
<1>7. CASE CommitCharge(s) \/ ChargeFails(s)
  BY <1>5, <1>7, TypeEnds DEF CommitCharge, ChargeFails
<1> QED
  BY <1>1, <1>3, <1>4, <1>6, <1>7 DEF Charge

\* The messages of the gateway keep the types.
LEMMA TypeGateway ==
    ASSUME Typed, NEW s \in Streams, Gateway(s)
    PROVE  Typed'
<1>0. /\ s \in Procs /\ Waits
      /\ \A l \in {"check", "sent", "responding", "cost"} : l \in Labels(s) /\ l \in AllLabels
  BY DEF Typed, Procs, Labels, AllLabels, CheckLabels, ChargeLabels
<1>1. CASE RequestHeaders(s)
  <2>0. PICK i \in Ids, m \in Models \cup {NoModel} :
            /\ id' = [id EXCEPT ![s] = i] /\ model' = [model EXCEPT ![s] = m]
            /\ states' = states \cup {i}
    BY <1>1 DEF RequestHeaders
  <2>1. /\ pc[s] = "idle" /\ pc' = [pc EXCEPT ![s] = "check"]
        /\ UNCHANGED <<waiting, body, buffer, left>>
    BY <1>1 DEF RequestHeaders
  <2>2. Waits'
    BY <1>0, <2>1, Moves DEF InTransaction
  <2>3. StreamData'
    BY <2>0, <2>1 DEF Typed, StreamData
  <2>4. ASSUME NEW t \in Streams
        PROVE  Buffering(t)'
    <3>1. pc'[t] = IF t = s THEN "check" ELSE pc[t]
      BY <2>1 DEF Typed, Waits, Discipline, Procs
    <3> QED
      BY <2>1, <3>1 DEF Typed, Buffering, Receiving
  <2> QED
    BY <2>2, <2>3, <2>4 DEF Typed
<1>2. CASE RequestBody(s)
  <2>0. PICK m \in Models \cup {NoModel} :
            model' = IF model[s] # NoModel THEN model ELSE [model EXCEPT ![s] = m]
    BY <1>2 DEF RequestBody
  <2>1. /\ pc[s] = "forwarded" /\ pc' = [pc EXCEPT ![s] = "sent"]
        /\ UNCHANGED <<waiting, id, body, buffer, states, left>>
    BY <1>2 DEF RequestBody
  <2>2. Waits'
    BY <1>0, <2>1, Moves DEF InTransaction
  <2>3. StreamData'
    BY <2>0, <2>1 DEF Typed, StreamData
  <2> QED
    BY <1>0, <2>1, <2>2, <2>3, DataKept DEF Typed, Receiving
<1>3. CASE ResponseBody(s)
  <2>0. /\ pc[s] \in {"forwarded", "sent", "responding"}
        /\ UNCHANGED <<waiting, id, states, left>>
    BY <1>3 DEF ResponseBody
  <2>1. PICK b \in IF pc[s] = "responding" THEN {body[s]} ELSE Bodies :
        \E n \in Len(buffer[s]) + 1 .. Len(b.events) :
          /\ body' = [body EXCEPT ![s] = b]
          /\ buffer' = [buffer EXCEPT ![s] =
                Buffered(@, SubSeq(b.events, Len(buffer[s]) + 1, n))]
          /\ IF n = Len(b.events)
             THEN /\ pc' = [pc EXCEPT ![s] = "cost"]
                  /\ model' = IF model[s] # NoModel THEN model
                              ELSE [model EXCEPT ![s] = b.model]
             ELSE /\ pc' = [pc EXCEPT ![s] = "responding"]
                  /\ UNCHANGED model
    BY <1>3 DEF ResponseBody
  <2>2. PICK n \in Len(buffer[s]) + 1 .. Len(b.events) :
          /\ body' = [body EXCEPT ![s] = b]
          /\ buffer' = [buffer EXCEPT ![s] =
                Buffered(buffer[s], SubSeq(b.events, Len(buffer[s]) + 1, n))]
          /\ IF n = Len(b.events)
             THEN /\ pc' = [pc EXCEPT ![s] = "cost"]
                  /\ model' = IF model[s] # NoModel THEN model
                              ELSE [model EXCEPT ![s] = b.model]
             ELSE /\ pc' = [pc EXCEPT ![s] = "responding"]
                  /\ UNCHANGED model
    BY <2>1
  <2>3. /\ b \in Bodies /\ b.events \in Seq(Events) /\ b.model \in Models \cup {NoModel}
        /\ buffer[s] \in Seq(Events) /\ IsPrefix(buffer[s], b.events)
    <3>1. CASE pc[s] = "responding"
      BY <3>1, BodyTypes DEF Typed, StreamData, Buffering
    <3>2. CASE pc[s] # "responding"
      <4>1. buffer[s] = <<>> /\ b \in Bodies
        BY <2>0, <3>2 DEF Typed, Buffering, Receiving
      <4> QED
        BY <4>1, BodyTypes, EmptyPrefix
    <3> QED
      BY <3>1, <3>2
  <2> DEFINE new == Buffered(buffer[s], SubSeq(b.events, Len(buffer[s]) + 1, n))
             l == IF n = Len(b.events) THEN "cost" ELSE "responding"
  <2>4. new \in Seq(Events) /\ IsPrefix(new, b.events) /\ (n = Len(b.events) => new = b.events)
    BY <2>3, NextEvents
  <2>5. /\ body' = [body EXCEPT ![s] = b] /\ buffer' = [buffer EXCEPT ![s] = new]
        /\ pc' = [pc EXCEPT ![s] = l]
    BY <2>2
  <2>6. model' \in [Streams -> Models \cup {NoModel}]
    BY <2>2, <2>3 DEF Typed, StreamData
  <2>7. l \in Receiving /\ (l = "cost" => new = b.events)
    BY <2>4 DEF Receiving
  <2> HIDE DEF new, l, Events
  <2>8. Waits'
    BY <1>0, <2>0, <2>5, <2>7, Moves DEF InTransaction, Receiving
  <2>9. StreamData'
    BY <2>0, <2>3, <2>4, <2>5, <2>6 DEF Typed, StreamData
  <2>10. ASSUME NEW t \in Streams
         PROVE  Buffering(t)'
    <3>1. /\ pc'[t] = IF t = s THEN l ELSE pc[t]
          /\ buffer'[t] = IF t = s THEN new ELSE buffer[t]
          /\ body'[t] = IF t = s THEN b ELSE body[t]
      BY <2>5 DEF Typed, StreamData, Waits, Discipline, Procs
    <3> QED
      BY <2>3, <2>4, <2>7, <3>1 DEF Typed, Buffering, Receiving
  <2> QED
    BY <2>8, <2>9, <2>10 DEF Typed
<1>4. CASE Abort(s)
  BY <1>4, TypeEnds DEF Abort, Typed, StreamData
<1> QED
  BY <1>1, <1>2, <1>3, <1>4, TypeCheck, TypeCharge DEF Gateway

\* A step that drops rows to go, and perhaps locks, but not the connection.
LEMMA Drops ==
    ASSUME Waits, NEW p \in Procs, NEW l \in Labels(p), l \in AllLabels, l \in InTransaction,
           pc[p] \in InTransaction, pc' = [pc EXCEPT ![p] = l], UNCHANGED conn,
           NEW w \in Seq(Budgets \X Modes), want' = [want EXCEPT ![p] = w],
           NEW L, L \subseteq locks[p], locks' = [locks EXCEPT ![p] = L]
    PROVE  Waits'
<1>1. \A q \in Procs : /\ locks'[q] \subseteq locks[q] /\ pc'[q] \in Labels(q)
                       /\ q # p => /\ pc'[q] = pc[q] /\ want'[q] = want[q]
                                   /\ locks'[q] = locks[q]
  BY DEF Waits, Discipline
<1>2. /\ pc' \in [Procs -> AllLabels] /\ want' \in [Procs -> Seq(Budgets \X Modes)]
      /\ locks' \in [Procs -> SUBSET (Budgets \X Modes)]
  BY DEF Waits, Discipline
<1>3. conn[p] /\ pc'[p] \in InTransaction
  BY DEF Waits, Discipline
<1>4. Discipline'
  BY <1>1, <1>2, <1>3 DEF Waits, Discipline, Labels, InTransaction, CheckLabels, ChargeLabels
<1>5. PoolKept'
  BY DEF Waits, PoolKept, Using
<1>6. LocksExclude'
  <2> SUFFICES ASSUME NEW q \in Procs, NEW r \in Procs, q # r,
                      NEW m \in locks'[q], NEW k \in locks'[r], m[1] = k[1]
               PROVE  ~Conflicting(m[2], k[2])
    BY DEF LocksExclude, Conflicting
  <2>1. m \in locks[q] /\ k \in locks[r]
    BY <1>1
  <2> QED
    BY <2>1 DEF Waits, LocksExclude
<1> QED
  BY <1>4, <1>5, <1>6 DEF Waits

\* The transaction of a reset or a deletion is over.
LEMMA TypeOver ==
    ASSUME Typed, NEW p \in Procs, pc[p] \in {"resetting", "deleting", "abandoned"}, Over(p)
    PROVE  Typed'
<1>0. /\ Waits /\ Close(p) /\ pc' = [pc EXCEPT ![p] = "idle"] /\ UNCHANGED data
      /\ "idle" \in Labels(p)
  BY DEF Typed, Over, Labels
<1>1. Waits'
  BY <1>0, Closes DEF AllLabels, InTransaction
<1> QED
  BY <1>0, <1>1, Quiet DEF Receiving

\* A victim of the deadlock detection gives back its locks.
LEMMA TypeVictim ==
    ASSUME Typed, NEW p \in Procs, Victim(p)
    PROVE  Typed'
<1>0. Waits /\ pc[p] \in Labels(p) /\ (p \in Streams \/ p \in Workers)
  BY DEF Typed, Waits, Discipline, Procs
<1>1. CASE /\ pc[p] = "locking" /\ locks' = [locks EXCEPT ![p] = {}]
           /\ want' = [want EXCEPT ![p] = <<>>] /\ UNCHANGED <<pc, conn, data>>
  <2>1. <<>> \in Seq(Budgets \X Modes)
    OBVIOUS
  <2>2. pc' = [pc EXCEPT ![p] = "locking"]
    BY <1>0, <1>1 DEF Waits, Discipline
  <2>3. /\ {} \subseteq locks[p] /\ "locking" \in Labels(p) /\ UNCHANGED conn
        /\ "locking" \in AllLabels /\ "locking" \in InTransaction /\ pc[p] \in InTransaction
        /\ want' = [want EXCEPT ![p] = <<>>] /\ locks' = [locks EXCEPT ![p] = {}]
    BY <1>0, <1>1 DEF AllLabels, InTransaction, CheckLabels
  <2>4. Waits'
    <3> DEFINE none == {}
               nil == <<>>
               l == "locking"
    <3>1. none \subseteq locks[p] /\ nil \in Seq(Budgets \X Modes) /\ l \in Labels(p)
      BY <2>1, <2>3
    <3>2. /\ locks' = [locks EXCEPT ![p] = none] /\ want' = [want EXCEPT ![p] = nil]
          /\ pc' = [pc EXCEPT ![p] = l] /\ l \in AllLabels /\ l \in InTransaction
      BY <2>2, <2>3
    <3> HIDE DEF none, nil, l
    <3> QED
      BY <1>0, <2>3, <3>1, <3>2, Drops
  <2> QED
    BY <1>1, <2>2, <2>4, Quiet DEF Receiving
<1>2. CASE pc[p] = "charging" /\ Close(p) /\ Finish(p)
  <2>1. p \in Streams
    BY <1>0, <1>2 DEF Labels
  <2> QED
    BY <1>0, <1>2, <2>1, TypeEnds DEF Finish, Typed, StreamData
<1>3. CASE pc[p] \in {"resetting", "deleting"} /\ Over(p)
  BY <1>3, TypeOver
<1> QED
  BY <1>1, <1>2, <1>3 DEF Victim

\* The budgets are finitely many.
LEMMA BudgetsFinite == IsFiniteSet(Budgets)
<1>1. CheckOrder \in Surjection(1..Len(CheckOrder), Budgets)
  <2>1. CheckOrder \in Seq(Budgets)
    BY StreamAssumption
  <2>2. CheckOrder \in [1..Len(CheckOrder) -> Budgets] /\ DOMAIN CheckOrder = 1..Len(CheckOrder)
    BY <2>1
  <2>3. \A t \in Budgets : \E i \in DOMAIN CheckOrder : CheckOrder[i] = t
    BY DEF Budgets, Range
  <2> QED
    BY <2>2, <2>3 DEF Surjection
<1>2. IsFiniteSet(1..Len(CheckOrder))
  BY StreamAssumption, FS_Interval
<1> QED
  BY <1>1, <1>2, FS_Surjection

\* The locks of a reset or a deletion.
LEMMA WriteLockTypes ==
    ASSUME NEW order \in Orders, NEW mode \in Modes
    PROVE  [i \in DOMAIN order |-> <<order[i], mode>>] \in Seq(Budgets \X Modes)
<1> DEFINE lockOrder == [i \in DOMAIN order |-> <<order[i], mode>>]
<1>0. PICK some \in SUBSET Budgets : order \in SetToSeqs(some)
  BY DEF Orders
<1>1. IsFiniteSet(Budgets)
  BY BudgetsFinite
<1> DEFINE c == Cardinality(some)
<1>2. c \in Nat
  BY <1>1, FS_Subset, FS_CardinalityType
<1>3. order \in [1..c -> some]
  BY <1>0 DEF SetToSeqs
<1> HIDE DEF c, Budgets
<1>4. \A i \in 1..c : <<order[i], mode>> \in Budgets \X Modes
  BY <1>3
<1>5. lockOrder \in [1..c -> Budgets \X Modes]
  BY <1>3, <1>4
<1> HIDE DEF lockOrder
<1>6. lockOrder \in Seq(Budgets \X Modes)
  BY <1>2, <1>5
<1> QED
  BY <1>6 DEF lockOrder

\* The resets and the deletions keep the types.
LEMMA TypeWorker ==
    ASSUME Typed, NEW w \in Workers,
           \/ BeginReset(w) \/ BeginDelete(w) \/ LockRow(w) \/ RowGone(w) \/ Commit(w)
           \/ DeleteFails(w) \/ PodEnds(w)
    PROVE  Typed'
<1>0. /\ w \in Procs /\ Waits /\ w \notin Streams
      /\ Labels(w) = {"idle", "resetting", "deleting", "abandoned"}
  BY StreamAssumption DEF Typed, Procs, Labels
<1>1. ASSUME NEW l \in {"resetting", "deleting"}, NEW mode \in Modes, NEW order \in Orders,
             pc[w] = "idle", Begin(w, [i \in DOMAIN order |-> <<order[i], mode>>], l)
      PROVE  Typed'
  <2> DEFINE lockOrder == [i \in DOMAIN order |-> <<order[i], mode>>]
  <2>1. lockOrder \in Seq(Budgets \X Modes) /\ Begin(w, lockOrder, l)
    BY <1>1, WriteLockTypes
  <2> HIDE DEF lockOrder
  <2>2. Waits'
    BY <1>0, <1>1, <2>1, Begins DEF InTransaction, AllLabels
  <2>3. UNCHANGED data /\ pc' = [pc EXCEPT ![w] = l]
    BY <2>1 DEF Begin
  <2> QED
    BY <1>0, <1>1, <2>2, <2>3, Quiet DEF Receiving
<1>2. CASE BeginReset(w)
  <2>1. "nokey" \in Modes
    BY DEF Modes
  <2> QED
    BY <1>1, <1>2, <2>1 DEF BeginReset
<1>3. CASE BeginDelete(w)
  <2>1. "update" \in Modes
    BY DEF Modes
  <2> QED
    BY <1>1, <1>3, <2>1 DEF BeginDelete
<1>4. CASE LockRow(w)
  <2>1. Waits' /\ UNCHANGED <<pc, data>>
    BY <1>0, <1>4, LockTaken DEF LockRow
  <2> QED
    BY <2>1 DEF Typed, StreamData, Buffering, data
<1>5. CASE RowGone(w)
  <2>1. PICK l \in {"deleting", "abandoned"} : pc' = [pc EXCEPT ![w] = l]
    BY <1>0, <1>5 DEF RowGone, Waits, Discipline
  <2>2. /\ pc[w] = "deleting" /\ want[w] # <<>> /\ want[w] \in Seq(Budgets \X Modes)
        /\ want' = [want EXCEPT ![w] = Tail(want[w])] /\ UNCHANGED <<conn, locks, data>>
    BY <1>0, <1>5 DEF RowGone, Waits, Discipline
  <2>3. Tail(want[w]) \in Seq(Budgets \X Modes)
    BY <2>2
  <2>4. locks' = [locks EXCEPT ![w] = locks[w]]
    BY <1>0, <2>2 DEF Waits, Discipline
  <2>5. Waits'
    BY <1>0, <2>1, <2>2, <2>3, <2>4, Drops DEF AllLabels, InTransaction
  <2> QED
    BY <1>0, <2>1, <2>2, <2>5, Quiet DEF Receiving
<1>6. CASE Commit(w) \/ DeleteFails(w) \/ PodEnds(w)
  BY <1>0, <1>6, TypeOver DEF Commit, DeleteFails, PodEnds
<1> QED
  BY <1>2, <1>3, <1>4, <1>5, <1>6

\* Every step keeps the types.
LEMMA TypeStep == Typed /\ [Next]_vars => Typed'
<1> SUFFICES ASSUME Typed, [Next]_vars
             PROVE  Typed'
  OBVIOUS
<1>1. CASE UNCHANGED vars
  BY <1>1 DEF vars, waiting, data, Typed, Waits, Discipline, PoolKept, LocksExclude, Using,
              StreamData, Buffering
<1>2. ASSUME NEW s \in Streams, StreamStep(s) \/ Gateway(s)
      PROVE  Typed'
  <2>1. s \in Procs
    BY DEF Procs
  <2> QED
    BY <1>2, <2>1, TypeCheck, TypeCharge, TypeGateway, TypeVictim DEF StreamStep
<1>3. ASSUME NEW w \in Workers,
             BeginReset(w) \/ BeginDelete(w) \/ WorkerStep(w) \/ DeleteFails(w) \/ PodEnds(w)
      PROVE  Typed'
  <2>1. w \in Procs
    BY DEF Procs
  <2> QED
    BY <1>3, <2>1, TypeWorker, TypeVictim DEF WorkerStep
<1> QED
  BY <1>1, <1>2, <1>3 DEF Next

\* Nobody is in a transaction and nothing is buffered.
LEMMA TypeInit == Init => Typed
<1> SUFFICES ASSUME Init
             PROVE  Typed
  OBVIOUS
<1>1. Discipline
  <2>1. /\ \A p \in Procs : pc[p] = "idle" /\ ~conn[p] /\ locks[p] = {} /\ want[p] = <<>>
        /\ \A p \in Procs : "idle" \in Labels(p)
    BY DEF Init, Labels
  <2>2. /\ pc \in [Procs -> AllLabels] /\ conn \in [Procs -> BOOLEAN]
        /\ locks \in [Procs -> SUBSET (Budgets \X Modes)]
    BY DEF Init, AllLabels
  <2>3. want \in [Procs -> Seq(Budgets \X Modes)]
    <3>1. <<>> \in Seq(Budgets \X Modes)
      OBVIOUS
    <3> QED
      BY <3>1 DEF Init
  <2> QED
    BY <2>1, <2>2, <2>3 DEF Discipline, InTransaction
<1>2. PoolKept
  <2>1. \A p \in Procs : Using(PodOf[p]) = {}
    BY DEF Init, Using
  <2>2. Cardinality({}) = 0 /\ 0 <= PoolSize
    BY FS_EmptySet, StreamAssumption
  <2> QED
    BY <2>1, <2>2 DEF PoolKept
<1>3. LocksExclude
  BY DEF Init, LocksExclude
<1>4. IsPrefix(<<>>, NoBody.events) /\ <<>> \in Seq(Events)
  BY EmptyPrefix
<1>5. StreamData
  <2>1. (CHOOSE i \in Ids : TRUE) \in Ids
    BY StreamAssumption
  <2> HIDE DEF Events, NoBody
  <2> QED
    BY <1>4, <2>1 DEF Init, StreamData
<1>6. \A s \in Streams : Buffering(s)
  <2>1. \A s \in Streams : pc[s] = "idle" /\ buffer[s] = <<>> /\ body[s] = NoBody
    BY DEF Init, Procs
  <2> HIDE DEF Events, NoBody
  <2> QED
    BY <1>4, <2>1 DEF Buffering, Receiving
<1> QED
  BY <1>1, <1>2, <1>3, <1>5, <1>6 DEF Typed, Waits

\* The inductive invariant.
LEMMA AlwaysTyped == Spec => []Typed
  BY TypeInit, TypeStep, PTL DEF Spec

\* The types and the discipline of the transactions: on every path through the check, the
\* charge, the resets and the deletions exactly the steps of a transaction hold a
\* connection and locks, a pool is never exceeded and no two processes hold conflicting
\* locks, however many pods, streams and budgets there are.
THEOREM TransactionsAreClosed == Spec => []TypeOK
<1>1. Typed => TypeOK
  <2> SUFFICES ASSUME Typed
               PROVE  TypeOK
    OBVIOUS
  <2>1. ASSUME NEW s \in Streams
        PROVE  pc[s] \in {"idle", "forwarded", "denied", "sent", "responding"}
                         \cup CheckLabels \cup ChargeLabels
    BY DEF Typed, Waits, Discipline, Procs, Labels
  <2>2. ASSUME NEW w \in Workers
        PROVE  pc[w] \in {"idle", "resetting", "deleting", "abandoned"}
    <3>1. w \in Procs /\ w \notin Streams
      BY StreamAssumption DEF Procs
    <3> QED
      BY <3>1 DEF Typed, Waits, Discipline, Labels
  <2>3. ASSUME NEW p \in Procs
        PROVE  conn[p] = (pc[p] \in InTransaction) /\ (~conn[p] => locks[p] = {} /\ want[p] = <<>>)
    <3>1. /\ conn[p] <=> pc[p] \in InTransaction
          /\ ~conn[p] => locks[p] = {} /\ want[p] = <<>>
          /\ conn[p] \in BOOLEAN
      BY DEF Typed, Waits, Discipline
    <3>2. conn[p] = (pc[p] \in InTransaction)
      <4>1. CASE conn[p] = TRUE
        BY <3>1, <4>1
      <4>2. CASE conn[p] = FALSE
        BY <3>1, <4>2
      <4> QED
        BY <3>1, <4>1, <4>2
    <3> QED
      BY <3>1, <3>2
  <2>4. \A s \in Streams : \E b \in Bodies \cup {NoBody} : body[s] = b
    BY DEF Typed, StreamData
  <2>5. \A s \in Streams : IsPrefix(buffer[s], body[s].events)
    BY DEF Typed, Buffering
  <2> QED
    BY <2>1, <2>2, <2>3, <2>4, <2>5
    DEF TypeOK, Typed, Waits, PoolKept, LocksExclude, StreamData
<1> QED
  BY <1>1, AlwaysTyped, PTL

-----------------------------------------------------------------------------
(***************************************************************************)
(* The states that are kept.                                               *)
(***************************************************************************)
\* An id that is kept, that is not dropped, and whose stream does not end, stays kept.
LEMMA StatesKept ==
    ASSUME Typed, StatesAreDropped, NEW p \in Procs, NEW l,
           pc' = [pc EXCEPT ![p] = l], l # "idle", pc[p] # "idle",
           UNCHANGED <<id, states, left>>
    PROVE  StatesAreDropped'
<1>1. \A t \in Streams : pc[t] # "idle" => pc'[t] # "idle"
  BY DEF Typed, Waits, Discipline, Procs
<1> QED
  BY <1>1 DEF StatesAreDropped

\* The end of a response drops the id of its stream, and no other.
LEMMA FinishDrops ==
    ASSUME Typed, StatesAreDropped, NEW s \in Streams, Finish(s)
    PROVE  StatesAreDropped'
<1>1. /\ states' = states \ {id[s]} /\ left' = left \ {id[s]} /\ UNCHANGED id
      /\ \A t \in Streams : t # s => pc'[t] = pc[t]
  BY DEF Finish, GoneIdle, Typed, Waits, Discipline, Procs
<1>2. ASSUME NEW i \in states'
      PROVE  i \in {id'[t] : t \in {u \in Streams : pc'[u] # "idle"}} \cup left'
  <2>1. i \in states /\ i # id[s]
    BY <1>1
  <2>2. CASE i \in left
    BY <1>1, <2>1, <2>2
  <2>3. ASSUME NEW t \in Streams, pc[t] # "idle", i = id[t]
        PROVE  i \in {id'[u] : u \in {v \in Streams : pc'[v] # "idle"}}
    <3>1. t # s /\ pc'[t] # "idle" /\ id'[t] = i
      BY <1>1, <2>1, <2>3
    <3> QED
      BY <3>1
  <2> QED
    BY <2>1, <2>2, <2>3 DEF StatesAreDropped
<1> QED
  BY <1>2 DEF StatesAreDropped

\* Every step keeps only the ids of open streams and of those that left no end.
LEMMA StatesStep == Typed /\ StatesAreDropped /\ [Next]_vars => StatesAreDropped'
<1> SUFFICES ASSUME Typed, StatesAreDropped, [Next]_vars
             PROVE  StatesAreDropped'
  OBVIOUS
<1>0. pc \in [Procs -> AllLabels] /\ \A p \in Procs : pc[p] \in Labels(p)
  BY DEF Typed, Waits, Discipline
<1>1. CASE UNCHANGED vars
  BY <1>1 DEF vars, data, StatesAreDropped
<1>2. ASSUME NEW s \in Streams, Check(s) \/ CheckFails(s)
      PROVE  StatesAreDropped'
  <2>1. s \in Procs
    BY DEF Procs
  <2>2. UNCHANGED <<id, states, left>>
    BY <1>2 DEF Check, BeginCheck, Begin, LockRow, AllowUnmatched, Match, EstimateCost,
                Reserve, Deny, CheckFails, data
  <2>3. CASE LockRow(s)
    BY <2>2, <2>3 DEF LockRow, StatesAreDropped
  <2>4. CASE ~LockRow(s)
    <3>1. PICK l : l # "idle" /\ pc[s] # "idle" /\ pc' = [pc EXCEPT ![s] = l]
      BY <1>2, <2>4 DEF Check, BeginCheck, Begin, AllowUnmatched, Match, EstimateCost,
                        Reserve, Deny, CheckFails
    <3> QED
      BY <2>1, <2>2, <3>1, StatesKept
  <2> QED
    BY <2>3, <2>4
<1>3. ASSUME NEW s \in Streams, Charge(s) \/ ChargeFails(s)
      PROVE  StatesAreDropped'
  <2>1. s \in Procs
    BY DEF Procs
  <2>2. CASE Finish(s)
    BY <2>2, FinishDrops
  <2>3. CASE ~Finish(s)
    <3>1. /\ UNCHANGED <<id, states, left>>
          /\ \E l : l # "idle" /\ pc[s] # "idle" /\ pc' = [pc EXCEPT ![s] = l]
      BY <1>3, <2>3 DEF Charge, CalculateCost, GetReservation, GetBudgetsWithParent,
                        BeginCharge, Begin, CommitCharge, ChargeFails, data
    <3> QED
      BY <2>1, <3>1, StatesKept
  <2> QED
    BY <2>2, <2>3
<1>4. ASSUME NEW s \in Streams, RequestHeaders(s)
      PROVE  StatesAreDropped'
  <2>1. PICK i \in Ids : id' = [id EXCEPT ![s] = i] /\ states' = states \cup {i}
    BY <1>4 DEF RequestHeaders
  <2>2. pc[s] = "idle" /\ pc' = [pc EXCEPT ![s] = "check"] /\ UNCHANGED left
    BY <1>4 DEF RequestHeaders
  <2>3. /\ id'[s] = i /\ pc'[s] = "check"
        /\ \A t \in Streams : t # s => id'[t] = id[t] /\ pc'[t] = pc[t]
    BY <1>0, <2>1, <2>2 DEF Typed, StreamData, Procs
  <2>4. \A t \in Streams : pc[t] # "idle" => id'[t] = id[t] /\ pc'[t] # "idle"
    BY <2>2, <2>3
  <2> QED
    BY <2>1, <2>2, <2>3, <2>4 DEF StatesAreDropped
<1>5. ASSUME NEW s \in Streams, RequestBody(s) \/ ResponseBody(s)
      PROVE  StatesAreDropped'
  <2>1. s \in Procs
    BY DEF Procs
  <2>2. /\ UNCHANGED <<id, states, left>>
        /\ \E l : l # "idle" /\ pc[s] # "idle" /\ pc' = [pc EXCEPT ![s] = l]
    BY <1>5 DEF RequestBody, ResponseBody
  <2> QED
    BY <2>1, <2>2, StatesKept
<1>6. ASSUME NEW s \in Streams, Abort(s)
      PROVE  StatesAreDropped'
  <2>1. /\ left' = left \cup {id[s]} /\ UNCHANGED <<id, states>>
        /\ pc' = [pc EXCEPT ![s] = "idle"]
    BY <1>6 DEF Abort, GoneIdle
  <2>2. \A t \in Streams : t # s => pc'[t] = pc[t]
    BY <1>0, <2>1 DEF Procs
  <2> QED
    BY <2>1, <2>2 DEF StatesAreDropped
<1>7. ASSUME NEW w \in Workers,
             \/ BeginReset(w) \/ BeginDelete(w) \/ LockRow(w) \/ RowGone(w) \/ Commit(w)
             \/ DeleteFails(w) \/ PodEnds(w)
      PROVE  StatesAreDropped'
  <2>1. w \in Procs /\ w \notin Streams
    BY StreamAssumption DEF Procs
  <2>2. UNCHANGED <<id, states, left>> /\ (pc' = pc \/ \E l : pc' = [pc EXCEPT ![w] = l])
    BY <1>7 DEF BeginReset, BeginDelete, Begin, LockRow, RowGone, Commit, DeleteFails, PodEnds,
                Over, data
  <2>3. \A t \in Streams : pc'[t] = pc[t]
    BY <1>0, <2>1, <2>2 DEF Procs
  <2> QED
    BY <2>2, <2>3 DEF StatesAreDropped
<1>8. ASSUME NEW p \in Procs, Victim(p)
      PROVE  StatesAreDropped'
  <2>1. CASE UNCHANGED <<pc, data>>
    BY <2>1 DEF StatesAreDropped, data
  <2>2. CASE pc[p] = "charging" /\ Finish(p)
    <3>1. p \in Streams
      BY <1>0, <2>2 DEF Labels, Procs
    <3> QED
      BY <2>2, <3>1, FinishDrops
  <2>3. CASE pc[p] \in {"resetting", "deleting"} /\ pc' = [pc EXCEPT ![p] = "idle"] /\ UNCHANGED data
    <3>1. p \notin Streams
      BY <1>0, <2>3 DEF Labels, CheckLabels, ChargeLabels
    <3>2. \A t \in Streams : pc'[t] = pc[t]
      BY <1>0, <2>3, <3>1 DEF Procs
    <3> QED
      BY <2>3, <3>2 DEF StatesAreDropped, data
  <2> QED
    BY <1>8, <2>1, <2>2, <2>3 DEF Victim, Over
<1> QED
  BY <1>1, <1>2, <1>3, <1>4, <1>5, <1>6, <1>7, <1>8
  DEF Next, StreamStep, WorkerStep, Gateway, Procs

\* requestStates keeps the id of a stream that is open, or that ended without the end of a
\* response: the end of every other deletes it, whatever ids the other streams have.
THEOREM StatesAreKeptForTheOpen == Spec => []StatesAreDropped
<1>1. Init => StatesAreDropped
  BY DEF Init, StatesAreDropped
<1> QED
  BY <1>1, StatesStep, AlwaysTyped, PTL DEF Spec
-----------------------------------------------------------------------------
(***************************************************************************)
(* The tokens of a response.                                               *)
(***************************************************************************)
\* Where the parser is right about whole responses, a response is charged for all of its
\* tokens however the gateway splits it: the buffer at the end of the stream is the response.
THEOREM SplitsDoNotMatter == ReadsWhole => (Spec => []ChargedForWholeResponse)
<1> SUFFICES ASSUME ReadsWhole
             PROVE  Spec => []ChargedForWholeResponse
  OBVIOUS
<1>1. Typed => ChargedForWholeResponse
  BY DEF Typed, Buffering, ChargedForWholeResponse, ReadsWhole
<1> QED
  BY <1>1, AlwaysTyped, PTL

-----------------------------------------------------------------------------
(***************************************************************************)
(* Hangs.  A check takes the rows of all budgets in one order, so the row  *)
(* that it waits for comes after every row it holds, and whoever blocks it *)
(* with a check's lock has fewer rows to go.                               *)
(***************************************************************************)
Rows == Len(CheckOrder)

RightOrder(label, w, held) ==
    /\ label = "locking" =>
          /\ Len(w) <= Rows
          /\ \A i \in 1..Len(w) : w[i] = <<CheckOrder[Rows - Len(w) + i], "update">>
          /\ \A l \in held : \E i \in 1..(Rows - Len(w)) : l = <<CheckOrder[i], "update">>
    /\ label \in {"pricing", "deciding"} => w = <<>>

Orderly(s) == RightOrder(pc[s], want[s], locks[s])

InOrder == \A s \in Streams : Orderly(s)

\* A step of a process that is in order afterwards keeps all in order.
LEMMA OrderKept ==
    ASSUME Typed, InOrder, NEW p \in Procs,
           \A q \in Procs : q # p => pc'[q] = pc[q] /\ want'[q] = want[q] /\ locks'[q] = locks[q],
           p \in Streams => Orderly(p)'
    PROVE  InOrder'
<1> SUFFICES ASSUME NEW s \in Streams
             PROVE  Orderly(s)'
  BY DEF InOrder
<1>1. CASE s = p
  BY <1>1
<1>2. CASE s # p
  <2>1. pc'[s] = pc[s] /\ want'[s] = want[s] /\ locks'[s] = locks[s]
    BY <1>2 DEF Procs
  <2> QED
    BY <2>1 DEF InOrder, Orderly
<1> QED
  BY <1>1, <1>2

\* A process that closes its transaction is in order.
LEMMA OrderCloses ==
    ASSUME Typed, InOrder, NEW p \in Procs, NEW l, Close(p), pc' = [pc EXCEPT ![p] = l],
           l \notin {"locking", "pricing", "deciding"}
    PROVE  InOrder'
<1>1. /\ pc'[p] = l
      /\ \A q \in Procs : q # p => pc'[q] = pc[q] /\ want'[q] = want[q] /\ locks'[q] = locks[q]
  BY DEF Close, Typed, Waits, Discipline
<1>2. Orderly(p)'
  BY <1>1 DEF Orderly, RightOrder
<1> QED
  BY <1>1, <1>2, OrderKept

\* A process that takes and gives nothing stays in order.
LEMMA OrderMoves ==
    ASSUME Typed, InOrder, NEW p \in Procs, NEW l, UNCHANGED <<locks, want>>,
           pc' = [pc EXCEPT ![p] = l], l # "locking",
           l \in {"pricing", "deciding"} => want[p] = <<>>
    PROVE  InOrder'
<1>1. /\ pc'[p] = l
      /\ \A q \in Procs : q # p => pc'[q] = pc[q] /\ want'[q] = want[q] /\ locks'[q] = locks[q]
  BY DEF Typed, Waits, Discipline
<1>2. Orderly(p)'
  BY <1>1 DEF Orderly, RightOrder
<1> QED
  BY <1>1, <1>2, OrderKept

\* A process that begins any transaction but that of a check is in order.
LEMMA OrderBegins ==
    ASSUME Typed, InOrder, NEW p \in Procs, NEW l, NEW order, Begin(p, order, l),
           l \notin {"locking", "pricing", "deciding"}
    PROVE  InOrder'
<1>1. /\ pc'[p] = l
      /\ \A q \in Procs : q # p => pc'[q] = pc[q] /\ want'[q] = want[q] /\ locks'[q] = locks[q]
  BY DEF Begin, Typed, Waits, Discipline
<1>2. Orderly(p)'
  BY <1>1 DEF Orderly, RightOrder
<1> QED
  BY <1>1, <1>2, OrderKept

\* A check begins with all rows to go.
LEMMA OrderBeginCheck ==
    ASSUME Typed, InOrder, NEW s \in Streams, BeginCheck(s)
    PROVE  InOrder'
<1>0. s \in Procs /\ CheckOrder \in Seq(Budgets) /\ Rows \in Nat
  BY StreamAssumption DEF Procs, Rows
<1> DEFINE lockOrder == [i \in DOMAIN CheckOrder |-> <<CheckOrder[i], "update">>]
<1>1. pc[s] = "check" /\ Begin(s, lockOrder, "locking")
  BY DEF BeginCheck, Ordered
<1>2. /\ pc'[s] = "locking" /\ want'[s] = lockOrder /\ locks' = locks
      /\ \A q \in Procs : q # s => pc'[q] = pc[q] /\ want'[q] = want[q] /\ locks'[q] = locks[q]
  BY <1>0, <1>1 DEF Begin, Typed, Waits, Discipline
<1>3. locks[s] = {}
  BY <1>0, <1>1 DEF Typed, Waits, Discipline, InTransaction
<1>4. Len(lockOrder) = Rows /\ \A i \in 1..Rows : lockOrder[i] = <<CheckOrder[i], "update">>
  BY <1>0 DEF Rows
<1> HIDE DEF lockOrder
<1>5. \A i \in 1..Rows : Rows - Len(lockOrder) + i = i
  BY <1>0, <1>4
<1>6. Orderly(s)'
  BY <1>0, <1>2, <1>3, <1>4, <1>5 DEF Orderly, RightOrder, Rows
<1> QED
  BY <1>0, <1>2, <1>6, OrderKept

\* The row that a check locks is the first of the rows it has to go.
LEMMA OrderLock ==
    ASSUME Typed, InOrder, NEW p \in Procs, LockRow(p)
    PROVE  InOrder'
<1>0. /\ want[p] # <<>> /\ want[p] \in Seq(Budgets \X Modes)
      /\ pc' = pc /\ want'[p] = Tail(want[p]) /\ locks'[p] = locks[p] \cup {Head(want[p])}
      /\ \A q \in Procs : q # p => pc'[q] = pc[q] /\ want'[q] = want[q] /\ locks'[q] = locks[q]
  BY DEF LockRow, Typed, Waits, Discipline
<1>1. ASSUME p \in Streams
      PROVE  Orderly(p)'
  <2> DEFINE w == want[p]
             t == Tail(w)
  <2>0. Orderly(p) /\ Rows \in Nat
    BY <1>1, StreamAssumption DEF InOrder, Rows
  <2>1. CASE pc[p] = "locking"
    <3>1. /\ Len(w) \in Nat /\ Len(w) >= 1 /\ Len(t) = Len(w) - 1 /\ Head(w) = w[1]
          /\ \A i \in 1..Len(t) : t[i] = w[i + 1]
      BY <1>0
    <3>2. /\ Len(w) <= Rows
          /\ \A i \in 1..Len(w) : w[i] = <<CheckOrder[Rows - Len(w) + i], "update">>
          /\ \A l \in locks[p] : \E i \in 1..(Rows - Len(w)) : l = <<CheckOrder[i], "update">>
      BY <2>0, <2>1 DEF Orderly, RightOrder
    <3> HIDE DEF w, t
    <3>3. \A i \in 1..Len(t) : t[i] = <<CheckOrder[Rows - Len(t) + i], "update">>
      <4> SUFFICES ASSUME NEW i \in 1..Len(t)
                   PROVE  t[i] = <<CheckOrder[Rows - Len(t) + i], "update">>
        OBVIOUS
      <4>1. i + 1 \in 1..Len(w) /\ Rows - Len(w) + (i + 1) = Rows - Len(t) + i
        BY <2>0, <3>1
      <4> QED
        BY <3>1, <3>2, <4>1
    <3>4. \A l \in locks[p] \cup {Head(w)} : \E i \in 1..(Rows - Len(t)) :
              l = <<CheckOrder[i], "update">>
      <4> SUFFICES ASSUME NEW l \in locks[p] \cup {Head(w)}
                   PROVE  \E i \in 1..(Rows - Len(t)) : l = <<CheckOrder[i], "update">>
        OBVIOUS
      <4>1. CASE l \in locks[p]
        <5>1. PICK i \in 1..(Rows - Len(w)) : l = <<CheckOrder[i], "update">>
          BY <3>2, <4>1
        <5>2. i \in 1..(Rows - Len(t))
          BY <2>0, <3>1
        <5> QED
          BY <5>1, <5>2
      <4>2. CASE l = Head(w)
        <5>1. Rows - Len(w) + 1 \in 1..(Rows - Len(t)) /\ 1 \in 1..Len(w)
          BY <2>0, <3>1, <3>2
        <5>2. l = <<CheckOrder[Rows - Len(w) + 1], "update">>
          BY <3>1, <3>2, <4>2, <5>1
        <5> QED
          BY <5>1, <5>2
      <4> QED
        BY <4>1, <4>2
    <3>5. want'[p] = t /\ locks'[p] = locks[p] \cup {Head(w)} /\ pc'[p] = "locking"
      BY <1>0, <2>1 DEF w, t
    <3>6. Len(t) <= Rows
      BY <2>0, <3>1, <3>2
    <3> QED
      BY <3>3, <3>4, <3>5, <3>6 DEF Orderly, RightOrder, Rows
  <2>2. CASE pc[p] # "locking"
    BY <1>0, <2>0, <2>2 DEF Orderly, RightOrder
  <2> QED
    BY <2>1, <2>2
<1> QED
  BY <1>0, <1>1, OrderKept

\* Every step keeps the checks in order.
LEMMA OrderStep == Typed /\ InOrder /\ [Next]_vars => InOrder'
<1> SUFFICES ASSUME Typed, InOrder, [Next]_vars
             PROVE  InOrder'
  OBVIOUS
<1>1. CASE UNCHANGED vars
  BY <1>1 DEF vars, waiting, InOrder, Orderly, RightOrder, Rows
<1>2. ASSUME NEW s \in Streams, Check(s) \/ CheckFails(s)
      PROVE  InOrder'
  <2>1. s \in Procs
    BY DEF Procs
  <2>2. CASE AllowUnmatched(s) \/ Reserve(s) \/ Deny(s) \/ CheckFails(s)
    BY <2>1, <2>2, OrderCloses DEF AllowUnmatched, Reserve, Deny, CheckFails
  <2>3. CASE Match(s)
    BY <2>1, <2>3, OrderMoves DEF Match, waiting
  <2>4. CASE EstimateCost(s)
    <3>1. want[s] = <<>>
      BY <2>4 DEF EstimateCost, InOrder, Orderly, RightOrder
    <3> QED
      BY <2>1, <2>4, <3>1, OrderMoves DEF EstimateCost, waiting
  <2> QED
    BY <1>2, <2>1, <2>2, <2>3, <2>4, OrderBeginCheck, OrderLock DEF Check
<1>3. ASSUME NEW s \in Streams, Charge(s) \/ ChargeFails(s)
      PROVE  InOrder'
  <2>1. s \in Procs
    BY DEF Procs
  <2>2. CASE CommitCharge(s) \/ ChargeFails(s)
    BY <2>1, <2>2, OrderCloses DEF CommitCharge, ChargeFails, Finish, GoneIdle
  <2>3. CASE CalculateCost(s) \/ GetReservation(s) \/ GetBudgetsWithParent(s)
    BY <2>1, <2>3, OrderMoves
    DEF CalculateCost, GetReservation, GetBudgetsWithParent, Finish, GoneIdle, waiting
  <2>4. CASE BeginCharge(s)
    BY <2>1, <2>4, OrderBegins DEF BeginCharge
  <2> QED
    BY <1>3, <2>2, <2>3, <2>4 DEF Charge
<1>4. ASSUME NEW s \in Streams, RequestHeaders(s) \/ RequestBody(s) \/ ResponseBody(s)
      PROVE  InOrder'
  <2>1. s \in Procs
    BY DEF Procs
  <2>2. /\ UNCHANGED <<locks, want>>
        /\ \E l : l \notin {"locking", "pricing", "deciding"} /\ pc' = [pc EXCEPT ![s] = l]
    BY <1>4 DEF RequestHeaders, RequestBody, ResponseBody, waiting
  <2> QED
    BY <2>1, <2>2, OrderMoves
<1>5. ASSUME NEW s \in Streams, Abort(s)
      PROVE  InOrder'
  <2>1. s \in Procs
    BY DEF Procs
  <2> QED
    BY <1>5, <2>1, OrderCloses DEF Abort, GoneIdle
<1>6. ASSUME NEW w \in Workers,
             \/ BeginReset(w) \/ BeginDelete(w) \/ RowGone(w) \/ Commit(w)
             \/ DeleteFails(w) \/ PodEnds(w)
      PROVE  InOrder'
  <2>0. w \in Procs
    BY DEF Procs
  <2>1. CASE BeginReset(w) \/ BeginDelete(w)
    BY <2>0, <2>1, OrderBegins DEF BeginReset, BeginDelete
  <2>2. CASE RowGone(w)
    <3>1. /\ w \notin Streams
          /\ \A q \in Procs : q # w =>
                pc'[q] = pc[q] /\ want'[q] = want[q] /\ locks'[q] = locks[q]
      BY <2>2, StreamAssumption DEF RowGone, Typed, Waits, Discipline
    <3> QED
      BY <2>0, <3>1, OrderKept
  <2>3. CASE Commit(w) \/ DeleteFails(w) \/ PodEnds(w)
    BY <2>0, <2>3, OrderCloses DEF Commit, DeleteFails, PodEnds, Over
  <2> QED
    BY <1>6, <2>1, <2>2, <2>3
<1>7. ASSUME NEW p \in Procs, Victim(p)
      PROVE  InOrder'
  <2>1. CASE /\ pc[p] = "locking" /\ locks' = [locks EXCEPT ![p] = {}]
             /\ want' = [want EXCEPT ![p] = <<>>] /\ UNCHANGED pc
    <3>1. /\ pc'[p] = "locking" /\ locks'[p] = {} /\ want'[p] = <<>>
          /\ \A q \in Procs : q # p =>
                pc'[q] = pc[q] /\ want'[q] = want[q] /\ locks'[q] = locks[q]
      BY <2>1 DEF Typed, Waits, Discipline
    <3>2. Rows \in Nat
      BY StreamAssumption DEF Rows
    <3>3. Orderly(p)'
      BY <3>1, <3>2 DEF Orderly, RightOrder, Rows
    <3> QED
      BY <3>1, <3>3, OrderKept
  <2>2. CASE Close(p) /\ pc' = [pc EXCEPT ![p] = "idle"]
    BY <2>2, OrderCloses
  <2> QED
    BY <1>7, <2>1, <2>2 DEF Victim, Finish, GoneIdle, Over
<1> QED
  BY <1>1, <1>2, <1>3, <1>4, <1>5, <1>6, <1>7, OrderLock
  DEF Next, StreamStep, WorkerStep, Gateway, Procs

\* The order of the natural numbers, as a relation that is well-founded.
Less == {ss \in Nat \X Nat : ss[1] < ss[2]}

\* A set of natural numbers has a least one.
LEMMA Least ==
    ASSUME NEW T, T \subseteq Nat, T # {}
    PROVE  \E x \in T : \A y \in T : x <= y
<1>1. IsWellFoundedOn(Less, Nat)
  BY NatLessThanWellFounded, Zenon DEF OpToRel, Less
<1>2. PICK x \in T : \A y \in T : <<y, x>> \notin Less
  BY <1>1, WFMin
<1>3. ASSUME NEW y \in T
      PROVE  x <= y
  <2>1. x \in Nat /\ y \in Nat
    OBVIOUS
  <2>2. <<y, x>> \in Less <=> y < x
    BY <2>1 DEF Less
  <2> QED
    BY <1>2, <2>1, <2>2
<1> QED
  BY <1>3

\* Of two checks, the one that blocks the other has fewer rows to go.
LEMMA BlockersAreAhead ==
    ASSUME Typed, InOrder, NEW p \in Streams, NEW q \in Streams,
           pc[p] = "locking", pc[q] = "locking", q \in Blockers(p)
    PROVE  Len(want[q]) < Len(want[p])
<1>0. /\ Rows \in Nat /\ DOMAIN CheckOrder = 1..Rows
      /\ \A i, j \in DOMAIN CheckOrder : CheckOrder[i] = CheckOrder[j] => i = j
  BY StreamAssumption DEF Rows
<1>1. /\ want[p] # <<>> /\ want[p] \in Seq(Budgets \X Modes) /\ want[q] \in Seq(Budgets \X Modes)
      /\ \E l \in locks[q] : l[1] = Head(want[p])[1]
  BY DEF Blockers, Typed, Waits, Discipline, Procs
<1> DEFINE m == Len(want[p])
           n == Len(want[q])
<1>2. m \in Nat /\ n \in Nat /\ m >= 1 /\ Head(want[p]) = want[p][1] /\ 1 \in 1..m
  BY <1>1
<1>3. /\ m <= Rows /\ n <= Rows
      /\ want[p][1] = <<CheckOrder[Rows - m + 1], "update">>
      /\ \A l \in locks[q] : \E i \in 1..(Rows - n) : l = <<CheckOrder[i], "update">>
  BY <1>2 DEF InOrder, Orderly, RightOrder
<1>4. PICK i \in 1..(Rows - n) : CheckOrder[i] = CheckOrder[Rows - m + 1]
  BY <1>1, <1>2, <1>3
<1> HIDE DEF m, n
<1>5. i \in 1..Rows /\ Rows - m + 1 \in 1..Rows
  BY <1>0, <1>2, <1>3
<1>6. i = Rows - m + 1
  BY <1>0, <1>4, <1>5
<1>7. n < m
  BY <1>0, <1>2, <1>6
<1> QED
  BY <1>7 DEF m, n

\* In a set of processes that wait for each other, and in which no charge, no reset and
\* no deletion waits for a row, no transaction was left open and no check waits for its
\* second connection, whoever is in a transaction is a check that waits for a row.
LEMMA HungAreLocking ==
    ASSUME Typed, InOrder, NEW H \in SUBSET Procs, Hung(H),
           \A p \in H : /\ ~(pc[p] \in {"charging", "resetting", "deleting"} /\ Blockers(p) # {})
                        /\ pc[p] \notin {"pricing", "abandoned"},
           NEW p \in H, conn[p]
    PROVE  pc[p] = "locking" /\ p \in Streams /\ Blockers(p) \cap H # {}
<1>1. p \in Procs /\ pc[p] \in InTransaction /\ pc[p] \in Labels(p)
  BY DEF Typed, Waits, Discipline
<1>2. ~WaitsForConnection(p)
  BY <1>1 DEF WaitsForConnection, InTransaction
<1>3. Blockers(p) \cap H # {}
  BY <1>2 DEF Hung
<1>4. want[p] # <<>>
  BY <1>3 DEF Blockers
<1>5. pc[p] \notin {"charging", "resetting", "deleting", "pricing", "abandoned"}
  BY <1>3
<1>6. CASE p \in Streams
  BY <1>1, <1>3, <1>4, <1>5, <1>6 DEF InOrder, Orderly, RightOrder, InTransaction
<1>7. CASE p \notin Streams
  BY <1>1, <1>5, <1>7 DEF Labels, InTransaction
<1> QED
  BY <1>6, <1>7

\* Checks alone never hang one another, however many there are and however they overlap:
\* a set of processes none of which can go on before another has a charge, a reset or a
\* deletion that waits for a row, a deletion that has left its transaction open, or a check
\* that wants the second connection of EstimateCost.  The check of the set with the fewest
\* rows to go would wait for one with fewer.
THEOREM ChecksNeverHangAlone == Spec => []HangsAreKnown
<1>1. Typed /\ InOrder => HangsAreKnown
  <2> SUFFICES ASSUME Typed, InOrder, NEW H \in SUBSET Procs, Hung(H),
                      \A p \in H :
                          /\ ~(pc[p] \in {"charging", "resetting", "deleting"} /\ Blockers(p) # {})
                          /\ pc[p] \notin {"pricing", "abandoned"}
               PROVE  FALSE
    BY DEF HangsAreKnown
  <2> DEFINE L == {p \in H : conn[p]}
             T == {Len(want[p]) : p \in L}
  <2>1. \A p \in L : pc[p] = "locking" /\ p \in Streams /\ Blockers(p) \cap H # {}
    BY HungAreLocking
  <2>2. L # {}
    <3>1. PICK p \in H : \/ Blockers(p) \cap H # {}
                         \/ WaitsForConnection(p) /\ Using(PodOf[p]) \subseteq H
      BY DEF Hung
    <3>2. CASE Blockers(p) \cap H # {}
      <4>1. PICK q \in H : q \in Blockers(p)
        BY <3>2
      <4>2. locks[q] # {}
        BY <4>1 DEF Blockers
      <4>3. conn[q]
        BY <4>2 DEF Typed, Waits, Discipline
      <4> QED
        BY <4>3
    <3>3. CASE WaitsForConnection(p) /\ Using(PodOf[p]) \subseteq H
      <4>1. ~(Cardinality(Using(PodOf[p])) < PoolSize) /\ PoolSize \in Nat \ {0}
        BY <3>3, StreamAssumption DEF WaitsForConnection, FreeConnection
      <4>2. Using(PodOf[p]) # {}
        <5>1. Cardinality({}) = 0
          BY FS_EmptySet
        <5> QED
          BY <4>1, <5>1
      <4>3. \A q \in Using(PodOf[p]) : conn[q]
        BY DEF Using
      <4> QED
        BY <3>3, <4>2, <4>3
    <3> QED
      BY <3>1, <3>2, <3>3
  <2>3. T \subseteq Nat /\ T # {}
    <3>1. \A p \in L : Len(want[p]) \in Nat
      BY DEF Typed, Waits, Discipline
    <3> QED
      BY <2>2, <3>1
  <2>4. PICK n \in T : \A m \in T : n <= m
    BY <2>3, Least
  <2>5. PICK p \in L : n = Len(want[p])
    OBVIOUS
  <2>6. PICK q \in H : q \in Blockers(p)
    BY <2>1
  <2>7. conn[q]
    <3>1. locks[q] # {}
      BY <2>6 DEF Blockers
    <3> QED
      BY <3>1 DEF Typed, Waits, Discipline
  <2>8. q \in L /\ Len(want[q]) \in T
    BY <2>7
  <2>9. Len(want[q]) < Len(want[p])
    <3>1. p \in Streams /\ q \in Streams /\ pc[p] = "locking" /\ pc[q] = "locking"
      BY <2>1, <2>8
    <3> QED
      BY <2>6, <3>1, BlockersAreAhead
  <2> QED
    BY <2>3, <2>4, <2>5, <2>8, <2>9
<1>2. Init => InOrder
  <2>1. Init => \A s \in Streams : pc[s] = "idle"
    BY DEF Init, Procs
  <2> QED
    BY <2>1 DEF InOrder, Orderly, RightOrder
<1>3. Spec => []InOrder
  BY <1>2, OrderStep, AlwaysTyped, PTL DEF Spec
<1> QED
  BY <1>1, <1>3, AlwaysTyped, PTL
===============================================================================
