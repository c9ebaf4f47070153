---------------------------- MODULE BudgetStreams ----------------------------
(***************************************************************************)
(* The ext-proc streams of extproc-budget and what they wait for.          *)
(*                                                                         *)
(* Process answers the messages of one gateway stream in their order: the  *)
(* budget check at the request headers, the model from the bodies, the     *)
(* tokens and the charge at the end of the response.  The check and the    *)
(* charge run in transactions that take pooled connections and row locks   *)
(* one at a time, as do the resets and the deletions of budgets.  What     *)
(* they decide and write is the matter of BudgetLedger; here it is whether *)
(* they end, what they leave behind, and what the response is charged for. *)
(***************************************************************************)
EXTENDS Naturals, FiniteSets, SequencesExt

CONSTANTS
    Streams,        \* ext-proc streams, each used again after it has ended
    Workers,        \* the others: they reset budgets or delete them with their descendants
    PodOf,          \* the pod of a stream or worker; each pod has a pool
    PoolSize,       \* DB_MAX_CONNECTIONS
    Ids,            \* request ids
    Models, NoModel,\* model ids, and the empty one
    Bodies,         \* responses: a model and a sequence of events
    CheckOrder,     \* the enabled budgets by entity_type and name
    Chain           \* the budget of a reservation and its ancestors, children first

Procs == Streams \cup Workers
Budgets == Range(CheckOrder)

\* The orders in which some budgets can be locked.
Orders == UNION {SetToSeqs(S) : S \in SUBSET Budgets \ {{}}}

\* A line of a response body: what kind it is, and the tokens it reports.
Events == [kind : STRING, in : Nat, out : Nat]

ASSUME StreamAssumption ==
    /\ IsFiniteSet(Procs) /\ Streams \cap Workers = {}
    /\ PoolSize \in Nat \ {0}
    /\ Ids # {} /\ NoModel \notin Models
    /\ \A b \in Bodies : b.model \in Models \cup {NoModel} /\ b.events \in Seq(Events)
    /\ CheckOrder \in Seq(Budgets)
    /\ \A i, j \in DOMAIN CheckOrder : CheckOrder[i] = CheckOrder[j] => i = j
    /\ Chain \in Seq(Budgets) /\ Chain # <<>>

VARIABLES
    pc,      \* where a stream stands in Process, or a worker in its update
    conn,    \* whether it holds a connection for a transaction
    locks,   \* <<budget, mode>>: the row locks of the transaction
    want,    \* the locks it has still to take, in order
    id,      \* request id of each stream
    model,   \* ModelID of its state
    body,    \* the response it receives, until its tokens are parsed
    buffer,  \* StreamingBuffer: the events received so far
    states,  \* the keys of requestStates
    left     \* history: ids of streams that ended without a complete response

waiting == <<conn, locks, want>>
data    == <<id, model, body, buffer, states, left>>
vars    == <<pc, waiting, data>>

NoBody == [model |-> NoModel, events |-> <<>>, reported |-> [in |-> 0, out |-> 0]]

Init ==
    /\ pc = [p \in Procs |-> "idle"]
    /\ conn = [p \in Procs |-> FALSE]
    /\ locks = [p \in Procs |-> {}]
    /\ want = [p \in Procs |-> <<>>]
    /\ id \in [Streams -> {CHOOSE i \in Ids : TRUE}]
    /\ model = [s \in Streams |-> NoModel]
    /\ body = [s \in Streams |-> NoBody]
    /\ buffer = [s \in Streams |-> <<>>]
    /\ states = {}
    /\ left = {}
-----------------------------------------------------------------------------
\* Connections and row locks.

Using(pod) == {p \in Procs : PodOf[p] = pod /\ conn[p]}

\* A statement outside a transaction needs a free connection, and gives it back.
FreeConnection(p) == Cardinality(Using(PodOf[p])) < PoolSize

\* Row locks of PostgreSQL: FOR UPDATE, the UPDATE of other columns than the key,
\* and the key share lock of a foreign key check.
Conflicting(m, n) == {m, n} \notin {{"key"}, {"key", "nokey"}}

Blockers(p) ==
    IF want[p] = <<>> THEN {}
    ELSE {q \in Procs \ {p} : \E l \in locks[q] :
            l[1] = Head(want[p])[1] /\ Conflicting(l[2], Head(want[p])[2])}

Begin(p, order, label) ==
    /\ FreeConnection(p)
    /\ conn' = [conn EXCEPT ![p] = TRUE]
    /\ want' = [want EXCEPT ![p] = order]
    /\ pc' = [pc EXCEPT ![p] = label]
    /\ UNCHANGED <<locks, data>>

LockRow(p) ==
    /\ want[p] # <<>>
    /\ Blockers(p) = {}
    /\ locks' = [locks EXCEPT ![p] = @ \cup {Head(want[p])}]
    /\ want' = [want EXCEPT ![p] = Tail(@)]
    /\ UNCHANGED <<pc, conn, data>>

\* Commit or rollback: locks and connection are given back.
Close(p) ==
    /\ conn' = [conn EXCEPT ![p] = FALSE]
    /\ locks' = [locks EXCEPT ![p] = {}]
    /\ want' = [want EXCEPT ![p] = <<>>]

\* p is in a cycle of transactions that wait for each other's rows.
InCycle(p) ==
    /\ Blockers(p) # {}
    /\ \E H \in SUBSET Procs :
        /\ p \in H
        /\ \A q \in H : Blockers(q) \cap H # {} /\ \E r \in H : q \in Blockers(r)
-----------------------------------------------------------------------------
\* The request.

\* Request headers: the state is stored, with the model if a header names it.
RequestHeaders(s) ==
    /\ pc[s] = "idle"
    /\ \E i \in Ids, m \in Models \cup {NoModel} :
          /\ id' = [id EXCEPT ![s] = i]
          /\ model' = [model EXCEPT ![s] = m]
          /\ states' = states \cup {i}
    /\ pc' = [pc EXCEPT ![s] = "check"]
    /\ UNCHANGED <<waiting, body, buffer, left>>

\* Mutation of Ordered: the locking read has no ORDER BY.
AnyOrder(order) == TRUE

\* ORDER BY entity_type, name.
Ordered(order) == order = CheckOrder

\* GetEnabledBudgetsForUpdate: every enabled budget, FOR UPDATE.
BeginCheck(s) ==
    /\ pc[s] = "check"
    /\ \E order \in Orders :
          /\ ToSet(order) = Budgets /\ Ordered(order)
          /\ Begin(s, [i \in DOMAIN order |-> <<order[i], "update">>], "locking")

\* No budget that was read matches: forward, whatever becomes of the commit.
AllowUnmatched(s) ==
    /\ pc[s] = "locking" /\ want[s] = <<>>
    /\ pc' = [pc EXCEPT ![s] = "forwarded"]
    /\ Close(s)
    /\ UNCHANGED data

\* The transaction was the victim of a deadlock: PostgreSQL has aborted it, and what the
\* check has read is some of the rows (GetEnabledBudgetsForUpdate ignores rows.Err).
Interrupted(s) == locks[s] = {} /\ want[s] = <<>>

\* Some budget matches: a cached price is used at once, the empty model has none.
Match(s) ==
    /\ pc[s] = "locking" /\ want[s] = <<>>
    /\ \/ pc' = [pc EXCEPT ![s] = "pricing"]
       \/ model[s] # NoModel /\ pc' = [pc EXCEPT ![s] = "deciding"]
    /\ UNCHANGED <<waiting, data>>

\* EstimateCost reads the price on a second connection, inside the transaction.
EstimateCost(s) ==
    /\ pc[s] = "pricing"
    /\ FreeConnection(s)
    /\ pc' = [pc EXCEPT ![s] = "deciding"]
    /\ UNCHANGED <<waiting, data>>

\* CheckAndReserveBudget reserves and commits.
Reserve(s) ==
    /\ pc[s] = "deciding" /\ ~Interrupted(s)
    /\ pc' = [pc EXCEPT ![s] = "forwarded"]
    /\ Close(s)
    /\ UNCHANGED data

\* Mutation of Deny: the transaction is left open.
DenyWithoutRollback(s) ==
    /\ pc[s] = "deciding"
    /\ pc' = [pc EXCEPT ![s] = "denied"]
    /\ UNCHANGED <<waiting, data>>

\* The budget is exceeded, or a commit fails because the check was interrupted: rollback,
\* and an immediate response.
Deny(s) ==
    /\ pc[s] = "deciding"
    /\ pc' = [pc EXCEPT ![s] = "denied"]
    /\ Close(s)
    /\ UNCHANGED data

\* A statement of the check fails: an immediate response as well.
CheckFails(s) ==
    /\ pc[s] \in {"check", "locking", "pricing", "deciding"}
    /\ pc' = [pc EXCEPT ![s] = "denied"]
    /\ Close(s)
    /\ UNCHANGED data

\* The end of the request body: its model, or none, unless the header named it.
RequestBody(s) ==
    /\ pc[s] = "forwarded"
    /\ \E m \in Models \cup {NoModel} :
          model' = IF model[s] # NoModel THEN model ELSE [model EXCEPT ![s] = m]
    /\ pc' = [pc EXCEPT ![s] = "sent"]
    /\ UNCHANGED <<waiting, id, body, buffer, states, left>>
-----------------------------------------------------------------------------
\* The response.

\* Mutation of Buffered: each chunk replaces the buffer.
LastChunk(old, chunk) == chunk

\* StreamingBuffer.Write.
Buffered(old, chunk) == old \o chunk

Larger(new, old) == IF new > 0 THEN new ELSE old

\* parseSSETokenUsage, one line: an Anthropic start sets the input, start and delta
\* add to the output, and an OpenAI chunk replaces both.
ParseEvent(t, e) ==
    CASE e.kind = "start" -> [in |-> Larger(e.in, t.in), out |-> t.out + e.out]
      [] e.kind = "delta" -> [t EXCEPT !.out = @ + e.out]
      [] e.kind = "chunk" -> [in |-> Larger(e.in, t.in), out |-> Larger(e.out, t.out)]
      [] OTHER            -> t

\* parseTokenUsage: a body with "data: " anywhere is read as a stream of events;
\* "quoting" is a JSON body whose text holds it, which has no line to read then.
parseTokenUsage(buf) ==
    IF buf # <<>> /\ buf[1].kind = "json"
    THEN [in |-> buf[1].in, out |-> buf[1].out]
    ELSE FoldLeft(ParseEvent, [in |-> 0, out |-> 0], buf)

\* Some events of the response arrive; the last ones end the stream, and the model
\* of a JSON response is taken when no other is known.
ResponseBody(s) ==
    /\ pc[s] \in {"forwarded", "sent", "responding"}
    /\ \E b \in IF pc[s] = "responding" THEN {body[s]} ELSE Bodies :
       \E n \in Len(buffer[s]) + 1 .. Len(b.events) :
          /\ body' = [body EXCEPT ![s] = b]
          /\ buffer' = [buffer EXCEPT ![s] =
                Buffered(@, SubSeq(b.events, Len(buffer[s]) + 1, n))]
          /\ IF n = Len(b.events)
             THEN /\ pc' = [pc EXCEPT ![s] = "cost"]
                  /\ model' = IF model[s] # NoModel THEN model
                              ELSE [model EXCEPT ![s] = b.model]
             ELSE /\ pc' = [pc EXCEPT ![s] = "responding"]
                  /\ UNCHANGED model
    /\ UNCHANGED <<waiting, id, states, left>>

\* CalculateCost: the price is cached, or read from the database.  The response is
\* not looked at again.
CalculateCost(s) ==
    /\ pc[s] = "cost"
    /\ model[s] # NoModel \/ FreeConnection(s)
    /\ pc' = [pc EXCEPT ![s] = "reservation"]
    /\ body' = [body EXCEPT ![s] = NoBody]
    /\ buffer' = [buffer EXCEPT ![s] = <<>>]
    /\ UNCHANGED <<waiting, id, model, states, left>>

GoneIdle(s) ==
    /\ pc' = [pc EXCEPT ![s] = "idle"]
    /\ model' = [model EXCEPT ![s] = NoModel]
    /\ body' = [body EXCEPT ![s] = NoBody]
    /\ buffer' = [buffer EXCEPT ![s] = <<>>]
    /\ UNCHANGED id

\* Mutation of Finish: the state is kept.
FinishKeepsState(s) == GoneIdle(s) /\ UNCHANGED <<states, left>>

\* The end of the response, charged or not: requestStates.Delete, and the stream ends.
Finish(s) ==
    /\ GoneIdle(s)
    /\ states' = states \ {id[s]}
    /\ left' = left \ {id[s]}

\* GetReservationByRequestID: without a reservation nothing is charged.
GetReservation(s) ==
    /\ pc[s] = "reservation" /\ FreeConnection(s)
    /\ \/ pc' = [pc EXCEPT ![s] = "hierarchy"] /\ UNCHANGED data
       \/ Finish(s)
    /\ UNCHANGED waiting

GetBudgetsWithParent(s) ==
    /\ pc[s] = "hierarchy" /\ FreeConnection(s)
    /\ pc' = [pc EXCEPT ![s] = "beginning"]
    /\ UNCHANGED <<waiting, data>>

\* The locks of the charge, children first: an UPDATE of each charged budget, the
\* foreign key of its usage record for the others, and at last the UPDATE that takes
\* the estimate from the pending usage of the reserved budget.
ChargeLocks(charged) ==
    [i \in DOMAIN Chain |->
        <<Chain[i], IF Chain[i] \in charged THEN "nokey" ELSE "key">>]
    \o <<<<Head(Chain), "nokey">>>>

BeginCharge(s) ==
    /\ pc[s] = "beginning"
    /\ \E charged \in SUBSET Range(Chain) : Begin(s, ChargeLocks(charged), "charging")

CommitCharge(s) ==
    /\ pc[s] = "charging" /\ want[s] = <<>>
    /\ Close(s)
    /\ Finish(s)

\* A statement fails: the error is logged and the response goes on all the same.
ChargeFails(s) ==
    /\ pc[s] \in {"cost", "reservation", "hierarchy", "beginning", "charging"}
    /\ Close(s)
    /\ Finish(s)

\* The gateway ends the stream: ctx is cancelled, and with it the transaction.
Abort(s) ==
    /\ pc[s] # "idle"
    /\ GoneIdle(s)
    /\ Close(s)
    /\ left' = left \cup {id[s]}
    /\ UNCHANGED states
-----------------------------------------------------------------------------
\* The resets, the deletions, and the deadlock detection of PostgreSQL.

\* One UPDATE of ResetExpiredBudgets: it locks the expired rows as it meets them.
BeginReset(w) ==
    /\ pc[w] = "idle"
    /\ \E order \in Orders :
          Begin(w, [i \in DOMAIN order |-> <<order[i], "nokey">>], "resetting")

ChildrenFirst(order) ==
    \A i, j \in DOMAIN order : i < j =>
        ~\E m, n \in DOMAIN Chain : m < n /\ order[i] = Chain[n] /\ order[j] = Chain[m]

\* DeleteBudgetCascade: a DELETE of each descendant that was read, and of the budget.
BeginDelete(w) ==
    /\ pc[w] = "idle"
    /\ \E order \in Orders :
          /\ ChildrenFirst(order)
          /\ Begin(w, [i \in DOMAIN order |-> <<order[i], "update">>], "deleting")

\* The row has been deleted already.  ErrNotFound for the budget itself is returned with
\* err still nil: the transaction is not rolled back and its connection not given back.
RowGone(w) ==
    /\ pc[w] = "deleting" /\ want[w] # <<>> /\ Blockers(w) = {}
    /\ want' = [want EXCEPT ![w] = Tail(@)]
    /\ pc' = IF Len(want[w]) = 1 THEN [pc EXCEPT ![w] = "abandoned"] ELSE pc
    /\ UNCHANGED <<conn, locks, data>>

\* The transaction is over: committed, or rolled back because a DELETE violates a
\* foreign key; one that was abandoned ends with its pod.
Over(w) ==
    /\ pc' = [pc EXCEPT ![w] = "idle"]
    /\ Close(w)
    /\ UNCHANGED data

Commit(w) == pc[w] \in {"resetting", "deleting"} /\ want[w] = <<>> /\ Over(w)

DeleteFails(w) == pc[w] = "deleting" /\ Over(w)

PodEnds(w) == pc[w] = "abandoned" /\ Over(w)

\* A transaction in a cycle of lock waits is chosen to fail.  A check goes on with the
\* rows it has got, without their locks.
Victim(p) ==
    /\ InCycle(p)
    /\ \/ /\ pc[p] = "locking"
          /\ locks' = [locks EXCEPT ![p] = {}]
          /\ want' = [want EXCEPT ![p] = <<>>]
          /\ UNCHANGED <<pc, conn, data>>
       \/ pc[p] = "charging" /\ Close(p) /\ Finish(p)
       \/ pc[p] \in {"resetting", "deleting"} /\ Over(p)
-----------------------------------------------------------------------------
\* What a stream's own goroutine does, waiting for the database only.
Check(s) ==
    \/ BeginCheck(s) \/ LockRow(s) \/ AllowUnmatched(s) \/ Match(s)
    \/ EstimateCost(s) \/ Reserve(s) \/ Deny(s)

Charge(s) ==
    \/ CalculateCost(s) \/ GetReservation(s) \/ GetBudgetsWithParent(s)
    \/ BeginCharge(s) \/ CommitCharge(s)

StreamStep(s) == Check(s) \/ Charge(s) \/ Victim(s)

WorkerStep(w) == LockRow(w) \/ RowGone(w) \/ Commit(w) \/ Victim(w)

\* What the gateway sends, and what fails.
Gateway(s) ==
    \/ RequestHeaders(s) \/ RequestBody(s) \/ ResponseBody(s)
    \/ CheckFails(s) \/ ChargeFails(s) \/ Abort(s)

Next ==
    \/ \E s \in Streams : StreamStep(s) \/ Gateway(s)
    \/ \E w \in Workers : \/ BeginReset(w) \/ BeginDelete(w) \/ WorkerStep(w)
                          \/ DeleteFails(w) \/ PodEnds(w)

Spec == Init /\ [][Next]_vars

\* The queues of a row lock and of the pool are first in, first out: a step that is
\* possible again and again is taken.  Nothing is assumed of the gateway, of errors
\* or of how often resets and deletions start.
FairSpec ==
    /\ Spec
    /\ \A s \in Streams : SF_vars(StreamStep(s))
    /\ \A w \in Workers : SF_vars(WorkerStep(w))
-----------------------------------------------------------------------------
\* What a check or a charge in progress may wait for.

CheckLabels == {"check", "locking", "pricing", "deciding"}
ChargeLabels == {"cost", "reservation", "hierarchy", "beginning", "charging"}
InTransaction ==
    {"locking", "pricing", "deciding", "charging", "resetting", "deleting", "abandoned"}

\* A call of the service is under way; between the two, a stream is "forwarded" or "sent".
InCall(s) == pc[s] \in CheckLabels \cup ChargeLabels

WaitsForConnection(p) ==
    /\ ~FreeConnection(p)
    /\ \/ pc[p] \in {"check", "pricing", "reservation", "hierarchy", "beginning"}
       \/ pc[p] = "cost" /\ model[p] = NoModel

\* Nobody in H goes on before somebody in H does.
Hung(H) ==
    /\ H # {}
    /\ \A p \in H : \/ pc[p] = "abandoned"
                    \/ Blockers(p) \cap H # {}
                    \/ WaitsForConnection(p) /\ Using(PodOf[p]) \subseteq H

\* A check waits inside its transaction for a connection that never comes, or a row is
\* locked by a transaction that was left open.
Starved ==
    \E p \in Procs :
        /\ pc[p] \in {"pricing", "abandoned"} /\ (pc[p] = "abandoned" => locks[p] # {})
        /\ \E H \in SUBSET Procs : p \in H /\ Hung(H)

\* Invariant: the types, with the discipline of the transactions: exactly the steps
\* of a transaction hold a connection and locks, a pool is never exceeded and no two
\* processes hold conflicting locks (every early return of CheckAndReserveBudget and
\* DecrementBudgets commits or rolls back; one of DeleteBudgetCascade does not).
TypeOK ==
    /\ \A s \in Streams :
          pc[s] \in {"idle", "forwarded", "denied", "sent", "responding"}
                    \cup CheckLabels \cup ChargeLabels
    /\ \A w \in Workers : pc[w] \in {"idle", "resetting", "deleting", "abandoned"}
    /\ \A p \in Procs :
          /\ conn[p] = (pc[p] \in InTransaction)
          /\ ~conn[p] => locks[p] = {} /\ want[p] = <<>>
    /\ \A p \in Procs : Cardinality(Using(PodOf[p])) <= PoolSize
    /\ \A p, q \in Procs : p # q =>
          \A l \in locks[p], k \in locks[q] : l[1] = k[1] => ~Conflicting(l[2], k[2])
    /\ id \in [Streams -> Ids]
    /\ model \in [Streams -> Models \cup {NoModel}]
    /\ \A s \in Streams : \E b \in Bodies \cup {NoBody} : body[s] = b
    /\ \A s \in Streams : IsPrefix(buffer[s], body[s].events)
    /\ states \subseteq Ids /\ left \subseteq Ids

\* Invariant: checks alone never hang one another; whoever hangs, hangs with a charge, a
\* reset or a deletion that takes its rows in another order, with a deletion that has
\* left its transaction open, or with a check that wants the second connection of
\* EstimateCost (GetEnabledBudgetsForUpdate locks in one order).
HangsAreKnown ==
    \A H \in SUBSET Procs : Hung(H) =>
        \E p \in H : \/ pc[p] \in {"charging", "resetting", "deleting"} /\ Blockers(p) # {}
                     \/ pc[p] \in {"pricing", "abandoned"}

\* The tokens a response is charged for: those that were used, and once more the output
\* that an Anthropic start reports, which the count of the delta includes already.
Counted(b) ==
    [b.reported EXCEPT !.out = @ + IF b.events[1].kind = "start" THEN b.events[1].out ELSE 0]

\* The parser finds these in a response that it is given whole, unless it quotes an event.
ReadsWhole ==
    \A b \in Bodies : parseTokenUsage(b.events) = Counted(b) \/ b.events[1].kind = "quoting"

\* Invariant: at the end of a response the tokens are those of the whole response,
\* however it was split: never fewer than were used, and more only by what an Anthropic
\* start reports, with the exception of a JSON response that quotes "data: ", which is
\* counted as no tokens (parseTokenUsage).
ChargedForWholeResponse ==
    \A s \in Streams : pc[s] = "cost" =>
        \/ parseTokenUsage(buffer[s]) = Counted(body[s])
        \/ body[s].events[1].kind = "quoting"

\* Invariant: a key of requestStates is the id of an open stream or of one that ended
\* without the end of a response, denied or aborted: only those states are kept for
\* ever (requestStates.Delete).
StatesAreDropped ==
    states \subseteq {id[s] : s \in {t \in Streams : pc[t] # "idle"}} \cup left

\* Property: a check and a charge come to an end, or the pool is starved by a check
\* that waits for its second connection, or a deletion has kept its locks; the deadlocks
\* between checks, charges, resets and deletions are all ended by PostgreSQL
\* (CheckAndReserveBudget, DecrementBudgets).
CallsEnd ==
    \A s \in Streams : InCall(s) ~> ~InCall(s) \/ Starved
=============================================================================
