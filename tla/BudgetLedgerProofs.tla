------------------------- MODULE BudgetLedgerProofs -------------------------
(***************************************************************************)
(* Proofs about BudgetLedger, for every set of budgets, requests and pods. *)
(***************************************************************************)
EXTENDS BudgetLedger, FiniteSetTheorems, TLAPS

(***************************************************************************)
(* Sums of estimates.                                                      *)
(***************************************************************************)
\* Every sum of estimates is a natural number.
LEMMA ReservedNat ==
    ASSUME NEW S \in SUBSET Requests
    PROVE  IsFiniteSet(S) /\ IsFiniteSet(Tokens(S)) /\ Reserved(S) \in Nat
<1>1. IsFiniteSet(S)
  BY RequestAssumption, FS_Subset
<1>2. IsFiniteSet(1..MaxEst)
  BY RequestAssumption, FS_Interval
<1>3. IsFiniteSet(S \X (1..MaxEst))
  BY <1>1, <1>2, FS_Product
<1>4. Tokens(S) \in SUBSET (S \X (1..MaxEst))
  BY DEF Tokens
<1>5. IsFiniteSet(Tokens(S))
  BY <1>3, <1>4, FS_Subset
<1> QED
  BY <1>1, <1>5, FS_CardinalityType DEF Reserved

\* A new reservation adds its estimate to the sum.
LEMMA ReservedAdd ==
    ASSUME NEW S \in SUBSET Requests, NEW r \in Requests, r \notin S
    PROVE  Reserved(S \cup {r}) = Reserved(S) + Est[r]
<1> DEFINE R == {r} \X (1..Est[r])
<1>1. Est[r] \in Nat /\ Est[r] <= MaxEst
  BY RequestAssumption
<1>2. IsFiniteSet(1..Est[r]) /\ Cardinality(1..Est[r]) = Est[r]
  BY <1>1, FS_Interval
<1>3. IsFiniteSet({r}) /\ Cardinality({r}) = 1
  BY FS_Singleton
<1>4. IsFiniteSet(R) /\ Cardinality(R) = 1 * Est[r]
  BY <1>2, <1>3, FS_Product
<1>5. IsFiniteSet(Tokens(S)) /\ Reserved(S) \in Nat
  BY ReservedNat
<1>6. Tokens(S \cup {r}) = Tokens(S) \cup R
  BY <1>1, RequestAssumption DEF Tokens
<1>7. Tokens(S) \cap R = {}
  BY DEF Tokens
<1>8. Cardinality(Tokens(S) \cup R)
        = Cardinality(Tokens(S)) + Cardinality(R) - Cardinality(Tokens(S) \cap R)
  BY <1>4, <1>5, FS_Union
<1>9. Cardinality(Tokens(S) \cap R) = 0
  BY <1>7, FS_EmptySet
<1>10. Cardinality(R) = Est[r]
  BY <1>1, <1>4
<1> HIDE DEF R
<1>11. Cardinality(Tokens(S) \cup R) = Cardinality(Tokens(S)) + Est[r]
  BY <1>1, <1>5, <1>8, <1>9, <1>10 DEF Reserved
<1> QED
  BY <1>6, <1>11 DEF Reserved

\* Deleting a reservation takes its estimate off the sum.
LEMMA ReservedRemove ==
    ASSUME NEW S \in SUBSET Requests, NEW r \in S
    PROVE  Reserved(S \ {r}) = Reserved(S) - Est[r]
<1>1. Reserved((S \ {r}) \cup {r}) = Reserved(S \ {r}) + Est[r]
  BY ReservedAdd
<1>2. (S \ {r}) \cup {r} = S
  OBVIOUS
<1>3. Reserved(S \ {r}) \in Nat /\ Est[r] \in Nat
  BY ReservedNat, RequestAssumption
<1>4. Reserved(S) = Reserved(S \ {r}) + Est[r]
  BY <1>1, <1>2
<1> QED
  BY <1>3, <1>4

\* Deleting a set of rows takes their sum off.
LEMMA ReservedSplit ==
    ASSUME NEW T \in SUBSET Requests, NEW S \in SUBSET T
    PROVE  Reserved(T) = Reserved(T \ S) + Reserved(S)
<1>1. /\ IsFiniteSet(Tokens(S)) /\ Reserved(S) \in Nat
      /\ IsFiniteSet(Tokens(T \ S)) /\ Reserved(T \ S) \in Nat
  <2>1. S \in SUBSET Requests /\ T \ S \in SUBSET Requests
    OBVIOUS
  <2> QED BY <2>1, ReservedNat
<1>2. Tokens(T) = Tokens(T \ S) \cup Tokens(S)
  BY DEF Tokens
<1>3. Tokens(T \ S) \cap Tokens(S) = {}
  BY DEF Tokens
<1>4. Cardinality(Tokens(T \ S) \cup Tokens(S))
        = Cardinality(Tokens(T \ S)) + Cardinality(Tokens(S))
          - Cardinality(Tokens(T \ S) \cap Tokens(S))
  BY <1>1, FS_Union
<1>5. Cardinality(Tokens(T \ S) \cap Tokens(S)) = 0
  BY <1>3, FS_EmptySet
<1> QED
  BY <1>1, <1>2, <1>4, <1>5 DEF Reserved

\* Fewer rows, no larger sum.
LEMMA ReservedMonotone ==
    ASSUME NEW T \in SUBSET Requests, NEW S \in SUBSET T
    PROVE  Reserved(S) <= Reserved(T)
<1>1. Reserved(T) = Reserved(T \ S) + Reserved(S)
  BY ReservedSplit
<1>2. Reserved(T \ S) \in Nat /\ Reserved(S) \in Nat
  <2>1. S \in SUBSET Requests /\ T \ S \in SUBSET Requests
    OBVIOUS
  <2> QED BY <2>1, ReservedNat
<1> QED
  BY <1>1, <1>2

(***************************************************************************)
(* What the cleanup passes owe.                                            *)
(***************************************************************************)
\* What finitely many passes owe is a natural number.
LEMMA OwedNat ==
    ASSUME NEW P \in SUBSET Cleaners, NEW f \in [Cleaners -> SUBSET Requests]
    PROVE  IsFiniteSet(OwedBy(P, f)) /\ Cardinality(OwedBy(P, f)) \in Nat
<1> DEFINE Whole == Cleaners \X (Requests \X (1..MaxEst))
<1>1. IsFiniteSet(1..MaxEst)
  BY RequestAssumption, FS_Interval
<1>2. IsFiniteSet(Requests \X (1..MaxEst))
  BY <1>1, RequestAssumption, FS_Product
<1>3. IsFiniteSet(Whole)
  BY <1>2, RequestAssumption, FS_Product
<1>4. OwedBy(P, f) \in SUBSET Whole
  BY DEF OwedBy, Tokens
<1>5. IsFiniteSet(OwedBy(P, f))
  BY <1>3, <1>4, FS_Subset
<1> QED
  BY <1>5, FS_CardinalityType

\* One pass more owes the sum of its rows more.
LEMMA OwedAdd ==
    ASSUME NEW P \in SUBSET Cleaners, NEW c \in Cleaners, c \notin P,
           NEW f \in [Cleaners -> SUBSET Requests]
    PROVE  Cardinality(OwedBy(P \cup {c}, f)) = Cardinality(OwedBy(P, f)) + Reserved(f[c])
<1> DEFINE C == {c} \X Tokens(f[c])
<1>1. IsFiniteSet(Tokens(f[c])) /\ Reserved(f[c]) \in Nat
  BY ReservedNat
<1>2. IsFiniteSet({c}) /\ Cardinality({c}) = 1
  BY FS_Singleton
<1>3. IsFiniteSet(C) /\ Cardinality(C) = 1 * Reserved(f[c])
  BY <1>1, <1>2, FS_Product DEF Reserved
<1>4. IsFiniteSet(OwedBy(P, f)) /\ Cardinality(OwedBy(P, f)) \in Nat
  BY OwedNat
<1>5. OwedBy(P \cup {c}, f) = OwedBy(P, f) \cup C
  BY DEF OwedBy
<1>6. OwedBy(P, f) \cap C = {}
  BY DEF OwedBy
<1>7. Cardinality(OwedBy(P, f) \cup C)
        = Cardinality(OwedBy(P, f)) + Cardinality(C) - Cardinality(OwedBy(P, f) \cap C)
  BY <1>3, <1>4, FS_Union
<1>8. Cardinality(OwedBy(P, f) \cap C) = 0
  BY <1>6, FS_EmptySet
<1>9. Cardinality(C) = Reserved(f[c])
  BY <1>1, <1>3
<1> HIDE DEF C
<1>10. Cardinality(OwedBy(P, f) \cup C) = Cardinality(OwedBy(P, f)) + Reserved(f[c])
  BY <1>1, <1>4, <1>7, <1>8, <1>9
<1> QED
  BY <1>5, <1>10

\* Only the rows of the passes concerned matter.
LEMMA OwedSame ==
    ASSUME NEW P, NEW f, NEW g, \A c \in P : f[c] = g[c]
    PROVE  OwedBy(P, f) = OwedBy(P, g)
  BY DEF OwedBy

(***************************************************************************)
(* The bucket fill.                                                        *)
(***************************************************************************)
\* A budget takes at most what is left, and what is left stays a natural.
LEMMA FillBounds ==
    ASSUME NEW b, NEW left \in Nat, NEW u \in [Budgets -> Nat]
    PROVE  /\ Fill(b, left, u) \in Nat
           /\ Fill(b, left, u) <= left
           /\ LeftAfter(b, left, u) \in Nat
           /\ LeftAfter(b, left, u) <= left
<1>1. CASE b \notin Budgets
  BY <1>1 DEF Fill, LeftAfter
<1>2. CASE b \in Budgets
  <2>1. Amount[b] - u[b] \in Int
    BY <1>2, HierarchyAssumption
  <2>2. Fill(b, left, u) \in Nat /\ Fill(b, left, u) <= left
    BY <1>2, <2>1 DEF Fill, Greatest0
  <2> QED
    BY <2>2 DEF LeftAfter
<1> QED
  BY <1>1, <1>2

\* No budget is charged more than the cost of the request.
LEMMA ChargesBounds ==
    ASSUME NEW f \in Budgets, NEW total \in Nat, NEW u \in [Budgets -> Nat]
    PROVE  /\ Charges(f, total, u) \in [Budgets -> Nat]
           /\ \A b \in Budgets : Charges(f, total, u)[b] <= total
<1> DEFINE p == ParentOf(f)
           left1 == LeftAfter(f, total, u)
           left2 == LeftAfter(p, left1, u)
<1>1. /\ Fill(f, total, u) \in Nat /\ Fill(f, total, u) <= total
      /\ left1 \in Nat /\ left1 <= total
  BY FillBounds
<1>2. /\ Fill(p, left1, u) \in Nat /\ Fill(p, left1, u) <= left1
      /\ left2 \in Nat /\ left2 <= left1
  <2> HIDE DEF left1
  <2> QED BY <1>1, FillBounds
<1>3. \A b \in Budgets : Fill(b, left2, u) \in Nat /\ Fill(b, left2, u) <= left2
  <2> HIDE DEF left2
  <2> QED BY <1>2, FillBounds
<1>4. Charges(f, total, u) =
        [b \in Budgets |->
            CASE b = f           -> Fill(f, total, u)
              [] b = p           -> Fill(p, left1, u)
              [] b = ParentOf(p) -> Fill(b, left2, u)
              [] OTHER           -> 0]
  BY DEF Charges
<1> HIDE DEF left1, left2, p
<1>5. \A b \in Budgets : /\ Charges(f, total, u)[b] \in Nat
                         /\ Charges(f, total, u)[b] <= total
  BY <1>1, <1>2, <1>3, <1>4
<1>6. DOMAIN Charges(f, total, u) = Budgets
  BY <1>4
<1> QED
  BY <1>4, <1>5

\* The same of the charges of a request, whatever part of its chain arrived.
LEMMA ChargesOfBounds ==
    ASSUME NEW r, first[r] \in Budgets, cost[r] \in Nat, seen[r] \in [Budgets -> Nat]
    PROVE  ChargesOf(r) \in [Budgets -> Nat]
<1> DEFINE whole == Charges(first[r], cost[r], seen[r])
<1>1. whole \in [Budgets -> Nat]
  BY ChargesBounds
<1>2. ChargesOf(r) = [b \in Budgets |-> IF b \in chain[r] THEN whole[b] ELSE 0]
  BY DEF ChargesOf
<1> HIDE DEF whole
<1> QED
  BY <1>1, <1>2

(***************************************************************************)
(* Type correctness.                                                       *)
(***************************************************************************)
\* The empty tables of Init have their types.
LEMMA TypeInit == Init => TypeOK
  BY HierarchyAssumption, RequestAssumption DEF Init, TypeOK, PCs

\* Every step of a stream keeps the types.
LEMMA TypeStream ==
    ASSUME TypeOK, NEW r \in Requests, Stream(r)
    PROVE  TypeOK'
<1> USE DEF TypeOK, PCs
<1>1. CASE AllowUnmatched(r)
  BY <1>1 DEF AllowUnmatched, Goto, ledger, workers
<1>2. CASE Deny(r)
  BY <1>2 DEF Deny, Goto, ledger, workers
<1>3. CASE RejectDuplicate(r)
  BY <1>3 DEF RejectDuplicate, Goto, ledger, workers
<1>4. CASE Reserve(r)
  <2>1. Est[r] \in Nat /\ Matches[r] \in SUBSET Budgets
    BY RequestAssumption
  <2>2. exposed' \subseteq Budgets
    BY <1>4, <2>1 DEF Reserve, Overdrawn
  <2> QED
    BY <1>4, <2>1, <2>2 DEF Reserve, Goto, workers
<1>5. CASE CheckInterrupted(r)
  BY <1>5 DEF CheckInterrupted, Goto, ledger, workers
<1>6. CASE ReservationNotFound(r)
  BY <1>6 DEF ReservationNotFound, Goto, ledger, workers
<1>7. CASE GetReservation(r)
  BY <1>7, RequestAssumption DEF GetReservation, Goto, ledger, workers, RowsOf
<1>8. CASE GetBudgetsWithParent(r)
  BY <1>8 DEF GetBudgetsWithParent, ChainOf, Goto, ledger, workers
<1>9. CASE ChargeAndRelease(r)
  <2> DEFINE charge == ChargesOf(r)
  <2>1. first[r] \in Budgets
    BY <1>9 DEF ChargeAndRelease
  <2>2. charge \in [Budgets -> Nat]
    BY <2>1, ChargesOfBounds
  <2>3. usage' = [b \in Budgets |-> usage[b] + charge[b]]
    BY <1>9 DEF ChargeAndRelease
  <2>4. exposed' \subseteq Budgets
    BY <1>9, <2>1 DEF ChargeAndRelease, Uncovered, Unheld
  <2>5. \A n \in Int : Greatest0(n) \in Nat
    BY DEF Greatest0
  <2>6. Est[r] \in Nat
    BY RequestAssumption
  <2>7. pending' \in [Budgets -> Nat]
    BY <1>9, <2>5, <2>6 DEF ChargeAndRelease
  <2> HIDE DEF charge
  <2>8. usage' \in [Budgets -> Nat]
    BY <2>2, <2>3
  <2> QED
    BY <1>9, <2>4, <2>7, <2>8 DEF ChargeAndRelease, workers
<1>10. CASE Abort(r)
  BY <1>10 DEF Abort, ledger, workers
<1>11. CASE Retry(r)
  <2>1. MaxAttempts[r] \in Nat /\ attempts[r] \in Nat
    BY RequestAssumption
  <2>2. attempts' = [attempts EXCEPT ![r] = @ + 1] /\ attempts[r] < MaxAttempts[r]
    BY <1>11 DEF Retry
  <2>3. attempts' \in [Requests -> Nat] /\ \A q \in Requests : attempts'[q] <= MaxAttempts[q]
    BY <2>1, <2>2
  <2> QED
    BY <1>11, <2>3 DEF Retry, Goto, ledger, workers, Ended
<1>12. CASE Expire(r)
  BY <1>12 DEF Expire, streams, workers
<1> QED
  BY <1>1, <1>2, <1>3, <1>4, <1>5, <1>6, <1>7, <1>8, <1>9, <1>10, <1>11, <1>12
     DEF Stream, CheckAndReserveBudget

\* Every statement of a cleanup pass keeps the types.
LEMMA TypeCleanup ==
    ASSUME TypeOK, NEW c \in Cleaners, Cleanup(c)
    PROVE  TypeOK'
<1> USE DEF TypeOK
<1>1. CASE SelectExpired(c)
  BY <1>1 DEF SelectExpired, ledger, streams
<1>2. CASE DeleteExpired(c)
  BY <1>2 DEF DeleteExpired, streams, SelectedByOthers
<1>3. CASE ReleasePending(c)
  <2>1. PICK b \in todo[c] :
          /\ pending' = [pending EXCEPT ![b] = Greatest0(@ - Reserved(sel[c][b]))]
          /\ todo' = [todo EXCEPT ![c] = @ \ {b}]
          /\ wpc' = [wpc EXCEPT ![c] = IF todo[c] = {b} THEN "idle" ELSE "deleted"]
          /\ sel' = [sel EXCEPT ![c][b] = {}]
    BY <1>3 DEF ReleasePending
  <2>2. b \in Budgets /\ Reserved(sel[c][b]) \in Nat
    BY <2>1, ReservedNat
  <2>3. Greatest0(pending[b] - Reserved(sel[c][b])) \in Nat
    BY <2>2 DEF Greatest0
  <2>4. pending' \in [Budgets -> Nat]
    BY <2>1, <2>2, <2>3
  <2> QED
    BY <1>3, <2>1, <2>2, <2>4 DEF ReleasePending, streams
<1>4. CASE CleanupCutShort(c)
  BY <1>4, RequestAssumption DEF CleanupCutShort, ledger, streams
<1> QED
  BY <1>1, <1>2, <1>3, <1>4 DEF Cleanup

\* A period or manual reset keeps the types.
LEMMA TypeReset ==
    ASSUME TypeOK, NEW b \in Budgets, ResetBudgetUsage(b)
    PROVE  TypeOK'
  BY RequestAssumption DEF TypeOK, ResetBudgetUsage, streams, workers

\* Every step keeps the types.
LEMMA TypeStep == TypeOK /\ [Next]_vars => TypeOK'
<1> SUFFICES ASSUME TypeOK, [Next]_vars
             PROVE  TypeOK'
  OBVIOUS
<1>1. CASE UNCHANGED vars
  BY <1>1 DEF TypeOK, vars, ledger, streams, workers
<1>2. CASE Next
  BY <1>2, TypeStream, TypeCleanup, TypeReset DEF Next
<1> QED
  BY <1>1, <1>2

\* Every column of the ledger keeps its type in every behaviour; in particular
\* pending_usage_usd never becomes negative.
THEOREM TypeCorrect == Spec => []TypeOK
  BY TypeInit, TypeStep, PTL DEF Spec

(***************************************************************************)
(* The ledger invariant, budget by budget.                                 *)
(***************************************************************************)
Covered(b) == Reserved(rsv[b]) + Cardinality(Owed(b)) <= pending[b]

Fits(b) == usage[b] + Reserved(rsv[b]) <= Amount[b]

Sound(b) == b \notin exposed => Covered(b) /\ Fits(b)

LedgerInv == \A b \in Budgets : Sound(b)

Passes(b) == {c \in Cleaners : b \in todo[c]}

SelRows(b) == [c \in Cleaners |-> sel[c][b]]

\* The terms of the invariant are numbers.
LEMMA SumsNat ==
    ASSUME TypeOK, NEW b \in Budgets
    PROVE  /\ usage[b] \in Nat /\ pending[b] \in Nat /\ Amount[b] \in Nat
           /\ Reserved(rsv[b]) \in Nat
           /\ Passes(b) \in SUBSET Cleaners
           /\ SelRows(b) \in [Cleaners -> SUBSET Requests]
           /\ Owed(b) = OwedBy(Passes(b), SelRows(b))
           /\ Cardinality(Owed(b)) \in Nat
<1>1. usage[b] \in Nat /\ pending[b] \in Nat /\ Amount[b] \in Nat
  BY HierarchyAssumption DEF TypeOK
<1>2. Reserved(rsv[b]) \in Nat
  BY ReservedNat DEF TypeOK
<1>3. Passes(b) \in SUBSET Cleaners /\ SelRows(b) \in [Cleaners -> SUBSET Requests]
  BY DEF Passes, SelRows, TypeOK
<1>4. Owed(b) = OwedBy(Passes(b), SelRows(b))
  BY DEF Owed, Passes, SelRows
<1>5. Cardinality(Owed(b)) \in Nat
  BY <1>3, <1>4, OwedNat
<1> QED
  BY <1>1, <1>2, <1>3, <1>4, <1>5

\* A step that leaves b's row, its reservations and the passes owing it alone.
LEMMA SoundUnchanged ==
    ASSUME NEW b \in Budgets, Sound(b),
           usage'[b] = usage[b], pending'[b] = pending[b], rsv'[b] = rsv[b],
           b \in exposed => b \in exposed', Owed(b)' = Owed(b)
    PROVE  Sound(b)'
  BY DEF Sound, Covered, Fits

\* An unused budget is covered and fits.
LEMMA LedgerInit == Init => LedgerInv
<1> SUFFICES ASSUME Init, NEW b \in Budgets
             PROVE  Sound(b)
  BY DEF LedgerInv
<1>1. Tokens({}) = {}
  BY DEF Tokens
<1>2. Reserved(rsv[b]) = 0
  BY <1>1, FS_EmptySet DEF Init, Reserved
<1>3. Owed(b) = {}
  BY DEF Init, Owed, OwedBy
<1>4. Cardinality(Owed(b)) = 0
  BY <1>3, FS_EmptySet
<1>5. usage[b] = 0 /\ pending[b] = 0 /\ Amount[b] \in Nat
  BY HierarchyAssumption DEF Init
<1> QED
  BY <1>2, <1>4, <1>5 DEF Sound, Covered, Fits

\* Check and reserve: the estimate fits into what remains, or the budget is exposed.
LEMMA LedgerReserve ==
    ASSUME TypeOK, LedgerInv, NEW r \in Requests, Reserve(r), NEW b \in Budgets
    PROVE  Sound(b)'
<1>1. Sound(b)
  BY DEF LedgerInv
<1>2. Owed(b)' = Owed(b)
  BY DEF Reserve, workers, Owed
<1>3. usage'[b] = usage[b] /\ exposed' = exposed \cup Overdrawn(r)
  BY DEF Reserve
<1>4. CASE b \notin Matches[r]
  <2>1. pending'[b] = pending[b] /\ rsv'[b] = rsv[b]
    BY <1>4 DEF Reserve
  <2> QED
    BY <1>1, <1>2, <1>3, <2>1, SoundUnchanged
<1>5. CASE b \in Matches[r]
  <2> SUFFICES ASSUME b \notin exposed'
               PROVE  Covered(b)' /\ Fits(b)'
    BY DEF Sound
  <2>1. Est[r] \in Nat
    BY RequestAssumption
  <2>2. pending'[b] = pending[b] + Est[r] /\ rsv'[b] = rsv[b] \cup {r} /\ r \notin rsv[b]
    BY <1>5 DEF Reserve
  <2>3. Reserved(rsv'[b]) = Reserved(rsv[b]) + Est[r]
    BY <2>2, ReservedAdd DEF TypeOK
  <2>4. ~(Amount[b] - usage[b] - pending[b] < Est[r])
    BY <1>3, <1>5 DEF Overdrawn, Exceeded, CalculateRemaining
  <2>5. Covered(b) /\ Fits(b)
    BY <1>1, <1>3 DEF Sound
  <2> QED
    BY <1>2, <1>3, <2>1, <2>2, <2>3, <2>4, <2>5, SumsNat DEF Covered, Fits
<1> QED
  BY <1>4, <1>5

\* Charging moves a hold into usage, or the budget is exposed.
LEMMA LedgerCharge ==
    ASSUME TypeOK, LedgerInv, NEW r \in Requests, ChargeAndRelease(r), NEW b \in Budgets
    PROVE  Sound(b)'
<1> DEFINE charge == ChargesOf(r)
<1>1. Sound(b)
  BY DEF LedgerInv
<1>2. Owed(b)' = Owed(b)
  BY DEF ChargeAndRelease, workers, Owed
<1>3. charge \in [Budgets -> Nat]
  <2>1. first[r] \in Budgets /\ cost[r] \in Nat /\ seen[r] \in [Budgets -> Nat]
    BY DEF ChargeAndRelease, TypeOK
  <2> QED
    BY <2>1, ChargesOfBounds
<1>4. /\ usage'[b] = usage[b] + charge[b]
      /\ exposed' = exposed \cup Uncovered(r, charge) \cup Unheld(r)
      /\ rsv'[b] = rsv[b] \ {r}
      /\ pending'[b] = IF b = first[r] THEN Greatest0(pending[b] - Est[r]) ELSE pending[b]
  BY DEF ChargeAndRelease
<1>5. Est[r] \in Nat
  BY RequestAssumption
<1> HIDE DEF charge
<1> SUFFICES ASSUME b \notin exposed'
             PROVE  Covered(b)' /\ Fits(b)'
  BY DEF Sound
<1>6. Covered(b) /\ Fits(b)
  BY <1>1, <1>4 DEF Sound
<1>7. charge[b] \in Nat
  BY <1>3
<1>8. ~(charge[b] > (IF r \in rsv[b] THEN Est[r] ELSE 0))
  BY <1>4 DEF Uncovered
<1>9. CASE r \in rsv[b]
  <2>1. Reserved(rsv'[b]) = Reserved(rsv[b]) - Est[r]
    BY <1>4, <1>9, ReservedRemove DEF TypeOK
  <2>2. Reserved(rsv'[b]) \in Nat
    BY <1>4, ReservedNat DEF TypeOK
  <2>3. charge[b] <= Est[r]
    BY <1>5, <1>7, <1>8, <1>9
  <2>4. Fits(b)'
    BY <1>4, <1>5, <1>6, <1>7, <2>1, <2>2, <2>3, SumsNat DEF Fits
  <2>5. pending[b] >= Est[r] /\ pending'[b] >= pending[b] - Est[r]
    BY <1>4, <1>5, <1>6, <2>1, <2>2, SumsNat DEF Covered, Greatest0
  <2>6. pending'[b] \in Nat
    BY <1>4, <1>5, SumsNat DEF Greatest0
  <2>7. Reserved(rsv'[b]) + Cardinality(Owed(b)) <= pending'[b]
    BY <1>5, <1>6, <2>1, <2>2, <2>5, <2>6, SumsNat DEF Covered
  <2>8. Covered(b)'
    BY <1>2, <2>7 DEF Covered
  <2> QED
    BY <2>4, <2>8
<1>10. CASE r \notin rsv[b]
  <2>1. charge[b] = 0
    BY <1>7, <1>8, <1>10
  <2>2. b # first[r]
    BY <1>4, <1>10 DEF Unheld, RowsOf
  <2>3. rsv'[b] = rsv[b]
    BY <1>4, <1>10
  <2>4. usage'[b] = usage[b] /\ pending'[b] = pending[b]
    BY <1>4, <2>1, <2>2, SumsNat
  <2> QED
    BY <1>2, <1>6, <2>3, <2>4 DEF Covered, Fits
<1> QED
  BY <1>9, <1>10

\* The other steps of a stream do not touch the ledger's sums.
LEMMA LedgerStream ==
    ASSUME TypeOK, LedgerInv, NEW r \in Requests, Stream(r)
    PROVE  LedgerInv'
<1> SUFFICES ASSUME NEW b \in Budgets
             PROVE  Sound(b)'
  BY DEF LedgerInv
<1>1. CASE Reserve(r)
  BY <1>1, LedgerReserve
<1>2. CASE ChargeAndRelease(r)
  BY <1>2, LedgerCharge
<1>3. CASE UNCHANGED <<usage, pending, rsv, sel, todo, exposed>>
  <2>1. Owed(b)' = Owed(b)
    BY <1>3 DEF Owed
  <2> QED
    BY <1>3, <2>1, SoundUnchanged DEF LedgerInv
<1> QED
  BY <1>1, <1>2, <1>3
     DEF Stream, CheckAndReserveBudget, AllowUnmatched, Deny, RejectDuplicate,
         CheckInterrupted, ReservationNotFound, GetReservation, GetBudgetsWithParent,
         Abort, Retry, Expire, ledger, workers

\* Deleting expired rows moves their estimates from held to owed, or the
\* budgets concerned are exposed.
LEMMA LedgerDelete ==
    ASSUME TypeOK, LedgerInv, NEW c \in Cleaners, DeleteExpired(c), NEW b \in Budgets
    PROVE  Sound(b)'
<1>1. Sound(b)
  BY DEF LedgerInv
<1>2. /\ rsv'[b] = rsv[b] \ expired
      /\ todo' = [todo EXCEPT ![c] = {a \in Budgets : sel[c][a] # {}}]
      /\ exposed' = exposed \cup SelectedByOthers(c)
      /\ usage' = usage /\ pending' = pending /\ sel' = sel
  BY DEF DeleteExpired
<1> SUFFICES ASSUME b \notin exposed'
             PROVE  Covered(b)' /\ Fits(b)'
  BY DEF Sound
<1>3. Covered(b) /\ Fits(b)
  BY <1>1, <1>2 DEF Sound
<1>4. rsv[b] \in SUBSET Requests /\ sel[c][b] \in SUBSET rsv[b]
      /\ sel[c][b] \in SUBSET Requests /\ sel[c][b] \cap rsv'[b] = {}
  BY <1>2 DEF SelectedByOthers, TypeOK
<1>5. Reserved(rsv[b]) = Reserved(rsv[b] \ sel[c][b]) + Reserved(sel[c][b])
  BY <1>4, ReservedSplit
<1>6. Reserved(rsv'[b]) <= Reserved(rsv[b] \ sel[c][b])
  <2>1. rsv[b] \ sel[c][b] \in SUBSET Requests /\ rsv'[b] \in SUBSET (rsv[b] \ sel[c][b])
    BY <1>2, <1>4
  <2> QED
    BY <2>1, ReservedMonotone
<1>7. /\ Reserved(rsv'[b]) \in Nat /\ Reserved(rsv[b] \ sel[c][b]) \in Nat
      /\ Reserved(sel[c][b]) \in Nat
  <2>1. rsv[b] \ sel[c][b] \in SUBSET Requests /\ rsv'[b] \in SUBSET Requests
    BY <1>2, <1>4
  <2> QED
    BY <1>4, <2>1, ReservedNat
<1>8. c \notin Passes(b)
  BY DEF DeleteExpired, TypeOK, Passes
<1>9. SelRows(b)' = SelRows(b) /\ SelRows(b)[c] = sel[c][b]
  BY <1>2 DEF SelRows
<1>10. Owed(b)' = OwedBy(Passes(b)', SelRows(b))
  BY <1>9 DEF Owed, Passes, SelRows
<1>11. Cardinality(Owed(b)') <= Cardinality(Owed(b)) + Reserved(sel[c][b])
  <2>1. CASE sel[c][b] # {}
    <3>1. Passes(b)' = Passes(b) \cup {c}
      BY <1>2, <2>1 DEF Passes, TypeOK
    <3>2. Cardinality(OwedBy(Passes(b) \cup {c}, SelRows(b)))
            = Cardinality(OwedBy(Passes(b), SelRows(b))) + Reserved(SelRows(b)[c])
      BY <1>8, SumsNat, OwedAdd
    <3> QED
      BY <1>7, <1>9, <1>10, <3>1, <3>2, SumsNat
  <2>2. CASE sel[c][b] = {}
    <3>1. Passes(b)' = Passes(b)
      BY <1>2, <1>8, <2>2 DEF Passes, TypeOK
    <3> QED
      BY <1>7, <1>10, <3>1, SumsNat
  <2> QED
    BY <2>1, <2>2
<1>12. Cardinality(Owed(b)') \in Nat
  <2>1. Passes(b)' \in SUBSET Cleaners
    BY DEF Passes
  <2> QED
    BY <1>10, <2>1, SumsNat, OwedNat
<1>13. Covered(b)'
  BY <1>2, <1>3, <1>5, <1>6, <1>7, <1>11, <1>12, SumsNat DEF Covered
<1>14. Fits(b)'
  BY <1>2, <1>3, <1>5, <1>6, <1>7, SumsNat DEF Fits
<1> QED
  BY <1>13, <1>14

\* Releasing what a pass owes lowers the pending usage by no more than that.
LEMMA LedgerRelease ==
    ASSUME TypeOK, LedgerInv, NEW c \in Cleaners, ReleasePending(c), NEW b \in Budgets
    PROVE  Sound(b)'
<1>1. Sound(b)
  BY DEF LedgerInv
<1>2. PICK a \in todo[c] :
        /\ pending' = [pending EXCEPT ![a] = Greatest0(@ - Reserved(sel[c][a]))]
        /\ todo' = [todo EXCEPT ![c] = @ \ {a}]
        /\ sel' = [sel EXCEPT ![c][a] = {}]
  BY DEF ReleasePending
<1>3. usage' = usage /\ rsv' = rsv /\ exposed' = exposed
  BY DEF ReleasePending
<1>4. CASE b # a
  <2>1. Passes(b)' = Passes(b) /\ SelRows(b)' = SelRows(b)
    BY <1>2, <1>4 DEF Passes, SelRows, TypeOK
  <2>2. Owed(b)' = Owed(b)
    BY <2>1 DEF Owed, Passes, SelRows
  <2>3. pending'[b] = pending[b]
    BY <1>2, <1>4 DEF TypeOK
  <2> QED
    BY <1>1, <1>3, <2>2, <2>3, SoundUnchanged
<1>5. CASE b = a
  <2> SUFFICES ASSUME b \notin exposed'
               PROVE  Covered(b)' /\ Fits(b)'
    BY DEF Sound
  <2>1. Covered(b) /\ Fits(b)
    BY <1>1, <1>3 DEF Sound
  <2>2. c \in Passes(b) /\ SelRows(b)[c] = sel[c][b]
    BY <1>2, <1>5 DEF Passes, SelRows
  <2>3. Passes(b)' = Passes(b) \ {c}
    BY <1>2, <1>5 DEF Passes, TypeOK
  <2>4. \A d \in Passes(b) \ {c} : SelRows(b)'[d] = SelRows(b)[d]
    BY <1>2 DEF Passes, SelRows, TypeOK
  <2>5. Owed(b)' = OwedBy(Passes(b) \ {c}, SelRows(b))
    <3>1. Owed(b)' = OwedBy(Passes(b) \ {c}, SelRows(b)')
      BY <2>3 DEF Owed, Passes, SelRows
    <3> QED
      BY <2>4, <3>1, OwedSame
  <2>6. (Passes(b) \ {c}) \cup {c} = Passes(b)
    BY <2>2
  <2>7. Cardinality(OwedBy((Passes(b) \ {c}) \cup {c}, SelRows(b)))
          = Cardinality(OwedBy(Passes(b) \ {c}, SelRows(b))) + Reserved(SelRows(b)[c])
    BY SumsNat, OwedAdd
  <2>8. Cardinality(Owed(b)) = Cardinality(Owed(b)') + Reserved(sel[c][b])
    BY <2>2, <2>5, <2>6, <2>7, SumsNat
  <2>9. Cardinality(Owed(b)') \in Nat /\ Reserved(sel[c][b]) \in Nat
    <3>1. Cardinality(Owed(b)') \in Nat
      BY <2>5, SumsNat, OwedNat
    <3>2. b \in Budgets /\ sel[c][b] \in SUBSET Requests
      BY DEF TypeOK
    <3> QED
      BY <3>1, <3>2, ReservedNat
  <2>10. pending'[b] = Greatest0(pending[b] - Reserved(sel[c][b]))
    BY <1>2, <1>5 DEF TypeOK
  <2>11. pending'[b] \in Nat /\ pending'[b] >= pending[b] - Reserved(sel[c][b])
    BY <2>9, <2>10, SumsNat DEF Greatest0
  <2>12. Reserved(rsv[b]) + Cardinality(Owed(b)') <= pending'[b]
    BY <2>1, <2>8, <2>9, <2>11, SumsNat DEF Covered
  <2> QED
    BY <1>3, <2>1, <2>12 DEF Covered, Fits
<1> QED
  BY <1>4, <1>5

\* A pass that is cut short owes less and lowers nothing.
LEMMA LedgerCutShort ==
    ASSUME TypeOK, LedgerInv, NEW c \in Cleaners, CleanupCutShort(c), NEW b \in Budgets
    PROVE  Sound(b)'
<1>1. Sound(b)
  BY DEF LedgerInv
<1>2. /\ usage' = usage /\ pending' = pending /\ rsv' = rsv /\ exposed' = exposed
      /\ todo' = [todo EXCEPT ![c] = {}]
      /\ sel' = [sel EXCEPT ![c] = [a \in Budgets |-> {}]]
  BY DEF CleanupCutShort, ledger
<1>3. Passes(b)' = Passes(b) \ {c}
  BY <1>2 DEF Passes, TypeOK
<1>4. \A d \in Passes(b) \ {c} : SelRows(b)'[d] = SelRows(b)[d]
  BY <1>2 DEF Passes, SelRows, TypeOK
<1>5. Owed(b)' = OwedBy(Passes(b) \ {c}, SelRows(b))
  <2>1. Owed(b)' = OwedBy(Passes(b) \ {c}, SelRows(b)')
    BY <1>3 DEF Owed, Passes, SelRows
  <2> QED
    BY <1>4, <2>1, OwedSame
<1>6. Owed(b)' \in SUBSET Owed(b)
  BY <1>5, SumsNat DEF OwedBy
<1>7. IsFiniteSet(Owed(b))
  BY SumsNat, OwedNat
<1>8. Cardinality(Owed(b)') <= Cardinality(Owed(b)) /\ Cardinality(Owed(b)') \in Nat
  BY <1>6, <1>7, FS_Subset, FS_CardinalityType
<1>9. Covered(b) => Covered(b)'
  BY <1>2, <1>8, SumsNat DEF Covered
<1> QED
  BY <1>1, <1>2, <1>9 DEF Sound, Fits

\* Every statement of a cleanup pass keeps the ledger sound.
LEMMA LedgerCleanup ==
    ASSUME TypeOK, LedgerInv, NEW c \in Cleaners, Cleanup(c)
    PROVE  LedgerInv'
<1> SUFFICES ASSUME NEW b \in Budgets
             PROVE  Sound(b)'
  BY DEF LedgerInv
<1>1. CASE SelectExpired(c)
  <2>1. /\ UNCHANGED <<usage, pending, rsv, todo, exposed>>
        /\ sel' = [sel EXCEPT ![c] = [a \in Budgets |-> rsv[a] \cap expired]]
        /\ todo[c] = {}
    BY <1>1 DEF SelectExpired, ledger, TypeOK
  <2>2. \A d \in Passes(b) : SelRows(b)'[d] = SelRows(b)[d]
    BY <2>1 DEF Passes, SelRows, TypeOK
  <2>3. Owed(b)' = OwedBy(Passes(b), SelRows(b)')
    BY <2>1 DEF Owed, Passes, SelRows
  <2>4. Owed(b)' = Owed(b)
    BY <2>2, <2>3, OwedSame, SumsNat
  <2> QED
    BY <2>1, <2>4, SoundUnchanged DEF LedgerInv
<1>2. CASE DeleteExpired(c)
  BY <1>2, LedgerDelete
<1>3. CASE ReleasePending(c)
  BY <1>3, LedgerRelease
<1>4. CASE CleanupCutShort(c)
  BY <1>4, LedgerCutShort
<1> QED
  BY <1>1, <1>2, <1>3, <1>4 DEF Cleanup

\* A reset of a budget nobody holds leaves it sound; any other reset exposes it.
LEMMA LedgerReset ==
    ASSUME TypeOK, LedgerInv, NEW a \in Budgets, ResetBudgetUsage(a)
    PROVE  LedgerInv'
<1> SUFFICES ASSUME NEW b \in Budgets
             PROVE  Sound(b)'
  BY DEF LedgerInv
<1>1. Owed(b)' = Owed(b) /\ rsv' = rsv
  BY DEF ResetBudgetUsage, workers, Owed
<1>2. CASE b # a
  <2>1. usage'[b] = usage[b] /\ pending'[b] = pending[b] /\ (b \in exposed => b \in exposed')
    BY <1>2 DEF ResetBudgetUsage, TypeOK
  <2> QED
    BY <1>1, <2>1, SoundUnchanged DEF LedgerInv
<1>3. CASE b = a
  <2> SUFFICES ASSUME b \notin exposed'
               PROVE  Covered(b)' /\ Fits(b)'
    BY DEF Sound
  <2>1. ~InUse(b)
    BY <1>3 DEF ResetBudgetUsage
  <2>2. rsv[b] = {} /\ Passes(b) = {}
    BY <2>1 DEF InUse, Passes
  <2>3. Tokens({}) = {}
    BY DEF Tokens
  <2>4. Reserved(rsv[b]) = 0
    BY <2>2, <2>3, FS_EmptySet DEF Reserved
  <2>5. Owed(b) = {}
    BY <2>2, SumsNat DEF OwedBy
  <2>6. Cardinality(Owed(b)) = 0
    BY <2>5, FS_EmptySet
  <2>7. usage'[b] = 0 /\ pending'[b] = 0
    BY <1>3 DEF ResetBudgetUsage, TypeOK
  <2> QED
    BY <1>1, <2>4, <2>6, <2>7, SumsNat DEF Covered, Fits
<1> QED
  BY <1>2, <1>3

\* Every step keeps the ledger sound.
LEMMA LedgerStep == TypeOK /\ LedgerInv /\ [Next]_vars => LedgerInv'
<1> SUFFICES ASSUME TypeOK, LedgerInv, [Next]_vars
             PROVE  LedgerInv'
  OBVIOUS
<1>1. CASE UNCHANGED vars
  <2> SUFFICES ASSUME NEW b \in Budgets
               PROVE  Sound(b)'
    BY DEF LedgerInv
  <2>1. Owed(b)' = Owed(b) /\ UNCHANGED <<usage, pending, rsv, exposed>>
    BY <1>1 DEF vars, ledger, workers, Owed
  <2> QED
    BY <2>1, SoundUnchanged DEF LedgerInv
<1>2. CASE Next
  BY <1>2, LedgerStream, LedgerCleanup, LedgerReset DEF Next
<1> QED
  BY <1>1, <1>2

\* The ledger is sound in every reachable state.
LEMMA LedgerInvariant == Spec => []LedgerInv
  BY TypeCorrect, LedgerInit, LedgerStep, PTL DEF Spec

\* For every hierarchy, every set of requests and any number of pods: unless one
\* of the named causes has occurred on it in this period, a budget's pending usage
\* covers every live reservation and everything cleanup will still subtract.
THEOREM HoldsCovered == Spec => []PendingCoversHolds
<1>1. TypeOK /\ LedgerInv => PendingCoversHolds
  BY DEF LedgerInv, Sound, Covered, PendingCoversHolds
<1> QED
  BY <1>1, TypeCorrect, LedgerInvariant, PTL

\* For every hierarchy, every set of requests and any number of pods: unless one
\* of the named causes has occurred on it in this period, no budget has been
\* charged and reserved beyond its amount.
THEOREM NoDoubleSpending == Spec => []NoOverspend
<1>1. TypeOK /\ LedgerInv => NoOverspend
  BY DEF LedgerInv, Sound, Fits, NoOverspend
<1> QED
  BY <1>1, TypeCorrect, LedgerInvariant, PTL

(***************************************************************************)
(* The bucket fill loses nothing.                                          *)
(***************************************************************************)
\* A budget without a parent, and an isolated one, takes all that is left.
LEMMA FillRoot ==
    ASSUME NEW b \in Budgets, NEW left \in Nat, NEW u,
           b \in Isolated \/ Parent[b] = NoBudget
    PROVE  Fill(b, left, u) = left
  BY DEF Fill

\* What the chain takes in all is the cost, or more if part of it is isolated.
LEMMA ChainTakesAll ==
    ASSUME NEW f \in Budgets, NEW total \in Nat, NEW u \in [Budgets -> Nat]
    PROVE  /\ ChainTotal(f, Charges(f, total, u)) >= total
           /\ SharedChain(f) => ChainTotal(f, Charges(f, total, u)) = total
<1> DEFINE p == ParentOf(f)
           g == ParentOf(p)
           left1 == LeftAfter(f, total, u)
           left2 == LeftAfter(p, left1, u)
           ch == Charges(f, total, u)
<1>1. /\ Fill(f, total, u) \in Nat /\ Fill(f, total, u) <= total
      /\ left1 \in Nat /\ left1 <= total
  BY FillBounds
<1>2. /\ Fill(p, left1, u) \in Nat /\ Fill(p, left1, u) <= left1
      /\ left2 \in Nat /\ left2 <= left1
  <2> HIDE DEF left1
  <2> QED BY <1>1, FillBounds
<1>3. Fill(g, left2, u) \in Nat /\ Fill(g, left2, u) <= left2
  <2> HIDE DEF left2
  <2> QED BY <1>2, FillBounds
<1>4. ch = [b \in Budgets |->
              CASE b = f -> Fill(f, total, u)
                [] b = p -> Fill(p, left1, u)
                [] b = g -> Fill(b, left2, u)
                [] OTHER -> 0]
  BY DEF Charges
<1>5. NoBudget \notin Budgets /\ Isolated \subseteq Budgets
  BY HierarchyAssumption
<1>6. p = Parent[f]
  BY DEF ParentOf
<1>7. CASE p = NoBudget
  <2>1. g = NoBudget
    BY <1>5, <1>7 DEF ParentOf
  <2>2. ch[f] = total
    <3>1. Fill(f, total, u) = total
      BY <1>6, <1>7, FillRoot
    <3> HIDE DEF ch, p, g, left1, left2
    <3> QED BY <1>4, <1>5, <1>7, <2>1, <3>1
  <2>3. ChainTotal(f, ch) = ch[f] + 0 + 0
    BY <1>5, <1>7, <2>1 DEF ChainTotal
  <2> HIDE DEF ch
  <2> QED
    BY <2>2, <2>3 DEF ch
<1>8. CASE p # NoBudget
  <2>1. p \in Budgets /\ p # f /\ Level[p] > Level[f] /\ Level[f] \in 1..3 /\ Level[p] \in 1..3
    BY <1>6, <1>8, HierarchyAssumption
  <2>2. g = Parent[p]
    BY <2>1 DEF ParentOf
  <2>3. ch[f] = Fill(f, total, u) /\ ch[p] = Fill(p, left1, u)
    <3>1. g # f /\ g # p
      BY <1>5, <2>1, <2>2, HierarchyAssumption
    <3> HIDE DEF ch, p, g, left1, left2
    <3> QED BY <1>4, <2>1, <3>1
  <2>4. left1 = IF f \in Isolated THEN total ELSE total - Fill(f, total, u)
    BY DEF LeftAfter
  <2>5. left2 = IF p \in Isolated THEN left1 ELSE left1 - Fill(p, left1, u)
    BY DEF LeftAfter
  <2>6. f \in Isolated => Fill(f, total, u) = total
    BY FillRoot
  <2>7. p \in Isolated => Fill(p, left1, u) = left1
    <3> HIDE DEF left1
    <3> QED BY <1>1, <2>1, FillRoot
  <2>8. CASE g = NoBudget
    <3>1. Fill(p, left1, u) = left1
      <4> HIDE DEF left1
      <4> QED BY <1>1, <2>1, <2>2, <2>8, FillRoot
    <3>2. ChainTotal(f, ch) = ch[f] + ch[p] + 0
      BY <1>5, <2>1, <2>8 DEF ChainTotal
    <3>3. SharedChain(f) => f \notin Isolated
      BY DEF SharedChain, ChainOf
    <3> HIDE DEF ch, left1, left2, p, g
    <3> QED
      BY <1>1, <1>2, <2>3, <2>4, <2>6, <3>1, <3>2, <3>3 DEF ch
  <2>9. CASE g # NoBudget
    <3>1. g \in Budgets /\ Level[g] > Level[p] /\ Level[g] \in 1..3
      BY <2>1, <2>2, <2>9, HierarchyAssumption
    <3>2. g # f /\ g # p /\ Level[g] = 3
      BY <2>1, <3>1
    <3>3. Parent[g] = NoBudget
      <4> SUFFICES ASSUME Parent[g] # NoBudget PROVE FALSE
        OBVIOUS
      <4>1. Parent[g] \in Budgets /\ Level[Parent[g]] > Level[g] /\ Level[Parent[g]] \in 1..3
        BY <3>1, HierarchyAssumption
      <4> QED BY <3>2, <4>1
    <3>4. ch[g] = left2
      <4>1. ch[g] = Fill(g, left2, u)
        BY <1>4, <3>1, <3>2
      <4>2. Fill(g, left2, u) = left2
        <5> HIDE DEF left2
        <5> QED BY <1>2, <3>1, <3>3, FillRoot
      <4> QED BY <4>1, <4>2
    <3>5. ChainTotal(f, ch) = ch[f] + ch[p] + ch[g]
      BY <2>1, <3>1 DEF ChainTotal
    <3>6. SharedChain(f) => f \notin Isolated /\ p \notin Isolated
      BY <2>1 DEF SharedChain, ChainOf
    <3> HIDE DEF ch, left1, left2, p, g
    <3> QED
      BY <1>1, <1>2, <2>3, <2>4, <2>5, <2>6, <2>7, <3>4, <3>5, <3>6 DEF ch
  <2> QED
    BY <2>8, <2>9
<1> QED
  BY <1>7, <1>8

\* What arrived of the chain takes no more than the whole chain would have.
LEMMA ChainTakesPart ==
    ASSUME NEW r, first[r] \in Budgets, cost[r] \in Nat, seen[r] \in [Budgets -> Nat]
    PROVE  /\ chain[r] = ChainOf(first[r]) => ChainTotal(first[r], ChargesOf(r)) >= cost[r]
           /\ SharedChain(first[r]) => ChainTotal(first[r], ChargesOf(r)) <= cost[r]
<1> DEFINE f == first[r]
           p == ParentOf(f)
           g == ParentOf(p)
           whole == Charges(f, cost[r], seen[r])
           part == ChargesOf(r)
           At(b, ch) == IF b \in Budgets THEN ch[b] ELSE 0
<1>1. whole \in [Budgets -> Nat] /\ part \in [Budgets -> Nat]
  BY ChargesBounds, ChargesOfBounds
<1>2. \A b \in Budgets : part[b] = IF b \in chain[r] THEN whole[b] ELSE 0
  BY DEF ChargesOf
<1>3. /\ ChainTotal(f, whole) >= cost[r]
      /\ SharedChain(f) => ChainTotal(f, whole) = cost[r]
  BY ChainTakesAll
<1>4. /\ ChainTotal(f, whole) = At(f, whole) + At(p, whole) + At(g, whole)
      /\ ChainTotal(f, part) = At(f, part) + At(p, part) + At(g, part)
  BY DEF ChainTotal
<1>5. ChainOf(f) = {f, p, g} \cap Budgets
  BY DEF ChainOf
<1> HIDE DEF whole, part, f, p, g
<1>6. \A b : At(b, part) \in Nat /\ At(b, whole) \in Nat /\ At(b, part) <= At(b, whole)
  BY <1>1, <1>2
<1>7. chain[r] = ChainOf(f) => \A b \in {f, p, g} : At(b, part) = At(b, whole)
  BY <1>2, <1>5
<1> HIDE DEF At
<1>8. chain[r] = ChainOf(f) => ChainTotal(f, part) >= cost[r]
  BY <1>3, <1>4, <1>7
<1>9. SharedChain(f) => ChainTotal(f, part) <= cost[r]
  <2>1. ChainTotal(f, part) <= ChainTotal(f, whole)
    BY <1>4, <1>6
  <2>2. ChainTotal(f, part) \in Nat
    BY <1>4, <1>6
  <2> QED
    BY <1>3, <2>1, <2>2
<1> QED
  BY <1>8, <1>9 DEF part, f

\* In every behaviour the charging transaction adds at least the cost of the
\* request to its chain unless the read of that chain was cut short, and never
\* more than the cost when no budget there is isolated, whatever happened since
\* the usages it works from were read.
THEOREM BucketFill == Spec => BucketFillConserves
<1> DEFINE Conserves(r) ==
      pc[r] = "read" /\ pc'[r] = "charged" =>
         LET taken == ChainTotal(first[r], [b \in Budgets |-> usage'[b] - usage[b]])
         IN  /\ chain[r] = ChainOf(first[r]) => taken >= cost[r]
             /\ SharedChain(first[r]) => taken <= cost[r]
<1>1. TypeOK /\ [Next]_vars => [\A r \in Requests : Conserves(r)]_vars
  <2> SUFFICES ASSUME TypeOK, Next, NEW r \in Requests,
                      pc[r] = "read", pc'[r] = "charged"
               PROVE  Conserves(r)
    OBVIOUS
  <2>1. ChargeAndRelease(r)
    <3>1. CASE \E q \in Requests : Stream(q)
      <4>1. PICK q \in Requests : Stream(q)
        BY <3>1
      <4>2. q = r
        BY <4>1 DEF TypeOK, Stream, CheckAndReserveBudget, AllowUnmatched, Deny, RejectDuplicate,
           Reserve, CheckInterrupted, ReservationNotFound, GetReservation, GetBudgetsWithParent,
           ChargeAndRelease, Abort, Retry, Expire, Goto, streams
      <4> QED
        BY <4>1, <4>2 DEF TypeOK, Stream, CheckAndReserveBudget, AllowUnmatched, Deny,
           RejectDuplicate, Reserve, CheckInterrupted, ReservationNotFound, GetReservation,
           GetBudgetsWithParent, Abort, Retry, Expire, Goto, streams, Ended
    <3>2. CASE \E c \in Cleaners : Cleanup(c)
      BY <3>2 DEF Cleanup, SelectExpired, DeleteExpired, ReleasePending, CleanupCutShort, streams
    <3>3. CASE \E b \in Budgets : ResetBudgetUsage(b)
      BY <3>3 DEF ResetBudgetUsage, streams
    <3> QED
      BY <3>1, <3>2, <3>3 DEF Next
  <2> DEFINE charge == ChargesOf(r)
  <2>2. first[r] \in Budgets /\ cost[r] \in Nat /\ seen[r] \in [Budgets -> Nat]
    BY <2>1 DEF ChargeAndRelease, TypeOK
  <2>3. charge \in [Budgets -> Nat]
    BY <2>2, ChargesOfBounds
  <2>4. usage' = [b \in Budgets |-> usage[b] + charge[b]]
    BY <2>1 DEF ChargeAndRelease
  <2>5. [b \in Budgets |-> usage'[b] - usage[b]] = charge
    <3> HIDE DEF charge
    <3>1. \A b \in Budgets : usage'[b] - usage[b] = charge[b]
      BY <2>3, <2>4 DEF TypeOK
    <3> QED
      BY <2>3, <3>1
  <2>6. /\ chain[r] = ChainOf(first[r]) => ChainTotal(first[r], charge) >= cost[r]
        /\ SharedChain(first[r]) => ChainTotal(first[r], charge) <= cost[r]
    BY <2>2, ChainTakesPart
  <2> HIDE DEF charge
  <2> QED
    BY <2>5, <2>6
<1> QED
  BY <1>1, TypeCorrect, PTL DEF Spec, BucketFillConserves
=============================================================================
