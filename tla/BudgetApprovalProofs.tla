------------------------ MODULE BudgetApprovalProofs ------------------------
(***************************************************************************)
(* Proofs about BudgetApproval, for any number of budgets and sessions.    *)
(*                                                                         *)
(* The invariant says what a call in progress knows: the status it read is *)
(* the one its handler demands, and the count it read is not ahead of the  *)
(* row, one behind it at least once its own rejection is written.          *)
(***************************************************************************)
EXTENDS BudgetApproval, TLAPS

\* The status a handler demands of what it reads.
DemandedStatus ==
    \A a \in Actors :
        /\ call[a] \in {"approving", "rejecting"} => seen[a] = "pending"
        /\ call[a] = "resubmitting" => seen[a] = "rejected"

\* A call never counts on more rejections than there have been.
ReadEarlier ==
    \A a \in Actors :
        /\ call[a] = "idle" => count[a] = 0
        /\ call[a] # "idle" => count[a] <= rejections[target[a]]
        /\ call[a] = "rejected" => count[a] + 1 <= rejections[target[a]]

Known == TypeOK /\ DemandedStatus /\ ReadEarlier

Inv == Known /\ ClosedAfterThree /\ AttemptsNotAhead

\* No call is in progress and no budget exists at first.
LEMMA ApprovalInit == Init => Inv
<1> SUFFICES ASSUME Init PROVE Inv
  OBVIOUS
<1>1. TypeOK
  BY DEF Init, TypeOK, Statuses, Calls, Nobody
<1>2. DemandedStatus /\ ReadEarlier /\ ClosedAfterThree /\ AttemptsNotAhead
  BY DEF Init, DemandedStatus, ReadEarlier, ClosedAfterThree, AttemptsNotAhead
<1> QED
  BY <1>1, <1>2 DEF Inv, Known

\* Reading a budget: status and count read are the current ones.
LEMMA ApprovalEnter ==
    ASSUME Inv, NEW a \in Actors, NEW b \in Budgets,
           NEW label \in {"approving", "rejecting", "resubmitting"}, Enter(a, b, label),
           label \in {"approving", "rejecting"} => status[b] = "pending",
           label = "resubmitting" => status[b] = "rejected"
    PROVE  Inv'
<1>1. TypeOK'
  BY DEF Inv, Known, TypeOK, Enter, row, Calls
<1>2. DemandedStatus' /\ ReadEarlier'
  BY DEF Inv, Known, TypeOK, DemandedStatus, ReadEarlier, Enter, row
<1>3. ClosedAfterThree' /\ AttemptsNotAhead'
  BY DEF Inv, ClosedAfterThree, AttemptsNotAhead, Enter, row
<1> QED
  BY <1>1, <1>2, <1>3 DEF Inv, Known

\* Steps that leave status and counts alone and end the call of a.
LEMMA ApprovalLeave ==
    ASSUME Known, NEW a \in Actors, Leave(a),
           UNCHANGED <<status, rejections, owner, raced>>,
           \A b \in Budgets : \A e \in history'[b] :
              e.action \in Recording /\ e.actor \in Actors /\ e.attempt \in Nat
    PROVE  Known'
<1>1. TypeOK'
  BY DEF Known, TypeOK, Leave, Calls, Statuses
<1>2. DemandedStatus' /\ ReadEarlier'
  BY DEF Known, TypeOK, DemandedStatus, ReadEarlier, Leave
<1> QED
  BY <1>1, <1>2 DEF Known

\* The unguarded UPDATE: a budget is closed by a call that counted two rejections
\* before its own, and the count it adds to is no smaller.
LEMMA ApprovalWrite ==
    ASSUME Inv, NEW a \in Actors, NEW new \in Statuses,
           NEW increment \in {0, 1}, NEW label \in Recording,
           call[a] # "idle",
           UpdateBudgetApprovalStatus(a, new, increment),
           new = "closed" => rejections[target[a]] + increment >= 3,
           label = "rejected" => increment = 1,
           call' = [call EXCEPT ![a] = label],
           UNCHANGED <<owner, history, target, seen, count>>
    PROVE  Inv'
<1> DEFINE b == target[a]
<1>1. b \in Budgets /\ rejections[b] \in Nat
  BY DEF Inv, Known, TypeOK
<1>2. /\ status' = [status EXCEPT ![b] = new]
      /\ rejections' = [rejections EXCEPT ![b] = rejections[b] + increment]
      /\ raced' \subseteq raced \cup {b}
  BY DEF UpdateBudgetApprovalStatus
<1> HIDE DEF b
<1>3. TypeOK'
  BY <1>1, <1>2 DEF Inv, Known, TypeOK, Recording, Calls
<1>4. \A c \in Budgets : /\ rejections[c] \in Nat /\ rejections'[c] \in Nat
                         /\ rejections'[c] >= rejections[c]
  BY <1>1, <1>2 DEF Inv, Known, TypeOK
<1>5. DemandedStatus'
  BY DEF Inv, Known, TypeOK, DemandedStatus, Recording
<1>6. ReadEarlier'
  <2> SUFFICES ASSUME NEW d \in Actors
               PROVE  /\ call'[d] = "idle" => count[d] = 0
                      /\ call'[d] # "idle" => count[d] <= rejections'[target[d]]
                      /\ call'[d] = "rejected" => count[d] + 1 <= rejections'[target[d]]
    BY DEF ReadEarlier
  <2>0. count[d] \in Nat
    BY DEF Inv, Known, TypeOK
  <2>1. CASE d = a
    <3>1. call'[d] = label /\ count[d] <= rejections[b]
      BY <2>1 DEF Inv, Known, TypeOK, ReadEarlier, b
    <3>2. rejections'[b] = rejections[b] + increment /\ target[d] = b
      BY <1>1, <1>2, <2>1 DEF Inv, Known, TypeOK, b
    <3>3. CASE increment = 1
      BY <1>1, <2>0, <3>1, <3>2, <3>3 DEF Recording
    <3>4. CASE increment = 0
      BY <1>1, <2>0, <3>1, <3>2, <3>4 DEF Recording
    <3> QED
      BY <3>3, <3>4
  <2>2. CASE d # a
    <3>1. call'[d] = call[d]
      BY <2>2 DEF Inv, Known, TypeOK
    <3>2. CASE call[d] = "idle"
      BY <3>1, <3>2 DEF Inv, Known, ReadEarlier
    <3>3. CASE call[d] # "idle"
      <4>1. target[d] \in Budgets /\ count[d] <= rejections[target[d]]
            /\ (call[d] = "rejected" => count[d] + 1 <= rejections[target[d]])
        BY <3>3 DEF Inv, Known, TypeOK, ReadEarlier
      <4> QED
        BY <1>4, <2>0, <3>1, <3>3, <4>1
    <3> QED
      BY <3>2, <3>3
  <2> QED
    BY <2>1, <2>2
<1>7. ClosedAfterThree'
  <2> SUFFICES ASSUME NEW c \in Budgets, status'[c] = "closed"
               PROVE  rejections'[c] >= 3
    BY DEF ClosedAfterThree
  <2>1. CASE c = b
    BY <1>1, <1>2, <2>1 DEF Inv, Known, TypeOK, b
  <2>2. CASE c # b
    <3>1. status[c] = "closed" /\ rejections'[c] = rejections[c]
      BY <1>2, <2>2 DEF Inv, Known, TypeOK
    <3> QED
      BY <3>1 DEF Inv, ClosedAfterThree
  <2> QED
    BY <2>1, <2>2
<1>8. AttemptsNotAhead'
  <2> SUFFICES ASSUME NEW c \in Budgets, NEW e \in history[c]
               PROVE  e.attempt <= (IF e.action = "rejected" THEN rejections'[c]
                                    ELSE rejections'[c] + 1)
    BY DEF AttemptsNotAhead
  <2>1. e.attempt <= (IF e.action = "rejected" THEN rejections[c] ELSE rejections[c] + 1)
    BY DEF Inv, AttemptsNotAhead
  <2>2. e.attempt \in Nat
    BY DEF Inv, Known, TypeOK
  <2> QED
    BY <1>4, <2>1, <2>2
<1> QED
  BY <1>3, <1>5, <1>6, <1>7, <1>8 DEF Inv, Known

\* Every step of a session keeps the invariant.
LEMMA ApprovalSession ==
    ASSUME Inv, NEW a \in Actors, Session(a)
    PROVE  Inv'
<1>1. ASSUME NEW b \in Budgets, CreateBudget(a, b)
      PROVE  Inv'
  <2>1. /\ status[b] = "absent" /\ call[a] = "idle"
        /\ UNCHANGED <<rejections, history, raced>>
        /\ \/ status' = [status EXCEPT ![b] = "approved"] /\ UNCHANGED calls
           \/ /\ status' = [status EXCEPT ![b] = "pending"]
              /\ call' = [call EXCEPT ![a] = "submitted"]
              /\ target' = [target EXCEPT ![a] = b]
              /\ UNCHANGED <<seen, count>>
    BY <1>1 DEF CreateBudget
  <2>2. \A c \in Budgets : owner'[c].creator \in Actors \cup {None}
    <3>1. PICK kind \in {"user", "team"}, child \in BOOLEAN,
               org \in {None, OrgOf[a]}, team \in {None, TeamOf[a]} :
             owner' = [owner EXCEPT ![b] = OwnershipFor(a, kind, child, org, team)]
      BY <1>1 DEF CreateBudget
    <3>2. OwnershipFor(a, kind, child, org, team).creator = a
      BY DEF OwnershipFor
    <3>3. \A c \in Budgets : owner'[c] = OwnershipFor(a, kind, child, org, team)
                             \/ owner'[c] = owner[c]
      BY <3>1
    <3> QED
      BY <3>2, <3>3 DEF Inv, Known, TypeOK
  <2>3. TypeOK'
    BY <2>1, <2>2 DEF Inv, Known, TypeOK, calls, Calls, Statuses
  <2>4. DemandedStatus' /\ ReadEarlier'
    BY <2>1 DEF Inv, Known, TypeOK, DemandedStatus, ReadEarlier, calls
  <2>5. ClosedAfterThree' /\ AttemptsNotAhead'
    BY <2>1 DEF Inv, Known, TypeOK, ClosedAfterThree, AttemptsNotAhead
  <2> QED
    BY <2>3, <2>4, <2>5 DEF Inv, Known
<1>2. ASSUME NEW b \in Budgets, ReadForApproval(a, b)
      PROVE  Inv'
  BY <1>2, ApprovalEnter DEF ReadForApproval
<1>3. ASSUME NEW b \in Budgets, ReadForRejection(a, b)
      PROVE  Inv'
  BY <1>3, ApprovalEnter DEF ReadForRejection
<1>4. ASSUME NEW b \in Budgets, ReadForResubmission(a, b)
      PROVE  Inv'
  BY <1>4, ApprovalEnter DEF ReadForResubmission
<1>5. CASE ApproveBudget(a)
  <2>1. UpdateBudgetApprovalStatus(a, "approved", 0) /\ call' = [call EXCEPT ![a] = "approved"]
        /\ UNCHANGED <<owner, history, target, seen, count>> /\ call[a] # "idle"
    BY <1>5 DEF ApproveBudget
  <2>2. "approved" \in Statuses /\ "approved" \in Recording
    BY DEF Statuses, Recording
  <2> QED
    BY <2>1, <2>2, ApprovalWrite
<1>6. CASE RejectBudget(a)
  <2> DEFINE new == RejectedStatus(count[a])
  <2>1. UpdateBudgetApprovalStatus(a, new, 1) /\ call' = [call EXCEPT ![a] = "rejected"]
        /\ UNCHANGED <<owner, history, target, seen, count>> /\ call[a] = "rejecting"
    BY <1>6 DEF RejectBudget
  <2>2. new \in Statuses /\ "rejected" \in Recording
    BY DEF Statuses, Recording, RejectedStatus
  <2>3. count[a] \in Nat /\ rejections[target[a]] \in Nat /\ count[a] <= rejections[target[a]]
    BY <2>1 DEF Inv, Known, TypeOK, ReadEarlier
  <2>4. new = "closed" => rejections[target[a]] + 1 >= 3
    BY <2>3 DEF RejectedStatus
  <2> HIDE DEF new
  <2> QED
    BY <2>1, <2>2, <2>4, ApprovalWrite
<1>7. CASE ResubmitBudget(a)
  <2>1. UpdateBudgetApprovalStatus(a, "pending", 0) /\ call' = [call EXCEPT ![a] = "resubmitted"]
        /\ UNCHANGED <<owner, history, target, seen, count>> /\ call[a] # "idle"
    BY <1>7 DEF ResubmitBudget
  <2>2. "pending" \in Statuses /\ "resubmitted" \in Recording
    BY DEF Statuses, Recording
  <2> QED
    BY <2>1, <2>2, ApprovalWrite
<1>8. CASE CreateBudgetApproval(a)
  <2> DEFINE record == [action |-> call[a], actor |-> a, attempt |-> count[a] + 1]
  <2>1. call[a] \in Recording /\ call[a] # "idle" /\ target[a] \in Budgets
        /\ count[a] \in Nat
    BY <1>8 DEF CreateBudgetApproval, Inv, Known, TypeOK, Recording
  <2>2. history' = [history EXCEPT ![target[a]] = @ \cup {record}]
        /\ Leave(a) /\ UNCHANGED <<status, rejections, owner, raced>>
    BY <1>8 DEF CreateBudgetApproval
  <2>3. \A b \in Budgets : \A e \in history'[b] :
            e \in history[b] \/ (e = record /\ b = target[a])
    BY <2>1, <2>2
  <2>4. \A b \in Budgets : \A e \in history'[b] :
            e.action \in Recording /\ e.actor \in Actors /\ e.attempt \in Nat
    BY <2>1, <2>3 DEF Inv, Known, TypeOK
  <2>5. Known'
    BY <2>2, <2>4, ApprovalLeave DEF Inv
  <2>6. record.attempt <= (IF record.action = "rejected" THEN rejections[target[a]]
                           ELSE rejections[target[a]] + 1)
    BY <2>1 DEF Inv, Known, TypeOK, ReadEarlier
  <2>7. AttemptsNotAhead'
    BY <2>2, <2>3, <2>6 DEF Inv, AttemptsNotAhead
  <2>8. ClosedAfterThree'
    BY <2>2 DEF Inv, ClosedAfterThree
  <2> QED
    BY <2>5, <2>7, <2>8 DEF Inv
<1>9. CASE CallEnds(a)
  <2>1. Leave(a) /\ UNCHANGED <<status, rejections, owner, history, raced>>
    BY <1>9 DEF CallEnds, row
  <2>2. Known'
    BY <2>1, ApprovalLeave DEF Inv, Known, TypeOK
  <2> QED
    BY <2>1, <2>2 DEF Inv, ClosedAfterThree, AttemptsNotAhead
<1> QED
  BY <1>1, <1>2, <1>3, <1>4, <1>5, <1>6, <1>7, <1>8, <1>9 DEF Session

\* Every step keeps the invariant.
LEMMA ApprovalStep == Inv /\ [Next]_vars => Inv'
<1> SUFFICES ASSUME Inv, [Next]_vars
             PROVE  Inv'
  OBVIOUS
<1>1. CASE UNCHANGED vars
  BY <1>1 DEF Inv, Known, TypeOK, DemandedStatus, ReadEarlier, ClosedAfterThree,
              AttemptsNotAhead, vars, row, calls
<1>2. ASSUME NEW b \in Budgets, DeleteBudget(b)
      PROVE  Inv'
  <2>1. TypeOK'
    BY <1>2 DEF Inv, Known, TypeOK, DeleteBudget, calls, Statuses
  <2>2. DemandedStatus' /\ ReadEarlier'
    BY <1>2 DEF Inv, Known, TypeOK, DemandedStatus, ReadEarlier, DeleteBudget, calls
  <2>3. ClosedAfterThree' /\ AttemptsNotAhead'
    BY <1>2 DEF Inv, Known, TypeOK, ClosedAfterThree, AttemptsNotAhead, DeleteBudget
  <2> QED
    BY <2>1, <2>2, <2>3 DEF Inv, Known
<1> QED
  BY <1>1, <1>2, ApprovalSession DEF Next

LEMMA ApprovalInvariant == Spec => []Inv
  BY ApprovalInit, ApprovalStep, PTL DEF Spec

\* The columns and calls keep their types, whoever acts and wherever a call stops.
THEOREM ApprovalTypes == Spec => []TypeOK
<1>1. Inv => TypeOK
  BY DEF Inv, Known
<1> QED
  BY <1>1, ApprovalInvariant, PTL

\* For any number of admins whose approvals, rejections and resubmissions
\* interleave statement by statement: a budget is closed only after three
\* rejections have been counted, although RejectBudget decides by a stale count.
THEOREM NeverClosedEarly == Spec => []ClosedAfterThree
<1>1. Inv => ClosedAfterThree
  BY DEF Inv
<1> QED
  BY <1>1, ApprovalInvariant, PTL

\* No record of budget_approvals is numbered ahead of the rejections there have
\* been, although its number is computed from a count read two statements earlier.
THEOREM RecordsNotAhead == Spec => []AttemptsNotAhead
<1>1. Inv => AttemptsNotAhead
  BY DEF Inv
<1> QED
  BY <1>1, ApprovalInvariant, PTL

\* A step of the row of one budget is a step of its lifecycle.
LEMMA RowStep ==
    ASSUME NEW b \in Budgets, status \in [Budgets -> Statuses], rejections \in [Budgets -> Nat],
           NEW from, NEW to, status[b] = from, status'[b] = to,
           \/ /\ rejections'[b] = rejections[b]
              /\ \/ from = "absent" /\ to \in {"pending", "approved"}
                 \/ from = "pending" /\ to = "approved"
                 \/ from = "rejected" /\ to = "pending"
                 \/ from # "absent" /\ to = "gone"
           \/ /\ rejections'[b] = rejections[b] + 1
              /\ from = "pending"
              /\ to = IF rejections[b] + 1 >= 3 THEN "closed" ELSE "rejected"
    PROVE  Lifecycle(b)!Advance
<1> DEFINE st == [i \in {b} |-> status[i]]
           rj == [i \in {b} |-> rejections[i]]
<1>1. st' = [st EXCEPT ![b] = to] /\ st[b] = from /\ rj[b] = rejections[b]
  OBVIOUS
<1>2. rejections'[b] = rejections[b] => rj' = rj
  OBVIOUS
<1>3. rejections'[b] = rejections[b] + 1 => rj' = [rj EXCEPT ![b] = @ + 1]
  OBVIOUS
<1>4. from # "absent" /\ to = "gone"
        => st' = [i \in {b} |-> IF i \in {b} THEN "gone" ELSE st[i]]
  OBVIOUS
<1>5. rejections[b] + 1 \in {n \in Nat : n >= 3} <=> rejections[b] + 1 >= 3
  OBVIOUS
<1> HIDE DEF st, rj
<1> QED
  BY <1>1, <1>2, <1>3, <1>4, <1>5
     DEF Lifecycle!Advance, Lifecycle!Submit, Lifecycle!Approve, Lifecycle!Reject,
         Lifecycle!Resubmit, Lifecycle!Remove, Lifecycle!Move, st, rj

\* The UPDATE of a call whose reading still holds, seen from each budget.
LEMMA WriteFollows ==
    ASSUME Inv, NEW a \in Actors, NEW new, NEW increment \in {0, 1},
           UpdateBudgetApprovalStatus(a, new, increment),
           \/ call[a] = "approving" /\ new = "approved" /\ increment = 0
           \/ call[a] = "rejecting" /\ new = RejectedStatus(count[a]) /\ increment = 1
           \/ call[a] = "resubmitting" /\ new = "pending" /\ increment = 0,
           NEW b \in Budgets \ raced'
    PROVE  Lifecycle(b)!Advance \/ UNCHANGED <<status[b], rejections[b]>>
<1>1. /\ target[a] \in Budgets /\ count[a] \in Nat
      /\ status \in [Budgets -> Statuses] /\ rejections \in [Budgets -> Nat]
  BY DEF Inv, Known, TypeOK
<1>2. /\ status' = [status EXCEPT ![target[a]] = new]
      /\ rejections' = [rejections EXCEPT ![target[a]] = @ + increment]
      /\ raced' = IF AsRead(a) THEN raced ELSE raced \cup {target[a]}
  BY DEF UpdateBudgetApprovalStatus
<1>3. CASE b # target[a]
  BY <1>1, <1>2, <1>3
<1>4. CASE b = target[a]
  <2>1. status[b] = seen[a] /\ (call[a] = "rejecting" => rejections[b] = count[a])
    BY <1>2, <1>4 DEF AsRead
  <2>2. /\ call[a] \in {"approving", "rejecting"} => status[b] = "pending"
        /\ call[a] = "resubmitting" => status[b] = "rejected"
    BY <2>1 DEF Inv, Known, DemandedStatus
  <2>3. status'[b] = new /\ rejections'[b] = rejections[b] + increment
    BY <1>1, <1>2, <1>4
  <2>4. rejections[b] \in Nat
    BY <1>1
  <2>5. CASE call[a] = "rejecting"
    <3>1. /\ status[b] = "pending" /\ rejections'[b] = rejections[b] + 1
          /\ status'[b] = IF rejections[b] + 1 >= 3 THEN "closed" ELSE "rejected"
      BY <2>1, <2>2, <2>3, <2>5 DEF RejectedStatus
    <3> QED
      BY <1>1, <3>1, RowStep
  <2>6. CASE call[a] \in {"approving", "resubmitting"}
    <3>1. rejections'[b] = rejections[b]
      BY <2>3, <2>4, <2>6
    <3>2. \/ status[b] = "pending" /\ status'[b] = "approved"
          \/ status[b] = "rejected" /\ status'[b] = "pending"
      BY <2>2, <2>3, <2>6
    <3> QED
      BY <1>1, <3>1, <3>2, RowStep
  <2> QED
    BY <2>5, <2>6
<1> QED
  BY <1>3, <1>4

\* Every step, seen from each budget no call has raced for.
LEMMA StepFollows ==
    ASSUME Inv, Next, NEW b \in Budgets \ raced'
    PROVE  Lifecycle(b)!Advance \/ UNCHANGED <<status[b], rejections[b]>>
<1>0. status \in [Budgets -> Statuses] /\ rejections \in [Budgets -> Nat]
  BY DEF Inv, Known, TypeOK
<1>1. ASSUME NEW a \in Actors, NEW c \in Budgets, CreateBudget(a, c)
      PROVE  Lifecycle(b)!Advance \/ UNCHANGED <<status[b], rejections[b]>>
  <2>1. /\ status[c] = "absent" /\ rejections' = rejections
        /\ \E to \in {"pending", "approved"} : status' = [status EXCEPT ![c] = to]
    BY <1>1 DEF CreateBudget
  <2>2. CASE b # c
    BY <1>0, <2>1, <2>2
  <2>3. CASE b = c
    <3>1. status[b] = "absent" /\ status'[b] \in {"pending", "approved"}
          /\ rejections'[b] = rejections[b]
      BY <1>0, <2>1, <2>3
    <3> QED
      BY <1>0, <3>1, RowStep
  <2> QED
    BY <2>2, <2>3
<1>2. ASSUME NEW a \in Actors,
             \/ \E c \in Budgets : ReadForApproval(a, c) \/ ReadForRejection(a, c)
                                   \/ ReadForResubmission(a, c)
             \/ CreateBudgetApproval(a) \/ CallEnds(a)
      PROVE  UNCHANGED <<status[b], rejections[b]>>
  BY <1>2 DEF ReadForApproval, ReadForRejection, ReadForResubmission, Enter,
              CreateBudgetApproval, CallEnds, row
<1>3. ASSUME NEW a \in Actors, ApproveBudget(a)
      PROVE  Lifecycle(b)!Advance \/ UNCHANGED <<status[b], rejections[b]>>
  <2>1. UpdateBudgetApprovalStatus(a, "approved", 0) /\ call[a] = "approving"
    BY <1>3 DEF ApproveBudget
  <2> QED
    BY <2>1, WriteFollows
<1>4. ASSUME NEW a \in Actors, RejectBudget(a)
      PROVE  Lifecycle(b)!Advance \/ UNCHANGED <<status[b], rejections[b]>>
  <2>1. UpdateBudgetApprovalStatus(a, RejectedStatus(count[a]), 1) /\ call[a] = "rejecting"
    BY <1>4 DEF RejectBudget
  <2> QED
    BY <2>1, WriteFollows
<1>5. ASSUME NEW a \in Actors, ResubmitBudget(a)
      PROVE  Lifecycle(b)!Advance \/ UNCHANGED <<status[b], rejections[b]>>
  <2>1. UpdateBudgetApprovalStatus(a, "pending", 0) /\ call[a] = "resubmitting"
    BY <1>5 DEF ResubmitBudget
  <2> QED
    BY <2>1, WriteFollows
<1>6. ASSUME NEW c \in Budgets, DeleteBudget(c)
      PROVE  Lifecycle(b)!Advance \/ UNCHANGED <<status[b], rejections[b]>>
  <2>1. /\ status[c] # "absent" /\ rejections' = rejections
        /\ status' = [status EXCEPT ![c] = "gone"]
    BY <1>6 DEF DeleteBudget, Exists
  <2>2. CASE b # c
    BY <1>0, <2>1, <2>2
  <2>3. CASE b = c
    <3>1. status[b] # "absent" /\ status'[b] = "gone" /\ rejections'[b] = rejections[b]
      BY <1>0, <2>1, <2>3
    <3> QED
      BY <1>0, <3>1, RowStep
  <2> QED
    BY <2>2, <2>3
<1> QED
  BY <1>1, <1>2, <1>3, <1>4, <1>5, <1>6 DEF Next, Session

\* A budget follows the approval lifecycle until a stale reading decides on it, for
\* any number of budgets and sessions and wherever calls are cut short: the races
\* the history variable names are the only cause of a forbidden transition.
THEOREM DecisionsFollowLifecycle == Spec => FollowsLifecycle
<1>1. Inv /\ [Next]_vars =>
         [\A b \in Budgets \ raced' :
             [Lifecycle(b)!Advance]_<<status[b], rejections[b]>>]_vars
  BY StepFollows
<1> QED
  BY <1>1, ApprovalInvariant, PTL DEF Spec, FollowsLifecycle
=============================================================================
