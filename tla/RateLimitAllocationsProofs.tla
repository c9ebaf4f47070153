--------------------- MODULE RateLimitAllocationsProofs ---------------------
(***************************************************************************)
(* Proofs about RateLimitAllocations, for any number of allocations, slots *)
(* and sessions.                                                           *)
(***************************************************************************)
EXTENDS RateLimitAllocations, TLAPS

(***************************************************************************)
(* Type correctness.                                                       *)
(***************************************************************************)
\* The empty table and idle sessions have their types.
LEMMA TypeInit == Init => TypeOK
  BY DEF Init, TypeOK, Edits, NoEdit, Calls, Exists, Lifecycle!Statuses

\* Ending a call keeps the types of the sessions.
LEMMA TypeLeave ==
    ASSUME TypeOK, NEW a \in Actors, Leave(a)
    PROVE  /\ call' \in [Actors -> Calls]
           /\ target' \in [Actors -> Allocations \cup {Nothing}]
           /\ \A d \in Actors : call'[d] \notin {"idle", "checked", "cleared"}
                                  => target'[d] \in Allocations
           /\ edit' \in [Actors -> Edits]
           /\ attempt' \in [Actors -> Nat]
  BY DEF TypeOK, Leave, Goto, Edits, NoEdit, Calls, Lifecycle!Statuses

\* Deleting rows keeps the types of their columns.
LEMMA TypeDelete ==
    ASSUME TypeOK, NEW S, Delete(S), version' = version
    PROVE  /\ status' \in [Allocations -> Lifecycle!Statuses]
           /\ slot' \in [Allocations -> Slots \cup {Nothing}]
           /\ mode' \in [Allocations -> Modes \cup {Nothing}]
           /\ enabled' \in [Allocations -> BOOLEAN]
           /\ byOrg' \in [Allocations -> BOOLEAN]
           /\ orgHold' \subseteq Allocations
           /\ \A x \in Allocations : (Exists(x))' => version'[x] > 0
<1>1. /\ status' \in [Allocations -> Lifecycle!Statuses]
      /\ slot' \in [Allocations -> Slots \cup {Nothing}]
      /\ mode' \in [Allocations -> Modes \cup {Nothing}]
      /\ orgHold' \subseteq Allocations
  BY DEF Delete, TypeOK, Lifecycle!Statuses
<1>2. enabled' \in [Allocations -> BOOLEAN] /\ byOrg' \in [Allocations -> BOOLEAN]
  BY Zenon DEF Delete, TypeOK
<1>3. \A x \in Allocations : (Exists(x))' => version'[x] > 0
  BY DEF Delete, TypeOK, Exists
<1> QED
  BY <1>1, <1>2, <1>3

\* Every statement of a creation keeps the types.
LEMMA TypeCreate ==
    ASSUME TypeOK, NEW a \in Actors,
           CheckExisting(a) \/ DeleteRejected(a) \/ InsertAllocation(a)
    PROVE  TypeOK'
<1>1. CASE CheckExisting(a)
  <2>1. PICK s \in Slots, m \in Modes, who \in Callers :
          edit' = [edit EXCEPT ![a] = [NoEdit EXCEPT !.slot = s, !.mode = m,
                     !.status = IF who = "team" THEN "pending" ELSE "approved"]]
    BY <1>1 DEF CheckExisting
  <2>2. edit' \in [Actors -> Edits]
    BY <2>1 DEF TypeOK, Edits, NoEdit, Lifecycle!Statuses
  <2> QED
    BY <1>1, <2>2 DEF CheckExisting, TypeOK, Goto, Calls, rows, Exists
<1>2. CASE DeleteRejected(a)
  <2>1. Delete(Stale(edit[a].slot))
    BY <1>2 DEF DeleteRejected
  <2> QED
    BY <1>2, <2>1, TypeDelete DEF DeleteRejected, TypeOK, Goto, Calls, Exists
<1>3. CASE InsertAllocation(a)
  <2>1. PICK x \in Allocations :
          /\ version' = [version EXCEPT ![x] = 1]
          /\ slot' = [slot EXCEPT ![x] = edit[a].slot]
          /\ mode' = [mode EXCEPT ![x] = edit[a].mode]
          /\ enabled' = [enabled EXCEPT ![x] = TRUE]
          /\ status' = [status EXCEPT ![x] = edit[a].status]
          /\ \/ edit[a].status = "approved" /\ Leave(a)
             \/ /\ edit[a].status = "pending"
                /\ Goto(a, "recording")
                /\ target' = [target EXCEPT ![a] = x]
                /\ edit' = [edit EXCEPT ![a] = NoEdit]
                /\ attempt' = [attempt EXCEPT ![a] = 1]
    BY <1>3 DEF InsertAllocation
  <2>2. UNCHANGED <<rejections, byOrg, latest, orgHold>>
    BY <1>3 DEF InsertAllocation
  <2>3. edit[a].slot \in Slots \cup {Nothing} /\ edit[a].mode \in Modes \cup {Nothing}
        /\ edit[a].status \in Lifecycle!Statuses
    BY DEF TypeOK, Edits
  <2>4. /\ status' \in [Allocations -> Lifecycle!Statuses] /\ version' \in [Allocations -> Nat]
        /\ slot' \in [Allocations -> Slots \cup {Nothing}]
        /\ mode' \in [Allocations -> Modes \cup {Nothing}]
        /\ enabled' \in [Allocations -> BOOLEAN]
    BY <2>1, <2>3 DEF TypeOK
  <2>5. \A y \in Allocations : (Exists(y))' => version'[y] > 0
    BY <2>1 DEF TypeOK, Exists
  <2>6. CASE Leave(a)
    BY <2>2, <2>4, <2>5, <2>6, TypeLeave DEF TypeOK
  <2>7. CASE ~Leave(a)
    <3>1. /\ Goto(a, "recording")
          /\ target' = [target EXCEPT ![a] = x]
          /\ edit' = [edit EXCEPT ![a] = NoEdit]
          /\ attempt' = [attempt EXCEPT ![a] = 1]
      BY <2>1, <2>7
    <3>2. /\ call' \in [Actors -> Calls]
          /\ target' \in [Actors -> Allocations \cup {Nothing}]
          /\ \A d \in Actors : call'[d] \notin {"idle", "checked", "cleared"}
                                 => target'[d] \in Allocations
          /\ attempt' \in [Actors -> Nat]
      BY <3>1 DEF TypeOK, Goto, Calls
    <3>3. edit' \in [Actors -> Edits]
      BY <3>1 DEF TypeOK, Edits, NoEdit, Lifecycle!Statuses
    <3> QED
      BY <2>2, <2>4, <2>5, <3>2, <3>3 DEF TypeOK
  <2> QED
    BY <2>6, <2>7
<1> QED
  BY <1>1, <1>2, <1>3

\* Both statements of an edit keep the types.
LEMMA TypeUpdate ==
    ASSUME TypeOK, NEW a \in Actors,
           (\E x \in Allocations : ReadForUpdate(a, x)) \/ UpdateAllocation(a)
    PROVE  TypeOK'
<1>1. ASSUME NEW x \in Allocations, ReadForUpdate(a, x)
      PROVE  TypeOK'
  <2>1. PICK s \in Repatterned(x), m \in Modes, who \in Callers,
             switch \in {"keep", "enable", "disable"} :
          edit' = [edit EXCEPT ![a] = Edited(who, x, s, m, switch)]
    BY <1>1 DEF ReadForUpdate
  <2>3. s \in Slots
    BY DEF Repatterned
  <2>2. Edited(who, x, s, m, switch) \in Edits
    <3>1. /\ (IF switch = "keep" THEN enabled[x] ELSE switch = "enable") \in BOOLEAN
          /\ (IF switch = "keep" \/ (switch = "disable" /\ who = "anonymous")
              THEN byOrg[x] ELSE switch = "disable" /\ who = "org") \in BOOLEAN
          /\ (switch = "enable" /\ who # "team") \in BOOLEAN
      BY DEF TypeOK
    <3>2. version[x] \in Nat
      BY DEF TypeOK
    <3> QED
      BY <2>3, <3>1, <3>2 DEF Edited, Edits, Lifecycle!Statuses
  <2> QED
    BY <1>1, <2>1, <2>2 DEF ReadForUpdate, TypeOK, Goto, Calls, rows, Exists
<1>2. CASE UpdateAllocation(a)
  <2> DEFINE x == target[a]
             e == edit[a]
  <2>1. x \in Allocations
    BY <1>2 DEF UpdateAllocation, TypeOK
  <2>2. e \in Edits
    BY DEF TypeOK
  <2>3. /\ slot' = [slot EXCEPT ![x] = e.slot]
        /\ mode' = [mode EXCEPT ![x] = e.mode]
        /\ enabled' = [enabled EXCEPT ![x] = e.enabled]
        /\ byOrg' = [byOrg EXCEPT ![x] = e.byOrg]
        /\ version' = [version EXCEPT ![x] = @ + 1]
        /\ orgHold' \in SUBSET (orgHold \cup {x})
        /\ Leave(a)
        /\ UNCHANGED <<status, rejections, latest>>
    BY <1>2 DEF UpdateAllocation
  <2>5. /\ e.slot \in Slots \cup {Nothing} /\ e.mode \in Modes \cup {Nothing}
        /\ e.enabled \in BOOLEAN /\ e.byOrg \in BOOLEAN
    BY <2>2 DEF Edits
  <2> HIDE DEF x, e
  <2>4. /\ slot' \in [Allocations -> Slots \cup {Nothing}]
        /\ mode' \in [Allocations -> Modes \cup {Nothing}]
        /\ enabled' \in [Allocations -> BOOLEAN]
        /\ byOrg' \in [Allocations -> BOOLEAN]
        /\ version' \in [Allocations -> Nat]
        /\ orgHold' \subseteq Allocations
    BY <2>1, <2>3, <2>5 DEF TypeOK
  <2>6. \A y \in Allocations : (Exists(y))' => version'[y] > 0
    BY <2>1, <2>3 DEF TypeOK, Exists
  <2> QED
    BY <2>3, <2>4, <2>6, TypeLeave DEF TypeOK
<1> QED
  BY <1>1, <1>2

\* Every statement of a decision or a resubmission keeps the types.
LEMMA TypeDecide ==
    ASSUME TypeOK, NEW a \in Actors,
           \/ \E x \in Allocations : \/ GetLatestAttemptNumber(a, x, "approving")
                                     \/ GetLatestAttemptNumber(a, x, "rejecting")
                                     \/ ReadForResubmit(a, x)
           \/ ApproveAllocation(a) \/ RejectAllocation(a)
           \/ NumberResubmission(a) \/ ResetAllocationForResubmit(a)
           \/ CreateApproval(a) \/ CallEnds(a)
    PROVE  TypeOK'
<1> USE DEF Calls, Exists
<1>1. ASSUME NEW x \in Allocations, NEW label \in {"approving", "rejecting"},
             GetLatestAttemptNumber(a, x, label)
      PROVE  TypeOK'
  BY <1>1 DEF GetLatestAttemptNumber, TypeOK, Goto, rows
<1>2. ASSUME NEW x \in Allocations, ReadForResubmit(a, x)
      PROVE  TypeOK'
  BY <1>2 DEF ReadForResubmit, TypeOK, Goto, rows
<1>3. CASE ApproveAllocation(a)
  <2>1. target[a] \in Allocations
    BY <1>3 DEF ApproveAllocation, TypeOK
  <2> QED
    BY <1>3, <2>1 DEF ApproveAllocation, TypeOK, Goto, Bump, Lifecycle!Statuses
<1>4. CASE RejectAllocation(a)
  <2>1. target[a] \in Allocations
    BY <1>4 DEF RejectAllocation, TypeOK
  <2> QED
    BY <1>4, <2>1 DEF RejectAllocation, TypeOK, Goto, Bump, Lifecycle!Statuses
<1>5. CASE NumberResubmission(a)
  <2>1. target[a] \in Allocations
    BY <1>5 DEF NumberResubmission, TypeOK
  <2> QED
    BY <1>5, <2>1 DEF NumberResubmission, TypeOK, Goto, rows
<1>6. CASE ResetAllocationForResubmit(a)
  <2>1. target[a] \in Allocations
    BY <1>6 DEF ResetAllocationForResubmit, TypeOK
  <2> QED
    BY <1>6, <2>1 DEF ResetAllocationForResubmit, TypeOK, Goto, Bump, Lifecycle!Statuses
<1>7. CASE CreateApproval(a)
  <2>1. target[a] \in Allocations
    BY <1>7 DEF CreateApproval, TypeOK
  <2>2. latest' \in [Allocations -> Nat]
    BY <1>7, <2>1 DEF CreateApproval, TypeOK
  <2> QED
    BY <1>7, <2>2, TypeLeave DEF CreateApproval, TypeOK
<1>8. CASE CallEnds(a)
  BY <1>8, TypeLeave DEF CallEnds, TypeOK, rows
<1> QED
  BY <1>1, <1>2, <1>3, <1>4, <1>5, <1>6, <1>7, <1>8

\* Every step keeps the types.
LEMMA TypeStep == TypeOK /\ [Next]_vars => TypeOK'
<1> SUFFICES ASSUME TypeOK, [Next]_vars
             PROVE  TypeOK'
  OBVIOUS
<1>1. CASE UNCHANGED vars
  BY <1>1 DEF TypeOK, vars, rows, calls, Exists
<1>2. ASSUME NEW x \in Allocations, DeleteAllocation(x)
      PROVE  TypeOK'
  BY <1>2, TypeDelete DEF DeleteAllocation, TypeOK, calls, Exists
<1> QED
  BY <1>1, <1>2, TypeCreate, TypeUpdate, TypeDecide DEF Next, Session

\* The columns and the sessions keep their types in every behaviour.
THEOREM AllocationTypes == Spec => []TypeOK
  BY TypeInit, TypeStep, PTL DEF Spec

(***************************************************************************)
(* The approval lifecycle.                                                 *)
(***************************************************************************)
\* Every step of the handlers is a step of the lifecycle, or none of it.
LEMMA LifecycleStep ==
    TypeOK /\ [Next]_vars => [Lifecycle!Advance]_(Lifecycle!lifecycle)
<1> SUFFICES ASSUME TypeOK, Next
             PROVE  Lifecycle!Advance \/ UNCHANGED <<status, rejections>>
  BY DEF vars, rows, Lifecycle!lifecycle
<1> USE DEF Lifecycle!Advance
<1>1. ASSUME NEW a \in Actors, CheckExisting(a)
      PROVE  UNCHANGED <<status, rejections>>
  BY <1>1 DEF CheckExisting, rows
<1>2. ASSUME NEW a \in Actors, DeleteRejected(a)
      PROVE  Lifecycle!Advance
  <2>1. Stale(edit[a].slot) \in SUBSET Allocations
    BY DEF Stale
  <2>2. Lifecycle!Remove(Stale(edit[a].slot))
    BY <1>2 DEF DeleteRejected, Delete, Stale, Lifecycle!Remove
  <2> QED
    BY <2>1, <2>2
<1>3. ASSUME NEW a \in Actors, InsertAllocation(a)
      PROVE  Lifecycle!Advance
  <2>1. PICK x \in Allocations :
          /\ status[x] = "absent"
          /\ \/ status' = [status EXCEPT ![x] = "approved"]
             \/ status' = [status EXCEPT ![x] = "pending"]
    BY <1>3 DEF InsertAllocation
  <2>2. Lifecycle!Submit(x)
    BY <1>3, <2>1 DEF InsertAllocation, Lifecycle!Submit, Lifecycle!Move
  <2> QED
    BY <2>2
<1>4. ASSUME NEW a \in Actors, NEW x \in Allocations,
             \/ ReadForUpdate(a, x) \/ ReadForResubmit(a, x)
             \/ GetLatestAttemptNumber(a, x, "approving")
             \/ GetLatestAttemptNumber(a, x, "rejecting")
      PROVE  UNCHANGED <<status, rejections>>
  BY <1>4 DEF ReadForUpdate, ReadForResubmit, GetLatestAttemptNumber, rows
<1>5. ASSUME NEW a \in Actors,
             \/ UpdateAllocation(a) \/ NumberResubmission(a)
             \/ CreateApproval(a) \/ CallEnds(a)
      PROVE  UNCHANGED <<status, rejections>>
  BY <1>5 DEF UpdateAllocation, NumberResubmission, CreateApproval, CallEnds, rows
<1>6. ASSUME NEW a \in Actors, ApproveAllocation(a)
      PROVE  Lifecycle!Advance
  <2>1. target[a] \in Allocations
    BY <1>6 DEF ApproveAllocation, TypeOK
  <2>2. Lifecycle!Approve(target[a])
    BY <1>6 DEF ApproveAllocation, Guarded, Lifecycle!Approve, Lifecycle!Move
  <2> QED
    BY <2>1, <2>2
<1>7. ASSUME NEW a \in Actors, RejectAllocation(a)
      PROVE  Lifecycle!Advance
  <2>1. target[a] \in Allocations
    BY <1>7 DEF RejectAllocation, TypeOK
  <2>2. Lifecycle!Reject(target[a])
    BY <1>7 DEF RejectAllocation, Guarded, Lifecycle!Reject, Lifecycle!Move
  <2> QED
    BY <2>1, <2>2
<1>8. ASSUME NEW a \in Actors, ResetAllocationForResubmit(a)
      PROVE  Lifecycle!Advance
  <2>1. target[a] \in Allocations
    BY <1>8 DEF ResetAllocationForResubmit, TypeOK
  <2>2. Lifecycle!Resubmit(target[a])
    BY <1>8 DEF ResetAllocationForResubmit, Guarded, Lifecycle!Resubmit, Lifecycle!Move
  <2> QED
    BY <2>1, <2>2
<1>9. ASSUME NEW x \in Allocations, DeleteAllocation(x)
      PROVE  Lifecycle!Advance
  <2>1. Lifecycle!Remove({x})
    BY <1>9 DEF DeleteAllocation, Delete, Exists, TypeOK, Lifecycle!Remove
  <2> QED
    BY <2>1
<1> QED
  BY <1>1, <1>2, <1>3, <1>4, <1>5, <1>6, <1>7, <1>8, <1>9 DEF Next, Session

\* The allocation handlers implement the approval lifecycle, for any number of
\* rows and of sessions whose statements interleave in any way.
THEOREM ImplementsLifecycle == Spec => FollowsLifecycle
<1>1. Init => Lifecycle!Start
  BY DEF Init, Lifecycle!Start, Lifecycle!Absent, Lifecycle!Unrejected
<1> QED
  BY <1>1, LifecycleStep, AllocationTypes, PTL DEF Spec, FollowsLifecycle, Lifecycle!LifecycleSpec

(***************************************************************************)
(* One active allocation per slot.                                         *)
(***************************************************************************)
\* A step that lets only x into the active rows, or into another slot, keeps the
\* slots apart when the index allows x its place.
LEMMA SlotsApart ==
    ASSUME OneActivePerSlot, NEW x \in Allocations,
           \A y \in Allocations \ {x} : Active(y)' => Active(y) /\ slot'[y] = slot[y],
           Active(x)' => ~SlotTaken(slot'[x], x)
    PROVE  OneActivePerSlot'
  BY DEF OneActivePerSlot, SlotTaken

\* Every step keeps the slots apart.
LEMMA SlotStep == TypeOK /\ OneActivePerSlot /\ [Next]_vars => OneActivePerSlot'
<1> SUFFICES ASSUME TypeOK, OneActivePerSlot, [Next]_vars
             PROVE  OneActivePerSlot'
  OBVIOUS
<1>1. ASSUME \A y \in Allocations : Active(y)' => Active(y) /\ slot'[y] = slot[y]
      PROVE  OneActivePerSlot'
  BY <1>1 DEF OneActivePerSlot
<1>2. CASE UNCHANGED vars
  BY <1>1, <1>2 DEF vars, rows, Active
<1>3. ASSUME NEW a \in Actors, DeleteRejected(a)
      PROVE  OneActivePerSlot'
  BY <1>1, <1>3 DEF DeleteRejected, Delete, Stale, Active
<1>4. ASSUME NEW a \in Actors, InsertAllocation(a)
      PROVE  OneActivePerSlot'
  <2>1. PICK x \in Allocations :
          /\ ~SlotTaken(edit[a].slot, x)
          /\ slot' = [slot EXCEPT ![x] = edit[a].slot]
          /\ \/ status' = [status EXCEPT ![x] = "approved"]
             \/ status' = [status EXCEPT ![x] = "pending"]
    BY <1>4 DEF InsertAllocation
  <2> QED
    BY <2>1, SlotsApart DEF TypeOK, Active
<1>5. ASSUME NEW a \in Actors, UpdateAllocation(a)
      PROVE  OneActivePerSlot'
  <2> DEFINE x == target[a]
  <2>1. x \in Allocations
    BY <1>5 DEF UpdateAllocation, TypeOK
  <2>2. /\ ~(Active(x) /\ SlotTaken(edit[a].slot, x))
        /\ slot' = [slot EXCEPT ![x] = edit[a].slot]
        /\ status' = status
    BY <1>5 DEF UpdateAllocation
  <2> HIDE DEF x
  <2> QED
    BY <2>1, <2>2, SlotsApart DEF TypeOK, Active
<1>6. ASSUME NEW a \in Actors, ApproveAllocation(a) \/ RejectAllocation(a)
      PROVE  OneActivePerSlot'
  <2>1. target[a] \in Allocations
    BY <1>6 DEF ApproveAllocation, RejectAllocation, TypeOK
  <2> QED
    BY <1>1, <1>6, <2>1 DEF ApproveAllocation, RejectAllocation, Guarded, Active, TypeOK
<1>7. ASSUME NEW a \in Actors, ResetAllocationForResubmit(a)
      PROVE  OneActivePerSlot'
  <2> DEFINE x == target[a]
  <2>1. x \in Allocations
    BY <1>7 DEF ResetAllocationForResubmit, TypeOK
  <2>2. ~SlotTaken(slot[x], x) /\ slot' = slot /\ status' = [status EXCEPT ![x] = "pending"]
    BY <1>7 DEF ResetAllocationForResubmit
  <2> HIDE DEF x
  <2> QED
    BY <2>1, <2>2, SlotsApart DEF TypeOK, Active
<1>8. ASSUME NEW x \in Allocations, DeleteAllocation(x)
      PROVE  OneActivePerSlot'
  BY <1>1, <1>8 DEF DeleteAllocation, Delete, Active, TypeOK
<1>9. ASSUME UNCHANGED <<status, slot>>
      PROVE  OneActivePerSlot'
  BY <1>1, <1>9 DEF Active
<1>10. ASSUME NEW a \in Actors, NEW x \in Allocations,
              \/ ReadForUpdate(a, x) \/ ReadForResubmit(a, x)
              \/ GetLatestAttemptNumber(a, x, "approving")
              \/ GetLatestAttemptNumber(a, x, "rejecting")
       PROVE  UNCHANGED <<status, slot>>
  BY <1>10 DEF ReadForUpdate, ReadForResubmit, GetLatestAttemptNumber, rows
<1>11. ASSUME NEW a \in Actors,
              \/ CheckExisting(a) \/ NumberResubmission(a)
              \/ CreateApproval(a) \/ CallEnds(a)
       PROVE  UNCHANGED <<status, slot>>
  BY <1>11 DEF CheckExisting, NumberResubmission, CreateApproval, CallEnds, rows
<1> QED
  BY <1>2, <1>3, <1>4, <1>5, <1>6, <1>7, <1>8, <1>9, <1>10, <1>11 DEF Next, Session

\* For any number of rows, orgs, teams, patterns and sessions: no two allocations
\* that are not rejected share an org, a team and a pattern, by creation,
\* resubmission or edit.
THEOREM SlotsUnique == Spec => []OneActivePerSlot
<1>1. Init => OneActivePerSlot
  BY DEF Init, OneActivePerSlot, Active
<1> QED
  BY <1>1, SlotStep, AllocationTypes, PTL DEF Spec
-----------------------------------------------------------------------------
(***************************************************************************)
(* Lost updates.  The version of a row is a stamp of its contents: a row   *)
(* that exists either keeps both, or gets the next version, or is deleted. *)
(***************************************************************************)
Stamped(y) ==
    \/ version'[y] = version[y] /\ Snapshot(y)' = Snapshot(y)
    \/ version'[y] = version[y] + 1 /\ status'[y] # "absent"
    \/ version'[y] = version[y] /\ status'[y] = "gone"

\* An edit in progress whose version is still the row's was applied to that row.
EditsCurrent ==
    \A a \in Actors : call[a] = "updating" =>
        /\ status[target[a]] # "absent"
        /\ edit[a].version <= version[target[a]]
        /\ Exists(target[a]) /\ edit[a].version = version[target[a]]
             => base[a] = Snapshot(target[a])

\* Deleting rows treats all rows this way.
LEMMA DeleteStamps ==
    ASSUME TypeOK, NEW S, Delete(S), version' = version, NEW y \in Allocations
    PROVE  Stamped(y)
<1>1. CASE y \in S
  BY <1>1 DEF Delete, Stamped
<1>2. CASE y \notin S
  <2>1. /\ status'[y] = status[y] /\ slot'[y] = slot[y] /\ mode'[y] = mode[y]
        /\ orgHold' = orgHold \ S
    BY <1>2 DEF Delete
  <2>2. enabled'[y] = enabled[y] /\ byOrg'[y] = byOrg[y]
    BY <1>2, Zenon DEF Delete, TypeOK
  <2> QED
    BY <2>1, <2>2 DEF Stamped, Snapshot
<1> QED
  BY <1>1, <1>2

\* Every statement of a session treats the rows that exist this way.
LEMMA SessionStamps ==
    ASSUME TypeOK, NEW a \in Actors, Session(a),
           NEW y \in Allocations, status[y] # "absent"
    PROVE  Stamped(y)
<1> USE DEF Stamped, Snapshot
<1>0. version[y] \in Nat
  BY DEF TypeOK
<1>1. CASE DeleteRejected(a)
  <2>1. Delete(Stale(edit[a].slot)) /\ version' = version
    BY <1>1 DEF DeleteRejected
  <2> QED
    BY <2>1, DeleteStamps
<1>2. CASE InsertAllocation(a)
  <2>1. PICK x \in Allocations :
          /\ status[x] = "absent"
          /\ version' = [version EXCEPT ![x] = 1]
          /\ slot' = [slot EXCEPT ![x] = edit[a].slot]
          /\ mode' = [mode EXCEPT ![x] = edit[a].mode]
          /\ enabled' = [enabled EXCEPT ![x] = TRUE]
          /\ \E to : status' = [status EXCEPT ![x] = to]
          /\ UNCHANGED byOrg
    BY <1>2 DEF InsertAllocation
  <2>2. x # y
    BY <2>1
  <2> QED
    BY <2>1, <2>2 DEF TypeOK
<1>3. CASE UpdateAllocation(a)
  <2> DEFINE x == target[a]
  <2>1. /\ x \in Allocations
        /\ slot' = [slot EXCEPT ![x] = edit[a].slot]
        /\ mode' = [mode EXCEPT ![x] = edit[a].mode]
        /\ enabled' = [enabled EXCEPT ![x] = edit[a].enabled]
        /\ byOrg' = [byOrg EXCEPT ![x] = edit[a].byOrg]
        /\ version' = [version EXCEPT ![x] = version[x] + 1]
        /\ UNCHANGED status
    BY <1>3 DEF UpdateAllocation, TypeOK
  <2> HIDE DEF x
  <2> QED
    BY <2>1 DEF TypeOK
<1>4. CASE ApproveAllocation(a) \/ RejectAllocation(a) \/ ResetAllocationForResubmit(a)
  <2> DEFINE x == target[a]
  <2>1. /\ x \in Allocations
        /\ \E to \in {"approved", "rejected", "pending"} : status' = [status EXCEPT ![x] = to]
        /\ \E m : mode' = [mode EXCEPT ![x] = m]
        /\ version' = [version EXCEPT ![x] = version[x] + 1]
        /\ UNCHANGED <<slot, enabled, byOrg>>
    <3>1. x \in Allocations
      BY <1>4 DEF ApproveAllocation, RejectAllocation, ResetAllocationForResubmit, TypeOK
    <3>2. mode = [mode EXCEPT ![x] = mode[x]]
      BY DEF TypeOK
    <3> QED
      BY <1>4, <3>1, <3>2
         DEF ApproveAllocation, RejectAllocation, ResetAllocationForResubmit, Bump
  <2> HIDE DEF x
  <2> QED
    BY <2>1 DEF TypeOK
<1>5. CASE UNCHANGED <<status, version, slot, mode, enabled, byOrg>>
  BY <1>5
<1> QED
  BY <1>1, <1>2, <1>3, <1>4, <1>5
     DEF Session, CheckExisting, ReadForUpdate, GetLatestAttemptNumber, ReadForResubmit,
         NumberResubmission, CreateApproval, CallEnds, rows

\* base is a function on the sessions.
BaseOK == base = [d \in Actors |-> base[d]]

\* Every step keeps it one.
LEMMA BaseStep == TypeOK /\ BaseOK /\ [Next]_vars => BaseOK'
<1> SUFFICES ASSUME BaseOK, [Next]_vars
             PROVE  BaseOK'
  OBVIOUS
<1>1. CASE base' = base
  BY <1>1 DEF BaseOK
<1>2. ASSUME NEW a \in Actors, NEW v, base' = [base EXCEPT ![a] = v]
      PROVE  BaseOK'
  BY <1>2 DEF BaseOK
<1>3. ASSUME NEW a \in Actors, Session(a)
      PROVE  base' = base \/ \E v : base' = [base EXCEPT ![a] = v]
  <2>1. CASE Leave(a)
    BY <2>1 DEF Leave
  <2>2. CASE InsertAllocation(a) /\ ~Leave(a)
    BY <2>2 DEF InsertAllocation
  <2>3. ASSUME NEW x \in Allocations, ReadForUpdate(a, x)
        PROVE  base' = [base EXCEPT ![a] = Snapshot(x)]
    BY <2>3 DEF ReadForUpdate
  <2> QED
    BY <1>3, <2>1, <2>2, <2>3
    DEF Session, CheckExisting, DeleteRejected, GetLatestAttemptNumber, ReadForResubmit,
        UpdateAllocation, ApproveAllocation, RejectAllocation, NumberResubmission,
        ResetAllocationForResubmit, CreateApproval, CallEnds
<1> QED
  BY <1>1, <1>2, <1>3 DEF Next, DeleteAllocation, calls, vars

\* A step of one session leaves the calls of the others alone.
LEMMA OthersKept ==
    ASSUME TypeOK, BaseOK, NEW a \in Actors, Session(a), NEW d \in Actors, d # a
    PROVE  UNCHANGED <<call[d], target[d], edit[d], base[d]>>
<1> USE DEF BaseOK, TypeOK, Goto
<1>1. CASE Leave(a)
  BY <1>1 DEF Leave
<1>2. CASE CheckExisting(a) \/ DeleteRejected(a)
  BY <1>2 DEF CheckExisting, DeleteRejected
<1>3. CASE InsertAllocation(a) /\ ~Leave(a)
  BY <1>3 DEF InsertAllocation
<1>4. ASSUME NEW x \in Allocations, ReadForUpdate(a, x)
      PROVE  UNCHANGED <<call[d], target[d], edit[d], base[d]>>
  BY <1>4 DEF ReadForUpdate
<1>5. ASSUME NEW x \in Allocations,
             \/ GetLatestAttemptNumber(a, x, "approving")
             \/ GetLatestAttemptNumber(a, x, "rejecting")
             \/ ReadForResubmit(a, x)
      PROVE  UNCHANGED <<call[d], target[d], edit[d], base[d]>>
  BY <1>5 DEF GetLatestAttemptNumber, ReadForResubmit
<1>6. CASE ApproveAllocation(a) \/ RejectAllocation(a) \/ NumberResubmission(a)
           \/ ResetAllocationForResubmit(a)
  BY <1>6 DEF ApproveAllocation, RejectAllocation, NumberResubmission,
              ResetAllocationForResubmit
<1> QED
  BY <1>1, <1>2, <1>3, <1>4, <1>5, <1>6
     DEF Session, UpdateAllocation, CreateApproval, CallEnds

\* An edit that is current before a step is current after it or has a newer row.
LEMMA StampKeepsEdit ==
    ASSUME TypeOK, EditsCurrent, NEW d \in Actors, call[d] = "updating",
           UNCHANGED <<call[d], target[d], edit[d], base[d]>>,
           Stamped(target[d])
    PROVE  /\ status'[target[d]] # "absent"
           /\ edit[d].version <= version'[target[d]]
           /\ (Exists(target[d]))' /\ edit[d].version = version'[target[d]]
                => base[d] = Snapshot(target[d])'
<1>1. /\ target[d] \in Allocations /\ version[target[d]] \in Nat /\ edit[d].version \in Nat
      /\ target'[d] = target[d]
  BY DEF TypeOK, Edits
<1>2. /\ status[target[d]] # "absent"
      /\ edit[d].version <= version[target[d]]
      /\ Exists(target[d]) /\ edit[d].version = version[target[d]]
           => base[d] = Snapshot(target[d])
  BY DEF EditsCurrent
<1>3. CASE version'[target[d]] = version[target[d]] /\ Snapshot(target[d])' = Snapshot(target[d])
  BY <1>1, <1>2, <1>3 DEF Snapshot, Exists
<1>4. CASE version'[target[d]] = version[target[d]] + 1 /\ status'[target[d]] # "absent"
  BY <1>1, <1>2, <1>4
<1>5. CASE version'[target[d]] = version[target[d]] /\ status'[target[d]] = "gone"
  BY <1>1, <1>2, <1>5 DEF Exists
<1> QED
  BY <1>1, <1>3, <1>4, <1>5 DEF Stamped

\* A call gets to its UPDATE by the read of ReadForUpdate.
LEMMA UpdatingWasRead ==
    ASSUME TypeOK, NEW d \in Actors, Session(d), call'[d] = "updating"
    PROVE  \E x \in Allocations : ReadForUpdate(d, x)
<1> USE DEF TypeOK, Goto
<1>1. ~Leave(d)
  BY DEF Leave
<1>2. ~CheckExisting(d) /\ ~DeleteRejected(d)
  BY DEF CheckExisting, DeleteRejected
<1>3. ~InsertAllocation(d)
  BY <1>1 DEF InsertAllocation
<1>4. ASSUME NEW x \in Allocations
      PROVE  /\ ~GetLatestAttemptNumber(d, x, "approving")
             /\ ~GetLatestAttemptNumber(d, x, "rejecting") /\ ~ReadForResubmit(d, x)
  BY DEF GetLatestAttemptNumber, ReadForResubmit
<1>5. /\ ~ApproveAllocation(d) /\ ~RejectAllocation(d) /\ ~NumberResubmission(d)
      /\ ~ResetAllocationForResubmit(d)
  BY DEF ApproveAllocation, RejectAllocation, NumberResubmission, ResetAllocationForResubmit
<1>6. ~UpdateAllocation(d) /\ ~CreateApproval(d) /\ ~CallEnds(d)
  BY <1>1 DEF UpdateAllocation, CreateApproval, CallEnds
<1> QED
  BY <1>2, <1>3, <1>4, <1>5, <1>6 DEF Session

\* Every step keeps the edits in progress current.
LEMMA EditsStep == TypeOK /\ BaseOK /\ EditsCurrent /\ [Next]_vars => EditsCurrent'
<1> DEFINE Current(d) ==
      /\ status[target[d]] # "absent"
      /\ edit[d].version <= version[target[d]]
      /\ Exists(target[d]) /\ edit[d].version = version[target[d]]
           => base[d] = Snapshot(target[d])
<1> SUFFICES ASSUME TypeOK, BaseOK, EditsCurrent, [Next]_vars,
                    NEW d \in Actors, call'[d] = "updating"
             PROVE  Current(d)'
  BY DEF EditsCurrent
<1>1. ASSUME call[d] = "updating", UNCHANGED <<call[d], target[d], edit[d], base[d]>>,
             Stamped(target[d])
      PROVE  Current(d)'
  <2>1. target'[d] = target[d] /\ edit'[d] = edit[d] /\ base'[d] = base[d]
    BY <1>1
  <2>2. /\ status'[target[d]] # "absent"
        /\ edit[d].version <= version'[target[d]]
        /\ (Exists(target[d]))' /\ edit[d].version = version'[target[d]]
             => base[d] = Snapshot(target[d])'
    BY <1>1, StampKeepsEdit
  <2> QED
    BY <2>1, <2>2
<1>2. ASSUME NEW a \in Actors, Session(a), a # d
      PROVE  Current(d)'
  <2>1. UNCHANGED <<call[d], target[d], edit[d], base[d]>> /\ call[d] = "updating"
    BY <1>2, OthersKept
  <2>2. target[d] \in Allocations /\ status[target[d]] # "absent"
    BY <2>1 DEF TypeOK, EditsCurrent
  <2> QED
    BY <1>1, <1>2, <2>1, <2>2, SessionStamps
<1>3. ASSUME Session(d)
      PROVE  Current(d)'
  <2>1. PICK x \in Allocations : ReadForUpdate(d, x)
    BY <1>3, UpdatingWasRead
  <2>2. /\ target' = [target EXCEPT ![d] = x] /\ base' = [base EXCEPT ![d] = Snapshot(x)]
        /\ UNCHANGED rows /\ Exists(x)
    BY <2>1 DEF ReadForUpdate
  <2>3. PICK s \in Repatterned(x), m \in Modes, who \in Callers,
             switch \in {"keep", "enable", "disable"} :
             edit' = [edit EXCEPT ![d] = Edited(who, x, s, m, switch)]
    <3> HIDE DEF Edited
    <3> QED
      BY <2>1, Zenon DEF ReadForUpdate
  <2>4. target'[d] = x /\ base'[d] = Snapshot(x) /\ edit'[d].version = version[x]
        /\ version[x] \in Nat
    BY <2>2, <2>3 DEF TypeOK, BaseOK, Edited
  <2> QED
    BY <2>2, <2>4 DEF rows, Exists, Snapshot
<1>4. ASSUME NEW x \in Allocations, DeleteAllocation(x)
      PROVE  Current(d)'
  <2>1. UNCHANGED <<call[d], target[d], edit[d], base[d]>> /\ call[d] = "updating"
    BY <1>4 DEF DeleteAllocation, calls
  <2>2. target[d] \in Allocations
    BY <2>1 DEF TypeOK
  <2>3. Stamped(target[d])
    <3>1. Delete({x}) /\ version' = version /\ target'[d] = target[d]
      BY <1>4, <2>1 DEF DeleteAllocation
    <3> QED
      BY <2>2, <3>1, DeleteStamps DEF Stamped, Snapshot
  <2> QED
    BY <1>1, <2>1, <2>3
<1>5. CASE UNCHANGED vars
  <2>1. UNCHANGED <<call[d], target[d], edit[d], base[d]>> /\ call[d] = "updating"
        /\ Stamped(target[d])
    BY <1>5 DEF vars, calls, rows, Stamped, Snapshot
  <2> QED
    BY <1>1, <2>1
<1> QED
  BY <1>2, <1>3, <1>4, <1>5 DEF Next

\* An UPDATE of UpdateAllocation that finds its version overwrites exactly the row its
\* request was applied to, for any number of sessions that edit, decide and delete.
THEOREM EditsNotLost == Spec => NoLostUpdate
<1>1. Init => BaseOK /\ EditsCurrent
  BY DEF Init, BaseOK, EditsCurrent
<1>2. TypeOK /\ BaseOK /\ EditsCurrent /\ [Next]_vars =>
        [\A a \in Actors :
            call[a] = "updating" /\ call'[a] = "idle" /\ version' # version
               => Snapshot(target[a]) = base[a]]_vars
  <2> SUFFICES ASSUME TypeOK, BaseOK, EditsCurrent, Next, NEW a \in Actors,
                      call[a] = "updating", call'[a] = "idle", version' # version
               PROVE  Snapshot(target[a]) = base[a]
    OBVIOUS
  <2>1. Session(a)
    <3>1. ASSUME NEW x \in Allocations, DeleteAllocation(x)
          PROVE  FALSE
      BY <3>1 DEF DeleteAllocation
    <3>2. ASSUME NEW d \in Actors, Session(d), d # a
          PROVE  FALSE
      BY <3>2, OthersKept
    <3> QED
      BY <3>1, <3>2 DEF Next
  <2>2. UpdateAllocation(a)
    BY <2>1 DEF Session, CheckExisting, DeleteRejected, InsertAllocation, ReadForUpdate,
         GetLatestAttemptNumber, ReadForResubmit, ApproveAllocation,
         RejectAllocation, NumberResubmission, ResetAllocationForResubmit, CreateApproval,
         CallEnds, rows
  <2> QED
    BY <2>2 DEF UpdateAllocation, Unmodified, EditsCurrent
<1> QED
  BY <1>1, <1>2, AllocationTypes, BaseStep, EditsStep, PTL DEF Spec, NoLostUpdate
-----------------------------------------------------------------------------
(***************************************************************************)
(* Rows an org admin has disabled.  canEnableRateLimit judges the row an   *)
(* edit has read; that it is still the row the UPDATE finds is EditsCurrent.*)
(***************************************************************************)
\* Only an org admin's edit, or one without identity, enables a row that carries
\* the org's mark.
EnablingAllowed ==
    \A a \in Actors : call[a] = "updating" /\ edit[a].enabled /\ ~edit[a].overrules =>
        base[a][4] \/ ~base[a][5]

\* The rows held by the org exist, are disabled and carry its mark.
HeldMarked ==
    \A x \in orgHold : x \in Allocations /\ Exists(x) /\ ~enabled[x] /\ byOrg[x]

\* Every step keeps the edits in progress allowed.
LEMMA AllowedStep ==
    ASSUME TypeOK, BaseOK, EnablingAllowed, [Next]_vars
    PROVE  EnablingAllowed'
<1> SUFFICES ASSUME NEW d \in Actors, call'[d] = "updating", edit'[d].enabled, ~edit'[d].overrules
             PROVE  base'[d][4] \/ ~base'[d][5]
  BY DEF EnablingAllowed
<1>1. CASE UNCHANGED <<call[d], edit[d], base[d]>>
  BY <1>1 DEF EnablingAllowed
<1>2. ASSUME Session(d)
      PROVE  base'[d][4] \/ ~base'[d][5]
  <2>1. PICK x \in Allocations : ReadForUpdate(d, x)
    BY <1>2, UpdatingWasRead
  <2>2. PICK s \in Repatterned(x), m \in Modes, who \in Callers,
             switch \in {"keep", "enable", "disable"} :
          /\ switch = "enable" /\ who # "anonymous" => canEnableRateLimit(who, x)
          /\ edit' = [edit EXCEPT ![d] = Edited(who, x, s, m, switch)]
    BY <2>1 DEF ReadForUpdate
  <2>3. base'[d] = Snapshot(x)
    BY <2>1 DEF ReadForUpdate, BaseOK
  <2>4. /\ edit'[d].enabled = IF switch = "keep" THEN enabled[x] ELSE switch = "enable"
        /\ edit'[d].overrules = (switch = "enable" /\ who # "team")
    BY <2>2 DEF TypeOK, Edited
  <2>5. enabled[x] \/ ~byOrg[x]
    BY <2>2, <2>4 DEF canEnableRateLimit, Callers
  <2> QED
    BY <2>3, <2>5 DEF Snapshot
<1>3. ASSUME NEW a \in Actors, Session(a), a # d
      PROVE  UNCHANGED <<call[d], edit[d], base[d]>>
  BY <1>3, OthersKept
<1>4. ASSUME NEW x \in Allocations, DeleteAllocation(x)
      PROVE  UNCHANGED <<call[d], edit[d], base[d]>>
  BY <1>4 DEF DeleteAllocation, calls
<1>5. CASE UNCHANGED vars
  BY <1>1, <1>5 DEF vars, calls
<1> QED
  BY <1>1, <1>2, <1>3, <1>4, <1>5 DEF Next

\* Deleting rows keeps the others held by the org disabled and marked.
LEMMA DeleteHeld ==
    ASSUME TypeOK, HeldMarked, NEW S, Delete(S)
    PROVE  HeldMarked'
<1> SUFFICES ASSUME NEW x \in orgHold \ S
             PROVE  (Exists(x))' /\ ~enabled'[x] /\ byOrg'[x]
  BY DEF HeldMarked, Delete
<1>1. x \in Allocations /\ Exists(x) /\ ~enabled[x] /\ byOrg[x]
  BY DEF HeldMarked
<1>2. status'[x] = status[x]
  BY <1>1 DEF Delete
<1>3. ~enabled'[x] /\ byOrg'[x]
  BY <1>1, Zenon DEF Delete
<1> QED
  BY <1>1, <1>2, <1>3 DEF Exists

\* Every step keeps the rows held by the org disabled and marked.
LEMMA HeldStep ==
    ASSUME TypeOK, BaseOK, EditsCurrent, EnablingAllowed, HeldMarked, [Next]_vars
    PROVE  HeldMarked'
<1>1. ASSUME NEW a \in Actors, UpdateAllocation(a)
      PROVE  HeldMarked'
  <2> DEFINE x == target[a]
             e == edit[a]
  <2>1. /\ x \in Allocations /\ Exists(x)
        /\ enabled' = [enabled EXCEPT ![x] = e.enabled]
        /\ byOrg' = [byOrg EXCEPT ![x] = e.byOrg]
        /\ status' = status
        /\ e.enabled \in BOOLEAN /\ e.byOrg \in BOOLEAN /\ e.overrules \in BOOLEAN
        /\ orgHold' = IF e.enabled
                      THEN IF e.overrules THEN orgHold \ {x} ELSE orgHold
                      ELSE IF e.byOrg THEN orgHold \cup {x} ELSE orgHold \ {x}
    BY <1>1 DEF UpdateAllocation, Unmodified, TypeOK, Edits
  <2>2. e.enabled /\ ~e.overrules => x \notin orgHold
    <3>1. base[a] = Snapshot(x)
      BY <1>1 DEF UpdateAllocation, Unmodified, EditsCurrent
    <3>2. e.enabled /\ ~e.overrules => enabled[x] \/ ~byOrg[x]
      BY <1>1, <3>1 DEF UpdateAllocation, EnablingAllowed, Snapshot
    <3> QED
      BY <3>2 DEF HeldMarked
  <2> HIDE DEF x, e
  <2> QED
    BY <2>1, <2>2 DEF HeldMarked, Exists, TypeOK
<1>2. ASSUME NEW a \in Actors, DeleteRejected(a)
      PROVE  HeldMarked'
  BY <1>2, DeleteHeld DEF DeleteRejected
<1>3. ASSUME NEW a \in Actors, InsertAllocation(a)
      PROVE  HeldMarked'
  <2>1. PICK x \in Allocations :
          /\ status[x] = "absent"
          /\ enabled' = [enabled EXCEPT ![x] = TRUE]
          /\ \E to : status' = [status EXCEPT ![x] = to]
          /\ UNCHANGED <<byOrg, orgHold>>
    BY <1>3 DEF InsertAllocation
  <2>2. x \notin orgHold
    BY <2>1 DEF HeldMarked, Exists
  <2> QED
    BY <2>1, <2>2 DEF HeldMarked, Exists, TypeOK
<1>4. ASSUME NEW a \in Actors,
             ApproveAllocation(a) \/ RejectAllocation(a) \/ ResetAllocationForResubmit(a)
      PROVE  HeldMarked'
  <2>1. /\ UNCHANGED <<enabled, byOrg, orgHold>>
        /\ \E to \in {"approved", "rejected", "pending"} :
              status' = [status EXCEPT ![target[a]] = to]
    BY <1>4 DEF ApproveAllocation, RejectAllocation, ResetAllocationForResubmit
  <2> QED
    BY <2>1 DEF HeldMarked, Exists, TypeOK
<1>5. ASSUME NEW x \in Allocations, DeleteAllocation(x)
      PROVE  HeldMarked'
  BY <1>5, DeleteHeld DEF DeleteAllocation
<1>6. CASE UNCHANGED <<status, enabled, byOrg, orgHold>>
  BY <1>6 DEF HeldMarked, Exists
<1> QED
  BY <1>1, <1>2, <1>3, <1>4, <1>5, <1>6
     DEF Next, Session, CheckExisting, ReadForUpdate, GetLatestAttemptNumber,
         ReadForResubmit, NumberResubmission, CreateApproval, CallEnds, rows, vars

\* An edit of a team member never enables what an org admin has disabled, whatever
\* was read before the admin's edit: the check of canEnableRateLimit and the version
\* in the UPDATE together are enough.  A caller without identity is not held back.
THEOREM OrgDecides == Spec => []OrgDisableHolds
<1>1. Init => BaseOK /\ EditsCurrent /\ EnablingAllowed /\ HeldMarked
  BY DEF Init, BaseOK, EditsCurrent, EnablingAllowed, HeldMarked
<1>2. TypeOK /\ BaseOK /\ EnablingAllowed /\ [Next]_vars => EnablingAllowed'
  BY AllowedStep
<1>3. TypeOK /\ BaseOK /\ EditsCurrent /\ EnablingAllowed /\ HeldMarked /\ [Next]_vars
        => HeldMarked'
  BY HeldStep
<1>4. HeldMarked => OrgDisableHolds
  BY DEF HeldMarked, OrgDisableHolds
<1> QED
  BY <1>1, <1>2, <1>3, <1>4, AllocationTypes, BaseStep, EditsStep, PTL DEF Spec
-----------------------------------------------------------------------------
(***************************************************************************)
(* Attempt numbers.  Counting the rejections says how many attempts a row  *)
(* has had: the rejected ones, and the one that is not rejected if there   *)
(* is one.  The number never falls.                                        *)
(***************************************************************************)
Attempts(x) == rejections[x] + (IF status[x] = "rejected" THEN 0 ELSE 1)

\* The records and the numbers still to be recorded are of attempts the row has had.
\* The number of a resubmission is one ahead until the row is reset.
NumbersEarned ==
    /\ \A x \in Allocations : /\ latest[x] <= Attempts(x)
                              /\ status[x] = "rejected" => rejections[x] >= 1
    /\ \A d \in Actors :
          /\ call[d] \in {"approving", "rejecting", "recording"} => attempt[d] <= Attempts(target[d])
          /\ call[d] = "numbered" => attempt[d] <= Attempts(target[d]) + 1

\* Ending a call leaves no number, and the numbers of the others are kept.
LEMMA NumbersLeave ==
    ASSUME TypeOK, NEW a \in Actors, Leave(a), NEW d \in Actors, call'[d] # "idle"
    PROVE  d # a /\ UNCHANGED <<call[d], target[d], attempt[d]>>
  BY DEF TypeOK, Leave, Goto

\* No step lowers the number of attempts of a row.
LEMMA AttemptsGrow ==
    ASSUME TypeOK, NumbersEarned, [Next]_vars, NEW x \in Allocations
    PROVE  /\ Attempts(x) \in Nat /\ Attempts(x)' \in Nat
           /\ Attempts(x) <= Attempts(x)'
           /\ status'[x] = "rejected" => rejections'[x] >= 1
<1> USE DEF Attempts
<1>0. /\ rejections[x] \in Nat /\ status \in [Allocations -> Lifecycle!Statuses]
      /\ rejections \in [Allocations -> Nat]
      /\ status[x] = "rejected" => rejections[x] >= 1
  BY DEF TypeOK, NumbersEarned
<1>1. CASE UNCHANGED <<status, rejections>>
  BY <1>0, <1>1
<1>2. ASSUME NEW a \in Actors, RejectAllocation(a)
      PROVE  /\ Attempts(x)' \in Nat /\ Attempts(x) <= Attempts(x)'
             /\ status'[x] = "rejected" => rejections'[x] >= 1
  <2>1. /\ target[a] \in Allocations /\ status[target[a]] = "pending"
        /\ status' = [status EXCEPT ![target[a]] = "rejected"]
        /\ rejections' = [rejections EXCEPT ![target[a]] = @ + 1]
    BY <1>2 DEF RejectAllocation, Guarded, TypeOK
  <2> QED
    BY <1>0, <2>1
<1>3. CASE /\ UNCHANGED rejections
           /\ status'[x] = "rejected" => status[x] = "rejected"
  BY <1>0, <1>3
<1>4. ASSUME NEW a \in Actors, Session(a), ~RejectAllocation(a)
      PROVE  UNCHANGED rejections /\ (status'[x] = "rejected" => status[x] = "rejected")
  <2>1. CASE DeleteRejected(a)
    BY <1>0, <2>1 DEF DeleteRejected, Delete
  <2>2. CASE InsertAllocation(a)
    BY <1>0, <2>2 DEF InsertAllocation
  <2>3. CASE ApproveAllocation(a) \/ ResetAllocationForResubmit(a)
    BY <1>0, <2>3 DEF ApproveAllocation, ResetAllocationForResubmit
  <2>4. CASE UNCHANGED <<status, rejections>>
    BY <2>4
  <2> QED
    BY <1>4, <2>1, <2>2, <2>3, <2>4
    DEF Session, CheckExisting, ReadForUpdate, GetLatestAttemptNumber, ReadForResubmit,
        UpdateAllocation, NumberResubmission, CreateApproval, CallEnds, rows
<1>5. ASSUME NEW y \in Allocations, DeleteAllocation(y)
      PROVE  UNCHANGED rejections /\ (status'[x] = "rejected" => status[x] = "rejected")
  BY <1>0, <1>5 DEF DeleteAllocation, Delete
<1> QED
  BY <1>0, <1>1, <1>2, <1>3, <1>4, <1>5 DEF Next, vars, rows

\* A step that records nothing keeps every number that it does not take itself.
LEMMA NumbersKept ==
    ASSUME TypeOK, NumbersEarned, [Next]_vars, NEW d \in Actors,
           UNCHANGED <<call[d], target[d], attempt[d]>>
    PROVE  /\ call'[d] \in {"approving", "rejecting", "recording"}
                => attempt'[d] <= Attempts(target[d])'
           /\ call'[d] = "numbered" => attempt'[d] <= Attempts(target[d])' + 1
<1> SUFFICES ASSUME call[d] \in {"approving", "rejecting", "recording", "numbered"}
             PROVE  /\ call[d] # "numbered" => attempt[d] <= Attempts(target[d])'
                    /\ call[d] = "numbered" => attempt[d] <= Attempts(target[d])' + 1
  BY DEF Attempts
<1>1. target[d] \in Allocations /\ attempt[d] \in Nat
  BY DEF TypeOK
<1>2. /\ Attempts(target[d]) \in Nat /\ Attempts(target[d])' \in Nat
      /\ Attempts(target[d]) <= Attempts(target[d])'
  BY <1>1, AttemptsGrow DEF Attempts
<1> QED
  BY <1>1, <1>2 DEF NumbersEarned

\* Every step keeps the numbers of all calls within the attempts of their rows.
LEMMA NumbersOfCalls ==
    ASSUME TypeOK, NumbersEarned, [Next]_vars, NEW d \in Actors
    PROVE  /\ call'[d] \in {"approving", "rejecting", "recording"}
                => attempt'[d] <= Attempts(target[d])'
           /\ call'[d] = "numbered" => attempt'[d] <= Attempts(target[d])' + 1
<1>1. CASE UNCHANGED <<call[d], target[d], attempt[d]>>
  BY <1>1, NumbersKept
<1>2. ASSUME NEW a \in Actors, Session(a), a # d
      PROVE  UNCHANGED <<call[d], target[d], attempt[d]>>
  <2>1. CASE Leave(a)
    BY <1>2, <2>1 DEF Leave, Goto, TypeOK
  <2>2. CASE CheckExisting(a) \/ DeleteRejected(a)
    BY <1>2, <2>2 DEF CheckExisting, DeleteRejected, Goto, TypeOK
  <2>3. CASE InsertAllocation(a) /\ ~Leave(a)
    <3>1. PICK x \in Allocations :
            /\ Goto(a, "recording")
            /\ target' = [target EXCEPT ![a] = x]
            /\ attempt' = [attempt EXCEPT ![a] = 1]
      BY <2>3 DEF InsertAllocation
    <3> QED
      BY <1>2, <3>1 DEF Goto, TypeOK
  <2>4. ASSUME NEW x \in Allocations,
               \/ ReadForUpdate(a, x) \/ ReadForResubmit(a, x)
               \/ GetLatestAttemptNumber(a, x, "approving")
               \/ GetLatestAttemptNumber(a, x, "rejecting")
        PROVE  UNCHANGED <<call[d], target[d], attempt[d]>>
    BY <1>2, <2>4 DEF ReadForUpdate, ReadForResubmit, GetLatestAttemptNumber, Goto, TypeOK
  <2>5. CASE \/ ApproveAllocation(a) \/ RejectAllocation(a)
             \/ NumberResubmission(a) \/ ResetAllocationForResubmit(a)
    BY <1>2, <2>5 DEF ApproveAllocation, RejectAllocation, NumberResubmission,
                      ResetAllocationForResubmit, Goto, TypeOK
  <2> QED
    BY <1>2, <2>1, <2>2, <2>3, <2>4, <2>5
    DEF Session, InsertAllocation, UpdateAllocation, CreateApproval, CallEnds
<1>3. CASE Session(d)
  <2>1. CASE Leave(d)
    BY <2>1, NumbersLeave DEF TypeOK, Leave, Goto
  <2>2. CASE CheckExisting(d) \/ DeleteRejected(d)
    BY <2>2 DEF CheckExisting, DeleteRejected, Goto, TypeOK
  <2>3. CASE InsertAllocation(d) /\ ~Leave(d)
    <3>1. PICK x \in Allocations :
            /\ call' = [call EXCEPT ![d] = "recording"]
            /\ target' = [target EXCEPT ![d] = x]
            /\ attempt' = [attempt EXCEPT ![d] = 1]
            /\ status' = [status EXCEPT ![x] = "pending"]
            /\ UNCHANGED rejections
      BY <2>3 DEF InsertAllocation, Goto
    <3>2. call'[d] = "recording" /\ target'[d] = x /\ attempt'[d] = 1 /\ status'[x] = "pending"
      BY <3>1 DEF TypeOK
    <3>3. rejections'[x] \in Nat
      BY <3>1 DEF TypeOK
    <3> QED
      BY <3>2, <3>3 DEF Attempts
  <2>4. ASSUME NEW x \in Allocations, ReadForUpdate(d, x) \/ ReadForResubmit(d, x)
        PROVE  call'[d] \in {"updating", "resubmitting"}
    BY <2>4 DEF ReadForUpdate, ReadForResubmit, Goto, TypeOK
  <2>5. ASSUME NEW x \in Allocations, NEW label \in {"approving", "rejecting"},
               GetLatestAttemptNumber(d, x, label)
        PROVE  call'[d] = label /\ attempt'[d] <= Attempts(target[d])'
    <3>1. /\ call'[d] = label /\ target'[d] = x
          /\ attempt'[d] = IF latest[x] = 0 THEN 1 ELSE latest[x]
          /\ UNCHANGED <<status, rejections>>
      BY <2>5 DEF GetLatestAttemptNumber, Goto, TypeOK, rows
    <3>2. /\ latest[x] \in Nat /\ rejections[x] \in Nat
          /\ latest[x] <= Attempts(x) /\ (status[x] = "rejected" => rejections[x] >= 1)
      BY DEF TypeOK, NumbersEarned
    <3> QED
      BY <3>1, <3>2 DEF Attempts
  <2>6. CASE ApproveAllocation(d) \/ RejectAllocation(d)
    <3>1. /\ call[d] \in {"approving", "rejecting"} /\ call'[d] = "recording"
          /\ UNCHANGED <<target, attempt>>
      BY <2>6 DEF ApproveAllocation, RejectAllocation, Goto, TypeOK
    <3>2. target[d] \in Allocations /\ attempt[d] \in Nat /\ attempt[d] <= Attempts(target[d])
      BY <3>1 DEF TypeOK, NumbersEarned
    <3>3. /\ Attempts(target[d]) \in Nat /\ Attempts(target[d])' \in Nat
          /\ Attempts(target[d]) <= Attempts(target[d])'
      BY <3>1, <3>2, AttemptsGrow DEF Attempts
    <3> QED
      BY <3>1, <3>2, <3>3
  <2>7. CASE NumberResubmission(d)
    <3>1. /\ call'[d] = "numbered" /\ target'[d] = target[d] /\ target[d] \in Allocations
          /\ attempt'[d] = latest[target[d]] + 1
          /\ UNCHANGED <<status, rejections>>
      BY <2>7 DEF NumberResubmission, Goto, TypeOK, rows
    <3>2. /\ latest[target[d]] \in Nat /\ rejections[target[d]] \in Nat
          /\ latest[target[d]] <= Attempts(target[d])
      BY <3>1 DEF TypeOK, NumbersEarned
    <3> QED
      BY <3>1, <3>2 DEF Attempts
  <2>8. CASE ResetAllocationForResubmit(d)
    <3>1. /\ call[d] = "numbered" /\ call'[d] = "recording"
          /\ target[d] \in Allocations /\ status[target[d]] = "rejected"
          /\ status' = [status EXCEPT ![target[d]] = "pending"]
          /\ UNCHANGED <<target, attempt, rejections>>
      BY <2>8 DEF ResetAllocationForResubmit, Guarded, Goto, TypeOK
    <3>2. /\ attempt[d] \in Nat /\ rejections[target[d]] \in Nat
          /\ attempt[d] <= Attempts(target[d]) + 1 /\ status'[target[d]] = "pending"
      BY <3>1 DEF TypeOK, NumbersEarned
    <3> QED
      BY <3>1, <3>2 DEF Attempts
  <2> QED
    BY <1>3, <2>1, <2>2, <2>3, <2>4, <2>5, <2>6, <2>7, <2>8
    DEF Session, InsertAllocation, UpdateAllocation, CreateApproval, CallEnds
<1>4. ASSUME NEW x \in Allocations, DeleteAllocation(x)
      PROVE  UNCHANGED <<call[d], target[d], attempt[d]>>
  BY <1>4 DEF DeleteAllocation, calls
<1> QED
  BY <1>1, <1>2, <1>3, <1>4 DEF Next, vars, calls

\* Every step keeps the records of all rows within their attempts.
LEMMA NumbersStep == TypeOK /\ NumbersEarned /\ [Next]_vars => NumbersEarned'
<1> SUFFICES ASSUME TypeOK, NumbersEarned, [Next]_vars
             PROVE  NumbersEarned'
  OBVIOUS
<1>1. ASSUME NEW x \in Allocations
      PROVE  latest'[x] <= Attempts(x)' /\ (status'[x] = "rejected" => rejections'[x] >= 1)
  <2>1. /\ latest[x] \in Nat /\ latest[x] <= Attempts(x)
        /\ Attempts(x) \in Nat /\ Attempts(x)' \in Nat /\ Attempts(x) <= Attempts(x)'
        /\ status'[x] = "rejected" => rejections'[x] >= 1
    BY AttemptsGrow DEF TypeOK, NumbersEarned
  <2>2. CASE UNCHANGED latest
    BY <2>1, <2>2
  <2>3. ASSUME NEW a \in Actors, CreateApproval(a)
        PROVE  latest'[x] <= Attempts(x)'
    <3>1. /\ call[a] = "recording" /\ target[a] \in Allocations
          /\ latest' = [latest EXCEPT ![target[a]] =
                          IF attempt[a] > @ THEN attempt[a] ELSE @]
      BY <2>3 DEF CreateApproval, TypeOK
    <3>2. latest'[x] = latest[x] \/ (x = target[a] /\ latest'[x] = attempt[a])
      BY <3>1 DEF TypeOK
    <3>3. attempt[a] \in Nat /\ attempt[a] <= Attempts(target[a])
      BY <3>1 DEF TypeOK, NumbersEarned
    <3> QED
      BY <2>1, <3>2, <3>3
  <2> QED
    BY <2>1, <2>2, <2>3
    DEF Next, Session, CheckExisting, DeleteRejected, InsertAllocation, ReadForUpdate,
        GetLatestAttemptNumber, ReadForResubmit, UpdateAllocation, ApproveAllocation,
        RejectAllocation, NumberResubmission, ResetAllocationForResubmit, CallEnds,
        DeleteAllocation, vars, rows
<1>2. ASSUME NEW d \in Actors
      PROVE  /\ call'[d] \in {"approving", "rejecting", "recording"}
                  => attempt'[d] <= Attempts(target[d])'
             /\ call'[d] = "numbered" => attempt'[d] <= Attempts(target[d])' + 1
  BY NumbersOfCalls
<1> QED
  BY <1>1, <1>2 DEF NumbersEarned, Attempts

\* Attempt numbers follow the rejections: however approvals, rejections and
\* resubmissions of one allocation interleave between the read of the last number
\* and the record of the next, no record carries a number above one more than the
\* rejections the row has had.
THEOREM AttemptsBounded == Spec => []AttemptsFollowRejections
<1>1. Init => NumbersEarned
  BY DEF Init, NumbersEarned, Attempts
<1>2. TypeOK /\ NumbersEarned => AttemptsFollowRejections
  <2> SUFFICES ASSUME TypeOK, NumbersEarned, NEW x \in Allocations
               PROVE  latest[x] <= rejections[x] + 1
    BY DEF AttemptsFollowRejections
  <2>1. latest[x] \in Nat /\ rejections[x] \in Nat /\ latest[x] <= Attempts(x)
    BY DEF TypeOK, NumbersEarned
  <2> QED
    BY <2>1 DEF Attempts
<1> QED
  BY <1>1, <1>2, NumbersStep, AllocationTypes, PTL DEF Spec
=============================================================================
