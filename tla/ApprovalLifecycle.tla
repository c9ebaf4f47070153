------------------------- MODULE ApprovalLifecycle -------------------------
(***************************************************************************)
(* What an approval workflow promises, whoever acts on it and in whatever  *)
(* order: an item is submitted once, decided only while it is pending,     *)
(* resubmitted only after a rejection, and every rejection counts.  The    *)
(* states are the values of approval_status, plus "absent" before the row  *)
(* is inserted and "gone" after it is deleted.                             *)
(*                                                                         *)
(* The transitions are those of the code.  docs/DESIGN.md draws others: an *)
(* item is always submitted as pending (line 205; the code approves it at  *)
(* once when an org admin, or nobody known, submits it, or when a team     *)
(* submits a budget without a parent), and only approved or rejected items *)
(* are closed, by deleting or archiving them (lines 196-203 and 410-418;   *)
(* the code closes a pending one with its third rejection, and no other).  *)
(***************************************************************************)
EXTENDS Naturals

CONSTANTS
    Items,      \* budgets, or rate limit allocations
    Closing     \* rejection counts at which an item is closed for good

VARIABLES status, rejections

lifecycle == <<status, rejections>>

Statuses == {"absent", "pending", "approved", "rejected", "closed", "gone"}

Absent == [i \in Items |-> "absent"]

Unrejected == [i \in Items |-> 0]

Start ==
    /\ status = Absent
    /\ rejections = Unrejected

Move(i, from, to) ==
    /\ status[i] = from
    /\ status' = [status EXCEPT ![i] = to]

\* Created by a team member, or by someone whose items need no approval.
Submit(i) ==
    /\ Move(i, "absent", "pending") \/ Move(i, "absent", "approved")
    /\ UNCHANGED rejections

Approve(i) ==
    /\ Move(i, "pending", "approved")
    /\ UNCHANGED rejections

Reject(i) ==
    /\ rejections' = [rejections EXCEPT ![i] = @ + 1]
    /\ Move(i, "pending", IF rejections[i] + 1 \in Closing THEN "closed" ELSE "rejected")

Resubmit(i) ==
    /\ Move(i, "rejected", "pending")
    /\ UNCHANGED rejections

Remove(removed) ==
    /\ \A i \in removed : status[i] # "absent"
    /\ status' = [i \in Items |-> IF i \in removed THEN "gone" ELSE status[i]]
    /\ UNCHANGED rejections

Advance ==
    \/ \E i \in Items : Submit(i) \/ Approve(i) \/ Reject(i) \/ Resubmit(i)
    \/ \E removed \in SUBSET Items : Remove(removed)

LifecycleSpec == Start /\ [][Advance]_lifecycle
=============================================================================
