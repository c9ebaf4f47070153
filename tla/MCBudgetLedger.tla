-------------------------- MODULE MCBudgetLedger --------------------------
(***************************************************************************)
(* Small instances of BudgetLedger: one team under one org, and a tree of  *)
(* a user under a team and an isolated team, both under one org.           *)
(***************************************************************************)
EXTENDS BudgetLedger, TLC

CONSTANTS user, team, solo, org, none, r1, r2

TwoBudgets == {team, org}
ChainParent == [b \in {team, org} |-> IF b = team THEN org ELSE none]
ChainLevel == [b \in {team, org} |-> IF b = team THEN 2 ELSE 3]
ChainName == [b \in {team, org} |-> IF b = team THEN 1 ELSE 2]
ChainAmount == [b \in {team, org} |-> IF b = team THEN 2 ELSE 3]

\* Every request of the team is also one of the org.
MatchBoth == [r \in Requests |-> {team, org}]

Tree == {user, team, solo, org}
TreeParent == [b \in Tree |->
    CASE b = user -> team [] b \in {team, solo} -> org [] OTHER -> none]
TreeLevel == [b \in Tree |-> CASE b = user -> 1 [] b \in {team, solo} -> 2 [] OTHER -> 3]
TreeName == [b \in Tree |-> CASE b = user -> 1 [] b = team -> 2 [] b = solo -> 3 [] OTHER -> 4]
TreeAmount == [b \in Tree |-> CASE b = org -> 4 [] b \in {team, solo} -> 2 [] OTHER -> 1]
UserOnly == {user}
SoloOnly == {solo}

\* r1 is the user's; any other request matches the isolated team only, not its org.
MatchTree == [r \in Requests |-> IF r = r1 THEN {user, team, org} ELSE {solo}]

EstMixed == [r \in Requests |-> IF r = r1 THEN 2 ELSE 1]

\* How often a request id is sent again.
NoRetry == [r \in Requests |-> 0]
RetrySolo == [r \in Requests |-> IF r = r1 THEN 0 ELSE 1]

\* The pods are interchangeable: nothing orders them.
Pods == Permutations(Cleaners)
=============================================================================
