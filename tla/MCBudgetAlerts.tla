--------------------------- MODULE MCBudgetAlerts ---------------------------
(***************************************************************************)
(* Small instances of BudgetAlerts.                                        *)
(***************************************************************************)
EXTENDS BudgetAlerts

CONSTANT team

OneBudget == {team}
OneOrder == <<team>>
\* An org admin sees the budget, another team does not.
AllOrNone == {OneBudget, {}}
=============================================================================
