---------------------------- MODULE BudgetAlerts ----------------------------
(***************************************************************************)
(* The alerts of internal/alert: a worker in every pod of the management   *)
(* service takes a snapshot of the enabled budgets, and then, one budget   *)
(* after another, reads the usage records of its period and inserts the    *)
(* alerts whose conditions hold.  Meanwhile budgets are charged, edited,   *)
(* reset and deleted, and users dismiss alerts.                            *)
(*                                                                         *)
(* Each SQL statement of theirs is a step; a charging transaction is one   *)
(* when it commits, and others may commit between its statements and then. *)
(* Time passes in ticks; the projection of computeAlertForecast is kept    *)
(* exact by multiplying out its divisions.                                 *)
(***************************************************************************)
EXTENDS Naturals, FiniteSets, SequencesExt

CONSTANTS
    Budgets,        \* rows of budget_definitions
    Order,          \* the budgets by entity_type and name, a sequence
    Pods,           \* pods of the management service, each with an alert worker
    RecordIds,      \* ids of usage records
    Visible,        \* sets of budgets that callers of dismiss-all may dismiss
    Amounts, Costs, \* values of budget_amount_usd and of a charge to one budget
    PeriodLength,   \* ticks from current_period_start to NextPeriodStart
    WarnPct,        \* warning_threshold_pct
    AlertDays,      \* FORECAST_ALERT_DAYS_THRESHOLD, in ticks
    KeepRecords,    \* usage records kept per budget (30 in the code)
    Overlap,        \* charges of one budget that may be under way while another is
    MaxLag,         \* ticks from the time.Now() of a record to its commit, on the clock of NOW()
    MaxStored,      \* the largest value of DECIMAL(12, 6), the type of the alerts' columns
    MaxUsage, MaxTime, MaxFailures, MaxDismissed
                    \* bounds: usage, clock, failing statements, alerts dismissed

ASSUME AlertAssumption ==
    /\ Order \in Seq(Budgets) /\ Range(Order) = Budgets
    /\ Amounts \subseteq Nat \ {0} /\ Costs \subseteq Nat
    /\ {PeriodLength, AlertDays, KeepRecords} \subseteq Nat \ {0}
    /\ {Overlap, MaxLag, MaxStored, WarnPct, MaxUsage, MaxTime, MaxFailures,
        MaxDismissed} \subseteq Nat

VARIABLES
    now,      \* the clock
    row,      \* usage, amount, start, enabled of each budget, or NoRow
    records,  \* usage_records of each budget
    alerts,   \* budget_alerts
    todo,     \* rows a worker's pass has read and has still to check
    due,      \* alerts of one budget it has still to insert
    failures, \* statements that failed so far
    met,      \* history: <<budget, type, period>> whose condition a row has met
    periods,  \* history: starts of the periods each budget has had
    carried   \* history: costs of older records that the period of each budget began with

worker  == <<todo, due>>
history == <<periods, carried>>
vars    == <<now, row, records, alerts, worker, failures, met, history>>

\* The order in which checkBudget inserts.
Types == <<"threshold_warning", "budget_exhausted", "forecast_overrun", "forecast_exhaustion">>
AlertTypes == Range(Types)

NoRow == [usage |-> 0, amount |-> 0, start |-> 0, enabled |-> FALSE]
-----------------------------------------------------------------------------
evalThresholdWarning(r) == r.amount > 0 /\ r.usage * 100 >= WarnPct * r.amount

\* Mutation of evalBudgetExhausted: a budget used up exactly is not exhausted.
evalBudgetExceeded(r) == r.amount > 0 /\ r.usage > r.amount

evalBudgetExhausted(r) == r.amount > 0 /\ r.usage >= r.amount

Elapsed(r, time) == time - r.start

Remaining(r, time) ==
    IF time < r.start + PeriodLength THEN r.start + PeriodLength - time ELSE 0

\* computeAlertForecast without a burn rate: the spend projected is the usage.
NoBurnRate(r, total, time) == Elapsed(r, time) <= 0 \/ total = 0

\* projected > amount, both sides multiplied by the time elapsed.
Overrun(r, total, time) ==
    IF NoBurnRate(r, total, time)
    THEN r.usage > r.amount
    ELSE r.usage * Elapsed(r, time) + total * Remaining(r, time) > r.amount * Elapsed(r, time)

\* 0 <= daysUntilExhausted < AlertDays: the budget is used up, or its remainder
\* divided by the burn rate is small.
evalForecastExhaustion(r, total, time) ==
    /\ ~NoBurnRate(r, total, time)
    /\ Overrun(r, total, time)
    /\ \/ r.amount <= r.usage
       \/ (r.amount - r.usage) * Elapsed(r, time) < AlertDays * total

\* The amounts an alert stores fit their columns: the usage, the amount and, if it is
\* about a forecast, the spend projected.
Storable(type, r, total, time) ==
    /\ r.usage <= MaxStored /\ r.amount <= MaxStored
    /\ type \in {"forecast_overrun", "forecast_exhaustion"} /\ ~NoBurnRate(r, total, time) =>
          r.usage * Elapsed(r, time) + total * Remaining(r, time) <= MaxStored * Elapsed(r, time)

Fired(type, r, total, time) ==
    CASE type = "threshold_warning"   -> evalThresholdWarning(r)
      [] type = "budget_exhausted"    -> evalBudgetExhausted(r)
      [] type = "forecast_overrun"    -> Overrun(r, total, time)
      [] type = "forecast_exhaustion" -> evalForecastExhaustion(r, total, time)

\* The conditions that can be read off a row, for the history variable.
Meets(b, r) == {<<b, t, r.start>> : t \in
    {u \in {"threshold_warning", "budget_exhausted"} : Fired(u, r, 0, r.start)}}

Init ==
    /\ now = 0
    /\ \E a \in Amounts : row = [b \in Budgets |->
          [usage |-> 0, amount |-> a, start |-> 0, enabled |-> TRUE]]
    /\ records = [b \in Budgets |-> {}]
    /\ alerts = {}
    /\ todo = [p \in Pods |-> {}]
    /\ due = [p \in Pods |-> {}]
    /\ failures = 0
    /\ met = UNION {Meets(b, row[b]) : b \in Budgets}
    /\ periods = [b \in Budgets |-> {0}]
    /\ carried = [b \in Budgets |-> 0]
-----------------------------------------------------------------------------
\* The statements of the other components that write the rows read here.
Exists(b) == row[b] # NoRow

SetRow(b, r) ==
    /\ row' = [row EXCEPT ![b] = r]
    /\ met' = met \cup Meets(b, r)

\* The units of the costs recorded for a budget since a time: their number is the sum.
Units(S, since) == {u \in S \X (1..MaxUsage) : u[2] <= u[1].cost /\ u[1].at >= since}

Sum(S, since) == Cardinality(Units(S, since))

\* Mutation of Newest: the limit is off by one.
OneMore(S, kept) ==
    /\ Cardinality(kept) = IF Cardinality(S) <= KeepRecords THEN Cardinality(S) ELSE KeepRecords + 1
    /\ \A r \in kept, o \in S \ kept : r.at >= o.at

\* ORDER BY created_at DESC LIMIT 30
Newest(S, kept) ==
    /\ Cardinality(kept) = IF Cardinality(S) <= KeepRecords THEN Cardinality(S) ELSE KeepRecords
    /\ \A r \in kept, o \in S \ kept : r.at >= o.at

FreeIds(b) == {i \in RecordIds : \A r \in records[b] : r.id # i}

\* The charging transaction, of which the row and the record of one budget of the chain
\* are shown, as it commits.  The record was stamped by the pod's clock before, and the
\* DELETE of CreateUsageRecordInTx did not see the records of charges that were under
\* way with it: nothing is charged, and nothing is waited for, by the charge of a
\* budget whose child took the cost.
Charge(b) ==
    /\ Exists(b) /\ FreeIds(b) # {}
    /\ \E cost \in Costs, at \in {t \in 0..now : now <= t + MaxLag}, unseen \in SUBSET records[b] :
          LET new == [id |-> CHOOSE i \in FreeIds(b) : TRUE, at |-> at, cost |-> cost]
              visible == (records[b] \ unseen) \cup {new}
          IN  /\ Cardinality(unseen) <= Overlap
              /\ row[b].usage + cost <= MaxUsage
              /\ SetRow(b, [row[b] EXCEPT !.usage = @ + cost])
              /\ \E kept \in SUBSET visible :
                    /\ Newest(visible, kept)
                    /\ records' = [records EXCEPT ![b] = unseen \cup kept]
    /\ UNCHANGED <<now, alerts, worker, failures, history>>

\* ResetExpiredBudgets or ResetBudgetUsage.  The new period starts at NOW(), when the
\* transaction of the reset began, which may have waited for the row since then.
Reset(b) ==
    /\ Exists(b)
    /\ \E start \in (0..now) \ periods[b] :
          /\ SetRow(b, [row[b] EXCEPT !.usage = 0, !.start = start])
          /\ periods' = [periods EXCEPT ![b] = @ \cup {start}]
          /\ carried' = [carried EXCEPT ![b] = Sum(records[b], start)]
    /\ UNCHANGED <<now, records, alerts, worker, failures>>

\* UpdateBudget: the amount, or whether the budget is enabled.
UpdateBudget(b) ==
    /\ Exists(b)
    /\ \E a \in Amounts, e \in BOOLEAN :
          SetRow(b, [row[b] EXCEPT !.amount = a, !.enabled = e])
    /\ UNCHANGED <<now, records, alerts, worker, failures, history>>

\* DeleteBudget: alerts and records go with the row.
DeleteBudget(b) ==
    /\ Exists(b)
    /\ row' = [row EXCEPT ![b] = NoRow]
    /\ records' = [records EXCEPT ![b] = {}]
    /\ alerts' = {a \in alerts : a.budget # b}
    /\ carried' = [carried EXCEPT ![b] = 0]
    /\ UNCHANGED <<now, worker, failures, met, periods>>

Tick ==
    /\ now < MaxTime
    /\ now' = now + 1
    /\ UNCHANGED <<row, records, alerts, worker, failures, met, history>>
-----------------------------------------------------------------------------
\* The alert worker.

\* A worker goes through the rows it has read, and the alerts it inserts, in order.
Position(order, x) == CHOOSE i \in DOMAIN order : order[i] = x

NextRow(p, s) ==
    s \in todo[p] /\ \A o \in todo[p] : Position(Order, s.budget) <= Position(Order, o.budget)

NextAlert(p, d) ==
    d \in due[p] /\ \A o \in due[p] : Position(Types, d.type) <= Position(Types, o.type)

\* CheckAndUpdateAlerts: the snapshot, with the time the pass starts from; a read that
\* fails midway looks like a shorter list.
GetEnabledBudgets(p) ==
    LET enabled == {b \in Budgets : row[b].enabled} IN
    /\ todo[p] = {} /\ due[p] = {}
    /\ \E n \in 0..Len(Order) :
          LET read == {b \in enabled : Position(Order, b) <= n} IN
          /\ read = enabled \/ failures < MaxFailures
          /\ todo' = [todo EXCEPT ![p] = {[budget |-> b, row |-> row[b], at |-> now] : b \in read}]
          /\ failures' = IF read = enabled THEN failures ELSE failures + 1
    /\ UNCHANGED <<now, row, records, alerts, due, met, history>>

\* Mutation of GetCurrentPeriodUsage: the records of earlier periods are counted too.
GetTotalUsage(b, since) == Sum(records[b], 0)

GetCurrentPeriodUsage(b, since) == Sum(records[b], since)

\* checkBudget up to the conditions: they are of the snapshot, the usage is of now.
EvaluateConditions(p) ==
    /\ due[p] = {}
    /\ \E s \in todo[p] :
          LET total == GetCurrentPeriodUsage(s.budget, s.row.start)
              fired == {t \in AlertTypes : Fired(t, s.row, total, s.at)}
          IN  /\ NextRow(p, s)
              /\ todo' = [todo EXCEPT ![p] = @ \ {s}]
              /\ due' = [due EXCEPT ![p] =
                    {[budget |-> s.budget, type |-> t, period |-> s.row.start,
                      fits |-> Storable(t, s.row, total, s.at)] : t \in fired}]
    /\ UNCHANGED <<now, row, records, alerts, failures, met, history>>

\* The read of the usage fails: the budget is left out of this pass.
SkipBudget(p) ==
    /\ due[p] = {}
    /\ failures < MaxFailures
    /\ failures' = failures + 1
    /\ \E s \in todo[p] : NextRow(p, s) /\ todo' = [todo EXCEPT ![p] = @ \ {s}]
    /\ UNCHANGED <<now, row, records, alerts, due, met, history>>

\* The unique index budget_alerts_dedup.
Conflicts(b, type, period) ==
    \E a \in alerts : a.budget = b /\ a.type = type /\ a.period = period

\* Mutation of PeriodOf: the period is read again when the alert is written.
PeriodNow(d) == row[d.budget].start

\* The period_start an alert gets: the one the pass has read.
PeriodOf(d) == d.period

InsertAlertIfNotExists(p) ==
    /\ \E d \in due[p] :
          LET new == [budget |-> d.budget, type |-> d.type, period |-> PeriodOf(d),
                      status |-> "active"]
          IN  /\ NextAlert(p, d)
              /\ Exists(d.budget) /\ d.fits
              /\ alerts' = IF Conflicts(d.budget, d.type, PeriodOf(d)) THEN alerts
                           ELSE alerts \cup {new}
              /\ due' = [due EXCEPT ![p] = @ \ {d}]
    /\ UNCHANGED <<now, row, records, todo, failures, met, history>>

\* The INSERT fails, always when the budget is gone or an amount has too many digits
\* for its column: the error is logged and the worker goes on.
InsertFails(p) ==
    /\ \E d \in due[p] :
          /\ NextAlert(p, d)
          /\ \/ ~(Exists(d.budget) /\ d.fits) /\ UNCHANGED failures
             \/ failures < MaxFailures /\ failures' = failures + 1
          /\ due' = [due EXCEPT ![p] = @ \ {d}]
    /\ UNCHANGED <<now, row, records, alerts, todo, met, history>>

\* The pod stops; the pass it was in is lost.
Restart(p) ==
    /\ todo[p] # {} \/ due[p] # {}
    /\ failures < MaxFailures
    /\ failures' = failures + 1
    /\ todo' = [todo EXCEPT ![p] = {}]
    /\ due' = [due EXCEPT ![p] = {}]
    /\ UNCHANGED <<now, row, records, alerts, met, history>>
-----------------------------------------------------------------------------
Dismissed(S) == {IF a \in S THEN [a EXCEPT !.status = "dismissed"] ELSE a : a \in alerts}

DismissalsLeft == Cardinality({a \in alerts' : a.status = "dismissed"}) <= MaxDismissed

DismissAlert(a) ==
    /\ a.status = "active"
    /\ alerts' = Dismissed({a})
    /\ DismissalsLeft
    /\ UNCHANGED <<now, row, records, worker, failures, met, history>>

\* An org admin dismisses every alert, others those of their org and team.
DismissAllAlerts(mine) ==
    /\ alerts' = Dismissed({a \in alerts : a.status = "active" /\ a.budget \in mine})
    /\ alerts' # alerts
    /\ DismissalsLeft
    /\ UNCHANGED <<now, row, records, worker, failures, met, history>>

CheckAndUpdateAlerts(p) ==
    \/ GetEnabledBudgets(p)
    \/ EvaluateConditions(p)
    \/ InsertAlertIfNotExists(p)
    \/ InsertFails(p)

Next ==
    \/ \E p \in Pods : CheckAndUpdateAlerts(p) \/ SkipBudget(p) \/ Restart(p)
    \/ \E b \in Budgets : Charge(b) \/ Reset(b) \/ UpdateBudget(b) \/ DeleteBudget(b)
    \/ \E a \in alerts : DismissAlert(a)
    \/ \E mine \in Visible : DismissAllAlerts(mine)
    \/ Tick

Spec == Init /\ [][Next]_vars

\* The ticker of each pod starts a pass again and again, and a pass goes on.
FairSpec == Spec /\ \A p \in Pods : WF_vars(CheckAndUpdateAlerts(p))
-----------------------------------------------------------------------------
\* Types: no alert outlives its budget or names a period that has not begun, and what
\* charges under way at once leave beyond the records kept ("at most 30 are retained
\* per budget") are no more records than overlap with one of them.
TypeOK ==
    /\ now \in 0..MaxTime
    /\ \A b \in Budgets :
          /\ row[b] \in {NoRow} \cup [usage : 0..MaxUsage, amount : Amounts, start : 0..now,
                                     enabled : BOOLEAN]
          /\ records[b] \subseteq [id : RecordIds, at : 0..now, cost : Costs]
          /\ Cardinality(records[b]) <= KeepRecords + Overlap
    /\ \A a \in alerts : /\ Exists(a.budget) /\ a.type \in AlertTypes
                         /\ a.period <= now /\ a.status \in {"active", "dismissed"}
    /\ \A p \in Pods : /\ \A s \in todo[p] : s.budget \in Budgets /\ s.row.start <= s.at
                       /\ \A d \in due[p] : d.budget \in Budgets /\ d.period <= now
    /\ failures \in 0..MaxFailures

\* An alert about usage names a period in which the budget had that usage: a pass
\* that a reset overtakes writes the alert of the old period to the old period.
AlertsAreEarned ==
    \A a \in alerts : a.type \in {"threshold_warning", "budget_exhausted"} =>
        <<a.budget, a.type, a.period>> \in met

\* The usage the burn rate is computed from is never more than the budget has been
\* charged since its period began, and the records that a reset which had to wait for
\* the row found to be younger than the period it starts.
RecordsWithinUsage ==
    \A b \in Budgets :
        GetCurrentPeriodUsage(b, row[b].start) <= row[b].usage + carried[b]

\* current_usage_usd has reached budget_amount_usd in this period, and an alert can
\* store both.
UsedUp(b, period) ==
    /\ Exists(b) /\ row[b].enabled /\ row[b].start = period
    /\ row[b].usage >= row[b].amount
    /\ row[b].usage <= MaxStored /\ row[b].amount <= MaxStored

\* A budget that stays exhausted gets its alert, although statements fail and pods
\* stop: the conditions are evaluated again in every pass.  (A budget with a million
\* dollars or more never does: its alerts cannot be stored.)
ExhaustionIsReported ==
    \A b \in Budgets, period \in 0..MaxTime :
        UsedUp(b, period) ~>
            (Conflicts(b, "budget_exhausted", period) \/ ~UsedUp(b, period))
=============================================================================
