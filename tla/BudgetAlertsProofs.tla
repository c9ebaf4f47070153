-------------------------- MODULE BudgetAlertsProofs --------------------------
(***************************************************************************)
(* Proofs about BudgetAlerts, for any budgets, pods, amounts and costs,    *)
(* any thresholds, and any numbers of records that are kept and of charges *)
(* that overlap.                                                           *)
(***************************************************************************)
EXTENDS BudgetAlerts, FiniteSetTheorems, TLAPS

(***************************************************************************)
(* Types.                                                                  *)
(***************************************************************************)
Rows == [usage : 0..MaxUsage, amount : Amounts \cup {0}, start : Nat, enabled : BOOLEAN]
Records == [id : RecordIds, at : Nat, cost : Costs]
Alerts == [budget : Budgets, type : AlertTypes, period : Nat, status : {"active", "dismissed"}]
Snapshots == [budget : Budgets, row : Rows, at : Nat]
Findings == [budget : Budgets, type : AlertTypes, period : Nat, fits : BOOLEAN]

\* A row that exists has an amount, and its period has begun.
RowsTyped ==
    /\ now \in 0..MaxTime
    /\ row \in [Budgets -> Rows]
    /\ \A b \in Budgets : row[b].start <= now /\ (row[b] = NoRow \/ row[b].amount \in Amounts)

\* What is kept, and what overlapping charges left beyond it.
RecordsKept(S, n) ==
    /\ S \subseteq Records /\ IsFiniteSet(S)
    /\ Cardinality(S) <= KeepRecords + Overlap
    /\ \A r \in S : r.at <= n

RecordsTyped ==
    /\ records \in [Budgets -> SUBSET Records]
    /\ \A b \in Budgets : RecordsKept(records[b], now)

AlertsTyped ==
    /\ alerts \subseteq Alerts
    /\ \A a \in alerts : Exists(a.budget) /\ a.period <= now

WorkersTyped ==
    /\ todo \in [Pods -> SUBSET Snapshots]
    /\ due \in [Pods -> SUBSET Findings]
    /\ \A p \in Pods : /\ \A s \in todo[p] : s.row.start <= s.at /\ s.at <= now
                       /\ \A d \in due[p] : d.period <= now
    /\ failures \in 0..MaxFailures

Typed == RowsTyped /\ RecordsTyped /\ AlertsTyped /\ WorkersTyped

\* The bounds are numbers.
LEMMA Constants ==
    /\ Amounts \subseteq Nat /\ 0 \notin Amounts /\ Costs \subseteq Nat
    /\ PeriodLength \in Nat /\ AlertDays \in Nat /\ KeepRecords \in Nat /\ KeepRecords > 0
    /\ WarnPct \in Nat /\ MaxUsage \in Nat /\ MaxTime \in Nat /\ MaxFailures \in Nat
    /\ Overlap \in Nat
  BY AlertAssumption

\* A deleted budget is a row, too.
LEMMA NoRowType ==
    /\ NoRow \in Rows /\ NoRow.start = 0 /\ NoRow.usage = 0 /\ NoRow.amount = 0
    /\ NoRow.enabled = FALSE
  BY Constants DEF NoRow, Rows

\* A new record is one of the budget's.
LEMMA NewRecord ==
    ASSUME Typed, NEW b \in Budgets, FreeIds(b) # {}, NEW at \in Nat, NEW cost \in Costs
    PROVE  [id |-> CHOOSE i \in FreeIds(b) : TRUE, at |-> at, cost |-> cost] \in Records
<1>1. (CHOOSE i \in FreeIds(b) : TRUE) \in RecordIds
  BY DEF FreeIds
<1> QED
  BY <1>1 DEF Records

\* What a charge leaves is what its DELETE kept and what it did not see: no more than
\* are kept and may overlap.
LEMMA ChargeKeeps ==
    ASSUME NEW n \in Nat, NEW S, RecordsKept(S, n), NEW r \in Records, r.at <= n,
           NEW unseen \in SUBSET S, Cardinality(unseen) <= Overlap,
           NEW kept \in SUBSET ((S \ unseen) \cup {r}), Newest((S \ unseen) \cup {r}, kept)
    PROVE  RecordsKept(unseen \cup kept, n)
<1> DEFINE V == (S \ unseen) \cup {r}
<1>0. KeepRecords \in Nat /\ Overlap \in Nat
  BY Constants
<1>1. IsFiniteSet(S) /\ IsFiniteSet({r})
  BY FS_Singleton DEF RecordsKept
<1>2. IsFiniteSet(unseen) /\ Cardinality(unseen) \in Nat
  BY <1>1, FS_Subset, FS_CardinalityType
<1>3. IsFiniteSet(V) /\ Cardinality(V) \in Nat
  <2>1. IsFiniteSet(S \ unseen)
    BY <1>1, FS_Subset
  <2>2. IsFiniteSet(V)
    BY <1>1, <2>1, FS_Union
  <2> QED
    BY <2>2, FS_CardinalityType
<1>4. IsFiniteSet(kept) /\ Cardinality(kept) \in Nat
  BY <1>3, FS_Subset, FS_CardinalityType
<1>5. Cardinality(kept) <= KeepRecords
  <2>1. Cardinality(kept) = IF Cardinality(V) <= KeepRecords THEN Cardinality(V) ELSE KeepRecords
    BY DEF Newest
  <2> HIDE DEF V
  <2> QED
    BY <1>0, <1>3, <2>1
<1>6. /\ IsFiniteSet(unseen \cup kept)
      /\ Cardinality(unseen \cup kept) =
            Cardinality(unseen) + Cardinality(kept) - Cardinality(unseen \cap kept)
  BY <1>2, <1>4, FS_Union
<1>7. Cardinality(unseen \cap kept) \in Nat
  <2>1. IsFiniteSet(unseen \cap kept)
    BY <1>2, FS_Subset
  <2> QED
    BY <2>1, FS_CardinalityType
<1>8. Cardinality(unseen \cup kept) <= KeepRecords + Overlap
  BY <1>0, <1>2, <1>4, <1>5, <1>6, <1>7
<1>9. \A x \in unseen \cup kept : x \in Records /\ x.at <= n
  BY DEF RecordsKept
<1> QED
  BY <1>6, <1>8, <1>9 DEF RecordsKept

\* What is typed now stays typed as time passes.
LEMMA TimePasses ==
    ASSUME Typed, now' \in 0..MaxTime, now <= now'
    PROVE  /\ UNCHANGED records => RecordsTyped'
           /\ UNCHANGED <<todo, due, failures>> => WorkersTyped'
           /\ UNCHANGED <<row, alerts>> => AlertsTyped'
           /\ UNCHANGED row => RowsTyped'
<1>0. now \in Nat /\ now' \in Nat
  BY Constants DEF Typed, RowsTyped
<1>1. ASSUME UNCHANGED records
      PROVE  RecordsTyped'
  <2>1. ASSUME NEW b \in Budgets, NEW r \in records[b]
        PROVE  r.at <= now'
    <3>1. r.at \in Nat /\ r.at <= now
      BY DEF Typed, RecordsTyped, RecordsKept, Records
    <3> QED
      BY <1>0, <3>1
  <2> QED
    BY <1>1, <2>1 DEF Typed, RecordsTyped, RecordsKept
<1>2. ASSUME UNCHANGED <<todo, due, failures>>
      PROVE  WorkersTyped'
  <2>1. ASSUME NEW p \in Pods, NEW s \in todo[p]
        PROVE  s.row.start <= s.at /\ s.at <= now'
    <3>1. s.at \in Nat /\ s.at <= now /\ s.row.start <= s.at
      BY DEF Typed, WorkersTyped, Snapshots
    <3> QED
      BY <1>0, <3>1
  <2>2. ASSUME NEW p \in Pods, NEW d \in due[p]
        PROVE  d.period <= now'
    <3>1. d.period \in Nat /\ d.period <= now
      BY DEF Typed, WorkersTyped, Findings
    <3> QED
      BY <1>0, <3>1
  <2> QED
    BY <1>2, <2>1, <2>2 DEF Typed, WorkersTyped
<1>3. ASSUME UNCHANGED <<row, alerts>>
      PROVE  AlertsTyped'
  <2>1. ASSUME NEW a \in alerts
        PROVE  a.period <= now'
    <3>1. a.period \in Nat /\ a.period <= now
      BY DEF Typed, AlertsTyped, Alerts
    <3> QED
      BY <1>0, <3>1
  <2> QED
    BY <1>3, <2>1 DEF Typed, AlertsTyped, Exists, NoRow
<1>4. ASSUME UNCHANGED row
      PROVE  RowsTyped'
  <2>1. ASSUME NEW b \in Budgets
        PROVE  row[b].start <= now'
    <3>1. row[b].start \in Nat /\ row[b].start <= now
      BY DEF Typed, RowsTyped, Rows
    <3> QED
      BY <1>0, <3>1
  <2> QED
    BY <1>4, <2>1 DEF Typed, RowsTyped, NoRow
<1> QED
  BY <1>1, <1>2, <1>3, <1>4

\* A row that is written has an amount; the alerts of its budget stay.
LEMMA RowWritten ==
    ASSUME Typed, now' \in 0..MaxTime, now <= now', NEW b \in Budgets, NEW r \in Rows,
           r.start <= now', r.amount \in Amounts, row' = [row EXCEPT ![b] = r]
    PROVE  RowsTyped' /\ (UNCHANGED alerts => AlertsTyped')
<1>0. now \in Nat /\ now' \in Nat
  BY Constants DEF Typed, RowsTyped
<1>1. r # NoRow
  <2>1. NoRow.amount = 0 /\ 0 \notin Amounts
    BY NoRowType, Constants
  <2> HIDE DEF NoRow
  <2> QED
    BY <2>1
<1> HIDE DEF NoRow
<1>2. \A c \in Budgets : row'[c] = IF c = b THEN r ELSE row[c]
  BY DEF Typed, RowsTyped
<1>3. RowsTyped'
  <2>1. row' \in [Budgets -> Rows]
    BY DEF Typed, RowsTyped
  <2>2. ASSUME NEW c \in Budgets
        PROVE  row'[c].start <= now' /\ (row'[c] = NoRow \/ row'[c].amount \in Amounts)
    <3>1. row[c].start \in Nat /\ row[c].start <= now
      BY DEF Typed, RowsTyped, Rows
    <3>2. row[c].start <= now'
      BY <1>0, <3>1
    <3> QED
      BY <1>2, <3>2 DEF Typed, RowsTyped
  <2> QED
    BY <2>1, <2>2 DEF RowsTyped, NoRow
<1>4. ASSUME UNCHANGED alerts
      PROVE  AlertsTyped'
  <2>1. ASSUME NEW a \in alerts
        PROVE  a.period <= now' /\ row'[a.budget] # NoRow
    <3>1. a \in Alerts /\ row[a.budget] # NoRow /\ a.period <= now
      BY DEF Typed, AlertsTyped, Exists
    <3>2. a.budget \in Budgets /\ a.period \in Nat
      BY <3>1 DEF Alerts
    <3> QED
      BY <1>0, <1>1, <1>2, <3>1, <3>2
  <2> QED
    BY <1>4, <2>1 DEF Typed, AlertsTyped, Exists, NoRow
<1> QED
  BY <1>3, <1>4

\* Charges, resets and edits keep the types.
LEMMA TypeRows ==
    ASSUME Typed, NEW b \in Budgets, Charge(b) \/ Reset(b) \/ UpdateBudget(b)
    PROVE  Typed'
<1>0. /\ now \in Nat /\ now <= MaxTime /\ MaxTime \in Nat /\ row[b] \in Rows
      /\ row[b].start <= now /\ row[b] # NoRow /\ row[b].amount \in Amounts
  <2>1. row[b] # NoRow
    BY DEF Charge, Reset, UpdateBudget, Exists
  <2> HIDE DEF NoRow
  <2> QED
    BY <2>1, Constants DEF Typed, RowsTyped
<1>1. CASE Charge(b)
  <2>1. PICK cost \in Costs, at \in {t \in 0..now : now <= t + MaxLag},
             unseen \in SUBSET records[b] :
          LET new == [id |-> CHOOSE i \in FreeIds(b) : TRUE, at |-> at, cost |-> cost]
              visible == (records[b] \ unseen) \cup {new}
          IN  /\ Cardinality(unseen) <= Overlap
              /\ row[b].usage + cost <= MaxUsage
              /\ SetRow(b, [row[b] EXCEPT !.usage = @ + cost])
              /\ \E kept \in SUBSET visible :
                    /\ Newest(visible, kept)
                    /\ records' = [records EXCEPT ![b] = unseen \cup kept]
    BY <1>1 DEF Charge
  <2>2. UNCHANGED <<now, alerts, todo, due, failures>> /\ cost \in Nat /\ at \in Nat /\ at <= now
    BY <1>0, <1>1, Constants DEF Charge, worker
  <2> DEFINE r == [row[b] EXCEPT !.usage = row[b].usage + cost]
             new == [id |-> CHOOSE i \in FreeIds(b) : TRUE, at |-> at, cost |-> cost]
             visible == (records[b] \ unseen) \cup {new}
  <2>3. r \in Rows /\ r.start = row[b].start /\ r.amount = row[b].amount
    BY <1>0, <2>1, <2>2, Constants DEF Rows
  <2>4. row' = [row EXCEPT ![b] = r]
    BY <2>1 DEF SetRow
  <2> HIDE DEF r
  <2>5. RowsTyped' /\ AlertsTyped'
    <3>1. now' \in 0..MaxTime /\ now <= now' /\ r.start <= now' /\ r.amount \in Amounts
      BY <1>0, <2>2, <2>3
    <3> QED
      BY <2>2, <2>3, <2>4, <3>1, RowWritten
  <2>6. new \in Records /\ new.at <= now
    BY <1>1, <2>2, NewRecord DEF Charge
  <2>7. /\ Cardinality(unseen) <= Overlap
        /\ \E kept \in SUBSET visible :
              Newest(visible, kept) /\ records' = [records EXCEPT ![b] = unseen \cup kept]
    BY <2>1
  <2> HIDE DEF new
  <2>8. PICK kept \in SUBSET visible :
            Newest(visible, kept) /\ records' = [records EXCEPT ![b] = unseen \cup kept]
    BY <2>7
  <2>9. RecordsKept(unseen \cup kept, now)
    <3>1. RecordsKept(records[b], now) /\ now \in Nat
      BY <1>0 DEF Typed, RecordsTyped
    <3> QED
      BY <2>6, <2>7, <2>8, <3>1, ChargeKeeps
  <2> DEFINE left == unseen \cup kept
  <2>10. records' = [records EXCEPT ![b] = left] /\ RecordsKept(left, now)
    BY <2>8, <2>9
  <2> HIDE DEF left
  <2>11. RecordsTyped'
    <3>1. left \subseteq Records
      BY <2>10 DEF RecordsKept
    <3>2. records' \in [Budgets -> SUBSET Records]
      BY <2>10, <3>1 DEF Typed, RecordsTyped
    <3>3. \A c \in Budgets : RecordsKept(records'[c], now)
      BY <2>10 DEF Typed, RecordsTyped
    <3> QED
      BY <2>2, <3>2, <3>3 DEF RecordsTyped, RecordsKept
  <2>12. WorkersTyped'
    BY <2>2 DEF Typed, WorkersTyped
  <2> QED
    BY <2>5, <2>11, <2>12 DEF Typed
<1>2. CASE Reset(b)
  <2>0. PICK start \in (0..now) \ periods[b] :
            row' = [row EXCEPT ![b] = [row[b] EXCEPT !.usage = 0, !.start = start]]
    BY <1>2 DEF Reset, SetRow
  <2> DEFINE r == [row[b] EXCEPT !.usage = 0, !.start = start]
  <2>1. row' = [row EXCEPT ![b] = r] /\ UNCHANGED <<now, records, alerts, todo, due, failures>>
    BY <1>2, <2>0 DEF Reset, worker
  <2>2. r \in Rows /\ r.start = start /\ r.amount = row[b].amount
    <3>1. 0 \in 0..MaxUsage /\ start \in Nat
      BY <1>0, Constants
    <3> QED
      BY <1>0, <3>1 DEF Rows
  <2>3. now' \in 0..MaxTime /\ now <= now' /\ r.start <= now'
    BY <1>0, <2>1, <2>2
  <2> HIDE DEF r
  <2> QED
    BY <1>0, <2>1, <2>2, <2>3, RowWritten, TimePasses DEF Typed
<1>3. CASE UpdateBudget(b)
  <2>1. PICK a \in Amounts, e \in BOOLEAN :
            row' = [row EXCEPT ![b] = [row[b] EXCEPT !.amount = a, !.enabled = e]]
    BY <1>3 DEF UpdateBudget, SetRow
  <2>2. UNCHANGED <<now, records, alerts, todo, due, failures>>
    BY <1>3 DEF UpdateBudget, worker
  <2> DEFINE r == [row[b] EXCEPT !.amount = a, !.enabled = e]
  <2>3. r \in Rows /\ r.start = row[b].start /\ r.amount = a
    BY <1>0 DEF Rows
  <2>4. row' = [row EXCEPT ![b] = r] /\ now' \in 0..MaxTime /\ now <= now' /\ r.start <= now'
    BY <1>0, <2>1, <2>2, <2>3
  <2> HIDE DEF r
  <2> QED
    BY <2>2, <2>3, <2>4, RowWritten, TimePasses DEF Typed
<1> QED
  BY <1>1, <1>2, <1>3

\* A worker's steps keep the types: they leave rows and records alone.
LEMMA TypeWorkers ==
    ASSUME Typed, NEW p \in Pods,
           CheckAndUpdateAlerts(p) \/ SkipBudget(p) \/ Restart(p)
    PROVE  Typed'
<1>0. UNCHANGED <<now, row, records>> /\ failures' \in 0..MaxFailures
  <2>1. UNCHANGED <<now, row, records>>
    BY DEF CheckAndUpdateAlerts, GetEnabledBudgets, EvaluateConditions,
           InsertAlertIfNotExists, InsertFails, SkipBudget, Restart
  <2>2. failures' = failures \/ (failures < MaxFailures /\ failures' = failures + 1)
    <3>1. CASE GetEnabledBudgets(p)
      BY <3>1 DEF GetEnabledBudgets
    <3> QED
      BY <3>1 DEF CheckAndUpdateAlerts, EvaluateConditions,
             InsertAlertIfNotExists, InsertFails, SkipBudget, Restart
  <2>3. failures \in 0..MaxFailures /\ MaxFailures \in Nat
    BY Constants DEF Typed, WorkersTyped
  <2> QED
    BY <2>1, <2>2, <2>3
<1>1. RowsTyped' /\ RecordsTyped'
  BY <1>0 DEF Typed, RowsTyped, RecordsTyped, RecordsKept, NoRow
<1>2. ASSUME NEW A, A \subseteq Snapshots, \A s \in A : s.row.start <= s.at /\ s.at <= now,
             NEW D, D \subseteq Findings, \A d \in D : d.period <= now,
             todo' = [todo EXCEPT ![p] = A], due' = [due EXCEPT ![p] = D]
      PROVE  WorkersTyped'
  <2>1. todo' \in [Pods -> SUBSET Snapshots] /\ due' \in [Pods -> SUBSET Findings]
    BY <1>2 DEF Typed, WorkersTyped
  <2>2. \A q \in Pods : /\ todo'[q] = IF q = p THEN A ELSE todo[q]
                        /\ due'[q] = IF q = p THEN D ELSE due[q]
    BY <1>2 DEF Typed, WorkersTyped
  <2> QED
    BY <1>0, <1>2, <2>1, <2>2 DEF Typed, WorkersTyped
<1>3. /\ todo[p] \subseteq Snapshots /\ \A s \in todo[p] : s.row.start <= s.at /\ s.at <= now
      /\ due[p] \subseteq Findings /\ \A d \in due[p] : d.period <= now
      /\ todo = [todo EXCEPT ![p] = todo[p]] /\ due = [due EXCEPT ![p] = due[p]]
  BY DEF Typed, WorkersTyped
<1>4. ASSUME UNCHANGED alerts
      PROVE  AlertsTyped'
  BY <1>0, <1>4 DEF Typed, AlertsTyped, Exists, NoRow
<1>5. CASE GetEnabledBudgets(p)
  <2>1. PICK n \in 0..Len(Order) :
          todo' = [todo EXCEPT ![p] = {[budget |-> b, row |-> row[b], at |-> now] :
                     b \in {c \in {d \in Budgets : row[d].enabled} : Position(Order, c) <= n}}]
    BY <1>5 DEF GetEnabledBudgets
  <2> DEFINE A == {[budget |-> b, row |-> row[b], at |-> now] :
                     b \in {c \in {d \in Budgets : row[d].enabled} : Position(Order, c) <= n}}
  <2>2. ASSUME NEW s \in A
        PROVE  s \in Snapshots /\ s.row.start <= s.at /\ s.at <= now
    <3>1. PICK b \in Budgets : s = [budget |-> b, row |-> row[b], at |-> now]
      OBVIOUS
    <3>2. row[b] \in Rows /\ row[b].start <= now /\ now \in Nat
      BY Constants DEF Typed, RowsTyped
    <3>3. now <= now
      BY <3>2
    <3> QED
      BY <3>1, <3>2, <3>3 DEF Snapshots
  <2>3. UNCHANGED <<alerts, due>> /\ todo' = [todo EXCEPT ![p] = A]
    BY <1>5, <2>1 DEF GetEnabledBudgets
  <2> HIDE DEF A
  <2>4. WorkersTyped'
    <3>1. due' = [due EXCEPT ![p] = due[p]]
      BY <1>3, <2>3
    <3> QED
      BY <1>2, <1>3, <2>2, <2>3, <3>1
  <2> QED
    BY <1>1, <1>4, <2>3, <2>4 DEF Typed
<1>6. CASE EvaluateConditions(p)
  <2>1. PICK s \in todo[p] :
          LET total == GetCurrentPeriodUsage(s.budget, s.row.start)
              fired == {t \in AlertTypes : Fired(t, s.row, total, s.at)}
          IN  /\ todo' = [todo EXCEPT ![p] = @ \ {s}]
              /\ due' = [due EXCEPT ![p] =
                    {[budget |-> s.budget, type |-> t, period |-> s.row.start,
                      fits |-> Storable(t, s.row, total, s.at)] : t \in fired}]
    BY <1>6 DEF EvaluateConditions
  <2> DEFINE total == GetCurrentPeriodUsage(s.budget, s.row.start)
             F == {t \in AlertTypes : Fired(t, s.row, total, s.at)}
             fits(t) == Storable(t, s.row, total, s.at)
             D == {[budget |-> s.budget, type |-> t, period |-> s.row.start,
                    fits |-> fits(t)] : t \in F}
  <2>2. UNCHANGED alerts /\ todo' = [todo EXCEPT ![p] = todo[p] \ {s}] /\ due' = [due EXCEPT ![p] = D]
    BY <1>6, <2>1 DEF EvaluateConditions
  <2>3. F \subseteq AlertTypes /\ \A t \in F : fits(t) \in BOOLEAN
    BY DEF Storable
  <2> HIDE DEF F, fits, total
  <2>4. s.budget \in Budgets /\ s.row.start \in Nat /\ s.row.start <= now
    <3>1. s \in Snapshots /\ s.row.start <= s.at /\ s.at <= now
      BY <1>3
    <3>2. s.budget \in Budgets /\ s.row \in Rows /\ s.at \in Nat
      BY <3>1 DEF Snapshots
    <3>3. s.row.start \in Nat /\ now \in Nat
      BY <3>2, Constants DEF Rows, Typed, RowsTyped
    <3> QED
      BY <3>1, <3>2, <3>3
  <2>5. D \subseteq Findings /\ \A d \in D : d.period <= now
    BY <2>3, <2>4 DEF Findings
  <2> HIDE DEF D
  <2>6. WorkersTyped'
    <3>1. todo[p] \ {s} \subseteq Snapshots /\ \A u \in todo[p] \ {s} : u.row.start <= u.at /\ u.at <= now
      BY <1>3
    <3> QED
      BY <1>2, <2>2, <2>5, <3>1
  <2> QED
    BY <1>1, <1>4, <2>2, <2>6 DEF Typed
<1>7. CASE SkipBudget(p)
  <2>1. PICK s \in todo[p] : todo' = [todo EXCEPT ![p] = todo[p] \ {s}]
    BY <1>7 DEF SkipBudget
  <2>2. UNCHANGED <<alerts, due>>
    BY <1>7 DEF SkipBudget
  <2>3. todo[p] \ {s} \subseteq Snapshots /\ \A u \in todo[p] \ {s} : u.row.start <= u.at /\ u.at <= now
    BY <1>3
  <2>4. WorkersTyped'
    <3>1. due' = [due EXCEPT ![p] = due[p]]
      BY <1>3, <2>2
    <3> QED
      BY <1>2, <1>3, <2>1, <2>3, <3>1
  <2> QED
    BY <1>1, <1>4, <2>2, <2>4 DEF Typed
<1>8. CASE InsertAlertIfNotExists(p) \/ InsertFails(p)
  <2>1. PICK d \in due[p] :
          /\ due' = [due EXCEPT ![p] = due[p] \ {d}]
          /\ \/ alerts' = alerts
             \/ /\ Exists(d.budget)
                /\ alerts' = alerts \cup {[budget |-> d.budget, type |-> d.type,
                                           period |-> d.period, status |-> "active"]}
    BY <1>8 DEF InsertAlertIfNotExists, InsertFails, PeriodOf
  <2>2. UNCHANGED todo
    BY <1>8 DEF InsertAlertIfNotExists, InsertFails
  <2>3. due[p] \ {d} \subseteq Findings /\ \A o \in due[p] \ {d} : o.period <= now
    BY <1>3
  <2>4. WorkersTyped'
    <3>1. todo' = [todo EXCEPT ![p] = todo[p]]
      BY <1>3, <2>2
    <3> QED
      BY <1>2, <1>3, <2>1, <2>3, <3>1
  <2>5. AlertsTyped'
    <3>1. CASE alerts' = alerts
      BY <1>4, <3>1
    <3>2. CASE /\ Exists(d.budget)
               /\ alerts' = alerts \cup {[budget |-> d.budget, type |-> d.type,
                                          period |-> d.period, status |-> "active"]}
      <4> DEFINE new == [budget |-> d.budget, type |-> d.type, period |-> d.period, status |-> "active"]
      <4>1. d \in Findings /\ d.period <= now
        BY <1>3
      <4>2. new \in Alerts /\ new.period <= now /\ row[new.budget] # NoRow
        BY <3>2, <4>1 DEF Findings, Alerts, Exists
      <4>3. alerts' = alerts \cup {new}
        BY <3>2
      <4> HIDE DEF new
      <4>4. \A a \in alerts' : a \in Alerts /\ a.period <= now /\ row[a.budget] # NoRow
        BY <4>2, <4>3 DEF Typed, AlertsTyped, Exists
      <4> QED
        BY <1>0, <4>4 DEF AlertsTyped, Exists, NoRow
    <3> QED
      BY <2>1, <3>1, <3>2
  <2> QED
    BY <1>1, <2>4, <2>5 DEF Typed
<1>9. CASE Restart(p)
  <2>1. todo' = [todo EXCEPT ![p] = {}] /\ due' = [due EXCEPT ![p] = {}] /\ UNCHANGED alerts
    BY <1>9 DEF Restart
  <2>2. WorkersTyped'
    BY <1>0, <2>1 DEF Typed, WorkersTyped
  <2> QED
    BY <1>1, <1>4, <2>1, <2>2 DEF Typed
<1> QED
  BY <1>5, <1>6, <1>7, <1>8, <1>9 DEF CheckAndUpdateAlerts

\* Deleting, dismissing and waiting keep the types.
LEMMA TypeOthers ==
    ASSUME Typed,
           \/ \E b \in Budgets : DeleteBudget(b)
           \/ \E a \in alerts : DismissAlert(a)
           \/ \E mine \in Visible : DismissAllAlerts(mine)
           \/ Tick
    PROVE  Typed'
<1>0. now \in Nat /\ now <= MaxTime /\ MaxTime \in Nat
  BY Constants DEF Typed, RowsTyped
<1>1. ASSUME NEW b \in Budgets, DeleteBudget(b)
      PROVE  Typed'
  <2>1. /\ row' = [row EXCEPT ![b] = NoRow] /\ records' = [records EXCEPT ![b] = {}]
        /\ alerts' = {a \in alerts : a.budget # b} /\ UNCHANGED <<now, todo, due, failures>>
    BY <1>1 DEF DeleteBudget, worker
  <2>2. NoRow \in Rows /\ NoRow.start <= now
    BY <1>0, NoRowType
  <2> HIDE DEF NoRow
  <2>3. /\ row' \in [Budgets -> Rows]
        /\ \A c \in Budgets : row'[c] = IF c = b THEN NoRow ELSE row[c]
    BY <2>1, <2>2 DEF Typed, RowsTyped
  <2>4. RowsTyped'
    BY <2>1, <2>2, <2>3 DEF Typed, RowsTyped, NoRow
  <2>5. AlertsTyped'
    <3>1. \A a \in alerts' : a \in Alerts /\ a.period <= now /\ row'[a.budget] # NoRow
      BY <2>1, <2>3 DEF Typed, AlertsTyped, Exists, Alerts
    <3> QED
      BY <2>1, <3>1 DEF AlertsTyped, Exists, NoRow
  <2>6. RecordsTyped'
    <3>1. RecordsKept({}, now)
      BY FS_EmptySet, Constants DEF RecordsKept
    <3>2. records' \in [Budgets -> SUBSET Records]
      BY <2>1 DEF Typed, RecordsTyped
    <3>3. \A c \in Budgets : RecordsKept(records'[c], now)
      BY <2>1, <3>1 DEF Typed, RecordsTyped
    <3> QED
      BY <2>1, <3>2, <3>3 DEF RecordsTyped, RecordsKept
  <2>7. WorkersTyped'
    BY <2>1 DEF Typed, WorkersTyped
  <2> QED
    BY <2>4, <2>5, <2>6, <2>7 DEF Typed
<1>2. ASSUME NEW S, alerts' = Dismissed(S), UNCHANGED <<now, row, records, todo, due, failures>>
      PROVE  Typed'
  <2>1. ASSUME NEW a \in alerts'
        PROVE  a \in Alerts /\ a.period <= now /\ row[a.budget] # NoRow
    <3>1. PICK o \in alerts : a = IF o \in S THEN [o EXCEPT !.status = "dismissed"] ELSE o
      BY <1>2 DEF Dismissed
    <3>2. o \in Alerts /\ o.period <= now /\ row[o.budget] # NoRow
      BY DEF Typed, AlertsTyped, Exists
    <3>3. a \in Alerts /\ a.period = o.period /\ a.budget = o.budget
      BY <3>1, <3>2 DEF Alerts
    <3> QED
      BY <3>2, <3>3
  <2>2. AlertsTyped'
    BY <1>2, <2>1 DEF AlertsTyped, Exists, NoRow
  <2>3. RowsTyped' /\ RecordsTyped' /\ WorkersTyped'
    BY <1>2 DEF Typed, RowsTyped, RecordsTyped, WorkersTyped, RecordsKept, NoRow
  <2> QED
    BY <2>2, <2>3 DEF Typed
<1>3. CASE \E a \in alerts : DismissAlert(a)
  BY <1>2, <1>3 DEF DismissAlert, worker
<1>4. CASE \E mine \in Visible : DismissAllAlerts(mine)
  BY <1>2, <1>4 DEF DismissAllAlerts, worker
<1>5. CASE Tick
  <2>1. now' \in 0..MaxTime /\ now <= now'
    BY <1>0, <1>5 DEF Tick
  <2>2. UNCHANGED <<row, records, alerts, todo, due, failures>>
    BY <1>5 DEF Tick, worker
  <2> QED
    BY <2>1, <2>2, TimePasses DEF Typed
<1> QED
  BY <1>1, <1>3, <1>4, <1>5

\* Every step keeps the types.
LEMMA TypeStep ==
    ASSUME Typed, [Next]_vars
    PROVE  Typed'
<1>1. CASE UNCHANGED vars
  BY <1>1 DEF vars, worker, Typed, RowsTyped, RecordsTyped, AlertsTyped, WorkersTyped,
              RecordsKept, Exists, NoRow
<1>2. CASE Next
  BY <1>2, TypeWorkers, TypeRows, TypeOthers DEF Next
<1> QED
  BY <1>1, <1>2

\* The initial state is typed.
LEMMA TypeInit ==
    ASSUME Init
    PROVE  Typed
<1>1. PICK a \in Amounts : row = [b \in Budgets |->
          [usage |-> 0, amount |-> a, start |-> 0, enabled |-> TRUE]]
  BY DEF Init
<1>2. RowsTyped
  <2>1. 0 \in 0..MaxUsage /\ 0 \in 0..MaxTime /\ 0 \in Nat
    BY Constants
  <2>2. row \in [Budgets -> Rows]
    BY <1>1, <2>1 DEF Rows
  <2>3. \A b \in Budgets : row[b].start = 0 /\ row[b].amount \in Amounts
    BY <1>1
  <2>4. now = 0 /\ 0 <= 0
    BY DEF Init
  <2> HIDE DEF NoRow
  <2> QED
    BY <2>1, <2>2, <2>3, <2>4 DEF RowsTyped
<1>3. RecordsTyped
  <2>1. RecordsKept({}, now)
    BY FS_EmptySet, Constants DEF RecordsKept
  <2> QED
    BY <2>1 DEF Init, RecordsTyped
<1>4. AlertsTyped /\ WorkersTyped
  BY Constants DEF Init, AlertsTyped, WorkersTyped
<1> QED
  BY <1>2, <1>3, <1>4 DEF Typed

\* What the run checks of the types follows.
LEMMA TypedIsTypeOK ==
    ASSUME Typed
    PROVE  TypeOK
<1>1. ASSUME NEW b \in Budgets
      PROVE  row[b] \in {NoRow} \cup [usage : 0..MaxUsage, amount : Amounts, start : 0..now,
                                      enabled : BOOLEAN]
  <2>1. /\ row[b] \in Rows /\ row[b].start <= now /\ now \in Nat
        /\ row[b] = NoRow \/ row[b].amount \in Amounts
    BY Constants DEF Typed, RowsTyped
  <2> HIDE DEF NoRow
  <2>2. row[b].start \in 0..now
    BY <2>1 DEF Rows
  <2> QED
    BY <2>1, <2>2 DEF Rows
<1>2. ASSUME NEW b \in Budgets
      PROVE  /\ records[b] \subseteq [id : RecordIds, at : 0..now, cost : Costs]
             /\ Cardinality(records[b]) <= KeepRecords + Overlap
  <2>1. RecordsKept(records[b], now) /\ now \in Nat
    BY Constants DEF Typed, RowsTyped, RecordsTyped
  <2>2. ASSUME NEW r \in records[b]
        PROVE  r \in [id : RecordIds, at : 0..now, cost : Costs]
    <3>1. r \in Records /\ r.at <= now
      BY <2>1 DEF RecordsKept
    <3>2. r.at \in 0..now
      BY <2>1, <3>1 DEF Records
    <3> QED
      BY <3>1, <3>2 DEF Records
  <2> QED
    BY <2>1, <2>2 DEF RecordsKept
<1>3. \A a \in alerts : /\ Exists(a.budget) /\ a.type \in AlertTypes
                        /\ a.period <= now /\ a.status \in {"active", "dismissed"}
  BY DEF Typed, AlertsTyped, Alerts
<1>4. \A p \in Pods : /\ \A s \in todo[p] : s.budget \in Budgets /\ s.row.start <= s.at
                      /\ \A d \in due[p] : d.budget \in Budgets /\ d.period <= now
  BY DEF Typed, WorkersTyped, Snapshots, Findings
<1>5. now \in 0..MaxTime /\ failures \in 0..MaxFailures
  BY DEF Typed, RowsTyped, WorkersTyped
<1> HIDE DEF NoRow, Exists
<1> QED
  BY <1>1, <1>2, <1>3, <1>4, <1>5 DEF TypeOK

\* No alert outlives its budget, its period has begun, and no more usage records of a
\* budget are left than the last DELETE kept and charges that overlap with it made.
THEOREM AlertTypesKept == Spec => []TypeOK
<1>1. Init => Typed
  BY TypeInit
<1>2. Typed /\ [Next]_vars => Typed'
  BY TypeStep
<1>3. Typed => TypeOK
  BY TypedIsTypeOK
<1> QED
  BY <1>1, <1>2, <1>3, PTL DEF Spec

-----------------------------------------------------------------------------
(***************************************************************************)
(* An alert about usage was earned: the conditions that a worker finds in  *)
(* its snapshot, however old, are conditions that a row has met.           *)
(***************************************************************************)
UsageTypes == {"threshold_warning", "budget_exhausted"}

RowsMet == \A b \in Budgets : Meets(b, row[b]) \subseteq met

SnapshotsMet == \A p \in Pods : \A s \in todo[p] : Meets(s.budget, s.row) \subseteq met

FindingsMet ==
    \A p \in Pods : \A d \in due[p] :
        d.type \in UsageTypes => <<d.budget, d.type, d.period>> \in met

Earned == RowsMet /\ SnapshotsMet /\ FindingsMet /\ AlertsAreEarned

\* The conditions about usage are read off the row alone.
LEMMA FiredIsMet ==
    ASSUME NEW b, NEW r, NEW t \in UsageTypes, NEW total, NEW time, Fired(t, r, total, time)
    PROVE  <<b, t, r.start>> \in Meets(b, r)
<1>1. Fired(t, r, 0, r.start)
  BY DEF Fired, UsageTypes
<1> QED
  BY <1>1 DEF Meets, UsageTypes

\* A budget that is deleted meets nothing.
LEMMA NoRowMeetsNothing == \A b : Meets(b, NoRow) = {}
<1>1. ~evalThresholdWarning(NoRow) /\ ~evalBudgetExhausted(NoRow)
  <2>1. NoRow.amount = 0
    BY NoRowType
  <2> HIDE DEF NoRow
  <2> QED
    BY <2>1 DEF evalThresholdWarning, evalBudgetExhausted
<1> HIDE DEF NoRow
<1> QED
  BY <1>1 DEF Meets, Fired

\* What has been met stays met.
LEMMA MetGrows ==
    ASSUME [Next]_vars
    PROVE  met \subseteq met'
<1>1. CASE Next
  BY <1>1 DEF Next, CheckAndUpdateAlerts, GetEnabledBudgets, EvaluateConditions,
              InsertAlertIfNotExists, InsertFails, SkipBudget, Restart, Charge, Reset,
              UpdateBudget, DeleteBudget, SetRow, DismissAlert, DismissAllAlerts, Tick
<1> QED
  BY <1>1 DEF vars

\* A step that writes a row records what the row meets.
LEMMA RowsStayMet ==
    ASSUME Typed, RowsMet, [Next]_vars
    PROVE  RowsMet'
<1>0. met \subseteq met' /\ row \in [Budgets -> Rows]
  BY MetGrows DEF Typed, RowsTyped
<1>1. ASSUME UNCHANGED row
      PROVE  RowsMet'
  BY <1>0, <1>1 DEF RowsMet, Meets, Fired, evalThresholdWarning, evalBudgetExhausted
<1>2. ASSUME NEW b \in Budgets, NEW r, row' = [row EXCEPT ![b] = r], Meets(b, r) \subseteq met'
      PROVE  RowsMet'
  <2>1. \A c \in Budgets : row'[c] = IF c = b THEN r ELSE row[c]
    BY <1>0, <1>2
  <2>2. \A c \in Budgets : Meets(c, row'[c]) \subseteq met'
    BY <1>0, <1>2, <2>1 DEF RowsMet
  <2> QED
    BY <2>2 DEF RowsMet, Meets, Fired, evalThresholdWarning, evalBudgetExhausted
<1>3. ASSUME NEW b \in Budgets, Charge(b) \/ Reset(b) \/ UpdateBudget(b) \/ DeleteBudget(b)
      PROVE  RowsMet'
  <2>1. CASE Charge(b)
    BY <1>2, <2>1 DEF Charge, SetRow
  <2>2. CASE Reset(b)
    BY <1>2, <2>2 DEF Reset, SetRow
  <2>3. CASE UpdateBudget(b)
    BY <1>2, <2>3 DEF UpdateBudget, SetRow
  <2>4. CASE DeleteBudget(b)
    <3>1. row' = [row EXCEPT ![b] = NoRow]
      BY <2>4 DEF DeleteBudget
    <3>2. Meets(b, NoRow) \subseteq met'
      BY NoRowMeetsNothing
    <3> HIDE DEF NoRow
    <3> QED
      BY <1>2, <3>1, <3>2
  <2> QED
    BY <1>3, <2>1, <2>2, <2>3, <2>4
<1>4. UNCHANGED row \/ \E b \in Budgets : Charge(b) \/ Reset(b) \/ UpdateBudget(b) \/ DeleteBudget(b)
  BY DEF vars, Next, CheckAndUpdateAlerts, GetEnabledBudgets, EvaluateConditions,
         InsertAlertIfNotExists, InsertFails, SkipBudget, Restart, DismissAlert,
         DismissAllAlerts, Tick
<1> QED
  BY <1>1, <1>3, <1>4

\* A snapshot is of rows, a finding of a snapshot and an alert of a finding.
LEMMA EarnedStep ==
    ASSUME Typed, Earned, [Next]_vars
    PROVE  Earned'
<1>0. /\ met \subseteq met' /\ RowsMet' /\ todo \in [Pods -> SUBSET Snapshots]
      /\ due \in [Pods -> SUBSET Findings]
  BY MetGrows, RowsStayMet DEF Typed, WorkersTyped, Earned
<1>1. ASSUME NEW p \in Pods, NEW A, todo' = [todo EXCEPT ![p] = A],
             \A s \in A : Meets(s.budget, s.row) \subseteq met
      PROVE  SnapshotsMet'
  <2>1. \A q \in Pods : todo'[q] = IF q = p THEN A ELSE todo[q]
    BY <1>0, <1>1
  <2>2. \A q \in Pods : \A s \in todo'[q] : Meets(s.budget, s.row) \subseteq met'
    BY <1>0, <1>1, <2>1 DEF Earned, SnapshotsMet
  <2> QED
    BY <2>2 DEF SnapshotsMet, Meets, Fired, evalThresholdWarning, evalBudgetExhausted
<1>2. ASSUME UNCHANGED todo
      PROVE  SnapshotsMet'
  BY <1>0, <1>2 DEF Earned, SnapshotsMet, Meets, Fired, evalThresholdWarning, evalBudgetExhausted
<1>3. ASSUME NEW p \in Pods, NEW D, due' = [due EXCEPT ![p] = D],
             \A d \in D : d.type \in UsageTypes => <<d.budget, d.type, d.period>> \in met
      PROVE  FindingsMet'
  <2>1. \A q \in Pods : due'[q] = IF q = p THEN D ELSE due[q]
    BY <1>0, <1>3
  <2> QED
    BY <1>0, <1>3, <2>1 DEF Earned, FindingsMet
<1>4. ASSUME UNCHANGED due
      PROVE  FindingsMet'
  BY <1>0, <1>4 DEF Earned, FindingsMet
<1>5. ASSUME alerts' \subseteq alerts
      PROVE  AlertsAreEarned'
  BY <1>0, <1>5 DEF Earned, AlertsAreEarned
<1>6. ASSUME NEW S, alerts' = Dismissed(S)
      PROVE  AlertsAreEarned'
  <2>1. ASSUME NEW a \in alerts', a.type \in UsageTypes
        PROVE  <<a.budget, a.type, a.period>> \in met'
    <3>1. PICK o \in alerts : a = IF o \in S THEN [o EXCEPT !.status = "dismissed"] ELSE o
      BY <1>6 DEF Dismissed
    <3>2. o \in Alerts
      BY DEF Typed, AlertsTyped
    <3>3. a.budget = o.budget /\ a.type = o.type /\ a.period = o.period
      BY <3>1, <3>2 DEF Alerts
    <3> QED
      BY <1>0, <2>1, <3>3 DEF Earned, AlertsAreEarned, UsageTypes
  <2> QED
    BY <2>1 DEF AlertsAreEarned, UsageTypes
<1>7. ASSUME NEW p \in Pods, CheckAndUpdateAlerts(p) \/ SkipBudget(p) \/ Restart(p)
      PROVE  Earned'
  <2>1. CASE GetEnabledBudgets(p)
    <3>1. PICK n \in 0..Len(Order) :
            todo' = [todo EXCEPT ![p] = {[budget |-> b, row |-> row[b], at |-> now] :
                       b \in {c \in {d \in Budgets : row[d].enabled} : Position(Order, c) <= n}}]
      BY <2>1 DEF GetEnabledBudgets
    <3> DEFINE A == {[budget |-> b, row |-> row[b], at |-> now] :
                       b \in {c \in {d \in Budgets : row[d].enabled} : Position(Order, c) <= n}}
    <3>2. ASSUME NEW s \in A
          PROVE  Meets(s.budget, s.row) \subseteq met
      <4>1. PICK b \in Budgets : s = [budget |-> b, row |-> row[b], at |-> now]
        OBVIOUS
      <4>2. s.budget = b /\ s.row = row[b]
        BY <4>1
      <4> HIDE DEF A
      <4> QED
        BY <4>2 DEF Earned, RowsMet
    <3>3. UNCHANGED <<alerts, due>> /\ todo' = [todo EXCEPT ![p] = A]
      BY <2>1, <3>1 DEF GetEnabledBudgets
    <3> HIDE DEF A
    <3> QED
      BY <1>0, <1>1, <1>4, <1>5, <3>2, <3>3 DEF Earned
  <2>2. CASE EvaluateConditions(p)
    <3>1. PICK s \in todo[p] :
            LET total == GetCurrentPeriodUsage(s.budget, s.row.start)
                fired == {t \in AlertTypes : Fired(t, s.row, total, s.at)}
            IN  /\ todo' = [todo EXCEPT ![p] = @ \ {s}]
                /\ due' = [due EXCEPT ![p] =
                      {[budget |-> s.budget, type |-> t, period |-> s.row.start,
                        fits |-> Storable(t, s.row, total, s.at)] : t \in fired}]
      BY <2>2 DEF EvaluateConditions
    <3> DEFINE total == GetCurrentPeriodUsage(s.budget, s.row.start)
               D == {[budget |-> s.budget, type |-> t, period |-> s.row.start,
                      fits |-> Storable(t, s.row, total, s.at)] : t \in {u \in AlertTypes : Fired(u, s.row, total, s.at)}}
    <3>2. /\ todo' = [todo EXCEPT ![p] = todo[p] \ {s}] /\ due' = [due EXCEPT ![p] = D]
          /\ UNCHANGED alerts
      BY <2>2, <3>1 DEF EvaluateConditions
    <3> HIDE DEF total
    <3>3. ASSUME NEW d \in D, d.type \in UsageTypes
          PROVE  <<d.budget, d.type, d.period>> \in met
      <4>1. PICK t \in AlertTypes : /\ Fired(t, s.row, total, s.at)
                                    /\ d = [budget |-> s.budget, type |-> t, period |-> s.row.start,
                                           fits |-> Storable(t, s.row, total, s.at)]
        OBVIOUS
      <4>2. d.budget = s.budget /\ d.type = t /\ d.period = s.row.start
        BY <4>1
      <4> HIDE DEF D
      <4>3. <<s.budget, t, s.row.start>> \in Meets(s.budget, s.row)
        BY <3>3, <4>1, <4>2, FiredIsMet
      <4>4. Meets(s.budget, s.row) \subseteq met
        BY DEF Earned, SnapshotsMet
      <4> QED
        BY <4>2, <4>3, <4>4
    <3> HIDE DEF D
    <3>4. \A u \in todo[p] \ {s} : Meets(u.budget, u.row) \subseteq met
      BY DEF Earned, SnapshotsMet
    <3> QED
      BY <1>0, <1>1, <1>3, <1>5, <3>2, <3>3, <3>4 DEF Earned
  <2>3. CASE InsertAlertIfNotExists(p) \/ InsertFails(p)
    <3>1. PICK d \in due[p] :
            /\ due' = [due EXCEPT ![p] = due[p] \ {d}]
            /\ \/ alerts' = alerts
               \/ alerts' = alerts \cup {[budget |-> d.budget, type |-> d.type,
                                          period |-> d.period, status |-> "active"]}
      BY <2>3 DEF InsertAlertIfNotExists, InsertFails, PeriodOf
    <3>2. UNCHANGED todo
      BY <2>3 DEF InsertAlertIfNotExists, InsertFails
    <3>3. \A o \in due[p] : o.type \in UsageTypes => <<o.budget, o.type, o.period>> \in met
      BY DEF Earned, FindingsMet
    <3>4. AlertsAreEarned'
      BY <1>0, <3>1, <3>3 DEF Earned, AlertsAreEarned, UsageTypes
    <3> QED
      BY <1>0, <1>2, <1>3, <3>1, <3>2, <3>3, <3>4 DEF Earned
  <2>4. CASE SkipBudget(p)
    <3>1. PICK s \in todo[p] : todo' = [todo EXCEPT ![p] = todo[p] \ {s}]
      BY <2>4 DEF SkipBudget
    <3>2. \A u \in todo[p] \ {s} : Meets(u.budget, u.row) \subseteq met
      BY DEF Earned, SnapshotsMet
    <3>3. UNCHANGED <<due, alerts>>
      BY <2>4 DEF SkipBudget
    <3> QED
      BY <1>0, <1>1, <1>4, <1>5, <3>1, <3>2, <3>3 DEF Earned
  <2>5. CASE Restart(p)
    <3>1. todo' = [todo EXCEPT ![p] = {}] /\ due' = [due EXCEPT ![p] = {}] /\ UNCHANGED alerts
      BY <2>5 DEF Restart
    <3>2. SnapshotsMet' /\ FindingsMet'
      <4>1. \A q \in Pods : todo'[q] \subseteq todo[q] /\ due'[q] \subseteq due[q]
        BY <1>0, <3>1
      <4>2. \A q \in Pods : \A s \in todo'[q] : Meets(s.budget, s.row) \subseteq met'
        BY <1>0, <4>1 DEF Earned, SnapshotsMet
      <4> QED
        BY <1>0, <4>1, <4>2 DEF Earned, SnapshotsMet, FindingsMet, Meets, Fired,
                                evalThresholdWarning, evalBudgetExhausted
    <3> QED
      BY <1>0, <1>5, <3>1, <3>2 DEF Earned
  <2> QED
    BY <1>7, <2>1, <2>2, <2>3, <2>4, <2>5 DEF CheckAndUpdateAlerts
<1>8. CASE \E b \in Budgets : Charge(b) \/ Reset(b) \/ UpdateBudget(b) \/ DeleteBudget(b)
  <2>1. UNCHANGED <<todo, due>> /\ alerts' \subseteq alerts
    BY <1>8 DEF Charge, Reset, UpdateBudget, DeleteBudget, worker
  <2> QED
    BY <1>0, <1>2, <1>4, <1>5, <2>1 DEF Earned
<1>9. CASE (\E a \in alerts : DismissAlert(a)) \/ (\E mine \in Visible : DismissAllAlerts(mine))
  <2>1. UNCHANGED <<todo, due>> /\ \E S : alerts' = Dismissed(S)
    BY <1>9 DEF DismissAlert, DismissAllAlerts, worker
  <2> QED
    BY <1>0, <1>2, <1>4, <1>6, <2>1 DEF Earned
<1>10. CASE Tick \/ UNCHANGED vars
  <2>1. UNCHANGED <<todo, due, alerts>>
    BY <1>10 DEF Tick, vars, worker
  <2> QED
    BY <1>0, <1>2, <1>4, <1>5, <2>1 DEF Earned
<1> QED
  BY <1>7, <1>8, <1>9, <1>10 DEF Next

\* An alert about usage names a period in which the budget had that usage, although
\* resets and edits overtake the pass that writes it: checkBudget takes the period from
\* the row it has evaluated.
THEOREM AlertsNameTheirPeriod == Spec => []AlertsAreEarned
<1>1. Init => Typed
  BY TypeInit
<1>2. Typed /\ [Next]_vars => Typed'
  BY TypeStep
<1>3. Init => Earned
  <2> SUFFICES ASSUME Init PROVE Earned
    OBVIOUS
  <2>1. met = UNION {Meets(b, row[b]) : b \in Budgets} /\ alerts = {}
    BY DEF Init
  <2>2. RowsMet
    BY <2>1 DEF RowsMet
  <2>3. todo = [p \in Pods |-> {}] /\ due = [p \in Pods |-> {}]
    BY DEF Init
  <2> QED
    BY <2>1, <2>2, <2>3 DEF Earned, SnapshotsMet, FindingsMet, AlertsAreEarned
<1>4. Typed /\ Earned /\ [Next]_vars => Earned'
  BY EarnedStep
<1>5. Earned => AlertsAreEarned
  BY DEF Earned
<1> QED
  BY <1>1, <1>2, <1>3, <1>4, <1>5, PTL DEF Spec

-----------------------------------------------------------------------------
(***************************************************************************)
(* The records of the period add up to no more than the usage and what the *)
(* period began with: a charge adds its cost to both, a DELETE only lowers *)
(* the sum, and a reset notes what it leaves behind in the new period.     *)
(***************************************************************************)

\* The units of a set of records can be counted.
LEMMA UnitsFinite ==
    ASSUME NEW S, IsFiniteSet(S), NEW since
    PROVE  IsFiniteSet(Units(S, since)) /\ Sum(S, since) \in Nat
<1>1. IsFiniteSet(1..MaxUsage)
  BY FS_Interval, Constants
<1>2. IsFiniteSet(S \X (1..MaxUsage))
  BY <1>1, FS_Product
<1>3. Units(S, since) \in SUBSET (S \X (1..MaxUsage))
  BY DEF Units
<1>4. IsFiniteSet(Units(S, since))
  BY <1>2, <1>3, FS_Subset
<1> QED
  BY <1>4, FS_CardinalityType DEF Sum

\* Records that are some of others and a new one have at most its cost more.
LEMMA RecordAdds ==
    ASSUME NEW S, IsFiniteSet(S), NEW r \in Records, NEW T \in SUBSET (S \cup {r}), NEW since
    PROVE  Sum(T, since) <= Sum(S, since) + r.cost
<1> DEFINE new == {r} \X (1..r.cost)
           old == Units(S, since)
<1>0. r.cost \in Nat
  BY Constants DEF Records
<1>1. IsFiniteSet(new) /\ Cardinality(new) = r.cost
  <2>1. IsFiniteSet({r}) /\ Cardinality({r}) = 1
    BY FS_Singleton
  <2>2. IsFiniteSet(1..r.cost) /\ Cardinality(1..r.cost) = r.cost
    <3> DEFINE c == r.cost
    <3>0. 1 \in Int /\ c \in Int
      BY <1>0
    <3> HIDE DEF c
    <3>1. IsFiniteSet(1..c) /\ Cardinality(1..c) = IF 1 > c THEN 0 ELSE c - 1 + 1
      BY <3>0, FS_Interval
    <3> QED
      BY <1>0, <3>1 DEF c
  <2>3. IsFiniteSet(new) /\ Cardinality(new) = Cardinality({r}) * Cardinality(1..r.cost)
    BY <2>1, <2>2, FS_Product
  <2> QED
    BY <1>0, <2>1, <2>2, <2>3
<1>2. Units(T, since) \subseteq old \cup new
  <2> SUFFICES ASSUME NEW u \in Units(T, since), u \notin old
               PROVE  u \in new
    OBVIOUS
  <2>1. /\ u \in T \X (1..MaxUsage) /\ u[1] \in T /\ u[2] \in 1..MaxUsage /\ u = <<u[1], u[2]>>
        /\ u[2] <= u[1].cost /\ u[1].at >= since
    BY DEF Units
  <2>2. u[1] = r
    BY <2>1 DEF Units
  <2>3. u[2] \in 1..r.cost
    BY <1>0, <2>1, <2>2, Constants
  <2> QED
    BY <2>1, <2>2, <2>3
<1> HIDE DEF new
<1>3. IsFiniteSet(old) /\ Cardinality(old) \in Nat /\ Cardinality(old) = Sum(S, since)
  BY UnitsFinite DEF Sum
<1> HIDE DEF old
<1>4. /\ IsFiniteSet(old \cup new) /\ Cardinality(old \cup new) \in Nat
      /\ Cardinality(old \cup new) <= Cardinality(old) + Cardinality(new)
  <2>1. /\ IsFiniteSet(old \cup new)
        /\ Cardinality(old \cup new) = Cardinality(old) + Cardinality(new) - Cardinality(old \cap new)
    BY <1>1, <1>3, FS_Union
  <2>2. Cardinality(old \cap new) \in Nat
    <3>1. IsFiniteSet(old \cap new)
      BY <1>3, FS_Subset
    <3> QED
      BY <3>1, FS_CardinalityType
  <2>3. Cardinality(old \cup new) \in Nat
    BY <2>1, FS_CardinalityType
  <2> QED
    BY <1>0, <1>1, <1>3, <2>1, <2>2, <2>3
<1>5. /\ Cardinality(Units(T, since)) <= Cardinality(old \cup new)
      /\ Cardinality(Units(T, since)) \in Nat
  BY <1>2, <1>4, FS_Subset, FS_CardinalityType
<1> QED
  BY <1>0, <1>1, <1>3, <1>4, <1>5 DEF Sum

\* No records have no units.
LEMMA NoUnits == \A since : Sum({}, since) = 0
<1>1. \A since : Units({}, since) = {}
  BY DEF Units
<1> QED
  BY <1>1, FS_EmptySet DEF Sum

Carried == carried \in [Budgets -> Nat]

\* What a period begins with is a number.
LEMMA CarriedStep ==
    ASSUME Typed, Carried, [Next]_vars
    PROVE  Carried'
<1>1. CASE \E b \in Budgets : Reset(b)
  <2>0. PICK b \in Budgets : Reset(b)
    BY <1>1
  <2>1. PICK start \in (0..now) \ periods[b] :
            carried' = [carried EXCEPT ![b] = Sum(records[b], start)]
    BY <2>0 DEF Reset
  <2>2. Sum(records[b], start) \in Nat
    BY UnitsFinite DEF Typed, RecordsTyped, RecordsKept
  <2> QED
    BY <2>1, <2>2 DEF Carried
<1>2. CASE \E b \in Budgets : DeleteBudget(b)
  BY <1>2 DEF Carried, DeleteBudget
<1>3. UNCHANGED carried \/ \E b \in Budgets : Reset(b) \/ DeleteBudget(b)
  BY DEF vars, history, Next, CheckAndUpdateAlerts, GetEnabledBudgets, EvaluateConditions,
         InsertAlertIfNotExists, InsertFails, SkipBudget, Restart, Charge, UpdateBudget,
         DismissAlert, DismissAllAlerts, Tick
<1> QED
  BY <1>1, <1>2, <1>3 DEF Carried

\* A step keeps the sum of the records of one budget below its usage and what was carried.
LEMMA WithinStep ==
    ASSUME Typed, Carried, [Next]_vars, NEW b \in Budgets,
           Sum(records[b], row[b].start) <= row[b].usage + carried[b]
    PROVE  Sum(records'[b], row'[b].start) <= row'[b].usage + carried'[b]
<1>0. /\ row \in [Budgets -> Rows] /\ row[b] \in Rows /\ records \in [Budgets -> SUBSET Records]
      /\ RecordsKept(records[b], now) /\ now \in Nat /\ carried[b] \in Nat
      /\ carried \in [Budgets -> Nat]
  BY Constants DEF Typed, RowsTyped, RecordsTyped, Carried
<1>1. CASE row'[b] = row[b] /\ records'[b] = records[b] /\ carried'[b] = carried[b]
  BY <1>1
<1>2. CASE Charge(b)
  <2>1. PICK cost \in Costs, at \in {t \in 0..now : now <= t + MaxLag},
             unseen \in SUBSET records[b] :
          LET new == [id |-> CHOOSE i \in FreeIds(b) : TRUE, at |-> at, cost |-> cost]
              visible == (records[b] \ unseen) \cup {new}
          IN  /\ SetRow(b, [row[b] EXCEPT !.usage = @ + cost])
              /\ \E kept \in SUBSET visible :
                    records' = [records EXCEPT ![b] = unseen \cup kept]
    BY <1>2 DEF Charge
  <2> DEFINE r == [id |-> CHOOSE i \in FreeIds(b) : TRUE, at |-> at, cost |-> cost]
             visible == (records[b] \ unseen) \cup {r}
             T == records'[b]
             since == row[b].start
  <2>2. row'[b].start = row[b].start /\ row'[b].usage = row[b].usage + cost
    BY <1>0, <2>1 DEF SetRow, Rows
  <2>3. UNCHANGED carried
    BY <1>2 DEF Charge, history
  <2>4. r \in Records /\ r.cost = cost /\ cost \in Nat
    <3>1. at \in Nat
      BY <1>0
    <3>2. FreeIds(b) # {}
      BY <1>2 DEF Charge
    <3> QED
      BY <3>1, <3>2, NewRecord, Constants
  <2>5. \E kept \in SUBSET visible : records' = [records EXCEPT ![b] = unseen \cup kept]
    BY <2>1
  <2> HIDE DEF r
  <2>6. T \in SUBSET (records[b] \cup {r})
    BY <1>0, <2>5
  <2>7. IsFiniteSet(records[b]) /\ IsFiniteSet(T)
    <3>1. IsFiniteSet(records[b]) /\ IsFiniteSet({r})
      BY <1>0, FS_Singleton DEF RecordsKept
    <3>2. IsFiniteSet(records[b] \cup {r})
      BY <3>1, FS_Union
    <3> QED
      BY <2>6, <3>1, <3>2, FS_Subset
  <2> HIDE DEF T, since
  <2>8. Sum(T, since) <= Sum(records[b], since) + cost
    BY <2>4, <2>6, <2>7, RecordAdds
  <2>9. Sum(T, since) \in Nat /\ Sum(records[b], since) \in Nat
    BY <2>7, UnitsFinite
  <2>10. row[b].usage \in Nat /\ Sum(records[b], since) <= row[b].usage + carried[b]
    BY <1>0, Constants DEF Rows, since
  <2>11. Sum(T, since) <= (row[b].usage + cost) + carried[b]
    BY <1>0, <2>4, <2>8, <2>9, <2>10
  <2> QED
    BY <2>2, <2>3, <2>11 DEF T, since
<1>3. CASE Reset(b)
  <2>1. PICK start \in (0..now) \ periods[b] :
          /\ row' = [row EXCEPT ![b] = [row[b] EXCEPT !.usage = 0, !.start = start]]
          /\ carried' = [carried EXCEPT ![b] = Sum(records[b], start)]
          /\ UNCHANGED records
    BY <1>3 DEF Reset, SetRow
  <2>2. row'[b].usage = 0 /\ row'[b].start = start
    BY <1>0, <2>1 DEF Rows
  <2>3. carried'[b] = Sum(records[b], start) /\ Sum(records[b], start) \in Nat
    BY <1>0, <2>1, UnitsFinite DEF RecordsKept
  <2> QED
    BY <2>1, <2>2, <2>3
<1>4. CASE UpdateBudget(b)
  <2>1. PICK a \in Amounts, e \in BOOLEAN :
            row' = [row EXCEPT ![b] = [row[b] EXCEPT !.amount = a, !.enabled = e]]
    BY <1>4 DEF UpdateBudget, SetRow
  <2>2. row'[b].usage = row[b].usage /\ row'[b].start = row[b].start
    BY <1>0, <2>1 DEF Rows
  <2>3. UNCHANGED <<records, carried>>
    BY <1>4 DEF UpdateBudget, history
  <2> QED
    BY <2>2, <2>3
<1>5. CASE DeleteBudget(b)
  <2>1. /\ row' = [row EXCEPT ![b] = NoRow] /\ records' = [records EXCEPT ![b] = {}]
        /\ carried' = [carried EXCEPT ![b] = 0]
    BY <1>5 DEF DeleteBudget
  <2>2. NoRow.usage = 0
    BY NoRowType
  <2> HIDE DEF NoRow
  <2>3. records'[b] = {} /\ row'[b].usage = 0 /\ carried'[b] = 0
    BY <1>0, <2>1, <2>2
  <2>4. Sum(records'[b], row'[b].start) = 0
    BY <2>3, NoUnits
  <2> QED
    BY <2>3, <2>4
<1>6. \/ row'[b] = row[b] /\ records'[b] = records[b] /\ carried'[b] = carried[b]
      \/ Charge(b) \/ Reset(b) \/ UpdateBudget(b) \/ DeleteBudget(b)
  <2>1. CASE UNCHANGED <<row, records, carried>>
    BY <2>1
  <2>2. CASE \E c \in Budgets : Charge(c) \/ Reset(c) \/ UpdateBudget(c) \/ DeleteBudget(c)
    <3>1. PICK c \in Budgets : Charge(c) \/ Reset(c) \/ UpdateBudget(c) \/ DeleteBudget(c)
      BY <2>2
    <3>2. /\ \E r : row' = [row EXCEPT ![c] = r]
          /\ records' = records \/ \E s : records' = [records EXCEPT ![c] = s]
          /\ carried' = carried \/ \E n : carried' = [carried EXCEPT ![c] = n]
      BY <3>1 DEF Charge, Reset, UpdateBudget, DeleteBudget, SetRow, history
    <3>3. CASE c # b
      BY <1>0, <3>2, <3>3
    <3> QED
      BY <3>1, <3>3
  <2>3. \/ UNCHANGED <<row, records, carried>>
        \/ \E c \in Budgets : Charge(c) \/ Reset(c) \/ UpdateBudget(c) \/ DeleteBudget(c)
    BY DEF vars, history, Next, CheckAndUpdateAlerts, GetEnabledBudgets, EvaluateConditions,
           InsertAlertIfNotExists, InsertFails, SkipBudget, Restart, DismissAlert,
           DismissAllAlerts, Tick
  <2> QED
    BY <2>1, <2>2, <2>3
<1> QED
  BY <1>1, <1>2, <1>3, <1>4, <1>5, <1>6

\* The usage that the burn rate is computed from never exceeds what the budget has been
\* charged in its period and what a reset that waited for a charge left in it: however
\* many records CreateUsageRecordInTx prunes, and in whichever order clocks and commits
\* put charges and resets.
THEOREM BurnRateIsOfThePeriod == Spec => []RecordsWithinUsage
<1> DEFINE Within ==
        \A b \in Budgets : Sum(records[b], row[b].start) <= row[b].usage + carried[b]
<1>1. Init => Typed
  BY TypeInit
<1>2. Typed /\ [Next]_vars => Typed'
  BY TypeStep
<1>3. Init => Carried /\ Within
  <2> SUFFICES ASSUME Init PROVE Carried /\ Within
    OBVIOUS
  <2>1. Carried
    BY DEF Init, Carried
  <2>2. ASSUME NEW b \in Budgets
        PROVE  Sum(records[b], row[b].start) <= row[b].usage + carried[b]
    <3>1. records[b] = {} /\ row[b].usage = 0 /\ carried[b] = 0
      BY DEF Init
    <3>2. Sum(records[b], row[b].start) = 0
      BY <3>1, NoUnits
    <3> QED
      BY <3>1, <3>2
  <2> QED
    BY <2>1, <2>2
<1>4. Typed /\ Carried /\ Within /\ [Next]_vars => Carried' /\ Within'
  BY CarriedStep, WithinStep DEF Sum, Units
<1>5. Within => RecordsWithinUsage
  BY DEF RecordsWithinUsage, GetCurrentPeriodUsage
<1> QED
  BY <1>1, <1>2, <1>3, <1>4, <1>5, PTL DEF Spec
===============================================================================
