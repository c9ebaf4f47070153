---------------------------- MODULE BudgetLedger ----------------------------
(***************************************************************************)
(* The budget ledger: the two-phase enforcement of internal/budget over    *)
(* the tables budget_definitions and request_reservations, as the streams  *)
(* of extproc-budget, the cleanup and period-reset workers of every pod    *)
(* and the management API's reset drive it.                                *)
(*                                                                         *)
(*  - before a request is forwarded, CheckAndReserveBudget compares every  *)
(*    matching budget with the estimated cost and, in the same             *)
(*    transaction, inserts one reservation per matching budget and adds    *)
(*    the estimate to its pending usage;                                   *)
(*  - at the end of the response, DecrementBudgets looks the reservation   *)
(*    up, reads the budget's ancestors, and in a transaction of its own    *)
(*    charges the actual cost along that chain and releases the hold;      *)
(*  - CleanupExpiredReservations deletes reservations whose response       *)
(*    never came, with three separate statements;                          *)
(*  - a period reset zeroes a budget's usage and pending usage.            *)
(*                                                                         *)
(* A transaction that holds the rows it reads (SELECT ... FOR UPDATE, or   *)
(* an UPDATE) is one step; statements outside a transaction, and the       *)
(* statements of the cleanup, are steps of their own.  Money is counted    *)
(* in whole units of the smallest price that matters.                      *)
(***************************************************************************)
EXTENDS Integers, FiniteSets

CONSTANTS
    Budgets,        \* rows of budget_definitions
    NoBudget,       \* a NULL parent_id
    Parent,         \* parent_id of each budget, or NoBudget
    Level,          \* entity_type: 1 user, 2 team, 3 org
    Name,           \* rank of each budget's name
    Isolated,       \* budgets with isolated = true
    AllowFallback,  \* budgets with allow_fallback = true
    Amount,         \* budget_amount_usd
    Requests,       \* request ids
    Matches,        \* the enabled, approved budgets whose expression each request satisfies
    Est,            \* EstimateCost of each request
    Costs,          \* actual costs a response may turn out to have
    Slow,           \* requests that may still be running when RESERVATION_TTL has passed
    Cleaners,       \* pods running the cleanup worker
    MaxEst,         \* bound: no estimate is larger
    MaxAttempts,    \* bound: how often each request id is sent again
    MaxPeriods,     \* bound: resets of one budget
    MaxCrashes      \* bound: cleanup passes that are cut short

ASSUME HierarchyAssumption ==
    /\ IsFiniteSet(Budgets) /\ NoBudget \notin Budgets
    /\ Level \in [Budgets -> 1..3]
    /\ Parent \in [Budgets -> Budgets \cup {NoBudget}]
    /\ \A b \in Budgets : Parent[b] # NoBudget => Level[Parent[b]] > Level[b]
    /\ Isolated \subseteq Budgets /\ AllowFallback \subseteq Budgets
    /\ Amount \in [Budgets -> Nat]
    /\ Name \in [Budgets -> Nat]
    /\ \A a, b \in Budgets : Name[a] = Name[b] => a = b

ASSUME RequestAssumption ==
    /\ IsFiniteSet(Requests) /\ IsFiniteSet(Cleaners)
    /\ MaxEst \in Nat
    /\ Matches \in [Requests -> SUBSET Budgets]
    /\ Est \in [Requests -> 0..MaxEst]
    /\ Costs \subseteq Nat /\ Slow \subseteq Requests
    /\ MaxAttempts \in [Requests -> Nat] /\ MaxPeriods \in Nat /\ MaxCrashes \in Nat

VARIABLES
    usage,      \* current_usage_usd of each budget
    pending,    \* pending_usage_usd of each budget
    rsv,        \* request_reservations: the requests holding a row on each budget
    expired,    \* requests whose rows are past expires_at
    period,     \* how often each budget has been reset
    pc,         \* where the stream of each request stands
    attempts,   \* how often each request id has been sent again
    cost,       \* DecrementBudgets: the actual cost
    first,      \* DecrementBudgets: budget of the reservation it found
    seen,       \* DecrementBudgets: usages of the hierarchy as it read them
    chain,      \* DecrementBudgets: the budgets of the hierarchy that arrived
    wpc,        \* where the cleanup pass of each pod stands
    sel,        \* the expired rows each cleanup pass has summed up
    todo,       \* budgets whose pending usage a cleanup pass has yet to lower
    crashes,    \* cleanup passes cut short so far
    exposed     \* history: budgets on which one of the causes named below occurred

ledger  == <<usage, pending, rsv, expired, period>>
streams == <<pc, attempts, cost, first, seen, chain>>
workers == <<wpc, sel, todo, crashes>>
vars    == <<ledger, streams, workers, exposed>>

PCs == {"new", "admitted", "found", "read", "charged", "uncharged",
        "denied", "error", "aborted"}

InFlight == {"admitted", "found", "read"}

Ended == {"charged", "uncharged", "denied", "error", "aborted"}

(***************************************************************************)
(* Sums of estimates.  Tokens(S) has one element per unit of money         *)
(* estimated for the requests in S, so its cardinality is SUM(estimate).   *)
(***************************************************************************)
Tokens(S) == {t \in S \X (1..MaxEst) : t[2] <= Est[t[1]]}

Reserved(S) == Cardinality(Tokens(S))

\* Mutation of Greatest0: a plain subtraction in the UPDATE.
Greatest0NotClipped(n) == n

\* GREATEST(0, n) of the SQL updates.
Greatest0(n) == IF n > 0 THEN n ELSE 0

(***************************************************************************)
(* The admission check.                                                    *)
(***************************************************************************)
\* Mutation of CalculateRemaining: holds of other requests are not counted.
CalculateRemainingWithoutHolds(b) == Amount[b] - usage[b]

CalculateRemaining(b) == Amount[b] - usage[b] - pending[b]

\* Mutation of Exceeded: any remaining amount admits any estimate.
ExceededOnlyWhenEmpty(r, b) == CalculateRemaining(b) <= 0

Exceeded(r, b) == CalculateRemaining(b) < Est[r]

\* An exhausted budget that may fall back: its parent matched too and fits.
FallsBack(r, b, matched) ==
    /\ b \in AllowFallback
    /\ Parent[b] \in matched
    /\ ~Exceeded(r, Parent[b])

\* The budgets at which the check loop of CheckAndReserveBudget denies r.
RateLimited(r, matched) ==
    {b \in matched : Exceeded(r, b) /\ ~FallsBack(r, b, matched)}

(***************************************************************************)
(* The bucket fill of DecrementBudgets along f, its parent and its         *)
(* grandparent (levels rise strictly, so a chain has at most one budget    *)
(* per entity type).  A non-isolated child takes what it has room for by   *)
(* the usages u that were read; anything else takes all that is left; an   *)
(* isolated budget's charge is not subtracted from what is left.           *)
(***************************************************************************)
ParentOf(b) == IF b \in Budgets THEN Parent[b] ELSE NoBudget

\* Mutation of Fill: the budget at the top of the chain is capped as well.
FillCapsRoot(b, left, u) ==
    IF b \notin Budgets THEN 0
    ELSE IF b \notin Isolated /\ left > Greatest0(Amount[b] - u[b])
         THEN Greatest0(Amount[b] - u[b])
         ELSE left

Fill(b, left, u) ==
    IF b \notin Budgets THEN 0
    ELSE IF b \notin Isolated /\ Parent[b] # NoBudget /\ left > Greatest0(Amount[b] - u[b])
         THEN Greatest0(Amount[b] - u[b])
         ELSE left

LeftAfter(b, left, u) == IF b \in Isolated THEN left ELSE left - Fill(b, left, u)

Charges(f, total, u) ==
    LET p     == ParentOf(f)
        left1 == LeftAfter(f, total, u)
        left2 == LeftAfter(p, left1, u)
    IN  [b \in Budgets |->
            CASE b = f           -> Fill(f, total, u)
              [] b = p           -> Fill(p, left1, u)
              [] b = ParentOf(p) -> Fill(b, left2, u)
              [] OTHER           -> 0]

\* The budgets a charge that starts at f is spread over.
ChainOf(f) == {f, ParentOf(f), ParentOf(ParentOf(f))} \cap Budgets

\* What the charging transaction of r adds to each budget: those that did not
\* arrive are not charged, and nobody takes their share.
ChargesOf(r) ==
    [b \in Budgets |-> IF b \in chain[r] THEN Charges(first[r], cost[r], seen[r])[b] ELSE 0]

\* The row GetReservationByRequestID returns: rows are inserted in the order of
\* sortBudgetsByHierarchy over a list sorted by name.
InsertedFirst(b, rows) ==
    \A a \in rows : Level[b] < Level[a] \/ (Level[b] = Level[a] /\ Name[b] <= Name[a])

RowsOf(r) == {b \in Budgets : r \in rsv[b]}

-----------------------------------------------------------------------------
(***************************************************************************)
(* The history variable: what can make a budget spend beyond its amount.   *)
(***************************************************************************)
\* The check let r through although b is exhausted, because b falls back.
Overdrawn(r) == {b \in Matches[r] : Exceeded(r, b)}

\* A charge beyond what r still holds on b: a cost above the estimate, an
\* ancestor that did not match, or a hold that was cleaned up since it was found.
Uncovered(r, charge) ==
    {b \in Budgets : charge[b] > (IF r \in rsv[b] THEN Est[r] ELSE 0)}

\* The release of a hold that is no longer there.
Unheld(r) == {first[r]} \ RowsOf(r)

\* A cleanup pass will release rows that someone else has deleted meanwhile.
SelectedByOthers(c) == {b \in Budgets : ~(sel[c][b] \subseteq rsv[b] \cap expired)}

\* Requests still holding b, and cleanup passes that still owe it a release.
InUse(b) == rsv[b] # {} \/ \E c \in Cleaners : b \in todo[c]

-----------------------------------------------------------------------------
Init ==
    /\ usage = [b \in Budgets |-> 0]
    /\ pending = [b \in Budgets |-> 0]
    /\ rsv = [b \in Budgets |-> {}]
    /\ expired = {}
    /\ period = [b \in Budgets |-> 0]
    /\ pc = [r \in Requests |-> "new"]
    /\ attempts = [r \in Requests |-> 0]
    /\ cost = [r \in Requests |-> 0]
    /\ first = [r \in Requests |-> NoBudget]
    /\ seen = [r \in Requests |-> [b \in Budgets |-> 0]]
    /\ chain = [r \in Requests |-> {}]
    /\ wpc = [c \in Cleaners |-> "idle"]
    /\ sel = [c \in Cleaners |-> [b \in Budgets |-> {}]]
    /\ todo = [c \in Cleaners |-> {}]
    /\ crashes = 0
    /\ exposed = {}

Goto(r, label) == pc' = [pc EXCEPT ![r] = label]

(***************************************************************************)
(* CheckAndReserveBudget, under the row locks of GetEnabledBudgetsForUpdate *)
(***************************************************************************)
\* What the locking read may bring: the rows from org down to user, all of them
\* or, when it fails part way (a deadlock victim, a lost connection), the first
\* ones only: GetEnabledBudgetsForUpdate does not look at rows.Err().
Arrivals ==
    {S \in SUBSET Budgets : \A b \in S, a \in Budgets : Level[a] > Level[b] => a \in S}

\* Nothing that arrived matches: the request is allowed and nothing is reserved.
AllowUnmatched(r) ==
    /\ pc[r] = "new"
    /\ \E arrived \in Arrivals : Matches[r] \cap arrived = {}
    /\ Goto(r, "admitted")
    /\ UNCHANGED <<ledger, attempts, cost, first, seen, chain, workers, exposed>>

Deny(r) ==
    /\ pc[r] = "new"
    /\ RateLimited(r, Matches[r]) # {}
    /\ Goto(r, "denied")
    /\ UNCHANGED <<ledger, attempts, cost, first, seen, chain, workers, exposed>>

\* A row of the same request id is still there: the insert breaks
\* UNIQUE (budget_id, request_id), the transaction is aborted, Commit fails.
RejectDuplicate(r) ==
    /\ pc[r] = "new"
    /\ RateLimited(r, Matches[r]) = {}
    /\ \E b \in Matches[r] : r \in rsv[b]
    /\ Goto(r, "error")
    /\ UNCHANGED <<ledger, attempts, cost, first, seen, chain, workers, exposed>>

\* Mutation of Reserve: the pending usage of the innermost budget only is raised.
ReserveInnermost(r) ==
    /\ pc[r] = "new"
    /\ Matches[r] # {}
    /\ RateLimited(r, Matches[r]) = {}
    /\ \A b \in Matches[r] : r \notin rsv[b]
    /\ rsv' = [b \in Budgets |-> IF b \in Matches[r] THEN rsv[b] \cup {r} ELSE rsv[b]]
    /\ pending' = [b \in Budgets |->
                      IF b \in Matches[r] /\ InsertedFirst(b, Matches[r])
                      THEN pending[b] + Est[r] ELSE pending[b]]
    /\ exposed' = exposed \cup Overdrawn(r)
    /\ Goto(r, "admitted")
    /\ UNCHANGED <<usage, expired, period, attempts, cost, first, seen, chain, workers>>

Reserve(r) ==
    /\ pc[r] = "new"
    /\ Matches[r] # {}
    /\ RateLimited(r, Matches[r]) = {}
    /\ \A b \in Matches[r] : r \notin rsv[b]
    /\ rsv' = [b \in Budgets |-> IF b \in Matches[r] THEN rsv[b] \cup {r} ELSE rsv[b]]
    /\ pending' = [b \in Budgets |->
                      IF b \in Matches[r] THEN pending[b] + Est[r] ELSE pending[b]]
    /\ exposed' = exposed \cup Overdrawn(r)
    /\ Goto(r, "admitted")
    /\ UNCHANGED <<usage, expired, period, attempts, cost, first, seen, chain, workers>>

\* The locking read fails part way, after rows that match: the request is
\* denied by them, or the inserts fail in the aborted transaction.
CheckInterrupted(r) ==
    /\ pc[r] = "new"
    /\ \E arrived \in Arrivals :
          LET matched == Matches[r] \cap arrived
          IN  /\ matched # {}
              /\ Goto(r, IF RateLimited(r, matched) # {} THEN "denied" ELSE "error")
    /\ UNCHANGED <<ledger, attempts, cost, first, seen, chain, workers, exposed>>

CheckAndReserveBudget(r) ==
    \/ AllowUnmatched(r)
    \/ Deny(r)
    \/ RejectDuplicate(r)
    \/ Reserve(r)
    \/ CheckInterrupted(r)

(***************************************************************************)
(* DecrementBudgets, at the end of the response: two reads outside any     *)
(* transaction, then the charging transaction.                             *)
(***************************************************************************)
ReservationNotFound(r) ==
    /\ pc[r] = "admitted"
    /\ RowsOf(r) = {}
    /\ Goto(r, "uncharged")
    /\ UNCHANGED <<ledger, attempts, cost, first, seen, chain, workers, exposed>>

GetReservation(r) ==
    /\ pc[r] = "admitted"
    /\ \E b \in RowsOf(r), actual \in Costs :
          /\ InsertedFirst(b, RowsOf(r))
          /\ first' = [first EXCEPT ![r] = b]
          /\ cost' = [cost EXCEPT ![r] = actual]
    /\ Goto(r, "found")
    /\ UNCHANGED <<ledger, attempts, seen, chain, workers, exposed>>

\* The rows come from the found budget upwards.  As with the locking read,
\* nobody looks at rows.Err(): a read cut short ends with the rows that arrived,
\* possibly none, and no error.
GetBudgetsWithParent(r) ==
    /\ pc[r] = "found"
    /\ \E arrived \in SUBSET ChainOf(first[r]) :
          /\ \A b \in arrived, a \in ChainOf(first[r]) : Level[a] < Level[b] => a \in arrived
          /\ chain' = [chain EXCEPT ![r] = arrived]
          /\ seen' = [seen EXCEPT ![r] = [b \in Budgets |-> IF b \in arrived THEN usage[b] ELSE 0]]
    /\ Goto(r, "read")
    /\ UNCHANGED <<ledger, attempts, cost, first, workers, exposed>>

\* Mutation of ChargeAndRelease: the hold is released but its rows stay.
ChargeKeepsRows(r) ==
    /\ pc[r] = "read"
    /\ LET charge == ChargesOf(r)
       IN  /\ usage' = [b \in Budgets |-> usage[b] + charge[b]]
           /\ exposed' = exposed \cup Uncovered(r, charge) \cup Unheld(r)
    /\ pending' = [b \in Budgets |->
                      IF b = first[r] THEN Greatest0(pending[b] - Est[r]) ELSE pending[b]]
    /\ pc' = [pc EXCEPT ![r] = "charged"]
    /\ cost' = [cost EXCEPT ![r] = 0]
    /\ first' = [first EXCEPT ![r] = NoBudget]
    /\ seen' = [seen EXCEPT ![r] = [b \in Budgets |-> 0]]
    /\ chain' = [chain EXCEPT ![r] = {}]
    /\ UNCHANGED <<rsv, expired, period, attempts, workers>>

\* Charges the chain by the usages read earlier, deletes every row of the
\* request, but lowers the pending usage of the found row's budget only.
ChargeAndRelease(r) ==
    /\ pc[r] = "read"
    /\ LET charge == ChargesOf(r)
       IN  /\ usage' = [b \in Budgets |-> usage[b] + charge[b]]
           /\ exposed' = exposed \cup Uncovered(r, charge) \cup Unheld(r)
    /\ rsv' = [b \in Budgets |-> rsv[b] \ {r}]
    /\ expired' = expired \ {r}
    /\ pending' = [b \in Budgets |->
                      IF b = first[r] THEN Greatest0(pending[b] - Est[r]) ELSE pending[b]]
    /\ pc' = [pc EXCEPT ![r] = "charged"]
    /\ cost' = [cost EXCEPT ![r] = 0]
    /\ first' = [first EXCEPT ![r] = NoBudget]
    /\ seen' = [seen EXCEPT ![r] = [b \in Budgets |-> 0]]
    /\ chain' = [chain EXCEPT ![r] = {}]
    /\ UNCHANGED <<period, attempts, workers>>

\* The stream ends without its charge: the client or the upstream goes away,
\* the pod stops, or DecrementBudgets fails and rolls back.
Abort(r) ==
    /\ pc[r] \in InFlight
    /\ pc' = [pc EXCEPT ![r] = "aborted"]
    /\ cost' = [cost EXCEPT ![r] = 0]
    /\ first' = [first EXCEPT ![r] = NoBudget]
    /\ seen' = [seen EXCEPT ![r] = [b \in Budgets |-> 0]]
    /\ chain' = [chain EXCEPT ![r] = {}]
    /\ UNCHANGED <<ledger, attempts, workers, exposed>>

\* The gateway or the client sends the same x-request-id again.
Retry(r) ==
    /\ pc[r] \in Ended
    /\ attempts[r] < MaxAttempts[r]
    /\ attempts' = [attempts EXCEPT ![r] = @ + 1]
    /\ Goto(r, "new")
    /\ UNCHANGED <<ledger, cost, first, seen, chain, workers, exposed>>

(***************************************************************************)
(* The clock, the cleanup worker of each pod, and the period reset.        *)
(***************************************************************************)
\* RESERVATION_TTL passes for the rows of r.
Expire(r) ==
    /\ RowsOf(r) # {} /\ r \notin expired
    /\ pc[r] \in InFlight => r \in Slow
    /\ expired' = expired \cup {r}
    /\ UNCHANGED <<usage, pending, rsv, period, streams, workers, exposed>>

SelectExpired(c) ==
    /\ wpc[c] = "idle"
    /\ wpc' = [wpc EXCEPT ![c] = "selected"]
    /\ sel' = [sel EXCEPT ![c] = [b \in Budgets |-> rsv[b] \cap expired]]
    /\ UNCHANGED <<ledger, streams, todo, crashes, exposed>>

\* Mutation of DeleteExpired: the pass releases the holds and forgets the DELETE.
DeleteNothing(c) ==
    LET owed == {b \in Budgets : sel[c][b] # {}}
    IN  /\ wpc[c] = "selected"
        /\ todo' = [todo EXCEPT ![c] = owed]
        /\ wpc' = [wpc EXCEPT ![c] = IF owed = {} THEN "idle" ELSE "deleted"]
        /\ UNCHANGED <<ledger, streams, sel, crashes, exposed>>

\* The DELETE evaluates NOW() again: it takes the rows expired by now.
DeleteExpired(c) ==
    LET owed == {b \in Budgets : sel[c][b] # {}}
    IN  /\ wpc[c] = "selected"
        /\ rsv' = [b \in Budgets |-> rsv[b] \ expired]
        /\ expired' = {}
        /\ todo' = [todo EXCEPT ![c] = owed]
        /\ wpc' = [wpc EXCEPT ![c] = IF owed = {} THEN "idle" ELSE "deleted"]
        /\ exposed' = exposed \cup SelectedByOthers(c)
        /\ UNCHANGED <<usage, pending, period, streams, sel, crashes>>

\* One UPDATE per budget, by the sum the SELECT returned.
ReleasePending(c) ==
    /\ wpc[c] = "deleted"
    /\ \E b \in todo[c] :
          /\ pending' = [pending EXCEPT ![b] = Greatest0(@ - Reserved(sel[c][b]))]
          /\ todo' = [todo EXCEPT ![c] = @ \ {b}]
          /\ wpc' = [wpc EXCEPT ![c] = IF todo[c] = {b} THEN "idle" ELSE "deleted"]
          /\ sel' = [sel EXCEPT ![c][b] = {}]
    /\ UNCHANGED <<usage, rsv, expired, period, streams, crashes, exposed>>

\* A statement of the pass fails, or the pod stops: the rest is not done.
CleanupCutShort(c) ==
    /\ wpc[c] # "idle"
    /\ crashes < MaxCrashes
    /\ crashes' = crashes + 1
    /\ wpc' = [wpc EXCEPT ![c] = "idle"]
    /\ sel' = [sel EXCEPT ![c] = [b \in Budgets |-> {}]]
    /\ todo' = [todo EXCEPT ![c] = {}]
    /\ UNCHANGED <<ledger, streams, exposed>>

\* ResetExpiredBudgets, or ResetBudget of the management API: the rows of
\* request_reservations stay.
ResetBudgetUsage(b) ==
    /\ period[b] < MaxPeriods
    /\ period' = [period EXCEPT ![b] = @ + 1]
    /\ usage' = [usage EXCEPT ![b] = 0]
    /\ pending' = [pending EXCEPT ![b] = 0]
    /\ exposed' = IF InUse(b) THEN exposed \cup {b} ELSE exposed \ {b}
    /\ UNCHANGED <<rsv, expired, streams, workers>>

Stream(r) ==
    \/ CheckAndReserveBudget(r)
    \/ ReservationNotFound(r)
    \/ GetReservation(r)
    \/ GetBudgetsWithParent(r)
    \/ ChargeAndRelease(r)
    \/ Abort(r)
    \/ Retry(r)
    \/ Expire(r)

Cleanup(c) ==
    \/ SelectExpired(c)
    \/ DeleteExpired(c)
    \/ ReleasePending(c)
    \/ CleanupCutShort(c)

Next ==
    \/ \E r \in Requests : Stream(r)
    \/ \E c \in Cleaners : Cleanup(c)
    \/ \E b \in Budgets : ResetBudgetUsage(b)

Spec == Init /\ [][Next]_vars

\* Time passes, and a pod that is up keeps running its cleanup pass.
FairSpec ==
    /\ Spec
    /\ \A r \in Requests : WF_vars(Expire(r))
    /\ \A c \in Cleaners : WF_vars(SelectExpired(c) \/ DeleteExpired(c) \/ ReleasePending(c))
-----------------------------------------------------------------------------
(***************************************************************************)
(* Properties.                                                             *)
(***************************************************************************)
\* Every column keeps its type; pending usage never goes below zero although
\* three different writers subtract from it.
TypeOK ==
    /\ usage \in [Budgets -> Nat]
    /\ pending \in [Budgets -> Nat]
    /\ rsv \in [Budgets -> SUBSET Requests]
    /\ expired \subseteq Requests
    /\ period \in [Budgets -> 0..MaxPeriods]
    /\ pc \in [Requests -> PCs]
    /\ attempts \in [Requests -> Nat]
    /\ \A r \in Requests : attempts[r] <= MaxAttempts[r]
    /\ cost \in [Requests -> Nat]
    /\ first \in [Requests -> Budgets \cup {NoBudget}]
    /\ \A r \in Requests : pc[r] \in {"found", "read"} => first[r] \in Budgets
    /\ seen \in [Requests -> [Budgets -> Nat]]
    /\ chain \in [Requests -> SUBSET Budgets]
    /\ wpc \in [Cleaners -> {"idle", "selected", "deleted"}]
    /\ sel \in [Cleaners -> [Budgets -> SUBSET Requests]]
    /\ todo \in [Cleaners -> SUBSET Budgets]
    /\ \A c \in Cleaners : wpc[c] # "deleted" => todo[c] = {}
    /\ crashes \in 0..MaxCrashes
    /\ exposed \subseteq Budgets

\* What cleanup passes have yet to take off pending[b] for rows already deleted:
\* one element per pass and unit of money.
OwedBy(passes, rows) == UNION {{c} \X Tokens(rows[c]) : c \in passes}

Owed(b) == OwedBy({c \in Cleaners : b \in todo[c]}, [c \in Cleaners |-> sel[c][b]])

\* The hold is never under-counted: unless one of the named causes has occurred
\* on b in this period, pending_usage_usd covers every live reservation of b and
\* everything a running cleanup pass will still subtract from it.
PendingCoversHolds ==
    \A b \in Budgets \ exposed : Reserved(rsv[b]) + Cardinality(Owed(b)) <= pending[b]

\* Unless one of the named causes has occurred on b in this period, what was
\* charged to b and what is still held on b fit into its amount together: the
\* double spending that check-and-reserve is there to prevent.  Interleavings
\* of checks, charges, late responses, two cleanup workers and resets included.
NoOverspend ==
    \A b \in Budgets \ exposed : usage[b] + Reserved(rsv[b]) <= Amount[b]

\* What the chain of f takes in all, and whether every cost is counted once on it.
ChainTotal(f, charge) ==
    LET At(b) == IF b \in Budgets THEN charge[b] ELSE 0
    IN  At(f) + At(ParentOf(f)) + At(ParentOf(ParentOf(f)))

SharedChain(f) == ChainOf(f) \cap Isolated = {}

\* The bucket fill, however stale the usages it was computed from.  The charging
\* transaction adds at least the request's cost to the chain of the reservation
\* it found, unless the read of that chain was cut short: that read is the only
\* way a cost, or part of it, is charged to nobody.  When no budget there is
\* isolated, the chain never takes more than the cost, however much of it arrived.
BucketFillConserves ==
    [][\A r \in Requests :
          pc[r] = "read" /\ pc'[r] = "charged" =>
             LET taken == ChainTotal(first[r], [b \in Budgets |-> usage'[b] - usage[b]])
             IN  /\ chain[r] = ChainOf(first[r]) => taken >= cost[r]
                 /\ SharedChain(first[r]) => taken <= cost[r]]_vars

\* A reservation whose response never arrives does not stay for ever: time
\* passes and some cleanup pass deletes it (or the late response does).
HoldsAreReleased ==
    \A r \in Requests : RowsOf(r) # {} ~> RowsOf(r) = {}

(***************************************************************************)
(* What the documentation says and the code does not do.                   *)
(***************************************************************************)
\* docs/DESIGN.md: pending_usage_usd "is the sum of all active reservations for
\* that budget" (between two cleanup passes).
PendingIsSum ==
    (\A c \in Cleaners : wpc[c] # "deleted") =>
        \A b \in Budgets : pending[b] = Reserved(rsv[b])

\* docs/ARCH.md: "if isolated=true on a child budget, the parent is not charged
\* even when the child matches".
IsolatedNotRolledUp ==
    [][\A r \in Requests :
          pc[r] = "read" /\ pc'[r] = "charged" /\ first[r] \in Isolated
             => \A b \in Budgets \ {first[r]} : usage'[b] = usage[b]]_vars
=============================================================================
