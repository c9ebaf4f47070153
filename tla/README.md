# Quota management: TLA+ models, checks and proofs

This directory specifies the parts of quota-management in which several
processes share state: the budget ledger, the streams of the two ext-proc
services, the approval workflow and the administration of budgets, the rate
limit allocations, the prices and their cache, and the alerts. Each module is
translated from the Go code and the SQL it runs; TLC checks small instances, and
TLAPS proves every safety property that the passing runs check for every
instance, one of them (`SplitsDoNotMatter`) under a condition on the parser that the
theorem states.

## The system

Three services share one PostgreSQL database.

* **extproc-budget** is called by the gateway on a gRPC stream for every request
  to a model. It checks and reserves budget before the request is forwarded and
  charges the actual cost at the end of the response. It also runs the
  background workers: cleanup of expired reservations, and period resets.
* **extproc-ratelimit** looks up the allocations of a team and injects the
  limits as metadata; the gateway enforces them.
* **quota-management** (cmd/ui) is the REST API and the UI: budgets, prices,
  allocations, approvals, alerts, audit.

### Inventory

| Component | State | Operations that change it | What makes it correct |
|---|---|---|---|
| Budget ledger (`internal/budget/service.go`, `internal/db/repository.go`, workers in `cmd/extproc-budget/main.go`) | `current_usage_usd`, `pending_usage_usd` of `budget_definitions`; `request_reservations`; `usage_records` | `CheckAndReserveBudget`, `DecrementBudgets`, `CleanupExpiredReservations`, `ResetExpiredBudgets`, `ResetBudgetUsage` | Money is not spent twice; a hold counts until it is released; a charge is not lost; holds do not stay for ever |
| Budget stream (`internal/extproc/budget_server.go`) | one `budgetRequestState` per stream, `requestStates` by request id; pooled connections and row locks while a transaction is open | header, body and end-of-stream phases, deny response | The whole response is charged for; transactions are closed; checks and charges end; state is dropped |
| Budget approval (`internal/api/approval_handlers.go`, `CreateBudget`, `internal/auth/rbac.go`) | `approval_status`, `rejection_count`, owner columns, `budget_approvals` | create, approve, reject, resubmit, delete | Decisions only on pending budgets; closed after three rejections; somebody may decide |
| Rate limit allocations (`internal/api/ratelimit_handlers.go`, `internal/db/ratelimit_repository.go`) | `rate_limit_allocations`, `rate_limit_approvals` | create, update, approve, reject, resubmit, delete | One active row per org, team and pattern; no lost edit; the lifecycle; an org admin's disable holds |
| Budget administration (`internal/api/handlers.go`) | definition columns of `budget_definitions`, `version` | create, update with cascade, delete with cascade, reset | Children within parents; all or nothing; no lost edit |
| Rate limit ext-proc (`internal/extproc/ratelimit_server.go`) | `requestStates` by request id | lookup and merge at the headers, model at the end of the body | Each limit is the most specific enforced one; state is dropped |
| Model costs (`service.go`, `repository.go`) | `model_costs`, an in-process cache with a TTL | price administration, refresh | A price change takes effect soon after the TTL, whatever races it |
| Alerts (`internal/alert`, worker in `cmd/ui/main.go`) | `budget_alerts`; reads `usage_records` | the worker's pass, dismissal | An alert belongs to the period it names; an exhausted budget gets one; the burn rate is of the period |
| Forecasting, match expressions (CEL), authentication, audit, metrics, UI | none that a decision depends on | | |

How they interact: the stream calls the ledger; the ledger, the workers of
every pod and the API write the same rows of `budget_definitions`; the approval
status decides whether the ledger's locking read returns a budget at all; the
allocations are read by the rate limit service. There are no messages between
the services: the database is the only shared state, so the interleavings that
matter are those of SQL statements.

What is hard here: reads outside the transaction that uses them
(`DecrementBudgets`), three statements where one transaction was meant
(`CleanupExpiredReservations`), responses that arrive after the reservation
expired, request ids that are sent again, resets under live reservations,
check-then-update handlers without a guard in the update, snapshots and caches
that are used after the rows have changed, and transactions that wait for each
other's rows and for the pool's last connection. `PROJECT.json` lists
each hazard at its line with the properties that would catch it.

## Modules

| Module | Models |
|---|---|
| `BudgetLedger` | the ledger, its streams, cleanup workers, resets |
| `BudgetLedgerProofs` | theorems about it |
| `ApprovalLifecycle` | abstract: what an approval workflow promises |
| `BudgetApproval` | the budgets' approval handlers; compared with `ApprovalLifecycle` |
| `BudgetApprovalProofs` | theorems about it |
| `RateLimitAllocations` | the allocation handlers; implements `ApprovalLifecycle` |
| `RateLimitAllocationsProofs` | theorems about it, the refinement included |
| `BudgetAdmin` | create, update with cascading disable, delete with cascade |
| `BudgetAdminProofs` | theorems about it |
| `BudgetStreams` | the ext-proc streams of budgets: messages, token counting, connections, row locks |
| `BudgetStreamsProofs` | theorems about it |
| `RateLimitStreams` | the ext-proc streams of rate limits: lookup, merge, model |
| `RateLimitStreamsProofs` | theorems about it |
| `ModelPrices` | `model_costs` and the cache of one pod |
| `ModelPricesProofs` | theorems about it |
| `BudgetAlerts` | the alert workers, usage records, dismissal |
| `BudgetAlertsProofs` | theorems about it |
| `MC...` | constants for TLC |

Operators whose comment begins with "Mutation of" are never used by a
specification. Each states how a plausible mistake would change the definition
below it; replacing the definition by it must make the named property fail.

### BudgetLedger

State. `usage` and `pending` are the two money columns, `rsv[b]` the requests
with a row in `request_reservations` for budget `b`, `expired` the requests
whose rows are past `expires_at` (all rows of one request are inserted in one
transaction with one TTL). `pc` and the per-request variables are the local
state of `Process` and `DecrementBudgets`; `wpc`, `sel`, `todo` that of
`CleanupExpiredReservations`. `exposed` is a history variable, read by the
properties only.

Granularity. `CheckAndReserveBudget` holds row locks from its first statement
to its commit, and nothing else writes the rows it decides on without these
locks, so it is one step. `DecrementBudgets` reads the reservation and the
hierarchy with two statements outside its transaction: `GetReservation`,
`GetBudgetsWithParent` and `ChargeAndRelease` are three steps. The cleanup is a
SELECT, a DELETE and one UPDATE per budget, each a step. A reset is one UPDATE.

Failures. `CheckInterrupted` is a locking read that fails part way:
`GetEnabledBudgetsForUpdate` does not look at `rows.Err()`, so the check goes on
with the rows that arrived (`Arrivals`: org before team before user); if none of
them matches, `AllowUnmatched` forwards the request without a hold. The read of
the hierarchy does not look at it either (`repository.go:511-533`): `chain` is
what arrived of it, the found budget first, and only that is charged
(`ChargesOf`). A cost, or the part of it that the missing budgets would have
taken, is then charged to nobody and the hold is released all the same;
`BucketFillConserves` names the case. `Abort` covers a client, upstream or pod that goes
away, and a charging transaction that is rolled back. `CleanupCutShort` covers a
failed statement and a stopped pod. `Retry` is a request id that is sent again,
at any time after its stream ended, so also while rows of the earlier attempt
exist.

Data. Money is whole units. The sum of estimates is the cardinality of a set
with one element per unit (`Tokens`): it is the SQL `SUM`, and needs no
recursion, which the proofs could not follow. Which budgets a request matches
(CEL), the estimate (prices) and the actual cost are inputs. An estimate is
fixed per request id; the cost of a response is any element of `Costs`, above
and below the estimate. `HierarchyAssumption` says that a parent has a higher
entity type than its child (user, team, org), so a chain has at most three
budgets. The UI offers no other parents; the API does not check it, and what it
lets through instead is a matter of `BudgetAdmin`.

The named causes. A budget's spending can exceed its amount in ways the code
knows and accepts, or at least has: `exposed` collects the budgets on which one
has occurred in the current period.

1. `Overdrawn`: the check admitted the request on an exhausted budget, because
   that budget may fall back to its parent.
2. `Uncovered`: a charge above what the request still holds there. The actual
   cost exceeds the estimate, an ancestor is charged that the request did not
   match, or the hold was cleaned up after it was found.
3. `Unheld`: a release of a hold that is no longer there.
4. `SelectedByOthers`: a cleanup pass that will release rows somebody else has
   deleted meanwhile (a late charge, another pod's pass).
5. A reset of a budget that has live reservations or a pass owing it a release.
   A reset of a budget that has neither clears the mark.

Each is defined from the state just before the step, none from the property: a
budget without a mark must be sound whatever else happened. The properties
excuse a marked budget, they do not protect it: a late response, a reset under
live reservations and a check that a failed read let through are known ways to
spend beyond an amount (causes 2 to 5), and `PendingCoversHolds` and
`NoOverspend` say that there are no others.

### BudgetApproval and RateLimitAllocations

Both are sessions that run one API call at a time, a statement per step, and
may stop after any statement (`CallEnds`). The budgets' handlers check what they
read and then update by id only; the allocations' handlers repeat the status in
the `WHERE` clause and raise a version. Both are compared with the same abstract
`ApprovalLifecycle`, through its variables `status` and `rejections`: the
allocations implement it under every interleaving; a budget follows it until a
call decides by a reading that has become stale. The history variable `raced`
collects such budgets (`AsRead` compares what the call read with the row its
UPDATE finds), and `FollowsLifecycle` is stated for all others: that a decision
is overwritten is excused, and `late_rejection` shows one such case. The instance is
`Lifecycle(b)`, one lifecycle per budget, so that one raced budget excuses no
other.

`OwnershipFor` is the owner columns `CreateBudget` computes from the request,
the parent and the caller; `MayDecide` the check of approve and reject.
A slot of an allocation is its org, team and pattern. `SlotTaken` is the partial
unique index on them over rows that are not rejected; `CheckExisting`, the SELECT
of `CreateAllocation`, looks for the team and the pattern only
(`SameTeamAndPattern`), and the org is whatever the request names. An edit may
change the pattern (`Repatterned`), no statement changes a row's org or team.
Limits and enforcement mode of an allocation are one value, as they are always
written together. Each call comes from an org admin, another identity or from
nobody (`Callers`): every route is behind `OptionalAuthMiddleware`
(`middleware.go:59-86`, `docs/DESIGN.md:457`), and who has no identity is not
asked for permission. `orgHold` is a history variable: the rows that an org admin
disabled, until an org admin or a caller without identity enables the row,
somebody else disables it in turn, or it is deleted.

### BudgetAdmin

`row[b]` holds the definition columns as one record, because `repo.UpdateBudget`
writes all of them at once; `NoRow` stands for an absent row. `UpdateBudget` of
the API is `ReadForUpdate`, for an org admin's disable `ReadChildren` and one
`DisableChild` or `SkipChild` per child, then `ValidateAmount` and `SaveBudget`:
the children are written before the parent has been validated or saved, as in
the code. A request may name any version (`handlers.go:996-998`;
`ClientVersions`): an older one makes the save fail after the cascade, and one
that the row has yet to reach lets a save succeed that was computed from a row
which has changed since. `AheadOfRead` names such a call, and the properties
excuse it. A parent that cannot be read is neither inherited from nor compared
with (`found` in `ReadForCreate` and `ValidateAmount`), which is what the handlers
do with a failed read. `GetAllDescendants` gives each row its depth, and
`DeleteBudgetCascade` succeeds only if the foreign key lets every row go in the
order deepest first. The recursive query does not answer on a cycle of parents.
`Charge` is any write of the ledger that raises the version.

### BudgetStreams

What `BudgetLedger` treats as atomic is taken apart here, and what the ledger
computes is left out: the outcome of a check is a choice. `pc` follows a stream
through `Process`; each read or transaction first needs a connection of its
pod's pool (`FreeConnection`), and a transaction takes row locks one by one
(`LockRow`) from the sequence `want`: the check all enabled budgets `FOR UPDATE`
in the order of its `ORDER BY`, the charge the chain of the reserved budget from
the child up, with the weaker lock of an `UPDATE` for budgets that are charged
and the key share lock of the usage record's foreign key for the others, and at
last the reserved budget again; a reset the expired rows in any order; a
deletion (`BeginDelete`, `DeleteBudgetCascade`) the descendants it has read before
their ancestors. The statements that write one row in a transaction of their own
hold no lock while they wait for another and are left out. The deletions run in
the management service and not in the pod of a check; in the instance the
worker shares a pool with the streams, which adds waits and takes none away.
Which lock modes conflict and that a cycle of waiting transactions is broken by
failing one of them is PostgreSQL's documented behaviour (`Conflicting`,
`InCycle`, marked external). What the victim makes of it is code (`Victim`): a
check loses its locks and goes on with the rows it has got, because
`GetEnabledBudgetsForUpdate` ignores `rows.Err()`. If none matches, it forwards the
request although its commit fails (`service.go:404-433`); otherwise it may even
go on to `EstimateCost` with its dead transaction, and is denied or fails at its
inserts, but never reserves (`Interrupted`). A charge is lost, a reset or a
deletion is rolled back. `RowGone` is a DELETE that finds its row gone: when it is
the budget's own, `DeleteBudgetCascade` returns `ErrNotFound` with `err` still nil,
so that the deferred rollback is skipped (`repository.go:1343-1345`). The
transaction is then `abandoned`, with its connection and its locks, until the pod
ends.

`EstimateCost` asks for a second connection while its transaction is open,
unless the model is known and cached. A response is a sequence of events that
arrives in any split; `parseTokenUsage` and `ParseEvent` are the three formats
and the test for `data: `. `reported` of a response is what the provider says it
used, known independently of the parser. `Counted` is what it is charged for: the
parser adds the output that an Anthropic start reports (`budget_server.go:537`) to
the count of the delta, which includes it. Streams start again after they end,
and share request ids.

### RateLimitStreams

`table` is what the SELECT can see: the enabled, approved allocations. The query
filters by team only (`ratelimit_repository.go:91`), so a member of `Patterns` is
a pattern together with the org of its allocation, and there is at most one row
of each for a team, which is `OneActivePerSlot` of `RateLimitAllocations`.
`GetAllocationsForTeamModel` is the set of all orders in which the rows may come,
because the query orders by class only. Of a limit the model keeps the pattern it
was taken from; the merge loop takes each limit from the first row that
`Provides` it. A lookup that fails and a request without a team or a model header
are `FailOpen`. `RequestBody` is the end of the body; the chunks before it pass
through.

### ModelPrices

One pod's cache, with a time to expiry and a time to the next refresh instead of
absolute times, so that there is no horizon. A lookup is the check of the cache,
one or two reads of the table and the fill of the cache, each a step; a refresh
is its read, which may come back short because `rows.Err()` is not looked at,
and the replacement of the map. Assumptions on time, in `Tick`: a lookup is over
within one tick of its start, and a refresh that is due is tried before time
goes on. `age` is a history variable: for how long a value has not been the
price of a model. `Bound` is the promise: one interval for each refresh that
fails in a row and one more, and one tick each for the lookup that filled the
cache and for the one that used it.

### BudgetAlerts

`row` is what the worker reads of a budget, `todo` the rows of its snapshot a
pass has still to check, `due` the alerts it has still to insert. Both are sets
whose elements are taken in a fixed order (`NextRow`: the `ORDER BY` of the
snapshot; `NextAlert`: the order of the insert statements). As in the ledger the
sum of the recorded costs is the cardinality of a set with one element per unit
(`Units`), and a read that fails part way is a shorter snapshot. The forecast
is computed as in `computeAlertForecast` with its divisions multiplied out; time
is in ticks. `Charge`, `Reset`, `UpdateBudget` and `DeleteBudget` are the writes
of the other components to the rows the worker reads.

Usage records. A charge inserts its record and prunes the older ones in its
transaction, which shares only key share locks with others on the budgets it
does not charge. So `Charge` prunes without having seen up to `Overlap` records
(`unseen`), those of charges that were under way at the time: two of them remove
the same record and leave one more than `KeepRecords`. The record carries the
`time.Now()` of its pod (`repository.go:930`), up to `MaxLag` ticks before the commit on
the clock of the database; a reset starts the period at its `NOW()`
(`repository.go:408`, `:430`), the start of a transaction that may have waited for
the row since. `carried` is a history variable: the costs recorded at or after
the start of the period that the reset found already there, which its usage does
not include. The alerts' columns are `DECIMAL(12,6)`
(`migrations/001_initial.sql:143-146`) while a budget has ten digits before the
point: `Storable` says whether an alert fits, and one that does not is never
inserted. `met` is a history variable too: the conditions each period's row has
met at some time.

## Runs

| Run | Checks | Instance and why it is enough |
|---|---|---|
| `ledger_races` | `TypeOK`, `PendingCoversHolds`, `NoOverspend` | A team under an org, two requests, one with a cost below its estimate, any read cut short, two cleanup workers, one of them cut short, every request may be late, one reset. (Costs above the estimate are in `ledger_hierarchy`.) Every pair of writers of `pending` meets: check, charge, both cleanups, reset. The pods are symmetric and `Pods` permutes them. |
| `ledger_hierarchy` | `PendingCoversHolds`, `NoOverspend`, `BucketFillConserves`, `HoldsAreReleased` | Four budgets: user, team, org and an isolated team; the user budget falls back; the user's request is sent twice; every read of the hierarchy may be cut short; a cost larger than the estimates overflows the user and the team, so that all three levels of the fill take part. |
| `approval_concurrent` | `TypeOK`, `ClosedAfterThree`, `AttemptsNotAhead`, `FollowsLifecycle` | One budget, an org admin, a team admin and a user, up to three rejections and the ones in flight. Budgets do not influence each other. |
| `allocation_races` | `TypeOK`, `OneActivePerSlot`, `AttemptsFollowRejections`, `OrgDisableHolds`, `NoLostUpdate`, `FollowsLifecycle` | Two rows, two orgs, one team, two patterns, two sessions whose calls come from an org admin, a member or nobody; calls start on one row up to version 3, the other is created, deleted and competes for its slot: an edit can move a row into a slot while the other session creates, rejects or resubmits. |
| `admin_races` | `TypeOK`, `NoOrphans`, `NoLostUpdate`, `CascadeHitsChildren`, `IsolationIsTheOrgs` | An org and a team budget, an org admin and a team admin, rows edited up to version 2 and what is in flight. The team may be put under the org or under itself, so a child can come and go between any two statements of a cascade. A request about the team may name the version it was read with or the one its next write gives it. |
| `alerts` | `TypeOK`, `AlertsAreEarned`, `RecordsWithinUsage`, `ExhaustionIsReported` | One budget, one pod, two amounts of which the larger is too large for the columns of an alert, charges that exhaust either, one alert dismissed, one kept record and one charge that overlaps, a lag of a tick, one reset, one failure. Budgets are checked one after another and share nothing; the workers of two pods share only the unique index, which makes the second insert a no-op. |
| `prices` | `TypeOK`, `PricesAreFresh` | A model and a version of it, two concurrent lookups, a TTL of two ticks, up to one failed refresh in a row. The lookups are symmetric. There is one price, which comes and goes: freshness is counted per model and value. (The instance with two prices and one lookup passes as well, 12.6 million states; it is no run because it takes too long.) |
| `streams` | `TypeOK`, `HangsAreKnown`, `ChargedForWholeResponse`, `StatesAreDropped`, `CallsEnd` | Two streams that share one request id, a worker that resets and deletes, one pod with two connections, two rows, four kinds of response. Two transactions already use the pool up, and every pair of check, charge, reset and deletion meets on both rows in every order the code allows. |
| `rate_limits` | `TypeOK`, `StatesAreDropped`, `MostSpecificEnforced` | One team, one exact pattern that two orgs have allocated, a prefix and `*`; allocations with either limit or both, monitored or enforced: every combination of classes and a tie. The two exact allocations are symmetric (`Same`). |
| `pending_not_sum` | violates `PendingIsSum` | see below |
| `isolated_rollup` | violates `IsolatedNotRolledUp` | see below |
| `late_rejection` | violates `ClosesAfterThree` | see below |

Bounds: `MaxAttempts`, `MaxPeriods`, `MaxCrashes`, `MaxRejections`,
`MaxVersion`, `MaxUsage`, `MaxTime`, `MaxFailures` and `MaxDismissed` limit how
often a repeatable event happens, never what it does. `Overlap` and `MaxLag` limit
what overlaps, `ClientVersions` are the versions requests name, `MaxStored` stands
for the largest `DECIMAL(12,6)`; `KeepRecords` is 30 in the code. The theorems hold
for all of their values.
`BudgetStreams` and `RateLimitStreams` need no bound: their streams start again
for ever. The passing runs of the ledger, the streams and the prices check
deadlock. The others do not, because they end where the system may: every
request has been charged, denied or given up, every budget or allocation has
been deleted and the clock has run out.

Fairness. For `HoldsAreReleased` of the ledger: weak fairness of `Expire`:
time passes. Weak fairness of the statements of each pod's cleanup pass: the
worker is a ticker loop that logs an error and goes on, and a stopped pod is
restarted. Nothing is assumed of the streams: a response may never come, which
is the case the cleanup exists for. In particular no fairness is assumed of
checks, charges or retries.

For `ExhaustionIsReported`: weak fairness of each pod's pass, for the same
reason. Failures are bounded by `MaxFailures`: a database that never works again
reports nothing.

For `CallsEnd`: strong fairness of the steps of each stream's own goroutine and
of each worker's transaction, because PostgreSQL queues the waiters of a row lock
and pgxpool those of a connection, so that a waiter whose turn comes again and
again is served; weak fairness would let the others overtake it for ever. Nothing
is assumed of the gateway, of failing statements, or of new requests and resets,
which may keep coming. The property excuses what `Starved` describes: a pool
whose connections are all held by transactions of which one waits for a second
connection, and rows locked by a deletion that was abandoned.

### What the code does not do as its documents say

* `pending_usage_usd` is not the sum of the active reservations
  (`docs/DESIGN.md:243`): a charge deletes the rows of all matched budgets and
  lowers the pending usage of one. The others keep the estimate until their
  period reset, so a busy org budget denies requests it has room for. It errs on
  the safe side, which is what `PendingCoversHolds` says.
* An isolated budget's charge is repeated on its parent
  (`docs/ARCH.md:187` says the parent is not charged).
* Two concurrent rejections that read the same count leave a budget with three
  rejections in status rejected: neither closed nor resubmittable.

These three have runs. The models follow the code, and the properties that pass
are about the code, in the following too:

* `docs/DESIGN.md:205`: "Creating a budget always starts at `pending`". An org
  admin's budget, and any without a parent, starts at approved
  (`handlers.go:803-815`), so `ApprovalLifecycle` has absent to approved.
* The lifecycles of `docs/DESIGN.md:196-203` and `:410-418` have no way from
  pending to closed, and have approved and rejected to closed. The code closes a
  pending budget at its third rejection (`approval_handlers.go:194-200`), and has
  neither of the others: a budget that is deleted is gone.
* `docs/DESIGN.md:192`: "the server rejects stale writes with 409 Conflict". A
  client may name a version ahead of the row, and its save then overwrites
  changes it has not seen (`AheadOfRead`).
* `repository.go:926-927`: "at most 30 are retained per budget". Charges that
  overlap leave more.

Noticed while modelling, without a run of their own. The models have the
behaviour unless it says otherwise.

* A locking read that fails before the matching rows arrive lets a request
  through without a hold (`AllowUnmatched`), and a read of the hierarchy that
  fails midway charges a part of the cost, or none of it, and releases the hold
  (`GetBudgetsWithParent`).
* The pool can be starved for good: checks that hold a connection and the row
  locks wait in `EstimateCost` for a second one, and everybody else waits for
  the rows or for a connection (`Starved`). Only a context that is cancelled ends
  it. A known model whose price is cached does not ask.
* The check locks from org to user, the charge and the cascading delete from the
  child up. PostgreSQL fails one of those that wait in a circle: a check then goes
  on with the rows it has got, and is forwarded without a hold, denied or
  answered with an error; a charge is lost with a log line, and its hold stays
  until it expires.
* Of two deletions of one budget the second leaves its transaction open, with a
  connection of the pool and the locks of the descendants it did find.
* A budget of a million dollars or more is never reported as exhausted, nor
  warned of: its alerts do not fit their columns.
* Several orgs can have an allocation for one team and pattern, and a lookup for
  the team finds them all, in no particular order.
* The output that an Anthropic stream reports at its start is charged twice
  (`Counted`).
* A JSON response whose text contains `data: ` is counted as no tokens
  (`ChargedForWholeResponse` names it).
* `requestStates` of both services keeps an entry for ever for a stream that is
  denied or given up, and in extproc-ratelimit for a request without a body.
* `usage_records` is pruned to 30 per budget; `docs/DESIGN.md:209` calls it an
  "Immutable record of every actual charge. Not updated, only appended." The
  burn rate of a busy budget is therefore too low.
* A lookup that finds the price cache expired makes all of it valid again; after
  failed refreshes a price is used longer than the TTL, by as much as `Bound` says.
* Alerts are never resolved: `internal/db/alert_repository.go:216` says
  "Called after ResetExpiredBudgets", but nothing calls it.
* The rate limits are those of the model in the header, the descriptor is of the
  model in the body; and between patterns of one class the query names no order.
* A user budget that inherits its team from the parent has no owner org, and
  approve and reject refuse everyone, although `internal/auth/rbac.go:130` says
  that team admins decide.
* Disabling an allocation a second time overwrites who disabled it, so that a
  member can then enable what an org admin disabled, and a caller without
  identity can enable it at once, although `canEnableRateLimit` says "only
  org-admin can re-enable". `OrgDisableHolds` names both cases. `UpdateBudget` has
  the same lines.
* A budget that is moved away while its old ancestor is being deleted with
  cascade is deleted too; children stay disabled when the save of their parent
  fails; an amount is compared with the parent's but not with the children's; a
  budget can be put under its own descendant, and the recursive queries then
  never answer.
* Not in a model: `docs/DESIGN.md:363` says a reset deletes stale reservations,
  which it does not; the retry of `docs/DESIGN.md:375` on a version conflict does
  not exist; `docs/ARCH.md:43` places the budget workers in the management
  service, but extproc-budget runs them; `burnRateCache` returns the rate of an
  earlier period when the usage happens to be the same again.

## Proofs

The constants are arbitrary in every theorem: the assumptions of the modules are
types, finiteness where something is counted, and what the database schema
guarantees. TLC evaluates them on every run.

### The ledger

`BudgetLedgerProofs` proves, for every hierarchy, every finite set of requests
and pods, all amounts, estimates and bounds, from `HierarchyAssumption` and
`RequestAssumption` alone:

| Theorem | States |
|---|---|
| `TypeCorrect` | `Spec => []TypeOK`; the part that needs an argument is that `pending` stays a natural number |
| `HoldsCovered` | `Spec => []PendingCoversHolds` |
| `NoDoubleSpending` | `Spec => []NoOverspend` |
| `BucketFill` | `Spec => BucketFillConserves`, an action property |

The argument. `NoOverspend` is not inductive: the check compares the estimate
with `amount - usage - pending`, so it needs that `pending` is at least what is
held. That in turn is not inductive, because between its DELETE and its UPDATEs
a cleanup pass owes a release for rows that no longer exist. The inductive
invariant is, for each budget that is not exposed,

    Covered(b):  reserved + owed to b by cleanup passes  <=  pending[b]
    Fits(b):     usage[b] + reserved                     <=  amount[b]

together with `TypeOK` (`LedgerInv`). One lemma per action shows that it is kept:
`LedgerReserve` uses `Covered` to get `Fits`; `LedgerCharge` moves an estimate
from reserved to usage; `LedgerDelete` moves estimates from reserved to owed;
`LedgerRelease` and `LedgerCutShort` reduce what is owed. They rest on lemmas on
sums of estimates (`ReservedAdd`, `ReservedRemove`, `ReservedSplit`, `OwedAdd`),
which follow from the cardinality theorems of finite sets.

`BucketFill` rests on two lemmas. `ChainTakesAll`: the last budget of a chain has no
parent and takes whatever is left, so a chain that was read whole takes the whole
cost, however stale the usages were that split it. `ChainTakesPart`: what arrived
of a chain takes no more than all of it would (`ChargesOfBounds`).

### Approval workflow and allocations

`BudgetApprovalProofs` and `RateLimitAllocationsProofs` prove, for any number of
budgets or allocations, orgs, teams, patterns and sessions:

| Theorem | States |
|---|---|
| `ApprovalTypes` | `Spec => []TypeOK` of `BudgetApproval` |
| `NeverClosedEarly` | `Spec => []ClosedAfterThree` |
| `RecordsNotAhead` | `Spec => []AttemptsNotAhead` |
| `DecisionsFollowLifecycle` | `Spec => FollowsLifecycle`: every step on a budget that is not raced is a step of `ApprovalLifecycle` |
| `AllocationTypes` | `Spec => []TypeOK` of `RateLimitAllocations` |
| `ImplementsLifecycle` | `Spec => FollowsLifecycle`: `RateLimitAllocations` implements `ApprovalLifecycle` |
| `SlotsUnique` | `Spec => []OneActivePerSlot` |
| `EditsNotLost` | `Spec => NoLostUpdate` |
| `OrgDecides` | `Spec => []OrgDisableHolds` |
| `AttemptsBounded` | `Spec => []AttemptsFollowRejections` |

`ClosedAfterThree` is not inductive: `RejectBudget` decides whether to close by
the count it read before its UPDATE, which adds to the count in the row. The
invariant needs `ReadEarlier`: what a call in progress has read is never more
than what the row holds, because no statement lowers the count. The same fact
keeps the history records, which carry the count that was read, from running
ahead (`RecordsNotAhead`), and the same stale count is why a budget may close too
late (`late_rejection`). `DecisionsFollowLifecycle` adds `DemandedStatus`, the
status each kind of call has read; with it an UPDATE on a row that is as it was
read (`AsRead`) is the lifecycle's step, and any other puts the budget into
`raced`.

The refinement of the allocations maps `status` and `rejections` to themselves.
Every statement that writes the status either names the old status in its WHERE
clause (`Guarded`) or creates or deletes the row, so each maps to one abstract
step or to a stutter; `TypeOK` supplies the old status. `SlotsUnique` uses
`SlotsApart`: a row enters the active ones, or moves, only where the partial
unique index has no other row.

`EditsNotLost` rests on `EditsCurrent`: as long as a row still has the version an
edit was made from, its columns are the ones the edit was made from, because
every statement that writes a row raises its version (`Stamped`, and
`SessionStamps` for every statement of every session). `OrgDecides` adds
`EnablingAllowed`, that an edit in progress which enables a row was made from
one that its caller may enable, and `HeldMarked`, that a row in `orgHold` is
disabled with the org's mark; with `EditsCurrent` a stale enabling edit finds
another version. A caller without identity may always enable; such an edit, like
an org admin's, `overrules` the mark and ends what the property promises.

`AttemptsBounded` (`Spec => []AttemptsFollowRejections`) counts the attempts an
allocation has had: its rejections, and one more while it is not rejected. Its
invariant `NumbersEarned` bounds the number every call carries, not only the
recorded one: a call that is deciding carries at most that many, and a
resubmission that has its number but has not yet reset the row is one ahead,
because the row is still rejected. A rejected row has at least one rejection, so
that the reset cannot go wrong.

### Administration

| Theorem | States |
|---|---|
| `AdminTypes` | `Spec => []TypeOK` of `BudgetAdmin` |
| `ParentsExist` | `Spec => []NoOrphans` |
| `NothingLost` | `Spec => NoLostUpdate` |
| `CascadeStaysBelow` | `Spec => CascadeHitsChildren` |
| `OrgsIsolate` | `Spec => IsolationIsTheOrgs` |

The argument has two halves. First, every statement does one of three things to
the table: nothing, `Writes` (one row, whose version it raises and whose parent
exists or is unchanged), or `Deletes` (a set of rows that contains all their
children). `NoOrphans` follows from the last two conditions: this is where the
foreign key, checked when each row is deleted, makes up for a list of
descendants that is out of date. Second, `CopiesSeen`: whatever copy of a row a
call has kept, the row is deleted, or has a higher version, or is equal to the
copy (`Seen`). A conditional UPDATE that finds its version therefore finds the
row it was computed from, which gives the three action properties, with what
each call knew of its copy when it read it: the children of a cascade were
enabled, not isolated and below the budget, and an edit of anyone but an org
admin does not change `isolated`. For a save the argument needs that the version it
names is not ahead of the row it was made from (`AheadOfRead`): only then does a
row that reaches the version still equal the copy.

### Streams

| Theorem | States |
|---|---|
| `TransactionsAreClosed` | `Spec => []TypeOK` of `BudgetStreams` |
| `StatesAreKeptForTheOpen` | `Spec => []StatesAreDropped` |
| `SplitsDoNotMatter` | `ReadsWhole => (Spec => []ChargedForWholeResponse)` |
| `ChecksNeverHangAlone` | `Spec => []HangsAreKnown` |
| `RateLimitTypes` | `Spec => []TypeOK` of `RateLimitStreams` |
| `LimitsAreMostSpecific` | `Spec => MostSpecificEnforced` |
| `StatesAreKeptForTheOpen` | `Spec => []StatesAreDropped` of `RateLimitStreams` |

`StreamAssumption` says that there are finitely many processes, that the check's
`ORDER BY` names each budget once, and that a reservation has a budget. For
`TransactionsAreClosed` the labels, connections, locks and waiting lists are
invariant together (`Discipline`): a step that leaves a transaction without
closing it would break the equivalence of holding a connection and standing at a
step of a transaction. A check that was chosen as victim has neither locks nor
any to take, but still its connection (`Drops`). That a pool is never exceeded
needs the number of its users to be countable, hence the finite processes.

`SplitsDoNotMatter` separates the parser from the stream. What the loop of
the parser makes of a response is data, and out of the prover's reach; its
hypothesis `ReadsWhole` says that the parser is right about each whole response,
and TLC evaluates it for the responses of the run (`ResponsesAreRead`). The
theorem is that the stream then gives the parser the whole response, for every
split.

`ChecksNeverHangAlone` is the argument from lock order. `InOrder` says that what
a check has locked and what it has still to lock are a prefix and the rest of one
order. In a set of processes that wait only for each other and in which no
charge, reset or deletion waits for a row, none was abandoned and nobody wants a
second connection, those with a connection are checks that wait for rows, and
there is one; take one that has the fewest rows still to lock. It waits for a row
that a check of the set holds, which is then further along, a contradiction. The
least element comes from the well-foundedness of the natural numbers
(`NatLessThanWellFounded`, `WFMin`), which takes a set and needs no induction
over an operator.

`LimitsAreMostSpecific` uses that the rows come in the order of their classes:
the first index that provides a limit is then one of the smallest class
(`Min` of a nonempty set of indices, again from well-foundedness). For
`StatesAreDropped` the invariant is stronger (`KeptBefore`): a key belongs to a
stream that has not yet reached the end of its request body, because the end of
the body removes it.

### Prices

| Theorem | States |
|---|---|
| `PriceTypes` | `Spec => []TypeOK` of `ModelPrices` |
| `PricesStayFresh` | `Spec => []PricesAreFresh` |

`PricesAreFresh` bounds the age of a price a lookup has got, which says nothing
of the cache it came from. The inductive invariant `Fresh` bounds the age of
everything a price can come from: the rows and a list just read from them have
age 0 (`RowsFresh`), a cached price is at most as old as the time since the last
refresh that succeeded, and one tick (`CacheFresh`), a price in a lookup's hands
one tick more if the lookup began before the last tick (`LookFresh`). The time
since the last refresh is not a variable: `SinceRefresh` computes it from the
failures in a row and the time to the next refresh. A lookup that revives an
expired cache changes none of these bounds, which is why the TTL itself appears
nowhere but as the interval of the refreshes.

### Alerts

| Theorem | States |
|---|---|
| `AlertTypesKept` | `Spec => []TypeOK` of `BudgetAlerts` |
| `AlertsNameTheirPeriod` | `Spec => []AlertsAreEarned` |
| `BurnRateIsOfThePeriod` | `Spec => []RecordsWithinUsage` |

`AlertsAreEarned` follows a condition on its way from a row to an alert
(`Earned`): what a row meets is in `met`, so is what the rows of a snapshot meet,
so are the alerts a worker has still to insert. Each part is needed because the
row may have changed since. `RecordsWithinUsage` is an invariant with `carried`:
a charge raises the usage by its cost, and the sum by at most that (`RecordAdds`:
what is kept is some of the records before, and the new one); a reset zeroes the
usage and sets `carried` to the sum it finds since the new start (`CarriedStep`);
everything else leaves the three alone or removes records. Nothing is assumed of
the order of clocks. That records do not pile up (`AlertTypesKept`) needs only
what one charge leaves (`ChargeKeeps`): those its DELETE kept, and those it did
not see.

### Only model-checked

`HoldsAreReleased`, `ExhaustionIsReported` and `CallsEnd`: liveness under
fairness is out of the prover's reach. What the parser makes of a response, of
every length, would need an induction over data; TLC checks it on the responses
of the run. The three properties that the code violates are no theorems.

## Not modelled

* Match expressions: CEL is an external library; its outcome is an input of
  `BudgetLedger` and `BudgetStreams`.
* Authentication: token decoding; the identities are constants.
* Forecasting: floating-point arithmetic for display, whose only state is a memo.
  The forecast that raises alerts is in `BudgetAlerts`.
* Audit log and metrics: written, never read back into a decision.
* The UI: a client of the API.
* `CheckBudget`, `GetMatchingBudgets`, `CreateReservation`, `ResolveAlert` and
  `ResolveAlertsForBudgets`: nothing calls them.
* Money is whole units in the ledger; rounding of `DECIMAL` columns and of
  floating-point sums is not modelled.

## Plan

1. `BudgetStreams` as a refinement of the stream actions of `BudgetLedger`: the
   transactions there are atomic because of the locks that are held here.
2. The hazards that no property covers yet (`PROJECT.json` says why for each):
   whether a cascading delete should spare a budget that was moved away, and
   whether children may stay disabled when the save of their parent fails, are
   decisions to take before they are properties.
