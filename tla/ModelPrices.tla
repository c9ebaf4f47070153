---------------------------- MODULE ModelPrices ----------------------------
(***************************************************************************)
(* The prices of models: the table model_costs, which org admins edit, and *)
(* the cache of it in every extproc-budget pod, here the cache of one pod. *)
(* A lookup that the cache does not answer reads the table without a lock  *)
(* and fills the cache afterwards; a ticker replaces the whole cache.      *)
(* Lookups, refreshes and edits interleave statement by statement.         *)
(*                                                                         *)
(* Time passes in ticks.  The expiry of the cache, the next tick of the    *)
(* ticker and the age of a price are counted from now, so that the model   *)
(* has no horizon.                                                         *)
(***************************************************************************)
EXTENDS Naturals, FiniteSetsExt

CONSTANTS
    Models,         \* model ids
    NoModel,        \* the empty model id
    BaseOf,         \* a model id without its version suffix
    Prices,         \* rates of input and output tokens, as one value
    NoPrice,        \* no row, no cache entry
    Failed,         \* the outcome of a lookup whose read fails
    Streams,        \* callers of GetModelCost
    TTL,            \* MODEL_COST_CACHE_TTL in ticks, also the refresh interval
    MaxFailures     \* bound: refreshes that fail one after another

ASSUME PriceAssumption ==
    /\ BaseOf \in [Models -> Models]
    /\ NoModel \notin Models
    /\ NoPrice \notin Prices /\ Failed \notin Prices
    /\ TTL \in Nat \ {0} /\ MaxFailures \in Nat

VARIABLES
    price,    \* model_costs, by model_id
    cost,     \* modelCostCache.costs
    left,     \* ticks until modelCostCache.expiresAt, 0 when it has passed
    due,      \* ticks until the refresh ticker fires, 0 when it has
    list,     \* the rows a refresh has read and not yet installed
    failed,   \* refreshes that failed since the last that succeeded
    look,     \* the lookup each stream is in
    age       \* history: ticks since a value last was the price of a model

cache  == <<cost, left, due, list, failed>>
vars   == <<price, cache, look, age>>

NoRows == [m \in Models |-> NoPrice]
NoList == [m \in {} |-> NoPrice]
NoLookup == [step |-> "idle", model |-> NoModel, got |-> NoPrice, late |-> FALSE]

\* How late a price may be used: a refresh interval for each refresh that fails and
\* one more, a tick for the lookup that cached it and one for the lookup that used it.
Bound == (MaxFailures + 1) * TTL + 2
Oldest == Bound + 1

Init ==
    /\ price \in [Models -> Prices \cup {NoPrice}]
    /\ cost = NoRows
    /\ left = 0 /\ due = 0
    /\ list = NoList
    /\ failed = 0
    /\ look = [s \in Streams |-> NoLookup]
    /\ age = [m \in Models |-> [v \in Prices |-> IF price[m] = v THEN 0 ELSE Oldest]]

Valid == left > 0

\* GetModelCost up to its first read: a valid cache that has the id answers.
GetModelCost(s, m) ==
    /\ look[s].step = "idle"
    /\ look' = [look EXCEPT ![s] =
          IF m \in Models /\ Valid /\ cost[m] # NoPrice
          THEN [step |-> "done", model |-> m, got |-> cost[m], late |-> FALSE]
          ELSE [step |-> "exact", model |-> m, got |-> NoPrice, late |-> FALSE]]
    /\ UNCHANGED <<price, cache, age>>

\* The rows of model_costs a model id has; the empty id has none.
RowOf(m) == IF m \in Models THEN price[m] ELSE NoPrice

GetModelCostByID(s) ==
    LET m == look[s].model IN
    /\ look[s].step = "exact"
    /\ look' = [look EXCEPT
          ![s].got = RowOf(m),
          ![s].step = CASE RowOf(m) # NoPrice -> "fill"
                        [] m \in Models /\ BaseOf[m] # m -> "base"
                        [] OTHER -> "done"]
    /\ UNCHANGED <<price, cache, age>>

\* The second read, without the version suffix.
GetBaseModelCost(s) ==
    LET v == price[BaseOf[look[s].model]] IN
    /\ look[s].step = "base"
    /\ look' = [look EXCEPT ![s].got = v, ![s].step = IF v = NoPrice THEN "done" ELSE "fill"]
    /\ UNCHANGED <<price, cache, age>>

LookupFails(s) ==
    /\ look[s].step \in {"exact", "base"}
    /\ look' = [look EXCEPT ![s].got = Failed, ![s].step = "done"]
    /\ UNCHANGED <<price, cache, age>>

\* Mutation of Renewed: every fill prolongs the cache.
Prolonged == left + TTL

\* The expiry after a fill.
Renewed == IF Valid THEN left ELSE TTL

\* The end of GetModelCost: the entry is stored, and when the cache has expired
\* everything in it counts as valid again.
UpdateCache(s) ==
    /\ look[s].step = "fill"
    /\ cost' = [cost EXCEPT ![look[s].model] = look[s].got]
    /\ left' = Renewed
    /\ look' = [look EXCEPT ![s].step = "done"]
    /\ UNCHANGED <<price, due, list, failed, age>>

\* CalculateCost uses the price: for the estimate of a check or the cost of a
\* response.  NoPrice means the default rates; Failed means the fixed estimate for
\* a check, and no charge for a response.
CalculateCost(s) ==
    /\ look[s].step = "done"
    /\ look' = [look EXCEPT ![s] = NoLookup]
    /\ UNCHANGED <<price, cache, age>>
-----------------------------------------------------------------------------
\* RefreshModelCostCache, by the ticker or at the start of the pod: the read, which
\* may be cut short unnoticed, and the replacement of the map.
ListModelCosts ==
    /\ due = 0
    /\ \E shown \in SUBSET Models :
          list' = [m \in Models |-> IF m \in shown THEN price[m] ELSE NoPrice]
    /\ due' = TTL
    /\ UNCHANGED <<price, cost, left, failed, look, age>>

RefreshFails ==
    /\ due = 0
    /\ failed < MaxFailures
    /\ failed' = failed + 1
    /\ due' = TTL
    /\ UNCHANGED <<price, cost, left, list, look, age>>

\* Mutation of Replaced: the rows are added to the old map.
Merged == [m \in Models |-> IF list[m] # NoPrice THEN list[m] ELSE cost[m]]

\* The new map has the rows that were read and nothing else.
Replaced == list

RefreshModelCostCache ==
    /\ list # NoList
    /\ cost' = Replaced
    /\ left' = TTL
    /\ list' = NoList
    /\ failed' = 0
    /\ UNCHANGED <<price, due, look, age>>

\* The statements of the org admins; none of them touches a cache.
SetPrice(m, v) ==
    /\ price' = [price EXCEPT ![m] = v]
    /\ age' = IF v = NoPrice THEN age ELSE [age EXCEPT ![m][v] = 0]
    /\ UNCHANGED <<cache, look>>

\* model_id is unique: the INSERT fails where there is a row.
CreateModelCost(m, v) == price[m] = NoPrice /\ SetPrice(m, v)

\* UPDATE and DELETE find no row where there is none.
UpdateModelCost(m, v) == price[m] # NoPrice /\ SetPrice(m, v)

DeleteModelCost(m) == price[m] # NoPrice /\ SetPrice(m, NoPrice)

\* The pod is restarted with an empty cache, which is due for its first refresh.
Restart ==
    /\ cost' = NoRows /\ left' = 0 /\ due' = 0 /\ list' = NoList
    /\ look' = [s \in Streams |-> NoLookup]
    /\ UNCHANGED <<price, failed, age>>

\* A tick: a refresh that is due has been tried and a lookup is over within one.
Tick ==
    /\ due > 0 /\ list = NoList
    /\ \A s \in Streams : look[s].step # "idle" => ~look[s].late
    /\ left' = IF left > 0 THEN left - 1 ELSE 0
    /\ due' = due - 1
    /\ look' = [s \in Streams |->
          IF look[s].step = "idle" THEN look[s] ELSE [look[s] EXCEPT !.late = TRUE]]
    /\ age' = [m \in Models |-> [v \in Prices |->
          IF price[m] = v THEN 0 ELSE IF age[m][v] < Oldest THEN age[m][v] + 1 ELSE Oldest]]
    /\ UNCHANGED <<price, cost, list, failed>>

Next ==
    \/ \E s \in Streams :
          \/ \E m \in Models \cup {NoModel} : GetModelCost(s, m)
          \/ GetModelCostByID(s)
          \/ GetBaseModelCost(s)
          \/ LookupFails(s)
          \/ UpdateCache(s)
          \/ CalculateCost(s)
    \/ ListModelCosts
    \/ RefreshFails
    \/ RefreshModelCostCache
    \/ \E m \in Models, v \in Prices : CreateModelCost(m, v) \/ UpdateModelCost(m, v)
    \/ \E m \in Models : DeleteModelCost(m)
    \/ Restart
    \/ Tick

Spec == Init /\ [][Next]_vars
-----------------------------------------------------------------------------
\* The table, the cache, its clock and the lookups keep their types.
TypeOK ==
    /\ price \in [Models -> Prices \cup {NoPrice}]
    /\ cost \in [Models -> Prices \cup {NoPrice}]
    /\ left \in 0..TTL /\ due \in 0..TTL /\ failed \in 0..MaxFailures
    /\ list = NoList \/ list \in [Models -> Prices \cup {NoPrice}]
    /\ \A s \in Streams :
          /\ look[s].step \in {"idle", "exact", "base", "fill", "done"}
          /\ look[s].model \in Models \cup {NoModel}
          /\ look[s].got \in Prices \cup {NoPrice, Failed}
    /\ age \in [Models -> [Prices -> 0..Oldest]]

\* "Costs can be updated via the UI or API without requiring a service restart
\* (cache TTL 60s)": a price stops being used soon after it is changed, although
\* a slow lookup may put it back into the cache, and although a lookup that finds
\* the cache expired makes everything in it valid again.
PricesAreFresh ==
    \A s \in Streams : look[s].step = "done" /\ look[s].got \in Prices =>
        LET m == look[s].model
        IN  Min({age[m][look[s].got], age[BaseOf[m]][look[s].got]}) <= Bound
=============================================================================
