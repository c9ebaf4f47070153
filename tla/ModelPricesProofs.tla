-------------------------- MODULE ModelPricesProofs --------------------------
(***************************************************************************)
(* Proofs about ModelPrices, for any number of models, prices and lookups, *)
(* any TTL and any number of refreshes that fail one after another.        *)
(***************************************************************************)
EXTENDS ModelPrices, TLAPS

(***************************************************************************)
(* Types.                                                                  *)
(***************************************************************************)
Lookups == [step : {"idle", "exact", "base", "fill", "done"}, model : Models \cup {NoModel},
            got : Prices \cup {NoPrice, Failed}, late : BOOLEAN]

\* A lookup that has a row to read or to cache is of a model, and has got its price.
Typed ==
    /\ TypeOK
    /\ look \in [Streams -> Lookups]
    /\ \A s \in Streams :
          /\ look[s].step \in {"base", "fill"} => look[s].model \in Models
          /\ look[s].step = "fill" => look[s].got \in Prices
          /\ look[s].got \in Prices => look[s].model \in Models

\* The bound of the promise, and the ages that are counted.
LEMMA Constants ==
    /\ Bound \in Nat /\ Oldest \in Nat
    /\ Bound = (MaxFailures + 1) * TTL + 2 /\ (MaxFailures + 1) * TTL \in Nat
<1>1. (MaxFailures + 1) * TTL \in Nat
  <2>1. MaxFailures + 1 \in Nat /\ TTL \in Nat
    BY PriceAssumption
  <2> QED
    BY <2>1
<1> QED
  BY <1>1 DEF Bound, Oldest

\* An empty cache, and no lookup.
LEMMA TypeInit == Init => Typed
<1> SUFFICES ASSUME Init
             PROVE  Typed
  OBVIOUS
<1>1. cost \in [Models -> Prices \cup {NoPrice}]
  BY DEF Init, NoRows
<1>2. look \in [Streams -> Lookups]
  BY DEF Init, NoLookup, Lookups
<1>3. age \in [Models -> [Prices -> 0..Oldest]]
  BY Constants DEF Init
<1>4. \A s \in Streams : look[s].step = "idle" /\ look[s].got = NoPrice
  BY DEF Init, NoLookup
<1>5. /\ price \in [Models -> Prices \cup {NoPrice}] /\ list = NoList
      /\ left \in 0..TTL /\ due \in 0..TTL /\ failed \in 0..MaxFailures
  BY PriceAssumption DEF Init
<1> QED
  BY <1>1, <1>2, <1>3, <1>4, <1>5, PriceAssumption DEF Typed, TypeOK, Lookups

\* A step of one lookup keeps the types if its new state has its type.
LEMMA TypeLook ==
    ASSUME Typed, NEW s \in Streams, NEW l \in Lookups,
           look' = [look EXCEPT ![s] = l],
           l.step \in {"base", "fill"} => l.model \in Models,
           l.step = "fill" => l.got \in Prices,
           l.got \in Prices => l.model \in Models,
           UNCHANGED <<price, due, list, failed, age>>,
           cost' \in [Models -> Prices \cup {NoPrice}], left' \in 0..TTL
    PROVE  Typed'
<1>1. look' \in [Streams -> Lookups]
  BY DEF Typed
<1>2. ASSUME NEW t \in Streams
      PROVE  /\ look'[t].step \in {"base", "fill"} => look'[t].model \in Models
             /\ look'[t].step = "fill" => look'[t].got \in Prices
             /\ look'[t].got \in Prices => look'[t].model \in Models
             /\ look'[t].step \in {"idle", "exact", "base", "fill", "done"}
             /\ look'[t].model \in Models \cup {NoModel}
             /\ look'[t].got \in Prices \cup {NoPrice, Failed}
  <2>1. look'[t] = IF t = s THEN l ELSE look[t]
    BY DEF Typed
  <2>2. look'[t] \in Lookups
    BY <1>1
  <2> QED
    BY <2>1, <2>2 DEF Typed, Lookups
<1> QED
  BY <1>1, <1>2 DEF Typed, TypeOK

\* The steps of a lookup keep the types.
LEMMA TypeStreams ==
    ASSUME Typed, NEW s \in Streams,
           \/ \E m \in Models \cup {NoModel} : GetModelCost(s, m)
           \/ GetModelCostByID(s) \/ GetBaseModelCost(s) \/ LookupFails(s)
           \/ UpdateCache(s) \/ CalculateCost(s)
    PROVE  Typed'
<1>0. /\ look[s] \in Lookups /\ price \in [Models -> Prices \cup {NoPrice}]
      /\ cost \in [Models -> Prices \cup {NoPrice}] /\ left \in 0..TTL
      /\ look \in [Streams -> Lookups]
  BY DEF Typed, TypeOK
<1>1. ASSUME NEW m \in Models \cup {NoModel}, GetModelCost(s, m)
      PROVE  Typed'
  <2> DEFINE l == IF m \in Models /\ Valid /\ cost[m] # NoPrice
                  THEN [step |-> "done", model |-> m, got |-> cost[m], late |-> FALSE]
                  ELSE [step |-> "exact", model |-> m, got |-> NoPrice, late |-> FALSE]
  <2>1. /\ l \in Lookups /\ l.step \notin {"base", "fill"}
        /\ l.got \in Prices => l.model \in Models
    BY <1>0, PriceAssumption DEF Lookups
  <2>2. look' = [look EXCEPT ![s] = l] /\ UNCHANGED <<price, cost, left, due, list, failed, age>>
    BY <1>1 DEF GetModelCost, cache
  <2> HIDE DEF l
  <2> QED
    BY <1>0, <2>1, <2>2, TypeLook
<1>2. CASE GetModelCostByID(s)
  <2> DEFINE m == look[s].model
             step == CASE RowOf(m) # NoPrice -> "fill"
                       [] m \in Models /\ BaseOf[m] # m -> "base"
                       [] OTHER -> "done"
             l == [look[s] EXCEPT !.got = RowOf(m), !.step = step]
  <2>1. /\ RowOf(m) \in Prices \cup {NoPrice} /\ m \in Models \cup {NoModel}
        /\ RowOf(m) # NoPrice => m \in Models
    BY <1>0 DEF RowOf, Lookups
  <2>2. /\ step \in {"fill", "base", "done"}
        /\ step = "fill" => RowOf(m) # NoPrice
        /\ step = "base" => m \in Models
    OBVIOUS
  <2>3. /\ look' = [look EXCEPT ![s].got = RowOf(m), ![s].step = step]
        /\ UNCHANGED <<price, cost, left, due, list, failed, age>>
    BY <1>2 DEF GetModelCostByID, cache
  <2> HIDE DEF step
  <2>4. l \in Lookups /\ l.model = m /\ l.got = RowOf(m) /\ l.step = step
    BY <1>0, <2>1, <2>2 DEF Lookups
  <2>5. look' = [look EXCEPT ![s] = l]
    BY <1>0, <2>3
  <2>6. /\ l.step \in {"base", "fill"} => l.model \in Models
        /\ l.step = "fill" => l.got \in Prices
        /\ l.got \in Prices => l.model \in Models
    BY <2>1, <2>2, <2>4, PriceAssumption
  <2> HIDE DEF l
  <2> QED
    BY <1>0, <2>3, <2>4, <2>5, <2>6, TypeLook
<1>3. CASE GetBaseModelCost(s)
  <2> DEFINE v == price[BaseOf[look[s].model]]
             step == IF v = NoPrice THEN "done" ELSE "fill"
             l == [look[s] EXCEPT !.got = v, !.step = step]
  <2>1. look[s].model \in Models /\ v \in Prices \cup {NoPrice}
    BY <1>0, <1>3, PriceAssumption DEF GetBaseModelCost, Typed
  <2>2. step \in {"fill", "done"} /\ (step = "fill" => v # NoPrice)
    OBVIOUS
  <2>3. /\ look' = [look EXCEPT ![s].got = v, ![s].step = step]
        /\ UNCHANGED <<price, cost, left, due, list, failed, age>>
    BY <1>3 DEF GetBaseModelCost, cache
  <2> HIDE DEF v, step
  <2>4. l \in Lookups /\ l.model = look[s].model /\ l.got = v /\ l.step = step
    BY <1>0, <2>1, <2>2 DEF Lookups
  <2>5. look' = [look EXCEPT ![s] = l]
    BY <1>0, <2>3
  <2> HIDE DEF l
  <2> QED
    BY <1>0, <2>1, <2>2, <2>3, <2>4, <2>5, PriceAssumption, TypeLook
<1>4. CASE LookupFails(s)
  <2> DEFINE l == [look[s] EXCEPT !.got = Failed, !.step = "done"]
  <2>1. l \in Lookups /\ l.got = Failed /\ l.step = "done"
    BY <1>0 DEF Lookups
  <2>2. look' = [look EXCEPT ![s] = l] /\ UNCHANGED <<price, cost, left, due, list, failed, age>>
    BY <1>0, <1>4 DEF LookupFails, cache
  <2> HIDE DEF l
  <2> QED
    BY <1>0, <2>1, <2>2, PriceAssumption, TypeLook
<1>5. CASE UpdateCache(s)
  <2> DEFINE l == [look[s] EXCEPT !.step = "done"]
  <2>1. /\ l \in Lookups /\ l.got = look[s].got /\ l.step = "done" /\ l.model = look[s].model
    BY <1>0 DEF Lookups
  <2>2. look[s].model \in Models /\ look[s].got \in Prices
    BY <1>5 DEF UpdateCache, Typed
  <2>3. /\ look' = [look EXCEPT ![s] = l] /\ UNCHANGED <<price, due, list, failed, age>>
        /\ cost' = [cost EXCEPT ![look[s].model] = look[s].got]
        /\ left' = IF left > 0 THEN left ELSE TTL
    BY <1>0, <1>5 DEF UpdateCache, Renewed, Valid
  <2>4. cost' \in [Models -> Prices \cup {NoPrice}] /\ left' \in 0..TTL
    BY <1>0, <2>2, <2>3, PriceAssumption
  <2> HIDE DEF l
  <2> QED
    BY <2>1, <2>2, <2>3, <2>4, TypeLook
<1>6. CASE CalculateCost(s)
  <2>1. NoLookup \in Lookups /\ NoLookup.got = NoPrice /\ NoLookup.step = "idle"
    BY DEF NoLookup, Lookups
  <2> QED
    BY <1>0, <1>6, <2>1, PriceAssumption, TypeLook DEF CalculateCost, cache
<1> QED
  BY <1>1, <1>2, <1>3, <1>4, <1>5, <1>6

\* Refreshes, edits of the table, a restart and the passing of time keep the types.
LEMMA TypeOthers ==
    ASSUME Typed,
           \/ ListModelCosts \/ RefreshFails \/ RefreshModelCostCache
           \/ \E m \in Models : \E v \in Prices \cup {NoPrice} : SetPrice(m, v)
           \/ Restart \/ Tick
    PROVE  Typed'
<1>1. CASE ListModelCosts
  <2>1. /\ due' = TTL /\ UNCHANGED <<price, cost, left, failed, look, age>>
        /\ \E shown \in SUBSET Models :
             list' = [m \in Models |-> IF m \in shown THEN price[m] ELSE NoPrice]
    BY <1>1 DEF ListModelCosts
  <2>2. list' \in [Models -> Prices \cup {NoPrice}] /\ due' \in 0..TTL
    BY <2>1, PriceAssumption DEF Typed, TypeOK
  <2> QED
    BY <2>1, <2>2 DEF Typed, TypeOK
<1>2. CASE RefreshFails
  BY <1>2, PriceAssumption DEF RefreshFails, Typed, TypeOK
<1>3. CASE RefreshModelCostCache
  BY <1>3, PriceAssumption DEF RefreshModelCostCache, Replaced, Typed, TypeOK
<1>4. ASSUME NEW m \in Models, NEW v \in Prices \cup {NoPrice}, SetPrice(m, v)
      PROVE  Typed'
  <2>1. age' \in [Models -> [Prices -> 0..Oldest]]
    <3>1. CASE v = NoPrice
      BY <1>4, <3>1 DEF SetPrice, Typed, TypeOK
    <3>2. CASE v # NoPrice
      <4>1. age' = [age EXCEPT ![m] = [age[m] EXCEPT ![v] = 0]]
        BY <1>4, <3>2 DEF SetPrice
      <4>2. [age[m] EXCEPT ![v] = 0] \in [Prices -> 0..Oldest]
        BY <3>2, Constants DEF Typed, TypeOK
      <4> QED
        BY <4>1, <4>2 DEF Typed, TypeOK
    <3> QED
      BY <3>1, <3>2
  <2> QED
    BY <1>4, <2>1 DEF SetPrice, cache, Typed, TypeOK
<1>5. CASE Restart
  <2>1. NoLookup \in Lookups /\ NoLookup.got = NoPrice /\ NoLookup.step = "idle"
    BY DEF NoLookup, Lookups
  <2>2. /\ look' = [s \in Streams |-> NoLookup] /\ cost' \in [Models -> Prices \cup {NoPrice}]
        /\ left' = 0 /\ due' = 0 /\ list' = NoList /\ UNCHANGED <<price, failed, age>>
    BY <1>5 DEF Restart, NoRows
  <2>3. ASSUME NEW s \in Streams
        PROVE  look'[s] \in Lookups /\ look'[s].got = NoPrice /\ look'[s].step = "idle"
    BY <2>1, <2>2
  <2> HIDE DEF NoLookup
  <2>4. look' \in [Streams -> Lookups]
    BY <2>1, <2>2
  <2> QED
    BY <2>2, <2>3, <2>4, PriceAssumption DEF Typed, TypeOK, Lookups
<1>6. CASE Tick
  <2>1. /\ left' = (IF left > 0 THEN left - 1 ELSE 0) /\ due > 0 /\ due' = due - 1
        /\ look' = [s \in Streams |->
              IF look[s].step = "idle" THEN look[s] ELSE [look[s] EXCEPT !.late = TRUE]]
        /\ age' = [m \in Models |-> [v \in Prices |->
              IF price[m] = v THEN 0 ELSE IF age[m][v] < Oldest THEN age[m][v] + 1 ELSE Oldest]]
        /\ UNCHANGED <<price, cost, list, failed>>
    BY <1>6 DEF Tick
  <2>2. left' \in 0..TTL /\ due' \in 0..TTL
    BY <2>1, PriceAssumption DEF Typed, TypeOK
  <2>3. age' \in [Models -> [Prices -> 0..Oldest]]
    BY <2>1, Constants DEF Typed, TypeOK
  <2>4. ASSUME NEW s \in Streams
        PROVE  /\ look'[s] \in Lookups /\ look'[s].step = look[s].step
               /\ look'[s].got = look[s].got /\ look'[s].model = look[s].model
    <3>1. look[s] \in Lookups
      BY DEF Typed
    <3> QED
      BY <2>1, <3>1 DEF Lookups
  <2>5. look' \in [Streams -> Lookups]
    BY <2>1, <2>4
  <2> QED
    BY <2>1, <2>2, <2>3, <2>4, <2>5 DEF Typed, TypeOK
<1> QED
  BY <1>1, <1>2, <1>3, <1>4, <1>5, <1>6

\* Every step keeps the types.
LEMMA TypeStep == Typed /\ [Next]_vars => Typed'
<1> SUFFICES ASSUME Typed, [Next]_vars
             PROVE  Typed'
  OBVIOUS
<1>1. CASE UNCHANGED vars
  BY <1>1 DEF vars, cache, Typed, TypeOK
<1>2. ASSUME NEW m \in Models, NEW v \in Prices, CreateModelCost(m, v) \/ UpdateModelCost(m, v)
      PROVE  Typed'
  BY <1>2, TypeOthers DEF CreateModelCost, UpdateModelCost
<1>3. ASSUME NEW m \in Models, DeleteModelCost(m)
      PROVE  Typed'
  BY <1>3, TypeOthers DEF DeleteModelCost
<1> QED
  BY <1>1, <1>2, <1>3, TypeStreams, TypeOthers DEF Next

\* Types, with what a lookup has got.
LEMMA AlwaysTyped == Spec => []Typed
  BY TypeInit, TypeStep, PTL DEF Spec

\* The table, the cache, its clock and the lookups keep their types.
THEOREM PriceTypes == Spec => []TypeOK
<1>1. Typed => TypeOK
  BY DEF Typed
<1> QED
  BY <1>1, AlwaysTyped, PTL
-----------------------------------------------------------------------------
(***************************************************************************)
(* Freshness.  How old an entry of the cache may be follows from the ticks *)
(* since the last refresh that succeeded: a whole interval for each one    *)
(* that failed since, and what has passed of the present one.              *)
(***************************************************************************)
\* v was the price of m, or of m without its version, at most n ticks ago.
Within(m, v, n) == age[m][v] <= n \/ age[BaseOf[m]][v] <= n

\* Ticks since the last refresh of the cache that succeeded, if nothing is in flight.
SinceRefresh == failed * TTL + (TTL - due)

\* The oldest an entry of the cache can be: a tick more, for the lookup that filled it.
\* While a refresh has read the table, the ticker has started the next interval.
CacheAge == IF list = NoList THEN SinceRefresh + 1 ELSE failed * TTL + TTL + 1

\* A row of the table is the price now; so are the rows of a refresh, which is installed
\* before the next tick.
RowsFresh ==
    /\ \A m \in Models : price[m] \in Prices => age[m][price[m]] = 0
    /\ list # NoList =>
          /\ due = TTL
          /\ \A m \in Models : list[m] \in Prices => age[m][list[m]] = 0

CacheFresh == \A m \in Models : cost[m] \in Prices => Within(m, cost[m], CacheAge)

\* What a lookup knows of the age of the price it has got.
LookFresh(l) ==
    /\ l.step = "fill" => Within(l.model, l.got, IF l.late THEN 1 ELSE 0)
    /\ l.step = "done" /\ l.got \in Prices =>
          Within(l.model, l.got, Bound - 1 + (IF l.late THEN 1 ELSE 0))

Fresh == RowsFresh /\ CacheFresh /\ \A s \in Streams : LookFresh(look[s])

\* The arithmetic of intervals.
LEMMA Intervals ==
    ASSUME NEW n \in Nat
    PROVE  /\ n * TTL \in Nat
           /\ (n + 1) * TTL = n * TTL + TTL
           /\ \A k \in Nat : k <= n => k * TTL <= n * TTL
<1>1. TTL \in Nat
  BY PriceAssumption
<1>2. n * TTL \in Nat /\ (n + 1) * TTL = n * TTL + TTL
  BY <1>1
<1>3. ASSUME NEW k \in Nat, k <= n
      PROVE  k * TTL <= n * TTL
  BY <1>1, <1>3
<1> QED
  BY <1>2, <1>3

\* Nothing in the cache is ever older than the promise allows, less the tick of the
\* lookup that uses it.
LEMMA CacheWithin ==
    ASSUME Typed
    PROVE  /\ CacheAge \in Nat /\ 1 <= CacheAge /\ CacheAge <= Bound - 1
           /\ SinceRefresh \in Nat
<1>1. /\ failed \in Nat /\ failed <= MaxFailures /\ due \in Nat /\ due <= TTL
      /\ MaxFailures \in Nat /\ TTL \in Nat
  BY PriceAssumption DEF Typed, TypeOK
<1>2. /\ failed * TTL \in Nat /\ failed * TTL <= MaxFailures * TTL
      /\ (MaxFailures + 1) * TTL = MaxFailures * TTL + TTL /\ MaxFailures * TTL \in Nat
  BY <1>1, Intervals
<1> DEFINE x == failed * TTL
           y == MaxFailures * TTL
<1>3. Bound = y + TTL + 2
  BY <1>2, Constants
<1>4. CacheAge = IF list = NoList THEN x + (TTL - due) + 1 ELSE x + TTL + 1
  BY DEF CacheAge, SinceRefresh
<1>5. SinceRefresh = x + (TTL - due)
  BY DEF SinceRefresh
<1> HIDE DEF x, y
<1>6. x \in Nat /\ y \in Nat /\ x <= y
  BY <1>2 DEF x, y
<1> QED
  BY <1>1, <1>3, <1>4, <1>5, <1>6

\* An age that was known grows by at most k in a step in which every age does.
LEMMA WithinKept ==
    ASSUME Typed, Typed', NEW k \in {0, 1},
           \A m \in Models : \A v \in Prices : age'[m][v] <= age[m][v] + k,
           NEW m \in Models, NEW v \in Prices, NEW n \in Nat, Within(m, v, n),
           NEW o \in Nat, n + k <= o
    PROVE  Within(m, v, o)'
<1>1. BaseOf[m] \in Models
  BY PriceAssumption
<1>2. /\ age[m][v] \in Nat /\ age[BaseOf[m]][v] \in Nat
      /\ age'[m][v] \in Nat /\ age'[BaseOf[m]][v] \in Nat
  BY <1>1, Constants DEF Typed, TypeOK
<1>3. age'[m][v] <= age[m][v] + k /\ age'[BaseOf[m]][v] <= age[BaseOf[m]][v] + k
  BY <1>1
<1> QED
  BY <1>2, <1>3 DEF Within

\* A lookup that a step without a tick leaves alone stays fresh.
LEMMA LookKept ==
    ASSUME Typed, Typed', NEW s \in Streams, look'[s] = look[s], LookFresh(look[s]),
           \A m \in Models : \A v \in Prices : age'[m][v] <= age[m][v] + 0
    PROVE  LookFresh(look[s])'
<1> DEFINE l == look[s]
           n == IF l.late THEN 1 ELSE 0
<1>1. l.step = "fill" => l.model \in Models /\ l.got \in Prices
  BY DEF Typed
<1>2. l.got \in Prices => l.model \in Models
  BY DEF Typed
<1>3. n \in Nat /\ Bound - 1 + n \in Nat /\ Bound - 1 + n + 0 <= Bound - 1 + n /\ n + 0 <= n
  BY Constants
<1>4. l.step = "fill" => Within(l.model, l.got, n)'
  <2> SUFFICES ASSUME l.step = "fill"
               PROVE  Within(l.model, l.got, n)'
    OBVIOUS
  <2>1. Within(l.model, l.got, n)
    BY DEF LookFresh
  <2>2. l' = l /\ n' = n
    OBVIOUS
  <2> HIDE DEF l, n
  <2> QED
    BY <1>1, <1>3, <2>1, <2>2, WithinKept DEF Within
<1>5. l.step = "done" /\ l.got \in Prices => Within(l.model, l.got, Bound - 1 + n)'
  <2> SUFFICES ASSUME l.step = "done", l.got \in Prices
               PROVE  Within(l.model, l.got, Bound - 1 + n)'
    OBVIOUS
  <2>1. Within(l.model, l.got, Bound - 1 + n)
    BY DEF LookFresh
  <2>2. l' = l /\ n' = n
    OBVIOUS
  <2> HIDE DEF l, n
  <2> DEFINE o == Bound - 1 + n
  <2>3. o \in Nat /\ o + 0 <= o
    BY <1>3
  <2> HIDE DEF o
  <2>4. Within(l.model, l.got, o) /\ o' = o
    BY <2>1, <2>2 DEF o, Bound
  <2>5. Within(l.model, l.got, o)'
    BY <1>2, <2>2, <2>3, <2>4, WithinKept DEF Within
  <2> QED
    BY <2>5 DEF o
<1>6. /\ l'.step = l.step /\ l'.got = l.got /\ l'.late = l.late /\ l'.model = l.model
  OBVIOUS
<1> QED
  BY <1>4, <1>5, <1>6 DEF LookFresh

\* No age grows when nothing but the lookups and the cache changes.
LEMMA AgesKept ==
    ASSUME Typed, age' = age
    PROVE  \A m \in Models : \A v \in Prices : age'[m][v] <= age[m][v] + 0
<1>1. \A m \in Models : \A v \in Prices : age[m][v] \in Nat
  BY Constants DEF Typed, TypeOK
<1> QED
  BY <1>1

\* The entries of the cache stay as fresh as they were while the cache and its clock do.
LEMMA CacheKept ==
    ASSUME Typed, Typed', CacheFresh, cost' = cost, CacheAge' = CacheAge,
           \A m \in Models : \A v \in Prices : age'[m][v] <= age[m][v] + 0
    PROVE  CacheFresh'
<1> SUFFICES ASSUME NEW m \in Models, cost[m] \in Prices
             PROVE  Within(m, cost[m], CacheAge)'
  BY DEF CacheFresh
<1>1. Within(m, cost[m], CacheAge)
  BY DEF CacheFresh
<1>2. CacheAge \in Nat /\ CacheAge + 0 <= CacheAge
  BY CacheWithin
<1> HIDE DEF CacheAge
<1> QED
  BY <1>1, <1>2, WithinKept DEF Within

\* A step of one lookup keeps everything fresh if the lookup's new state is fresh.
LEMMA FreshLook ==
    ASSUME Typed, Typed', Fresh, NEW s \in Streams, NEW l,
           look' = [look EXCEPT ![s] = l],
           UNCHANGED <<price, cache, age>>, LookFresh(l)
    PROVE  Fresh'
<1>1. \A m \in Models : \A v \in Prices : age'[m][v] <= age[m][v] + 0
  BY AgesKept
<1>2. RowsFresh'
  BY DEF Fresh, RowsFresh, cache
<1>3. CacheAge' = CacheAge /\ cost' = cost
  BY DEF CacheAge, SinceRefresh, cache
<1>4. CacheFresh'
  BY <1>1, <1>3, CacheKept DEF Fresh
<1>5. ASSUME NEW t \in Streams
      PROVE  LookFresh(look[t])'
  <2>1. CASE t = s
    <3>1. look'[t] = l
      BY <2>1 DEF Typed
    <3> QED
      BY <3>1 DEF LookFresh, Within
  <2>2. CASE t # s
    <3>1. look'[t] = look[t]
      BY <2>2 DEF Typed
    <3> QED
      BY <1>1, <3>1, LookKept DEF Fresh
  <2> QED
    BY <2>1, <2>2
<1> QED
  BY <1>2, <1>4, <1>5 DEF Fresh

\* The steps of a lookup: what it finds in the cache is as fresh as the cache, and what
\* it reads from the table is the price now.
LEMMA FreshStreams ==
    ASSUME Typed, Typed', Fresh, NEW s \in Streams,
           \/ \E m \in Models \cup {NoModel} : GetModelCost(s, m)
           \/ GetModelCostByID(s) \/ GetBaseModelCost(s) \/ LookupFails(s)
           \/ UpdateCache(s) \/ CalculateCost(s)
    PROVE  Fresh'
<1>0. /\ look[s] \in Lookups /\ price \in [Models -> Prices \cup {NoPrice}]
      /\ cost \in [Models -> Prices \cup {NoPrice}] /\ left \in 0..TTL
      /\ look \in [Streams -> Lookups]
      /\ \A m \in Models : \A v \in Prices : age[m][v] \in Nat
      /\ \A m \in Models : BaseOf[m] \in Models
  BY Constants, PriceAssumption DEF Typed, TypeOK
<1>1. ASSUME NEW m \in Models \cup {NoModel}, GetModelCost(s, m)
      PROVE  Fresh'
  <2> DEFINE l == IF m \in Models /\ Valid /\ cost[m] # NoPrice
                  THEN [step |-> "done", model |-> m, got |-> cost[m], late |-> FALSE]
                  ELSE [step |-> "exact", model |-> m, got |-> NoPrice, late |-> FALSE]
  <2>1. /\ l.step # "fill" /\ l.late = FALSE
        /\ l.step = "done" => m \in Models /\ l.model = m /\ l.got = cost[m]
    BY DEF Lookups
  <2>2. look' = [look EXCEPT ![s] = l] /\ UNCHANGED <<price, cache, age>>
    BY <1>1 DEF GetModelCost
  <2> HIDE DEF l
  <2>3. ASSUME l.step = "done", l.got \in Prices
        PROVE  Within(l.model, l.got, Bound - 1 + 0)
    <3>1. Within(m, cost[m], CacheAge)
      BY <2>1, <2>3 DEF Fresh, CacheFresh
    <3>2. CacheAge \in Nat /\ CacheAge <= Bound - 1 /\ Bound \in Nat
      BY CacheWithin, Constants
    <3> HIDE DEF CacheAge
    <3> QED
      BY <1>0, <2>1, <2>3, <3>1, <3>2 DEF Within
  <2>4. LookFresh(l)
    BY <2>1, <2>3 DEF LookFresh
  <2> QED
    BY <2>2, <2>4, FreshLook
<1>2. CASE GetModelCostByID(s)
  <2> DEFINE m == look[s].model
             step == CASE RowOf(m) # NoPrice -> "fill"
                       [] m \in Models /\ BaseOf[m] # m -> "base"
                       [] OTHER -> "done"
             l == [look[s] EXCEPT !.got = RowOf(m), !.step = step]
  <2>1. /\ RowOf(m) \in Prices \cup {NoPrice} /\ m \in Models \cup {NoModel}
        /\ RowOf(m) # NoPrice => m \in Models /\ RowOf(m) = price[m] /\ price[m] \in Prices
    BY <1>0 DEF RowOf, Lookups
  <2>2. /\ step = "fill" => RowOf(m) # NoPrice
        /\ step = "done" => RowOf(m) = NoPrice
    OBVIOUS
  <2>3. /\ look' = [look EXCEPT ![s].got = RowOf(m), ![s].step = step]
        /\ UNCHANGED <<price, cache, age>>
    BY <1>2 DEF GetModelCostByID
  <2> HIDE DEF step
  <2>4. l.model = m /\ l.got = RowOf(m) /\ l.step = step
    BY <1>0 DEF Lookups
  <2>5. look' = [look EXCEPT ![s] = l]
    BY <1>0, <2>3
  <2>6. step = "fill" => age[m][RowOf(m)] = 0
    BY <2>1, <2>2 DEF Fresh, RowsFresh
  <2> HIDE DEF l
  <2>7. LookFresh(l)
    BY <2>1, <2>2, <2>4, <2>6, PriceAssumption DEF LookFresh, Within
  <2> QED
    BY <2>3, <2>5, <2>7, FreshLook
<1>3. CASE GetBaseModelCost(s)
  <2> DEFINE v == price[BaseOf[look[s].model]]
             step == IF v = NoPrice THEN "done" ELSE "fill"
             l == [look[s] EXCEPT !.got = v, !.step = step]
  <2>1. look[s].model \in Models /\ v \in Prices \cup {NoPrice}
    BY <1>0, <1>3 DEF GetBaseModelCost, Typed
  <2>2. (step = "fill" => v # NoPrice) /\ (step = "done" => v = NoPrice)
    OBVIOUS
  <2>3. /\ look' = [look EXCEPT ![s].got = v, ![s].step = step]
        /\ UNCHANGED <<price, cache, age>>
    BY <1>3 DEF GetBaseModelCost
  <2>6. v \in Prices => age[BaseOf[look[s].model]][v] = 0
    BY <1>0, <2>1 DEF Fresh, RowsFresh
  <2> HIDE DEF v, step
  <2>4. l.model = look[s].model /\ l.got = v /\ l.step = step
    BY <1>0 DEF Lookups
  <2>5. look' = [look EXCEPT ![s] = l]
    BY <1>0, <2>3
  <2> HIDE DEF l
  <2>7. LookFresh(l)
    BY <2>1, <2>2, <2>4, <2>6, PriceAssumption DEF LookFresh, Within
  <2> QED
    BY <2>3, <2>5, <2>7, FreshLook
<1>4. CASE LookupFails(s)
  <2> DEFINE l == [look[s] EXCEPT !.got = Failed, !.step = "done"]
  <2>1. l.got = Failed /\ l.step = "done"
    BY <1>0 DEF Lookups
  <2>2. look' = [look EXCEPT ![s] = l] /\ UNCHANGED <<price, cache, age>>
    BY <1>0, <1>4 DEF LookupFails
  <2> HIDE DEF l
  <2>3. LookFresh(l)
    BY <2>1, PriceAssumption DEF LookFresh
  <2> QED
    BY <2>2, <2>3, FreshLook
<1>5. CASE UpdateCache(s)
  <2> DEFINE m == look[s].model
             v == look[s].got
             l == [look[s] EXCEPT !.step = "done"]
             n == IF l.late THEN 1 ELSE 0
  <2>1. /\ l.got = v /\ l.step = "done" /\ l.model = m /\ l.late = look[s].late
    BY <1>0 DEF Lookups
  <2>2. m \in Models /\ v \in Prices /\ Within(m, v, n)
    BY <1>5, <2>1 DEF UpdateCache, Typed, Fresh, LookFresh
  <2>3. /\ look' = [look EXCEPT ![s] = l] /\ UNCHANGED <<price, due, list, failed, age>>
        /\ cost' = [cost EXCEPT ![m] = v]
    BY <1>0, <1>5 DEF UpdateCache
  <2>4. /\ CacheAge' = CacheAge /\ CacheAge \in Nat /\ 1 <= CacheAge /\ CacheAge <= Bound - 1
        /\ Bound \in Nat
    BY <2>3, CacheWithin, Constants DEF CacheAge, SinceRefresh
  <2>5. LookFresh(l)'
    <3>1. /\ Bound' = Bound /\ age' = age /\ l' = [look'[s] EXCEPT !.step = "done"]
      BY <2>3 DEF Bound
    <3>2. n <= Bound - 1 + n /\ n \in Nat /\ Bound - 1 + n \in Nat
      BY <2>4
    <3>3. look'[s] = l
      BY <1>0, <2>3
    <3>4. l'.got = v /\ l'.step = "done" /\ l'.model = m /\ l'.late = look[s].late
      BY <2>1, <3>1, <3>3
    <3>5. Within(m, v, Bound - 1 + n)
      BY <1>0, <2>2, <3>2 DEF Within
    <3>6. n = IF look[s].late THEN 1 ELSE 0
      BY <2>1
    <3> HIDE DEF m, v, l, n
    <3> QED
      BY <3>1, <3>4, <3>5, <3>6 DEF LookFresh, Within
  <2>6. ASSUME NEW t \in Streams
        PROVE  LookFresh(look[t])'
    <3>1. CASE t = s
      <4>1. look'[t] = l /\ l' = l
        BY <1>0, <2>3, <3>1
      <4> QED
        BY <2>5, <4>1 DEF LookFresh, Within
    <3>2. CASE t # s
      <4>1. look'[t] = look[t]
        BY <1>0, <2>3, <3>2
      <4> QED
        BY <2>3, <4>1, AgesKept, LookKept DEF Fresh
    <3> QED
      BY <3>1, <3>2
  <2>7. CacheFresh'
    <3> SUFFICES ASSUME NEW k \in Models, cost'[k] \in Prices
                 PROVE  Within(k, cost[k], CacheAge)'
      BY DEF CacheFresh
    <3> HIDE DEF CacheAge
    <3>1. CASE k = m
      BY <1>0, <2>2, <2>3, <2>4, <3>1 DEF Within
    <3>2. CASE k # m
      BY <1>0, <2>2, <2>3, <2>4, <3>2 DEF Within, Fresh, CacheFresh
    <3> QED
      BY <3>1, <3>2
  <2> QED
    BY <2>3, <2>6, <2>7 DEF Fresh, RowsFresh
<1>6. CASE CalculateCost(s)
  <2>1. NoLookup.step = "idle"
    BY DEF NoLookup
  <2>2. LookFresh(NoLookup)
    BY <2>1 DEF LookFresh
  <2> HIDE DEF NoLookup
  <2> QED
    BY <1>6, <2>2, FreshLook DEF CalculateCost
<1> QED
  BY <1>1, <1>2, <1>3, <1>4, <1>5, <1>6

\* The reads of a refresh, refreshes that fail and refreshes that succeed.
LEMMA FreshRefresh ==
    ASSUME Typed, Typed', Fresh, ListModelCosts \/ RefreshFails \/ RefreshModelCostCache
    PROVE  Fresh'
<1> DEFINE x == failed * TTL
<1>0. /\ failed \in Nat /\ due \in 0..TTL /\ TTL \in Nat \ {0} /\ x \in Nat
      /\ (failed + 1) * TTL = x + TTL /\ 0 * TTL = 0
      /\ cost \in [Models -> Prices \cup {NoPrice}]
      /\ \A m \in Models : \A v \in Prices : age[m][v] \in Nat
  BY Constants, Intervals, PriceAssumption DEF Typed, TypeOK
<1>1. UNCHANGED <<price, look, age>>
  BY DEF ListModelCosts, RefreshFails, RefreshModelCostCache
<1>2. \A m \in Models : \A v \in Prices : age'[m][v] <= age[m][v] + 0
  BY <1>1, AgesKept
<1>3. \A s \in Streams : LookFresh(look[s])'
  BY <1>1, <1>2, LookKept DEF Fresh
<1>4. CacheAge = IF list = NoList THEN x + (TTL - due) + 1 ELSE x + TTL + 1
  BY DEF CacheAge, SinceRefresh
<1>5. CASE ListModelCosts
  <2>1. due = 0 /\ due' = TTL /\ UNCHANGED <<cost, failed>>
    BY <1>5 DEF ListModelCosts
  <2>2. list = NoList
    BY <1>0, <2>1 DEF Fresh, RowsFresh
  <2>3. \A m \in Models : list'[m] \in Prices => list'[m] = price[m]
    BY <1>5, PriceAssumption DEF ListModelCosts
  <2>4. RowsFresh'
    BY <1>1, <2>1, <2>3 DEF Fresh, RowsFresh
  <2>5. CASE Models = {}
    BY <1>3, <2>4, <2>5 DEF Fresh, CacheFresh
  <2>6. CASE Models # {}
    <3>1. DOMAIN list' = Models /\ DOMAIN NoList = {}
      BY <1>5 DEF ListModelCosts, NoList
    <3>2. list' # NoList
      BY <2>6, <3>1
    <3>3. CacheAge = x + (TTL - 0) + 1
      BY <1>4, <2>1, <2>2
    <3>4. CacheAge' = x + TTL + 1
      BY <2>1, <3>2 DEF CacheAge
    <3>5. CacheAge' = CacheAge
      BY <1>0, <3>3, <3>4
    <3> QED
      BY <1>2, <1>3, <2>1, <2>4, <3>5, CacheKept DEF Fresh
  <2> QED
    BY <2>5, <2>6
<1>6. CASE RefreshFails
  <2>1. due = 0 /\ due' = TTL /\ UNCHANGED <<cost, list>> /\ failed' = failed + 1
    BY <1>6 DEF RefreshFails
  <2>2. list = NoList
    BY <1>0, <2>1 DEF Fresh, RowsFresh
  <2>3. RowsFresh'
    BY <1>1, <2>1, <2>2 DEF Fresh, RowsFresh
  <2>4. CacheAge' = (failed + 1) * TTL + (TTL - TTL) + 1
    BY <2>1, <2>2 DEF CacheAge, SinceRefresh, NoList
  <2> HIDE DEF x
  <2>5. CacheAge' = CacheAge
    BY <1>0, <1>4, <2>1, <2>2, <2>4
  <2> QED
    BY <1>2, <1>3, <2>1, <2>3, <2>5, CacheKept DEF Fresh
<1>7. CASE RefreshModelCostCache
  <2>1. list # NoList /\ cost' = list /\ list' = NoList /\ failed' = 0 /\ UNCHANGED due
    BY <1>7 DEF RefreshModelCostCache, Replaced
  <2>2. due = TTL
    BY <2>1 DEF Fresh, RowsFresh
  <2>3. RowsFresh'
    BY <1>1, <2>1 DEF Fresh, RowsFresh, NoList
  <2>4. CacheAge' = 0 * TTL + (TTL - TTL) + 1
    BY <2>1, <2>2 DEF CacheAge, SinceRefresh, NoList
  <2>5. CacheAge' = 1
    BY <1>0, <2>4
  <2>6. CacheFresh'
    <3> SUFFICES ASSUME NEW m \in Models, cost'[m] \in Prices
                 PROVE  Within(m, cost[m], CacheAge)'
      BY DEF CacheFresh
    <3>1. age'[m][cost'[m]] = 0
      BY <1>1, <2>1 DEF Fresh, RowsFresh
    <3> HIDE DEF CacheAge
    <3> QED
      BY <2>5, <3>1 DEF Within
  <2> QED
    BY <1>3, <2>3, <2>6 DEF Fresh
<1> QED
  BY <1>5, <1>6, <1>7

\* An edit of the table makes one value the price now, and no other any older.
LEMMA FreshEdit ==
    ASSUME Typed, Typed', Fresh, NEW m \in Models, NEW v \in Prices \cup {NoPrice},
           SetPrice(m, v)
    PROVE  Fresh'
<1>0. /\ age \in [Models -> [Prices -> 0..Oldest]] /\ price \in [Models -> Prices \cup {NoPrice}]
      /\ Oldest \in Nat
  BY Constants DEF Typed, TypeOK
<1>1. /\ price' = [price EXCEPT ![m] = v] /\ UNCHANGED <<cost, left, due, list, failed, look>>
      /\ age' = IF v = NoPrice THEN age ELSE [age EXCEPT ![m][v] = 0]
  BY DEF SetPrice, cache
<1>2. \A k \in Models : \A w \in Prices :
          age'[k][w] = IF v # NoPrice /\ k = m /\ w = v THEN 0 ELSE age[k][w]
  BY <1>0, <1>1
<1>3. \A k \in Models : \A w \in Prices : age'[k][w] <= age[k][w] + 0
  BY <1>0, <1>2
<1>4. RowsFresh'
  <2>1. \A k \in Models : price'[k] \in Prices => age'[k][price'[k]] = 0
    BY <1>0, <1>1, <1>2, PriceAssumption DEF Fresh, RowsFresh
  <2>2. list # NoList => due' = TTL /\ list' = list
                         /\ \A k \in Models : list[k] \in Prices => age'[k][list[k]] = 0
    BY <1>1, <1>2 DEF Fresh, RowsFresh
  <2> QED
    BY <1>1, <2>1, <2>2 DEF RowsFresh, NoList
<1>5. CacheAge' = CacheAge
  BY <1>1 DEF CacheAge, SinceRefresh, NoList
<1>6. CacheFresh'
  BY <1>1, <1>3, <1>5, CacheKept DEF Fresh
<1> QED
  BY <1>1, <1>3, <1>4, <1>6, LookKept DEF Fresh

\* A pod that restarts has nothing to be stale.
LEMMA FreshRestart ==
    ASSUME Typed, Typed', Fresh, Restart
    PROVE  Fresh'
<1>1. /\ cost' = NoRows /\ list' = NoList /\ UNCHANGED <<price, age>>
      /\ look' = [s \in Streams |-> NoLookup]
  BY DEF Restart
<1>2. NoLookup.step = "idle"
  BY DEF NoLookup
<1>3. \A s \in Streams : LookFresh(look[s])'
  <2> HIDE DEF NoLookup
  <2> QED
    BY <1>1, <1>2 DEF LookFresh
<1>4. CacheFresh'
  BY <1>1, PriceAssumption DEF CacheFresh, NoRows
<1> QED
  BY <1>1, <1>3, <1>4 DEF Fresh, RowsFresh, NoList

\* A tick ages everything by one: the cache, whose clock shows it, and each lookup, which
\* is late from now on and was not before.
LEMMA FreshTick ==
    ASSUME Typed, Typed', Fresh, Tick
    PROVE  Fresh'
<1>0. /\ age \in [Models -> [Prices -> 0..Oldest]] /\ price \in [Models -> Prices \cup {NoPrice}]
      /\ Oldest \in Nat /\ Bound \in Nat /\ due \in 0..TTL /\ TTL \in Nat
      /\ look \in [Streams -> Lookups]
  BY Constants, PriceAssumption DEF Typed, TypeOK
<1>1. /\ due > 0 /\ list = NoList /\ due' = due - 1 /\ UNCHANGED <<price, cost, list, failed>>
      /\ age' = [m \in Models |-> [v \in Prices |->
            IF price[m] = v THEN 0 ELSE IF age[m][v] < Oldest THEN age[m][v] + 1 ELSE Oldest]]
      /\ \A s \in Streams :
            /\ look[s].step # "idle" => ~look[s].late
            /\ look'[s] =
                 IF look[s].step = "idle" THEN look[s] ELSE [look[s] EXCEPT !.late = TRUE]
  BY DEF Tick
<1>2. \A m \in Models : \A v \in Prices :
          age'[m][v] = IF price[m] = v THEN 0
                       ELSE IF age[m][v] < Oldest THEN age[m][v] + 1 ELSE Oldest
  BY <1>1
<1>3. \A m \in Models : \A v \in Prices : age'[m][v] <= age[m][v] + 1
  BY <1>0, <1>2
<1>4. RowsFresh'
  BY <1>1, <1>2 DEF RowsFresh, NoList
<1>5. CacheAge' = CacheAge + 1
  <2> DEFINE x == failed * TTL
  <2>1. x \in Nat
    BY Intervals DEF Typed, TypeOK
  <2>2. CacheAge = x + (TTL - due) + 1 /\ CacheAge' = x + (TTL - (due - 1)) + 1
    BY <1>1 DEF CacheAge, SinceRefresh, NoList
  <2> HIDE DEF x
  <2> QED
    BY <1>0, <2>1, <2>2
<1>6. CacheFresh'
  <2> SUFFICES ASSUME NEW m \in Models, cost[m] \in Prices
               PROVE  Within(m, cost[m], CacheAge)'
    BY <1>1 DEF CacheFresh
  <2>1. Within(m, cost[m], CacheAge)
    BY DEF Fresh, CacheFresh
  <2>2. CacheAge \in Nat /\ CacheAge' \in Nat /\ CacheAge + 1 <= CacheAge'
    BY <1>5, CacheWithin
  <2> HIDE DEF CacheAge
  <2> QED
    BY <1>1, <1>3, <2>1, <2>2, WithinKept DEF Within
<1>7. ASSUME NEW s \in Streams
      PROVE  LookFresh(look[s])'
  <2>1. CASE look[s].step = "idle"
    BY <1>1, <2>1 DEF LookFresh
  <2>2. CASE look[s].step # "idle"
    <3> DEFINE l == look[s]
               o == Bound - 1
               p == Bound
    <3>1. /\ look'[s].step = l.step /\ look'[s].model = l.model /\ look'[s].got = l.got
          /\ look'[s].late = TRUE /\ ~l.late
      BY <1>0, <1>1, <2>2 DEF Lookups
    <3>2. l.got \in Prices => l.model \in Models
      BY DEF Typed
    <3>3. l.step = "fill" => l.got \in Prices
      BY DEF Typed
    <3>4. /\ l.step = "fill" => Within(l.model, l.got, 0)
          /\ l.step = "done" /\ l.got \in Prices => Within(l.model, l.got, o)
      <4>1. Bound - 1 + 0 = o
        BY <1>0
      <4> QED
        BY <3>1, <4>1 DEF Fresh, LookFresh
    <3>5. 0 + 1 <= 1 /\ o \in Nat /\ p \in Nat /\ o + 1 <= p /\ p' = p
      BY <1>0, CacheWithin DEF Bound
    <3>6. o + 1 = p
      BY <1>0
    <3> DEFINE g == l.got
               m == l.model
    <3>7. m \in Models /\ g \in Prices /\ Within(m, g, 0) =>
            age'[m][g] <= 1 \/ age'[BaseOf[m]][g] <= 1
      <4> HIDE DEF m, g, l
      <4> QED
        BY <1>3, <3>5, WithinKept DEF Within
    <3>8. m \in Models /\ g \in Prices /\ Within(m, g, o) =>
            age'[m][g] <= p \/ age'[BaseOf[m]][g] <= p
      <4> HIDE DEF m, g, l, o, p
      <4> QED
        BY <1>3, <3>5, WithinKept DEF Within
    <3>9. Bound' - 1 + 1 = p
      BY <1>0 DEF Bound
    <3> QED
      BY <3>1, <3>2, <3>3, <3>4, <3>7, <3>8, <3>9 DEF LookFresh, Within
  <2> QED
    BY <2>1, <2>2
<1> QED
  BY <1>4, <1>6, <1>7 DEF Fresh

\* An empty cache, and rows that are the prices now.
LEMMA FreshInit == Init => Fresh
<1> SUFFICES ASSUME Init
             PROVE  Fresh
  OBVIOUS
<1>1. \A m \in Models : price[m] \in Prices => age[m][price[m]] = 0
  BY DEF Init
<1>2. CacheFresh
  BY PriceAssumption DEF Init, NoRows, CacheFresh
<1>3. \A s \in Streams : look[s].step = "idle"
  BY DEF Init, NoLookup
<1> QED
  BY <1>1, <1>2, <1>3 DEF Init, Fresh, RowsFresh, LookFresh

\* Every step keeps everything fresh.
LEMMA FreshStep == Typed /\ Typed' /\ Fresh /\ [Next]_vars => Fresh'
<1> SUFFICES ASSUME Typed, Typed', Fresh, [Next]_vars
             PROVE  Fresh'
  OBVIOUS
<1>1. CASE UNCHANGED vars
  BY <1>1 DEF vars, cache, Fresh, RowsFresh, CacheFresh, LookFresh, Within, CacheAge,
              SinceRefresh, NoList
<1>2. ASSUME NEW m \in Models, NEW v \in Prices, CreateModelCost(m, v) \/ UpdateModelCost(m, v)
      PROVE  Fresh'
  BY <1>2, FreshEdit DEF CreateModelCost, UpdateModelCost
<1>3. ASSUME NEW m \in Models, DeleteModelCost(m)
      PROVE  Fresh'
  BY <1>3, FreshEdit DEF DeleteModelCost
<1> QED
  BY <1>1, <1>2, <1>3, FreshStreams, FreshRefresh, FreshRestart, FreshTick DEF Next

\* The minimum of two numbers is at most a bound that one of them respects.
LEMMA MinOfTwo ==
    ASSUME NEW x \in Nat, NEW y \in Nat, NEW n \in Nat, x <= n \/ y <= n
    PROVE  Min({x, y}) <= n
<1>1. \E z \in {x, y} : \A w \in {x, y} : z <= w
  <2>1. CASE x <= y
    BY <2>1
  <2>2. CASE y <= x
    BY <2>2
  <2> QED
    BY <2>1, <2>2
<1>2. Min({x, y}) \in {x, y} /\ \A w \in {x, y} : Min({x, y}) <= w
  BY <1>1 DEF Min
<1> QED
  BY <1>2

\* A price stops being used at most Bound ticks after it was changed: an interval of the
\* ticker for each refresh that fails and one more, a tick for the lookup that cached it and
\* one for the lookup that uses it.  That a fill makes an expired cache valid again
\* (budget/service.go:130) does not matter: an entry's age is bounded by the refreshes alone.
THEOREM PricesStayFresh == Spec => []PricesAreFresh
<1>1. Typed /\ Fresh => PricesAreFresh
  <2> SUFFICES ASSUME Typed, Fresh, NEW s \in Streams,
                      look[s].step = "done", look[s].got \in Prices
               PROVE  Min({age[look[s].model][look[s].got],
                           age[BaseOf[look[s].model]][look[s].got]}) <= Bound
    BY DEF PricesAreFresh
  <2> DEFINE m == look[s].model
             v == look[s].got
             n == Bound - 1 + (IF look[s].late THEN 1 ELSE 0)
  <2>1. m \in Models /\ v \in Prices /\ BaseOf[m] \in Models
    BY PriceAssumption DEF Typed
  <2>2. Within(m, v, n) /\ n <= Bound /\ n \in Int /\ Bound \in Nat
    BY Constants DEF Fresh, LookFresh
  <2> HIDE DEF m, v, n
  <2>3. age[m][v] \in Nat /\ age[BaseOf[m]][v] \in Nat
    BY <2>1, Constants DEF Typed, TypeOK
  <2>4. age[m][v] <= Bound \/ age[BaseOf[m]][v] <= Bound
    BY <2>2, <2>3 DEF Within
  <2>5. Min({age[m][v], age[BaseOf[m]][v]}) <= Bound
    BY <2>2, <2>3, <2>4, MinOfTwo
  <2> QED
    BY <2>5 DEF m, v
<1>2. Spec => []Fresh
  BY FreshInit, FreshStep, AlwaysTyped, PTL DEF Spec
<1> QED
  BY <1>1, <1>2, AlwaysTyped, PTL
=============================================================================
