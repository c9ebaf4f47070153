------------------------ MODULE RateLimitStreamsProofs ------------------------
(***************************************************************************)
(* Proofs about RateLimitStreams, for any number of streams, teams, models *)
(* and patterns, and whatever the patterns match.                          *)
(***************************************************************************)
EXTENDS RateLimitStreams, FiniteSetTheorems, TLAPS

(***************************************************************************)
(* The order of the rows.                                                  *)
(***************************************************************************)
\* The order of the natural numbers, as a relation that is well-founded.
Less == {ss \in Nat \X Nat : ss[1] < ss[2]}

\* The minimum of a set of natural numbers is its least element.
LEMMA LeastOf ==
    ASSUME NEW T, T \subseteq Nat, T # {}
    PROVE  Min(T) \in T /\ \A y \in T : Min(T) <= y
<1>1. IsWellFoundedOn(Less, Nat)
  BY NatLessThanWellFounded, Zenon DEF OpToRel, Less
<1>2. PICK x \in T : \A y \in T : <<y, x>> \notin Less
  BY <1>1, WFMin
<1>3. ASSUME NEW y \in T
      PROVE  x <= y
  <2>1. x \in Nat /\ y \in Nat
    OBVIOUS
  <2>2. <<y, x>> \in Less <=> y < x
    BY <2>1 DEF Less
  <2> QED
    BY <1>2, <2>1, <2>2
<1>4. \E z \in T : \A y \in T : z <= y
  BY <1>3
<1> QED
  BY <1>4 DEF Min

\* A sequence of a finite set without repetitions has every element of the set.
LEMMA SeqsHaveAll ==
    ASSUME NEW S, IsFiniteSet(S), NEW rows \in SetToSeqs(S)
    PROVE  /\ Cardinality(S) \in Nat /\ rows \in [1..Cardinality(S) -> S]
           /\ \A x \in S : \E i \in 1..Cardinality(S) : rows[i] = x
<1> DEFINE c == Cardinality(S)
<1>1. c \in Nat
  BY FS_CardinalityType
<1>2. rows \in [1..c -> S] /\ \A i, j \in 1..c : i # j => rows[i] # rows[j]
  BY DEF SetToSeqs
<1>3. rows \in Injection(1..c, S)
  BY <1>2 DEF Injection, IsInjective
<1>4. Cardinality(1..c) = c
  <2>1. 1 \in Int /\ c \in Int
    BY <1>1
  <2> HIDE DEF c
  <2>2. Cardinality(1..c) = IF 1 > c THEN 0 ELSE c - 1 + 1
    BY <2>1, FS_Interval
  <2> QED
    BY <1>1, <2>2
<1>5. rows \in Surjection(1..c, S)
  BY <1>3, <1>4, FS_Injection
<1> QED
  BY <1>1, <1>2, <1>5 DEF Surjection

-----------------------------------------------------------------------------
(***************************************************************************)
(* The merge of the limits.                                                *)
(***************************************************************************)
\* What a lookup takes for a limit is the first row that provides it: of the most specific
\* class of patterns that has such a row, and missing only if no allocation has the limit.
LEMMA FirstIsMostSpecific ==
    ASSUME table \in [Teams \X Patterns -> Rows \cup {NoRow}],
           NEW t \in Teams, NEW m \in Models, NEW l \in Limits,
           NEW rows \in GetAllocationsForTeamModel(t, m)
    PROVE  LET of == Providers(t, m, l)
               p  == lookupRateLimitAllocation(t, rows)[l]
           IN  /\ p \in Patterns \cup {Missing}
               /\ IF of = {} THEN p = Missing
                  ELSE p \in of /\ \A q \in of : Class(m, p) <= Class(m, q)
<1> DEFINE S == {p \in Patterns : table[<<t, p>>] # NoRow /\ Matches(m, p)}
           c == Cardinality(S)
           having == {i \in DOMAIN rows : Provides(t, rows[i], l)}
           of == Providers(t, m, l)
           p == lookupRateLimitAllocation(t, rows)[l]
<1>1. IsFiniteSet(S)
  BY RateLimitStreamAssumption, FS_Subset
<1>2. /\ rows \in SetToSeqs(S)
      /\ \A i, j \in DOMAIN rows : i < j => Class(m, rows[i]) <= Class(m, rows[j])
  BY DEF GetAllocationsForTeamModel, Specificity
<1>3. /\ c \in Nat /\ rows \in [1..c -> S]
      /\ \A x \in S : \E i \in 1..c : rows[i] = x
  BY <1>1, <1>2, SeqsHaveAll
<1>4. \A q \in of : q \in S
  <2> SUFFICES ASSUME NEW q \in of
               PROVE  q \in S
    OBVIOUS
  <2>1. q \in Patterns /\ Matches(m, q) /\ table[<<t, q>>].enforced
    BY DEF Providers, Provides
  <2>2. NoRow.enforced = FALSE
    BY DEF NoRow
  <2> HIDE DEF NoRow
  <2>3. table[<<t, q>>] # NoRow
    BY <2>1, <2>2
  <2> QED
    BY <2>1, <2>3
<1>5. p = IF having = {} THEN Missing ELSE rows[Min(having)]
  BY DEF lookupRateLimitAllocation
<1>6. \A i \in 1..c : i \in having <=> rows[i] \in of
  <2> SUFFICES ASSUME NEW i \in 1..c
               PROVE  i \in having <=> rows[i] \in of
    OBVIOUS
  <2>1. rows[i] \in Patterns /\ Matches(m, rows[i]) /\ DOMAIN rows = 1..c
    BY <1>3
  <2> QED
    BY <2>1 DEF Providers
<1>7. CASE of = {}
  <2>1. having = {}
    BY <1>3, <1>6, <1>7
  <2> QED
    BY <1>5, <1>7, <2>1
<1>8. CASE of # {}
  <2>1. PICK q \in of : TRUE
    BY <1>8
  <2>2. PICK k \in 1..c : rows[k] = q
    BY <1>3, <1>4
  <2>3. having \subseteq Nat /\ having # {}
    <3>1. DOMAIN rows = 1..c /\ k \in having
      BY <1>3, <1>6, <2>2
    <3>2. having \subseteq DOMAIN rows
      OBVIOUS
    <3> HIDE DEF having, c
    <3> QED
      BY <1>3, <3>1, <3>2
  <2> DEFINE i == Min(having)
  <2> HIDE DEF having, S, of
  <2>4. i \in having /\ \A j \in having : i <= j
    BY <2>3, LeastOf
  <2>5. i \in 1..c /\ p = rows[i]
    BY <1>3, <1>5, <2>3, <2>4 DEF having
  <2> HIDE DEF i, c, p
  <2>6. p \in of
    BY <1>6, <2>4, <2>5
  <2>7. ASSUME NEW r \in of
        PROVE  Class(m, p) <= Class(m, r)
    <3>1. PICK j \in 1..c : rows[j] = r
      BY <1>3, <1>4
    <3>2. i <= j
      BY <1>6, <2>4, <3>1
    <3>3. CASE i = j
      <4>1. p = r /\ r \in Patterns
        BY <2>5, <3>1, <3>3 DEF of, Providers
      <4>2. Class(m, r) \in 0..2
        BY <4>1, RateLimitStreamAssumption
      <4> QED
        BY <4>1, <4>2
    <3>4. CASE i # j
      <4>1. i < j /\ i \in DOMAIN rows /\ j \in DOMAIN rows
        BY <1>3, <2>5, <3>2, <3>4
      <4> QED
        BY <1>2, <2>5, <3>1, <4>1
    <3> QED
      BY <3>3, <3>4
  <2>8. p \in Patterns
    BY <2>6 DEF of, Providers
  <2> QED
    BY <1>8, <2>6, <2>7, <2>8 DEF p, of
<1> QED
  BY <1>7, <1>8

\* The limits of a lookup are those of patterns.
LEMMA LookupTypes ==
    ASSUME table \in [Teams \X Patterns -> Rows \cup {NoRow}],
           NEW t \in Teams, NEW m \in Models, NEW rows \in GetAllocationsForTeamModel(t, m)
    PROVE  lookupRateLimitAllocation(t, rows) \in [Limits -> Patterns \cup {Missing}]
<1> DEFINE f == lookupRateLimitAllocation(t, rows)
<1>1. \A l \in Limits : f[l] \in Patterns \cup {Missing}
  BY FirstIsMostSpecific
<1>2. f = [l \in Limits |-> f[l]]
  BY DEF lookupRateLimitAllocation
<1> HIDE DEF f
<1>3. f \in [Limits -> Patterns \cup {Missing}]
  BY <1>1, <1>2
<1> QED
  BY <1>3 DEF f
-----------------------------------------------------------------------------
(***************************************************************************)
(* Types.                                                                  *)
(***************************************************************************)
\* The opening of a stream, with whatever limits it gets.
LEMMA TypeOpened ==
    ASSUME TypeOK, NEW s \in Streams, NEW t \in Teams \cup {Missing},
           NEW m \in Models \cup {Missing}, Opened(s, t, m),
           NEW meta \in [Limits -> Patterns \cup {Missing}],
           metadata' = [metadata EXCEPT ![s] = meta],
           meta # NoLimits => t # Missing /\ m # Missing,
           NEW l \in {"limited", "open"}, pc' = [pc EXCEPT ![s] = l]
    PROVE  TypeOK'
<1>1. /\ team' = [team EXCEPT ![s] = t] /\ model' = [model EXCEPT ![s] = m]
      /\ UNCHANGED <<table, named, left>>
      /\ \E i \in Ids : id' = [id EXCEPT ![s] = i] /\ states' = states \cup {i}
  BY DEF Opened
<1>2. /\ table' \in [Teams \X Patterns -> Rows \cup {NoRow}]
      /\ pc' \in [Streams -> {"idle", "limited", "open", "sent"}]
      /\ id' \in [Streams -> Ids]
      /\ team' \in [Streams -> Teams \cup {Missing}]
      /\ model' \in [Streams -> Models \cup {Missing}]
      /\ metadata' \in [Streams -> [Limits -> Patterns \cup {Missing}]]
      /\ named' \in [Streams -> Models \cup {Missing}]
      /\ states' \subseteq Ids /\ left' \subseteq Ids
  BY <1>1 DEF TypeOK
<1>3. ASSUME NEW u \in Streams
      PROVE  /\ metadata'[u] # NoLimits => team'[u] # Missing /\ model'[u] # Missing
             /\ pc'[u] = "sent" /\ model'[u] # Missing => named'[u] # Missing
  <2>1. CASE u = s
    <3>1. metadata'[u] = meta /\ team'[u] = t /\ model'[u] = m /\ pc'[u] = l
      BY <1>1, <2>1 DEF TypeOK
    <3> QED
      BY <3>1
  <2>2. CASE u # s
    <3>1. /\ metadata'[u] = metadata[u] /\ team'[u] = team[u] /\ model'[u] = model[u]
          /\ pc'[u] = pc[u] /\ named'[u] = named[u]
      BY <1>1, <2>2 DEF TypeOK
    <3> QED
      BY <3>1 DEF TypeOK
  <2> QED
    BY <2>1, <2>2
<1> QED
  BY <1>2, <1>3 DEF TypeOK, NoLimits

\* Every step keeps the types.
LEMMA TypeStep == TypeOK /\ [Next]_vars => TypeOK'
<1> SUFFICES ASSUME TypeOK, [Next]_vars
             PROVE  TypeOK'
  OBVIOUS
<1>0. NoLimits \in [Limits -> Patterns \cup {Missing}]
  BY DEF NoLimits
<1>1. CASE UNCHANGED vars
  BY <1>1 DEF vars, request, TypeOK
<1>2. CASE Administer
  <2>1. PICK t \in Teams, p \in Patterns, row \in Rows \cup {NoRow} :
            table' = [table EXCEPT ![<<t, p>>] = row]
    BY <1>2 DEF Administer
  <2>2. table' \in [Teams \X Patterns -> Rows \cup {NoRow}]
    <3> HIDE DEF NoRow
    <3> QED
      BY <2>1 DEF TypeOK
  <2>3. UNCHANGED <<pc, id, team, model, metadata, named, states, left>>
    BY <1>2 DEF Administer, request
  <2> QED
    BY <2>2, <2>3 DEF TypeOK
<1>3. ASSUME NEW s \in Streams, Lookup(s)
      PROVE  TypeOK'
  <2>1. PICK t \in Teams, m \in Models : \E rows \in GetAllocationsForTeamModel(t, m) :
            /\ Opened(s, t, m)
            /\ metadata' = [metadata EXCEPT ![s] = lookupRateLimitAllocation(t, rows)]
            /\ pc' = [pc EXCEPT ![s] = "limited"]
    BY <1>3 DEF Lookup
  <2>2. PICK rows \in GetAllocationsForTeamModel(t, m) :
            /\ Opened(s, t, m)
            /\ metadata' = [metadata EXCEPT ![s] = lookupRateLimitAllocation(t, rows)]
            /\ pc' = [pc EXCEPT ![s] = "limited"]
    BY <2>1
  <2> DEFINE meta == lookupRateLimitAllocation(t, rows)
  <2>3. meta \in [Limits -> Patterns \cup {Missing}]
    BY LookupTypes DEF TypeOK
  <2>4. t # Missing /\ m # Missing
    BY RateLimitStreamAssumption
  <2> HIDE DEF meta
  <2>5. metadata' = [metadata EXCEPT ![s] = meta]
    BY <2>2 DEF meta
  <2> QED
    BY <2>2, <2>3, <2>4, <2>5, TypeOpened
<1>4. ASSUME NEW s \in Streams, FailOpen(s)
      PROVE  TypeOK'
  <2>1. PICK t \in Teams \cup {Missing}, m \in Models \cup {Missing} :
            /\ Opened(s, t, m)
            /\ metadata' = [metadata EXCEPT ![s] = NoLimits]
            /\ pc' = [pc EXCEPT ![s] = "open"]
    BY <1>4 DEF FailOpen
  <2> HIDE DEF NoLimits
  <2> QED
    BY <1>0, <2>1, TypeOpened
<1>5. ASSUME NEW s \in Streams, RequestBody(s)
      PROVE  TypeOK'
  <2>1. PICK m \in Models \cup {Missing} :
            named' = [named EXCEPT ![s] = extractModel(model[s], m)]
    BY <1>5 DEF RequestBody
  <2>2. /\ states' = states \ {id[s]} /\ left' = left \ {id[s]}
        /\ pc' = [pc EXCEPT ![s] = "sent"] /\ UNCHANGED <<table, id, team, model, metadata>>
    BY <1>5 DEF RequestBody, Dropped
  <2>3. /\ extractModel(model[s], m) \in Models \cup {Missing}
        /\ model[s] # Missing => extractModel(model[s], m) # Missing
    BY DEF extractModel, TypeOK
  <2>4. ASSUME NEW u \in Streams
        PROVE  pc'[u] = "sent" /\ model'[u] # Missing => named'[u] # Missing
    <3>1. CASE u = s
      BY <2>1, <2>2, <2>3, <3>1 DEF TypeOK
    <3>2. CASE u # s
      BY <2>1, <2>2, <3>2 DEF TypeOK
    <3> QED
      BY <3>1, <3>2
  <2> QED
    BY <2>1, <2>2, <2>3, <2>4 DEF TypeOK, NoLimits
<1>6. ASSUME NEW s \in Streams, StreamEnds(s)
      PROVE  TypeOK'
  <2>1. /\ pc' = [pc EXCEPT ![s] = "idle"] /\ team' = [team EXCEPT ![s] = Missing]
        /\ model' = [model EXCEPT ![s] = Missing]
        /\ metadata' = [metadata EXCEPT ![s] = NoLimits]
        /\ named' = [named EXCEPT ![s] = Missing] /\ UNCHANGED <<table, id, states>>
        /\ left' = IF pc[s] = "sent" THEN left ELSE left \cup {id[s]}
    BY <1>6 DEF StreamEnds, Closed
  <2> HIDE DEF NoLimits
  <2>2. ASSUME NEW u \in Streams
        PROVE  /\ metadata'[u] # NoLimits => team'[u] # Missing /\ model'[u] # Missing
               /\ pc'[u] = "sent" /\ model'[u] # Missing => named'[u] # Missing
    <3>1. CASE u = s
      BY <2>1, <3>1 DEF TypeOK
    <3>2. CASE u # s
      BY <2>1, <3>2 DEF TypeOK
    <3> QED
      BY <3>1, <3>2
  <2>3. /\ table' \in [Teams \X Patterns -> Rows \cup {NoRow}]
        /\ pc' \in [Streams -> {"idle", "limited", "open", "sent"}]
        /\ id' \in [Streams -> Ids]
        /\ team' \in [Streams -> Teams \cup {Missing}]
        /\ model' \in [Streams -> Models \cup {Missing}]
        /\ metadata' \in [Streams -> [Limits -> Patterns \cup {Missing}]]
        /\ named' \in [Streams -> Models \cup {Missing}]
        /\ states' \subseteq Ids /\ left' \subseteq Ids
    BY <1>0, <2>1 DEF TypeOK
  <2> QED
    BY <2>2, <2>3 DEF TypeOK, NoLimits
<1> QED
  BY <1>1, <1>2, <1>3, <1>4, <1>5, <1>6 DEF Next

\* The types; metadata comes from a lookup for a team and a model only, and a model that is
\* known from the header is named if the body has none.
THEOREM RateLimitTypes == Spec => []TypeOK
<1>1. Init => TypeOK
  <2> SUFFICES ASSUME Init
               PROVE  TypeOK
    OBVIOUS
  <2>1. id \in [Streams -> Ids]
    <3>1. (CHOOSE i \in Ids : TRUE) \in Ids
      BY RateLimitStreamAssumption
    <3> QED
      BY <3>1 DEF Init
  <2>2. metadata \in [Streams -> [Limits -> Patterns \cup {Missing}]]
    BY DEF Init, NoLimits
  <2>3. table \in [Teams \X Patterns -> Rows \cup {NoRow}]
    <3> HIDE DEF NoRow
    <3> QED
      BY DEF Init
  <2>4. \A s \in Streams : metadata[s] = NoLimits /\ pc[s] = "idle"
    BY DEF Init
  <2> HIDE DEF NoLimits
  <2> QED
    BY <2>1, <2>2, <2>3, <2>4 DEF Init, TypeOK
<1> QED
  BY <1>1, TypeStep, PTL DEF Spec
-----------------------------------------------------------------------------
\* Each limit a request gets is that of the most specific class of patterns that has it,
\* in whatever order the database returns rows of one class; and a limit is missing only if
\* no enforced allocation has it.
THEOREM LimitsAreMostSpecific == Spec => MostSpecificEnforced
<1> DEFINE Right ==
      \A s \in Streams : pc[s] = "idle" /\ pc'[s] = "limited" =>
          \A l \in Limits :
             LET of == Providers(team'[s], model'[s], l)
                 p  == metadata'[s][l]
             IN  IF of = {} THEN p = Missing
                 ELSE p \in of /\ \A q \in of : Class(model'[s], p) <= Class(model'[s], q)
<1>1. TypeOK /\ [Next]_vars => [Right]_vars
  <2> SUFFICES ASSUME TypeOK, Next, NEW s \in Streams, pc[s] = "idle", pc'[s] = "limited",
                      NEW l \in Limits
               PROVE  LET of == Providers(team'[s], model'[s], l)
                          p  == metadata'[s][l]
                      IN  IF of = {} THEN p = Missing
                          ELSE p \in of /\ \A q \in of : Class(model'[s], p) <= Class(model'[s], q)
    OBVIOUS
  <2>1. Lookup(s)
    <3>1. ~Administer
      BY DEF Administer
    <3>2. PICK u \in Streams : Lookup(u) \/ FailOpen(u) \/ RequestBody(u) \/ StreamEnds(u)
      BY <3>1 DEF Next
    <3>3. u = s
      BY <3>2 DEF Lookup, FailOpen, RequestBody, StreamEnds, Closed, TypeOK
    <3>4. ~(FailOpen(s) \/ RequestBody(s) \/ StreamEnds(s))
      BY DEF FailOpen, RequestBody, StreamEnds, Closed, TypeOK
    <3> QED
      BY <3>2, <3>3, <3>4
  <2>2. PICK t \in Teams, m \in Models : \E rows \in GetAllocationsForTeamModel(t, m) :
            /\ Opened(s, t, m)
            /\ metadata' = [metadata EXCEPT ![s] = lookupRateLimitAllocation(t, rows)]
    BY <2>1 DEF Lookup
  <2>3. PICK rows \in GetAllocationsForTeamModel(t, m) :
            /\ Opened(s, t, m)
            /\ metadata' = [metadata EXCEPT ![s] = lookupRateLimitAllocation(t, rows)]
    BY <2>2
  <2>4. /\ team'[s] = t /\ model'[s] = m
        /\ metadata'[s] = lookupRateLimitAllocation(t, rows)
    BY <2>3 DEF Opened, TypeOK
  <2>5. LET of == Providers(t, m, l)
            p  == lookupRateLimitAllocation(t, rows)[l]
        IN  IF of = {} THEN p = Missing
            ELSE p \in of /\ \A q \in of : Class(m, p) <= Class(m, q)
    BY FirstIsMostSpecific DEF TypeOK
  <2> QED
    BY <2>4, <2>5
<1> QED
  BY <1>1, RateLimitTypes, PTL DEF Spec, MostSpecificEnforced

-----------------------------------------------------------------------------
(***************************************************************************)
(* The states that are kept.  A stream that has been sent has no state of  *)
(* its own any more, though it is open: the invariant is stronger.         *)
(***************************************************************************)
Before == {"limited", "open"}

KeptBefore == states \subseteq {id[s] : s \in {t \in Streams : pc[t] \in Before}} \cup left

\* Every step keeps only the ids of streams before the end of their request body.
LEMMA StatesStep == TypeOK /\ KeptBefore /\ [Next]_vars => KeptBefore'
<1> SUFFICES ASSUME TypeOK, KeptBefore, [Next]_vars
             PROVE  KeptBefore'
  OBVIOUS
<1>1. CASE UNCHANGED vars
  BY <1>1 DEF vars, request, KeptBefore
<1>2. CASE Administer
  BY <1>2 DEF Administer, request, KeptBefore
<1>3. ASSUME NEW s \in Streams, Lookup(s) \/ FailOpen(s)
      PROVE  KeptBefore'
  <2>1. PICK i \in Ids : id' = [id EXCEPT ![s] = i] /\ states' = states \cup {i}
    BY <1>3 DEF Lookup, FailOpen, Opened
  <2>2. /\ pc[s] = "idle" /\ UNCHANGED left
        /\ \E l \in Before : pc' = [pc EXCEPT ![s] = l]
    BY <1>3 DEF Lookup, FailOpen, Opened, Before
  <2>3. /\ id'[s] = i /\ pc'[s] \in Before
        /\ \A t \in Streams : t # s => id'[t] = id[t] /\ pc'[t] = pc[t]
    BY <2>1, <2>2 DEF TypeOK
  <2>4. \A t \in Streams : pc[t] \in Before => id'[t] = id[t] /\ pc'[t] \in Before
    BY <2>2, <2>3 DEF Before
  <2> QED
    BY <2>1, <2>2, <2>3, <2>4 DEF KeptBefore
<1>4. ASSUME NEW s \in Streams, RequestBody(s)
      PROVE  KeptBefore'
  <2>1. /\ states' = states \ {id[s]} /\ left' = left \ {id[s]} /\ UNCHANGED id
        /\ \A t \in Streams : t # s => pc'[t] = pc[t]
    BY <1>4 DEF RequestBody, Dropped, TypeOK
  <2>2. ASSUME NEW i \in states'
        PROVE  i \in {id'[t] : t \in {u \in Streams : pc'[u] \in Before}} \cup left'
    <3>1. i \in states /\ i # id[s]
      BY <2>1
    <3>2. CASE i \in left
      BY <2>1, <3>1, <3>2
    <3>3. ASSUME NEW t \in Streams, pc[t] \in Before, i = id[t]
          PROVE  i \in {id'[u] : u \in {v \in Streams : pc'[v] \in Before}}
      <4>1. t # s /\ pc'[t] \in Before /\ id'[t] = i
        BY <2>1, <3>1, <3>3
      <4> QED
        BY <4>1
    <3> QED
      BY <3>1, <3>2, <3>3 DEF KeptBefore
  <2> QED
    BY <2>2 DEF KeptBefore, Before
<1>5. ASSUME NEW s \in Streams, StreamEnds(s)
      PROVE  KeptBefore'
  <2>1. /\ left' = (IF pc[s] = "sent" THEN left ELSE left \cup {id[s]}) /\ UNCHANGED <<id, states>>
        /\ \A t \in Streams : t # s => pc'[t] = pc[t]
    BY <1>5 DEF StreamEnds, Closed, TypeOK
  <2>2. pc[s] \in Before => id[s] \in left'
    BY <2>1 DEF Before
  <2>3. left \subseteq left'
    BY <2>1
  <2>4. ASSUME NEW i \in states'
        PROVE  i \in {id'[t] : t \in {u \in Streams : pc'[u] \in Before}} \cup left'
    <3>1. ASSUME NEW t \in Streams, pc[t] \in Before, i = id[t]
          PROVE  i \in {id'[u] : u \in {v \in Streams : pc'[v] \in Before}} \cup left'
      <4>1. CASE t = s
        BY <2>2, <3>1, <4>1
      <4>2. CASE t # s
        <5>1. pc'[t] \in Before /\ id'[t] = i
          BY <2>1, <3>1, <4>2
        <5> QED
          BY <5>1
      <4> QED
        BY <4>1, <4>2
    <3> QED
      BY <2>1, <2>3, <3>1 DEF KeptBefore
  <2> QED
    BY <2>4 DEF KeptBefore, Before
<1> QED
  BY <1>1, <1>2, <1>3, <1>4, <1>5 DEF Next

\* requestStates keeps the id of a stream that is open, or that ended before the end of its
\* request body: the end of every body deletes it, whatever ids the other streams have.
THEOREM StatesAreKeptForTheOpen == Spec => []StatesAreDropped
<1>1. Init => KeptBefore
  BY DEF Init, KeptBefore
<1>2. TypeOK /\ KeptBefore => StatesAreDropped
  <2> SUFFICES ASSUME TypeOK, KeptBefore, NEW i \in states
               PROVE  i \in {id[s] : s \in {t \in Streams : pc[t] # "idle"}} \cup left
    BY DEF StatesAreDropped
  <2>1. \A t \in Streams : pc[t] \in Before => pc[t] # "idle"
    BY DEF Before
  <2> QED
    BY <2>1 DEF KeptBefore
<1> QED
  BY <1>1, <1>2, StatesStep, RateLimitTypes, PTL DEF Spec
===============================================================================
