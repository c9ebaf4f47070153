-------------------------- MODULE RateLimitStreams --------------------------
(***************************************************************************)
(* The ext-proc streams of extproc-ratelimit.                              *)
(*                                                                         *)
(* At the request headers one SELECT reads the allocations of the team     *)
(* that match the model, and their limits are merged into the metadata for *)
(* the rate limiter of the gateway; the end of the request body names the  *)
(* model.  The allocations are those RateLimitAllocations keeps: the       *)
(* enabled, approved ones.  The query names the team and not the org, so   *)
(* rows of several orgs may have one model pattern: a member of Patterns   *)
(* is the pattern of an allocation together with its org, and there is one *)
(* row for it (the unique index).  Of a limit the model keeps whose it is: *)
(* the member of Patterns it was taken from.                               *)
(***************************************************************************)
EXTENDS Naturals, FiniteSets, SequencesExt

CONSTANTS
    Streams,            \* ext-proc streams, each used again after it has ended
    Ids,                \* request ids
    Teams, Models,
    Missing,            \* no team, no model
    Patterns,           \* model patterns, each with the org of its allocation
    Rows,               \* allocations: the limits they have, and whether these are enforced
    Class(_, _),        \* 0 if a pattern is the model, 2 if it is '*', 1 if it matches
    Matches(_, _)       \* otherwise; and whether it matches at all

Limits == {"token", "request"}

ASSUME RateLimitStreamAssumption ==
    /\ Rows \subseteq [limits : SUBSET Limits, enforced : BOOLEAN]
    /\ Missing \notin Teams \cup Models \cup Patterns
    /\ Ids # {} /\ IsFiniteSet(Patterns)
    /\ \A m \in Models, p \in Patterns : Class(m, p) \in 0..2 /\ Matches(m, p) \in BOOLEAN

VARIABLES
    table,      \* the allocations that are enabled and approved
    pc,         \* where a stream stands in Process
    id,         \* request id of each stream
    team, model,\* identity and model of its request headers
    metadata,   \* dynamic metadata: the pattern each limit was taken from
    named,      \* x-gw-llm-model, as the request body names it
    states,     \* the keys of requestStates
    left        \* history: ids of streams that ended before the end of a body

request == <<id, team, model, metadata, named>>
vars    == <<table, pc, request, states, left>>

NoRow == [limits |-> {}, enforced |-> FALSE]
NoLimits == [l \in Limits |-> Missing]

Init ==
    /\ table = [tp \in Teams \X Patterns |-> NoRow]
    /\ pc = [s \in Streams |-> "idle"]
    /\ id \in [Streams -> {CHOOSE i \in Ids : TRUE}]
    /\ team = [s \in Streams |-> Missing]
    /\ model = [s \in Streams |-> Missing]
    /\ metadata = [s \in Streams |-> NoLimits]
    /\ named = [s \in Streams |-> Missing]
    /\ states = {}
    /\ left = {}
-----------------------------------------------------------------------------
\* Mutation of Specificity: any pattern but '*' is as good as the model itself.
TwoClasses(m, p) == IF Class(m, p) = 2 THEN 1 ELSE 0

\* ORDER BY CASE: the model itself, a pattern, '*'.
Specificity(m, p) == Class(m, p)

\* The orders in which the rows may come: within a class the query names none.
GetAllocationsForTeamModel(t, m) ==
    {rows \in SetToSeqs({p \in Patterns : table[<<t, p>>] # NoRow /\ Matches(m, p)}) :
        \A i, j \in DOMAIN rows :
            i < j => Specificity(m, rows[i]) <= Specificity(m, rows[j])}

\* The allocation of team t with pattern p is not monitoring and has limit l.
Provides(t, p, l) == table[<<t, p>>].enforced /\ l \in table[<<t, p>>].limits

\* Each limit is that of the first allocation that has it and is not monitoring.
lookupRateLimitAllocation(t, rows) ==
    [l \in Limits |->
        LET having == {i \in DOMAIN rows : Provides(t, rows[i], l)}
        IN  IF having = {} THEN Missing ELSE rows[Min(having)]]

\* A management session or the org's admin changes an allocation: it is approved,
\* edited, disabled or deleted.
Administer ==
    /\ \E t \in Teams, p \in Patterns, row \in Rows \cup {NoRow} :
          table' = [table EXCEPT ![<<t, p>>] = row]
    /\ UNCHANGED <<pc, request, states, left>>

\* The request headers.  Without a team or a model there is no lookup.
Opened(s, t, m) ==
    /\ pc[s] = "idle"
    /\ \E i \in Ids : id' = [id EXCEPT ![s] = i] /\ states' = states \cup {i}
    /\ team' = [team EXCEPT ![s] = t]
    /\ model' = [model EXCEPT ![s] = m]
    /\ UNCHANGED <<table, named, left>>

Lookup(s) ==
    \E t \in Teams, m \in Models : \E rows \in GetAllocationsForTeamModel(t, m) :
        /\ Opened(s, t, m)
        /\ metadata' = [metadata EXCEPT ![s] = lookupRateLimitAllocation(t, rows)]
        /\ pc' = [pc EXCEPT ![s] = "limited"]

\* No team, no model header, or an error of the query: the static limits apply.
FailOpen(s) ==
    \E t \in Teams \cup {Missing}, m \in Models \cup {Missing} :
        /\ Opened(s, t, m)
        /\ metadata' = [metadata EXCEPT ![s] = NoLimits]
        /\ pc' = [pc EXCEPT ![s] = "open"]

Closed(s) ==
    /\ pc' = [pc EXCEPT ![s] = "idle"]
    /\ team' = [team EXCEPT ![s] = Missing]
    /\ model' = [model EXCEPT ![s] = Missing]
    /\ metadata' = [metadata EXCEPT ![s] = NoLimits]
    /\ named' = [named EXCEPT ![s] = Missing]
    /\ UNCHANGED <<table, id>>

\* Mutation of Dropped: the state is kept.
Kept(i) == UNCHANGED states

\* requestStates.Delete.
Dropped(i) == states' = states \ {i}

\* Mutation of extractModel: without the fallback to the header.
BodyOnly(header, inBody) == inBody

\* extractModel: the model of a JSON body, else that of the header.
extractModel(header, inBody) == IF inBody # Missing THEN inBody ELSE header

\* The end of the request body: the model is named for the limiter's descriptors.
RequestBody(s) ==
    /\ pc[s] \in {"limited", "open"}
    /\ \E m \in Models \cup {Missing} :
          named' = [named EXCEPT ![s] = extractModel(model[s], m)]
    /\ Dropped(id[s])
    /\ left' = left \ {id[s]}
    /\ pc' = [pc EXCEPT ![s] = "sent"]
    /\ UNCHANGED <<table, id, team, model, metadata>>

\* The stream ends: the response is complete, the request has no body, or the
\* gateway gives it up.
StreamEnds(s) ==
    /\ pc[s] # "idle"
    /\ left' = IF pc[s] = "sent" THEN left ELSE left \cup {id[s]}
    /\ Closed(s)
    /\ UNCHANGED states

Next ==
    \/ Administer
    \/ \E s \in Streams : Lookup(s) \/ FailOpen(s) \/ RequestBody(s) \/ StreamEnds(s)

Spec == Init /\ [][Next]_vars
-----------------------------------------------------------------------------
\* Invariant: the types; metadata is only ever set by a lookup for a team and a
\* model, and a model that is known from the header is named if the body has none.
TypeOK ==
    /\ table \in [Teams \X Patterns -> Rows \cup {NoRow}]
    /\ pc \in [Streams -> {"idle", "limited", "open", "sent"}]
    /\ id \in [Streams -> Ids]
    /\ team \in [Streams -> Teams \cup {Missing}]
    /\ model \in [Streams -> Models \cup {Missing}]
    /\ metadata \in [Streams -> [Limits -> Patterns \cup {Missing}]]
    /\ named \in [Streams -> Models \cup {Missing}]
    /\ states \subseteq Ids /\ left \subseteq Ids
    /\ \A s \in Streams :
          /\ metadata[s] # NoLimits => team[s] # Missing /\ model[s] # Missing
          /\ pc[s] = "sent" /\ model[s] # Missing => named[s] # Missing

\* The enforced allocations of team t that match model m and have limit l.
Providers(t, m, l) ==
    {p \in Patterns : Matches(m, p) /\ Provides(t, p, l)}

\* Property: each limit a request gets is that of the most specific class of patterns
\* that has it, whatever other limits these allocations lack, whichever are only
\* monitoring and in whatever order the database returns equals; and a limit is
\* missing only if no enforced allocation has it (lookupRateLimitAllocation: "taking
\* the most specific allocation that provides each limit type").
MostSpecificEnforced ==
    [][\A s \in Streams : pc[s] = "idle" /\ pc'[s] = "limited" =>
          \A l \in Limits :
             LET of == Providers(team'[s], model'[s], l)
                 p  == metadata'[s][l]
             IN  IF of = {} THEN p = Missing
                 ELSE p \in of /\ \A q \in of : Class(model'[s], p) <= Class(model'[s], q)]_vars

\* Invariant: a key of requestStates is the id of an open stream or of one that ended
\* before the end of its request body, or had none: only those are kept for ever.
StatesAreDropped ==
    states \subseteq {id[s] : s \in {t \in Streams : pc[t] # "idle"}} \cup left
=============================================================================
