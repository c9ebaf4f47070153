-------------------------- MODULE MCRateLimitStreams --------------------------
(***************************************************************************)
(* An instance of RateLimitStreams: one team, two models, and the first of *)
(* them as a pattern for two orgs, a pattern that matches both, and '*'.   *)
(***************************************************************************)
EXTENDS RateLimitStreams, TLC

CONSTANTS mini, large, exact, other, prefix, star

ClassOf(m, p) == CASE p \in {exact, other} -> 0 [] p = star -> 2 [] OTHER -> 1
MatchOf(m, p) == p \in {exact, other} => m = mini

\* Allocations with one limit or both, and one that is monitoring.
Kinds == {[limits |-> ls, enforced |-> TRUE] : ls \in SUBSET Limits \ {{}}}
         \cup {[limits |-> Limits, enforced |-> FALSE]}

\* Streams are interchangeable, and so are the two orgs of the exact pattern.
Same == Permutations(Streams) \cup Permutations({exact, other})
=============================================================================
