---------------------- MODULE MCRateLimitAllocations ----------------------
(***************************************************************************)
(* Small instances of RateLimitAllocations: two rows and two concurrent    *)
(* calls, of anybody, that race for them.                                  *)
(***************************************************************************)
EXTENDS RateLimitAllocations, TLC

CONSTANTS x1, x2

\* x1 is edited or decided upon, x2 competes with it for a place.
Versions == (x1 :> 4) @@ (x2 :> 1)

\* Calls, orgs and patterns are interchangeable.
Symmetric == Permutations(Actors) \cup Permutations(Orgs) \cup Permutations(Patterns)
=============================================================================
