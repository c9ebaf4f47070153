--------------------------- MODULE MCBudgetStreams ---------------------------
(***************************************************************************)
(* An instance of BudgetStreams: a pod with two streams and a worker, a    *)
(* pool of two connections, and a team's budget below its organisation's.  *)
(***************************************************************************)
EXTENDS BudgetStreams

CONSTANTS s1, s2, w, pod, org, team, gpt, none

OnePod == [p \in {s1, s2, w} |-> pod]
OrgFirst == <<org, team>>
TeamFirst == <<team, org>>

Event(kind, in, out) == [kind |-> kind, in |-> in, out |-> out]

Reports(in, out) == [in |-> in, out |-> out]

\* A stream of OpenAI whose last chunk has the usage, one of Anthropic that counts some
\* output at its start, a JSON response, and one that quotes an event.
Responses ==
    { [model |-> none, reported |-> Reports(3, 2),
       events |-> <<Event("chunk", 3, 1), Event("chunk", 0, 2)>>],
      [model |-> none, reported |-> Reports(3, 2),
       events |-> <<Event("start", 3, 1), Event("delta", 0, 2)>>],
      [model |-> gpt, reported |-> Reports(3, 2), events |-> <<Event("json", 3, 2)>>],
      [model |-> gpt, reported |-> Reports(3, 2), events |-> <<Event("quoting", 3, 2)>>] }

ASSUME ResponsesAreRead == ReadsWhole
=============================================================================
