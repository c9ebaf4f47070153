--------------------------- MODULE MCModelPrices ---------------------------
(***************************************************************************)
(* Small instances of ModelPrices: a model and a version of it.            *)
(***************************************************************************)
EXTENDS ModelPrices, TLC

CONSTANTS gpt, gpt_v1

BaseAndVersion == {gpt, gpt_v1}
WithoutVersion == [m \in BaseAndVersion |-> gpt]
Callers == Permutations(Streams)
=============================================================================
