------------------------ MODULE MCLLMConfigActivation ------------------------
(* Instances of LLMConfigActivation for TLC.                               *)
EXTENDS LLMConfigActivation, TLC

\* The configurations are alike, and so are the requests.
Symmetry == Permutations(Configs) \cup Permutations(Handlers)

=============================================================================
