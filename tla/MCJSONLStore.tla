---------------------------- MODULE MCJSONLStore -----------------------------
(* JSONLStore for TLC: callers and bodies are interchangeable. *)
EXTENDS JSONLStore

Symmetry == Permutations(Callers) \cup Permutations(Bodies)
==============================================================================
