--------------------------- MODULE MCInMemoryStore ---------------------------
(* InMemoryStore for TLC: agents and bodies are interchangeable. *)
EXTENDS InMemoryStore, TLC

Symmetry == Permutations(Agents) \cup Permutations(Bodies)
==============================================================================
