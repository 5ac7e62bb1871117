------------------------------- MODULE Ordering ------------------------------
(***************************************************************************)
(* A finite set in the order of a strict total order on it, as the         *)
(* ledger's ORDER BY and Go's sort produce it when no two elements tie.    *)
(***************************************************************************)
EXTENDS Naturals, FiniteSets

\* The k-th element has k - 1 elements before it.
InOrder(S, R) ==
  [k \in 1..Cardinality(S) |->
     CHOOSE x \in S : Cardinality({y \in S : <<y, x>> \in R}) = k - 1]

\* A set of numbers, the least first.
Ascending(S) == InOrder(S, {p \in S \X S : p[1] < p[2]})

\* What a sequence has at the positions P, in the order of the sequence.
Picked(s, P) == [k \in 1..Cardinality(P) |-> s[Ascending(P)[k]]]
==============================================================================
