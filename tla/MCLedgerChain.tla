---------------------------- MODULE MCLedgerChain ----------------------------
\* The calls of one tool, and the IDs the model may choose, are interchangeable.
EXTENDS LedgerChain

\* Every reading is in a millisecond of its own.
OwnMilli == [t \in 0..MaxTime |-> t + 1]

Symmetry == Permutations(Unsafe) \cup Permutations(CallIDs)
==============================================================================
