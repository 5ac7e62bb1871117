---------------------------- MODULE MCVectorMemory ---------------------------
(***************************************************************************)
(* VectorMemory for TLC: texts that fit the model, that are cut, and that  *)
(* are cut to nothing but [SEP]; a vocabulary in which the longest match   *)
(* of "abc" leaves a rest that has no piece.                               *)
(***************************************************************************)
EXTENDS VectorMemory

CONSTANTS b1, b2

ab  == <<"a", "b">>
abc == <<"a", "b", "c">>
ba  == <<"b", "a">>

MCTextOf == [b \in Bodies |-> IF b = b1 THEN <<ab, ba>> ELSE <<ab>>]
MCKindOf == [b \in Bodies |-> IF b = b1 THEN "user" ELSE "project"]
MCHints == {<<ba, abc>>}

MCVocab ==
  {[cont |-> FALSE, runes |-> <<"a">>], [cont |-> FALSE, runes |-> ab],
   [cont |-> FALSE, runes |-> <<"b">>], [cont |-> TRUE, runes |-> <<"a">>]}

MCDefault == [dim |-> 1, seqLen |-> 4]

Opt(model, id, dim, seqLen) == [model |-> model, modelID |-> id, dim |-> dim, seqLen |-> seqLen]
Cfg(dim, seqLen) == [dim |-> dim, seqLen |-> seqLen]

\* Nothing set but SeqLen; a bundle without a sequence length; ModelID with
\* SeqLen missing, with both and a dimension the network has not, and with
\* neither, over a config.json without a sequence length.
MCOptions ==
  {Opt(Unset, Unset, 0, 3), Opt(Cfg(1, 0), Unset, 0, 0), Opt(Unset, Cfg(1, 4), 1, 0),
   Opt(Unset, Cfg(1, 4), 2, 1), Opt(Unset, Cfg(1, 0), 0, 0)}
==============================================================================
