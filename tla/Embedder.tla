------------------------------- MODULE Embedder ------------------------------
(***************************************************************************)
(* The in-process sentence embedder (memory/embed/gomlx): how the model's  *)
(* shape is resolved from Options, and how a text becomes the token IDs    *)
(* the network sees.  A text is a sequence of words (basicTokenize has     *)
(* split and lowercased it), a word a sequence of runes; a piece is a run  *)
(* of runes, marked when it continues a word ("##").  The network is       *)
(* external: all it gets is IDs and mask, so texts with equal encodings    *)
(* have equal vectors.                                                     *)
(***************************************************************************)
EXTENDS Integers, Sequences, SequencesExt

CONSTANTS
  Vocab,         \* the pieces of vocab.txt
  CLS, SEP, UNK, PAD,
  DefaultModel,  \* [dim, seqLen] of MiniLM-L6-v2
  Unset,         \* a zero Model or ModelID
  Failed         \* an error return

Shape == [dim : Int, seqLen : Int]

\* The special tokens differ from each other and from every piece of a word: a
\* word has neither the brackets nor the capitals of "[SEP]".
ASSUME EmbedderAssumption ==
  /\ Vocab \subseteq [cont : BOOLEAN, runes : Seq(STRING)]
  /\ Vocab \cap {CLS, SEP, UNK, PAD} = {}
  /\ SEP \notin {CLS, UNK, PAD} /\ PAD \notin {CLS, UNK}
  /\ DefaultModel \in Shape /\ DefaultModel.dim > 0 /\ DefaultModel.seqLen > 0
  /\ Unset \notin Shape /\ Failed \notin Shape

------------------------------------------------------------------------------
(* Options *)

\* parseModelConfig: hidden_size and max_position_embeddings, both positive.
parseModelConfig(config) ==
  IF config.dim > 0 /\ config.seqLen > 0 THEN config ELSE Failed

\* Mutant of resolveModelOptions: one of Dim and SeqLen is taken for both.
resolveModelOptionsEither(o) ==
  IF o.model # Unset THEN parseModelConfig(o.model)
  ELSE IF o.modelID = Unset THEN DefaultModel
  ELSE IF o.dim > 0 \/ o.seqLen > 0 THEN [dim |-> o.dim, seqLen |-> o.seqLen]
  ELSE parseModelConfig(o.modelID)

\* The first rule that applies: the bundled Model, which has to be positive;
\* nothing set; ModelID with both Dim and SeqLen; ModelID alone, or with one of
\* them, which is then discarded, looked up in the repository's config.json
\* (here o.modelID stands for that file).
resolveModelOptions(o) ==
  IF o.model # Unset THEN parseModelConfig(o.model)
  ELSE IF o.modelID = Unset THEN DefaultModel
  ELSE IF o.dim > 0 /\ o.seqLen > 0 THEN [dim |-> o.dim, seqLen |-> o.seqLen]
  ELSE parseModelConfig(o.modelID)

------------------------------------------------------------------------------
(* The tokenizer *)

Piece(word, s, e) == [cont |-> s > 1, runes |-> SubSeq(word, s, e)]

\* Mutant of wordPieceTokenize: the runes matched so far are kept when a later
\* part of the word is not in the vocabulary.
wordPieceTokenizeKeeps(word) ==
  LET from[s \in 1..Len(word) + 1] ==
        LET ends == {e \in s..Len(word) : Piece(word, s, e) \in Vocab}
        IN  IF s > Len(word) THEN <<>>
            ELSE IF ends = {} THEN <<UNK>>
            ELSE <<Piece(word, s, Max(ends))>> \o from[Max(ends) + 1]
  IN  from[1]

\* The longest known piece at each position; [UNK] for the whole word as soon
\* as there is none.
wordPieceTokenize(word) ==
  LET from[s \in 1..Len(word) + 1] ==
        LET ends == {e \in s..Len(word) : Piece(word, s, e) \in Vocab}
        IN  IF s > Len(word) THEN <<>>
            ELSE IF ends = {} THEN <<UNK>>
            ELSE LET rest == from[Max(ends) + 1]
                 IN  IF rest = <<UNK>> THEN rest
                     ELSE <<Piece(word, s, Max(ends))>> \o rest
  IN  from[1]

encode(text) ==
  <<CLS>> \o FlattenSeq([i \in DOMAIN text |-> wordPieceTokenize(text[i])]) \o <<SEP>>

\* Mutant of Truncated: cut to seqLen, the last position not restored to [SEP].
TruncatedBare(raw, seqLen) ==
  IF Len(raw) > seqLen THEN SubSeq(raw, 1, seqLen) ELSE raw

\* encodeBatch: cut to seqLen, [SEP] moved to the last position.
Truncated(raw, seqLen) ==
  IF Len(raw) > seqLen THEN [SubSeq(raw, 1, seqLen) EXCEPT ![seqLen] = SEP] ELSE raw

\* encodeBatch for one sentence: input_ids and attention_mask.
encodeBatch(text, seqLen) ==
  LET raw == Truncated(encode(text), seqLen)
  IN  [ids  |-> [i \in 1..seqLen |-> IF i <= Len(raw) THEN raw[i] ELSE PAD],
       mask |-> [i \in 1..seqLen |-> IF i <= Len(raw) THEN 1 ELSE 0]]
==============================================================================
