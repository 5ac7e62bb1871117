------------------------------- MODULE SkillSet ------------------------------
(***************************************************************************)
(* skill.Set and skill.FilesystemLoader.  A skill has a name (a number, so *)
(* that names sort; 0 is the empty one), a prompt and tools.  A SKILL.md   *)
(* is a sequence of lines; a line is told apart by what the parser tests:  *)
(* a "---" delimiter, blank, "name: <val>", another "key: value", text     *)
(* without a colon, or longer than the scanner's buffer.  Lines are        *)
(* already trimmed, and descriptions are left out.                         *)
(***************************************************************************)
EXTENDS Naturals, Sequences, FiniteSets, SequencesExt, Ordering

CONSTANT ParseError

SkillLine == [kind : {"delim", "blank", "name", "key", "text", "long"}, val : Nat]
SkillFile == [dir : Nat \ {0}, lines : Seq(SkillLine), readable : BOOLEAN, broken : BOOLEAN]

\* A skill as the loader makes it: tools are the host's to add.
Skill(name, prompt, ts) == [name |-> name, prompt |-> prompt, tools |-> ts]

\* strings.TrimSpace over the joined lines.
TrimLines(ls) ==
  LET full == {i \in DOMAIN ls : ls[i].kind # "blank"}
  IN  IF full = {} THEN <<>> ELSE SubSeq(ls, Min(full), Max(full))

\* Mutant of ParseLine: a second delimiter in the body opens front matter again.
ParseLineReopens(p, l) ==
  IF l.kind = "delim" THEN [p EXCEPT !.inFront = ~@, !.sawDelim = TRUE]
  ELSE IF ~p.inFront THEN [p EXCEPT !.body = Append(@, l)]
  ELSE CASE l.kind = "text" -> [p EXCEPT !.err = TRUE]
         [] l.kind = "name" -> [p EXCEPT !.name = l.val]
         [] OTHER -> p

\* parseSkillMd, one line.  p.err is an error return: nothing after it matters.
ParseLine(p, l) ==
  LET opens == ~p.sawDelim /\ l.kind = "delim"
  IN  CASE ~p.inFront /\ opens            -> [p EXCEPT !.inFront = TRUE, !.sawDelim = TRUE]
        [] ~p.inFront /\ ~opens           -> [p EXCEPT !.body = Append(@, l)]
        [] p.inFront /\ l.kind = "delim"  -> [p EXCEPT !.inFront = FALSE]
        [] p.inFront /\ l.kind = "text"   -> [p EXCEPT !.err = TRUE]
        [] p.inFront /\ l.kind = "name"   -> [p EXCEPT !.name = l.val]
        [] OTHER                          -> p

\* parseSkillMd; a line that does not fit the buffer ends the scan with an error.
parseSkillMd(lines) ==
  LET upTo[n \in 0..Len(lines)] ==
        IF n = 0
        THEN [inFront |-> FALSE, sawDelim |-> FALSE, name |-> 0, body |-> <<>>, err |-> FALSE]
        ELSE ParseLine(upTo[n - 1], lines[n])
      p == upTo[Len(lines)]
  IN  IF p.err \/ \E i \in DOMAIN lines : lines[i].kind = "long" THEN ParseError
      ELSE Skill(p.name, TrimLines(p.body), <<>>)

------------------------------------------------------------------------------
(* skill.Set: a function from names to skills *)

NewSet == <<>>

\* Set.Add fails, and leaves the Set alone, when the name is empty or taken.
SetAddFails(set, sk) == sk.name = 0 \/ sk.name \in DOMAIN set

\* Mutant of SetAdd: a taken name is replaced.
SetAddReplaces(set, sk) ==
  IF sk.name = 0 THEN set
  ELSE [n \in DOMAIN set \cup {sk.name} |-> IF n = sk.name THEN sk ELSE set[n]]

SetAdd(set, sk) ==
  IF SetAddFails(set, sk) THEN set
  ELSE [n \in DOMAIN set \cup {sk.name} |-> IF n = sk.name THEN sk ELSE set[n]]

SetRemove(set, name) == [n \in DOMAIN set \ {name} |-> set[n]]

\* Names, sorted by the caller.
SortedNames(set) == Ascending(DOMAIN set)

------------------------------------------------------------------------------
(* FilesystemLoader.Load *)

\* walkFn for a SKILL.md: one that cannot be read or parsed is skipped, and a
\* skill without a name takes its directory's.
LoadFile(set, f) ==
  LET sk == parseSkillMd(f.lines)
  IN  IF ~f.readable \/ sk = ParseError THEN set
      ELSE SetAdd(set, IF sk.name = 0 THEN [sk EXCEPT !.name = f.dir] ELSE sk)

\* An error of the walk itself is returned, without a Set.
LoadFails(walk) == \E i \in DOMAIN walk : walk[i].broken

\* Load: the files in the order of the walk.
Load(walk) ==
  LET upTo[n \in 0..Len(walk)] ==
        IF n = 0 THEN NewSet ELSE LoadFile(upTo[n - 1], walk[n])
  IN  upTo[Len(walk)]
==============================================================================
