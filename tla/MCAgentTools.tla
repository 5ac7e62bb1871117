----------------------------- MODULE MCAgentTools ----------------------------
(***************************************************************************)
(* AgentTools for TLC: names of at most five characters, so that prefixed  *)
(* and numbered names are cut and collide again; a SKILL.md of up to       *)
(* MaxLines lines beside a well-formed one; skills with and without a      *)
(* prompt and tools.                                                       *)
(***************************************************************************)
EXTENDS AgentTools

CONSTANT MaxLines

MCValid == {"a", "b", "s", "_"} \cup {ToString(i) : i \in 0..9}

Srv(name, bare, ts) == [name |-> name, bare |-> bare, tools |-> ts]
a == <<"a">>
b == <<"b">>

\* The same server twice, with names that collide again once they are cut; a
\* bare server whose second tool is named like the host's safe one.
MCServerLists ==
  {<<>>,
   <<Srv(<<"s">>, FALSE, <<<<"a", "_", "2">>, <<"a", "b", "!">>>>),
     Srv(<<"s">>, FALSE, <<<<"a", "_", "2">>, <<"a", "b">>, <<>>>>)>>,
   <<Srv(<<"s">>, FALSE, <<a>>), Srv(<<"s">>, FALSE, <<a>>), Srv(<<>>, TRUE, <<a, b, a>>)>>}

Line(k) == [kind |-> k, val |-> 0]
Name(v) == [kind |-> "name", val |-> v]
Lines == {Line("delim"), Line("blank"), Line("text"), Line("long"), Line("key"), Name(1), Name(0)}
File(dir, ls, readable, broken) ==
  [dir |-> dir, lines |-> ls, readable |-> readable, broken |-> broken]

\* One file of any lines, alone or before a well-formed one; one that cannot be
\* read; a directory that cannot be walked.
AnyWalks ==
  LET first == {File(2, ls, TRUE, FALSE) : ls \in UNION {[1..n -> Lines] : n \in 0..MaxLines}}
                 \cup {File(2, <<Name(1)>>, FALSE, FALSE), File(2, <<>>, TRUE, TRUE)}
      rest  == {<<>>, <<File(1, <<Line("text"), Line("key")>>, TRUE, FALSE)>>,
                <<File(3, <<Line("delim"), Name(2), Line("delim"), Name(1)>>, TRUE, FALSE)>>}
  IN  {<<f>> \o r : f \in first, r \in rest}

MCWalks ==
  [l \in MCServerLists |->
     IF l = <<>> THEN AnyWalks
     ELSE {<<>>, <<File(1, <<>>, TRUE, FALSE), File(2, <<Line("text")>>, TRUE, FALSE)>>}]

MCTool(name, s) == [name |-> name, real |-> name, client |-> 0, safe |-> s]
MCHostTools == <<[name |-> b, safe |-> TRUE], [name |-> <<"b", "b">>, safe |-> FALSE]>>
MCHostSkills ==
  {Skill(0, <<>>, <<>>), Skill(3, <<Line("text")>>, <<MCTool(<<"a", "b">>, FALSE)>>),
   Skill(2, <<Line("blank")>>, <<MCTool(<<"a", "a">>, TRUE)>>)}
==============================================================================
