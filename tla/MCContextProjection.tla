------------------------- MODULE MCContextProjection -------------------------
(* ContextProjection for TLC: a few memories of four kinds, two of them always
   included, and turns that mention one of two words. *)
EXTENDS ContextProjection

CONSTANTS user, feedback, project, w, v, global, mine, other, k,
          u1, f1, p1, p2

MCBodies == {u1, f1, p1, p2}
MCKindOf == [b \in MCBodies |-> CASE b = u1 -> user [] b = f1 -> feedback [] OTHER -> project]
MCTextOf == [b \in MCBodies |-> CASE b = p1 -> {w} [] b = u1 -> {w} [] OTHER -> {v}]

OneEach == [kind \in Kinds |-> 1]
Uncapped == [kind \in Kinds |-> 0]

Fact(agent, key, body) == [agent |-> agent, key |-> key, body |-> body]
Shared == {Fact(mine, k, u1), Fact(mine, k, p1), Fact(other, NoKey, p1), Fact(global, NoKey, p2)}
Ranked3 == {Fact(mine, NoKey, u1), Fact(mine, NoKey, p1), Fact(mine, NoKey, p2)}
Quiet == {Fact(mine, NoKey, u1), Fact(mine, NoKey, f1)}
Mixed == {Fact(mine, NoKey, u1), Fact(mine, NoKey, p2)}
Projects == {Fact(mine, NoKey, p1), Fact(mine, NoKey, p2)}
Others == {Fact(other, NoKey, p1)}

MCTurns == {[text |-> <<w>>, stampable |-> TRUE], [text |-> <<>>, stampable |-> FALSE]}
==============================================================================
