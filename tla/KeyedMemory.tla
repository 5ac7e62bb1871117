----------------------------- MODULE KeyedMemory -----------------------------
(***************************************************************************)
(* What memory.Store promises: a set of live entries.  Append of a content *)
(* that is live merges the tags and keeps the rest; any other Append       *)
(* removes the entry at the same (AgentID, Key) and adds the new one; the  *)
(* returned entry is the persisted one.  Forget removes by ID and is       *)
(* idempotent.  An operation that fails leaves the entries alone.          *)
(***************************************************************************)
EXTENDS MemoryEntries

VARIABLES
  live,        \* the entries Recall and Get can return
  returned     \* what the last operation returned

vars == <<live, returned>>

Init == live = {} /\ returned = NoEntry

AppendKnown(c, tags) ==
  \E e \in live :
    /\ e.id = c
    /\ returned' = Merge(e, tags)
    /\ live' = (live \ {e}) \cup {Merge(e, tags)}

AppendNew(c, tags, t) ==
  /\ returned' = NewEntry(c, tags, t)
  /\ \A e \in live : e.id # c
  /\ live' = {e \in live : ~SameFact(e, c)} \cup {NewEntry(c, tags, t)}

Forget(c) ==
  /\ returned' = NoEntry
  /\ live' = {e \in live : e.id # c}

Fail ==
  /\ returned' = Failure
  /\ UNCHANGED live

Next ==
  \/ \E c \in Content, tags \in SUBSET Tags :
       AppendKnown(c, tags) \/ \E t \in Times : AppendNew(c, tags, t)
  \/ \E c \in Content : Forget(c)
  \/ Fail

Spec == Init /\ [][Next]_vars
==============================================================================
