---------------------------- MODULE MemoryEntries ----------------------------
(***************************************************************************)
(* memory.Entry as the stores see it.  A content is what entryID hashes:   *)
(* the agent, the Key and the body (Kind and Text together).  The ID is    *)
(* the content itself, because the hash is taken to be injective, and so   *)
(* is agentKeyIndex on the pair (agent, Key).  Callers leave ID and        *)
(* CreatedAt empty, as Entry asks.  Tags are a set: their order is only    *)
(* display.                                                                *)
(***************************************************************************)
EXTENDS Naturals, FiniteSets

CONSTANTS
  Agents,    \* AgentID values, the global "" included
  Keys,      \* non-empty Key values
  NoKey,     \* the empty Key
  Bodies,    \* (Kind, Text) pairs
  Tags,      \* tag values
  Times,     \* clock readings, a set of naturals
  NoEntry,   \* what Forget returns: no entry, no error
  Failure    \* an operation returned an error

ASSUME EntryAssumption ==
  /\ NoKey \notin Keys
  /\ NoEntry # Failure
  /\ Times \subseteq Nat

Content == [agent : Agents, key : Keys \cup {NoKey}, body : Bodies]

Entry == [id : Content, key : Keys \cup {NoKey}, tags : SUBSET Tags, created : Times]

NewEntry(c, tags, t) == [id |-> c, key |-> c.key, tags |-> tags, created |-> t]

Merge(e, tags) == [e EXCEPT !.tags = @ \cup tags]

\* The slot of the key index an entry (or a content) occupies.
agentKeyIndex(agent, key) == <<agent, key>>

\* e sits at the (AgentID, Key) that an Append of c addresses.
SameFact(e, c) ==
  /\ c.key # NoKey
  /\ e.key = c.key
  /\ e.id.agent = c.agent

\* What an operation hands back to its caller.
Returned == Entry \cup {NoEntry, Failure}
==============================================================================
