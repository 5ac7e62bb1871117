---------------------------- MODULE InMemoryStore ----------------------------
(***************************************************************************)
(* memory.InMemoryStore: the entries by ID and the index keyToID from      *)
(* (AgentID, Key) to the ID that holds the key now.  Append and Forget     *)
(* hold the mutex from end to end, so each is one step.                    *)
(***************************************************************************)
EXTENDS MemoryEntries, Functions

VARIABLES
  entries,     \* partial function: ID -> entry
  keyToID,     \* partial function: (AgentID, Key) -> ID
  now,         \* the clock
  returned     \* what the last operation returned

vars == <<entries, keyToID, now, returned>>

Empty == [x \in {} |-> x]

Init ==
  /\ entries = Empty
  /\ keyToID = Empty
  /\ now \in Times
  /\ returned = NoEntry

\* Go's map assignment and delete.
Put(f, k, v) == [x \in DOMAIN f \cup {k} |-> IF x = k THEN v ELSE f[x]]
Drop(f, ks) == Restrict(f, DOMAIN f \ ks)

Slot(c) == agentKeyIndex(c.agent, c.key)

\* The ID is known: merge the tags, keep the rest, point the key at it.
AppendExisting(c, tags) ==
  /\ c \in DOMAIN entries
  /\ entries' = Put(entries, c, Merge(entries[c], tags))
  /\ keyToID' = IF c.key # NoKey THEN Put(keyToID, Slot(c), c) ELSE keyToID
  /\ returned' = Merge(entries[c], tags)
  /\ UNCHANGED now

\* The entry that holds the key, if one does.
Prior(c) ==
  {keyToID[k] : k \in {Slot(c)} \cap (IF c.key # NoKey THEN DOMAIN keyToID ELSE {})}

\* Mutant of AppendFresh: supersession does not delete the prior entry.
AppendFreshKeepsPrior(c, tags) ==
  /\ c \notin DOMAIN entries
  /\ entries' = Put(entries, c, NewEntry(c, tags, now))
  /\ keyToID' = IF c.key # NoKey THEN Put(keyToID, Slot(c), c) ELSE keyToID
  /\ returned' = NewEntry(c, tags, now)
  /\ UNCHANGED now

AppendFresh(c, tags) ==
  /\ c \notin DOMAIN entries
  /\ entries' = Put(Drop(entries, Prior(c)), c, NewEntry(c, tags, now))
  /\ keyToID' = IF c.key # NoKey THEN Put(keyToID, Slot(c), c) ELSE keyToID
  /\ returned' = NewEntry(c, tags, now)
  /\ UNCHANGED now

Append(c, tags) == AppendExisting(c, tags) \/ AppendFresh(c, tags)

\* Mutant of Forget: the key index keeps pointing at the forgotten entry.
ForgetKeepsIndex(c) ==
  /\ entries' = Drop(entries, {c})
  /\ returned' = NoEntry
  /\ UNCHANGED <<keyToID, now>>

Forget(c) ==
  /\ keyToID' = IF c \in DOMAIN entries /\ entries[c].key # NoKey
                THEN Drop(keyToID, {agentKeyIndex(entries[c].id.agent, entries[c].key)})
                ELSE keyToID
  /\ entries' = Drop(entries, {c})
  /\ returned' = NoEntry
  /\ UNCHANGED now

Tick ==
  /\ \E t \in Times : t > now /\ now' = t
  /\ UNCHANGED <<entries, keyToID, returned>>

Next ==
  \/ \E c \in Content, tags \in SUBSET Tags : Append(c, tags)
  \/ \E c \in Content : Forget(c)
  \/ Tick

Spec == Init /\ [][Next]_vars

------------------------------------------------------------------------------
\* Types of the maps; only a non-empty Key is ever indexed.
TypeOK ==
  /\ DOMAIN entries \subseteq Content
  /\ \A c \in DOMAIN entries : entries[c] \in Entry
  /\ DOMAIN keyToID \subseteq Agents \X Keys
  /\ \A k \in DOMAIN keyToID : keyToID[k] \in Content
  /\ now \in Times
  /\ returned \in Returned

\* keyToID is exactly the index of the live entries that have a Key: Append and
\* Forget keep the two maps in step, so no key points at an entry that is gone
\* and no live keyed entry is missing from the index (which would let the next
\* Append under its key leave both).
IndexExact ==
  /\ \A c \in DOMAIN entries :
       /\ entries[c].id = c
       /\ entries[c].key = c.key
       /\ c.key # NoKey => Slot(c) \in DOMAIN keyToID /\ keyToID[Slot(c)] = c
  /\ \A k \in DOMAIN keyToID :
       /\ keyToID[k] \in DOMAIN entries
       /\ keyToID[k].key # NoKey
       /\ Slot(keyToID[k]) = k

Live == {entries[c] : c \in DOMAIN entries}

Memory == INSTANCE KeyedMemory WITH live <- Live

\* The map-based store implements the promise of memory.Store: supersession by
\* (AgentID, Key), dedupe by content, returned entry = persisted entry.
MemorySpec == Memory!Spec

==============================================================================
