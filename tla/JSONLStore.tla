----------------------------- MODULE JSONLStore ------------------------------
(***************************************************************************)
(* memory.JSONLStore: an append-only file of records, replayed in full by  *)
(* every read.  Append stamps CreatedAt under the mutex, releases it, and  *)
(* takes it again to replay and write, so other callers run in between.    *)
(* Forget writes a tombstone without reading.  Compact replaces the file   *)
(* by the live entries.  A write may stop part way: the process dies, or   *)
(* the disk is full and Append returns the error.                          *)
(***************************************************************************)
EXTENDS MemoryEntries, Sequences, SequencesExt

CONSTANTS
  Callers,     \* goroutines that use the store
  MaxRecords,  \* bound: records in the file
  Faulty,      \* TRUE: a write may stop part way
  Compacts     \* TRUE: the host runs Compact

ASSUME JSONLAssumption ==
  /\ MaxRecords \in Nat
  /\ Faulty \in BOOLEAN
  /\ Compacts \in BOOLEAN

VARIABLES
  file,        \* the records of the file, in order
  openTail,    \* the last line has no newline yet
  pending,     \* caller -> its stamped Append: <<entry>>, or <<>>
  returned     \* what the last operation returned

vars == <<file, openTail, pending, returned>>

\* A line of the file: a full record, a tombstone, or bytes that do not parse.
Put(e) == [kind |-> "put", entry |-> e]
Tombstone(c) == [kind |-> "deleted", id |-> c]
Broken == [kind |-> "broken"]

RecID(r) == IF r.kind = "put" THEN r.entry.id ELSE r.id

Init ==
  /\ file = <<>>
  /\ openTail = FALSE
  /\ pending = [p \in Callers |-> <<>>]
  /\ returned = NoEntry

------------------------------------------------------------------------------
(* readAllLocked *)

Readable == \A i \in DOMAIN file : file[i].kind # "broken"

\* First pass: the slot of an ID is its last record.
LastOf(f, c) ==
  {i \in DOMAIN f : RecID(f[i]) = c /\ \A j \in i+1..Len(f) : RecID(f[j]) # c}

\* First pass: latestForKey, the last record that was put under (agent, key).
AtKey(r, agent, key) ==
  r.kind = "put" /\ agentKeyIndex(r.entry.id.agent, r.entry.key) = agentKeyIndex(agent, key)

\* Mutant of Superseded: a tombstone also clears latestForKey.
SupersededUnlessForgotten(f, e) ==
  \E i \in DOMAIN f :
    /\ AtKey(f[i], e.id.agent, e.key)
    /\ RecID(f[i]) # e.id
    /\ \A j \in i+1..Len(f) : ~AtKey(f[j], e.id.agent, e.key) /\ RecID(f[j]) # RecID(f[i])

Superseded(f, e) ==
  \E i \in DOMAIN f :
    /\ AtKey(f[i], e.id.agent, e.key)
    /\ RecID(f[i]) # e.id
    /\ \A j \in i+1..Len(f) : ~AtKey(f[j], e.id.agent, e.key)

\* Mutant of Replay: the second pass does not look at latestForKey.
ReplayWithoutKeys(f) ==
  {f[i].entry : i \in {j \in DOMAIN f : f[j].kind = "put" /\ j \in LastOf(f, RecID(f[j]))}}

\* Second pass: the slots that are neither deleted nor superseded.
Replay(f) ==
  {e \in {f[i].entry : i \in {j \in DOMAIN f : f[j].kind = "put" /\ j \in LastOf(f, RecID(f[j]))}} :
     e.key # NoKey => ~Superseded(f, e)}

------------------------------------------------------------------------------
(* appendRecordLocked *)

\* A line that follows an unterminated one is glued to it, and neither parses.
Glued(r) == IF openTail THEN [file EXCEPT ![Len(file)] = Broken] ELSE Append(file, r)

Write(r) ==
  /\ Len(file) < MaxRecords
  /\ file' = Glued(r)
  /\ openTail' = FALSE

\* The write stopped before the newline: some of the record, or all of it.
WritePart(r) ==
  /\ Faulty
  /\ Len(file) < MaxRecords
  /\ \E part \in {r, Broken} : file' = Glued(part)
  /\ openTail' = TRUE

------------------------------------------------------------------------------
Free(p) == pending' = [pending EXCEPT ![p] = <<>>]

\* Append up to its second Lock: derive the ID, read the clock (the wall clock,
\* which may also step back).
Stamp(p, c, tags, t) ==
  /\ pending[p] = <<>>
  /\ pending' = [pending EXCEPT ![p] = <<NewEntry(c, tags, t)>>]
  /\ UNCHANGED <<file, openTail, returned>>

Existing(e) == {x \in Replay(file) : x.id = e.id}

\* Append on a file that does not parse: the replay fails.
AppendUnreadable(p) ==
  /\ pending[p] # <<>>
  /\ ~Readable
  /\ Free(p)
  /\ returned' = Failure
  /\ UNCHANGED <<file, openTail>>

\* Append of a content that is live and brings no new tag: nothing is written.
AppendSame(p) ==
  /\ pending[p] # <<>>
  /\ Readable
  /\ \E x \in Existing(pending[p][1]) :
       /\ pending[p][1].tags \subseteq x.tags
       /\ returned' = x
  /\ Free(p)
  /\ UNCHANGED <<file, openTail>>

\* The record Append writes: the live entry with more tags, or the new entry.
ToWrite(p) ==
  LET e == pending[p][1]
  IN  IF Existing(e) = {} THEN {e}
      ELSE {Merge(x, e.tags) : x \in {y \in Existing(e) : ~(e.tags \subseteq y.tags)}}

\* Mutant of AppendWrite: the write is decided on what Append was handed,
\* without the replay.
AppendWriteBlind(p) ==
  /\ pending[p] # <<>>
  /\ Readable
  /\ Write(Put(pending[p][1]))
  /\ returned' = pending[p][1]
  /\ Free(p)

AppendWrite(p) ==
  /\ pending[p] # <<>>
  /\ Readable
  /\ \E e \in ToWrite(p) : Write(Put(e)) /\ returned' = e
  /\ Free(p)

AppendWriteFails(p) ==
  /\ pending[p] # <<>>
  /\ Readable
  /\ \E e \in ToWrite(p) : WritePart(Put(e))
  /\ Free(p)
  /\ returned' = Failure

Forget(c) ==
  /\ Write(Tombstone(c))
  /\ returned' = NoEntry
  /\ UNCHANGED pending

ForgetFails(c) ==
  /\ WritePart(Tombstone(c))
  /\ returned' = Failure
  /\ UNCHANGED pending

\* The process dies between two operations or inside a write, and a new one
\* opens the same file.
Crash ==
  /\ \/ UNCHANGED <<file, openTail>>
     \/ /\ Readable
        /\ \E p \in Callers : pending[p] # <<>> /\ \E e \in ToWrite(p) : WritePart(Put(e))
  /\ pending' = [p \in Callers |-> <<>>]
  /\ returned' = NoEntry

\* The record Compact writes has no Key.
Compacted(e) == Put([e EXCEPT !.key = NoKey])

\* Compact: the live entries in any order (the replay walks a map), renamed
\* over the file in one step.  With an unreadable file it returns the error.
Compact ==
  /\ Compacts
  /\ IF Readable
     THEN /\ file' \in SetToSeqs({Compacted(e) : e \in Replay(file)})
          /\ openTail' = FALSE
          /\ returned' = NoEntry
     ELSE /\ returned' = Failure
          /\ UNCHANGED <<file, openTail>>
  /\ UNCHANGED pending

Next ==
  \/ \E p \in Callers :
       \/ \E c \in Content, tags \in SUBSET Tags, t \in Times : Stamp(p, c, tags, t)
       \/ AppendUnreadable(p)
       \/ AppendSame(p)
       \/ AppendWrite(p)
       \/ AppendWriteFails(p)
  \/ \E c \in Content : Forget(c) \/ ForgetFails(c)
  \/ Crash
  \/ Compact

Spec == Init /\ [][Next]_vars

------------------------------------------------------------------------------
Memory == INSTANCE KeyedMemory WITH live <- Replay(file)

\* A step that stops part way, dies, or rewrites the file.
Disturbed ==
  \/ Crash
  \/ Compact
  \/ \E p \in Callers : AppendWriteFails(p)
  \/ \E c \in Content : ForgetFails(c)

\* No live entry has lost its Key: Compact writes the live entries without it.
KeysKept == \A e \in Replay(file) : e.key = e.id.key

\* The append-only file keeps the promise of memory.Store in every interleaving
\* of Append and Forget, also after torn writes, crashes and compactions, as long
\* as it can be read and no entry that was saved under a key is left without it
\* by Compact (JSONLStore_compact has the trace in which that breaks the
\* promise): each step that is not disturbed itself is a step of the abstract set
\* of entries or leaves it alone, and Append returns what the file then holds.
MemoryStep ==
  [][Readable /\ Readable' /\ KeysKept /\ ~Disturbed =>
       [Memory!Next]_<<Replay(file), returned>>]_vars

Known(f) == {e.id : e \in Replay(f)}

\* Whatever fails, crashes or is compacted, an entry becomes live only by an
\* Append of its own content: no tombstone, tag update, torn write or rewrite of
\* the file brings back what was forgotten or superseded.
NoResurrection ==
  [][Readable /\ Readable' =>
       \A c \in Known(file)' \ Known(file) :
         \E p \in Callers : pending[p] # <<>> /\ pending[p][1].id = c /\ pending'[p] = <<>>]_vars

\* memory.go says that Append "REPLACES any prior Entry with the same (AgentID,
\* Key) pair": of two live entries saved under one key, never both.
OnePerKey ==
  \A e, x \in Replay(file) :
    e.id.key # NoKey /\ x.id.key = e.id.key /\ x.id.agent = e.id.agent => x = e

\* The README says memory "Persists across restarts (with a durable Store)": a
\* file the store wrote is one its next reader can replay.
AlwaysReadable == Readable

------------------------------------------------------------------------------
(* The inductive invariant behind MemoryStep and NoResurrection *)

Record == {Put(e) : e \in Entry} \cup {Tombstone(c) : c \in Content} \cup {Broken}

\* The types of all variables.
TypeOK ==
  /\ file \in Seq(Record)
  /\ openTail \in BOOLEAN
  /\ pending \in [Callers -> {<<>>} \cup {<<e>> : e \in Entry}]
  /\ returned \in Returned

\* Only a line that is there lacks its newline, and a stamped entry is filed
\* under the Key its ID was derived from.
FileInv ==
  /\ openTail => file # <<>>
  /\ \A p \in Callers : pending[p] # <<>> => pending[p][1].key = pending[p][1].id.key
==============================================================================
