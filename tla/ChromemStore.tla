---------------------------- MODULE ChromemStore -----------------------------
(***************************************************************************)
(* memory.ChromemStore: documents in a chromem collection (external) and   *)
(* idForKey, the IDs this process has seen.  The store's mutex covers only *)
(* idForKey; deleting the superseded document and adding the new one are   *)
(* calls of their own, so an Append is three steps and a Forget is two.    *)
(* Adding a document embeds its text, which may fail.  A restart keeps the *)
(* documents and loses idForKey.                                           *)
(***************************************************************************)
EXTENDS MemoryEntries

CONSTANTS
  Callers,     \* goroutines that use the store
  MaxCalls,    \* bound: calls started
  Failing,     \* TRUE: the collection may return an error
  Restarts     \* TRUE: the process may restart on a persistent collection

ASSUME ChromemAssumption ==
  /\ MaxCalls \in Nat
  /\ Failing \in BOOLEAN
  /\ Restarts \in BOOLEAN

VARIABLES
  docs,        \* the documents of the collection, as entries
  seen,        \* idForKey: the IDs this process has appended
  pc,          \* caller -> "idle", "delete", "add", "forget"
  arg,         \* caller -> the entry of its call
  calls,       \* calls started so far
  returned,    \* what the last completed operation returned
  behind       \* a restart or a failed Forget: seen may lack a stored document

vars == <<docs, seen, pc, arg, calls, returned, behind>>

Init ==
  /\ docs = {}
  /\ seen = {}
  /\ pc = [p \in Callers |-> "idle"]
  /\ arg = [p \in Callers |-> NoEntry]
  /\ calls = 0
  /\ returned = NoEntry
  /\ behind = FALSE

Goto(p, l) == pc' = [pc EXCEPT ![p] = l]

Return(p, r) ==
  /\ Goto(p, "idle")
  /\ returned' = r
  /\ arg' = [arg EXCEPT ![p] = NoEntry]

Call(p) ==
  /\ pc[p] = "idle"
  /\ calls < MaxCalls
  /\ calls' = calls + 1

Pass(p, e) == arg' = [arg EXCEPT ![p] = e]

\* Append under the mutex: the ID was seen before and the call returns.
AppendSeen(p, e) ==
  /\ e.id \in seen
  /\ Call(p)
  /\ Return(p, e)
  /\ UNCHANGED <<docs, seen, behind>>

\* Mutant of AppendFirst: the ID is not remembered.
AppendFirstUnmarked(p, e) ==
  /\ e.id \notin seen
  /\ Call(p)
  /\ Pass(p, e)
  /\ Goto(p, IF e.key # NoKey THEN "delete" ELSE "add")
  /\ UNCHANGED <<docs, seen, returned, behind>>

\* Append under the mutex: a new ID, marked as seen before it is stored.
AppendFirst(p, e) ==
  /\ e.id \notin seen
  /\ Call(p)
  /\ Pass(p, e)
  /\ seen' = seen \cup {e.id}
  /\ Goto(p, IF e.key # NoKey THEN "delete" ELSE "add")
  /\ UNCHANGED <<docs, returned, behind>>

\* Mutant of DeletePrior: the where-filter is built but not applied.
DeletePriorNothing(p) ==
  /\ pc[p] = "delete"
  /\ Goto(p, "add")
  /\ UNCHANGED <<docs, seen, arg, calls, returned, behind>>

\* The collection after the where-filter delete and after the add (a document
\* with the same ID is shadowed).
Superseding(p) == {d \in docs : ~SameFact(d, arg[p].id)}
Added(p) == {d \in docs : d.id # arg[p].id} \cup {arg[p]}

\* collection.Delete where key and agent match.
DeletePrior(p) ==
  /\ pc[p] = "delete"
  /\ docs' = Superseding(p)
  /\ Goto(p, "add")
  /\ UNCHANGED <<seen, arg, calls, returned, behind>>

\* collection.AddDocument, which embeds the text.
Add(p) ==
  /\ pc[p] = "add"
  /\ docs' = Added(p)
  /\ Return(p, arg[p])
  /\ UNCHANGED <<seen, calls, behind>>

\* Delete or AddDocument returns an error, before or after it changed the
\* collection, and so does Append; seen stays.
AppendFails(p) ==
  /\ Failing
  /\ pc[p] \in {"delete", "add"}
  /\ docs' \in {docs, IF pc[p] = "delete" THEN Superseding(p) ELSE Added(p)}
  /\ Return(p, Failure)
  /\ UNCHANGED <<seen, calls, behind>>

\* Forget under the mutex.
ForgetSeen(p, c) ==
  /\ Call(p)
  /\ \E t \in Times : Pass(p, NewEntry(c, {}, t))
  /\ seen' = seen \ {c}
  /\ Goto(p, "forget")
  /\ UNCHANGED <<docs, returned, behind>>

ForgetDoc(p) ==
  /\ pc[p] = "forget"
  /\ docs' = {d \in docs : d.id # arg[p].id}
  /\ Return(p, NoEntry)
  /\ UNCHANGED <<seen, calls, behind>>

ForgetFails(p) ==
  /\ Failing
  /\ pc[p] = "forget"
  /\ docs' \in {docs, {d \in docs : d.id # arg[p].id}}
  /\ Return(p, Failure)
  /\ behind' = TRUE
  /\ UNCHANGED <<seen, calls>>

\* NewChromemStore on the same path: GetOrCreateCollection, an empty idForKey.
Restart ==
  /\ Restarts
  /\ seen' = {}
  /\ pc' = [p \in Callers |-> "idle"]
  /\ returned' = NoEntry
  /\ behind' = TRUE
  /\ arg' = [p \in Callers |-> NoEntry]
  /\ UNCHANGED <<docs, calls>>

Next ==
  \/ \E p \in Callers :
       \/ \E c \in Content, tags \in SUBSET Tags, t \in Times :
            LET e == NewEntry(c, tags, t)
            IN  AppendSeen(p, e) \/ AppendFirst(p, e)
       \/ \E c \in Content : ForgetSeen(p, c)
       \/ DeletePrior(p)
       \/ Add(p)
       \/ AppendFails(p)
       \/ ForgetDoc(p)
       \/ ForgetFails(p)
  \/ Restart

Spec == Init /\ [][Next]_vars

------------------------------------------------------------------------------
\* memory.go says that Append "REPLACES any prior Entry with the same (AgentID,
\* Key) pair".  With one caller at a time no failed or repeated call and no
\* restart leaves two documents under one key, because the delete precedes the
\* add.
OnePerKey ==
  \A d, x \in docs :
    d.key # NoKey /\ x.key = d.key /\ x.id.agent = d.id.agent => x = d

\* The comment on Append says that re-Appending the same content does not embed
\* it again: as long as every Forget worked, a process embeds a text only if the
\* collection has no document for it, failed Appends included.
EmbedOnce ==
  [][\A p \in Callers : Add(p) /\ ~behind => \A d \in docs : d.id # arg[p].id]_vars

\* "Same content seen before; chromem already has it", says Append where it
\* returns early; and an Append that returned without error has replaced what
\* its key held.  When nothing is running, the entry the last Append returned is
\* in the collection.
AckedIsStored ==
  (\A p \in Callers : pc[p] = "idle") /\ returned \notin {NoEntry, Failure}
    => \E d \in docs : d.id = returned.id

------------------------------------------------------------------------------
(* The inductive invariant behind OnePerKey and EmbedOnce *)

\* Calls never overlap.
OneCaller == \A p, q \in Callers : p = q

\* The types of all variables.
TypeOK ==
  /\ docs \subseteq Entry
  /\ seen \subseteq Content
  /\ pc \in [Callers -> {"idle", "delete", "add", "forget"}]
  /\ arg \in [Callers -> Entry \cup {NoEntry}]
  /\ calls \in Nat
  /\ returned \in Returned
  /\ behind \in BOOLEAN

\* A call under way has an entry, filed under the Key its ID was derived from;
\* so is every document.
Filed ==
  /\ \A d \in docs : d.key = d.id.key
  /\ \A p \in Callers : pc[p] # "idle" => arg[p] \in Entry /\ arg[p].key = arg[p].id.key

\* When a document is added, the delete has removed what its key held.
Cleared ==
  \A p \in Callers : pc[p] = "add" => \A d \in docs : ~SameFact(d, arg[p].id)

\* idForKey knows every document but one that is being forgotten, and the
\* document of an Append under way is not stored yet.
Remembered ==
  /\ \A p \in Callers : pc[p] \in {"delete", "add"} => arg[p].id \in seen
  /\ ~behind =>
       /\ \A d \in docs : d.id \in seen \/ \E p \in Callers : pc[p] = "forget" /\ arg[p].id = d.id
       /\ \A p \in Callers : pc[p] \in {"delete", "add"} => \A d \in docs : d.id # arg[p].id

StoreInv == Filed /\ Cleared /\ Remembered /\ OnePerKey
==============================================================================
