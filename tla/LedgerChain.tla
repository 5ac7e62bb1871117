----------------------------- MODULE LedgerChain -----------------------------
(***************************************************************************)
(* The read side of the ledger: what Reader.Chain reconstructs of one run, *)
(* from the rows that the run's tool calls write while they execute        *)
(* concurrently.  A row is minted (NewEventID), then stamped with the      *)
(* clock, then inserted, by steps of its own: rows reach the table in      *)
(* another order than they were minted or stamped in, and Chain orders     *)
(* them by (ts, id).  The clock is the wall clock, which may be set back.  *)
(* A crash ends every call and keeps the rows.                             *)
(*                                                                         *)
(* Every row carries the invocation that wrote it, which the code does not *)
(* store: AssembleChain pairs by CallID alone, and the properties compare  *)
(* its pairing with the true one.                                          *)
(***************************************************************************)
EXTENDS Naturals, FiniteSets, SequencesExt, Ordering

CONSTANTS
  Calls,      \* invocations of tools in the run
  Unsafe,     \* those whose tool is not marked safe
  CallIDs,    \* non-empty ToolCall.ID values
  NoCallID,   \* the empty ToolCall.ID
  Distinct,   \* TRUE: the model gives the calls of a run different IDs
  NoEvent,    \* the zero Event
  Run,        \* the writer of the request and of the retrievals: the run itself
  MaxTime,    \* bound: clock readings
  MaxSetBack, \* bound: how often the wall clock is set back
  Milli,      \* clock reading -> the millisecond it falls in
  Rands,      \* bound: values crypto/rand gives for the entropy of an ID
  MaxIssued,  \* bound: calls of the run
  MaxRetrieved \* bound: retrieval events of the run

Writers == Calls \cup {Run}
IDs == CallIDs \cup {NoCallID}
Kinds == {"request", "retrieved", "action", "denied", "result"}

\* A ULID: milliseconds, then entropy, which is drawn at random (r) and counted
\* up (n).  Two IDs are never equal.
EventID == [ms : Nat, r : Nat, n : Nat]

Event == [id : EventID, ts : Nat, kind : Kinds, call : IDs, by : Writers]

ASSUME ChainAssumption ==
  /\ Unsafe \subseteq Calls
  /\ NoCallID \notin CallIDs
  /\ Run \notin Calls
  /\ MaxIssued \in Nat /\ MaxRetrieved \in Nat
  /\ Distinct \in BOOLEAN
  /\ NoEvent \notin Event

ASSUME ClockAssumption ==
  /\ MaxTime \in Nat /\ MaxSetBack \in Nat
  /\ Milli \in [0..MaxTime -> Nat]
  /\ \A t, u \in 0..MaxTime : t <= u => Milli[t] <= Milli[u]
  /\ Rands \subseteq Nat /\ Rands # {}

VARIABLES
  rows,       \* the rows of the events table with this run_id
  pc,         \* writer -> where it is
  ev,         \* writer -> the event it is about to write
  callID,     \* call -> its ToolCall.ID
  minted,     \* the last EventID minted, in the run or before it
  now,        \* the last reading of the wall clock
  setBack,    \* how often the wall clock has been set back
  executed,   \* history: calls whose tool ran
  returned,   \* history: call -> the calls that had returned when it was issued
  retrieved   \* retrievals so far

vars == <<rows, pc, ev, callID, minted, now, setBack, executed, returned, retrieved>>

Init ==
  /\ rows = {}
  /\ pc = [w \in Writers |-> IF w = Run THEN "mint" ELSE "unissued"]
  /\ ev = [w \in Writers |-> NoEvent]
  /\ callID = [c \in Calls |-> NoCallID]
  /\ minted = [ms |-> Milli[0], r |-> 0, n |-> 0]
  /\ now = 0
  /\ setBack = 0
  /\ executed = {}
  /\ returned = [c \in Calls |-> {}]
  /\ retrieved = 0

Goto(w, l) == pc' = [pc EXCEPT ![w] = l]

\* time.Now(): any reading, an earlier one if the clock was set back since the
\* last one.
Now ==
  /\ now' \in 0..MaxTime
  /\ \/ now' >= now /\ UNCHANGED setBack
     \/ now' < now /\ setBack < MaxSetBack /\ setBack' = setBack + 1

------------------------------------------------------------------------------
(* Writing a row *)

\* Mutant of Entropy: plain random entropy, drawn anew for every ID.
EntropyUnordered(ms) == Rands

\* ulid.Monotonic: the random part stays while the millisecond is the one of the
\* last ID, and is drawn anew in any other one.
Entropy(ms) == IF ms = minted.ms THEN {minted.r} ELSE Rands

\* The event literal is under construction: its EventID is minted, its Time is
\* read later.
NewEventID(w, kind, i) ==
  /\ Now
  /\ minted' \in {[ms |-> Milli[now'], r |-> r, n |-> minted.n + 1] : r \in Entropy(Milli[now'])}
  /\ ev' = [ev EXCEPT ![w] =
              [id |-> minted', ts |-> 0, kind |-> kind, call |-> i, by |-> w]]

\* time.Now() in the event literal, in rec, or in prepareInsert for a denied
\* action, whose Time is left zero.
Stamp(w) ==
  /\ pc[w] = "stamp"
  /\ Now
  /\ ev' = [ev EXCEPT ![w].ts = now']
  /\ Goto(w, "insert")
  /\ UNCHANGED <<rows, callID, minted, executed, returned, retrieved>>

\* What CommitAction refuses of an action the middleware built.
\* Record does not validate.
validateAction(e) == e.kind = "action" => e.call # NoCallID

\* Where a writer goes on once its row is in the table.  An allowed action is
\* the only row a call needs in order to proceed.
After(w) ==
  CASE w = Run                 -> "idle"
    [] ev[w].kind = "action"   -> "execute"
    [] OTHER                   -> "returned"

\* insert: a plain INSERT.
Insert(w) ==
  /\ pc[w] = "insert"
  /\ validateAction(ev[w])
  /\ rows' = rows \cup {ev[w]}
  /\ ev' = [ev EXCEPT ![w] = NoEvent]
  /\ Goto(w, After(w))
  /\ UNCHANGED <<callID, minted, now, setBack, executed, returned, retrieved>>

\* The write is refused or fails.  Best-effort rows are dropped; an action that
\* is not durable ends the call before its tool runs.
InsertFails(w) ==
  /\ pc[w] = "insert"
  /\ ev' = [ev EXCEPT ![w] = NoEvent]
  /\ Goto(w, IF w = Run THEN "idle" ELSE "returned")
  /\ UNCHANGED <<rows, callID, minted, now, setBack, executed, returned, retrieved>>

------------------------------------------------------------------------------
(* The run *)

\* Stream mints the request's EventID before anything else of the run.
Request ==
  /\ pc[Run] = "mint"
  /\ NewEventID(Run, "request", NoCallID)
  /\ Goto(Run, "stamp")
  /\ UNCHANGED <<rows, callID, executed, returned, retrieved>>

\* ContextManager.recordRetrieved, once per model turn that injects memories; a
\* turn begins when the calls of the one before have returned.
Retrieve ==
  /\ pc[Run] = "idle"
  /\ \A c \in Calls : pc[c] \in {"unissued", "returned"}
  /\ retrieved < MaxRetrieved
  /\ retrieved' = retrieved + 1
  /\ NewEventID(Run, "retrieved", NoCallID)
  /\ Goto(Run, "stamp")
  /\ UNCHANGED <<rows, callID, executed, returned>>

------------------------------------------------------------------------------
(* A tool call *)

\* The model asks for a call and names it; the gate is next.
Issue(c, i) ==
  /\ pc[Run] = "idle"
  /\ pc[c] = "unissued"
  /\ Cardinality({d \in Calls : pc[d] # "unissued"}) < MaxIssued
  /\ Distinct /\ i # NoCallID => \A d \in Calls : callID[d] # i
  /\ callID' = [callID EXCEPT ![c] = i]
  /\ returned' = [returned EXCEPT ![c] = {d \in Calls : pc[d] = "returned"}]
  /\ Goto(c, "gate")
  /\ UNCHANGED <<rows, ev, minted, now, setBack, executed, retrieved>>

\* The gate refuses an unsafe call: recordDeniedAction, and no middleware.
Deny(c) ==
  /\ pc[c] = "gate"
  /\ c \in Unsafe
  /\ NewEventID(c, "denied", callID[c])
  /\ Goto(c, "stamp")
  /\ UNCHANGED <<rows, callID, executed, returned, retrieved>>

\* auditMiddleware for an unsafe call that was allowed: the action is minted.
AuditUnsafe(c) ==
  /\ pc[c] = "gate"
  /\ c \in Unsafe
  /\ NewEventID(c, "action", callID[c])
  /\ Goto(c, "stamp")
  /\ UNCHANGED <<rows, callID, executed, returned, retrieved>>

\* auditMiddleware for a safe call: straight to the tool.
AuditSafe(c) ==
  /\ pc[c] = "gate"
  /\ c \notin Unsafe
  /\ Goto(c, "execute")
  /\ UNCHANGED <<rows, ev, callID, minted, now, setBack, executed, returned, retrieved>>

\* next(ctx, call.Args), then the result event is minted.
Execute(c) ==
  /\ pc[c] = "execute"
  /\ executed' = executed \cup {c}
  /\ NewEventID(c, "result", callID[c])
  /\ Goto(c, "stamp")
  /\ UNCHANGED <<rows, callID, returned, retrieved>>

\* The process dies: what it was about to write is lost.
Crash ==
  /\ pc' = [w \in Writers |-> "gone"]
  /\ ev' = [w \in Writers |-> NoEvent]
  /\ UNCHANGED <<rows, callID, minted, now, setBack, executed, returned, retrieved>>

Next ==
  \/ \E w \in Writers : Stamp(w) \/ Insert(w) \/ InsertFails(w)
  \/ Request
  \/ Retrieve
  \/ \E c \in Calls :
       \/ \E i \in IDs : Issue(c, i)
       \/ Deny(c)
       \/ AuditUnsafe(c)
       \/ AuditSafe(c)
       \/ Execute(c)
  \/ Crash

Spec == Init /\ [][Next]_vars

------------------------------------------------------------------------------
(* Reader *)

\* ULIDs as strings: by millisecond, then by entropy.
IDBefore(a, b) ==
  \/ a.ms < b.ms
  \/ a.ms = b.ms /\ a.r < b.r
  \/ a.ms = b.ms /\ a.r = b.r /\ a.n < b.n

\* ORDER BY ts, id
Before(e, f) == e.ts < f.ts \/ (e.ts = f.ts /\ IDBefore(e.id, f.id))

Rows == InOrder(rows, {p \in rows \X rows : Before(p[1], p[2])})

ActionKinds == {"action", "denied"}

\* Mutant of Result: paired by tool instead of by call.
ResultByTool(events, e) ==
  LET same == {k \in DOMAIN events :
                 events[k].kind = "result" /\ (events[k].by \in Unsafe) = (e.by \in Unsafe)}
  IN  IF same = {} THEN NoEvent ELSE events[Max(same)]

\* results[callID]: the last result under the CallID of e; a result without a
\* CallID is not in the map.
Result(events, e) ==
  LET same == {k \in DOMAIN events :
                 /\ events[k].kind = "result"
                 /\ events[k].call # NoCallID
                 /\ events[k].call = e.call}
  IN  IF same = {} THEN NoEvent ELSE events[Max(same)]

\* Mutant of Actions: an intent without a result is left out.
ActionsWithResult(events) ==
  LET at == Ascending({k \in DOMAIN events : events[k].kind \in ActionKinds
                                             /\ Result(events, events[k]) # NoEvent})
  IN  [n \in DOMAIN at |->
         [intent |-> events[at[n]], result |-> Result(events, events[at[n]])]]

\* Chain.Actions: the intents, in the order of the events.
Actions(events) ==
  LET at == Ascending({k \in DOMAIN events : events[k].kind \in ActionKinds})
  IN  [n \in DOMAIN at |->
         [intent |-> events[at[n]], result |-> Result(events, events[at[n]])]]

\* Chain.Available: the refs of retrievals, and the results whose CallID has no
\* action.  Its order is not specified (the code ranges over a map).
Available(events) ==
  LET all == ToSet(events)
  IN  {e \in all : e.kind = "retrieved"}
        \cup {r \in {Result(events, e) : e \in {f \in all : f.kind = "result"}} :
                /\ r # NoEvent
                /\ \A a \in all : a.kind \in ActionKinds => a.call # r.call}

\* Chain.Request
RequestOf(events) ==
  LET heads == {k \in DOMAIN events : events[k].kind = "request"}
  IN  IF heads = {} THEN NoEvent ELSE events[Max(heads)]

AssembleChain(events) ==
  [request   |-> RequestOf(events),
   available |-> Available(events),
   actions   |-> Actions(events)]

Chain == AssembleChain(Rows)

------------------------------------------------------------------------------
(* Properties *)

\* "Two concurrent (or back-to-back) calls to the same tool ... each pairing its
\* own intent and result by CallID, with no cross-contamination" (the provenance
\* design).  Whatever the order in which the rows were minted, stamped and
\* inserted: an action shows the result its own call wrote and none if that was
\* lost or the call was denied, and Available holds exactly the retrievals and
\* the results of safe calls that have a CallID.
ChainFaithful ==
  LET chain   == Chain
      results == {r \in rows : r.kind = "result"}
      own(c)  == {r \in results : r.by = c /\ r.call # NoCallID}
  IN  /\ \A a \in ToSet(chain.actions) :
           IF own(a.intent.by) = {} THEN a.result = NoEvent
                                    ELSE a.result \in own(a.intent.by)
      /\ chain.available =
           {r \in rows : r.kind = "retrieved"} \cup UNION {own(c) : c \in Calls \ Unsafe}

\* No record, no action, as the operator sees it: whatever write failed and
\* wherever the process died, every unsafe tool that ran is an allowed action
\* of the chain, once, and a denied call never shows a result.
ExecutedInChain ==
  LET actions == Chain.actions
  IN  /\ \A c \in executed \cap Unsafe :
           Cardinality({k \in DOMAIN actions :
                          actions[k].intent.by = c /\ actions[k].intent.kind = "action"}) = 1
      /\ \A a \in ToSet(actions) :
           a.intent.kind = "denied" => a.intent.by \notin executed /\ a.result = NoEvent

\* NewEventID: "mints a fresh, monotonically increasing time-ordered id", whatever
\* the wall clock does: a call issued after another had returned comes after it in
\* the chain.
ChainInOrderAnyClock ==
  LET actions == Chain.actions
  IN  \A j, k \in DOMAIN actions :
        actions[j].intent.by \in returned[actions[k].intent.by] => j < k

\* NewEventID: "ids minted in the same millisecond still sort in creation
\* order".  As long as the wall clock is not set back during the run, a call
\* issued after another had returned comes after it in the chain, even when the
\* clock did not move between them and in whatever order the rows were written.
ChainInOrder == setBack = 0 => ChainInOrderAnyClock

------------------------------------------------------------------------------
(* The inductive invariants behind the properties of the chain *)

Points ==
  {"unissued", "gate", "mint", "stamp", "insert", "execute", "idle", "returned", "gone"}

\* The types of all variables.
TypeOK ==
  /\ rows \subseteq Event /\ IsFiniteSet(rows)
  /\ pc \in [Writers -> Points]
  /\ ev \in [Writers -> Event \cup {NoEvent}]
  /\ callID \in [Calls -> IDs]
  /\ minted \in EventID
  /\ now \in 0..MaxTime
  /\ setBack \in Nat
  /\ executed \subseteq Calls
  /\ returned \in [Calls -> SUBSET Calls]
  /\ retrieved \in Nat

Writing(w) == pc[w] \in {"stamp", "insert"}

\* The events there are: in the table, or about to be.
Events == rows \cup {ev[w] : w \in {v \in Writers : Writing(v)}}

\* Every event has an ID of its own, and a writer at most one that is not in the
\* table yet.
EventInv ==
  /\ \A e \in Events : e \in Event /\ e.id.n <= minted.n
  /\ \A e, f \in Events : e.id.n = f.id.n => e = f
  /\ \A w \in Writers : Writing(w) => ev[w].by = w /\ ev[w] \notin rows

\* Until the clock is set back no event is from the future: neither its stamp,
\* nor its ID, nor the last ID.
ClockInv ==
  setBack = 0 =>
    /\ minted.ms <= Milli[now]
    /\ \A e \in Events : e.ts <= now /\ (e.id = minted \/ IDBefore(e.id, minted))

\* An event of a call carries its CallID; an intent is of an unsafe call, a
\* result of one that ran, a denial of one that did not and will not.
Intended(e) ==
  /\ e.by = Run => e.kind \in {"request", "retrieved"}
  /\ e.by # Run => /\ e.kind \in {"action", "denied", "result"}
                   /\ e.call = callID[e.by]
                   /\ pc[e.by] \notin {"unissued", "gate"}
  /\ e.kind \in ActionKinds => e.by \in Unsafe
  /\ e.kind = "result" => e.by \in executed
  /\ e.kind = "denied" => e.by \notin executed /\ pc[e.by] # "execute"

\* A call that ran has nothing left to write but its result, and an unsafe one
\* runs after its intent is in the table.
Preceded(c) ==
  /\ c \in executed => pc[c] \in {"stamp", "insert", "returned", "gone"}
  /\ c \in executed /\ Writing(c) => ev[c].kind = "result"
  /\ c \in Unsafe /\ (c \in executed \/ pc[c] = "execute")
       => \E r \in rows : r.by = c /\ r.kind = "action"

\* What the rows of a call say, of which there are at most one intent and one
\* result.
IntentInv ==
  /\ \A e \in Events : Intended(e)
  /\ \A e, f \in Events :
       e.by = f.by /\ e.by # Run /\ (e.kind = "result" <=> f.kind = "result") => e = f
  /\ \A r \in rows : r.kind = "action" => r.call # NoCallID
  /\ \A c \in Calls : Preceded(c)

\* No two calls share a CallID.
OwnIDs == \A c, d \in Calls : callID[c] # NoCallID /\ callID[c] = callID[d] => c = d

\* What a call wrote that had returned when another was issued is of an earlier ID
\* and no later stamp than anything of that other one, until the clock is set
\* back.
OrderInv ==
  \A c \in Calls :
    /\ pc[c] = "unissued" => returned[c] = {}
    /\ \A d \in returned[c] :
         /\ d # c
         /\ pc[d] \in {"returned", "gone"}
         /\ \A r \in rows, e \in Events : setBack = 0 /\ r.by = d /\ e.by = c =>
              IDBefore(r.id, e.id) /\ (e \in rows \/ pc[c] = "insert" => r.ts <= e.ts)
==============================================================================
