------------------------------- MODULE AgentRun -------------------------------
(***************************************************************************)
(* One jess agent at run time: the per-agent run state, the Stream calls   *)
(* that drive prompts, the gate, the audit middleware and the ledger sink, *)
(* around agentcore's run loop, which is external and modelled from how    *)
(* jess uses it.                                                           *)
(*                                                                         *)
(* A Stream call s stands for the run id and for the request id it mints,  *)
(* so an audit event that names run s and request s is about one run.      *)
(***************************************************************************)
EXTENDS Naturals, Sequences, FiniteSets

CONSTANTS
  Streams,      \* jess.Stream calls made on the agent
  Directs,      \* runs started by calling agent.Prompt without Stream
  NoRun,        \* the empty run id and the zero request id
  Calls,        \* tool calls the model issues
  NoCall,       \* an audit event without a call id
  Tools,        \* tool instances
  ToolOf,       \* the tool a call invokes
  NameOf,       \* the name of a tool
  Registered,   \* tools in Config.Tools; the others come in through Config.Extra
  SafeTools,    \* tools with Safe() = TRUE
  GateModes,    \* gate configurations explored
  Sinks,        \* audit sinks explored
  MaxFails,     \* bound: ledger writes that fail
  AwaitTools,   \* external: an aborted run becomes idle only after its tools return
  MayRelease,   \* TRUE: ReleaseAgent may be called
  OutCap,       \* capacity of the channel Stream returns (64 in the code)
  MaxEvents,    \* events a run emits before its last one
  Readers       \* streams whose event channel is consumed

Runs == Streams \cup Directs

ASSUME RunsAssumption ==
  /\ NoRun \notin Runs
  /\ Streams \cap Directs = {}
  /\ Readers \subseteq Streams

ASSUME CallsAssumption ==
  /\ NoCall \notin Calls
  /\ ToolOf \in [Calls -> Tools]
  /\ DOMAIN NameOf = Tools
  /\ Registered \subseteq Tools
  /\ SafeTools \subseteq Tools

ASSUME ConfigAssumption ==
  /\ GateModes \subseteq {"custom", "allowAll", "approver", "noApprover"}
  /\ Sinks \subseteq {"durable", "jsonl", "discard"}
  /\ {AwaitTools, MayRelease} \subseteq BOOLEAN

ASSUME BoundsAssumption == OutCap \in Nat \ {0} /\ MaxEvents \in Nat /\ MaxFails \in Nat

VARIABLES
  gateMode,     \* the gate core.Agent installed
  sink,         \* the audit sink core.Agent installed
  registered,   \* the agent is in agentRegistry
  rs,           \* runState: id and requestID
  pc,           \* control point of each Stream call
  known,        \* Stream calls that found the agent in the registry
  cancelled,    \* Stream calls whose context is cancelled
  idle,         \* Stream calls whose idle channel is closed
  subs,         \* Stream calls with a live subscription
  out,          \* the event channel of each Stream call
  summary,      \* the run whose summary each Stream call holds
  running,      \* agentcore: the active run
  started,      \* agentcore: runs ever started
  aborted,      \* agentcore: the active run's context is cancelled
  ended,        \* agentcore: the active run has emitted its last event
  emitted,      \* agentcore: events the active run emitted
  todo,         \* agentcore: listeners the current event still has to reach
  sending,      \* agentcore: the listener being called
  panicked,     \* the process died of a send on a closed channel
  cpc,          \* control point of each tool call
  callRun,      \* the run that issued each tool call
  seen,         \* what a tool call read from the run state
  ledger,       \* audit events stored
  fails,        \* ledger writes that failed
  executed      \* tool calls whose tool has run

configVars == <<gateMode, sink>>
streamVars == <<registered, rs, pc, known, cancelled, idle>>
feedVars   == <<subs, out, summary>>
loopVars   == <<running, started, aborted, ended, emitted, todo, sending, panicked>>
ledgerVars == <<ledger, fails>>
callVars   == <<cpc, callRun, seen, executed>>
vars == <<configVars, streamVars, feedVars, loopVars, callVars, ledgerVars>>

-------------------------------------------------------------------------------
(* Ledger *)

RunOrNone == Runs \cup {NoRun}

Kinds == {"request", "prompt", "gate", "action", "result", "abort", "runEnd"}

Event == [kind : Kinds, run : RunOrNone, req : RunOrNone,
          call : Calls \cup {NoCall}, verdict : {"none", "allowed", "denied"}]

RunEvent(kind, s) ==
  [kind |-> kind, run |-> s, req |-> NoRun, call |-> NoCall, verdict |-> "none"]

Action(c, run, req, verdict) ==
  [kind |-> "action", run |-> run, req |-> req, call |-> c, verdict |-> verdict]

WriteFails ==
  /\ fails < MaxFails
  /\ fails' = fails + 1

Store(e) ==
  /\ ledger' = ledger \cup {e}
  /\ UNCHANGED fails

\* Sink.Record, best effort: the caller ignores the error.
Record(e) ==
  \/ sink # "discard" /\ Store(e)
  \/ sink = "discard" /\ UNCHANGED ledgerVars
  \/ sink # "discard" /\ WriteFails /\ UNCHANGED ledger

\* An event with a zero EventID: prepareInsert of the durable backends rejects
\* it; the line-per-event JSONL sink does not look at the id.
RecordZeroID(e) == IF sink = "durable" THEN UNCHANGED ledgerVars ELSE Record(e)

\* Stream's rec helper: a no-op when the agent was not in the registry.
Rec(s, e) == IF s \in known THEN Record(e) ELSE UNCHANGED ledgerVars

AllowedActions == {e \in ledger : e.kind = "action" /\ e.verdict = "allowed"}

-------------------------------------------------------------------------------
(* Tools, as the gate and as the audit middleware classify them *)

\* gate.New asks the tool instance.
GateSafe(c) == ToolOf[c] \in SafeTools

\* core.Agent's safe map is keyed by the name of the registered safe tools.
safe == {NameOf[t] : t \in Registered \cap SafeTools}

MwSafe(c) == NameOf[ToolOf[c]] \in safe

\* No tool that is not safe shares its name with a registered safe one.
NoShadowing == \A c \in Calls : MwSafe(c) => GateSafe(c)

\* Every run goes through Stream on an agent that stays registered, and agentcore
\* waits for the tools of an aborted run.
OnlyStreams == AwaitTools /\ ~MayRelease /\ Directs = {}

-------------------------------------------------------------------------------
NoRunState == [run |-> NoRun, req |-> NoRun]

Init ==
  /\ gateMode \in GateModes
  /\ sink \in Sinks
  /\ registered = TRUE
  /\ rs = NoRunState
  /\ pc = [s \in Streams |-> "new"]
  /\ known = {}
  /\ cancelled = {}
  /\ idle = {}
  /\ subs = {}
  /\ out = [s \in Streams |-> <<>>]
  /\ summary = [s \in Streams |-> NoRun]
  /\ running = NoRun
  /\ started = {}
  /\ aborted = FALSE
  /\ ended = FALSE
  /\ emitted = 0
  /\ todo = {}
  /\ sending = NoRun
  /\ panicked = FALSE
  /\ cpc = [c \in Calls |-> "new"]
  /\ callRun = [c \in Calls |-> NoRun]
  /\ seen = [c \in Calls |-> NoRunState]
  /\ ledger = {}
  /\ fails = 0
  /\ executed = {}

Goto(s, from, to) == pc[s] = from /\ pc' = [pc EXCEPT ![s] = to]

-------------------------------------------------------------------------------
(* Stream *)

\* Mutant of Start: begin takes the run state without looking whether it is free.
StartUnchecked(s) ==
  /\ Goto(s, "new", "begun")
  /\ known' = IF registered THEN known \cup {s} ELSE known
  /\ rs' = IF registered THEN [run |-> s, req |-> s] ELSE rs
  /\ UNCHANGED <<registered, cancelled, idle>>
  /\ UNCHANGED <<configVars, feedVars, loopVars, callVars, ledgerVars>>

\* Stream looks the agent up and claims the run state; begin refuses a second
\* run.  An agent that is not in the registry has no run state to claim.
Start(s) ==
  /\ pc[s] = "new"
  /\ known' = IF registered THEN known \cup {s} ELSE known
  /\ IF registered
     THEN IF rs.run = NoRun
          THEN /\ rs' = [run |-> s, req |-> s]
               /\ pc' = [pc EXCEPT ![s] = "begun"]
          ELSE /\ pc' = [pc EXCEPT ![s] = "refused"]
               /\ UNCHANGED rs
     ELSE /\ pc' = [pc EXCEPT ![s] = "begun"]
          /\ UNCHANGED rs
  /\ UNCHANGED <<registered, cancelled, idle>>
  /\ UNCHANGED <<configVars, feedVars, loopVars, callVars, ledgerVars>>

\* The refused call's goroutine: an empty event, then a run_end without an id.
Refuse(s) ==
  /\ Goto(s, "refused", "refusing")
  /\ out' = [out EXCEPT ![s] = Append(@, [run |-> NoRun, last |-> FALSE])]
  /\ RecordZeroID(RunEvent("runEnd", s))
  /\ UNCHANGED <<registered, rs, known, cancelled, idle, subs, summary>>
  /\ UNCHANGED <<configVars, loopVars, callVars>>

RefuseClose(s) ==
  /\ Goto(s, "refusing", "done")
  /\ UNCHANGED <<registered, rs, known, cancelled, idle>>
  /\ UNCHANGED <<configVars, feedVars, loopVars, callVars, ledgerVars>>

RecordRequest(s) ==
  /\ Goto(s, "begun", "subscribing")
  /\ Rec(s, RunEvent("request", s))
  /\ UNCHANGED <<registered, rs, known, cancelled, idle>>
  /\ UNCHANGED <<configVars, feedVars, loopVars, callVars>>

\* Subscribe, then the best-effort prompt event.
Subscribe(s) ==
  /\ Goto(s, "subscribing", "prompting")
  /\ subs' = subs \cup {s}
  /\ Rec(s, RunEvent("prompt", s))
  /\ UNCHANGED <<registered, rs, known, cancelled, idle, out, summary>>
  /\ UNCHANGED <<configVars, loopVars, callVars>>

\* agentcore starts run r: fresh run context, no event emitted yet.
StartRun(r) ==
  /\ running' = r
  /\ started' = started \cup {r}
  /\ aborted' = FALSE
  /\ ended' = FALSE
  /\ emitted' = 0
  /\ UNCHANGED <<todo, sending, panicked>>

\* Prompt returns an error when a run is active.
Prompt(s) ==
  /\ \/ running = NoRun /\ Goto(s, "prompting", "waiting") /\ StartRun(s)
     \/ running # NoRun /\ Goto(s, "prompting", "promptFailed") /\ UNCHANGED loopVars
  /\ UNCHANGED <<registered, rs, known, cancelled, idle>>
  /\ UNCHANGED <<configVars, feedVars, callVars, ledgerVars>>

\* WaitForIdle returns on its own goroutine and closes idle.
SignalIdle(s) ==
  /\ pc[s] \in {"waiting", "unwinding"}
  /\ running = NoRun
  /\ s \notin idle
  /\ idle' = idle \cup {s}
  /\ UNCHANGED <<registered, rs, pc, known, cancelled>>
  /\ UNCHANGED <<configVars, feedVars, loopVars, callVars, ledgerVars>>

\* Mutant of Abort: the cancelled context never reaches the agent.
AbortNotForwarded(s) ==
  /\ s \in cancelled
  /\ Goto(s, "waiting", "unwinding")
  /\ UNCHANGED <<registered, rs, known, cancelled, idle>>
  /\ UNCHANGED <<configVars, feedVars, loopVars, callVars, ledgerVars>>

\* The select sees the cancelled context: Abort cancels whatever run is active.
Abort(s) ==
  /\ s \in cancelled
  /\ Goto(s, "waiting", "unwinding")
  /\ aborted' = (running # NoRun)
  /\ UNCHANGED <<registered, rs, known, cancelled, idle>>
  /\ UNCHANGED <<running, started, ended, emitted, todo, sending, panicked>>
  /\ UNCHANGED <<configVars, feedVars, callVars, ledgerVars>>

\* Mutant of Idle: after an abort the loop is not waited for.
IdleAbortUnwaited(s) ==
  /\ (s \in idle /\ Goto(s, "waiting", "finished")) \/ Goto(s, "unwinding", "aborted")
  /\ idle' = idle \ {s}
  /\ UNCHANGED <<registered, rs, known, cancelled>>
  /\ UNCHANGED <<configVars, feedVars, loopVars, callVars, ledgerVars>>

\* <-idle, in the select or after the abort.
Idle(s) ==
  /\ s \in idle
  /\ Goto(s, "waiting", "finished") \/ Goto(s, "unwinding", "aborted")
  /\ idle' = idle \ {s}
  /\ UNCHANGED <<registered, rs, known, cancelled>>
  /\ UNCHANGED <<configVars, feedVars, loopVars, callVars, ledgerVars>>

\* Mutant of RecordBoundary: the abort branch falls through to run_end.
RecordBoundaryNoReturn(s) ==
  /\ \/ Goto(s, "aborted", "finished") /\ Rec(s, RunEvent("abort", s))
     \/ Goto(s, "finished", "ending") /\ Rec(s, RunEvent("runEnd", s))
     \/ Goto(s, "promptFailed", "ending") /\ Rec(s, RunEvent("runEnd", s))
  /\ UNCHANGED <<registered, rs, known, cancelled, idle>>
  /\ UNCHANGED <<configVars, feedVars, loopVars, callVars>>

\* The run boundary: abort, run_end, or run_end with Prompt's error.
RecordBoundary(s) ==
  /\ \/ Goto(s, "aborted", "ending") /\ Rec(s, RunEvent("abort", s))
     \/ Goto(s, "finished", "ending") /\ Rec(s, RunEvent("runEnd", s))
     \/ Goto(s, "promptFailed", "ending") /\ Rec(s, RunEvent("runEnd", s))
  /\ UNCHANGED <<registered, rs, known, cancelled, idle>>
  /\ UNCHANGED <<configVars, feedVars, loopVars, callVars>>

\* First deferred call: runState.end clears the state it still owns.
End(s) ==
  /\ Goto(s, "ending", "ended")
  /\ rs' = IF s \in known /\ rs.run = s THEN NoRunState ELSE rs
  /\ UNCHANGED <<registered, known, cancelled, idle>>
  /\ UNCHANGED <<configVars, feedVars, loopVars, callVars, ledgerVars>>

\* Second deferred call: unsub.
Unsubscribe(s) ==
  /\ Goto(s, "ended", "unsubscribed")
  /\ subs' = subs \ {s}
  /\ UNCHANGED <<registered, rs, known, cancelled, idle, out, summary>>
  /\ UNCHANGED <<configVars, loopVars, callVars, ledgerVars>>

\* Third and fourth deferred calls: close(out), close(done).
Close(s) ==
  /\ Goto(s, "unsubscribed", "outClosed") \/ Goto(s, "outClosed", "done")
  /\ UNCHANGED <<registered, rs, known, cancelled, idle>>
  /\ UNCHANGED <<configVars, feedVars, loopVars, callVars, ledgerVars>>

StreamStep(s) ==
  \/ Start(s) \/ Refuse(s) \/ RefuseClose(s) \/ RecordRequest(s) \/ Subscribe(s)
  \/ Prompt(s) \/ SignalIdle(s) \/ Abort(s) \/ Idle(s) \/ RecordBoundary(s)
  \/ End(s) \/ Unsubscribe(s) \/ Close(s)

-------------------------------------------------------------------------------
(* The caller: cancels the context, reads the channel, prompts the agent     *)
(* directly, releases the agent.                                             *)

\* The context is looked at in the select only; a later cancellation has no
\* effect and is left out.
CancelCtx(s) ==
  /\ pc[s] \in {"new", "begun", "subscribing", "prompting", "waiting"}
  /\ s \notin cancelled
  /\ cancelled' = cancelled \cup {s}
  /\ UNCHANGED <<registered, rs, pc, known, idle>>
  /\ UNCHANGED <<configVars, feedVars, loopVars, callVars, ledgerVars>>

Receive(s) ==
  /\ s \in Readers
  /\ out[s] # <<>>
  /\ out' = [out EXCEPT ![s] = Tail(@)]
  /\ UNCHANGED <<subs, summary>>
  /\ UNCHANGED <<configVars, streamVars, loopVars, callVars, ledgerVars>>

DirectPrompt(d) ==
  /\ running = NoRun
  /\ d \notin started
  /\ StartRun(d)
  /\ UNCHANGED <<configVars, streamVars, feedVars, callVars, ledgerVars>>

ReleaseAgent ==
  /\ MayRelease
  /\ registered
  /\ registered' = FALSE
  /\ UNCHANGED <<rs, pc, known, cancelled, idle>>
  /\ UNCHANGED <<configVars, feedVars, loopVars, callVars, ledgerVars>>

-------------------------------------------------------------------------------
(* agentcore's run loop *)

InFlight(r) == {c \in Calls : callRun[c] = r /\ cpc[c] \notin {"new", "returned"}}

\* The loop hands an event to the listeners, one after the other.
Emit ==
  /\ running # NoRun
  /\ ~ended
  /\ emitted < MaxEvents
  /\ todo = {} /\ sending = NoRun
  /\ emitted' = emitted + 1
  /\ todo' = subs
  /\ UNCHANGED <<running, started, aborted, ended, sending, panicked>>
  /\ UNCHANGED <<configVars, streamVars, feedVars, callVars, ledgerVars>>

\* The last event carries the summary.  A run ends by itself only once its tool
\* calls returned; an aborted one may leave them behind unless AwaitTools.
EmitLast ==
  /\ running # NoRun
  /\ ~ended
  /\ todo = {} /\ sending = NoRun
  /\ InFlight(running) = {} \/ (aborted /\ ~AwaitTools)
  /\ ended' = TRUE
  /\ todo' = subs
  /\ UNCHANGED <<running, started, aborted, emitted, sending, panicked>>
  /\ UNCHANGED <<configVars, streamVars, feedVars, callVars, ledgerVars>>

\* Mutant of CallListener: the summary of an aborted run is not kept.
CallListenerDropsAborted(s) ==
  /\ sending = NoRun
  /\ s \in todo
  /\ todo' = todo \ {s}
  /\ sending' = IF s \in subs THEN s ELSE sending
  /\ summary' = IF s \in subs /\ ended /\ ~aborted
                THEN [summary EXCEPT ![s] = running] ELSE summary
  /\ UNCHANGED <<running, started, aborted, ended, emitted, panicked, subs, out>>
  /\ UNCHANGED <<configVars, streamVars, callVars, ledgerVars>>

\* The subscription callback starts: a summary is stored before the send.
CallListener(s) ==
  /\ sending = NoRun
  /\ s \in todo
  /\ todo' = todo \ {s}
  /\ IF s \in subs
     THEN /\ sending' = s
          /\ summary' = IF ended THEN [summary EXCEPT ![s] = running] ELSE summary
     ELSE UNCHANGED <<sending, summary>>
  /\ UNCHANGED <<running, started, aborted, ended, emitted, panicked, subs, out>>
  /\ UNCHANGED <<configVars, streamVars, callVars, ledgerVars>>

OutClosed(s) == pc[s] \in {"outClosed", "done"}

\* The callback's select: deliver, or give up because done is closed.
Deliver(s) ==
  /\ sending = s
  /\ \/ /\ ~OutClosed(s)
        /\ Len(out[s]) < OutCap
        /\ out' = [out EXCEPT ![s] = Append(@, [run |-> running, last |-> ended])]
     \/ pc[s] = "done" /\ UNCHANGED out
  /\ sending' = NoRun
  /\ UNCHANGED <<running, started, aborted, ended, emitted, todo, panicked, subs, summary>>
  /\ UNCHANGED <<configVars, streamVars, callVars, ledgerVars>>

\* A send on the closed channel kills the process.
SendOnClosed(s) ==
  /\ sending = s
  /\ OutClosed(s)
  /\ panicked' = TRUE
  /\ UNCHANGED <<running, started, aborted, ended, emitted, todo, sending>>
  /\ UNCHANGED <<configVars, streamVars, feedVars, callVars, ledgerVars>>

GoIdle ==
  /\ running # NoRun
  /\ ended /\ todo = {} /\ sending = NoRun
  /\ running' = NoRun
  /\ aborted' = FALSE
  /\ ended' = FALSE
  /\ emitted' = 0
  /\ UNCHANGED <<started, todo, sending, panicked>>
  /\ UNCHANGED <<configVars, streamVars, feedVars, callVars, ledgerVars>>

\* The model asks for a tool.
IssueCall(c) ==
  /\ running # NoRun
  /\ ~ended
  /\ cpc[c] = "new"
  /\ cpc' = [cpc EXCEPT ![c] = "gate"]
  /\ callRun' = [callRun EXCEPT ![c] = running]
  /\ UNCHANGED <<seen, executed>>
  /\ UNCHANGED <<configVars, streamVars, feedVars, loopVars, ledgerVars>>

-------------------------------------------------------------------------------
(* Gate and audit middleware *)

CallGoto(c, from, to) == cpc[c] = from /\ cpc' = [cpc EXCEPT ![c] = to]

DefaultGate == gateMode \in {"approver", "noApprover"}

GateDecision(verdict) ==
  [kind |-> "gate", run |-> rs.run, req |-> NoRun, call |-> NoCall, verdict |-> verdict]

\* The gate lets the call pass; only the default gate writes a decision.
GateAllow(c) ==
  /\ CallGoto(c, "gate", "mw")
  /\ gateMode = "noApprover" => GateSafe(c)
  /\ IF DefaultGate THEN Record(GateDecision("allowed")) ELSE UNCHANGED ledgerVars
  /\ UNCHANGED <<callRun, seen, executed>>
  /\ UNCHANGED <<configVars, streamVars, feedVars, loopVars>>

\* The gate refuses; agentcore drops the call before the middleware.
GateDeny(c) ==
  /\ \/ /\ DefaultGate
        /\ ~GateSafe(c)
        /\ CallGoto(c, "gate", "denied")
        /\ Record(GateDecision("denied"))
     \/ /\ gateMode = "custom"
        /\ CallGoto(c, "gate", "returned")
        /\ UNCHANGED ledgerVars
  /\ UNCHANGED <<callRun, seen, executed>>
  /\ UNCHANGED <<configVars, streamVars, feedVars, loopVars>>

\* recordDeniedAction reads the run id ...
ReadDeniedRun(c) ==
  /\ CallGoto(c, "denied", "denyRef")
  /\ seen' = [seen EXCEPT ![c].run = rs.run]
  /\ UNCHANGED <<callRun, executed>>
  /\ UNCHANGED <<configVars, streamVars, feedVars, loopVars, ledgerVars>>

\* ... and then, under another lock, the request.
RecordDenied(c) ==
  /\ CallGoto(c, "denyRef", "returned")
  /\ Record(Action(c, seen[c].run, rs.req, "denied"))
  /\ UNCHANGED <<callRun, seen, executed>>
  /\ UNCHANGED <<configVars, streamVars, feedVars, loopVars>>

\* Mutant of CheckAction: a sink that is not durable does not stop the call.
CheckActionAnySink(c) ==
  /\ \/ /\ MwSafe(c) \/ sink # "durable"
        /\ CallGoto(c, "mw", "cleared")
        /\ UNCHANGED seen
     \/ /\ ~MwSafe(c) /\ rs.run # NoRun /\ sink = "durable"
        /\ CallGoto(c, "mw", "commit")
        /\ seen' = [seen EXCEPT ![c] = rs]
  /\ UNCHANGED <<callRun, executed>>
  /\ UNCHANGED <<configVars, streamVars, feedVars, loopVars, ledgerVars>>

\* The middleware: a safe tool passes; any other needs an active run and a
\* durable sink.
CheckAction(c) ==
  /\ \/ MwSafe(c) /\ CallGoto(c, "mw", "cleared") /\ UNCHANGED seen
     \/ /\ ~MwSafe(c) /\ rs.run # NoRun /\ sink = "durable"
        /\ CallGoto(c, "mw", "commit")
        /\ seen' = [seen EXCEPT ![c] = rs]
     \/ /\ ~MwSafe(c) /\ (rs.run = NoRun \/ sink # "durable")
        /\ CallGoto(c, "mw", "returned")
        /\ UNCHANGED seen
  /\ UNCHANGED <<callRun, executed>>
  /\ UNCHANGED <<configVars, streamVars, feedVars, loopVars, ledgerVars>>

\* Mutant of CommitAction: its error is ignored, as Record's is.
CommitActionBestEffort(c) ==
  /\ CallGoto(c, "commit", "cleared")
  /\ Record(Action(c, seen[c].run, seen[c].req, "allowed"))
  /\ UNCHANGED <<callRun, seen, executed>>
  /\ UNCHANGED <<configVars, streamVars, feedVars, loopVars>>

\* Mutant of CommitAction: the request is read under a lock of its own.
CommitActionTorn(c) ==
  /\ CallGoto(c, "commit", "cleared")
  /\ Store(Action(c, seen[c].run, rs.req, "allowed"))
  /\ UNCHANGED <<callRun, seen, executed>>
  /\ UNCHANGED <<configVars, streamVars, feedVars, loopVars>>

\* CommitAction: stored and acknowledged, or an error (which may come after the
\* row was written) and the tool does not run.
CommitAction(c) ==
  /\ \/ /\ CallGoto(c, "commit", "cleared")
        /\ Store(Action(c, seen[c].run, seen[c].req, "allowed"))
     \/ /\ WriteFails
        /\ CallGoto(c, "commit", "returned")
        /\ \/ ledger' = ledger \cup {Action(c, seen[c].run, seen[c].req, "allowed")}
           \/ UNCHANGED ledger
  /\ UNCHANGED <<callRun, seen, executed>>
  /\ UNCHANGED <<configVars, streamVars, feedVars, loopVars>>

\* The run id of the result event is read again, just before the tool runs.
ReadRun(c) ==
  /\ CallGoto(c, "cleared", "exec")
  /\ seen' = [seen EXCEPT ![c] = rs]
  /\ UNCHANGED <<callRun, executed>>
  /\ UNCHANGED <<configVars, streamVars, feedVars, loopVars, ledgerVars>>

Execute(c) ==
  /\ CallGoto(c, "exec", "ran")
  /\ executed' = executed \cup {c}
  /\ UNCHANGED <<callRun, seen>>
  /\ UNCHANGED <<configVars, streamVars, feedVars, loopVars, ledgerVars>>

RecordResult(c) ==
  /\ CallGoto(c, "ran", "returned")
  /\ Record([kind |-> "result", run |-> seen[c].run, req |-> NoRun, call |-> c,
             verdict |-> "none"])
  /\ UNCHANGED <<callRun, seen, executed>>
  /\ UNCHANGED <<configVars, streamVars, feedVars, loopVars>>

CallStep(c) ==
  \/ GateAllow(c) \/ GateDeny(c) \/ ReadDeniedRun(c) \/ RecordDenied(c)
  \/ CheckAction(c) \/ CommitAction(c) \/ ReadRun(c) \/ Execute(c) \/ RecordResult(c)

-------------------------------------------------------------------------------
LoopStep ==
  \/ Emit \/ EmitLast \/ GoIdle
  \/ \E s \in Streams : CallListener(s) \/ Deliver(s) \/ SendOnClosed(s)

Next ==
  /\ ~panicked
  /\ \/ \E s \in Streams : StreamStep(s) \/ CancelCtx(s) \/ Receive(s)
     \/ \E d \in Directs : DirectPrompt(d)
     \/ ReleaseAgent
     \/ LoopStep
     \/ \E c \in Calls : IssueCall(c) \/ CallStep(c)

Spec == Init /\ [][Next]_vars

(***************************************************************************)
(* Fairness.  Goroutines that can run do run; a tool returns; a consumer   *)
(* that reads the channel keeps reading it; an aborted run winds down.     *)
(* Nothing is assumed of a run nobody aborts, of the caller's other        *)
(* actions, or of a stream without a reader.                               *)
(***************************************************************************)
Fairness ==
  /\ \A s \in Streams :
       /\ WF_vars(~panicked /\ StreamStep(s) /\ pc[s] # "new")
       /\ WF_vars(~panicked /\ (CallListener(s) \/ Deliver(s)))
       /\ WF_vars(~panicked /\ Receive(s))
  /\ \A c \in Calls : WF_vars(~panicked /\ CallStep(c))
  /\ WF_vars(~panicked /\ aborted /\ EmitLast)
  /\ WF_vars(~panicked /\ GoIdle)

FairSpec == Spec /\ Fairness

-------------------------------------------------------------------------------
(* Properties *)

StreamPoints ==
  {"new", "begun", "refused", "refusing", "subscribing", "prompting", "waiting",
   "promptFailed", "unwinding", "aborted", "finished", "ending", "ended",
   "unsubscribed", "outClosed", "done"}

CallPoints ==
  {"new", "gate", "denied", "denyRef", "mw", "commit", "cleared", "exec", "ran",
   "returned"}

\* What the channel returned by Stream carries.
OutEvent == [run : RunOrNone, last : BOOLEAN]

RunContext == [run : Streams \cup {NoRun}, req : Streams \cup {NoRun}]

\* The types of all variables.
TypeOK ==
  /\ gateMode \in GateModes
  /\ sink \in Sinks
  /\ registered \in BOOLEAN
  /\ rs \in RunContext
  /\ pc \in [Streams -> StreamPoints]
  /\ known \subseteq Streams
  /\ cancelled \subseteq Streams
  /\ idle \subseteq Streams
  /\ subs \subseteq Streams
  /\ out \in [Streams -> Seq(OutEvent)]
  /\ summary \in [Streams -> RunOrNone]
  /\ running \in RunOrNone
  /\ started \subseteq Runs
  /\ aborted \in BOOLEAN
  /\ ended \in BOOLEAN
  /\ emitted \in Nat
  /\ todo \subseteq Streams
  /\ sending \in Streams \cup {NoRun}
  /\ panicked \in BOOLEAN
  /\ cpc \in [Calls -> CallPoints]
  /\ callRun \in [Calls -> RunOrNone]
  /\ seen \in [Calls -> RunContext]
  /\ ledger \subseteq Event
  /\ fails \in Nat
  /\ executed \subseteq Calls

\* auditMiddleware: no durable record, no action.  Whatever the gate allowed and
\* whatever run, abort or release raced the call, a tool that is not safe has
\* run only if an allowed action naming the call is in the ledger.
NoRecordNoAction ==
  \A c \in executed : GateSafe(c) \/ \E e \in AllowedActions : e.call = c

\* auditMiddleware and runState.runContext: an allowed action is self-explaining.
\* It names a run, and the request it refers to is the request of that same run
\* even when runs begin and end around the call.
SelfExplaining ==
  \A e \in AllowedActions : e.run # NoRun /\ e.req = e.run

\* A Stream call between a successful begin and its end.
Owning == {"begun", "subscribing", "prompting", "waiting", "promptFailed",
           "unwinding", "aborted", "finished", "ending"}

\* runState.begin/end: the run state belongs to the Stream call that claimed it
\* from begin to end, so at most one of them is between the two.
OneActiveRun ==
  \A s \in known : pc[s] \in Owning <=> rs.run = s

\* gate.New without an approver fails closed: no call of a tool that is not safe
\* ever runs.
FailClosed ==
  gateMode = "noApprover" => \A c \in executed : GateSafe(c)

\* gate and audit middleware: every action (allowed or denied) and every result
\* in the ledger names the run that issued the call, and an action refers to
\* that run's request, across aborts and back-to-back runs.
Attribution ==
  \A e \in ledger :
    /\ e.kind \in {"action", "result"} => e.run = callRun[e.call]
    /\ e.kind = "action" => e.req = e.run

\* Every ledger write succeeds and is kept.
WorkingSink == MaxFails = 0 /\ sink # "discard"

Boundaries(s) == {e \in ledger : e.run = s /\ e.kind \in {"abort", "runEnd"}}

\* Stream: with a working sink, a run that was accepted has exactly one boundary
\* event (run_end or abort) once it gives the run state back.
RunBoundary ==
  WorkingSink => \A s \in known :
    pc[s] \in {"ending", "ended", "unsubscribed", "outClosed"}
      => Cardinality(Boundaries(s)) = 1

\* Stream waits for the loop to unwind before it records the boundary: no tool
\* of a run executes once the run's boundary is recorded (the kill switch is
\* effective when the ledger says abort).
NothingAfterBoundary ==
  [][\A c \in executed' \ executed : Boundaries(callRun[c]) = {}]_vars

\* Stream's wait function: when done is closed the summary of a run that was
\* started is available.
SummaryReady ==
  \A s \in Streams : pc[s] = "done" /\ s \in started => summary[s] # NoRun

\* Stream: cancelling the context of an accepted run aborts it; the call finishes
\* and both channels close.
KillSwitch ==
  \A s \in Streams :
    s \in cancelled /\ pc[s] \in Owning ~> pc[s] = "done" \/ panicked

\* The detailed specification implements ActionAudit.
Audit == INSTANCE ActionAudit WITH
           Unsafe   <- {c \in Calls : ~GateSafe(c)},
           recorded <- {e.call : e \in AllowedActions}

\* Every behaviour of the agent is one that ActionAudit allows: records come
\* before executions and each call executes once.
AuditSpec == Audit!Spec

-------------------------------------------------------------------------------
(* The inductive invariant behind the safety theorems *)

\* The run state is never torn, and its owner is the one Stream call that is
\* between begin and end.
RunStateInv ==
  /\ rs.req = rs.run
  /\ rs.run # NoRun => rs.run \in known
  /\ \A s \in known : pc[s] # "new"
  /\ OneActiveRun

Recorded(c) == \E e \in AllowedActions : e.call = c

\* What a tool call has earned at each control point.
CallInv ==
  \A c \in Calls :
    /\ cpc[c] = "commit" => seen[c].run # NoRun /\ seen[c].req = seen[c].run
    /\ cpc[c] \in {"cleared", "exec", "ran"} \/ c \in executed
         => MwSafe(c) \/ Recorded(c)
    /\ c \in executed => cpc[c] \in {"ran", "returned"}
    /\ cpc[c] \in {"mw", "commit", "cleared", "exec", "ran"} \/ c \in executed
         => (gateMode = "noApprover" => GateSafe(c))

AuditInv == TypeOK /\ RunStateInv /\ CallInv /\ SelfExplaining

\* From its subscription to its unsubscription a Stream call is a listener.
Subscribed == {"prompting", "waiting", "promptFailed", "unwinding", "aborted",
               "finished", "ending", "ended"}

\* A run that Stream started is active only while its Stream call waits for it,
\* and it goes idle only after its last event has reached that call.
LoopInv ==
  /\ ended => running # NoRun
  /\ \A s \in Streams :
       /\ running = s => pc[s] \in {"waiting", "unwinding"} /\ s \notin idle
       /\ s \in idle => pc[s] \in {"waiting", "unwinding"}
       /\ pc[s] \in Subscribed => s \in subs
       /\ running = s /\ ended => s \in todo \/ summary[s] # NoRun
       /\ s \in started /\ running # s => summary[s] # NoRun

\* The run of a Stream call has no boundary before RecordBoundary and one
\* afterwards; a run started without Stream never has one.
BoundaryInv ==
  /\ \A d \in Directs : Boundaries(d) = {}
  /\ \A s \in Streams :
       /\ pc[s] \in (Owning \ {"ending"}) \cup {"new", "refused"} => Boundaries(s) = {}
       /\ /\ WorkingSink
          /\ s \in known
          /\ pc[s] \in {"ending", "ended", "unsubscribed", "outClosed"}
          => \E e \in ledger : Boundaries(s) = {e}

\* A tool call in flight belongs to the active run, which has not ended.
InFlightInv ==
  \A c \in Calls :
    cpc[c] \notin {"new", "returned"} => callRun[c] = running /\ running # NoRun /\ ~ended

\* What a tool call has read of the run state is about the run that issued it,
\* and so is what it has written.
TraceInv ==
  /\ registered
  /\ \A s \in Streams : pc[s] # "new" => s \in known
  /\ \A c \in Calls :
       cpc[c] \in {"denyRef", "commit", "exec", "ran"} => seen[c].run = callRun[c]
  /\ \A e \in ledger :
       e.kind \in {"action", "result"} => e.call \in Calls /\ cpc[e.call] # "new"
  /\ Attribution

-------------------------------------------------------------------------------
(* What the code's comments claim and the code does not do *)

\* Stream exposes its own run's events: nothing another run emitted arrives on
\* the channel or becomes the summary of this call.
OwnEvents ==
  \A s \in Streams :
    /\ \A i \in DOMAIN out[s] : out[s][i].run \in {s, NoRun}
    /\ summary[s] \in {s, NoRun}

\* auditMiddleware: an action that was allowed is recorded under the run that
\* asked for it; a call that belongs to no Stream run is denied, not recorded
\* under somebody else's run.
ActionsTraced ==
  \A e \in AllowedActions : e.run = callRun[e.call]

\* Stream: every call that returned left its run boundary in a durable ledger.
EveryRunBounded ==
  \A s \in known :
    pc[s] = "done" /\ WorkingSink => Boundaries(s) # {}
===============================================================================
