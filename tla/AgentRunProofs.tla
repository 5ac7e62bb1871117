---------------------------- MODULE AgentRunProofs ----------------------------
(***************************************************************************)
(* Proofs about AgentRun, for every set of streams, direct runs, calls and *)
(* tools, every gate and sink, and every bound: type correctness, one      *)
(* active run per agent, self-explaining actions, "no durable record, no   *)
(* action", one boundary per run and no tool after it, the summary when a  *)
(* Stream call is done, every action under the run that asked for it, and  *)
(* that AgentRun implements ActionAudit.                                   *)
(***************************************************************************)
EXTENDS AgentRun, FiniteSetTheorems, TLAPS

-------------------------------------------------------------------------------
(* Writes to the ledger *)

\* The events a Stream call records are well typed.
LEMMA RunEventType ==
  ASSUME NEW kind \in Kinds, NEW s \in Streams
  PROVE  RunEvent(kind, s) \in Event
BY DEF RunEvent, Event, RunOrNone, Runs

\* The action events of the gate and the middleware are well typed.
LEMMA ActionType ==
  ASSUME NEW c \in Calls, NEW run \in Streams \cup {NoRun},
         NEW req \in Streams \cup {NoRun}, NEW verdict \in {"allowed", "denied"}
  PROVE  Action(c, run, req, verdict) \in Event
BY DEF Action, Event, RunOrNone, Runs, Kinds

\* A best-effort write keeps what is stored and adds at most its event.
LEMMA RecordGrows ==
  ASSUME NEW e, Record(e), fails \in Nat
  PROVE  /\ ledger' = ledger \/ ledger' = ledger \cup {e}
         /\ fails' \in Nat
BY DEF Record, Store, WriteFails, ledgerVars

\* So does the rec helper of Stream.
LEMMA RecGrows ==
  ASSUME NEW s, NEW e, Rec(s, e), fails \in Nat
  PROVE  /\ ledger' = ledger \/ ledger' = ledger \cup {e}
         /\ fails' \in Nat
BY RecordGrows DEF Rec, ledgerVars

\* So does the run_end of a refused Stream, which has no EventID.
LEMMA RecordZeroIDGrows ==
  ASSUME NEW e, RecordZeroID(e), fails \in Nat
  PROVE  /\ ledger' = ledger \/ ledger' = ledger \cup {e}
         /\ fails' \in Nat
BY RecordGrows DEF RecordZeroID, ledgerVars

\* A Stream call writes run events of its own only, none about a tool call.
LEMMA StreamWrites ==
  ASSUME TypeOK, NEW s \in Streams, StreamStep(s)
  PROVE  ledger' = ledger \/ \E k \in Kinds \ {"gate", "action", "result"} :
                               ledger' = ledger \cup {RunEvent(k, s)}
<1>1. fails \in Nat
  BY DEF TypeOK
<1>2. CASE Refuse(s)
  BY <1>1, <1>2, RecordZeroIDGrows DEF Refuse, Kinds
<1>3. CASE RecordRequest(s) \/ Subscribe(s) \/ RecordBoundary(s)
  BY <1>1, <1>3, RecGrows DEF RecordRequest, Subscribe, RecordBoundary, Kinds
<1>4. QED
  BY <1>2, <1>3
  DEF StreamStep, Start, RefuseClose, Prompt, SignalIdle, Abort, Idle, End,
      Unsubscribe, Close, ledgerVars

-------------------------------------------------------------------------------
(* Type correctness *)

\* The initial states are well typed.
LEMMA InitType == Init => TypeOK
<1> SUFFICES ASSUME Init PROVE TypeOK
  OBVIOUS
<1>1. rs \in RunContext /\ seen \in [Calls -> RunContext]
  BY DEF Init, NoRunState, RunContext
<1>2. pc \in [Streams -> StreamPoints] /\ cpc \in [Calls -> CallPoints]
  BY DEF Init, StreamPoints, CallPoints
<1>3. out \in [Streams -> Seq(OutEvent)]
  BY DEF Init
<1>4. /\ summary \in [Streams -> RunOrNone]
      /\ callRun \in [Calls -> RunOrNone]
      /\ running \in RunOrNone
  BY DEF Init, RunOrNone
<1>5. /\ gateMode \in GateModes /\ sink \in Sinks
      /\ {registered, aborted, ended, panicked} \subseteq BOOLEAN
      /\ known \subseteq Streams /\ cancelled \subseteq Streams
      /\ idle \subseteq Streams /\ subs \subseteq Streams /\ todo \subseteq Streams
      /\ started \subseteq Runs /\ sending \in Streams \cup {NoRun}
      /\ emitted \in Nat /\ fails \in Nat
      /\ ledger \subseteq Event /\ executed \subseteq Calls
  BY DEF Init
<1>6. QED
  BY <1>1, <1>2, <1>3, <1>4, <1>5 DEF TypeOK

\* A step of a Stream call, of its caller, or of the loop towards listener s.
LEMMA StreamType ==
  ASSUME TypeOK, NEW s \in Streams,
         StreamStep(s) \/ CancelCtx(s) \/ Receive(s) \/ CallListener(s)
           \/ Deliver(s) \/ SendOnClosed(s)
  PROVE  TypeOK'
<1>1. CASE Start(s)
  <2>1. pc' \in [Streams -> StreamPoints]
    BY <1>1 DEF Start, TypeOK, StreamPoints
  <2>2. rs' \in RunContext /\ known' \subseteq Streams
    BY <1>1 DEF Start, TypeOK, RunContext
  <2>3. QED
    BY <1>1, <2>1, <2>2
    DEF Start, TypeOK, configVars, feedVars, loopVars, callVars, ledgerVars
<1>2. CASE Refuse(s)
  <2>0. RecordZeroID(RunEvent("runEnd", s)) /\ RunEvent("runEnd", s) \in Event
    BY <1>2, RunEventType DEF Refuse, Kinds
  <2>1. ledger' \subseteq Event /\ fails' \in Nat
    <3>1. fails \in Nat /\ ledger \subseteq Event
      BY DEF TypeOK
    <3>2. QED
      BY <2>0, <3>1, RecordZeroIDGrows
  <2>2. [run |-> NoRun, last |-> FALSE] \in OutEvent
    BY DEF RunOrNone, OutEvent
  <2>3. out' \in [Streams -> Seq(OutEvent)]
    BY <1>2, <2>2 DEF Refuse, TypeOK
  <2>4. QED
    BY <1>2, <2>1, <2>3 DEF Refuse, TypeOK, Goto, RunContext, StreamPoints,
       RunOrNone, Runs, configVars, loopVars, callVars
<1>3. CASE RefuseClose(s)
  BY <1>3 DEF RefuseClose, TypeOK, Goto, RunContext, StreamPoints, RunOrNone,
     Runs, configVars, streamVars, feedVars, loopVars, callVars, ledgerVars
<1>4. CASE RecordRequest(s)
  <2>1. ledger' \subseteq Event /\ fails' \in Nat
    BY <1>4, RecGrows, RunEventType DEF RecordRequest, TypeOK, Kinds
  <2>2. QED
    BY <1>4, <2>1 DEF RecordRequest, TypeOK, Goto, RunContext, StreamPoints,
       RunOrNone, Runs, configVars, feedVars, loopVars, callVars
<1>5. CASE Subscribe(s)
  <2>1. ledger' \subseteq Event /\ fails' \in Nat
    BY <1>5, RecGrows, RunEventType DEF Subscribe, TypeOK, Kinds
  <2>2. QED
    BY <1>5, <2>1 DEF Subscribe, TypeOK, Goto, RunContext, StreamPoints,
       RunOrNone, Runs, configVars, feedVars, loopVars, callVars
<1>6. CASE Prompt(s)
  <2>1. pc' \in [Streams -> StreamPoints]
    BY <1>6 DEF Prompt, Goto, TypeOK, StreamPoints
  <2>2. StartRun(s) \/ UNCHANGED loopVars
    BY <1>6 DEF Prompt
  <2>3. /\ running' \in RunOrNone /\ started' \subseteq Runs
        /\ aborted' \in BOOLEAN /\ ended' \in BOOLEAN /\ emitted' \in Nat
        /\ UNCHANGED <<todo, sending, panicked>>
    <3>1. CASE StartRun(s)
      BY <3>1 DEF StartRun, TypeOK, RunOrNone, Runs
    <3>2. CASE UNCHANGED loopVars
      BY <3>2 DEF loopVars, TypeOK
    <3>3. QED
      BY <2>2, <3>1, <3>2
  <2>4. QED
    BY <1>6, <2>1, <2>3
    DEF Prompt, TypeOK, configVars, feedVars, callVars, ledgerVars
<1>7. CASE SignalIdle(s)
  BY <1>7 DEF SignalIdle, TypeOK, Goto, RunContext, StreamPoints, RunOrNone,
     Runs, configVars, streamVars, feedVars, loopVars, callVars, ledgerVars
<1>8. CASE Abort(s)
  BY <1>8 DEF Abort, TypeOK, Goto, RunContext, StreamPoints, RunOrNone, Runs,
     configVars, streamVars, feedVars, loopVars, callVars, ledgerVars
<1>9. CASE Idle(s)
  BY <1>9 DEF Idle, TypeOK, Goto, RunContext, StreamPoints, RunOrNone, Runs,
     configVars, streamVars, feedVars, loopVars, callVars, ledgerVars
<1>10. CASE RecordBoundary(s)
  <2>1. ledger' \subseteq Event /\ fails' \in Nat
    BY <1>10, RecGrows, RunEventType DEF RecordBoundary, TypeOK, Kinds
  <2>2. pc' \in [Streams -> StreamPoints]
    BY <1>10 DEF RecordBoundary, TypeOK, Goto, StreamPoints
  <2>3. QED
    BY <1>10, <2>1, <2>2 DEF RecordBoundary, TypeOK, configVars, feedVars,
       loopVars, callVars
<1>11. CASE End(s)
  BY <1>11 DEF End, TypeOK, Goto, RunContext, StreamPoints, RunOrNone, Runs,
     NoRunState, configVars, streamVars, feedVars, loopVars, callVars, ledgerVars
<1>12. CASE Unsubscribe(s)
  BY <1>12 DEF Unsubscribe, TypeOK, Goto, RunContext, StreamPoints, RunOrNone,
     Runs, configVars, streamVars, feedVars, loopVars, callVars, ledgerVars
<1>13. CASE Close(s)
  BY <1>13 DEF Close, TypeOK, Goto, RunContext, StreamPoints, RunOrNone, Runs,
     configVars, streamVars, feedVars, loopVars, callVars, ledgerVars
<1>14. CASE CancelCtx(s)
  BY <1>14 DEF CancelCtx, TypeOK, Goto, RunContext, StreamPoints, RunOrNone,
     Runs, configVars, streamVars, feedVars, loopVars, callVars, ledgerVars
<1>15. CASE Receive(s)
  <2>1. out' \in [Streams -> Seq(OutEvent)]
    BY <1>15 DEF Receive, TypeOK
  <2>2. QED
    BY <1>15, <2>1
    DEF Receive, TypeOK, configVars, streamVars, loopVars, callVars, ledgerVars
<1>16. CASE CallListener(s)
  BY <1>16 DEF CallListener, TypeOK, Goto, RunContext, StreamPoints,
     RunOrNone, Runs, configVars, streamVars, feedVars, loopVars, callVars,
     ledgerVars
<1>17. CASE Deliver(s)
  <2>1. [run |-> running, last |-> ended] \in OutEvent
    BY DEF OutEvent, TypeOK
  <2>2. out' \in [Streams -> Seq(OutEvent)]
    <3>1. CASE UNCHANGED out
      BY <3>1 DEF TypeOK
    <3>2. CASE out' = [out EXCEPT ![s] = Append(@, [run |-> running, last |-> ended])]
      <4>1. Append(out[s], [run |-> running, last |-> ended]) \in Seq(OutEvent)
        BY <2>1 DEF TypeOK
      <4>2. QED
        BY <3>2, <4>1 DEF TypeOK
    <3>3. QED
      BY <1>17, <3>1, <3>2 DEF Deliver
  <2>3. QED
    BY <1>17, <2>2
    DEF Deliver, TypeOK, configVars, streamVars, callVars, ledgerVars
<1>18. CASE SendOnClosed(s)
  BY <1>18 DEF SendOnClosed, TypeOK, Goto, RunContext, StreamPoints,
     RunOrNone, Runs, OutClosed, configVars, streamVars, feedVars, loopVars,
     callVars, ledgerVars
<1>19. QED
  BY <1>1, <1>2, <1>3, <1>4, <1>5, <1>6, <1>7, <1>8, <1>9, <1>10, <1>11,
     <1>12, <1>13, <1>14, <1>15, <1>16, <1>17, <1>18 DEF StreamStep

\* Every step of the external agent loop keeps the types.
LEMMA LoopType ==
  ASSUME TypeOK,
         Emit \/ EmitLast \/ GoIdle \/ ReleaseAgent \/ \E d \in Directs : DirectPrompt(d)
  PROVE  TypeOK'
<1>1. CASE Emit
  <2>1. emitted' \in Nat
    BY <1>1 DEF Emit, TypeOK
  <2>2. QED
    BY <1>1, <2>1
    DEF Emit, TypeOK, configVars, streamVars, feedVars, callVars, ledgerVars
<1>2. CASE EmitLast
  BY <1>2 DEF EmitLast, TypeOK, RunOrNone, configVars, streamVars, feedVars,
     loopVars, callVars, ledgerVars
<1>3. CASE GoIdle
  BY <1>3 DEF GoIdle, TypeOK, RunOrNone, configVars, streamVars, feedVars,
     loopVars, callVars, ledgerVars
<1>4. CASE ReleaseAgent
  BY <1>4 DEF ReleaseAgent, TypeOK, RunOrNone, configVars, streamVars,
     feedVars, loopVars, callVars, ledgerVars
<1>5. CASE \E d \in Directs : DirectPrompt(d)
  <2>1. PICK d \in Directs : DirectPrompt(d)
    BY <1>5
  <2>2. /\ running' \in RunOrNone /\ started' \subseteq Runs
        /\ aborted' \in BOOLEAN /\ ended' \in BOOLEAN /\ emitted' \in Nat
        /\ UNCHANGED <<todo, sending, panicked>>
    BY <2>1 DEF DirectPrompt, StartRun, TypeOK, RunOrNone, Runs
  <2>3. QED
    BY <2>1, <2>2
    DEF DirectPrompt, TypeOK, configVars, streamVars, feedVars, callVars, ledgerVars
<1>6. QED
  BY <1>1, <1>2, <1>3, <1>4, <1>5

\* Every step of a tool call through gate and middleware keeps the types.
LEMMA CallType ==
  ASSUME TypeOK, NEW c \in Calls, IssueCall(c) \/ CallStep(c)
  PROVE  TypeOK'
<1>1. CASE IssueCall(c)
  BY <1>1 DEF IssueCall, TypeOK, CallGoto, CallPoints, RunContext, configVars,
     streamVars, feedVars, loopVars, callVars, ledgerVars
<1>2. CASE GateAllow(c)
  <2>1. \A v \in {"allowed", "denied"} : GateDecision(v) \in Event
    BY DEF GateDecision, Event, Kinds, TypeOK, RunContext, RunOrNone, Runs
  <2>2. ledger' \subseteq Event /\ fails' \in Nat
    BY <1>2, <2>1, RecordGrows DEF GateAllow, TypeOK, ledgerVars
  <2>3. cpc' \in [Calls -> CallPoints]
    BY <1>2 DEF GateAllow, CallGoto, CallPoints, TypeOK
  <2>4. QED
    BY <1>2, <2>2, <2>3 DEF GateAllow, TypeOK, configVars, streamVars,
       feedVars, loopVars
<1>3. CASE GateDeny(c)
  <2>1. \A v \in {"allowed", "denied"} : GateDecision(v) \in Event
    BY DEF GateDecision, Event, Kinds, TypeOK, RunContext, RunOrNone, Runs
  <2>2. ledger' \subseteq Event /\ fails' \in Nat
    BY <1>3, <2>1, RecordGrows DEF GateDeny, TypeOK, ledgerVars
  <2>3. cpc' \in [Calls -> CallPoints]
    BY <1>3 DEF GateDeny, CallGoto, CallPoints, TypeOK
  <2>4. QED
    BY <1>3, <2>2, <2>3 DEF GateDeny, TypeOK, configVars, streamVars,
       feedVars, loopVars
<1>4. CASE ReadDeniedRun(c)
  BY <1>4 DEF ReadDeniedRun, TypeOK, CallGoto, CallPoints, RunContext,
     configVars, streamVars, feedVars, loopVars, callVars, ledgerVars
<1>5. CASE RecordDenied(c)
  <2>1. Action(c, seen[c].run, rs.req, "denied") \in Event
    BY ActionType DEF TypeOK, RunContext
  <2>2. ledger' \subseteq Event /\ fails' \in Nat
    <3>1. fails \in Nat /\ ledger \subseteq Event
      BY DEF TypeOK
    <3>2. QED
      BY <1>5, <2>1, <3>1, RecordGrows DEF RecordDenied
  <2>3. cpc' \in [Calls -> CallPoints]
    BY <1>5 DEF RecordDenied, CallGoto, CallPoints, TypeOK
  <2>4. QED
    BY <1>5, <2>2, <2>3 DEF RecordDenied, TypeOK, configVars, streamVars,
       feedVars, loopVars
<1>6. CASE CheckAction(c)
  BY <1>6 DEF CheckAction, TypeOK, CallGoto, CallPoints, RunContext,
     configVars, streamVars, feedVars, loopVars, callVars, ledgerVars
<1>7. CASE CommitAction(c)
  <2>1. Action(c, seen[c].run, seen[c].req, "allowed") \in Event
    BY ActionType DEF TypeOK, RunContext
  <2>2. ledger' \subseteq Event /\ fails' \in Nat
    BY <1>7, <2>1 DEF CommitAction, Store, WriteFails, TypeOK
  <2>3. cpc' \in [Calls -> CallPoints]
    BY <1>7 DEF CommitAction, CallGoto, CallPoints, TypeOK
  <2>4. QED
    BY <1>7, <2>2, <2>3 DEF CommitAction, TypeOK, configVars, streamVars,
       feedVars, loopVars
<1>8. CASE ReadRun(c)
  BY <1>8 DEF ReadRun, TypeOK, CallGoto, CallPoints, RunContext, configVars,
     streamVars, feedVars, loopVars, callVars, ledgerVars
<1>9. CASE Execute(c)
  BY <1>9 DEF Execute, TypeOK, CallGoto, CallPoints, RunContext, configVars,
     streamVars, feedVars, loopVars, callVars, ledgerVars
<1>10. CASE RecordResult(c)
  <2>1. [kind |-> "result", run |-> seen[c].run, req |-> NoRun, call |-> c,
         verdict |-> "none"] \in Event
    BY DEF Event, Kinds, TypeOK, RunContext, RunOrNone, Runs
  <2>2. ledger' \subseteq Event /\ fails' \in Nat
    BY <1>10, <2>1, RecordGrows DEF RecordResult, TypeOK
  <2>3. cpc' \in [Calls -> CallPoints]
    BY <1>10 DEF RecordResult, CallGoto, CallPoints, TypeOK
  <2>4. QED
    BY <1>10, <2>2, <2>3 DEF RecordResult, TypeOK, configVars, streamVars,
       feedVars, loopVars
<1>11. QED
  BY <1>1, <1>2, <1>3, <1>4, <1>5, <1>6, <1>7, <1>8, <1>9, <1>10 DEF CallStep

\* The type invariant holds in every state: the run state, the channels, the
\* loop and the ledger never hold anything else than what TypeOK says.
THEOREM TypeCorrect == Spec => []TypeOK
<1>1. TypeOK /\ [Next]_vars => TypeOK'
  <2>1. SUFFICES ASSUME TypeOK, [Next]_vars PROVE TypeOK'
    OBVIOUS
  <2>2. CASE Next
    BY <2>1, <2>2, StreamType, LoopType, CallType DEF Next, LoopStep
  <2>3. CASE UNCHANGED vars
    BY <2>1, <2>3 DEF vars, configVars, streamVars, feedVars, loopVars,
       callVars, ledgerVars, TypeOK
  <2>4. QED
    BY <2>1, <2>2, <2>3
<1>2. QED
  BY InitType, <1>1, PTL DEF Spec

-------------------------------------------------------------------------------
(* The run state *)

\* Steps that leave the run state, the control points and the registry lookup
\* of every Stream call alone.
LEMMA RunStateSame ==
  ASSUME RunStateInv, UNCHANGED <<rs, pc, known>>
  PROVE  RunStateInv'
BY DEF RunStateInv, OneActiveRun

\* A step of a Stream call keeps one owner of the run state.
LEMMA RunStateStream ==
  ASSUME TypeOK, RunStateInv, NEW s \in Streams, StreamStep(s)
  PROVE  RunStateInv'
<1> USE RunsAssumption DEF RunStateInv, OneActiveRun, Owning, TypeOK, Runs, Goto
<1>1. CASE Start(s)
  <2>1. CASE registered /\ rs.run = NoRun
    <3>1. /\ rs' = [run |-> s, req |-> s]
          /\ known' = known \cup {s}
          /\ pc' = [pc EXCEPT ![s] = "begun"]
      BY <1>1, <2>1 DEF Start
    <3>2. \A t \in known : pc[t] \notin Owning
      BY <2>1
    <3>3. QED
      BY <3>1, <3>2
  <2>2. CASE registered /\ rs.run # NoRun
    <3>1. /\ rs' = rs
          /\ known' = known \cup {s}
          /\ pc' = [pc EXCEPT ![s] = "refused"]
          /\ pc[s] = "new"
      BY <1>1, <2>2 DEF Start
    <3>2. rs.run # s
      BY <2>2, <3>1
    <3>3. QED
      BY <3>1, <3>2
  <2>3. CASE ~registered
    <3>1. /\ rs' = rs
          /\ known' = known
          /\ pc' = [pc EXCEPT ![s] = "begun"]
          /\ pc[s] = "new"
      BY <1>1, <2>3 DEF Start
    <3>2. QED
      BY <3>1
  <2>4. QED
    BY <1>1, <2>1, <2>2, <2>3
<1>2. CASE Refuse(s)
  BY <1>2 DEF Refuse
<1>3. CASE RefuseClose(s)
  BY <1>3 DEF RefuseClose
<1>4. CASE RecordRequest(s)
  BY <1>4 DEF RecordRequest
<1>5. CASE Subscribe(s)
  BY <1>5 DEF Subscribe
<1>6. CASE Prompt(s)
  BY <1>6 DEF Prompt
<1>7. CASE SignalIdle(s)
  BY <1>7 DEF SignalIdle
<1>8. CASE Abort(s)
  BY <1>8 DEF Abort
<1>9. CASE Idle(s)
  BY <1>9 DEF Idle
<1>10. CASE RecordBoundary(s)
  BY <1>10 DEF RecordBoundary
<1>11. CASE End(s)
  BY <1>11 DEF End, NoRunState
<1>12. CASE Unsubscribe(s)
  BY <1>12 DEF Unsubscribe
<1>13. CASE Close(s)
  BY <1>13 DEF Close
<1>14. QED
  BY <1>1, <1>2, <1>3, <1>4, <1>5, <1>6, <1>7, <1>8, <1>9, <1>10, <1>11,
     <1>12, <1>13 DEF StreamStep

\* So does every other step.
LEMMA RunStateStep ==
  ASSUME TypeOK, RunStateInv, [Next]_vars
  PROVE  RunStateInv'
<1>1. CASE \E s \in Streams : StreamStep(s)
  BY <1>1, RunStateStream
<1>2. CASE \E s \in Streams : CancelCtx(s) \/ Receive(s)
  BY <1>2, RunStateSame DEF CancelCtx, Receive, streamVars
<1>3. CASE (\E d \in Directs : DirectPrompt(d)) \/ ReleaseAgent
  BY <1>3, RunStateSame DEF DirectPrompt, ReleaseAgent, streamVars
<1>4. CASE LoopStep
  BY <1>4, RunStateSame
  DEF LoopStep, Emit, EmitLast, GoIdle, CallListener, Deliver, SendOnClosed, streamVars
<1>5. CASE \E c \in Calls : IssueCall(c) \/ CallStep(c)
  BY <1>5, RunStateSame
  DEF IssueCall, CallStep, GateAllow, GateDeny, ReadDeniedRun, RecordDenied, CheckAction,
      CommitAction, ReadRun, Execute, RecordResult, streamVars
<1>6. CASE UNCHANGED vars
  BY <1>6, RunStateSame DEF vars, streamVars
<1>7. QED
  BY <1>1, <1>2, <1>3, <1>4, <1>5, <1>6 DEF Next

-------------------------------------------------------------------------------
(* Tool calls *)

\* Only an allowed action changes the allowed actions.
LEMMA AllowedSame ==
  ASSUME NEW e, e.kind # "action" \/ e.verdict # "allowed",
         ledger' = ledger \/ ledger' = ledger \cup {e}
  PROVE  AllowedActions' = AllowedActions
BY DEF AllowedActions

\* No step of a Stream call, its caller or the loop touches a tool call or an
\* allowed action.
LEMMA OutsideCalls ==
  ASSUME TypeOK, Next
  PROVE  \/ UNCHANGED <<callVars, AllowedActions, gateMode>>
         \/ \E c \in Calls : IssueCall(c) \/ CallStep(c)
<1>1. ASSUME NEW s \in Streams, StreamStep(s)
      PROVE  UNCHANGED <<callVars, AllowedActions, gateMode>>
  <2>1. ledger' = ledger \/ \E k \in Kinds \ {"action"} : ledger' = ledger \cup {RunEvent(k, s)}
    BY <1>1, StreamWrites
  <2>2. AllowedActions' = AllowedActions
    BY <2>1, AllowedSame DEF RunEvent, AllowedActions
  <2>3. QED
    BY <1>1, <2>2
    DEF StreamStep, Start, Refuse, RefuseClose, RecordRequest, Subscribe, Prompt, SignalIdle,
        Abort, Idle, RecordBoundary, End, Unsubscribe, Close, callVars, configVars
<1>2. ASSUME \/ \E s \in Streams : CancelCtx(s) \/ Receive(s)
             \/ \E d \in Directs : DirectPrompt(d)
             \/ ReleaseAgent
             \/ LoopStep
      PROVE  UNCHANGED <<callVars, AllowedActions, gateMode>>
  BY <1>2
  DEF CancelCtx, Receive, DirectPrompt, ReleaseAgent, LoopStep, Emit, EmitLast, GoIdle,
      CallListener, Deliver, SendOnClosed, callVars, configVars, ledgerVars, AllowedActions
<1>3. QED
  BY <1>1, <1>2 DEF Next

\* A tool call adds an allowed action only when it commits.
LEMMA AllowedByCall ==
  ASSUME TypeOK, NEW c \in Calls, IssueCall(c) \/ CallStep(c)
  PROVE  \/ AllowedActions' = AllowedActions
         \/ /\ CommitAction(c)
            /\ AllowedActions' = AllowedActions
                 \cup {Action(c, seen[c].run, seen[c].req, "allowed")}
<1>1. fails \in Nat
  BY DEF TypeOK
<1>2. CASE GateAllow(c) \/ GateDeny(c)
  <2>1. ledger' = ledger \/ \E v \in {"allowed", "denied"} :
                              ledger' = ledger \cup {GateDecision(v)}
    BY <1>1, <1>2, RecordGrows DEF GateAllow, GateDeny, ledgerVars
  <2>2. QED
    BY <2>1, AllowedSame DEF GateDecision, AllowedActions
<1>3. CASE RecordDenied(c)
  <2>1. ledger' = ledger \/ ledger' = ledger \cup {Action(c, seen[c].run, rs.req, "denied")}
    BY <1>1, <1>3, RecordGrows DEF RecordDenied
  <2>2. QED
    BY <2>1, AllowedSame DEF Action
<1>4. CASE CommitAction(c)
  BY <1>4 DEF CommitAction, Store, AllowedActions, Action
<1>5. CASE RecordResult(c)
  <2> DEFINE r == [kind |-> "result", run |-> seen[c].run, req |-> NoRun, call |-> c,
                   verdict |-> "none"]
  <2>1. ledger' = ledger \/ ledger' = ledger \cup {r}
    BY <1>1, <1>5, RecordGrows DEF RecordResult
  <2>2. r.kind # "action"
    OBVIOUS
  <2>3. QED
    BY <2>1, <2>2, AllowedSame
<1>6. CASE IssueCall(c) \/ ReadDeniedRun(c) \/ CheckAction(c) \/ ReadRun(c) \/ Execute(c)
  BY <1>6
  DEF IssueCall, ReadDeniedRun, CheckAction, ReadRun, Execute, ledgerVars, AllowedActions
<1>7. QED
  BY <1>2, <1>3, <1>4, <1>5, <1>6 DEF CallStep

\* What call c has earned, as one conjunct of CallInv.
LEMMA CallInvCall ==
  ASSUME TypeOK, RunStateInv, CallInv, NEW c \in Calls, IssueCall(c) \/ CallStep(c)
  PROVE  CallInv'
<1> DEFINE Earned(d) ==
      /\ cpc[d] = "commit" => seen[d].run # NoRun /\ seen[d].req = seen[d].run
      /\ cpc[d] \in {"cleared", "exec", "ran"} \/ d \in executed => MwSafe(d) \/ Recorded(d)
      /\ d \in executed => cpc[d] \in {"ran", "returned"}
      /\ cpc[d] \in {"mw", "commit", "cleared", "exec", "ran"} \/ d \in executed
           => (gateMode = "noApprover" => GateSafe(d))
<1>1. \A d \in Calls : Recorded(d) => Recorded(d)'
  BY AllowedByCall DEF Recorded
<1>2. gateMode' = gateMode
  BY DEF IssueCall, CallStep, GateAllow, GateDeny, ReadDeniedRun,
     RecordDenied, CheckAction,
         CommitAction, ReadRun, Execute, RecordResult, configVars
<1>3. ASSUME NEW d \in Calls, d # c
      PROVE  Earned(d)'
  <2>1. cpc'[d] = cpc[d] /\ seen'[d] = seen[d] /\ (d \in executed' <=> d \in executed)
    BY <1>3
    DEF TypeOK, CallGoto, IssueCall, CallStep, GateAllow, GateDeny, ReadDeniedRun,
        RecordDenied, CheckAction, CommitAction, ReadRun, Execute, RecordResult
  <2>2. QED
    BY <1>1, <1>2, <2>1 DEF CallInv, MwSafe, GateSafe
<1>4. Earned(c)'
  <2> USE DEF CallInv, TypeOK, CallGoto, MwSafe, GateSafe
  <2>1. CASE IssueCall(c)
    BY <1>1, <1>2, <2>1 DEF IssueCall
  <2>2. CASE GateAllow(c)
    BY <1>1, <1>2, <2>2 DEF GateAllow
  <2>3. CASE GateDeny(c)
    BY <1>1, <1>2, <2>3 DEF GateDeny
  <2>4. CASE ReadDeniedRun(c)
    BY <1>1, <1>2, <2>4 DEF ReadDeniedRun
  <2>5. CASE RecordDenied(c)
    BY <1>1, <1>2, <2>5 DEF RecordDenied
  <2>6. CASE CheckAction(c)
    BY <1>1, <1>2, <2>6 DEF CheckAction, RunStateInv
  <2>7. CASE CommitAction(c)
    <3>1. cpc'[c] = "cleared" => Recorded(c)'
      <4>1. ASSUME cpc'[c] = "cleared"
            PROVE  Action(c, seen[c].run, seen[c].req, "allowed") \in AllowedActions'
        BY <2>7, <4>1 DEF CommitAction, Store, AllowedActions, Action
      <4>2. Action(c, seen[c].run, seen[c].req, "allowed").call = c
        BY DEF Action
      <4>3. QED
        BY <4>1, <4>2 DEF Recorded
    <3>2. QED
      BY <1>1, <1>2, <2>7, <3>1 DEF CommitAction
  <2>8. CASE ReadRun(c)
    BY <1>1, <1>2, <2>8 DEF ReadRun
  <2>9. CASE Execute(c)
    BY <1>1, <1>2, <2>9 DEF Execute
  <2>10. CASE RecordResult(c)
    BY <1>1, <1>2, <2>10 DEF RecordResult
  <2>11. QED
    BY <2>1, <2>2, <2>3, <2>4, <2>5, <2>6, <2>7, <2>8, <2>9, <2>10 DEF CallStep
<1>5. QED
  BY <1>3, <1>4 DEF CallInv

\* A step that leaves the calls and the allowed actions alone keeps what is known
\* of them.
LEMMA CallsUntouched ==
  ASSUME CallInv, SelfExplaining, UNCHANGED <<callVars, AllowedActions, gateMode>>
  PROVE  CallInv' /\ SelfExplaining'
BY DEF CallInv, SelfExplaining, Recorded, callVars, MwSafe, GateSafe

\* Every step keeps the inductive invariant.
LEMMA AuditStep ==
  ASSUME AuditInv, [Next]_vars
  PROVE  CallInv' /\ SelfExplaining'
<1>1. CASE UNCHANGED <<callVars, AllowedActions, gateMode>>
  BY <1>1, CallsUntouched DEF AuditInv
<1>2. ASSUME NEW c \in Calls, IssueCall(c) \/ CallStep(c)
      PROVE  CallInv' /\ SelfExplaining'
  <2>1. CallInv'
    BY <1>2, CallInvCall DEF AuditInv
  <2>2. CASE AllowedActions' = AllowedActions
    BY <2>1, <2>2 DEF AuditInv, SelfExplaining
  <2>3. CASE /\ CommitAction(c)
             /\ AllowedActions' = AllowedActions
                  \cup {Action(c, seen[c].run, seen[c].req, "allowed")}
    <3>1. cpc[c] = "commit"
      BY <2>3 DEF CommitAction, CallGoto
    <3>2. seen[c].run # NoRun /\ seen[c].req = seen[c].run
      BY <3>1 DEF AuditInv, CallInv
    <3>3. QED
      BY <2>1, <2>3, <3>2 DEF AuditInv, SelfExplaining, Action
  <2>4. QED
    BY <1>2, <2>2, <2>3, AllowedByCall DEF AuditInv
<1>3. CASE UNCHANGED vars
  BY <1>1, <1>3 DEF vars, configVars, ledgerVars, callVars, AllowedActions
<1>4. QED
  BY <1>1, <1>2, <1>3, OutsideCalls DEF AuditInv

\* The inductive invariant: types, an untorn run state with one owner, and for
\* every tool call what it has earned at its control point.
THEOREM AuditInvariant == Spec => []AuditInv
<1>1. Init => AuditInv
  <2> SUFFICES ASSUME Init PROVE AuditInv
    OBVIOUS
  <2>1. RunStateInv
    BY DEF Init, RunStateInv, OneActiveRun, NoRunState
  <2>2. CallInv
    BY DEF Init, CallInv
  <2>3. SelfExplaining
    BY DEF Init, SelfExplaining, AllowedActions
  <2>4. QED
    BY InitType, <2>1, <2>2, <2>3 DEF AuditInv
<1>2. TypeOK /\ AuditInv /\ [Next]_vars /\ TypeOK' => AuditInv'
  BY RunStateStep, AuditStep DEF AuditInv
<1>3. QED
  BY <1>1, <1>2, TypeCorrect, PTL DEF Spec

\* runState: at most one Stream call is between begin and end, and the run state
\* is its own.
THEOREM OneActiveRunAlways == Spec => []OneActiveRun
<1>1. AuditInv => OneActiveRun
  BY DEF AuditInv, RunStateInv
<1>2. QED
  BY <1>1, AuditInvariant, PTL

\* auditMiddleware: every allowed action names a run and refers to that run's
\* request.
THEOREM SelfExplainingAlways == Spec => []SelfExplaining
<1>1. AuditInv => SelfExplaining
  BY DEF AuditInv
<1>2. QED
  BY <1>1, AuditInvariant, PTL

\* gate.New: without an approver no tool that is not safe ever runs.
THEOREM FailClosedAlways == Spec => []FailClosed
<1>1. AuditInv => FailClosed
  BY DEF AuditInv, CallInv, FailClosed, TypeOK
<1>2. QED
  BY <1>1, AuditInvariant, PTL

\* auditMiddleware: no durable record, no action, provided no injected tool
\* borrows the name of a registered safe one.
THEOREM NoRecordNoActionAlways ==
  ASSUME NoShadowing
  PROVE  Spec => []NoRecordNoAction
<1>1. AuditInv => NoRecordNoAction
  BY NoShadowing DEF AuditInv, CallInv, NoRecordNoAction, Recorded, TypeOK,
     NoShadowing
<1>2. QED
  BY <1>1, AuditInvariant, PTL

\* The agent implements ActionAudit: commits map to Record, executions to
\* Execute, everything else to stuttering.
THEOREM ImplementsActionAudit ==
  ASSUME NoShadowing
  PROVE  Spec => AuditSpec
<1> DEFINE recordedBar == {e.call : e \in AllowedActions}
<1>1. Init => Audit!Init
  BY DEF Init, Audit!Init, AllowedActions
<1>2. AuditInv /\ [Next]_vars => [Audit!Next]_(Audit!vars)
  <2> SUFFICES ASSUME AuditInv, [Next]_vars
               PROVE  [Audit!Next]_(Audit!vars)
    OBVIOUS
  <2>1. CASE UNCHANGED <<callVars, AllowedActions, gateMode>>
    BY <2>1 DEF Audit!vars, callVars
  <2>2. ASSUME NEW c \in Calls, IssueCall(c) \/ CallStep(c)
        PROVE  [Audit!Next]_(Audit!vars)
    <3>1. CASE CommitAction(c) /\ AllowedActions' # AllowedActions
      <4>1. AllowedActions' = AllowedActions
              \cup {Action(c, seen[c].run, seen[c].req, "allowed")}
        BY <2>2, <3>1, AllowedByCall DEF AuditInv
      <4>2. recordedBar' = recordedBar \cup {c}
        <5>1. Action(c, seen[c].run, seen[c].req, "allowed").call = c
          BY DEF Action
        <5>2. QED
          BY <4>1, <5>1
      <4>3. c \notin executed /\ executed' = executed
        BY <3>1 DEF CommitAction, CallGoto, AuditInv, CallInv
      <4>4. Audit!Record(c)
        BY <4>2, <4>3 DEF Audit!Record
      <4>5. QED
        BY <4>4 DEF Audit!Next
    <3>2. CASE Execute(c)
      <4>1. c \notin executed /\ executed' = executed \cup {c}
        BY <3>2 DEF Execute, CallGoto, AuditInv, CallInv
      <4>2. AllowedActions' = AllowedActions
        BY <3>2 DEF Execute, ledgerVars, AllowedActions
      <4>3. ~GateSafe(c) => c \in recordedBar
        BY <3>2, NoShadowing
        DEF Execute, CallGoto, AuditInv, CallInv, Recorded, NoShadowing
      <4>4. Audit!Execute(c)
        BY <4>1, <4>2, <4>3 DEF Audit!Execute
      <4>5. QED
        BY <4>4 DEF Audit!Next
    <3>3. CASE ~Execute(c) /\ AllowedActions' = AllowedActions
      <4>1. executed' = executed
        BY <2>2, <3>3
        DEF IssueCall, CallStep, GateAllow, GateDeny, ReadDeniedRun, RecordDenied,
            CheckAction, CommitAction, ReadRun, RecordResult
      <4>2. QED
        BY <3>3, <4>1 DEF Audit!vars
    <3>4. QED
      BY <2>2, <3>1, <3>2, <3>3, AllowedByCall DEF AuditInv
  <2>3. CASE UNCHANGED vars
    BY <2>3 DEF vars, callVars, ledgerVars, AllowedActions, Audit!vars
  <2>4. QED
    BY <2>1, <2>2, <2>3, OutsideCalls DEF AuditInv
<1>3. QED
  BY <1>1, <1>2, AuditInvariant, PTL DEF Spec, AuditSpec, Audit!Spec

-------------------------------------------------------------------------------
(* The loop and its listeners *)

\* Steps that change nothing the loop invariant is about.
LEMMA LoopInvSame ==
  ASSUME LoopInv, UNCHANGED <<pc, idle, subs, summary, running, started, ended, todo>>
  PROVE  LoopInv'
BY DEF LoopInv

\* A step of a Stream call keeps its run, its subscription and its summary
\* together.
LEMMA LoopInvStream ==
  ASSUME TypeOK, LoopInv, NEW s \in Streams, StreamStep(s)
  PROVE  LoopInv'
<1> USE RunsAssumption DEF LoopInv, Subscribed, TypeOK, Goto
<1>1. CASE Start(s)
  BY <1>1 DEF Start, feedVars, loopVars
<1>2. CASE Refuse(s)
  BY <1>2 DEF Refuse, loopVars
<1>3. CASE RefuseClose(s)
  BY <1>3 DEF RefuseClose, feedVars, loopVars
<1>4. CASE RecordRequest(s)
  BY <1>4 DEF RecordRequest, feedVars, loopVars
<1>5. CASE Subscribe(s)
  BY <1>5 DEF Subscribe, loopVars
<1>6. CASE Prompt(s)
  <2>1. CASE running = NoRun /\ Goto(s, "prompting", "waiting") /\ StartRun(s)
    BY <1>6, <2>1 DEF Prompt, StartRun, feedVars, Runs
  <2>2. CASE running # NoRun /\ Goto(s, "prompting", "promptFailed") /\ UNCHANGED loopVars
    BY <1>6, <2>2 DEF Prompt, feedVars, loopVars
  <2>3. QED
    BY <1>6, <2>1, <2>2 DEF Prompt
<1>7. CASE SignalIdle(s)
  BY <1>7 DEF SignalIdle, feedVars, loopVars, Runs
<1>8. CASE Abort(s)
  BY <1>8 DEF Abort, feedVars
<1>9. CASE Idle(s)
  BY <1>9 DEF Idle, feedVars, loopVars
<1>10. CASE RecordBoundary(s)
  BY <1>10 DEF RecordBoundary, feedVars, loopVars
<1>11. CASE End(s)
  BY <1>11 DEF End, feedVars, loopVars
<1>12. CASE Unsubscribe(s)
  BY <1>12 DEF Unsubscribe, loopVars
<1>13. CASE Close(s)
  BY <1>13 DEF Close, feedVars, loopVars
<1>14. QED
  BY <1>1, <1>2, <1>3, <1>4, <1>5, <1>6, <1>7, <1>8, <1>9, <1>10, <1>11,
     <1>12, <1>13 DEF StreamStep

\* So does a step of the loop.
LEMMA LoopInvLoop ==
  ASSUME TypeOK, LoopInv, LoopStep
  PROVE  LoopInv'
<1> USE RunsAssumption DEF LoopInv, TypeOK, Runs
<1>1. CASE Emit
  BY <1>1 DEF Emit, streamVars, feedVars
<1>2. CASE EmitLast
  BY <1>2 DEF EmitLast, Subscribed, streamVars, feedVars
<1>3. CASE GoIdle
  BY <1>3 DEF GoIdle, streamVars, feedVars
<1>4. ASSUME NEW s \in Streams, CallListener(s)
      PROVE  LoopInv'
  <2>1. UNCHANGED <<pc, idle, subs, running, started, ended>>
    BY <1>4 DEF CallListener, streamVars
  <2>2. todo' = todo \ {s}
    BY <1>4 DEF CallListener
  <2>3. \A t \in Streams : summary[t] # NoRun => summary'[t] # NoRun
    BY <1>4 DEF CallListener
  <2>4. running = s /\ ended => summary'[s] # NoRun
    BY <1>4 DEF CallListener, Subscribed
  <2>5. QED
    BY <2>1, <2>2, <2>3, <2>4
<1>5. ASSUME NEW s \in Streams, Deliver(s) \/ SendOnClosed(s)
      PROVE  LoopInv'
  BY <1>5, LoopInvSame DEF Deliver, SendOnClosed, streamVars, feedVars
<1>6. QED
  BY <1>1, <1>2, <1>3, <1>4, <1>5 DEF LoopStep

\* The loop invariant: a run is active only while its Stream call waits for it,
\* and goes idle only after that call has its summary.
THEOREM LoopInvariant == Spec => []LoopInv
<1>1. Init => LoopInv
  BY RunsAssumption DEF Init, LoopInv, Subscribed, Runs
<1>2. TypeOK /\ LoopInv /\ [Next]_vars => LoopInv'
  <2> SUFFICES ASSUME TypeOK, LoopInv, [Next]_vars PROVE LoopInv'
    OBVIOUS
  <2>1. CASE \E s \in Streams : StreamStep(s)
    BY <2>1, LoopInvStream
  <2>2. CASE \E s \in Streams : CancelCtx(s) \/ Receive(s)
    BY <2>2, LoopInvSame DEF CancelCtx, Receive, streamVars, feedVars, loopVars
  <2>3. ASSUME NEW d \in Directs, DirectPrompt(d)
        PROVE  LoopInv'
    BY <2>3, RunsAssumption
    DEF DirectPrompt, StartRun, LoopInv, Runs, TypeOK, streamVars, feedVars
  <2>4. CASE ReleaseAgent
    BY <2>4, LoopInvSame DEF ReleaseAgent, feedVars, loopVars
  <2>5. CASE LoopStep
    BY <2>5, LoopInvLoop
  <2>6. CASE \E c \in Calls : IssueCall(c) \/ CallStep(c)
    BY <2>6, LoopInvSame
    DEF IssueCall, CallStep, GateAllow, GateDeny, ReadDeniedRun, RecordDenied, CheckAction,
        CommitAction, ReadRun, Execute, RecordResult, streamVars, feedVars, loopVars
  <2>7. CASE UNCHANGED vars
    BY <2>7, LoopInvSame DEF vars, streamVars, feedVars, loopVars
  <2>8. QED
    BY <2>1, <2>2, <2>3, <2>4, <2>5, <2>6, <2>7 DEF Next
<1>3. QED
  BY <1>1, <1>2, TypeCorrect, PTL DEF Spec

\* Stream's wait function: when done is closed, the summary of a run that was
\* started is there, whatever direct prompt, abort or release raced it.
THEOREM SummaryReadyAlways == Spec => []SummaryReady
<1>1. LoopInv => SummaryReady
  BY DEF LoopInv, SummaryReady
<1>2. QED
  BY <1>1, LoopInvariant, PTL

-------------------------------------------------------------------------------
(* Run boundaries *)

\* An event that is not a boundary, or is one of another run, leaves the
\* boundaries of a run alone.
LEMMA BoundariesSame ==
  ASSUME NEW t, NEW e, e.run # t \/ e.kind \notin {"abort", "runEnd"},
         ledger' = ledger \/ ledger' = ledger \cup {e}
  PROVE  Boundaries(t)' = Boundaries(t)
BY DEF Boundaries

\* A best-effort write reaches the ledger when the sink works.
LEMMA RecordStores ==
  ASSUME NEW e, Record(e), WorkingSink, fails \in Nat
  PROVE  ledger' = ledger \cup {e}
BY DEF Record, Store, WriteFails, WorkingSink

\* No step outside a Stream call writes a boundary.
LEMMA BoundariesByStream ==
  ASSUME TypeOK, Next
  PROVE  \/ \E s \in Streams : StreamStep(s)
         \/ /\ \A t \in Runs : Boundaries(t)' = Boundaries(t)
            /\ UNCHANGED <<pc, known, sink>>
            /\ ledger \subseteq ledger'
<1>0. fails \in Nat
  BY DEF TypeOK
<1>1. CASE \/ \E s \in Streams : CancelCtx(s) \/ Receive(s)
           \/ \E d \in Directs : DirectPrompt(d)
           \/ ReleaseAgent
           \/ LoopStep
  BY <1>1
  DEF CancelCtx, Receive, DirectPrompt, ReleaseAgent, LoopStep, Emit, EmitLast, GoIdle,
      CallListener, Deliver, SendOnClosed, streamVars, ledgerVars, configVars, Boundaries
<1>2. ASSUME NEW c \in Calls, IssueCall(c) \/ CallStep(c)
      PROVE  /\ \A t \in Runs : Boundaries(t)' = Boundaries(t)
             /\ UNCHANGED <<pc, known, sink>>
             /\ ledger \subseteq ledger'
  <2>1. \/ ledger' = ledger
        \/ \E e : e.kind \in {"gate", "action", "result"} /\ ledger' = ledger \cup {e}
    <3>1. CASE GateAllow(c) \/ GateDeny(c)
      <4>1. ledger' = ledger \/ \E v \in {"allowed", "denied"} :
                                  ledger' = ledger \cup {GateDecision(v)}
        BY <1>0, <3>1, RecordGrows DEF GateAllow, GateDeny, ledgerVars
      <4>2. \A v \in {"allowed", "denied"} : GateDecision(v).kind = "gate"
        BY DEF GateDecision
      <4>3. QED
        BY <4>1, <4>2
    <3>2. CASE RecordDenied(c)
      <4>1. Action(c, seen[c].run, rs.req, "denied").kind = "action"
        BY DEF Action
      <4>2. QED
        BY <1>0, <3>2, <4>1, RecordGrows DEF RecordDenied
    <3>3. CASE CommitAction(c)
      <4>1. Action(c, seen[c].run, seen[c].req, "allowed").kind = "action"
        BY DEF Action
      <4>2. QED
        BY <3>3, <4>1 DEF CommitAction, Store
    <3>4. CASE RecordResult(c)
      <4> DEFINE r == [kind |-> "result", run |-> seen[c].run, req |-> NoRun, call |-> c,
                       verdict |-> "none"]
      <4>1. ledger' = ledger \/ ledger' = ledger \cup {r}
        BY <1>0, <3>4, RecordGrows DEF RecordResult
      <4>2. r.kind = "result"
        OBVIOUS
      <4>3. QED
        BY <4>1, <4>2
    <3>5. CASE IssueCall(c) \/ ReadDeniedRun(c) \/ CheckAction(c) \/ ReadRun(c) \/ Execute(c)
      BY <3>5 DEF IssueCall, ReadDeniedRun, CheckAction, ReadRun, Execute, ledgerVars
    <3>6. QED
      BY <1>2, <3>1, <3>2, <3>3, <3>4, <3>5 DEF CallStep
  <2>2. \A t \in Runs : Boundaries(t)' = Boundaries(t)
    BY <2>1 DEF Boundaries
  <2>3. UNCHANGED <<pc, known, sink>>
    BY <1>2
    DEF IssueCall, CallStep, GateAllow, GateDeny, ReadDeniedRun, RecordDenied, CheckAction,
        CommitAction, ReadRun, Execute, RecordResult, streamVars, configVars
  <2>4. QED
    BY <2>1, <2>2, <2>3
<1>3. QED
  BY <1>1, <1>2 DEF Next

\* A Stream call writes the boundary of its own run only.
LEMMA BoundariesOfOthers ==
  ASSUME TypeOK, NEW s \in Streams, StreamStep(s)
  PROVE  \A t \in Runs \ {s} : Boundaries(t)' = Boundaries(t)
<1>2. ledger' = ledger \/ \E k \in Kinds : ledger' = ledger \cup {RunEvent(k, s)}
  BY StreamWrites
<1>3. \A k \in Kinds : RunEvent(k, s).run = s
  BY DEF RunEvent
<1>4. QED
  BY <1>2, <1>3, BoundariesSame DEF Boundaries

\* What a step of Stream call s makes of the boundaries of its own run.
LEMMA BoundariesOfOwn ==
  ASSUME TypeOK, NEW s \in Streams, StreamStep(s)
  PROVE  \/ Refuse(s)
         \/ /\ RecordBoundary(s)
            /\ WorkingSink /\ s \in known => \E k \in {"abort", "runEnd"} :
                                              ledger' = ledger \cup {RunEvent(k, s)}
         \/ ~Refuse(s) /\ ~RecordBoundary(s) /\ Boundaries(s)' = Boundaries(s)
<1>1. fails \in Nat
  BY DEF TypeOK
<1>2. CASE RecordBoundary(s)
  BY <1>1, <1>2, RecordStores DEF RecordBoundary, Rec
<1>3. CASE RecordRequest(s) \/ Subscribe(s)
  <2>1. \E k \in {"request", "prompt"} :
          ledger' = ledger \/ ledger' = ledger \cup {RunEvent(k, s)}
    BY <1>1, <1>3, RecGrows DEF RecordRequest, Subscribe
  <2>2. \A k \in {"request", "prompt"} : RunEvent(k, s).kind = k
    BY DEF RunEvent
  <2>3. Boundaries(s)' = Boundaries(s)
    BY <2>1, <2>2, BoundariesSame
  <2>4. QED
    BY <1>3, <2>3 DEF RecordRequest, Subscribe, RecordBoundary, Refuse, Goto
<1>4. CASE \/ Start(s) \/ RefuseClose(s) \/ Prompt(s) \/ SignalIdle(s) \/ Abort(s) \/ Idle(s)
           \/ End(s) \/ Unsubscribe(s) \/ Close(s)
  <2>1. ledger' = ledger
    BY <1>4 DEF Start, RefuseClose, Prompt, SignalIdle, Abort, Idle, End, Unsubscribe,
                Close, ledgerVars
  <2>2. Boundaries(s)' = Boundaries(s)
    BY <2>1 DEF Boundaries
  <2>3. QED
    BY <1>2, <2>2
<1>5. QED
  BY <1>2, <1>3, <1>4 DEF StreamStep

\* A step of a Stream call keeps the boundary invariant.
LEMMA BoundaryInvStream ==
  ASSUME TypeOK, RunStateInv, BoundaryInv, NEW s \in Streams, StreamStep(s)
  PROVE  BoundaryInv'
<1> DEFINE Unbounded == (Owning \ {"ending"}) \cup {"new", "refused"}
           Bounded == {"ending", "ended", "unsubscribed", "outClosed"}
<1>1. sink' = sink /\ ledger \subseteq ledger'
  BY RecGrows, RecordZeroIDGrows
  DEF StreamStep, Start, Refuse, RefuseClose, RecordRequest, Subscribe, Prompt,
      SignalIdle, Abort, Idle, RecordBoundary, End, Unsubscribe, Close, configVars,
      ledgerVars, TypeOK
<1>2. ASSUME NEW t \in Streams, t # s
      PROVE  /\ pc'[t] = pc[t] /\ (t \in known' <=> t \in known)
             /\ Boundaries(t)' = Boundaries(t)
  <2>1. Boundaries(t)' = Boundaries(t)
    BY <1>2, BoundariesOfOthers DEF Runs
  <2>2. QED
    BY <1>2, <2>1
    DEF StreamStep, Start, Refuse, RefuseClose, RecordRequest, Subscribe, Prompt,
        SignalIdle, Abort, Idle, RecordBoundary, End, Unsubscribe, Close, TypeOK, Goto
<1>3. pc'[s] \in Unbounded => Boundaries(s)' = {}
  <2>1. CASE Refuse(s) \/ RecordBoundary(s)
    BY <2>1 DEF Refuse, RecordBoundary, Goto, TypeOK, Owning
  <2>2. CASE ~Refuse(s) /\ ~RecordBoundary(s) /\ Boundaries(s)' = Boundaries(s)
    <3>1. pc'[s] \in Unbounded => pc[s] \in Unbounded
      BY <2>2
      DEF StreamStep, Start, RefuseClose, RecordRequest, Subscribe, Prompt, SignalIdle,
          Abort, Idle, End, Unsubscribe, Close, TypeOK, Goto, Owning
    <3>2. QED
      BY <2>2, <3>1 DEF BoundaryInv
  <2>3. QED
    BY <2>1, <2>2, BoundariesOfOwn
<1>4. ASSUME WorkingSink, s \in known', pc'[s] \in Bounded
      PROVE  \E e \in ledger' : Boundaries(s)' = {e}
  <2>1. s \in known
    BY <1>4 DEF StreamStep, Start, Refuse, RefuseClose, RecordRequest, Subscribe, Prompt,
        SignalIdle, Abort, Idle, RecordBoundary, End, Unsubscribe, Close, TypeOK, Goto
  <2>2. CASE Refuse(s)
    BY <1>4, <2>2 DEF Refuse, Goto, TypeOK
  <2>3. CASE RecordBoundary(s) /\ \E k \in {"abort", "runEnd"} :
                                    ledger' = ledger \cup {RunEvent(k, s)}
    <3>1. PICK k \in {"abort", "runEnd"} : ledger' = ledger \cup {RunEvent(k, s)}
      BY <2>3
    <3>2. Boundaries(s) = {}
      BY <2>3 DEF RecordBoundary, Goto, BoundaryInv, Owning
    <3>3. RunEvent(k, s).run = s /\ RunEvent(k, s).kind = k
      BY DEF RunEvent
    <3>4. Boundaries(s)' = {RunEvent(k, s)}
      BY <3>1, <3>2, <3>3 DEF Boundaries
    <3>5. QED
      BY <3>1, <3>4
  <2>4. CASE ~Refuse(s) /\ ~RecordBoundary(s) /\ Boundaries(s)' = Boundaries(s)
    <3>1. pc[s] \in Bounded
      BY <1>4, <2>4
      DEF StreamStep, Start, RefuseClose, RecordRequest, Subscribe, Prompt, SignalIdle,
          Abort, Idle, End, Unsubscribe, Close, TypeOK, Goto
    <3>2. QED
      BY <1>1, <1>4, <2>1, <2>4, <3>1 DEF BoundaryInv
  <2>5. QED
    BY <1>4, <2>1, <2>2, <2>3, <2>4, BoundariesOfOwn
<1>5. WorkingSink' <=> WorkingSink
  BY <1>1 DEF WorkingSink
<1>6. \A d \in Directs : Boundaries(d)' = {}
  BY RunsAssumption, BoundariesOfOthers DEF BoundaryInv, Runs
<1>7. QED
  BY <1>1, <1>2, <1>3, <1>4, <1>5, <1>6 DEF BoundaryInv

\* The boundary invariant: no boundary before RecordBoundary, one afterwards.
THEOREM BoundaryInvariant == Spec => []BoundaryInv
<1>1. Init => BoundaryInv
  BY DEF Init, BoundaryInv, Boundaries
<1>2. TypeOK /\ AuditInv /\ BoundaryInv /\ [Next]_vars => BoundaryInv'
  <2> SUFFICES ASSUME TypeOK, AuditInv, BoundaryInv, [Next]_vars PROVE BoundaryInv'
    OBVIOUS
  <2>1. CASE \E s \in Streams : StreamStep(s)
    BY <2>1, BoundaryInvStream DEF AuditInv
  <2>2. CASE /\ \A t \in Runs : Boundaries(t)' = Boundaries(t)
             /\ UNCHANGED <<pc, known, sink>>
             /\ ledger \subseteq ledger'
    BY <2>2 DEF BoundaryInv, WorkingSink, Runs
  <2>3. CASE UNCHANGED vars
    BY <2>3 DEF vars, streamVars, configVars, ledgerVars, BoundaryInv, WorkingSink, Boundaries
  <2>4. QED
    BY <2>1, <2>2, <2>3, BoundariesByStream
<1>3. QED
  BY <1>1, <1>2, TypeCorrect, AuditInvariant, PTL DEF Spec

\* Stream: with a working sink an accepted run that is past its boundary has
\* exactly one run_end or abort in the ledger.
THEOREM RunBoundaryAlways == Spec => []RunBoundary
<1>1. BoundaryInv /\ TypeOK => RunBoundary
  <2> SUFFICES ASSUME BoundaryInv, TypeOK, WorkingSink, NEW s \in known,
                      pc[s] \in {"ending", "ended", "unsubscribed", "outClosed"}
               PROVE  Cardinality(Boundaries(s)) = 1
    BY DEF RunBoundary
  <2>1. PICK e \in ledger : Boundaries(s) = {e}
    BY DEF BoundaryInv, TypeOK
  <2>2. QED
    BY <2>1, FS_Singleton
<1>2. QED
  BY <1>1, BoundaryInvariant, TypeCorrect, PTL

-------------------------------------------------------------------------------
(* Tool calls and the run that issued them *)

\* A run whose tools are awaited keeps its calls: every step of a Stream call,
\* a caller or the loop leaves a call in flight with the active run.
LEMMA InFlightStep ==
  ASSUME AwaitTools, TypeOK, InFlightInv, [Next]_vars
  PROVE  InFlightInv'
<1> USE DEF InFlightInv
<1>1. ASSUME UNCHANGED <<callVars, running, ended>>
      PROVE  InFlightInv'
  BY <1>1 DEF callVars
<1>2. ASSUME NEW r, running = NoRun, StartRun(r), UNCHANGED callVars
      PROVE  InFlightInv'
  BY <1>2 DEF callVars, StartRun
<1>3. ASSUME NEW s \in Streams, StreamStep(s)
      PROVE  InFlightInv'
  <2>1. CASE Prompt(s)
    BY <1>1, <1>2, <2>1 DEF Prompt, loopVars
  <2>2. CASE ~Prompt(s)
    BY <1>1, <1>3, <2>2
    DEF StreamStep, Start, Refuse, RefuseClose, RecordRequest, Subscribe, SignalIdle,
        Abort, Idle, RecordBoundary, End, Unsubscribe, Close, loopVars
  <2>3. QED
    BY <2>1, <2>2
<1>4. CASE \/ \E s \in Streams : CancelCtx(s) \/ Receive(s)
           \/ ReleaseAgent
           \/ UNCHANGED vars
  BY <1>1, <1>4 DEF CancelCtx, Receive, ReleaseAgent, vars, loopVars
<1>5. CASE \E d \in Directs : DirectPrompt(d)
  BY <1>2, <1>5 DEF DirectPrompt
<1>6. CASE LoopStep
  <2>1. CASE EmitLast
    BY <2>1 DEF EmitLast, InFlight, callVars
  <2>2. CASE GoIdle
    BY <2>2 DEF GoIdle, callVars
  <2>3. CASE Emit \/ \E s \in Streams : CallListener(s) \/ Deliver(s) \/ SendOnClosed(s)
    BY <1>1, <2>3 DEF Emit, CallListener, Deliver, SendOnClosed
  <2>4. QED
    BY <1>6, <2>1, <2>2, <2>3 DEF LoopStep
<1>7. ASSUME NEW c \in Calls, IssueCall(c)
      PROVE  InFlightInv'
  BY <1>7 DEF IssueCall, loopVars, TypeOK
<1>8. ASSUME NEW c \in Calls, CallStep(c)
      PROVE  InFlightInv'
  <2>1. UNCHANGED <<callRun, running, ended>>
    BY <1>8
    DEF CallStep, GateAllow, GateDeny, ReadDeniedRun, RecordDenied, CheckAction,
        CommitAction, ReadRun, Execute, RecordResult, loopVars
  <2>2. cpc[c] \notin {"new", "returned"} /\ \A d \in Calls \ {c} : cpc'[d] = cpc[d]
    BY <1>8
    DEF CallStep, GateAllow, GateDeny, ReadDeniedRun, RecordDenied, CheckAction,
        CommitAction, ReadRun, Execute, RecordResult, CallGoto, TypeOK
  <2>3. QED
    BY <2>1, <2>2
<1>9. QED
  BY <1>3, <1>4, <1>5, <1>6, <1>7, <1>8 DEF Next

\* A tool call in flight belongs to the active run, if agentcore waits for the
\* tools of an aborted run.
THEOREM InFlightInvariant ==
  ASSUME AwaitTools
  PROVE  Spec => []InFlightInv
<1>1. Init => InFlightInv
  BY DEF Init, InFlightInv
<1>2. TypeOK /\ InFlightInv /\ [Next]_vars => InFlightInv'
  BY AwaitTools, InFlightStep
<1>3. QED
  BY <1>1, <1>2, TypeCorrect, PTL DEF Spec

\* Stream: no tool executes once its run's boundary is in the ledger, if
\* agentcore waits for the tools of an aborted run.
THEOREM NothingAfterBoundaryAlways ==
  ASSUME AwaitTools
  PROVE  Spec => NothingAfterBoundary
<1>1. /\ TypeOK /\ LoopInv /\ BoundaryInv /\ InFlightInv /\ [Next]_vars
      => [\A c \in executed' \ executed : Boundaries(callRun[c]) = {}]_vars
  <2> SUFFICES ASSUME TypeOK, LoopInv, BoundaryInv, InFlightInv, Next,
                      NEW c \in executed' \ executed
               PROVE  Boundaries(callRun[c]) = {}
    OBVIOUS
  <2>1. PICK d \in Calls : IssueCall(d) \/ CallStep(d)
    BY OutsideCalls DEF callVars
  <2>2. c = d /\ Execute(d)
    BY <2>1
    DEF IssueCall, CallStep, GateAllow, GateDeny, ReadDeniedRun, RecordDenied, CheckAction,
        CommitAction, ReadRun, Execute, RecordResult
  <2>3. c \in Calls /\ callRun[c] = running /\ running # NoRun
    BY <2>2 DEF Execute, CallGoto, InFlightInv
  <2>4. running \in Streams \/ running \in Directs
    BY <2>3 DEF TypeOK, RunOrNone, Runs
  <2>5. CASE running \in Streams
    <3>1. pc[running] \in {"waiting", "unwinding"}
      BY <2>5 DEF LoopInv
    <3>2. QED
      BY <2>3, <2>5, <3>1 DEF BoundaryInv, Owning
  <2>6. CASE running \in Directs
    BY <2>3, <2>6 DEF BoundaryInv
  <2>7. QED
    BY <2>4, <2>5, <2>6
<1>2. QED
  BY <1>1, TypeCorrect, LoopInvariant, BoundaryInvariant, InFlightInvariant, PTL
  DEF Spec, NothingAfterBoundary

\* A call in flight finds the run state of the run that issued it.
LEMMA CallFindsItsRun ==
  ASSUME OnlyStreams, TypeOK, RunStateInv, LoopInv, InFlightInv, TraceInv,
         NEW c \in Calls, cpc[c] \notin {"new", "returned"}
  PROVE  rs.run = callRun[c] /\ rs.req = callRun[c]
<1>1. callRun[c] = running /\ running \in Streams
  BY DEF InFlightInv, TypeOK, RunOrNone, Runs, OnlyStreams
<1>2. pc[running] \in {"waiting", "unwinding"}
  BY <1>1 DEF LoopInv
<1>3. running \in known
  BY <1>1, <1>2 DEF TraceInv
<1>4. rs.run = running
  BY <1>2, <1>3 DEF RunStateInv, OneActiveRun, Owning
<1>5. QED
  BY <1>1, <1>4 DEF RunStateInv

\* Steps outside the tool calls write nothing about one.
LEMMA TraceOutside ==
  ASSUME OnlyStreams, TypeOK, TraceInv,
         \/ \E s \in Streams : StreamStep(s) \/ CancelCtx(s) \/ Receive(s)
         \/ \E d \in Directs : DirectPrompt(d)
         \/ ReleaseAgent
         \/ LoopStep
         \/ UNCHANGED vars
  PROVE  TraceInv'
<1>1. UNCHANGED <<callVars, registered>>
  BY DEF OnlyStreams, StreamStep, Start, Refuse, RefuseClose, RecordRequest, Subscribe, Prompt,
      SignalIdle, Abort, Idle, RecordBoundary, End, Unsubscribe, Close, CancelCtx, Receive,
      ReleaseAgent, DirectPrompt, LoopStep, Emit, EmitLast, GoIdle, CallListener, Deliver,
      SendOnClosed, vars, streamVars
<1>2. \A s \in Streams : pc'[s] # "new" => s \in known'
  <2>1. ASSUME NEW s \in Streams, StreamStep(s)
        PROVE  /\ known \subseteq known' /\ s \in known'
               /\ \A t \in Streams \ {s} : pc'[t] = pc[t]
    BY <2>1
    DEF TraceInv, TypeOK, Goto, StreamStep, Start, Refuse, RefuseClose, RecordRequest,
        Subscribe, Prompt, SignalIdle, Abort, Idle, RecordBoundary, End, Unsubscribe, Close
  <2>2. CASE UNCHANGED <<pc, known>>
    BY <2>2 DEF TraceInv
  <2>3. QED
    BY <2>1, <2>2
    DEF TraceInv, CancelCtx, Receive, ReleaseAgent, DirectPrompt, LoopStep, Emit, EmitLast,
        GoIdle, CallListener, Deliver, SendOnClosed, vars, streamVars
<1>3. \A e \in ledger' : e \in ledger \/ e.kind \notin {"action", "result"}
  <2>1. ASSUME NEW s \in Streams, StreamStep(s)
        PROVE  \A e \in ledger' : e \in ledger \/ e.kind \notin {"action", "result"}
    <3>1. \A k \in Kinds : RunEvent(k, s).kind = k
      BY DEF RunEvent
    <3>2. QED
      BY <2>1, <3>1, StreamWrites
  <2>2. CASE ledger' = ledger
    BY <2>2
  <2>3. QED
    BY <2>1, <2>2
    DEF CancelCtx, Receive, ReleaseAgent, DirectPrompt, LoopStep, Emit, EmitLast,
        GoIdle, CallListener, Deliver, SendOnClosed, vars, ledgerVars
<1>4. QED
  BY <1>1, <1>2, <1>3 DEF TraceInv, Attribution, callVars

\* A tool call reads and writes under the run that issued it.
LEMMA TraceCall ==
  ASSUME OnlyStreams, TypeOK, RunStateInv, CallInv, LoopInv, InFlightInv, TraceInv,
         NEW c \in Calls, IssueCall(c) \/ CallStep(c)
  PROVE  TraceInv'
<1> DEFINE Traced(e) ==
      e.kind \in {"action", "result"} =>
        /\ e.call \in Calls /\ cpc[e.call] # "new"
        /\ e.run = callRun[e.call]
        /\ e.kind = "action" => e.req = e.run
<1>1. UNCHANGED <<registered, pc, known>>
  BY DEF IssueCall, CallStep, GateAllow, GateDeny, ReadDeniedRun, RecordDenied, CheckAction,
         CommitAction, ReadRun, Execute, RecordResult, streamVars
<1>2. /\ \A d \in Calls \ {c} : UNCHANGED <<cpc[d], callRun[d], seen[d]>>
      /\ cpc'[c] # "new"
  BY DEF TypeOK, CallGoto, IssueCall, CallStep, GateAllow, GateDeny, ReadDeniedRun,
         RecordDenied, CheckAction, CommitAction, ReadRun, Execute, RecordResult
<1>3. cpc[c] # "new" => callRun'[c] = callRun[c]
  BY DEF IssueCall, CallStep, GateAllow, GateDeny, ReadDeniedRun,
         RecordDenied, CheckAction, CommitAction, ReadRun, Execute, RecordResult
<1>4. \A e \in ledger : Traced(e)'
  BY <1>2, <1>3 DEF TraceInv, Attribution
<1>5. CallStep(c) => cpc[c] \notin {"new", "returned"}
  BY DEF CallStep, GateAllow, GateDeny, ReadDeniedRun, RecordDenied, CheckAction,
         CommitAction, ReadRun, Execute, RecordResult, CallGoto
<1>6. CallStep(c) => rs.run = callRun[c] /\ rs.req = callRun[c] /\ callRun'[c] = callRun[c]
  BY <1>3, <1>5, CallFindsItsRun
<1>7. cpc'[c] \in {"denyRef", "commit", "exec", "ran"} => seen'[c].run = callRun'[c]
  <2>1. CASE ReadDeniedRun(c) \/ CheckAction(c) \/ ReadRun(c)
    BY <1>6, <2>1
    DEF CallStep, ReadDeniedRun, CheckAction, ReadRun, CallGoto, TypeOK, RunContext
  <2>2. CASE Execute(c)
    BY <2>2 DEF Execute, CallGoto, TraceInv, TypeOK
  <2>3. CASE \/ IssueCall(c) \/ GateAllow(c) \/ GateDeny(c) \/ RecordDenied(c)
             \/ CommitAction(c) \/ RecordResult(c)
    BY <2>3
    DEF IssueCall, GateAllow, GateDeny, RecordDenied, CommitAction, RecordResult, CallGoto,
        TypeOK
  <2>4. QED
    BY <2>1, <2>2, <2>3 DEF CallStep
<1>8. \A e \in ledger' : e \in ledger \/ Traced(e)'
  <2> SUFFICES ASSUME NEW e \in ledger' \ ledger
               PROVE  Traced(e)'
    OBVIOUS
  <2>0. fails \in Nat
    BY DEF TypeOK
  <2>1. CASE GateAllow(c) \/ GateDeny(c)
    <3>1. \E v \in {"allowed", "denied"} : e = GateDecision(v)
      BY <2>0, <2>1, RecordGrows DEF GateAllow, GateDeny, ledgerVars
    <3>2. \A v \in {"allowed", "denied"} : GateDecision(v).kind = "gate"
      BY DEF GateDecision
    <3>3. QED
      BY <3>1, <3>2
  <2>2. CASE RecordDenied(c)
    <3>1. e = Action(c, seen[c].run, rs.req, "denied")
      BY <2>0, <2>2, RecordGrows DEF RecordDenied
    <3>2. seen[c].run = callRun[c] /\ rs.req = callRun[c] /\ callRun'[c] = callRun[c]
      BY <1>6, <2>2 DEF CallStep, RecordDenied, CallGoto, TraceInv
    <3>3. e.call = c /\ e.run = seen[c].run /\ e.req = rs.req
      BY <3>1 DEF Action
    <3>4. QED
      BY <1>2, <3>2, <3>3
  <2>3. CASE CommitAction(c)
    <3>1. e = Action(c, seen[c].run, seen[c].req, "allowed")
      BY <2>3 DEF CommitAction, Store
    <3>2. seen[c].run = callRun[c] /\ seen[c].req = seen[c].run /\ callRun'[c] = callRun[c]
      BY <1>6, <2>3 DEF CallStep, CommitAction, CallGoto, TraceInv, CallInv
    <3>3. e.call = c /\ e.run = seen[c].run /\ e.req = seen[c].req
      BY <3>1 DEF Action
    <3>4. QED
      BY <1>2, <3>2, <3>3
  <2>4. CASE RecordResult(c)
    <3>1. e = [kind |-> "result", run |-> seen[c].run, req |-> NoRun, call |-> c,
               verdict |-> "none"]
      BY <2>0, <2>4, RecordGrows DEF RecordResult
    <3>2. seen[c].run = callRun[c] /\ callRun'[c] = callRun[c]
      BY <1>6, <2>4 DEF CallStep, RecordResult, CallGoto, TraceInv
    <3>3. e.call = c /\ e.run = seen[c].run /\ e.kind = "result"
      BY <3>1
    <3>4. QED
      BY <1>2, <3>2, <3>3
  <2>5. CASE IssueCall(c) \/ ReadDeniedRun(c) \/ CheckAction(c) \/ ReadRun(c) \/ Execute(c)
    BY <2>5 DEF IssueCall, ReadDeniedRun, CheckAction, ReadRun, Execute, ledgerVars
  <2>6. QED
    BY <2>1, <2>2, <2>3, <2>4, <2>5 DEF CallStep
<1>9. QED
  BY <1>1, <1>2, <1>4, <1>7, <1>8 DEF TraceInv, Attribution

\* The trace invariant: what a call reads and writes is about the run that
\* issued it.
THEOREM TraceInvariant ==
  ASSUME OnlyStreams
  PROVE  Spec => []TraceInv
<1>1. Init => TraceInv
  BY DEF Init, TraceInv, Attribution
<1>2. TypeOK /\ AuditInv /\ LoopInv /\ InFlightInv /\ TraceInv /\ [Next]_vars => TraceInv'
  BY OnlyStreams, TraceOutside, TraceCall DEF AuditInv, Next
<1>3. AwaitTools
  BY OnlyStreams DEF OnlyStreams
<1>4. Spec => []InFlightInv
  BY <1>3, InFlightInvariant
<1>5. QED
  BY <1>1, <1>2, <1>4, TypeCorrect, AuditInvariant, LoopInvariant, PTL DEF Spec

\* gate and audit middleware: every action and every result in the ledger names
\* the run that issued the call, and an action refers to that run's request.
THEOREM AttributionAlways ==
  ASSUME OnlyStreams
  PROVE  Spec => []Attribution
<1>1. TraceInv => Attribution
  BY DEF TraceInv
<1>2. QED
  BY <1>1, OnlyStreams, TraceInvariant, PTL

==============================================================================
