----------------------------- MODULE ActionAudit -----------------------------
(***************************************************************************)
(* What jess promises about tool calls, whatever gate, sink or schedule is *)
(* in use: "no durable record, no action".  A call of a tool that is not   *)
(* safe executes only after an allowed action naming that call is in the   *)
(* durable ledger; a call executes at most once; a record is never lost.   *)
(* The audit middleware (internal/core/audit_mw.go) is the enforcement     *)
(* point; module AgentRun is the detailed specification.                   *)
(***************************************************************************)
CONSTANTS
  Calls,      \* tool calls the model may ask for
  Unsafe      \* the calls whose tool is not marked safe

VARIABLES
  recorded,   \* calls with an allowed action in the durable ledger
  executed    \* calls whose tool has run

vars == <<recorded, executed>>

Init == recorded = {} /\ executed = {}

\* The ledger commits the action of a call that has not run yet.
Record(c) ==
  /\ c \notin executed
  /\ recorded' = recorded \cup {c}
  /\ UNCHANGED executed

\* The tool of call c runs.
Execute(c) ==
  /\ c \notin executed
  /\ c \in Unsafe => c \in recorded
  /\ executed' = executed \cup {c}
  /\ UNCHANGED recorded

Next == \E c \in Calls : Record(c) \/ Execute(c)

Spec == Init /\ [][Next]_vars
==============================================================================
