----------------------------- MODULE MCAgentRun -----------------------------
(***************************************************************************)
(* Instances of AgentRun for TLC.  Call cw writes (its tool is not safe),  *)
(* call cr reads (safe tool), call cx invokes a tool that entered through  *)
(* Config.Extra and is not safe.                                           *)
(***************************************************************************)
EXTENDS AgentRun

CONSTANTS cr, cw, cx

MCTools == {"read", "write", "extra"}

MCSafe == {"read"}

MCRegistered == {"read", "write"}

MCToolOf ==
  [c \in Calls |-> CASE c = cr -> "read" [] c = cw -> "write" [] OTHER -> "extra"]

\* Every tool has a name of its own.
MCNameOf == [t \in MCTools |-> t]

AllGates == {"custom", "allowAll", "approver", "noApprover"}

AllSinks == {"durable", "jsonl", "discard"}
==============================================================================
