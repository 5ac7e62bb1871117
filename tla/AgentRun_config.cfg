SPECIFICATION Spec
CONSTANTS
  Streams = {s1}
  Directs = {d1}
  NoRun = NoRun
  Calls = {cw}
  NoCall = NoCall
  cr = cr
  cw = cw
  cx = cx
  Tools <- MCTools
  ToolOf <- MCToolOf
  NameOf <- MCNameOf
  Registered <- MCRegistered
  SafeTools <- MCSafe
  GateModes <- AllGates
  Sinks <- AllSinks
  MaxFails = 1
  AwaitTools = FALSE
  MayRelease = TRUE
  OutCap = 1
  MaxEvents = 1
  Readers = {s1}
INVARIANT NoRecordNoAction
INVARIANT SelfExplaining
PROPERTY AuditSpec
CHECK_DEADLOCK FALSE
