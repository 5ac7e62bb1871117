SPECIFICATION Spec
CONSTANTS
  Streams = {s1}
  Directs = {d1}
  NoRun = NoRun
  Calls = {cw}
  NoCall = NoCall
  cr = cr
  cw = cw
  cx = cx
  Tools <- MCTools
  ToolOf <- MCToolOf
  NameOf <- MCNameOf
  Registered <- MCRegistered
  SafeTools <- MCSafe
  GateModes = {"approver"}
  Sinks = {"durable"}
  MaxFails = 0
  AwaitTools = TRUE
  MayRelease = FALSE
  OutCap = 1
  MaxEvents = 0
  Readers = {s1}
INVARIANT ActionsTraced
CHECK_DEADLOCK FALSE
