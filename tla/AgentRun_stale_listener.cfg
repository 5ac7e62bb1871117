SPECIFICATION Spec
CONSTANTS
  Streams = {s1, s2}
  Directs = {}
  NoRun = NoRun
  Calls = {}
  NoCall = NoCall
  cr = cr
  cw = cw
  cx = cx
  Tools <- MCTools
  ToolOf <- MCToolOf
  NameOf <- MCNameOf
  Registered <- MCRegistered
  SafeTools <- MCSafe
  GateModes = {"approver"}
  Sinks = {"durable"}
  MaxFails = 0
  AwaitTools = TRUE
  MayRelease = FALSE
  OutCap = 1
  MaxEvents = 1
  Readers = {s1, s2}
INVARIANT OwnEvents
CHECK_DEADLOCK FALSE
