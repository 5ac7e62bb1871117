SPECIFICATION FairSpec
CONSTANTS
  Streams = {s1}
  Directs = {}
  NoRun = NoRun
  Calls = {cw}
  NoCall = NoCall
  cr = cr
  cw = cw
  cx = cx
  Tools <- MCTools
  ToolOf <- MCToolOf
  NameOf <- MCNameOf
  Registered <- MCRegistered
  SafeTools <- MCSafe
  GateModes = {"approver"}
  Sinks = {"durable"}
  MaxFails = 0
  AwaitTools = TRUE
  MayRelease = FALSE
  OutCap = 1
  MaxEvents = 1
  Readers = {}
PROPERTY KillSwitch
CHECK_DEADLOCK FALSE
