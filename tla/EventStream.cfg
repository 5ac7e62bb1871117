SPECIFICATION FairSpec
CONSTANTS
  Senders = {p1, p2, p3}
  Capacity = 1
  MaxSends = 2
  Consuming = TRUE
INVARIANT NoSendOnClosed
INVARIANT SenderOrder
PROPERTY CloseCompletes
CHECK_DEADLOCK FALSE
