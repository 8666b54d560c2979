\* The hub is scheduled fairly, and so is one client; the other may stall for ever.
\* The context is never cancelled, as in main.go.
SPECIFICATION FairSpec
CONSTANTS
  Client = {c1, c2}
  Ticker = {}
  Caller = {start}
  BroadcastCap = 1
  SendCap = 1
  MaxMsg = 2
  MayCancel = FALSE
  Responsive = {c1}
PROPERTIES HubNeverStalls GoneIsForgotten ShownOrClosed
CHECK_DEADLOCK FALSE
