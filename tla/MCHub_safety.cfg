\* Two connections, one broadcaster, the smallest buffers, so that both channels fill
\* up; the context may be cancelled at any moment.
SPECIFICATION Spec
CONSTANTS
  Client = {c1, c2}
  Ticker = {stats}
  Caller = {}
  BroadcastCap = 1
  SendCap = 1
  MaxMsg = 3
  MayCancel = TRUE
  Responsive = {}
SYMMETRY ClientSymmetry
INVARIANTS NoChannelPanic NothingSkipped InOrderNoGaps ForgottenIsClosed IInv
PROPERTY ImplementsFeed
CHECK_DEADLOCK FALSE
