SPECIFICATION FairSpec
CONSTANTS
  ErrorKinds = {io, other}
  NoError = NoError
  INITIAL_BACKOFF = 1
  MAX_BACKOFF = 6
  MaxMessages = 4
  Undecodable = {2}
  Io = io
INVARIANTS TypeOK SentInOrder NothingReceivedIsLost BackoffIsExponential
PROPERTIES CancelledTaskStops KeepsReconnecting
