SPECIFICATION FairSpec
CONSTANTS
  ErrorKinds = {e1}
  NoError = NoError
  INITIAL_BACKOFF = 1
  MAX_BACKOFF = 3
  Streams = {s1, s2}
  DEFAULT_CHANNEL_CAPACITY = 2
  Capacity = 2
  MaxMessages = 3
  Tombstones = {2}
  MaxFaults = 1
CHECK_DEADLOCK FALSE
INVARIANTS TypeOK SessionIsFaithful NothingSkippedAfterCommit LossIsAnnounced
PROPERTIES CancelledTaskStops KeepsConsuming
