SPECIFICATION FairSpec
CONSTANTS
  ErrorKinds = {io}
  NoError = NoError
  INITIAL_BACKOFF = 1
  MAX_BACKOFF = 2
  MaxEntries = 3
  MaxLen = 1
  Undecodable = {2}
  Dollar = Dollar
  Task = task
  Host = h1
  Hosts = {h1, h2}
  Users = {task, u1}
  Managers = {m1, m2}
  None = None
INVARIANTS TypeOK SentInOrder NoGapInSession
PROPERTIES NewEntriesAreSent CancelledTaskStops CallsReturn ImplementsSharedResources
