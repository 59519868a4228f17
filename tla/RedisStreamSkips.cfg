SPECIFICATION FairSpec
CONSTANTS
  ErrorKinds = {io}
  NoError = NoError
  INITIAL_BACKOFF = 1
  MAX_BACKOFF = 2
  MaxEntries = 3
  MaxLen = 1
  Undecodable = {}
  Dollar = Dollar
  Task = task
  Host = h1
  Hosts = {h1}
  Users = {task}
  Managers = {m1, m2}
  None = None
PROPERTIES NothingPublishedIsSkipped
