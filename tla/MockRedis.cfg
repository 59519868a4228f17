SPECIFICATION FairSpec
CONSTANTS
  c1 = c1
  c2 = c2
  Clients = {c1, c2}
  Scripts <- MCScripts
  Ascii = {"a"}
  Base = 3
  Capacity = 2
  Expected <- MCExpected
  Preloaded = 1
  Dollar = Dollar
  None = None
INVARIANTS ExecutesWhatWasSent FollowsStream ObservedIsStored
PROPERTIES CommandsAreAnswered 
CHECK_DEADLOCK FALSE
