SPECIFICATION Spec
CONSTANTS
  ErrorKinds = {io, other}
  NoError = NoError
  INITIAL_BACKOFF = 1
  MAX_BACKOFF = 6
  MaxMessages = 4
  Undecodable = {2}
  Io = io
PROPERTIES RepeatedDropsAreDeduplicated
