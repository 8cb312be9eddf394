\* A signal while a call is captured.
SPECIFICATION ServiceSpec
CONSTANTS
  Rooms = {room1, room2}
  Excluded = {}
  Pinned = {}
  AllowLists = {{}, {room1}}
  MaxCalls = 1
  MaxInfos = 2
CHECK_DEADLOCK FALSE
PROPERTY ShutdownClosesCalls
