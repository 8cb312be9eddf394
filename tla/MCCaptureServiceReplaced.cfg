\* A call ends and the next starts between two polls.
SPECIFICATION ServiceSpec
CONSTANTS
  Rooms = {room1, room2}
  Excluded = {}
  Pinned = {}
  AllowLists = {{}, {room1}}
  MaxCalls = 2
  MaxInfos = 2
CHECK_DEADLOCK FALSE
PROPERTY MeetingOfTheCall
