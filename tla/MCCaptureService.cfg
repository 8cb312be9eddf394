\* Two rooms, of which the administrator lists one or none (which is all); calls
\* that end and come back, and restarts.
SPECIFICATION FairServiceSpec
CONSTANTS
  Rooms = {room1, room2}
  Excluded = {}
  Pinned = {}
  AllowLists = {{}, {room1}}
  MaxCalls = 2
  MaxInfos = 2
INVARIANTS ServiceTypeOK SessionsTracked
PROPERTIES OptOutFollowsPoll EndedCallIsLetGo
