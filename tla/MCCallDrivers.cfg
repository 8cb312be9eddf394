\* One device and three LiveKit connections, the last of which holds; two Talk
\* sessions, two events under way and one broken connection.
SPECIFICATION FairDriversSpec
CONSTANTS
  People = {p1}
  MaxRooms = 3
  MaxRefusals = 2
  s1 = s1
  s2 = s2
  Sids = {s1, s2}
  UserOf <- User
  MaxTries = 2
  MaxEvents = 2
  MaxLater = 1
  MaxBreaks = 1
INVARIANTS
  TypeOK StreamsOfTheRoom LeftMeansOut NobodyMissed
  SignallingTypeOK WantedIsTrue PresenceIsTrue  StaysEnd
PROPERTIES
  DropIsRejoined TracksFollowed
  NewcomersNoticed JoinsOrGivesUp StaysAreKept
