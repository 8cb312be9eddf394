\* Events come while a reconnect joins the room again.
SPECIFICATION FairSignallingSpec
CONSTANTS
  s1 = s1
  s2 = s2
  Sids = {s1, s2}
  UserOf <- User
  MaxTries = 2
  MaxEvents = 2
  MaxLater = 1
  MaxBreaks = 1
PROPERTY QueuedComesFirst
