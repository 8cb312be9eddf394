\* The call is left while connect_and_join waits for a reader it cancelled.
SPECIFICATION FairSpec
CONSTANTS
  People = {p1}
  MaxRooms = 2
  MaxRefusals = 0
INVARIANT UntilCancelled
