\* Faults before the hand-over only; streams enough for all of them.
SPECIFICATION CalmSpec
CONSTANTS
  Readers = {r1}
  Closer = closer
  MaxFrames = 2
  MaxStreams = 4
  MaxOutbox = 3
  MaxAttempts = 3
PROPERTY CalmCallIsTaken
