\* finalize returns None for a call whose audio was being sent.
SPECIFICATION SessionSpec
CONSTANTS
  Readers = {r1}
  Closer = closer
  MaxFrames = 2
  MaxStreams = 3
  MaxOutbox = 3
  MaxAttempts = 3
INVARIANT NoneMeansNeverOpened
