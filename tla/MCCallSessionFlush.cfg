\* Even then, frames waiting are not flushed before the end frame.
SPECIFICATION CalmSpec
CONSTANTS
  Readers = {r1}
  Closer = closer
  MaxFrames = 2
  MaxStreams = 4
  MaxOutbox = 3
  MaxAttempts = 3
PROPERTY FlushedBeforeEnd
