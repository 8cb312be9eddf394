\* Every fault at any time, three streams, two attempts: the safety of the
\* hand-over, that it drives the sink as BrainSink allows and implements
\* MeetingStream, and that it ends with the gateway and network at their worst.
SPECIFICATION FairSessionSpec
CONSTANTS
  Readers = {r1}
  Closer = closer
  MaxFrames = 2
  MaxStreams = 3
  MaxOutbox = 3
  MaxAttempts = 2
INVARIANTS SessionTypeOK SettledMeansTaken ReplayOrder
PROPERTIES Spec ImplementsMeeting HandOverEnds
