\* Two readers, the closer, a stream and its replacement; an outbox of two
\* frames, so that evictions meet writes under way.
SPECIFICATION Spec
CONSTANTS
  Readers = {r1, r2}
  Closer = closer
  MaxFrames = 3
  MaxStreams = 2
  MaxOutbox = 2
SYMMETRY Symmetry
INVARIANTS TypeOK ContractOrder OneLiveStream LossCounted IInv
