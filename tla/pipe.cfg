SPECIFICATION FairSpec
CONSTANTS
  CAPACITY = 2
  Readers = {r1}
  Writers = {w1, w2}
  Stdio = {r1, w2}
  MaxBytes = 4
  MaxEnds = 2
INVARIANT TypeOK
INVARIANT CountsExact
INVARIANT NobodySleepsThrough
PROPERTY ImplementsChannel
PROPERTY EndReachesReaders
PROPERTY EndReachesWriters
