\* Three threads of two processes, files of one record, one rotation kept.
CONSTANTS
  u = u
  v = v
  w = w
  A = A
  B = B
  a = a
  b = b
  Writers = {u, v, w}
  Processes = {A, B}
  Peers = {a, b}
  Home <- Processes2
  Peer <- Peers2
  MaxFiles = 2
  FileSize = 1
  MaxEvents <- Events113
  MaxFaults = 1
SPECIFICATION Spec
INVARIANT TypeOK
INVARIANT NumbersAreUnique
INVARIANT ReadsInOrder
INVARIANT GapsAreReal
INVARIANT RetainedWindow
PROPERTY NumbersAreConsecutive
CHECK_DEADLOCK FALSE
