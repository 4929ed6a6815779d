\* Two meshes of one process, one of which joins again, two threads.
CONSTANTS
  m1 = m1
  m2 = m2
  Meshes = {m1, m2}
  Callers = {k1, k2}
  NoCaller = NoCaller
  NoMesh = NoMesh
  MaxStarts <- OneRejoins
SYMMETRY Interchangeable
SPECIFICATION Spec
INVARIANT TypeOK
INVARIANT RunningMeshHasItsSession
INVARIANT AtMostOneLateBeat
INVARIANT AllOrNothing
CHECK_DEADLOCK FALSE
