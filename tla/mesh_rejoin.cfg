\* A mesh that leaves and joins again, from one thread.
CONSTANTS
  m1 = m1
  m2 = m2
  Meshes = {m1}
  Callers = {k1}
  NoCaller = NoCaller
  NoMesh = NoMesh
  MaxStarts <- OneRejoins
SPECIFICATION Spec
CHECK_DEADLOCK FALSE
INVARIANT RunningMeshHasAHeartbeat
