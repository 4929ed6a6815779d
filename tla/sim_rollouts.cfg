\* A start_policy and a run_policy of two episodes, both made by an agent, beside
\* two other calls of any kind.
CONSTANTS
  a = a
  b = b
  Robots = {r1, r2}
  Launches = {a, b}
  Kind <- OneOfEach
  Dispatched = {a, b}
  Calls = {p, q}
  Workers = 1
  Horizon = 2
  Episodes = 2
  None = None
SPECIFICATION Spec
SYMMETRY Interchangeable
INVARIANT TypeOK
INVARIANT OneRolloutPerRobot
INVARIANT StopBoundsFrames
INVARIANT HaltsAreReported
INVARIANT SwapWaitsForRollouts
INVARIANT RobotIsGivenBack
CHECK_DEADLOCK FALSE
