\* Two sends to one robot, one of which reaches it over both transports; a
\* deduplicator that holds one entry and a replay cache that is full with two.
CONSTANTS
  x = x
  y = y
  k1 = k1
  k2 = k2
  robot = robot
  Calls = {x, y}
  Robots = {robot}
  Target <- ToOne
  Copies <- TwoAndOne
  DedupTTL = 1
  DedupMax = 0
  DedupMaxHard = 0
  ReplayTTL = 1
  ReplayMax = 2
  MaxDelay = 1
  MaxTime = 3
SPECIFICATION Spec
INVARIANT TypeOK
INVARIANT ActsOnce
INVARIANT AnswerIsTruthful
INVARIANT LateAnswersLeaveNothing
PROPERTY ReplayWindowHolds
PROPERTY CommandSpec
CHECK_DEADLOCK FALSE
