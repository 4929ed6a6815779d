CONSTANTS
  a = a
  b = b
  Tasks = {a}
  Kind <- AllStarts
  Stoppers = {s1}
  Cleaners = {}
  NoTask = NoTask
  MaxSteps = 2
  Horizon = 2
SPECIFICATION Spec
INVARIANT StopHoldsAtAnyStage
