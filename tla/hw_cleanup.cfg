\* cleanup() against a rollout on the executor and one on a caller's thread; both
\* end, and so does cleanup().
CONSTANTS
  a = a
  b = b
  Tasks = {a, b}
  Kind <- StartAndExecute
  Stoppers = {}
  Cleaners = {c1}
  NoTask = NoTask
  MaxSteps = 2
  Horizon = 2
SPECIFICATION FairSpec
INVARIANT StopHolds
INVARIANT IdleArmIsNotRunning
PROPERTY UndrivenArmIsReleased
PROPERTY NoCommandAfterClose
PROPERTY BudgetEndsRollout
PROPERTY CleanupFinishes
