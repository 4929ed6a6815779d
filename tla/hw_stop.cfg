\* stop_task() against a rollout on the executor and one on a caller's
\* thread, two actions each, in chunks of up to two.  The stop ends both.
CONSTANTS
  a = a
  b = b
  Tasks = {a, b}
  Kind <- OneOfEach
  Stoppers = {s1}
  Cleaners = {}
  NoTask = NoTask
  MaxSteps = 2
  Horizon = 2
SPECIFICATION FairSpec
INVARIANT TypeOK
INVARIANT OneRollout
INVARIANT StepCountIsOwn
INVARIANT StopHolds
INVARIANT InterruptedIsNotCompleted
PROPERTY LeaseSpec
PROPERTY StopEndsRollout
