\* Two presses and a resume while time passes and the other peer leaves and joins
\* again: the operator's clock is ahead by all that is tolerated, time runs until
\* every first envelope is stale, and the caches take one envelope of an issuer.
CONSTANTS
  op = op
  Peers = {op, arm}
  WithCode = {op, arm}
  Presses = {e1, e2}
  Commands = {}
  Resumes = {r1}
  Pressers = {op}
  Reached = {}
  Leavers = {arm}
  Faulty = {op}
  Offset <- OperatorAhead
  Window = 0
  Skew = 1
  CacheMax = 2
  MaxClock = 2
  NoPeer = NoPeer
  NoCommand = NoCommand
SYMMETRY Interchangeable
SPECIFICATION Spec
INVARIANT NothingIsAppliedTwice
CHECK_DEADLOCK FALSE
