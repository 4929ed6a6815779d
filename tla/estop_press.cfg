\* Two presses of the operator, a command they race, a robot that may fail to
\* stop, and an operator's mesh that leaves and joins again; messages repeat
\* while time stands still.
CONSTANTS
  op = op
  Peers = {op, arm}
  WithCode = {op, arm}
  Presses = {e1, e2}
  Commands = {c1}
  Resumes = {}
  Pressers = {op}
  Reached = {arm}
  Leavers = {op}
  Faulty = {arm}
  Offset <- Agreeing
  Window = 1
  Skew = 1
  CacheMax = 8
  MaxClock = 0
  NoPeer = NoPeer
  NoCommand = NoCommand
SPECIFICATION FairSpec
INVARIANT TypeOK
INVARIANT AckIsHonest
PROPERTY LockedPeerStartsNothingNew
PROPERTY PressCompletes
CHECK_DEADLOCK FALSE
