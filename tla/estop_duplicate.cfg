CONSTANTS
  op = op
  Peers = {op, arm}
  WithCode = {op, arm}
  Presses = {e1}
  Commands = {}
  Resumes = {}
  Pressers = {op}
  Reached = {arm}
  Leavers = {}
  Faulty = {}
  Offset <- Agreeing
  Window = 1
  Skew = 1
  CacheMax = 4
  MaxClock = 0
  NoPeer = NoPeer
  NoCommand = NoCommand
SPECIFICATION Spec
INVARIANT OnlyStoppedPeersCount
CHECK_DEADLOCK FALSE
