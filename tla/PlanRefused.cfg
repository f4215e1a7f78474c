CONSTANTS
  Dirs <- MCDirs
  Within <- MCWithin
  PathLength <- MCLength
  LockManager <- MCLockManager
  Versions = {10, 11, 20, 21}
  Prereleases = {21}
  Supported <- MCSupported
  Verifiable = {11}
  Setups <- PeerSetups
SPECIFICATION Spec
INVARIANT BlockingReturnsThePlan
CHECK_DEADLOCK FALSE
