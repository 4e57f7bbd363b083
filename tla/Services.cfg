SPECIFICATION ServicesSpec
CONSTANTS
  Key = {k1, k2}
  Task = {t1, t2, t3}
  Lock = {l1, l2, l3, l4, l5}
  None = None
  Client = {c1, c2}
  Permits <- MCPermits
  Pieces = 1
  Visitor = {v1, v2}
  Rail = {r1, r2}
  Warming = Warming
  Slot = {s1, s2, s3}
  Episode = {s1, s2}
  Origin = {h1, h2}
  NoSlot = None
  NoOrigin = None
  MaxTime = 4
  Account = {a1, a2}
CHECK_DEADLOCK FALSE
INVARIANTS
  LockInv
  StreamInv
  RailsKept
  CardFollows
  AccountsSafe
PROPERTIES
  ImplementsKeyMutex
  WaiterServed
  StreamServed
  RefreshAgain
