SPECIFICATION FairSpec
CONSTANTS
  a = a
  b = b
  c = c
  p = p
  t1 = t1
  t2 = t2
  None = None
  Title = {t1, t2}
  LockKey = {a, b, c, p}
  TitleOf <- MCTitleOf
  Pinned = {p}
  Skipped = {p}
  Preferred = {a, c}
  Request = {r1, r2}
  Candidates = 2
  MaxConcurrent = 1
  MaxEntries = 1
  MaxMoves = 1
INVARIANTS
  EmbedInv
  RefreshGuarded
  SingleFlight
  ExternalAccounted
PROPERTIES
  ResolveEnds
