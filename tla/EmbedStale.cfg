SPECIFICATION Spec
CONSTANTS
  a = a
  b = b
  c = c
  p = p
  t1 = t1
  t2 = t2
  None = None
  Title = {t1}
  LockKey = {a, b}
  TitleOf <- MCTitleOf
  Pinned = {}
  Skipped = {}
  Preferred = {a, b}
  Request = {r1, r2}
  Candidates = 2
  MaxConcurrent = 2
  MaxEntries = 2
  MaxMoves = 1
INVARIANTS
  RefreshRecovers
