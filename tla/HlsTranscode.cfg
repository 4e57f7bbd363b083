SPECIFICATION Spec
CONSTANTS
  Key = {k1}
  Request = {r1, r2}
  Job = {j1, j2, j3}
  PreferredModes = {"hw", "none"}
  MaxTranscodeJobs = 2
  None = None
  s1 = s1
  ShardOf <- MCShardOf
SYMMETRY MCSymmetry
VIEW MCView
INVARIANTS
  HlsInv
  OneTranscodePerKey
PROPERTIES
  VerdictFinal
