SPECIFICATION Spec
CONSTANTS
  Key = {k1, k2}
  Request = {r1, r2}
  Job = {j1, j2}
  PreferredModes = {"none"}
  MaxTranscodeJobs = 1
  None = None
  s1 = s1
  ShardOf <- MCShardOf
SYMMETRY MCSymmetry
VIEW MCView
INVARIANTS
  CapacityRespected
  PermitAccounted
