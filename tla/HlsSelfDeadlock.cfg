SPECIFICATION Spec
CONSTANTS
  Key = {k1}
  Request = {r1}
  Job = {j1, j2}
  PreferredModes = {"hw"}
  MaxTranscodeJobs = 1
  None = None
  s1 = s1
  ShardOf <- MCShardOf
VIEW MCView
INVARIANT NoSelfDeadlock
