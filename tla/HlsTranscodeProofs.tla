------------------------- MODULE HlsTranscodeProofs -------------------------
(***************************************************************************)
(* Proofs about HlsTranscode, for any number of sources, requests, jobs    *)
(* and permits.                                                            *)
(***************************************************************************)
EXTENDS HlsTranscode, FiniteSetTheorems, TLAPS

(***************************************************************************)
(* What the actions make of job and req, as far as types go.               *)
(***************************************************************************)
LEMMA UnusedJobType ==
  /\ UnusedJob \in JobRecord
  /\ UnusedJob.child = "none" /\ UnusedJob.settle = "no" /\ UnusedJob.exited
  /\ UnusedJob.code = 0 /\ UnusedJob.permit = FALSE
BY ConstantsAssumption
   DEF UnusedJob, FinishedJob, NewJob, JobRecord, Mode, UnknownCode

LEMMA IdleFieldType ==
  ASSUME job \in [Job -> JobRecord], NEW j \in Job, NEW b \in BOOLEAN
  PROVE  [job EXCEPT ![j].idle = b] \in [Job -> JobRecord]
BY DEF JobRecord

LEMMA ExitType ==
  ASSUME job \in [Job -> JobRecord], NEW j \in Job, NEW s \in {"ok", "fail"}
  PROVE  [job EXCEPT ![j].child = s] \in [Job -> JobRecord]
BY DEF JobRecord

LEMMA AnswerType ==
  ASSUME req \in [Request -> RequestRecord], NEW r \in Request
  PROVE  [req EXCEPT ![r] = Idle] \in [Request -> RequestRecord]
BY DEF RequestRecord, Idle, Phase

LEMMA GotoType ==
  ASSUME req \in [Request -> RequestRecord], NEW r \in Request, NEW p \in Phase
  PROVE  [req EXCEPT ![r].pc = p] \in [Request -> RequestRecord]
BY DEF RequestRecord

LEMMA HandType ==
  ASSUME req \in [Request -> RequestRecord],
         NEW r \in Request, NEW p \in Phase, NEW j \in Job \cup {None}
  PROVE  [req EXCEPT ![r].pc = p, ![r].job = j] \in [Request -> RequestRecord]
BY DEF RequestRecord

LEMMA FallbackType ==
  ASSUME req \in [Request -> RequestRecord], NEW r \in Request
  PROVE  [req EXCEPT ![r].pc = "lock", ![r].job = None, ![r].fallback = TRUE]
           \in [Request -> RequestRecord]
<1>1. "lock" \in Phase
  BY DEF Phase
<1>2. [req[r] EXCEPT !.pc = "lock", !.job = None, !.fallback = TRUE]
        \in RequestRecord
  BY <1>1 DEF RequestRecord
<1>3. QED
  BY <1>2

\* A request past "idle" has a key, one inside the lock or polling has a job.
LEMMA RequestHas ==
  ASSUME HlsInv, NEW r \in Request
  PROVE  /\ req[r].pc # "idle" => req[r].key \in Key
         /\ req[r].pc \in {"found", "verdict", "evict", "insert", "poll",
                           "refresh", "check", "renderJob"} =>
              req[r].job \in Job
BY DEF HlsInv, TypeOK, RequestRecord, LookupCurrent, HoldsRef

\* The lock and the request after ensure_hls_transcode_job_with_mode.
LEMMA ReturnsType ==
  ASSUME TypeOK, NEW r \in Request, NEW j \in Job, req[r].key \in Key,
         EnsureReturns(r, j)
  PROVE  /\ jobLock' \in [Key -> Request \cup {None}]
         /\ req' \in [Request -> RequestRecord]
<1>1. /\ "poll" \in Phase /\ j \in Job \cup {None}
      /\ req \in [Request -> RequestRecord]
  BY DEF Phase, TypeOK
<1>2. [req EXCEPT ![r].pc = "poll", ![r].job = j]
        \in [Request -> RequestRecord]
  BY <1>1, HandType
<1>3. [req EXCEPT ![r] = Idle] \in [Request -> RequestRecord]
  BY <1>1, AnswerType
<1>4. jobLock' \in [Key -> Request \cup {None}]
  BY DEF TypeOK, EnsureReturns
<1>5. QED
  BY <1>2, <1>3, <1>4 DEF EnsureReturns, Answer

LEMMA FailsType ==
  ASSUME TypeOK, NEW r \in Request, NEW p \in Phase, req[r].key \in Key,
         EnsureFails(r, p)
  PROVE  /\ jobLock' \in [Key -> Request \cup {None}]
         /\ req' \in [Request -> RequestRecord]
BY GotoType, AnswerType DEF TypeOK, EnsureFails, Goto, Answer

LEMMA AllocateType ==
  ASSUME TypeOK, NEW r \in Request, NEW x \in JobRecord, Allocate(r, x)
  PROVE  /\ job' \in [Job -> JobRecord]
         /\ req' \in [Request -> RequestRecord]
<1>1. PICK j \in Job :
        /\ job' = [job EXCEPT ![j] = x]
        /\ req' = [req EXCEPT ![r].pc = "insert", ![r].job = j]
  BY DEF Allocate
<1>2. "insert" \in Phase /\ j \in Job \cup {None}
      /\ req \in [Request -> RequestRecord]
  BY DEF Phase, TypeOK
<1>3. [req EXCEPT ![r].pc = "insert", ![r].job = j]
        \in [Request -> RequestRecord]
  BY <1>2, HandType
<1>4. QED
  BY <1>1, <1>3 DEF TypeOK

\* What Disconnect makes of the jobs.
LEMMA DroppedSettle ==
  ASSUME TypeOK, NEW r \in Request, Disconnect(r), NEW j \in Job
  PROVE  /\ job'[j] \in JobRecord
         /\ job'[j].key = job[j].key /\ job'[j].mode = job[j].mode
         /\ job'[j].child = job[j].child /\ job'[j].exited = job[j].exited
         /\ job'[j].code = job[j].code /\ job'[j].permit = job[j].permit
         /\ \/ job'[j].settle = job[j].settle
            \/ job[j].settle = "coded" /\ job'[j].settle = "no"
<1>1. job[j] \in JobRecord
  BY DEF TypeOK
<1>2. CASE job[j].by = r
  <2>1. job'[j] = [job[j] EXCEPT !.settle = "no", !.by = None]
    BY <1>2 DEF Disconnect
  <2>2. job[j].settle = "coded"
    BY <1>2 DEF Disconnect
  <2>3. QED
    BY <1>1, <2>1, <2>2 DEF JobRecord
<1>3. CASE job[j].by # r
  <2>1. job'[j] = job[j]
    BY <1>3 DEF Disconnect
  <2>2. QED
    BY <1>1, <2>1
<1>4. QED
  BY <1>2, <1>3

\* What PruneKill makes of the jobs.
LEMMA KilledJob ==
  ASSUME TypeOK, PruneKill, pruner.job \in Job, NEW i \in Job
  PROVE  /\ job'[i] \in JobRecord
         /\ job'[i].key = job[i].key /\ job'[i].mode = job[i].mode
         /\ job'[i].settle = job[i].settle
         /\ i = pruner.job => job'[i].child = "none" /\ job[i].settle = "no"
         /\ \/ job'[i] = job[i]
            \/ /\ i = pruner.job /\ job[i].child # "none" /\ ~job'[i].permit
               /\ job'[i].child = "none" /\ job'[i].exited /\ job'[i].code = 1
<1>1. job[i] \in JobRecord
  BY DEF TypeOK
<1>2. job[pruner.job].settle = "no"
  BY DEF PruneKill
<1>3. CASE job[pruner.job].child = "none"
  <2>1. job' = job
    BY <1>3 DEF PruneKill
  <2>2. QED
    BY <2>1, <1>1, <1>2, <1>3
<1>4. CASE job[pruner.job].child # "none"
  <2>1. job' = [job EXCEPT ![pruner.job].child = "none",
                           ![pruner.job].exited = TRUE,
                           ![pruner.job].code = 1,
      ![pruner.job].permit = FALSE]
    BY <1>4 DEF PruneKill
  <2>2. CASE i # pruner.job
    <3>1. job'[i] = job[i]
      BY <2>1, <2>2 DEF TypeOK
    <3>2. QED
      BY <1>1, <2>2, <3>1
  <2>3. CASE i = pruner.job
    <3>1. job'[i] = [job[i] EXCEPT !.child = "none", !.exited = TRUE,
                                   !.code = 1, !.permit = FALSE]
      BY <2>1, <2>3 DEF TypeOK
    <3>2. QED
      BY <1>1, <1>2, <1>4, <2>3, <3>1 DEF JobRecord
  <2>4. QED
    BY <2>2, <2>3
<1>5. QED
  BY <1>3, <1>4

\* What WaitFails makes of them.
LEMMA FailedWaitJob ==
  ASSUME TypeOK, NEW j \in Job, WaitFails(j), NEW i \in Job
  PROVE  /\ job'[i] \in JobRecord
         /\ job'[i].key = job[i].key /\ job'[i].mode = job[i].mode
         /\ job'[i].settle = job[i].settle
         /\ IF i = j
              THEN /\ job[i].child # "none" /\ job[i].settle = "no"
                   /\ job'[i].child = "none" /\ job'[i].exited
                   /\ job'[i].code = 1 /\ ~job'[i].permit
              ELSE job'[i] = job[i]
<1>1. job[i] \in JobRecord
  BY DEF TypeOK
<1>2. CASE i # j
  <2>1. job'[i] = job[i]
    BY <1>2 DEF WaitFails, TypeOK
  <2>2. QED
    BY <1>1, <1>2, <2>1
<1>3. CASE i = j
  <2>1. job'[i] = [job[i] EXCEPT !.child = "none", !.exited = TRUE,
                                 !.code = 1, !.permit = FALSE]
    BY <1>3 DEF WaitFails, TypeOK
  <2>2. job[i].child # "none" /\ job[i].settle = "no"
    BY <1>3 DEF WaitFails
  <2>3. QED
    BY <1>1, <1>3, <2>1, <2>2 DEF JobRecord
<1>4. QED
  BY <1>2, <1>3

LEMMA HlsInvInit == Init => HlsInv
BY ConstantsAssumption, UnusedJobType
   DEF Init, Fresh, HlsInv, TypeOK, RequestRecord, Phase, Idle, PruneIdle,
       LockHeld, LockedPhases, MapKeys, LookupCurrent, HoldsRef, PrunerCurrent,
       Settling, NoOrphan, OneTranscodePerKey, MarkerHonest, Process,
       UnknownCode

(***************************************************************************)
(* Every step preserves the types.                                         *)
(***************************************************************************)
LEMMA HlsTypeNext == HlsInv /\ [Next]_vars => TypeOK'
<1> SUFFICES ASSUME HlsInv, [Next]_vars PROVE TypeOK'
  OBVIOUS
<1> TypeOK
  BY DEF HlsInv
<1>1. ASSUME NEW r \in Request, NEW k \in Key, RequestPlaylist(r, k)
      PROVE  TypeOK'
  BY <1>1 DEF TypeOK, RequestPlaylist, Asking, RequestRecord, Phase
<1>2. ASSUME NEW r \in Request, NEW k \in Key, RequestSegment(r, k)
      PROVE  TypeOK'
  BY <1>2 DEF TypeOK, RequestSegment, Asking, RequestRecord, Phase
<1>3. ASSUME NEW r \in Request, LockJob(r) PROVE TypeOK'
  <2>1. req[r].key \in Key /\ map[req[r].key] \in Job \cup {None}
    BY <1>3, RequestHas DEF LockJob, TypeOK
  <2> DEFINE p == IF map[req[r].key] = None THEN "start" ELSE "found"
             g == map[req[r].key]
  <2>2. p \in Phase /\ g \in Job \cup {None}
    BY <2>1 DEF Phase
  <2>3. req' = [req EXCEPT ![r].pc = p, ![r].job = g]
    BY <1>3 DEF LockJob
  <2> HIDE DEF p, g
  <2>4. req' \in [Request -> RequestRecord]
    BY <2>2, <2>3, HandType DEF TypeOK
  <2>5. jobLock' \in [Key -> Request \cup {None}]
    BY <1>3, <2>1 DEF LockJob, TypeOK
  <2>6. QED
    BY <1>3, <2>4, <2>5 DEF LockJob, TypeOK
<1>4. ASSUME NEW r \in Request, RefreshFound(r) PROVE TypeOK'
  BY <1>4, GotoType DEF TypeOK, RefreshFound, Goto, Phase
<1>5. ASSUME NEW r \in Request, ReuseJob(r) PROVE TypeOK'
  <2>1. req[r].key \in Key /\ req[r].job \in Job
    BY <1>5, RequestHas DEF ReuseJob
  <2>2. job' \in [Job -> JobRecord]
    BY <1>5, <2>1, IdleFieldType DEF ReuseJob, Touch, TypeOK
  <2>3. EnsureReturns(r, req[r].job)
    BY <1>5 DEF ReuseJob
  <2>4. QED
    BY <1>5, <2>1, <2>2, <2>3, ReturnsType DEF ReuseJob, TypeOK
<1>6. ASSUME NEW r \in Request, EvictFailedJob(r) PROVE TypeOK'
  BY <1>6, RequestHas, IdleFieldType, GotoType DEF TypeOK, EvictFailedJob,
     Touch, Goto, Phase
<1>7. ASSUME NEW r \in Request, NEW m \in Mode, StartFromMarker(r, m)
      PROVE  TypeOK'
  <2>1. FinishedJob(req[r].key, m) \in JobRecord
    BY <1>7, RequestHas DEF StartFromMarker, StartMode, FinishedJob, NewJob,
       JobRecord, UnknownCode, Mode
  <2>2. Allocate(r, FinishedJob(req[r].key, m))
    BY <1>7 DEF StartFromMarker
  <2>3. QED
    BY <1>7, <2>1, <2>2, AllocateType DEF StartFromMarker, TypeOK
<1>8. ASSUME NEW r \in Request, NEW m \in Mode, StartTranscode(r, m)
      PROVE  TypeOK'
  <2>1. NewJob(req[r].key, m) \in JobRecord
    BY <1>8, RequestHas DEF StartTranscode, StartWork, StartMode, FinishedJob,
       NewJob, JobRecord, UnknownCode, Mode
  <2>2. Allocate(r, NewJob(req[r].key, m))
    BY <1>8 DEF StartTranscode
  <2>3. QED
    BY <1>8, <2>1, <2>2, AllocateType DEF StartTranscode, TypeOK
<1>9. ASSUME NEW r \in Request, NEW m \in Mode, StartRefused(r, m)
      PROVE  TypeOK'
  <2>1. req[r].key \in Key /\ "refused" \in Phase
    BY <1>9, RequestHas DEF StartRefused, StartWork, StartMode, Phase
  <2>2. EnsureFails(r, "refused")
    BY <1>9 DEF StartRefused
  <2>3. QED
    BY <1>9, <2>1, <2>2, FailsType DEF StartRefused, TypeOK
<1>10. ASSUME NEW r \in Request, NEW m \in Mode, SpawnFails(r, m) PROVE TypeOK'
  <2>1. req[r].key \in Key /\ "failed" \in Phase
    BY <1>10, RequestHas DEF SpawnFails, StartWork, StartMode, Phase
  <2>2. EnsureFails(r, "failed")
    BY <1>10 DEF SpawnFails
  <2>3. QED
    BY <1>10, <2>1, <2>2, FailsType DEF SpawnFails, TypeOK
<1>11. ASSUME NEW r \in Request, InsertJob(r) PROVE TypeOK'
  <2>1. req[r].key \in Key /\ req[r].job \in Job
    BY <1>11, RequestHas DEF InsertJob
  <2>2. EnsureReturns(r, req[r].job)
    BY <1>11 DEF InsertJob
  <2>3. QED
    BY <1>11, <2>1, <2>2, ReturnsType DEF InsertJob, TypeOK
<1>12. ASSUME NEW r \in Request, RenderWhenBusy(r) PROVE TypeOK'
  BY <1>12, GotoType DEF TypeOK, RenderWhenBusy, Goto, Phase
<1>13. ASSUME NEW r \in Request, AnswerRefused(r) PROVE TypeOK'
  BY <1>13, AnswerType DEF TypeOK, AnswerRefused, Answer
<1>14. ASSUME NEW r \in Request, PollHit(r) PROVE TypeOK'
  BY <1>14, RequestHas, IdleFieldType, AnswerType DEF TypeOK, PollHit, Touch,
     Answer
<1>15. ASSUME NEW r \in Request, PollMiss(r) PROVE TypeOK'
  BY <1>15, RequestHas, IdleFieldType, GotoType DEF TypeOK, PollMiss, Touch,
     Goto, Phase
<1>16. ASSUME NEW r \in Request, PollRefresh(r) PROVE TypeOK'
  BY <1>16, GotoType DEF TypeOK, PollRefresh, Goto, Phase
<1>17. ASSUME NEW r \in Request, PollFallback(r) PROVE TypeOK'
  <2>1. req' = [req EXCEPT ![r].pc = "lock", ![r].job = None,
                           ![r].fallback = TRUE]
    BY <1>17 DEF PollFallback
  <2>2. QED
    BY <1>17, <2>1, FallbackType DEF PollFallback, TypeOK
<1>18. ASSUME NEW r \in Request, Disconnect(r) PROVE TypeOK'
  <2>1. job' \in [Job -> JobRecord]
    BY <1>18, DroppedSettle DEF Disconnect
  <2>2. jobLock' \in [Key -> Request \cup {None}]
    BY <1>18 DEF Disconnect, TypeOK
  <2>3. req' \in [Request -> RequestRecord]
    BY <1>18, AnswerType DEF Disconnect, Answer, TypeOK
  <2>4. QED
    BY <1>18, <2>1, <2>2, <2>3 DEF Disconnect, TypeOK
<1>19. ASSUME NEW j \in Job, FfmpegExits(j) PROVE TypeOK'
  <2>1. PICK s \in {"ok", "fail"} : job' = [job EXCEPT ![j].child = s]
    BY <1>19 DEF FfmpegExits
  <2>2. job' \in [Job -> JobRecord]
    BY <2>1, ExitType DEF TypeOK
  <2>3. QED
    BY <1>19, <2>2 DEF TypeOK, FfmpegExits
<1>20. ASSUME NEW j \in Job, TimePasses(j) PROVE TypeOK'
  BY <1>20, IdleFieldType DEF TypeOK, TimePasses
<1>21. ASSUME NEW j \in Job, Reap(j) PROVE TypeOK'
  BY <1>21 DEF TypeOK, Reap, JobRecord
<1>22. ASSUME NEW j \in Job, Settle(j) PROVE TypeOK'
  BY <1>22 DEF TypeOK, Settle, Coded, JobRecord, Prefix, PrefixOf, UnknownCode
<1>23. ASSUME NEW j \in Job, ReleasePermit(j) PROVE TypeOK'
  BY <1>23 DEF TypeOK, ReleasePermit, JobRecord
<1>24. ASSUME NEW k \in Key, PruneVisit(k) PROVE TypeOK'
  BY <1>24 DEF TypeOK, PruneVisit
<1>25. ASSUME PruneDecide PROVE TypeOK'
  BY <1>25 DEF TypeOK, PruneDecide, PruneIdle
<1>26. ASSUME PruneKill PROVE TypeOK'
  <2>1. pruner.job \in Job
    BY <1>26, ConstantsAssumption DEF PruneKill, HlsInv, PrunerCurrent, TypeOK
  <2>2. job' \in [Job -> JobRecord]
    <3>1. job' = [i \in Job |-> job'[i]]
      BY <1>26 DEF PruneKill, TypeOK
    <3>2. QED
      BY <1>26, <2>1, <3>1, KilledJob
  <2>3. QED
    BY <1>26, <2>2 DEF PruneKill, TypeOK
<1>27. ASSUME PruneRemove PROVE TypeOK'
  BY <1>27 DEF TypeOK, PruneRemove, PruneIdle
<1>28. ASSUME NEW k \in Key, NEW m \in Mode, PruneFile(k, m) PROVE TypeOK'
  BY <1>28 DEF TypeOK, PruneFile
<1>29. ASSUME Restart PROVE TypeOK'
  BY <1>29, UnusedJobType DEF TypeOK, Restart, Idle, PruneIdle, RequestRecord,
     Phase
<1>30. ASSUME NEW r \in Request, PollAgain(r) PROVE TypeOK'
  BY <1>30, GotoType DEF TypeOK, Phase, PollAgain, Goto
<1>33. ASSUME NEW r \in Request, PollRender(r) PROVE TypeOK'
  BY <1>33, GotoType DEF TypeOK, Phase, PollRender, Goto
<1>34. ASSUME NEW r \in Request, PollDeadline(r) PROVE TypeOK'
  BY <1>34, GotoType DEF TypeOK, Phase, PollDeadline, Goto
<1>31. ASSUME NEW r \in Request, PollFailed(r) \/ RenderOnDemand(r)
      PROVE  TypeOK'
  BY <1>31, AnswerType DEF TypeOK, Phase, PollFailed, RenderOnDemand, Answer
<1>36. ASSUME NEW j \in Job, WaitFails(j) PROVE TypeOK'
  <2>1. \A i \in Job : job'[i] \in JobRecord
    BY <1>36, FailedWaitJob
  <2>2. job' \in [Job -> JobRecord]
    BY <1>36, <2>1 DEF WaitFails, TypeOK
  <2>3. QED
    BY <1>36, <2>2 DEF WaitFails, TypeOK
<1>32. CASE UNCHANGED vars
  BY <1>32 DEF vars, TypeOK
<1>35. QED
  BY <1>1, <1>2, <1>3, <1>4, <1>5, <1>6, <1>7, <1>8, <1>9, <1>10,
     <1>11, <1>12, <1>13, <1>14, <1>15, <1>16, <1>17, <1>18, <1>19,
     <1>20, <1>21, <1>22, <1>23, <1>24, <1>25, <1>26, <1>27, <1>28,
     <1>29, <1>30, <1>31, <1>32, <1>33, <1>34, <1>36
     DEF Next, Arrive, RequestStep, EnsureStep, WaitStep, JobStep, RefreshStep,
         PruneStep

(***************************************************************************)
(* The parts of the invariant other than TypeOK.                           *)
(***************************************************************************)
Parts ==
  /\ LockHeld /\ MapKeys /\ LookupCurrent /\ PrunerCurrent
  /\ Settling /\ NoOrphan /\ OneTranscodePerKey /\ MarkerHonest

(***************************************************************************)
(* Most steps leave of every job all that the invariant speaks of.         *)
(***************************************************************************)
JobsAlike ==
  \A i \in Job :
    /\ job'[i].key = job[i].key /\ job'[i].mode = job[i].mode
    /\ job'[i].child = job[i].child /\ job'[i].exited = job[i].exited
    /\ job'[i].code = job[i].code /\ job'[i].permit = job[i].permit
    /\ job'[i].settle = job[i].settle

LEMMA TouchAlike ==
  ASSUME TypeOK, NEW j \in Job, Touch(j)
  PROVE  JobsAlike
BY DEF TypeOK, Touch, JobRecord, JobsAlike

\* What the invariant says of jobs and entries survives such a step.
LEMMA AlikeParts ==
  ASSUME HlsInv, JobsAlike, UNCHANGED <<map, marker, pruner>>,
         \A q \in Request : req[q].pc = "insert" => req'[q] = req[q]
  PROVE  /\ MapKeys' /\ Settling' /\ NoOrphan' /\ OneTranscodePerKey'
         /\ MarkerHonest' /\ PrunerCurrent'
<1> USE DEF JobsAlike, HlsInv
<1>1. MapKeys' /\ PrunerCurrent'
  BY DEF TypeOK, MapKeys, PrunerCurrent, Process
<1>2. Settling' /\ OneTranscodePerKey' /\ MarkerHonest'
  BY DEF Settling, OneTranscodePerKey, MarkerHonest, Process, PrefixOf
<1>3. NoOrphan'
  BY DEF NoOrphan, Process
<1>4. QED
  BY <1>1, <1>2, <1>3

LEMMA LockJobParts ==
  ASSUME HlsInv, NEW r \in Request, LockJob(r)
  PROVE  Parts'
<1>1. /\ req[r].pc = "lock" /\ jobLock[req[r].key] = None
      /\ req[r].key \in Key
  BY RequestHas DEF LockJob
<1>2. \A q \in Request :
        IF q = r
          THEN /\ req'[q].key = req[q].key /\ req'[q].job = map[req[r].key]
               /\ req'[q].pc = IF map[req[r].key] = None THEN "start"
                               ELSE "found"
          ELSE req'[q] = req[q]
  BY DEF LockJob, HlsInv, TypeOK, RequestRecord
<1>3. /\ jobLock' = [jobLock EXCEPT ![req[r].key] = r]
      /\ job' = job /\ UNCHANGED <<map, marker, pruner>>
  BY DEF LockJob
<1>4. LockHeld'
  BY <1>1, <1>2, <1>3, ConstantsAssumption
     DEF LockHeld, LockedPhases, HlsInv, TypeOK
<1>5. LookupCurrent'
  BY <1>1, <1>2, <1>3 DEF LookupCurrent, HoldsRef, HlsInv
<1>6. QED
  BY <1>1, <1>2, <1>3, <1>4, <1>5, AlikeParts DEF JobsAlike, Parts

LEMMA ReuseParts ==
  ASSUME HlsInv, NEW r \in Request, ReuseJob(r)
  PROVE  Parts'
<1>1. /\ req[r].pc = "verdict" /\ req[r].job \in Job /\ req[r].key \in Key
      /\ Touch(req[r].job) /\ EnsureReturns(r, req[r].job)
      /\ UNCHANGED <<map, marker, pruner>>
  BY RequestHas DEF ReuseJob
<1>2. JobsAlike
  BY <1>1, TouchAlike DEF HlsInv
<1>3. /\ \A q \in Request \ {r} : req'[q] = req[q]
      /\ \/ req'[r] = Idle
         \/ /\ req'[r].pc = "poll" /\ req'[r].key = req[r].key
            /\ req'[r].job = req[r].job
      /\ jobLock' = [jobLock EXCEPT ![req[r].key] = None]
  BY <1>1 DEF EnsureReturns, Answer, HlsInv, TypeOK, RequestRecord
<1>4. LockHeld'
  BY <1>1, <1>3, ConstantsAssumption
     DEF LockHeld, LockedPhases, HlsInv, TypeOK, Idle
<1>0. \A q \in Request : req[q].pc = "insert" => req[q].job \in Job
  BY RequestHas
<1>5. LookupCurrent'
  BY <1>0, <1>1, <1>2, <1>3
     DEF LookupCurrent, HoldsRef, HlsInv, Idle, JobsAlike
<1>6. QED
  BY <1>1, <1>2, <1>3, <1>4, <1>5, AlikeParts DEF Parts

\* A request touches its job and goes on, in or out of the job lock as before.
LEMMA TouchAndGoParts ==
  ASSUME HlsInv, NEW r \in Request, NEW p \in Phase,
         Touch(req[r].job), Goto(r, p),
         UNCHANGED <<map, marker, jobLock, pruner>>,
         \/ req[r].pc = "verdict" /\ p = "evict"
         \/ req[r].pc = "poll" /\ p = "refresh"
  PROVE  Parts'
<1>1. /\ req[r].job \in Job
      /\ \A q \in Request \ {r} : req'[q] = req[q]
      /\ req'[r].pc = p /\ req'[r].key = req[r].key
      /\ req'[r].job = req[r].job
  BY RequestHas DEF Goto, HlsInv, TypeOK, RequestRecord
<1>2. JobsAlike
  BY <1>1, TouchAlike DEF HlsInv
<1>3. LockHeld'
  BY <1>1 DEF LockHeld, LockedPhases, HlsInv
<1>0. \A q \in Request : req[q].pc = "insert" => req[q].job \in Job
  BY RequestHas
<1>4. LookupCurrent'
  BY <1>0, <1>1, <1>2 DEF LookupCurrent, HoldsRef, HlsInv, JobsAlike
<1>5. QED
  BY <1>1, <1>2, <1>3, <1>4, AlikeParts DEF Parts

LEMMA EvictParts ==
  ASSUME HlsInv, NEW r \in Request, EvictFailedJob(r)
  PROVE  Parts'
BY TouchAndGoParts DEF EvictFailedJob, Phase

LEMMA PollMissParts ==
  ASSUME HlsInv, NEW r \in Request, PollMiss(r)
  PROVE  Parts'
BY TouchAndGoParts DEF PollMiss, Phase

LEMMA PollHitParts ==
  ASSUME HlsInv, NEW r \in Request, PollHit(r)
  PROVE  Parts'
<1>1. /\ req[r].pc = "poll" /\ req[r].job \in Job
      /\ \A q \in Request \ {r} : req'[q] = req[q]
      /\ req'[r] = Idle
      /\ UNCHANGED <<map, marker, jobLock, pruner>>
  BY RequestHas DEF PollHit, Answer, HlsInv, TypeOK
<1>2. JobsAlike
  BY <1>1, TouchAlike DEF HlsInv, PollHit
<1>3. LockHeld'
  BY <1>1 DEF LockHeld, LockedPhases, HlsInv, Idle
<1>0. \A q \in Request : req[q].pc = "insert" => req[q].job \in Job
  BY RequestHas
<1>4. LookupCurrent'
  BY <1>0, <1>1, <1>2
     DEF LookupCurrent, HoldsRef, HlsInv, JobsAlike, Idle
<1>5. QED
  BY <1>1, <1>2, <1>3, <1>4, AlikeParts DEF Parts

LEMMA ReapParts ==
  ASSUME HlsInv, NEW j \in Job, Reap(j)
  PROVE  Parts'
<1>1. /\ job[j].child \in {"ok", "fail"} /\ job[j].settle = "no"
      /\ UNCHANGED <<map, marker, jobLock, req, pruner>>
  BY DEF Reap
<1>2. \A i \in Job :
        /\ job'[i].key = job[i].key /\ job'[i].mode = job[i].mode
        /\ job'[i].child = job[i].child /\ job'[i].code = job[i].code
        /\ job'[i].permit = job[i].permit
        /\ IF i = j THEN job'[i].exited /\ job'[i].settle = "begun"
           ELSE /\ job'[i].exited = job[i].exited
                /\ job'[i].settle = job[i].settle
  BY DEF Reap, HlsInv, TypeOK, JobRecord
<1>3. LockHeld' /\ MapKeys' /\ LookupCurrent' /\ PrunerCurrent'
  BY <1>1, <1>2
     DEF LockHeld, MapKeys, LookupCurrent, PrunerCurrent, HoldsRef, HlsInv,
         TypeOK, Process, RequestRecord
<1>4. Settling'
  BY <1>1, <1>2 DEF Settling, Process, HlsInv
<1>5. NoOrphan' /\ OneTranscodePerKey' /\ MarkerHonest'
  BY <1>1, <1>2
     DEF NoOrphan, OneTranscodePerKey, MarkerHonest, Process, PrefixOf, HlsInv
<1>6. QED
  BY <1>3, <1>4, <1>5 DEF Parts

LEMMA WaitFailsParts ==
  ASSUME HlsInv, NEW j \in Job, WaitFails(j)
  PROVE  Parts'
<1>1. UNCHANGED <<map, marker, jobLock, req, pruner>>
  BY DEF WaitFails
<1>2. \A i \in Job :
        /\ job'[i].key = job[i].key /\ job'[i].mode = job[i].mode
        /\ job'[i].settle = job[i].settle
        /\ IF i = j
             THEN /\ job[i].child # "none" /\ job[i].settle = "no"
                  /\ job'[i].child = "none" /\ job'[i].exited
                  /\ job'[i].code = 1
             ELSE job'[i] = job[i]
  BY FailedWaitJob DEF HlsInv
<1>3. LockHeld' /\ MapKeys' /\ LookupCurrent' /\ PrunerCurrent'
  BY <1>1, <1>2
     DEF LockHeld, MapKeys, LookupCurrent, PrunerCurrent, HoldsRef, HlsInv,
         TypeOK, Process, RequestRecord
<1>4. Settling'
  BY <1>1, <1>2 DEF Settling, Process, HlsInv, UnknownCode
<1>5. NoOrphan' /\ OneTranscodePerKey' /\ MarkerHonest'
  BY <1>1, <1>2
     DEF NoOrphan, OneTranscodePerKey, MarkerHonest, Process, PrefixOf, HlsInv
<1>6. QED
  BY <1>3, <1>4, <1>5 DEF Parts

LEMMA InsertJobParts ==
  ASSUME HlsInv, NEW r \in Request, InsertJob(r)
  PROVE  Parts'
<1> USE ConstantsAssumption
    DEF HlsInv, TypeOK, RequestRecord, Phase, LookupCurrent, HoldsRef,
        InsertJob,
        ShardFree
<1>1. LockHeld'
  BY DEF LockHeld, LockedPhases, EnsureReturns, Answer, Idle
<1>2. LookupCurrent'
  BY DEF LockHeld, LockedPhases, EnsureReturns, Answer, Idle
<1>3. MapKeys' /\ PrunerCurrent' /\ Settling' /\ OneTranscodePerKey'
      /\ MarkerHonest'
  BY DEF MapKeys, PrunerCurrent, Settling, OneTranscodePerKey, MarkerHonest,
         Process, PrefixOf
<1>4. NoOrphan'
  BY SMTT(30) DEF NoOrphan, Process, EnsureReturns, Answer, Idle
<1>5. QED
  BY <1>1, <1>2, <1>3, <1>4 DEF Parts

LEMMA DisconnectParts ==
  ASSUME HlsInv, NEW r \in Request, Disconnect(r)
  PROVE  Parts'
<1> TypeOK
  BY DEF HlsInv
<1>1. \A j \in Job :
        /\ job'[j].key = job[j].key /\ job'[j].mode = job[j].mode
        /\ job'[j].child = job[j].child /\ job'[j].exited = job[j].exited
        /\ job'[j].code = job[j].code /\ job'[j].permit = job[j].permit
        /\ \/ job'[j].settle = job[j].settle
           \/ job[j].settle = "coded" /\ job'[j].settle = "no"
  BY DroppedSettle
<1>2. \A q \in Request : req'[q] = IF q = r THEN Idle ELSE req[q]
  BY DEF Disconnect, Answer, TypeOK
<1>3. \A k \in Key : jobLock'[k] = IF jobLock[k] = r THEN None ELSE jobLock[k]
  BY DEF Disconnect
<1>4. /\ req[r].pc # "insert"
      /\ map' = map /\ marker' = marker /\ pruner' = pruner
  BY DEF Disconnect
<1>5. LockHeld'
  BY <1>2, <1>3, ConstantsAssumption DEF LockHeld, LockedPhases, HlsInv, Idle
<1>6. MapKeys' /\ Settling' /\ OneTranscodePerKey' /\ MarkerHonest'
  BY <1>1, <1>4
     DEF MapKeys, Settling, OneTranscodePerKey, MarkerHonest, HlsInv, Process,
         PrefixOf, TypeOK
<1>7. NoOrphan'
  BY <1>1, <1>2, <1>4 DEF NoOrphan, Process, HlsInv
<1>8. PrunerCurrent'
  BY <1>1, <1>4 DEF PrunerCurrent, Process, HlsInv, TypeOK
<1>9. LookupCurrent'
  BY <1>1, <1>2, <1>4, ConstantsAssumption
     DEF LookupCurrent, HoldsRef, HlsInv, Idle, TypeOK, RequestRecord
<1>10. QED
  BY <1>5, <1>6, <1>7, <1>8, <1>9 DEF Parts

LEMMA PruneKillParts ==
  ASSUME HlsInv, PruneKill
  PROVE  Parts'
<1> TypeOK
  BY DEF HlsInv
<1>1. /\ pruner.job \in Job /\ pruner.key \in Key
      /\ map[pruner.key] = pruner.job
  BY ConstantsAssumption DEF PruneKill, HlsInv, PrunerCurrent, TypeOK
<1>2. \A i \in Job :
        /\ job'[i].key = job[i].key /\ job'[i].mode = job[i].mode
        /\ job'[i].settle = job[i].settle
        /\ i = pruner.job => job'[i].child = "none" /\ job[i].settle = "no"
        /\ \/ job'[i] = job[i]
           \/ /\ i = pruner.job
              /\ job'[i].child = "none" /\ job'[i].exited /\ job'[i].code = 1
  BY <1>1, KilledJob
<1>3. /\ map' = map /\ marker' = marker /\ req' = req /\ jobLock' = jobLock
      /\ pruner'.job = pruner.job /\ pruner'.key = pruner.key
      /\ pruner'.pc = "remove" /\ pruner.pc = "kill"
  BY DEF PruneKill, TypeOK
<1>4. LockHeld' /\ MapKeys' /\ LookupCurrent'
  BY <1>2, <1>3
     DEF MapKeys, LockHeld, LookupCurrent, HoldsRef, HlsInv, TypeOK,
         RequestRecord
<1>5. NoOrphan' /\ OneTranscodePerKey' /\ MarkerHonest'
  BY <1>2, <1>3
     DEF NoOrphan, Process, HlsInv, OneTranscodePerKey, MarkerHonest, PrefixOf
<1>6. PrunerCurrent'
  BY <1>1, <1>2, <1>3 DEF PrunerCurrent, Process, HlsInv
<1>7. Settling'
  BY <1>2 DEF Settling, HlsInv, Process, UnknownCode
<1>8. QED
  BY <1>4, <1>5, <1>6, <1>7 DEF Parts

(***************************************************************************)
(* Every step preserves them.                                              *)
(***************************************************************************)
LEMMA HlsPartsNext == HlsInv /\ [Next]_vars => Parts'
<1> SUFFICES ASSUME HlsInv, [Next]_vars PROVE Parts'
  OBVIOUS
<1> USE ConstantsAssumption
    DEF TypeOK, RequestRecord, Phase, JobRecord, LockHeld, LockedPhases,
        MapKeys,
        LookupCurrent, HoldsRef, PrunerCurrent, Settling, NoOrphan,
        OneTranscodePerKey, MarkerHonest, Process, PrefixOf, HlsInv,
        UnknownCode,
        Mode, Parts
<1>1. ASSUME NEW r \in Request, NEW k \in Key, RequestPlaylist(r, k)
      PROVE  Parts'
  BY <1>1, SMTT(60) DEF RequestPlaylist, Asking
<1>2. ASSUME NEW r \in Request, NEW k \in Key, RequestSegment(r, k)
      PROVE  Parts'
  BY <1>2, SMTT(60) DEF RequestSegment, Asking
<1>3. ASSUME NEW r \in Request, LockJob(r) PROVE Parts'
  BY <1>3, LockJobParts
<1>4. ASSUME NEW r \in Request, RefreshFound(r) PROVE Parts'
  BY <1>4, SMTT(60) DEF RefreshFound, Goto
<1>5. ASSUME NEW r \in Request, ReuseJob(r) PROVE Parts'
  BY <1>5, ReuseParts
<1>6. ASSUME NEW r \in Request, EvictFailedJob(r) PROVE Parts'
  BY <1>6, EvictParts
<1>7. ASSUME NEW r \in Request, NEW m \in Mode, StartFromMarker(r, m)
      PROVE  Parts'
  BY <1>7, SMTT(60) DEF StartFromMarker, StartMode, Allocate, FinishedJob,
     NewJob, Live, Mapped
<1>8. ASSUME NEW r \in Request, NEW m \in Mode, StartTranscode(r, m)
      PROVE  Parts'
  BY <1>8, SMTT(120) DEF StartTranscode, StartWork, StartMode, Allocate,
     NewJob, Live, Mapped
<1>9. ASSUME NEW r \in Request, NEW m \in Mode, StartRefused(r, m) PROVE Parts'
  BY <1>9, SMTT(60) DEF StartRefused, StartWork, StartMode, EnsureFails, Goto,
     Answer, Idle
<1>10. ASSUME NEW r \in Request, NEW m \in Mode, SpawnFails(r, m) PROVE Parts'
  BY <1>10, SMTT(60) DEF SpawnFails, StartWork, StartMode, EnsureFails, Goto,
     Answer, Idle
<1>11. ASSUME NEW r \in Request, InsertJob(r) PROVE Parts'
  BY <1>11, InsertJobParts
<1>12. ASSUME NEW r \in Request, RenderWhenBusy(r) PROVE Parts'
  BY <1>12, SMTT(60) DEF RenderWhenBusy, Goto
<1>13. ASSUME NEW r \in Request, AnswerRefused(r) PROVE Parts'
  BY <1>13, SMTT(60) DEF AnswerRefused, Answer, Idle
<1>14. ASSUME NEW r \in Request, PollHit(r) PROVE Parts'
  BY <1>14, PollHitParts
<1>15. ASSUME NEW r \in Request, PollMiss(r) PROVE Parts'
  BY <1>15, PollMissParts
<1>16. ASSUME NEW r \in Request, PollRefresh(r) PROVE Parts'
  BY <1>16, SMTT(60) DEF PollRefresh, Goto
<1>17. ASSUME NEW r \in Request, PollFallback(r) PROVE Parts'
  BY <1>17, SMTT(120) DEF PollFallback
<1>18. ASSUME NEW r \in Request, Disconnect(r) PROVE Parts'
  BY <1>18, DisconnectParts
<1>19. ASSUME NEW j \in Job, FfmpegExits(j) PROVE Parts'
  BY <1>19, SMTT(60) DEF FfmpegExits
<1>20. ASSUME NEW j \in Job, TimePasses(j) PROVE Parts'
  BY <1>20, SMTT(60) DEF TimePasses
<1>21. ASSUME NEW j \in Job, Reap(j) PROVE Parts'
  BY <1>21, ReapParts
<1>22. ASSUME NEW j \in Job, Settle(j) PROVE Parts'
  BY <1>22, SMTT(120) DEF Settle, Coded
<1>23. ASSUME NEW j \in Job, ReleasePermit(j) PROVE Parts'
  BY <1>23, SMTT(120) DEF ReleasePermit
<1>24. ASSUME NEW k \in Key, PruneVisit(k) PROVE Parts'
  BY <1>24, SMTT(60) DEF PruneVisit
<1>25. ASSUME PruneDecide PROVE Parts'
  BY <1>25, SMTT(60) DEF PruneDecide, PruneIdle
<1>26. ASSUME PruneKill PROVE Parts'
  BY <1>26, PruneKillParts
<1>27. ASSUME PruneRemove PROVE Parts'
  BY <1>27, SMTT(60) DEF PruneRemove, PruneIdle, ShardFree
<1>28. ASSUME NEW k \in Key, NEW m \in Mode, PruneFile(k, m) PROVE Parts'
  BY <1>28, SMTT(60) DEF PruneFile
<1>29. ASSUME Restart PROVE Parts'
  BY <1>29, UnusedJobType DEF Restart, Idle, PruneIdle
<1>30. ASSUME NEW r \in Request, PollAgain(r) PROVE Parts'
  BY <1>30 DEF PollAgain, Goto
<1>33. ASSUME NEW r \in Request, PollRender(r) PROVE Parts'
  BY <1>33 DEF PollRender, Goto
<1>34. ASSUME NEW r \in Request, PollDeadline(r) PROVE Parts'
  BY <1>34 DEF PollDeadline, Goto
<1>31. ASSUME NEW r \in Request, PollFailed(r) \/ RenderOnDemand(r)
      PROVE  Parts'
  BY <1>31 DEF PollFailed, RenderOnDemand, Answer, Idle
<1>36. ASSUME NEW j \in Job, WaitFails(j) PROVE Parts'
  BY <1>36, WaitFailsParts
<1>32. CASE UNCHANGED vars
  BY <1>32 DEF vars
<1> HIDE DEF TypeOK, RequestRecord, Phase, JobRecord, LockHeld, LockedPhases,
      MapKeys,
        LookupCurrent, HoldsRef, PrunerCurrent, Settling, NoOrphan,
        OneTranscodePerKey, MarkerHonest, Process, PrefixOf, HlsInv,
        UnknownCode,
        Mode, Parts
<1>35. QED
  BY <1>1, <1>2, <1>3, <1>4, <1>5, <1>6, <1>7, <1>8, <1>9, <1>10,
     <1>11, <1>12, <1>13, <1>14, <1>15, <1>16, <1>17, <1>18, <1>19,
     <1>20, <1>21, <1>22, <1>23, <1>24, <1>25, <1>26, <1>27, <1>28,
     <1>29, <1>30, <1>31, <1>32, <1>33, <1>34, <1>36
     DEF Next, Arrive, RequestStep, EnsureStep, WaitStep, JobStep, RefreshStep,
         PruneStep

LEMMA HlsInvNext == HlsInv /\ [Next]_vars => HlsInv'
BY HlsTypeNext, HlsPartsNext DEF HlsInv, Parts

(***************************************************************************)
(* Nobody replaces a job that runs: HlsInv, in particular NoOrphan and     *)
(* OneTranscodePerKey, holds whatever requests, ffmpegs, the sweep and     *)
(* disconnecting clients do.                                               *)
(***************************************************************************)
THEOREM HlsInvariant == Spec => []HlsInv
BY HlsInvInit, HlsInvNext, PTL DEF Spec

THEOREM OneTranscode == Spec => []OneTranscodePerKey
<1>1. HlsInv => OneTranscodePerKey
  BY DEF HlsInv
<1>2. QED
  BY <1>1, HlsInvariant, PTL

(***************************************************************************)
(* The permits.  Only StartTranscode makes a holder, and only of a job     *)
(* that was not alive, with a permit that was available.                   *)
(***************************************************************************)
Holders == {j \in Job : job[j].permit /\ Live(j)}
PermitBound == Cardinality(Holders) <= MaxTranscodeJobs

LEMMA HoldersFinite == IsFiniteSet(Holders) /\ Cardinality(Holders) \in Nat
<1>1. IsFiniteSet(Holders)
  BY ConstantsAssumption, FS_Subset DEF Holders
<1>2. QED
  BY <1>1, FS_CardinalityType

LEMMA HoldersInit == Init => PermitBound
<1> SUFFICES ASSUME Init PROVE PermitBound
  OBVIOUS
<1>1. Holders = {}
  BY UnusedJobType DEF Init, Fresh, Holders
<1>2. QED
  BY <1>1, FS_EmptySet, ConstantsAssumption DEF PermitBound

(***************************************************************************)
(* A step other than StartTranscode makes no job a holder: a reference is  *)
(* only ever copied from another one, and a job made from a marker has no  *)
(* permit.                                                                 *)
(***************************************************************************)
LEMMA NoNewHolder ==
  ASSUME HlsInv, [Next]_vars, NEW i \in Job, job'[i].permit, Live(i)',
         \A r \in Request, m \in Mode : ~StartTranscode(r, m)
  PROVE  job[i].permit /\ Live(i)
<1> USE ConstantsAssumption
    DEF Live, Mapped, HlsInv, TypeOK, RequestRecord, JobRecord, LookupCurrent,
        PrunerCurrent, HoldsRef
<1> DEFINE Held == job[i].permit /\ Live(i)
<1>1. ASSUME NEW r \in Request, NEW k \in Key, RequestPlaylist(r, k) PROVE Held
  BY <1>1 DEF RequestPlaylist, Asking
<1>2. ASSUME NEW r \in Request, NEW k \in Key, RequestSegment(r, k) PROVE Held
  BY <1>2 DEF RequestSegment, Asking
<1>3. ASSUME NEW r \in Request, LockJob(r) PROVE Held
  BY <1>3 DEF LockJob
<1>4. ASSUME NEW r \in Request, RefreshFound(r) PROVE Held
  BY <1>4 DEF RefreshFound, Goto
<1>5. ASSUME NEW r \in Request, ReuseJob(r) PROVE Held
  BY <1>5 DEF ReuseJob, Touch, EnsureReturns, Answer, Idle
<1>6. ASSUME NEW r \in Request, EvictFailedJob(r) PROVE Held
  BY <1>6 DEF EvictFailedJob, Touch, Goto
<1>7. ASSUME NEW r \in Request, NEW m \in Mode, StartFromMarker(r, m)
      PROVE  Held
  BY <1>7 DEF StartFromMarker, StartMode, Allocate, FinishedJob, NewJob
<1>8. ASSUME NEW r \in Request, NEW m \in Mode, StartRefused(r, m) PROVE Held
  BY <1>8, SMTT(60)
     DEF StartRefused, StartWork, StartMode, EnsureFails, Goto, Answer, Idle
<1>9. ASSUME NEW r \in Request, NEW m \in Mode, SpawnFails(r, m) PROVE Held
  BY <1>9, SMTT(60)
     DEF SpawnFails, StartWork, StartMode, EnsureFails, Goto, Answer, Idle
<1>10. ASSUME NEW r \in Request, InsertJob(r) PROVE Held
  BY <1>10 DEF InsertJob, ShardFree, EnsureReturns, Answer, Idle
<1>11. ASSUME NEW r \in Request, RenderWhenBusy(r) PROVE Held
  BY <1>11 DEF RenderWhenBusy, Goto
<1>12. ASSUME NEW r \in Request, AnswerRefused(r) PROVE Held
  BY <1>12 DEF AnswerRefused, Answer, Idle
<1>13. ASSUME NEW r \in Request, PollHit(r) PROVE Held
  BY <1>13 DEF PollHit, Touch, Answer, Idle
<1>14. ASSUME NEW r \in Request, PollMiss(r) PROVE Held
  BY <1>14 DEF PollMiss, Touch, Goto
<1>15. ASSUME NEW r \in Request, PollRefresh(r) PROVE Held
  BY <1>15 DEF PollRefresh, Goto
<1>16. ASSUME NEW r \in Request, PollFallback(r) PROVE Held
  BY <1>16 DEF PollFallback
<1>17. ASSUME NEW r \in Request, Disconnect(r) PROVE Held
  <2>1. /\ job'[i].permit = job[i].permit /\ job'[i].child = job[i].child
        /\ job'[i].settle # "no" => job[i].settle # "no"
    BY <1>17, DroppedSettle
  <2>2. \A q \in Request : req'[q].job = i => req[q].job = i
    BY <1>17 DEF Disconnect, Answer, Idle
  <2>3. map' = map /\ pruner' = pruner
    BY <1>17 DEF Disconnect
  <2>4. QED
    BY <2>1, <2>2, <2>3
<1>18. ASSUME NEW j \in Job, FfmpegExits(j) PROVE Held
  BY <1>18 DEF FfmpegExits
<1>19. ASSUME NEW j \in Job, TimePasses(j) PROVE Held
  BY <1>19 DEF TimePasses
<1>44. ASSUME NEW j \in Job, WaitFails(j) PROVE Held
  <2>1. /\ job'[i].permit => job[i].permit /\ i # j
        /\ i # j => job'[i] = job[i]
    BY <1>44, FailedWaitJob
  <2>2. UNCHANGED <<map, req, pruner>>
    BY <1>44 DEF WaitFails
  <2>3. QED
    BY <2>1, <2>2
<1>20. ASSUME NEW j \in Job, Reap(j) PROVE Held
  BY <1>20 DEF Reap, RefreshesIn
<1>21. ASSUME NEW j \in Job, Settle(j) PROVE Held
  BY <1>21 DEF Settle, Coded
<1>22. ASSUME NEW j \in Job, ReleasePermit(j) PROVE Held
  BY <1>22 DEF ReleasePermit
<1>23. ASSUME NEW k \in Key, PruneVisit(k) PROVE Held
  BY <1>23 DEF PruneVisit
<1>24. ASSUME PruneDecide PROVE Held
  BY <1>24 DEF PruneDecide, PruneIdle
<1>25. ASSUME PruneKill PROVE Held
  BY <1>25 DEF PruneKill
<1>26. ASSUME PruneRemove PROVE Held
  BY <1>26 DEF PruneRemove, PruneIdle, ShardFree
<1>27. ASSUME NEW k \in Key, NEW m \in Mode, PruneFile(k, m) PROVE Held
  BY <1>27 DEF PruneFile
<1>28. ASSUME Restart PROVE Held
  BY <1>28, UnusedJobType DEF Restart, Idle, PruneIdle
<1>29. ASSUME NEW r \in Request, PollAgain(r) PROVE Held
  BY <1>29 DEF PollAgain, Goto
<1>30. ASSUME NEW r \in Request, PollRender(r) PROVE Held
  BY <1>30 DEF PollRender, Goto
<1>31. ASSUME NEW r \in Request, PollDeadline(r) PROVE Held
  BY <1>31 DEF PollDeadline, Goto
<1>32. ASSUME NEW r \in Request, PollFailed(r) PROVE Held
  BY <1>32 DEF PollFailed, Answer, Idle
<1>33. ASSUME NEW r \in Request, RenderOnDemand(r) PROVE Held
  BY <1>33 DEF RenderOnDemand, Answer, Idle
<1>34. ASSUME UNCHANGED vars PROVE Held
  BY <1>34 DEF vars
<1>35. ASSUME NEW r \in Request, NEW m \in Mode, StartTranscode(r, m)
       PROVE  Held
  BY <1>35
<1> HIDE DEF Held, Live, Mapped, HlsInv, TypeOK, RequestRecord, JobRecord,
        LookupCurrent, PrunerCurrent, HoldsRef
<1>36. ASSUME NEW r \in Request, EnsureStep(r) PROVE Held
  BY <1>36, <1>3, <1>4, <1>5, <1>6, <1>7, <1>8, <1>9, <1>10, <1>11, <1>12,
  <1>35
     DEF EnsureStep
<1>37. ASSUME NEW r \in Request, WaitStep(r) PROVE Held
  BY <1>37, <1>13, <1>14, <1>15, <1>16, <1>29, <1>30, <1>31, <1>32, <1>33
     DEF WaitStep
<1>38. ASSUME NEW r \in Request, Arrive(r) PROVE Held
  BY <1>38, <1>1, <1>2 DEF Arrive
<1>39. ASSUME NEW j \in Job, JobStep(j) \/ RefreshStep(j) PROVE Held
  BY <1>39, <1>18, <1>19, <1>20, <1>21, <1>22, <1>44 DEF JobStep, RefreshStep
<1>40. ASSUME PruneStep PROVE Held
  BY <1>40, <1>24, <1>25, <1>26 DEF PruneStep
<1>41. ASSUME Next PROVE Held
  BY <1>41, <1>17, <1>23, <1>27, <1>28, <1>36, <1>37, <1>38, <1>39, <1>40
     DEF Next, RequestStep
<1>42. Held
  BY <1>34, <1>41
<1>43. QED
  BY <1>42 DEF Held

LEMMA HoldersNext == HlsInv /\ PermitBound /\ [Next]_vars => PermitBound'
<1> SUFFICES ASSUME HlsInv, PermitBound, [Next]_vars PROVE PermitBound'
  OBVIOUS
<1>1. CASE \A r \in Request, m \in Mode : ~StartTranscode(r, m)
  <2>1. Holders' \subseteq Holders
    BY <1>1, NoNewHolder DEF Holders
  <2>2. Cardinality(Holders') <= Cardinality(Holders)
    BY <2>1, HoldersFinite, FS_Subset
  <2>3. Cardinality(Holders') \in Nat
    BY <2>1, HoldersFinite, FS_Subset, FS_CardinalityType
  <2>4. QED
    BY <2>2, <2>3, HoldersFinite, ConstantsAssumption DEF PermitBound
<1>2. ASSUME NEW r \in Request, NEW m \in Mode, StartTranscode(r, m)
      PROVE  PermitBound'
  <2>1. PICK j \in Job :
          /\ ~Live(j)
          /\ job' = [job EXCEPT ![j] = NewJob(req[r].key, m)]
          /\ req' = [req EXCEPT ![r].pc = "insert", ![r].job = j]
    BY <1>2 DEF StartTranscode, Allocate
  <2>2. Available > 0 /\ map' = map /\ pruner' = pruner
    BY <1>2 DEF StartTranscode
  <2>3. Cardinality(Holders) + 1 <= MaxTranscodeJobs
    BY <2>2, HoldersFinite, ConstantsAssumption DEF Available, Holders
  <2>4. \A i \in Job : i # j /\ job'[i].permit /\ Live(i)' => i \in Holders
    BY <2>1, <2>2 DEF Holders, Live, Mapped, HlsInv, TypeOK, RequestRecord
  <2>5. Holders' \subseteq Holders \cup {j}
    BY <2>4 DEF Holders
  <2>6. /\ IsFiniteSet(Holders \cup {j})
        /\ Cardinality(Holders \cup {j}) <= Cardinality(Holders) + 1
        /\ Cardinality(Holders \cup {j}) \in Nat
    <3>1. /\ IsFiniteSet(Holders \cup {j})
          /\ \/ Cardinality(Holders \cup {j}) = Cardinality(Holders)
             \/ Cardinality(Holders \cup {j}) = Cardinality(Holders) + 1
      BY HoldersFinite, FS_AddElement
    <3>2. QED
      BY <3>1, HoldersFinite
  <2>7. /\ Cardinality(Holders') <= Cardinality(Holders \cup {j})
        /\ Cardinality(Holders') \in Nat
    BY <2>5, <2>6, FS_Subset, FS_CardinalityType
  <2>8. QED
    BY <2>3, <2>6, <2>7, HoldersFinite, ConstantsAssumption DEF PermitBound
<1>3. QED
  BY <1>1, <1>2

LEMMA CapacityFromInv == HlsInv /\ PermitBound => CapacityRespected
<1> SUFFICES ASSUME HlsInv, PermitBound PROVE CapacityRespected
  OBVIOUS
<1>1. {j \in Job : Process(j)} \subseteq Holders
  BY DEF HlsInv, Settling, Holders, Process, Live
<1>2. /\ Cardinality({j \in Job : Process(j)}) <= Cardinality(Holders)
      /\ Cardinality({j \in Job : Process(j)}) \in Nat
  BY <1>1, HoldersFinite, FS_Subset, FS_CardinalityType
<1>3. QED
  BY <1>2, HoldersFinite, ConstantsAssumption DEF PermitBound,
      CapacityRespected

(***************************************************************************)
(* HLS_MAX_TRANSCODE_JOBS bounds the ffmpegs that run, whatever becomes of *)
(* the permits whose release a disconnecting client cuts off.              *)
(***************************************************************************)
THEOREM Capacity == Spec => []CapacityRespected
<1>1. Spec => []PermitBound
  BY HlsInvariant, HoldersInit, HoldersNext, PTL DEF Spec
<1>2. QED
  BY <1>1, HlsInvariant, CapacityFromInv, PTL
-----------------------------------------------------------------------------
(***************************************************************************)
(* What becomes of one job in a step: if its permit stays, so does what it *)
(* is kept for, and a code that is stored stays while the job is alive.    *)
(***************************************************************************)
KeptFor(i) ==
  Process(i) \/ job[i].settle = "coded" \/ (job[i].exited /\ job[i].code = 0)

JobKeeps(i) ==
  /\ job[i].permit /\ job'[i].permit /\ KeptFor(i) => KeptFor(i)'
  /\ Live(i) /\ Live(i)' /\ job[i].code # UnknownCode => job'[i].code = job[i].code

LEMMA AlikeKeeps ==
  ASSUME JobsAlike, NEW i \in Job PROVE JobKeeps(i)
BY DEF JobsAlike, JobKeeps, KeptFor, Process

LEMMA AllocateKeeps ==
  ASSUME TypeOK, NEW r \in Request, NEW record, Allocate(r, record),
         record.permit => record.child # "none", NEW i \in Job
  PROVE  JobKeeps(i)
<1>1. PICK j \in Job : ~Live(j) /\ job' = [job EXCEPT ![j] = record]
  BY DEF Allocate
<1>2. CASE i # j
  <2>1. job'[i] = job[i]
    BY <1>1, <1>2 DEF TypeOK
  <2>2. QED
    BY <2>1 DEF JobKeeps, KeptFor, Process
<1>3. CASE i = j
  BY <1>1, <1>3 DEF TypeOK, JobKeeps, KeptFor, Process
<1>4. QED
  BY <1>2, <1>3

LEMMA JobKeepsNext ==
  ASSUME HlsInv, [Next]_vars, NEW i \in Job
  PROVE  JobKeeps(i)
<1> DEFINE Fine == JobKeeps(i)
<1>a. TypeOK /\ Settling /\ job[i] \in JobRecord
  BY DEF HlsInv, TypeOK
<1>b. ASSUME UNCHANGED job PROVE Fine
  BY <1>b DEF JobKeeps, KeptFor, Process
<1>c. ASSUME NEW j, i # j, \E x : job' = [job EXCEPT ![j] = x] PROVE Fine
  <2>1. job'[i] = job[i]
    BY <1>a, <1>c DEF TypeOK
  <2>2. QED
    BY <2>1 DEF JobKeeps, KeptFor, Process
<1>1. ASSUME NEW r \in Request, Arrive(r) PROVE Fine
  BY <1>1, <1>b DEF Arrive, RequestPlaylist, RequestSegment
<1>2. ASSUME NEW r \in Request, EnsureStep(r) PROVE Fine
  <2>1. ASSUME NEW m \in Mode, StartFromMarker(r, m) PROVE Fine
    BY <1>a, <2>1, AllocateKeeps DEF StartFromMarker, FinishedJob, NewJob
  <2>2. ASSUME NEW m \in Mode, StartTranscode(r, m) PROVE Fine
    BY <1>a, <2>2, AllocateKeeps DEF StartTranscode, NewJob
  <2>3. ASSUME NEW m \in Mode, StartRefused(r, m) \/ SpawnFails(r, m) PROVE Fine
    BY <1>b, <2>3 DEF StartRefused, SpawnFails
  <2>4. CASE ReuseJob(r) \/ EvictFailedJob(r)
    <3>1. req[r].job \in Job
      BY <2>4 DEF HlsInv, TypeOK, RequestRecord, LookupCurrent, HoldsRef, ReuseJob,
                  EvictFailedJob
    <3>2. Touch(req[r].job)
      BY <2>4 DEF ReuseJob, EvictFailedJob
    <3>3. QED
      BY <1>a, <3>1, <3>2, TouchAlike, AlikeKeeps
  <2>5. CASE LockJob(r) \/ RefreshFound(r) \/ InsertJob(r) \/ RenderWhenBusy(r)
             \/ AnswerRefused(r)
    BY <1>b, <2>5 DEF LockJob, RefreshFound, InsertJob, RenderWhenBusy, AnswerRefused
  <2>6. QED
    BY <1>2, <2>1, <2>2, <2>3, <2>4, <2>5 DEF EnsureStep
<1>3. ASSUME NEW r \in Request, WaitStep(r) PROVE Fine
  <2>1. CASE PollHit(r) \/ PollMiss(r)
    <3>1. req[r].job \in Job
      BY <2>1 DEF HlsInv, TypeOK, RequestRecord, LookupCurrent, PollHit, PollMiss
    <3>2. Touch(req[r].job)
      BY <2>1 DEF PollHit, PollMiss
    <3>3. QED
      BY <1>a, <3>1, <3>2, TouchAlike, AlikeKeeps
  <2>2. CASE \/ PollRefresh(r) \/ PollAgain(r) \/ PollRender(r) \/ PollFallback(r)
             \/ PollFailed(r) \/ PollDeadline(r) \/ RenderOnDemand(r)
    BY <1>b, <2>2 DEF PollRefresh, PollAgain, PollRender, PollFallback, PollFailed,
                      PollDeadline, RenderOnDemand
  <2>3. QED
    BY <1>3, <2>1, <2>2 DEF WaitStep
<1>4. ASSUME NEW r \in Request, Disconnect(r) PROVE Fine
  <2>1. /\ job'[i].child = job[i].child /\ job'[i].exited = job[i].exited
        /\ job'[i].code = job[i].code
        /\ \/ job'[i].settle = job[i].settle
           \/ job[i].settle = "coded" /\ job'[i].settle = "no" /\ job[i].code = 0
    BY <1>4, <1>a, DroppedSettle DEF Disconnect
  <2>2. job[i].settle = "coded" => job[i].exited
    BY <1>a DEF Settling
  <2>3. QED
    BY <2>1, <2>2 DEF JobKeeps, KeptFor, Process
<1>5. ASSUME NEW j \in Job, JobStep(j) PROVE Fine
  <2>1. CASE FfmpegExits(j)
    BY <1>a, <2>1 DEF FfmpegExits, TypeOK, JobRecord, JobKeeps, KeptFor, Process
  <2>2. CASE WaitFails(j)
    BY <1>a, <2>2, FailedWaitJob DEF Settling, JobKeeps, KeptFor, Process
  <2>3. CASE TimePasses(j)
    BY <1>a, <2>3 DEF TimePasses, TypeOK, JobRecord, JobKeeps, KeptFor, Process
  <2>4. QED
    BY <1>5, <2>1, <2>2, <2>3 DEF JobStep
<1>6. ASSUME NEW j \in Job, RefreshStep(j) PROVE Fine
  <2>1. CASE Reap(j)
    BY <1>a, <2>1 DEF Reap, TypeOK, JobRecord, JobKeeps, KeptFor, Process
  <2>2. CASE Settle(j)
    BY <1>a, <2>2 DEF Settle, Coded, Settling, TypeOK, JobRecord, JobKeeps, KeptFor, Process
  <2>3. CASE ReleasePermit(j)
    BY <1>a, <2>3 DEF ReleasePermit, TypeOK, JobRecord, JobKeeps, KeptFor, Process
  <2>4. QED
    BY <1>6, <2>1, <2>2, <2>3 DEF RefreshStep
<1>7. ASSUME PruneStep PROVE Fine
  <2>1. CASE PruneKill
    <3>1. pruner.job \in Job
      BY <2>1 DEF HlsInv, TypeOK, PrunerCurrent, PruneKill
    <3>2. QED
      BY <1>a, <2>1, <3>1, KilledJob DEF Settling, JobKeeps, KeptFor, Process
  <2>2. CASE PruneDecide \/ PruneRemove
    BY <1>b, <2>2 DEF PruneDecide, PruneRemove
  <2>3. QED
    BY <1>7, <2>1, <2>2 DEF PruneStep
<1>8. CASE Restart
  <2>1. job'[i] = UnusedJob /\ ~Live(i)'
    BY <1>8, UnusedJobType, ConstantsAssumption DEF Restart, Live, Mapped, Idle, PruneIdle
  <2>2. QED
    BY <2>1, UnusedJobType DEF JobKeeps
<1>9. CASE (\E k \in Key : PruneVisit(k)) \/ (\E k \in Key, m \in Mode : PruneFile(k, m))
  BY <1>b, <1>9 DEF PruneVisit, PruneFile
<1>10. CASE UNCHANGED vars
  BY <1>b, <1>10 DEF vars
<1>11. QED
  BY <1>1, <1>2, <1>3, <1>4, <1>5, <1>6, <1>7, <1>8, <1>9, <1>10 DEF Next, RequestStep

(***************************************************************************)
(* However requests, refreshes, the sweep and clients that leave cross, a  *)
(* permit is kept only for a running ffmpeg, on its way back, or after a   *)
(* success whose refresh was cut off.                                      *)
(***************************************************************************)
THEOREM PermitsKept == Spec => []PermitAccounted
<1>1. Init => PermitAccounted
  BY UnusedJobType DEF Init, Fresh, PermitAccounted
<1>2. HlsInv /\ PermitAccounted /\ [Next]_vars => PermitAccounted'
  <2> SUFFICES ASSUME HlsInv, PermitAccounted, [Next]_vars, NEW i \in Job,
                      job'[i].permit, Live(i)'
               PROVE  KeptFor(i)'
    BY DEF PermitAccounted, KeptFor
  <2>1. CASE \A r \in Request, m \in Mode : ~StartTranscode(r, m)
    BY <2>1, NoNewHolder, JobKeepsNext DEF JobKeeps, PermitAccounted, KeptFor
  <2>2. ASSUME NEW r \in Request, NEW m \in Mode, StartTranscode(r, m) PROVE KeptFor(i)'
    <3>1. PICK j \in Job :
            /\ ~Live(j)
            /\ job' = [job EXCEPT ![j] = NewJob(req[r].key, m)]
            /\ req' = [req EXCEPT ![r].pc = "insert", ![r].job = j]
      BY <2>2 DEF StartTranscode, Allocate
    <3>2. map' = map /\ pruner' = pruner
      BY <2>2 DEF StartTranscode
    <3>3. CASE i = j
      BY <3>1, <3>3 DEF HlsInv, TypeOK, KeptFor, Process, NewJob
    <3>4. CASE i # j
      <4>1. job'[i] = job[i] /\ Live(i)
        BY <3>1, <3>2, <3>4 DEF Live, Mapped, HlsInv, TypeOK, RequestRecord
      <4>2. QED
        BY <4>1 DEF PermitAccounted, KeptFor, Process
    <3>5. QED
      BY <3>3, <3>4
  <2>3. QED
    BY <2>1, <2>2
<1>3. QED
  BY <1>1, <1>2, HlsInvariant, PTL DEF Spec

(***************************************************************************)
(* While a job is alive its exit code is stored once, whoever of the sweep *)
(* and the refreshes comes first.                                          *)
(***************************************************************************)
THEOREM OneVerdict == Spec => VerdictFinal
<1>1. HlsInv /\ [Next]_vars =>
        [\A j \in Job : Live(j) /\ Live(j)' /\ job[j].code # UnknownCode
                          => job'[j].code = job[j].code]_vars
  BY JobKeepsNext DEF JobKeeps
<1>2. QED
  BY <1>1, HlsInvariant, PTL DEF Spec, VerdictFinal
=============================================================================
