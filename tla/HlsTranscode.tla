---------------------------- MODULE HlsTranscode ----------------------------
(***************************************************************************)
(* The background HLS transcodes of streaming.rs.  A playlist or segment   *)
(* request makes sure that one ffmpeg transcodes its source: a job in the  *)
(* hls_jobs map, started under the key's job lock and one of the           *)
(* MaxTranscodeJobs permits, that writes files behind an output prefix     *)
(* (a key and an encode mode).  A segment request then polls for its file; *)
(* a periodic sweep kills the jobs nobody asks for and drops their entries.*)
(*                                                                         *)
(* hls_jobs is a DashMap: a Ref into it is a read lock on the entry's      *)
(* shard, and insert and remove take that shard's write lock, blocking the *)
(* thread.  Each request asks for one segment; time is abstract (a job's   *)
(* idle flag, a request's deadline).  The job lock is the abstract lock    *)
(* KeyMutex.  Segment files may be there or not whenever a request looks;  *)
(* rendering one on demand is one step here.                               *)
(***************************************************************************)
EXTENDS Integers, FiniteSets

CONSTANTS
  Key,               \* sources (with their audio stream): the keys of hls_jobs
  ShardOf,           \* ShardOf[k]: the shard of hls_jobs that k falls into
  Request,           \* requests being handled
  Job,               \* job objects that can be alive together
  PreferredModes,    \* modes a new job may be given: {"hw"}, {"none"} or both
  MaxTranscodeJobs,  \* HLS_MAX_TRANSCODE_JOBS
  None

ASSUME ConstantsAssumption ==
  /\ DOMAIN ShardOf = Key /\ Key # {}
  /\ PreferredModes \subseteq {"hw", "none"} /\ PreferredModes # {}
  /\ MaxTranscodeJobs \in Nat \ {0}
  /\ IsFiniteSet(Job)
  /\ None \notin Key \cup Request \cup Job

VARIABLES
  map,       \* hls_jobs: map[k] is the job of k, or None
  job,       \* the HlsJob objects
  marker,    \* <<k, m>>: the prefix has a completion marker on marker
  jobLock,   \* jobLock[k]: the request inside k's job lock, or None
  req,       \* the requests
  pruner     \* the sweep's pass over hls_jobs

vars == <<map, job, marker, jobLock, req, pruner>>

Mode == {"hw", "none"}
Prefix == Key \X Mode
UnknownCode == -1

(***************************************************************************)
(* child: the ffmpeg the job's child mutex holds ("run", or exited and not *)
(* yet waited for: "ok", "fail"), "none" once it is taken out.  settle: how *)
(* far refresh_hls_job_state is, inside the child mutex, and by: the       *)
(* request it runs in, None when it is the job's own refresher task or the *)
(* sweep.  allow_software_fallback is mode = "hw", completed is code = 0.  *)
(***************************************************************************)
JobRecord == [key : Key, mode : Mode, child : {"none", "run", "ok", "fail"},
              exited : BOOLEAN, code : {UnknownCode, 0, 1}, permit : BOOLEAN,
              settle : {"no", "begun", "coded"}, by : Request \cup {None},
              idle : BOOLEAN]

Phase == {"idle", "lock", "found", "verdict", "evict", "start", "insert",
          "refused", "failed", "poll", "refresh", "check",
          "renderOwn", "renderJob"}

Idle == [pc |-> "idle", key |-> None, job |-> None, kind |-> None,
         fallback |-> FALSE]
RequestRecord == [pc : Phase, key : Key \cup {None}, job : Job \cup {None},
                  kind : {"playlist", "segment", None}, fallback : BOOLEAN]

PruneIdle == [pc |-> "idle", key |-> None, job |-> None]

NewJob(k, m) ==
  [key |-> k, mode |-> m, child |-> "run", exited |-> FALSE,
   code |-> UnknownCode, permit |-> TRUE, settle |-> "no", by |-> None,
   idle |-> FALSE]
FinishedJob(k, m) ==
  [NewJob(k, m) EXCEPT !.child = "none", !.exited = TRUE, !.code = 0,
                       !.permit = FALSE]
UnusedJob == FinishedJob(CHOOSE k \in Key : TRUE, "none")

TypeOK ==
  /\ map \in [Key -> Job \cup {None}]
  /\ job \in [Job -> JobRecord]
  /\ marker \subseteq Prefix
  /\ jobLock \in [Key -> Request \cup {None}]
  /\ req \in [Request -> RequestRecord]
  /\ pruner \in [pc : {"idle", "decide", "kill", "remove"},
                 key : Key \cup {None}, job : Job \cup {None}]

Fresh ==
  /\ map = [k \in Key |-> None]
  /\ job = [j \in Job |-> UnusedJob]
  /\ jobLock = [k \in Key |-> None]
  /\ req = [r \in Request |-> Idle]
  /\ pruner = PruneIdle

Init == Fresh /\ marker = {}
-----------------------------------------------------------------------------
PrefixOf(j) == <<job[j].key, job[j].mode>>
Mapped(j) == \E k \in Key : map[k] = j

\* Someone still holds a clone of the job's Arc, or its process is there.
Live(j) ==
  \/ Mapped(j)
  \/ \E r \in Request : req[r].job = j
  \/ pruner.job = j
  \/ job[j].child # "none" \/ job[j].settle # "no"

\* Mutant: a permit counts from the moment its job is in the map.
AvailableByMap ==
  MaxTranscodeJobs - Cardinality({j \in Job : job[j].permit /\ Mapped(j)})

(***************************************************************************)
(* The available permits of hls_job_permits.  A permit is part of its job: *)
(* release_hls_job_permit returns it, or the drop of the job's last Arc.   *)
(***************************************************************************)
Available ==
  MaxTranscodeJobs - Cardinality({j \in Job : job[j].permit /\ Live(j)})

\* A request that found its job keeps the Ref until ensure_..._locked returns.
HoldsRef(r) == req[r].pc \in {"found", "verdict", "evict"}

\* Mutant: a Ref does not keep a writer out.
ShardAlwaysFree(k) == k \in Key

\* The write lock of k's shard is free to take.
ShardFree(k) ==
  \A r \in Request : HoldsRef(r) => ShardOf[req[r].key] # ShardOf[k]

(***************************************************************************)
(* refresh_hls_job_state has nothing to record: nobody is inside the child *)
(* mutex, and the child is gone or running.  A caller who finds it exited  *)
(* records that first (Reap, Settle), itself or through the job's own      *)
(* refresher task.                                                         *)
(***************************************************************************)
Refreshed(j) == job[j].settle = "no" /\ job[j].child \in {"none", "run"}

\* r goes on to phase p; r is answered and its handler ends.
Goto(r, p) == req' = [req EXCEPT ![r].pc = p]
Answer(r) == req' = [req EXCEPT ![r] = Idle]

\* Mutant: the job lock's guard is not dropped on the way out.
EnsureReturnsLocked(r, j) ==
  /\ UNCHANGED jobLock
  /\ IF req[r].kind = "segment"
       THEN req' = [req EXCEPT ![r].pc = "poll", ![r].job = j]
       ELSE Answer(r)

\* ensure_hls_transcode_job_with_mode returns job j: its lock is released, a
\* segment request goes on to poll, a playlist request's task ends.
EnsureReturns(r, j) ==
  /\ jobLock' = [jobLock EXCEPT ![req[r].key] = None]
  /\ IF req[r].kind = "segment"
       THEN req' = [req EXCEPT ![r].pc = "poll", ![r].job = j]
       ELSE Answer(r)

\* It returns an error.  The wait loop's call (fallback) hands it on, the first
\* call of a segment request looks at it in phase p.
EnsureFails(r, p) ==
  /\ jobLock' = [jobLock EXCEPT ![req[r].key] = None]
  /\ IF req[r].kind = "segment" /\ ~req[r].fallback
       THEN Goto(r, p)
       ELSE Answer(r)
-----------------------------------------------------------------------------
(***************************************************************************)
(* Requests.  A playlist request spawns a task that ensures the job; so    *)
(* does a segment request, unless an on-demand rendering of the segment    *)
(* exists, which answers it at once and changes nothing here.              *)
(***************************************************************************)
Asking(k, kind) ==
  [pc |-> "lock", key |-> k, job |-> None, kind |-> kind, fallback |-> FALSE]

RequestPlaylist(r, k) ==
  /\ req[r].pc = "idle"
  /\ req' = [req EXCEPT ![r] = Asking(k, "playlist")]
  /\ UNCHANGED <<map, job, marker, jobLock, pruner>>

RequestSegment(r, k) ==
  /\ req[r].pc = "idle"
  /\ req' = [req EXCEPT ![r] = Asking(k, "segment")]
  /\ UNCHANGED <<map, job, marker, jobLock, pruner>>

\* Mutant: the job lock is not taken.
LockJobUnlocked(r) ==
  LET k == req[r].key IN
  /\ req[r].pc = "lock"
  /\ jobLock' = [jobLock EXCEPT ![k] = r]
  /\ req' = [req EXCEPT ![r].pc = IF map[k] = None THEN "start" ELSE "found",
                        ![r].job = map[k]]
  /\ UNCHANGED <<map, job, marker, pruner>>

\* The job lock is taken and the job looked up; a hit keeps the Ref.
LockJob(r) ==
  LET k == req[r].key IN
  /\ req[r].pc = "lock"
  /\ jobLock[k] = None
  /\ jobLock' = [jobLock EXCEPT ![k] = r]
  /\ req' = [req EXCEPT ![r].pc = IF map[k] = None THEN "start" ELSE "found",
                        ![r].job = map[k]]
  /\ UNCHANGED <<map, job, marker, pruner>>

RefreshFound(r) ==
  /\ req[r].pc = "found"
  /\ Refreshed(req[r].job)
  /\ Goto(r, "verdict")
  /\ UNCHANGED <<map, job, marker, jobLock, pruner>>

Touch(j) == job' = [job EXCEPT ![j].idle = FALSE]

\* A job that runs or has succeeded is handed to the caller.
ReuseJob(r) ==
  LET j == req[r].job IN
  /\ req[r].pc = "verdict"
  /\ ~job[j].exited \/ job[j].code = 0
  /\ Touch(j)
  /\ EnsureReturns(r, j)
  /\ UNCHANGED <<map, marker, pruner>>

(***************************************************************************)
(* A failed job is to be replaced: hls_jobs.remove(&job_key), while        *)
(* `existing`, the Ref, is alive.  The thread waits for the write lock of  *)
(* a shard it reads itself; what the code does after it never happens.     *)
(***************************************************************************)
EvictFailedJob(r) ==
  LET j == req[r].job IN
  /\ req[r].pc = "verdict"
  /\ job[j].exited /\ job[j].code # 0
  /\ Touch(j)
  /\ Goto(r, "evict")
  /\ UNCHANGED <<map, marker, jobLock, pruner>>
-----------------------------------------------------------------------------
(***************************************************************************)
(* start_hls_transcode_job, with no job in the map.  The mode is the       *)
(* runtime's preferred one, "none" when the wait loop asks for software.   *)
(***************************************************************************)
StartMode(r, m) ==
  /\ req[r].pc = "start"
  /\ m \in (IF req[r].fallback THEN {"none"} ELSE PreferredModes)

\* r holds the new job, which is still to be inserted.
Allocate(r, record) ==
  \E j \in Job :
    /\ ~Live(j)
    /\ job' = [job EXCEPT ![j] = record]
    /\ req' = [req EXCEPT ![r].pc = "insert", ![r].job = j]

\* The prefix was transcoded before, perhaps by an earlier process.
StartFromMarker(r, m) ==
  /\ StartMode(r, m)
  /\ <<req[r].key, m>> \in marker
  /\ Allocate(r, FinishedJob(req[r].key, m))
  /\ UNCHANGED <<map, marker, jobLock, pruner>>

\* Mutant: the completion marker is not looked at.
StartWorkAlways(r, m) == StartMode(r, m)

(***************************************************************************)
(* Otherwise the files an unfinished transcode left are removed, a permit  *)
(* is taken and ffmpeg is started.                                         *)
(***************************************************************************)
StartWork(r, m) ==
  /\ StartMode(r, m)
  /\ <<req[r].key, m>> \notin marker

StartTranscode(r, m) ==
  /\ StartWork(r, m)
  /\ Available > 0
  /\ Allocate(r, NewJob(req[r].key, m))
  /\ UNCHANGED <<map, marker, jobLock, pruner>>

\* 429: there is no permit.
StartRefused(r, m) ==
  /\ StartWork(r, m)
  /\ Available = 0
  /\ EnsureFails(r, "refused")
  /\ UNCHANGED <<map, job, marker, pruner>>

\* ffmpeg cannot be spawned; the permit is dropped again.
SpawnFails(r, m) ==
  /\ StartWork(r, m)
  /\ Available > 0
  /\ EnsureFails(r, "failed")
  /\ UNCHANGED <<map, job, marker, pruner>>

InsertJob(r) ==
  LET k == req[r].key IN
  /\ req[r].pc = "insert"
  /\ ShardFree(k)
  /\ map' = [map EXCEPT ![k] = req[r].job]
  /\ EnsureReturns(r, req[r].job)
  /\ UNCHANGED <<job, marker, pruner>>

(***************************************************************************)
(* A segment request whose ensure call failed, whatever the error, renders *)
(* on demand if no permit is available NOW; else the error is the answer.  *)
(***************************************************************************)
RenderWhenBusy(r) ==
  /\ req[r].pc \in {"refused", "failed"}
  /\ Available = 0
  /\ Goto(r, "renderOwn")
  /\ UNCHANGED <<map, job, marker, jobLock, pruner>>

AnswerRefused(r) ==
  /\ req[r].pc \in {"refused", "failed"}
  /\ Available > 0
  /\ Answer(r)
  /\ UNCHANGED <<map, job, marker, jobLock, pruner>>
-----------------------------------------------------------------------------
(***************************************************************************)
(* wait_for_hls_segment_from_job: poll for the file until the job has      *)
(* exited or the deadline has passed.                                      *)
(***************************************************************************)
PollHit(r) ==
  /\ req[r].pc = "poll"
  /\ Touch(req[r].job)
  /\ Answer(r)
  /\ UNCHANGED <<map, marker, jobLock, pruner>>

PollMiss(r) ==
  /\ req[r].pc = "poll"
  /\ Touch(req[r].job)
  /\ Goto(r, "refresh")
  /\ UNCHANGED <<map, marker, jobLock, pruner>>

PollRefresh(r) ==
  /\ req[r].pc = "refresh"
  /\ Refreshed(req[r].job)
  /\ Goto(r, "check")
  /\ UNCHANGED <<map, job, marker, jobLock, pruner>>

\* The job runs: sleep and poll again.
PollAgain(r) ==
  /\ req[r].pc = "check"
  /\ ~job[req[r].job].exited
  /\ Goto(r, "poll")
  /\ UNCHANGED <<map, job, marker, jobLock, pruner>>

\* It has succeeded and the file is not there: render it behind the prefix.
PollRender(r) ==
  /\ req[r].pc = "check"
  /\ job[req[r].job].exited /\ job[req[r].job].code = 0
  /\ Goto(r, "renderJob")
  /\ UNCHANGED <<map, job, marker, jobLock, pruner>>

\* A hardware transcode has failed: ensure a software one and wait for that.
PollFallback(r) ==
  LET j == req[r].job IN
  /\ req[r].pc = "check"
  /\ job[j].exited /\ job[j].code # 0
  /\ job[j].mode = "hw"
  /\ req' = [req EXCEPT ![r].pc = "lock", ![r].job = None,
                        ![r].fallback = TRUE]
  /\ UNCHANGED <<map, job, marker, jobLock, pruner>>

\* A software transcode has failed: 502.
PollFailed(r) ==
  LET j == req[r].job IN
  /\ req[r].pc = "check"
  /\ job[j].exited /\ job[j].code # 0
  /\ job[j].mode = "none"
  /\ Answer(r)
  /\ UNCHANGED <<map, job, marker, jobLock, pruner>>

PollDeadline(r) ==
  /\ req[r].pc = "poll"
  /\ Goto(r, "renderOwn")
  /\ UNCHANGED <<map, job, marker, jobLock, pruner>>

(***************************************************************************)
(* Rendering on demand writes the segment, behind the prefix of a finished *)
(* job or at a path of its own, or fails; either way the request ends.     *)
(***************************************************************************)
RenderOnDemand(r) ==
  /\ req[r].pc \in {"renderOwn", "renderJob"}
  /\ Answer(r)
  /\ UNCHANGED <<map, job, marker, jobLock, pruner>>

(***************************************************************************)
(* The client goes away: the handler's future is dropped where it awaits,  *)
(* with its lock guard and its Ref.  That may be between the flags and the *)
(* release of the permit, where refresh_hls_job_state writes the marker (a *)
(* write that goes on alone).  A playlist's task is spawned and goes on.   *)
(***************************************************************************)
Disconnect(r) ==
  /\ req[r].kind = "segment"
  /\ req[r].pc \in {"lock", "found", "start", "poll", "refresh",
                    "renderOwn", "renderJob"}
  /\ \A j \in Job : job[j].by = r => job[j].settle = "coded" /\ job[j].code = 0
  /\ job' = [j \in Job |->
               IF job[j].by = r
                 THEN [job[j] EXCEPT !.settle = "no", !.by = None]
                 ELSE job[j]]
  /\ jobLock' = [k \in Key |-> IF jobLock[k] = r THEN None ELSE jobLock[k]]
  /\ Answer(r)
  /\ UNCHANGED <<map, marker, pruner>>
-----------------------------------------------------------------------------
(***************************************************************************)
(* ffmpeg.                                                                 *)
(***************************************************************************)
FfmpegExits(j) ==
  /\ job[j].child = "run"
  /\ \E s \in {"ok", "fail"} : job' = [job EXCEPT ![j].child = s]
  /\ UNCHANGED <<map, marker, jobLock, req, pruner>>

(***************************************************************************)
(* refresh_hls_job_state finds the process exited.  Inside the child mutex *)
(* it stores exited, then the code, takes the child out and writes the     *)
(* marker, then releases the permit; readers of the flags take no lock.    *)
(***************************************************************************)
RefreshesIn(r, j) == req[r].pc \in {"found", "refresh"} /\ req[r].job = j

\* The job's own task is spawned after the insert.
Reap(j) ==
  /\ job[j].child \in {"ok", "fail"}
  /\ \A r \in Request : req[r].pc = "insert" => req[r].job # j
  /\ job[j].settle = "no"
  /\ \E b \in {r \in Request : RefreshesIn(r, j)} \cup {None} :
       job' = [job EXCEPT ![j].exited = TRUE, ![j].settle = "begun",
                          ![j].by = b]
  /\ UNCHANGED <<map, marker, jobLock, req, pruner>>

Coded(j) ==
  job' = [job EXCEPT ![j].child = "none", ![j].settle = "coded",
                     ![j].code = IF job[j].child = "ok" THEN 0 ELSE 1]

Settle(j) ==
  /\ job[j].settle = "begun"
  /\ Coded(j)
  /\ marker' = IF job[j].child = "ok" THEN marker \cup {PrefixOf(j)}
               ELSE marker
  /\ UNCHANGED <<map, jobLock, req, pruner>>

\* try_wait itself fails: the child is dropped, and killed with that.
WaitFails(j) ==
  /\ job[j].child # "none" /\ job[j].settle = "no"
  /\ \A r \in Request : req[r].pc = "insert" => req[r].job # j
  /\ job' = [job EXCEPT ![j].child = "none", ![j].exited = TRUE,
                        ![j].code = 1, ![j].permit = FALSE]
  /\ UNCHANGED <<map, marker, jobLock, req, pruner>>

ReleasePermit(j) ==
  /\ job[j].settle = "coded"
  /\ job' = [job EXCEPT ![j].permit = FALSE, ![j].settle = "no",
                        ![j].by = None]
  /\ UNCHANGED <<map, marker, jobLock, req, pruner>>

\* Nobody asks for the job for HLS_TRANSCODE_IDLE_MS.
TimePasses(j) ==
  /\ Mapped(j)
  /\ \A r \in Request :
       req[r].job = j => req[r].pc \notin {"found", "verdict", "poll",
                                           "refresh", "check"}
  /\ job' = [job EXCEPT ![j].idle = TRUE]
  /\ UNCHANGED <<map, marker, jobLock, req, pruner>>
-----------------------------------------------------------------------------
(***************************************************************************)
(* prune_idle_hls_jobs, for one key of its snapshot, then the files.       *)
(***************************************************************************)
PruneVisit(k) ==
  /\ pruner.pc = "idle"
  /\ map[k] # None
  /\ Refreshed(map[k])
  /\ pruner' = [pc |-> "decide", key |-> k, job |-> map[k]]
  /\ UNCHANGED <<map, job, marker, jobLock, req>>

\* Mutant: only finished jobs are dropped.
PruneDecideFinished ==
  LET j == pruner.job IN
  /\ pruner.pc = "decide"
  /\ pruner' = IF job[j].exited THEN [pruner EXCEPT !.pc = "kill"]
               ELSE PruneIdle
  /\ UNCHANGED <<map, job, marker, jobLock, req>>

\* Idle, or finished for HLS_SEGMENT_STALE_MS (any time after it has exited).
PruneDecide ==
  LET j == pruner.job IN
  /\ pruner.pc = "decide"
  /\ \/ /\ job[j].idle \/ (job[j].exited /\ job[j].settle = "no")
        /\ pruner' = [pruner EXCEPT !.pc = "kill"]
     \/ /\ ~job[j].idle
        /\ pruner' = PruneIdle
  /\ UNCHANGED <<map, job, marker, jobLock, req>>

\* Mutant: the entry is dropped, its ffmpeg is not killed.
PruneWithoutKill ==
  /\ pruner.pc = "kill"
  /\ pruner' = [pruner EXCEPT !.pc = "remove"]
  /\ UNCHANGED <<map, job, marker, jobLock, req>>

\* Mutant: the killed job keeps its permit.
PruneKillKeepsPermit ==
  LET j == pruner.job IN
  /\ pruner.pc = "kill"
  /\ job[j].settle = "no"
  /\ job' = IF job[j].child = "none" THEN job
            ELSE [job EXCEPT ![j].child = "none", ![j].exited = TRUE,
                             ![j].code = 1]
  /\ pruner' = [pruner EXCEPT !.pc = "remove"]
  /\ UNCHANGED <<map, marker, jobLock, req>>

\* Mutant: the verdict is stored whether or not there was a child to take.
PruneKillBlindly ==
  LET j == pruner.job IN
  /\ pruner.pc = "kill"
  /\ job[j].settle = "no"
  /\ job' = [job EXCEPT ![j].child = "none", ![j].exited = TRUE,
                        ![j].code = 1, ![j].permit = FALSE]
  /\ pruner' = [pruner EXCEPT !.pc = "remove"]
  /\ UNCHANGED <<map, marker, jobLock, req>>

\* The child is taken under the child mutex, killed and its permit released.
PruneKill ==
  LET j == pruner.job IN
  /\ pruner.pc = "kill"
  /\ job[j].settle = "no"
  /\ job' = IF job[j].child = "none" THEN job
            ELSE [job EXCEPT ![j].child = "none", ![j].exited = TRUE,
                             ![j].code = 1, ![j].permit = FALSE]
  /\ pruner' = [pruner EXCEPT !.pc = "remove"]
  /\ UNCHANGED <<map, marker, jobLock, req>>

\* The entry is removed by key, whatever job it holds by now.
PruneRemove ==
  /\ pruner.pc = "remove"
  /\ ShardFree(pruner.key)
  /\ map' = [map EXCEPT ![pruner.key] = None]
  /\ pruner' = PruneIdle
  /\ UNCHANGED <<job, marker, jobLock, req>>

\* prune_hls_cache_files: the marker is stale, or among the oldest of too many.
PruneFile(k, m) ==
  /\ marker' = marker \ {<<k, m>>}
  /\ UNCHANGED <<map, job, jobLock, req, pruner>>

\* The backend stops, its ffmpegs with it, and starts; the files are kept.
Restart ==
  /\ map' = [k \in Key |-> None]
  /\ job' = [j \in Job |-> UnusedJob]
  /\ jobLock' = [k \in Key |-> None]
  /\ req' = [r \in Request |-> Idle]
  /\ pruner' = PruneIdle
  /\ UNCHANGED marker
-----------------------------------------------------------------------------
EnsureStep(r) ==
  \/ LockJob(r) \/ RefreshFound(r) \/ ReuseJob(r) \/ EvictFailedJob(r)
  \/ \E m \in Mode :
       \/ StartFromMarker(r, m) \/ StartTranscode(r, m)
       \/ StartRefused(r, m) \/ SpawnFails(r, m)
  \/ InsertJob(r) \/ RenderWhenBusy(r) \/ AnswerRefused(r)

WaitStep(r) ==
  \/ PollHit(r) \/ PollMiss(r) \/ PollRefresh(r) \/ PollAgain(r)
  \/ PollRender(r) \/ PollFallback(r) \/ PollFailed(r) \/ PollDeadline(r)
  \/ RenderOnDemand(r)

RequestStep(r) == EnsureStep(r) \/ WaitStep(r)
Arrive(r) == \E k \in Key : RequestPlaylist(r, k) \/ RequestSegment(r, k)
JobStep(j) == FfmpegExits(j) \/ WaitFails(j) \/ TimePasses(j)
RefreshStep(j) == Reap(j) \/ Settle(j) \/ ReleasePermit(j)
PruneStep == PruneDecide \/ PruneKill \/ PruneRemove

Next ==
  \/ \E r \in Request : Arrive(r) \/ RequestStep(r) \/ Disconnect(r)
  \/ \E j \in Job : JobStep(j) \/ RefreshStep(j)
  \/ \E k \in Key : PruneVisit(k)
  \/ PruneStep
  \/ \E k \in Key, m \in Mode : PruneFile(k, m)
  \/ Restart

Spec == Init /\ [][Next]_vars

(***************************************************************************)
(* The tasks are scheduled, the job lock is FIFO, the sleeps end, and a    *)
(* writer of hls_jobs is assumed to find its shard free in the end.  The   *)
(* sweep, once a minute, goes over all keys.  Clients, ffmpeg and the      *)
(* clock owe nothing.                                                      *)
(***************************************************************************)
RequestFairness ==
  /\ \A r \in Request : SF_vars(RequestStep(r)) /\ SF_vars(PollDeadline(r))
  /\ \A j \in Job : WF_vars(RefreshStep(j))

SweepFairness ==
  /\ \A k \in Key : SF_vars(PruneVisit(k))
  /\ SF_vars(PruneStep)

RequestSpec == Spec /\ RequestFairness
FairSpec == RequestSpec /\ SweepFairness
-----------------------------------------------------------------------------
Process(j) == job[j].child # "none"
LockedPhases == {"found", "verdict", "evict", "start", "insert"}

(***************************************************************************)
(* The strengthening of the safety properties, part by part.               *)
(*                                                                         *)
(* LockHeld: a request is between the lock and its return exactly while it *)
(* holds the key's job lock.                                               *)
(***************************************************************************)
LockHeld ==
  \A r \in Request, k \in Key :
    jobLock[k] = r <=> (req[r].pc \in LockedPhases /\ req[r].key = k)

\* MapKeys: an entry of hls_jobs holds a job of its key.
MapKeys == \A k \in Key : map[k] # None => job[map[k]].key = k

(***************************************************************************)
(* LookupCurrent: what a request read from hls_jobs under the job lock is  *)
(* still so: its Ref pins the entry it found, and a start finds none.      *)
(***************************************************************************)
LookupCurrent ==
  \A r \in Request :
    /\ HoldsRef(r) => /\ req[r].job # None
                      /\ map[req[r].key] = req[r].job
    /\ req[r].pc \in {"start", "insert"} => map[req[r].key] = None
    /\ req[r].pc = "insert" => /\ req[r].job # None
                               /\ job[req[r].job].key = req[r].key
    /\ req[r].pc # "idle" => req[r].key # None
    /\ req[r].pc \in {"poll", "refresh", "check", "renderJob"} =>
         req[r].job # None

\* PrunerCurrent: the sweep's job is still the entry's, and dead once killed.
PrunerCurrent ==
  pruner.pc # "idle" =>
    /\ pruner.key # None /\ pruner.job # None
    /\ map[pruner.key] = pruner.job
    /\ pruner.pc = "remove" => ~Process(pruner.job)

(***************************************************************************)
(* Settling: what the child mutex protects.  A running job holds a permit, *)
(* and exited is stored exactly when its process is gone or being reaped.  *)
(***************************************************************************)
Settling ==
  \A j \in Job :
    /\ Process(j) => job[j].permit /\ job[j].code = UnknownCode
    /\ job[j].settle = "begun" => job[j].child \in {"ok", "fail"}
    /\ job[j].settle = "coded" => ~Process(j)
    /\ job[j].exited <=> (~Process(j) \/ job[j].settle = "begun")
    /\ ~Process(j) => job[j].code # UnknownCode

(***************************************************************************)
(* NoOrphan: an ffmpeg that runs belongs to a job that hls_jobs holds, or  *)
(* that the task that spawned it is about to insert; so the sweep can find *)
(* it.  An orphan would hold its permit and write until it ends by itself. *)
(***************************************************************************)
NoOrphan ==
  \A j \in Job : Process(j) =>
    \/ map[job[j].key] = j
    \/ \E r \in Request : req[r].pc = "insert" /\ req[r].job = j

(***************************************************************************)
(* OneTranscodePerKey: two ffmpegs never transcode the same source at the  *)
(* same time; in particular never write the same files.  It rests on the   *)
(* job lock, on the sweep killing before it removes, and on the Ref.       *)
(***************************************************************************)
OneTranscodePerKey ==
  \A i, j \in Job :
    Process(i) /\ Process(j) /\ job[i].key = job[j].key => i = j

(***************************************************************************)
(* MarkerHonest: behind a prefix marked complete nothing is being written, *)
(* so a start that trusts the marker never serves a transcode in progress. *)
(***************************************************************************)
MarkerHonest == \A j \in Job : Process(j) => PrefixOf(j) \notin marker

(***************************************************************************)
(* HlsInv: the inductive invariant behind the properties of this module.   *)
(* In words: what a request has looked up under the job lock, and the      *)
(* sweep without it, is still what hls_jobs holds, so nobody replaces a    *)
(* job that runs.                                                          *)
(***************************************************************************)
HlsInv ==
  /\ TypeOK /\ LockHeld /\ MapKeys /\ LookupCurrent /\ PrunerCurrent
  /\ Settling /\ NoOrphan /\ OneTranscodePerKey /\ MarkerHonest

\* CapacityRespected: HLS_MAX_TRANSCODE_JOBS bounds the ffmpegs that run.
CapacityRespected == Cardinality({j \in Job : Process(j)}) <= MaxTranscodeJobs

(***************************************************************************)
(* PermitAccounted: a permit is kept for a running ffmpeg or by a refresh  *)
(* that is about to release it.  The one exception is a client that goes   *)
(* away while its request writes a success down: that permit comes back    *)
(* only when the finished job is dropped.                                  *)
(***************************************************************************)
PermitAccounted ==
  \A j \in Job : job[j].permit /\ Live(j) =>
    \/ Process(j)
    \/ job[j].settle = "coded"
    \/ job[j].exited /\ job[j].code = 0

(***************************************************************************)
(* VerdictFinal: while a job is alive its exit code is stored once.  The   *)
(* sweep's kill and the refresh never overwrite each other's verdict.      *)
(***************************************************************************)
VerdictFinal ==
  [][\A j \in Job : Live(j) /\ Live(j)' /\ job[j].code # UnknownCode
                      => job'[j].code = job[j].code]_vars

\* A task asks for the write lock of a shard of hls_jobs.
WantsShard(r) == req[r].pc \in {"evict", "insert"}

\* A thread waits for the write lock of a shard that it reads itself.
Wedged == \E r \in Request : WantsShard(r) /\ HoldsRef(r)

(***************************************************************************)
(* RequestEnds: every playlist task and every segment request comes to its *)
(* end: locks are released, poll loops end, nobody waits for ever.  Unless *)
(* a thread has deadlocked on hls_jobs (see NoSelfDeadlock).               *)
(***************************************************************************)
RequestEnds ==
  \A r \in Request : req[r].pc # "idle" ~> (req[r].pc = "idle" \/ Wedged)

\* IdleKilled: an ffmpeg that nobody asks for any more is killed by the sweep.
IdleKilled ==
  \A j \in Job :
    Process(j) /\ job[j].idle ~> (~Process(j) \/ ~job[j].idle \/ Wedged)

(***************************************************************************)
(* NoSelfDeadlock: no task asks for the write lock of a shard of a DashMap *)
(* whose read lock it holds, as the comment at tmdb.rs:238 demands of      *)
(* every use of one.                                                       *)
(***************************************************************************)
NoSelfDeadlock == ~Wedged
=============================================================================
