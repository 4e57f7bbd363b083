---------------------------- MODULE SegmentRender ----------------------------
(***************************************************************************)
(* render_hls_segment_on_demand of streaming.rs: one ffmpeg renders one    *)
(* HLS segment to a partial file beside the segment's path, which is then  *)
(* renamed into place.  The path's segment lock and one of MaxRenders      *)
(* permits are held meanwhile; waiting for a permit, and ffmpeg, have a    *)
(* timeout.  The caller may go away at any await.                          *)
(*                                                                         *)
(* A path belongs to on-demand renders alone, or (JobPath) lies behind the *)
(* output prefix of a background transcode, whose ffmpeg writes segments   *)
(* in place and whose start removes what is behind the prefix.  tokio::fs  *)
(* runs a rename or a removal on a thread that goes on when the handler    *)
(* that awaits it is dropped.  The segment lock is as in KeyMutex.         *)
(***************************************************************************)
EXTENDS Integers, FiniteSets

CONSTANTS
  Path,        \* segment paths
  JobPath,     \* those behind the prefix of a background transcode
  Call,        \* concurrent calls of render_hls_segment_on_demand
  Preferred,   \* encode modes a render may begin with: {"hw"}, {"none"}, both
  MaxRenders,  \* HLS_MAX_SEGMENT_RENDERS
  None

ASSUME SegmentAssumption ==
  /\ JobPath \subseteq Path
  /\ Preferred \subseteq {"hw", "none"}
  /\ MaxRenders \in Nat \ {0}
  /\ IsFiniteSet(Call)
  /\ None \notin Path \cup Call \cup {"seg", "part"}

VARIABLES
  file,    \* file[<<p, "seg">>], file[<<p, "part">>]: what is at the names
  lock,    \* lock[p]: the call inside the segment lock of p, or None
  call,    \* the calls
  late,    \* paths with a rename that goes on without the call that asked
  doomed,  \* names whose removal is on its way
  left     \* history: paths with a rename that was left to go on

vars == <<file, lock, call, late, doomed, left>>

Name == Path \X {"seg", "part"}
Seg(p) == <<p, "seg">>
Part(p) == <<p, "part">>
Content == {"none", "short", "whole"}
Phase == {"idle", "lock", "queue", "ffmpeg", "check", "rename", "remove"}

\* at: the name of the file this call's ffmpeg writes, None when it has none.
CallRecord == [pc : Phase, path : Path \cup {None}, mode : {"hw", "none"},
               at : {"seg", "part", None}]
Idle == [pc |-> "idle", path |-> None, mode |-> "none", at |-> None]

TypeOK ==
  /\ file \in [Name -> Content]
  /\ lock \in [Path -> Call \cup {None}]
  /\ call \in [Call -> CallRecord]
  /\ late \subseteq Path
  /\ doomed \subseteq Name
  /\ left \subseteq Path

Init ==
  /\ file = [n \in Name |-> "none"]
  /\ lock = [p \in Path |-> None]
  /\ call = [c \in Call |-> Idle]
  /\ late = {} /\ doomed = {} /\ left = {}
-----------------------------------------------------------------------------
Running(c) == call[c].pc = "ffmpeg"

\* A permit is kept by the HlsSegmentRenderGuard until the call ends.
Permitted(c) == call[c].pc \in {"ffmpeg", "check", "rename", "remove"}
Available == MaxRenders - Cardinality({c \in Call : Permitted(c)})

Goto(c, p) == call' = [call EXCEPT ![c].pc = p]

\* The call returns, or is dropped: so are its guards, and its ffmpeg dies.
Ends(c) ==
  /\ call' = [call EXCEPT ![c] = Idle]
  /\ lock' = [p \in Path |-> IF lock[p] = c THEN None ELSE lock[p]]

\* Whoever writes the file at name n of p is left with no name for it.
Unlinked(p, n) ==
  [c \in Call |-> IF call[c].path = p /\ call[c].at = n
                    THEN [call[c] EXCEPT !.at = None] ELSE call[c]]

\* File::create of the partial file: what is there is cut to nothing.
CreatePartial(c, m) ==
  /\ file' = [file EXCEPT ![Part(call[c].path)] = "short"]
  /\ call' = [call EXCEPT ![c].pc = "ffmpeg", ![c].mode = m, ![c].at = "part"]
-----------------------------------------------------------------------------
BeginRender(c, p) ==
  /\ call[c].pc = "idle"
  /\ call' = [call EXCEPT ![c].pc = "lock", ![c].path = p]
  /\ UNCHANGED <<file, lock, late, doomed, left>>

\* Mutant: the segment lock keeps nobody out.
LockSegmentUnlocked(c) ==
  LET p == call[c].path IN
  /\ call[c].pc = "lock"
  /\ file[Seg(p)] = "none"
  /\ lock' = [lock EXCEPT ![p] = c]
  /\ Goto(c, "queue")
  /\ UNCHANGED <<file, late, doomed, left>>

\* Mutant: the path is not looked at again once the lock is taken.
LockSegmentUnchecked(c) ==
  LET p == call[c].path IN
  /\ call[c].pc = "lock" /\ lock[p] = None
  /\ lock' = [lock EXCEPT ![p] = c]
  /\ Goto(c, "queue")
  /\ UNCHANGED <<file, late, doomed, left>>

LockSegment(c) ==
  LET p == call[c].path IN
  /\ call[c].pc = "lock" /\ lock[p] = None
  /\ file[Seg(p)] = "none"
  /\ lock' = [lock EXCEPT ![p] = c]
  /\ Goto(c, "queue")
  /\ UNCHANGED <<file, late, doomed, left>>

\* Somebody has rendered the segment by now: it is the answer.
FindSegment(c) ==
  LET p == call[c].path IN
  /\ call[c].pc = "lock" /\ lock[p] = None
  /\ file[Seg(p)] # "none"
  /\ Ends(c)
  /\ UNCHANGED <<file, late, doomed, left>>

StartRender(c, m) ==
  /\ call[c].pc = "queue"
  /\ Available > 0 /\ m \in Preferred
  /\ CreatePartial(c, m)
  /\ UNCHANGED <<lock, late, doomed, left>>

\* 429: no permit within HLS_SEGMENT_QUEUE_TIMEOUT_MS.
QueueTimeout(c) ==
  /\ call[c].pc = "queue"
  /\ Ends(c)
  /\ UNCHANGED <<file, late, doomed, left>>

\* ffmpeg succeeds: the file it writes, wherever it is by now, is complete.
RenderDone(c) ==
  /\ Running(c)
  /\ file' = IF call[c].at = None THEN file
             ELSE [file EXCEPT ![<<call[c].path, call[c].at>>] = "whole"]
  /\ call' = [call EXCEPT ![c].pc = "check", ![c].at = None]
  /\ UNCHANGED <<lock, late, doomed, left>>

\* Mutant: the software render's failure is not looked at.
FailUnnoticed(c) ==
  /\ Running(c) /\ call[c].mode = "none"
  /\ call' = [call EXCEPT ![c].pc = "check", ![c].at = None]
  /\ UNCHANGED <<file, lock, late, doomed, left>>

\* ffmpeg fails, cannot be started, or is killed after 20 s.
RenderFails(c) ==
  /\ Running(c) /\ call[c].mode = "none"
  /\ call' = [call EXCEPT ![c].pc = "remove", ![c].at = None]
  /\ UNCHANGED <<file, lock, late, doomed, left>>

\* Mutant: the second attempt is like the first.
RetryAsBefore(c) ==
  /\ Running(c) /\ call[c].mode = "hw"
  /\ CreatePartial(c, "hw")
  /\ UNCHANGED <<lock, late, doomed, left>>

\* A hardware encode is tried again in software, into the same partial file.
RetrySoftware(c) ==
  /\ Running(c) /\ call[c].mode = "hw"
  /\ CreatePartial(c, "none")
  /\ UNCHANGED <<lock, late, doomed, left>>

\* The partial file is there and not empty; or it is not, or it is empty.
CheckPartial(c) ==
  /\ call[c].pc = "check"
  /\ \/ file[Part(call[c].path)] # "none" /\ Goto(c, "rename")
     \/ Goto(c, "remove")
  /\ UNCHANGED <<file, lock, late, doomed, left>>

RemovePartial(c) ==
  LET p == call[c].path IN
  /\ call[c].pc = "remove"
  /\ file' = [file EXCEPT ![Part(p)] = "none"]
  /\ Ends(c)
  /\ UNCHANGED <<late, doomed, left>>

\* What the names of p are after its partial file, if any, was renamed.
Renamed(p) ==
  IF file[Part(p)] = "none" THEN file
  ELSE [file EXCEPT ![Seg(p)] = file[Part(p)], ![Part(p)] = "none"]

\* 500 if the partial file has gone meanwhile.
RenameSegment(c) ==
  /\ call[c].pc = "rename"
  /\ file' = Renamed(call[c].path)
  /\ Ends(c)
  /\ UNCHANGED <<late, doomed, left>>
-----------------------------------------------------------------------------
(***************************************************************************)
(* The caller goes away.  ffmpeg is killed (kill_on_drop), the partial     *)
(* file stays; a rename or a removal that was asked for goes on.           *)
(***************************************************************************)
Disconnect(c) ==
  LET p == call[c].path IN
  /\ call[c].pc # "idle"
  /\ IF call[c].pc = "rename"
       THEN late' = late \cup {p} /\ left' = left \cup ({p} \ JobPath)
       ELSE UNCHANGED <<late, left>>
  /\ doomed' = IF call[c].pc = "remove" /\ p \notin JobPath
                 THEN doomed \cup {Part(p)} ELSE doomed
  /\ Ends(c)
  /\ UNCHANGED file

\* The rename of nobody: whoever writes the partial file by then writes on.
\* (Of several on their way at one path the model keeps one.)
LateRename(p) ==
  /\ p \in late
  /\ late' = late \ {p}
  /\ file' = Renamed(p)
  /\ call' = IF file[Part(p)] = "none" THEN call
             ELSE [d \in Call |->
                     IF call[d].path = p /\ call[d].at # None
                       THEN [call[d] EXCEPT
                               !.at = IF @ = "part" THEN "seg" ELSE None]
                       ELSE call[d]]
  /\ UNCHANGED <<lock, doomed, left>>

\* prune_hls_cache_files lists a file six hours old; nobody writes it.
ListStale(n) ==
  /\ file[n] # "none" /\ n[1] \notin JobPath
  /\ \A c \in Call : call[c].path = n[1] => call[c].at # n[2]
  /\ doomed' = doomed \cup {n}
  /\ UNCHANGED <<file, lock, call, late, left>>

Remove(n) ==
  /\ file' = [file EXCEPT ![n] = "none"]
  /\ call' = Unlinked(n[1], n[2])

RemoveListed(n) ==
  /\ n \in doomed
  /\ doomed' = doomed \ {n}
  /\ Remove(n)
  /\ UNCHANGED <<lock, late, left>>

\* A transcode is about to start: remove_incomplete_hls_outputs.  (A removal
\* behind its prefix may come at any time, so those are not listed first.)
RemoveIncomplete(n) ==
  /\ file[n] # "none" /\ n[1] \in JobPath
  /\ Remove(n)
  /\ UNCHANGED <<lock, late, doomed, left>>

\* The background transcode writes a segment in place.  (When it is complete
\* is not followed: no call here depends on it.)
TranscodeWrites(p) ==
  /\ file[Seg(p)] = "none"
  /\ file' = [file EXCEPT ![Seg(p)] = "short"]
  /\ UNCHANGED <<lock, call, late, doomed, left>>

\* The backend stops, its ffmpegs with it, and starts; files are kept.
Restart ==
  /\ lock' = [p \in Path |-> None]
  /\ call' = [c \in Call |-> Idle]
  /\ late' = {} /\ doomed' = {}
  /\ UNCHANGED <<file, left>>

FfmpegEnds(c) == RenderDone(c) \/ RenderFails(c) \/ RetrySoftware(c)
Queue(c) == QueueTimeout(c) \/ \E m \in {"hw", "none"} : StartRender(c, m)
Publish(c) == CheckPartial(c) \/ RemovePartial(c) \/ RenameSegment(c)
Enter(c) == LockSegment(c) \/ FindSegment(c)
CallStep(c) == Enter(c) \/ Queue(c) \/ FfmpegEnds(c) \/ Publish(c)

Next ==
  \/ \E c \in Call : CallStep(c) \/ Disconnect(c)
  \/ \E c \in Call, p \in Path : BeginRender(c, p)
  \/ \E p \in late : LateRename(p)
  \/ \E n \in Name : ListStale(n) \/ RemoveListed(n) \/ RemoveIncomplete(n)
  \/ \E p \in JobPath : TranscodeWrites(p)
  \/ Restart

Spec == Init /\ [][Next]_vars

(***************************************************************************)
(* The timers run out (the queue's, and the 20 s of ffmpeg), file system   *)
(* calls return and the segment lock is FIFO.  Nothing is asked of permits,*)
(* of ffmpeg, of clients or of the sweep.                                  *)
(***************************************************************************)
Fairness == \A c \in Call : SF_vars(CallStep(c))

FairSpec == Spec /\ Fairness
-----------------------------------------------------------------------------
Inside == {"queue", "ffmpeg", "check", "rename", "remove"}

\* LockHeld: a call is inside the segment lock while it renders its path.
LockHeld ==
  \A c \in Call, p \in Path :
    lock[p] = c <=> (call[c].pc \in Inside /\ call[c].path = p)

CallOK ==
  \A c \in Call :
    /\ call[c].pc = "idle" <=> call[c].path = None
    /\ call[c].at # None => Running(c)

\* Disturbed: other than this module's calls write to p's names.
Disturbed(p) == p \in JobPath \/ p \in left

(***************************************************************************)
(* HolderAlone: at an undisturbed path there is no segment while a call is *)
(* inside the lock; its ffmpeg writes the partial file, or one removed     *)
(* from under it; and a partial file nobody writes any more, which is what *)
(* it will rename, is the complete one that it made itself.                *)
(***************************************************************************)
HolderAlone ==
  \A c \in Call :
    call[c].pc \in Inside /\ ~Disturbed(call[c].path) =>
      /\ file[Seg(call[c].path)] = "none"
      /\ call[c].at # "seg"
      /\ call[c].pc \in {"ffmpeg", "check", "rename"} /\ call[c].at = None =>
           file[Part(call[c].path)] # "short"

LateLeft == \A p \in late : Disturbed(p)

(***************************************************************************)
(* SegmentWhole: what lies at an on-demand segment's path is a complete    *)
(* segment (get_or_create_hls_segment serves any file it finds there, to   *)
(* be cached for an hour), however renders are cut off, time out and are   *)
(* retried.  Not so once a dropped call has left a rename behind, which    *)
(* may move the partial file of the next render.                           *)
(***************************************************************************)
SegmentWhole ==
  \A p \in Path : ~Disturbed(p) => file[Seg(p)] # "short"

SegmentInv ==
  /\ TypeOK /\ LockHeld /\ CallOK /\ HolderAlone /\ LateLeft /\ SegmentWhole

(***************************************************************************)
(* OneRenderPerPath: two ffmpegs never write the same partial file.        *)
(***************************************************************************)
OneRenderPerPath ==
  \A c, d \in Call :
    Running(c) /\ Running(d) /\ call[c].path = call[d].path => c = d

(***************************************************************************)
(* NoWastedRender: no ffmpeg is started for a segment that is there, and   *)
(* none renders one while another call publishes it: whoever waited for    *)
(* the lock is answered with the first call's segment.                     *)
(***************************************************************************)
NoWastedRender ==
  [][\A c \in Call :
       Running(c)' /\ ~Running(c) /\ ~Disturbed(call[c].path) =>
         file[Seg(call[c].path)] = "none"]_vars

(***************************************************************************)
(* RenderEnds: every call ends, though ffmpeg may hang and permits may     *)
(* never come free: no call waits for ever behind another's segment lock.  *)
(***************************************************************************)
RenderEnds == \A c \in Call : call[c].pc # "idle" ~> call[c].pc = "idle"
=============================================================================
