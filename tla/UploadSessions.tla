--------------------------- MODULE UploadSessions ---------------------------
(***************************************************************************)
(* The chunked uploads of upload.rs: a session collects chunks in one      *)
(* temporary file, under the session's chunk_lock; finishing it removes    *)
(* the session, checks the byte count and turns the file into a video of   *)
(* the local library; a sweep drops sessions six hours old.                *)
(*                                                                         *)
(* A file is an inode: its name may be removed or renamed while an append  *)
(* still holds it open.  Its content is a sequence of units (frames of a   *)
(* request body), each named by the request that wrote it; a request is    *)
(* one call and sends a chunk once.  Session ids are never reused.  The    *)
(* library is updated in one step (see LocalLibrary).                      *)
(*                                                                         *)
(* tokio hands a file operation to a thread of its own.  When the handler  *)
(* is dropped meanwhile, the operation goes on, outside the chunk lock.    *)
(***************************************************************************)
EXTENDS Naturals, Sequences, FiniteSets

CONSTANTS
  Session,    \* session ids
  Request,    \* calls of append_chunk and finish_session
  File,       \* inodes
  MaxChunk,   \* UPLOAD_SESSION_CHUNK_MAX_BYTES, in units
  MaxUpload,  \* max_upload_bytes, in units
  Declared,   \* the sizes a client may declare; None when it does not
  None

ASSUME UploadAssumption ==
  /\ IsFiniteSet(Request)
  /\ MaxChunk \in Nat \ {0} /\ MaxUpload \in Nat \ {0}
  /\ Declared \subseteq 1..MaxUpload \cup {None} /\ Declared # {}
  /\ None \notin Session \cup Request \cup File \cup Nat

VARIABLES
  session,    \* sessions: [received, stale], or None
  declared,   \* declared[s]: expected_bytes of s; 0 before it is started
  chunkLock,  \* chunkLock[s]: the append inside the chunk lock of s, or None
  temp,       \* temp[s]: the file at the temp_path of s, or None
  video,      \* video[s]: the file under videos/ made from s, or None
  content,    \* content[f]: the units in file f
  library,    \* the sessions whose video has an entry in the library
  req,        \* the calls
  spoiled,    \* history: a call was cut off, or outrun, while it wrote to s
  overtaken   \* history: an append to s began before the write or set_len of
              \* a call cut off was over

vars == <<session, declared, chunkLock, temp, video, content, library, req,
          spoiled, overtaken>>

Fresh == [pc |-> "new", s |-> None, prev |-> 0, fd |-> None, initial |-> 0,
          written |-> 0, ok |-> FALSE]
Phase == {"new", "lock", "open", "write", "trim", "move", "library", "done",
          "late_open", "late_write", "late_cut"}
Late == {"late_open", "late_write", "late_cut"}

TypeOK ==
  /\ session \in [Session -> [received : 0..MaxUpload, stale : BOOLEAN]
                               \cup {None}]
  /\ declared \in [Session -> Declared \cup {0}]
  /\ chunkLock \in [Session -> Request \cup {None}]
  /\ temp \in [Session -> File \cup {None}]
  /\ video \in [Session -> File \cup {None}]
  /\ content \in [File -> Seq(Request \cup {None})]
  /\ library \cup spoiled \cup overtaken \subseteq Session
  /\ req \in [Request -> [pc : Phase, s : Session \cup {None},
                          prev : 0..MaxUpload, fd : File \cup {None},
                          initial : Nat, written : 0..MaxChunk, ok : BOOLEAN]]

Init ==
  /\ session = [s \in Session |-> None]
  /\ declared = [s \in Session |-> 0]
  /\ chunkLock = [s \in Session |-> None]
  /\ temp = [s \in Session |-> None]
  /\ video = [s \in Session |-> None]
  /\ content = [f \in File |-> <<>>]
  /\ library = {} /\ spoiled = {} /\ overtaken = {}
  /\ req = [r \in Request |-> Fresh]
-----------------------------------------------------------------------------
\* No name and no open descriptor leads to f.
Free(f) ==
  /\ \A s \in Session : temp[s] # f /\ video[s] # f
  /\ \A r \in Request : req[r].fd # f

\* set_len cuts the file short, or pads it with zeros.
SetLen(f, n) ==
  [content EXCEPT ![f] =
     [i \in 1..n |-> IF i <= Len(content[f]) THEN content[f][i] ELSE None]]

\* sweep_sessions removes what is stale; every call begins with it.
Stale(s) == session[s] # None /\ session[s].stale
Swept == [s \in Session |-> IF Stale(s) THEN None ELSE session[s]]
SweptTemp == [s \in Session |-> IF Stale(s) THEN None ELSE temp[s]]

Unlock(r) ==
  chunkLock' = [s \in Session |-> IF chunkLock[s] = r THEN None ELSE chunkLock[s]]

\* r's call ends, ok or not; an append lets go of file and chunk lock.
Return(r, ok) ==
  /\ req' = [req EXCEPT ![r].pc = "done", ![r].fd = None, ![r].ok = ok]
  /\ Unlock(r)
-----------------------------------------------------------------------------
StartSession(s, size) ==
  /\ declared[s] = 0
  /\ declared' = [declared EXCEPT ![s] = size]
  /\ session' = [Swept EXCEPT ![s] = [received |-> 0, stale |-> FALSE]]
  /\ temp' = SweptTemp
  /\ UNCHANGED <<chunkLock, video, content, library, req, spoiled, overtaken>>

\* append_chunk looks the session up, for its path and its lock.
BeginAppend(r, s) ==
  /\ req[r].pc = "new"
  /\ session' = Swept /\ temp' = SweptTemp
  /\ req' = [req EXCEPT ![r].s = s,
                        ![r].pc = IF Swept[s] = None THEN "done" ELSE "lock"]
  /\ UNCHANGED <<declared, chunkLock, video, content, library, spoiled, overtaken>>

\* Another append to s comes before what was cut off is over.
Overtakes(s) ==
  overtaken' =
    IF \E q \in Request : req[q].s = s /\ req[q].pc \in {"late_write", "late_cut"}
    THEN overtaken \cup {s} ELSE overtaken

\* Mutant: the chunk lock keeps nobody out.
LockChunkUnlocked(r) ==
  LET s == req[r].s IN
  /\ req[r].pc = "lock" /\ session[s] # None
  /\ chunkLock' = [chunkLock EXCEPT ![s] = r]
  /\ req' = [req EXCEPT ![r].pc = "open", ![r].prev = session[s].received]
  /\ Overtakes(s)
  /\ UNCHANGED <<session, declared, temp, video, content, library, spoiled>>

\* The total is read again under the lock; the session may be gone by then.
LockChunk(r) ==
  LET s == req[r].s IN
  /\ req[r].pc = "lock" /\ chunkLock[s] = None
  /\ \/ /\ session[s] # None
        /\ chunkLock' = [chunkLock EXCEPT ![s] = r]
        /\ req' = [req EXCEPT ![r].pc = "open",
                              ![r].prev = session[s].received]
        /\ Overtakes(s)
     \/ session[s] = None /\ Return(r, FALSE) /\ UNCHANGED overtaken
  /\ UNCHANGED <<session, declared, temp, video, content, library, spoiled>>

\* The file at the path is opened, and created there if it is missing.
Opens(s, f) ==
  /\ IF temp[s] = None THEN Free(f) ELSE f = temp[s]
  /\ temp' = [temp EXCEPT ![s] = f]
  /\ content' = IF temp[s] = None THEN [content EXCEPT ![f] = <<>>] ELSE content

OpenTemp(r) ==
  /\ req[r].pc = "open"
  /\ \E f \in File :
       /\ Opens(req[r].s, f)
       /\ req' = [req EXCEPT ![r].pc = "write", ![r].fd = f,
                             ![r].initial = Len(content'[f])]
  /\ UNCHANGED <<session, declared, chunkLock, video, library, spoiled, overtaken>>

WriteFrame(r) ==
  /\ req[r].pc = "write" /\ req[r].written < MaxChunk
  /\ content' = [content EXCEPT ![req[r].fd] = Append(@, r)]
  /\ req' = [req EXCEPT ![r].written = @ + 1]
  /\ UNCHANGED <<session, declared, chunkLock, temp, video, library, spoiled, overtaken>>

\* Mutant: what a failed chunk wrote stays in the file.
RejectKeepingBytes(r) ==
  /\ req[r].pc = "write"
  /\ Return(r, FALSE)
  /\ UNCHANGED <<session, declared, temp, video, content, library, spoiled, overtaken>>

\* Mutant: a failed chunk takes the whole file with it.
RejectRemovingFile(r) ==
  /\ req[r].pc = "write"
  /\ temp' = [temp EXCEPT ![req[r].s] = None]
  /\ Return(r, FALSE)
  /\ UNCHANGED <<session, declared, video, content, library, spoiled, overtaken>>

\* The body breaks, is too long or empty, or a write fails: roll back.
RejectChunk(r) ==
  /\ req[r].pc = "write"
  /\ content' = SetLen(req[r].fd, req[r].initial)
  /\ Return(r, FALSE)
  /\ UNCHANGED <<session, declared, temp, video, library, spoiled, overtaken>>

\* The chunk is in the file; it is counted if the session still is there.
CountChunk(r) ==
  LET s == req[r].s
      total == req[r].prev + req[r].written
  IN
  /\ req[r].pc = "write" /\ req[r].written > 0 /\ total <= MaxUpload
  /\ \/ /\ session[s] # None
        /\ session' = [session EXCEPT ![s].received = total]
        /\ Return(r, TRUE)
     \/ session[s] = None /\ Return(r, FALSE) /\ UNCHANGED session
  /\ UNCHANGED <<declared, temp, video, content, library, spoiled, overtaken>>

\* The upload would pass its limit: the file, by its name, is cut back.
OverLimit(r) ==
  /\ req[r].pc = "write" /\ req[r].prev + req[r].written > MaxUpload
  /\ req' = [req EXCEPT ![r].pc = "trim", ![r].fd = None]
  /\ UNCHANGED <<session, declared, chunkLock, temp, video, content, library,
                 spoiled, overtaken>>

TrimUpload(r) ==
  LET f == temp[req[r].s] IN
  /\ req[r].pc = "trim"
  /\ content' = IF f = None THEN content ELSE SetLen(f, req[r].prev)
  /\ Return(r, FALSE)
  /\ UNCHANGED <<session, declared, temp, video, library, spoiled, overtaken>>
-----------------------------------------------------------------------------
\* Mutant: the bytes received are not compared with the size declared.
CompleteAnyway(s) == Swept[s] # None /\ session[s].received > 0

\* The session is there, has received something, and all that was declared.
Complete(s) ==
  /\ Swept[s] # None
  /\ session[s].received > 0
  /\ declared[s] \in {None, session[s].received}

\* An append is past its look at the session, and may yet write.
Writing(s) ==
  chunkLock[s] # None /\ req[chunkLock[s]].pc \in {"open", "write", "trim"}

\* finish_session takes the session out, without the chunk lock.
BeginFinish(r, s) ==
  /\ req[r].pc = "new"
  /\ session' = [Swept EXCEPT ![s] = None]
  /\ \/ /\ Complete(s)
        /\ req' = [req EXCEPT ![r].s = s, ![r].pc = "move"]
        /\ temp' = SweptTemp
        /\ spoiled' = IF Writing(s) THEN spoiled \cup {s} ELSE spoiled
     \/ /\ ~Complete(s)
        /\ req' = [req EXCEPT ![r].s = s, ![r].pc = "done"]
        /\ temp' = IF Swept[s] = None THEN SweptTemp
                   ELSE [SweptTemp EXCEPT ![s] = None]
        /\ UNCHANGED spoiled
  /\ UNCHANGED <<declared, chunkLock, video, content, library, overtaken>>

\* An .mp4 is renamed into videos/.
MoveVideo(r) ==
  LET s == req[r].s IN
  /\ req[r].pc = "move" /\ temp[s] # None
  /\ video' = [video EXCEPT ![s] = temp[s]]
  /\ temp' = [temp EXCEPT ![s] = None]
  /\ req' = [req EXCEPT ![r].pc = "library"]
  /\ UNCHANGED <<session, declared, chunkLock, content, library, spoiled, overtaken>>

\* videos/ gets a new file with what is in f.
CopyVideo(s, f) ==
  \E g \in File :
    /\ Free(g)
    /\ content' = [content EXCEPT ![g] = content[f]]
    /\ video' = [video EXCEPT ![s] = g]

\* An .mkv is converted, and its file removed.
ConvertVideo(r) ==
  LET s == req[r].s IN
  /\ req[r].pc = "move" /\ temp[s] # None
  /\ CopyVideo(s, temp[s])
  /\ temp' = [temp EXCEPT ![s] = None]
  /\ req' = [req EXCEPT ![r].pc = "library"]
  /\ UNCHANGED <<session, declared, chunkLock, library, spoiled, overtaken>>

\* The audio is re-encoded, or one track kept, in a new file.
ReencodeVideo(r) ==
  /\ req[r].pc = "library"
  /\ CopyVideo(req[r].s, video[req[r].s])
  /\ UNCHANGED <<session, declared, chunkLock, temp, library, req, spoiled, overtaken>>

AddEntry(r) ==
  /\ req[r].pc = "library"
  /\ library' = library \cup {req[r].s}
  /\ Return(r, TRUE)
  /\ UNCHANGED <<session, declared, temp, video, content, spoiled, overtaken>>

\* Processing fails, here or there; what is at temp_path is removed.
FinishFails(r) ==
  /\ req[r].pc \in {"move", "library"}
  /\ temp' = [temp EXCEPT ![req[r].s] = None]
  /\ Return(r, FALSE)
  /\ UNCHANGED <<session, declared, video, content, library, spoiled, overtaken>>
-----------------------------------------------------------------------------
\* The write, the rollback or the set_len r's call may be at goes on without
\* it; an open does, to make the file.
Unfinished(r) ==
  CASE req[r].pc = "open" -> {[req[r] EXCEPT !.pc = "late_open"]}
    [] req[r].pc = "write" ->
         {[req[r] EXCEPT !.pc = p] :
            p \in {"late_cut"} \cup (IF req[r].written < MaxChunk THEN {"late_write"} ELSE {})}
    [] req[r].pc = "trim" /\ temp[req[r].s] # None ->
         {[req[r] EXCEPT !.pc = "late_cut", !.fd = temp[req[r].s], !.initial = req[r].prev]}
    [] OTHER -> {}

(***************************************************************************)
(* The client goes away and the handler's future is dropped where it       *)
(* awaits: no rollback, no count.  (hyper drops it when it sees the end of *)
(* the connection after the last byte of the body, or a stream reset.)     *)
(***************************************************************************)
Disconnect(r) ==
  /\ req[r].pc \notin {"new", "done"} \cup Late
  /\ \E call \in Unfinished(r) \cup {[req[r] EXCEPT !.pc = "done", !.fd = None]} :
       /\ req' = [req EXCEPT ![r] = call]
       /\ spoiled' = IF \/ call.pc \in {"late_write", "late_cut"}
                        \/ req[r].pc \in {"write", "trim"} /\ req[r].written > 0
                     THEN spoiled \cup {req[r].s} ELSE spoiled
  /\ Unlock(r)
  /\ UNCHANGED <<session, declared, temp, video, content, library, overtaken>>

\* What was cut off is over.
Over(r) == req' = [req EXCEPT ![r].pc = "done", ![r].fd = None]

LateOpen(r) ==
  /\ req[r].pc = "late_open"
  /\ \E f \in File : Opens(req[r].s, f)
  /\ Over(r)
  /\ UNCHANGED <<session, declared, chunkLock, video, library, spoiled, overtaken>>

\* The file was opened to append: the bytes come at its end, wherever that is.
LateWrite(r) ==
  /\ req[r].pc = "late_write"
  /\ content' = [content EXCEPT ![req[r].fd] = Append(@, r)]
  /\ Over(r)
  /\ UNCHANGED <<session, declared, chunkLock, temp, video, library, spoiled, overtaken>>

\* Whatever was appended meanwhile is cut off, too.
LateCut(r) ==
  /\ req[r].pc = "late_cut"
  /\ content' = SetLen(req[r].fd, req[r].initial)
  /\ Over(r)
  /\ UNCHANGED <<session, declared, chunkLock, temp, video, library, spoiled, overtaken>>

TimePasses(s) ==
  /\ session[s] # None
  /\ session' = [session EXCEPT ![s].stale = TRUE]
  /\ UNCHANGED <<declared, chunkLock, temp, video, content, library, req,
                 spoiled, overtaken>>

\* The sweep the backend runs once a minute.
Sweep ==
  /\ session' = Swept /\ temp' = SweptTemp
  /\ UNCHANGED <<declared, chunkLock, video, content, library, req, spoiled, overtaken>>

\* Sessions are kept in memory only.
Restart ==
  /\ session' = [s \in Session |-> None]
  /\ chunkLock' = [s \in Session |-> None]
  /\ req' = [r \in Request |-> IF req[r].pc \in {"new", "done"} THEN req[r]
                               ELSE [req[r] EXCEPT !.pc = "done", !.fd = None]]
  /\ UNCHANGED <<declared, temp, video, content, library, spoiled, overtaken>>

AppendStep(r) ==
  \/ LockChunk(r) \/ OpenTemp(r) \/ WriteFrame(r) \/ RejectChunk(r)
  \/ CountChunk(r) \/ OverLimit(r) \/ TrimUpload(r)
FinishStep(r) ==
  \/ MoveVideo(r) \/ ConvertVideo(r) \/ ReencodeVideo(r) \/ AddEntry(r)
  \/ FinishFails(r)

LateStep(r) == LateOpen(r) \/ LateWrite(r) \/ LateCut(r)

Next ==
  \/ \E s \in Session, size \in Declared : StartSession(s, size)
  \/ \E r \in Request, s \in Session : BeginAppend(r, s) \/ BeginFinish(r, s)
  \/ \E r \in Request :
       AppendStep(r) \/ FinishStep(r) \/ Disconnect(r) \/ LateStep(r)
  \/ \E s \in Session : TimePasses(s)
  \/ Sweep
  \/ Restart

Spec == Init /\ [][Next]_vars
-----------------------------------------------------------------------------
Acked(s) == {r \in Request : req[r].s = s /\ req[r].ok /\ req[r].written > 0}
Units(r, f) == Cardinality({i \in DOMAIN content[f] : content[f][i] = r})
Length(s) == IF temp[s] = None THEN 0 ELSE Len(content[temp[s]])

\* LockHeld: a call is between lock and return while it is inside the lock.
LockHeld ==
  \A r \in Request, s \in Session :
    chunkLock[s] = r <=> /\ req[r].s = s
                         /\ req[r].pc \in {"open", "write", "trim"}

(***************************************************************************)
(* CountedStored: whatever fails, the bytes a session counts are in its    *)
(* file, unless a set_len whose call was cut off takes those of the next   *)
(* append with it; and what a call inside the lock read of the count is    *)
(* still so.                                                               *)
(***************************************************************************)
CountedStored ==
  \A s \in Session : session[s] # None =>
    /\ s \notin overtaken => Length(s) >= session[s].received
    /\ chunkLock[s] # None => req[chunkLock[s]].prev = session[s].received

\* The units of the chunks that were answered with success.
AckedUnits(s) ==
  {u \in Request \X (1..MaxChunk) : u[1] \in Acked(s) /\ u[2] <= req[u[1]].written}

\* received_bytes is their number.
CountsAcked ==
  \A s \in Session : session[s] # None =>
    session[s].received = Cardinality(AckedUnits(s))

ChunksContiguous ==
  \A f \in File, r \in Request : req[r].s \notin overtaken =>
    \A i, k \in DOMAIN content[f] :
      content[f][i] = r /\ content[f][k] = r =>
        \A j \in i..k : content[f][j] = r

(***************************************************************************)
(* AppendsSerial: chunks sent at the same time do not mix in a file, and   *)
(* none loses another's update of received_bytes; unless a write whose     *)
(* call was cut off comes after the next append has begun.                 *)
(***************************************************************************)
AppendsSerial == CountsAcked /\ ChunksContiguous

(***************************************************************************)
(* UploadInv: the session's count, its file and the answers of the appends *)
(* agree, whoever fails, is cut off or comes at the same time; but see     *)
(* above for what a call cut off may still do to the next.                 *)
(***************************************************************************)
UploadInv == TypeOK /\ LockHeld /\ CountedStored /\ AppendsSerial

(***************************************************************************)
(* PublishedExact: a video the library lists holds the chunks that were    *)
(* answered with success, whole, nothing of the failed ones, and as much   *)
(* was declared; unless a call was cut off or outrun while it wrote: then  *)
(* the file has bytes that nobody counted.                                 *)
(***************************************************************************)
PublishedExact ==
  \A s \in library \ spoiled :
    /\ declared[s] \in {None, Len(content[video[s]])}
    /\ \A r \in Request :
         Units(r, video[s]) = IF r \in Acked(s) THEN req[r].written ELSE 0
=============================================================================
