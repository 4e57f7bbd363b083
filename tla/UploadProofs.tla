---------------------------- MODULE UploadProofs ----------------------------
(***************************************************************************)
(* What upload.rs keeps, for any number of calls, sessions, films and      *)
(* files: the gallery saves and direct uploads, and the chunked sessions.  *)
(***************************************************************************)
EXTENDS UploadSessions, GallerySaves, FiniteSetTheorems, TLAPS

(***************************************************************************)
(* UploadInv, the chunked sessions.                                        *)
(* Begun: an id is in use from StartSession on.  Unwritten: a call that    *)
(* has not opened the file has written nothing, and none is answered       *)
(* before it ends.  TakenOut: a finish owns what it took out.  OwnFile:    *)
(* a file has one temp_path, and the descriptors to it belong to calls of  *)
(* the same session.  Appending: what a call has written since it opened   *)
(* the file is the end of that file, and comes after what is counted.      *)
(* OneWriter: a call cut off that still writes has the file to itself, or  *)
(* the session is known to be overtaken.                                   *)
(***************************************************************************)
InLock == {"open", "write", "trim"}
LateOnFile == {"late_write", "late_cut"}

Begun ==
  /\ \A s \in Session : session[s] # None => declared[s] # 0
  /\ \A r \in Request :
       /\ req[r].pc # "new" => req[r].s \in Session
       /\ req[r].pc \notin {"new", "done"} \/ req[r].ok => declared[req[r].s] # 0
Unwritten ==
  \A r \in Request :
    /\ req[r].pc # "done" => ~req[r].ok
    /\ req[r].pc \in {"new", "lock", "open"} =>
         \A f \in File : \A i \in DOMAIN content[f] : content[f][i] # r
    /\ req[r].pc \in {"new", "lock", "open", "move", "library"} => req[r].written = 0
TakenOut ==
  \A r \in Request :
    /\ req[r].pc \in {"move", "library"} => session[req[r].s] = None
    /\ req[r].pc = "library" => video[req[r].s] # None
OwnFile ==
  /\ \A s, t \in Session : temp[s] # None /\ temp[s] = temp[t] => s = t
  /\ \A r \in Request, t \in Session :
       req[r].fd # None /\ req[r].fd = temp[t] => t = req[r].s
  /\ \A r, q \in Request : req[r].fd # None /\ req[r].fd = req[q].fd => req[r].s = req[q].s
\* What r wrote since it opened the file is the end of it.
AtEnd(r) ==
  /\ Len(content[req[r].fd]) = req[r].initial + req[r].written
  /\ \A i \in DOMAIN content[req[r].fd] : content[req[r].fd][i] = r <=> i > req[r].initial
\* r writes to the file of its session, and after what that counts.
AfterCounted(r) ==
  session[req[r].s] # None =>
    temp[req[r].s] = req[r].fd /\ req[r].initial >= session[req[r].s].received
Appending ==
  \A r \in Request :
    /\ req[r].fd # None <=> req[r].pc \in {"write"} \cup LateOnFile
    /\ req[r].fd # None /\ req[r].s \notin overtaken => AfterCounted(r)
    /\ req[r].pc \in {"write", "late_write"} /\ req[r].s \notin overtaken => AtEnd(r)
OneWriter ==
  \A r, q \in Request :
    req[r].pc \in LateOnFile /\ req[q].pc \in InLock \cup LateOnFile /\ req[r].s = req[q].s =>
      r = q \/ req[r].s \in overtaken
Stored == UploadInv /\ Begun /\ Unwritten /\ TakenOut /\ OwnFile /\ Appending
UploadIInv == Stored /\ OneWriter

Calls == [pc : Phase, s : Session \cup {None}, prev : 0..MaxUpload,
          fd : File \cup {None}, initial : Nat, written : 0..MaxChunk,
          ok : BOOLEAN]
Sessions == [received : 0..MaxUpload, stale : BOOLEAN]

LEMMA Phases ==
  /\ "new" \in Phase /\ "lock" \in Phase /\ "open" \in Phase /\ "write" \in Phase
  /\ "trim" \in Phase /\ "move" \in Phase /\ "library" \in Phase /\ "done" \in Phase
  /\ "late_open" \in Phase /\ "late_write" \in Phase /\ "late_cut" \in Phase
BY DEF Phase

LEMMA CallRecord ==
  ASSUME NEW P, NEW S, NEW V, NEW F, NEW I, NEW W, NEW B,
         NEW x \in [pc : P, s : S, prev : V, fd : F, initial : I, written : W, ok : B]
  PROVE  /\ \A p \in P :
              [x EXCEPT !.pc = p] \in
                [pc : P, s : S, prev : V, fd : F, initial : I, written : W, ok : B]
         /\ \A p \in P, f \in F, b \in B :
              [x EXCEPT !.pc = p, !.fd = f, !.ok = b] \in
                [pc : P, s : S, prev : V, fd : F, initial : I, written : W, ok : B]
         /\ \A p \in P, v \in V :
              [x EXCEPT !.pc = p, !.prev = v] \in
                [pc : P, s : S, prev : V, fd : F, initial : I, written : W, ok : B]
         /\ \A p \in P, s \in S :
              [x EXCEPT !.s = s, !.pc = p] \in
                [pc : P, s : S, prev : V, fd : F, initial : I, written : W, ok : B]
         /\ \A p \in P, f \in F, i \in I :
              [x EXCEPT !.pc = p, !.fd = f, !.initial = i] \in
                [pc : P, s : S, prev : V, fd : F, initial : I, written : W, ok : B]
         /\ \A p \in P, f \in F :
              [x EXCEPT !.pc = p, !.fd = f] \in
                [pc : P, s : S, prev : V, fd : F, initial : I, written : W, ok : B]
OBVIOUS

LEMMA UploadIInvInit == Init => UploadIInv
<1> SUFFICES ASSUME Init PROVE UploadIInv
  OBVIOUS
<1>1. \A r \in Request : req[r] = Fresh
  BY DEF Init
<1>2. Fresh \in Calls
  BY UploadAssumption, Phases DEF Fresh, Calls
<1>3. TypeOK
  BY <1>2, UploadAssumption DEF Init, TypeOK, Calls
<1>4. \A s \in Session : session[s] = None /\ temp[s] = None /\ chunkLock[s] = None
  BY DEF Init
<1>5. \A f \in File : content[f] = <<>>
  BY DEF Init
<1>6. LockHeld /\ CountedStored /\ CountsAcked
  BY <1>1, <1>4, UploadAssumption DEF LockHeld, CountedStored, CountsAcked, Fresh
<1>7. ChunksContiguous /\ Begun /\ Unwritten /\ TakenOut /\ OwnFile /\ Appending /\ OneWriter
  BY <1>1, <1>4, <1>5
     DEF ChunksContiguous, Begun, Unwritten, TakenOut, OwnFile, Appending, OneWriter, LateOnFile, Fresh
<1>8. QED
  BY <1>3, <1>6, <1>7 DEF UploadIInv, Stored, UploadInv, AppendsSerial

\* Nothing but OpenTemp gives a file a name or a descriptor.
LEMMA OwnFileKept ==
  ASSUME OwnFile,
         \A t \in Session : temp'[t] = None \/ temp'[t] = temp[t],
         \A q \in Request : req'[q].fd = None
                            \/ (req'[q].fd = req[q].fd /\ req'[q].s = req[q].s)
  PROVE  OwnFile'
BY DEF OwnFile

\* What was answered stays so; a new answer to a call that wrote nothing adds no unit.
LEMMA AckedKept ==
  ASSUME \A q \in Request :
           \/ /\ req'[q].s = req[q].s /\ req'[q].ok = req[q].ok
              /\ req'[q].written = req[q].written
           \/ ~req[q].ok /\ ~req'[q].ok
           \/ req[q].written = 0 /\ req'[q].written = 0
  PROVE  \A s : AckedUnits(s)' = AckedUnits(s)
<1> TAKE s
<1>1. \A q \in Request : q \in Acked(s)' <=> q \in Acked(s)
  BY DEF Acked
<1>2. \A q \in Request : q \in Acked(s) => req'[q].written = req[q].written
  BY DEF Acked
<1>3. \A u \in Request \X (1..MaxChunk) : u[1] \in Request
  OBVIOUS
<1>4. QED
  BY <1>1, <1>2, <1>3 DEF AckedUnits

\* A session that is left alone counts what it counted.
LEMMA CountsKept ==
  ASSUME CountsAcked, \A s : AckedUnits(s)' = AckedUnits(s),
         \A t \in Session : session'[t] # None =>
           session[t] # None /\ session'[t].received = session[t].received
  PROVE  CountsAcked'
BY DEF CountsAcked

\* The others' place in the lock.
LEMMA LockKept ==
  ASSUME TypeOK, LockHeld, NEW r \in Request,
         req[r].pc \notin {"open", "write", "trim"} \/ req'[r].s = req[r].s,
         \A q \in Request \ {r} : req'[q] = req[q],
         \/ /\ chunkLock' = chunkLock
            /\ req[r].pc \in {"open", "write", "trim"} <=> req'[r].pc \in {"open", "write", "trim"}
         \/ /\ req'[r].pc \notin {"open", "write", "trim"}
            /\ \A t \in Session : chunkLock'[t] = IF chunkLock[t] = r THEN None ELSE chunkLock[t]
  PROVE  LockHeld'
BY UploadAssumption DEF LockHeld, TypeOK


\* Steps that take sessions out, or none, and may let a new call begin.
LEMMA SweepStep ==
  ASSUME UploadIInv, UNCHANGED <<declared, chunkLock, video, content, library, overtaken>>,
         spoiled' \subseteq Session,
         session' \in [Session -> Sessions \cup {None}],
         temp' \in [Session -> File \cup {None}], req' \in [Request -> Calls],
         \A t \in Session :
           \/ session'[t] = None /\ temp'[t] \in {None, temp[t]}
           \/ /\ session[t] # None /\ session'[t].received = session[t].received
              /\ temp'[t] = temp[t],
         \A q \in Request :
           \/ req'[q] = req[q]
           \/ /\ req[q].pc = "new" /\ req'[q].fd = req[q].fd /\ ~req'[q].ok
              /\ req'[q].written = req[q].written /\ req'[q].s \in Session
              /\ \/ req'[q].pc = "done"
                 \/ req'[q].pc = "lock" /\ declared[req'[q].s] # 0
                 \/ /\ req'[q].pc = "move" /\ declared[req'[q].s] # 0
                    /\ session'[req'[q].s] = None
  PROVE  Stored'
<1> USE DEF UploadIInv, Stored, UploadInv, AppendsSerial
<1>1. \A q \in Request : req[q].pc = "new" => req[q].fd = None /\ ~req[q].ok
  BY DEF Appending, Unwritten, LateOnFile
<1>2. TypeOK'
  BY DEF TypeOK, Calls, Sessions
<1>3. LockHeld'
  <2>1. \A q \in Request :
          LET In == req[q].pc \in {"open", "write", "trim"}
          IN  (req'[q].pc \in {"open", "write", "trim"} <=> In) /\ (In => req'[q].s = req[q].s)
    OBVIOUS
  <2>2. QED
    BY <2>1 DEF LockHeld
<1>4. CountedStored'
  <2>1. \A s \in Session, q \in Request : chunkLock[s] = q => req'[q] = req[q]
    BY DEF LockHeld
  <2>2. QED
    BY <2>1 DEF CountedStored, Length, TypeOK
<1>5. CountsAcked' /\ ChunksContiguous'
  <2>1. \A s : AckedUnits(s)' = AckedUnits(s)
    BY <1>1, AckedKept
  <2>2. CountsAcked'
    BY <2>1, CountsKept
  <2>3. \A q \in Request : req'[q].s = req[q].s \/ \A f \in File : \A i \in DOMAIN content[f] : content[f][i] # q
    BY DEF Unwritten
  <2>4. ChunksContiguous'
    BY <2>3 DEF ChunksContiguous
  <2>5. QED
    BY <2>2, <2>4
<1>6. Begun'
  BY DEF Begun
<1>7. Unwritten'
  BY DEF Unwritten
<1>8. TakenOut'
  <2>1. \A q \in Request : req[q].pc \in {"move", "library"} => session'[req[q].s] = None
    BY DEF TakenOut, Begun
  <2>2. QED
    BY <2>1 DEF TakenOut
<1>9. OwnFile'
  BY <1>1, OwnFileKept
<1>10. Appending'
  <2>1. ASSUME NEW q \in Request, req[q].fd # None, AfterCounted(q) PROVE AfterCounted(q)'
    <3>1. req'[q] = req[q] /\ req[q].s \in Session
      BY <1>1, <2>1 DEF Begun, Appending, LateOnFile
    <3>2. QED
      BY <2>1, <3>1 DEF AfterCounted
  <2>2. ASSUME NEW q \in Request, req[q].fd # None, AtEnd(q) PROVE AtEnd(q)'
    BY <1>1, <2>2 DEF AtEnd
  <2>3. \A q \in Request : req'[q] = req[q] \/ (req'[q].fd = None /\ req'[q].pc \in {"lock", "done", "move"})
    BY <1>1
  <2>4. QED
    BY <2>1, <2>2, <2>3 DEF Appending, LateOnFile
<1>11. QED
  BY <1>2, <1>3, <1>4, <1>5, <1>6, <1>7, <1>8, <1>9, <1>10

\* A call that ends, with nothing new to count.
LEMMA ReturnStep ==
  ASSUME UploadIInv, UNCHANGED <<session, declared, video, overtaken>>,
         library' \subseteq Session, spoiled' \subseteq Session,
         NEW r \in Request, NEW ok \in BOOLEAN, Return(r, ok),
         req[r].pc \notin {"new", "done"}, ok => req[r].written = 0,
         temp' \in [Session -> File \cup {None}],
         content' \in [File -> Seq(Request \cup {None})],
         \A t \in Session : temp'[t] = temp[t] \/ (temp'[t] = None /\ session[t] = None),
         \A f \in File :
           \/ content'[f] = content[f]
           \/ /\ \A q \in Request \ {r} : req[q].fd = f => req[q].s \in overtaken
              /\ \A t \in Session : session[t] # None /\ temp[t] = f =>
                   t \in overtaken \/ Len(content'[f]) >= session[t].received
              /\ \A i \in DOMAIN content'[f] :
                   content'[f][i] = IF i \in DOMAIN content[f] THEN content[f][i] ELSE None
  PROVE  Stored'
<1> USE DEF UploadIInv, Stored, UploadInv, AppendsSerial
<1>1. /\ req' \in [Request -> Calls]
      /\ req'[r].pc = "done" /\ req'[r].fd = None /\ req'[r].ok = ok
      /\ req'[r].s = req[r].s /\ req'[r].written = req[r].written /\ req'[r].prev = req[r].prev
      /\ \A q \in Request \ {r} : req'[q] = req[q]
  <2> DEFINE x == [req[r] EXCEPT !.pc = "done", !.fd = None, !.ok = ok]
  <2>1. req \in [Request -> Calls]
    BY DEF TypeOK, Calls
  <2>2. /\ x.pc = "done" /\ x.fd = None /\ x.ok = ok
        /\ x.s = req[r].s /\ x.written = req[r].written /\ x.prev = req[r].prev
    BY <2>1 DEF Calls
  <2>5. x \in Calls
    <3>1. req[r] \in Calls /\ "done" \in Phase /\ None \in File \cup {None}
      BY <2>1, Phases
    <3>2. QED
      BY ONLY <3>1, ok \in BOOLEAN, CallRecord DEF Calls
  <2>3. req' = [req EXCEPT ![r] = x]
    BY <2>1 DEF Return, Calls
  <2>4. QED
    BY <2>1, <2>2, <2>3, <2>5
<1>2. /\ \A t \in Session : chunkLock'[t] = IF chunkLock[t] = r THEN None ELSE chunkLock[t]
      /\ chunkLock' \in [Session -> Request \cup {None}]
  BY DEF Return, Unlock, TypeOK
<1>3. ~req[r].ok
  BY DEF Unwritten
<1>4. TypeOK'
  BY <1>1, <1>2 DEF TypeOK, Calls
<1>5. LockHeld'
  BY <1>1, <1>2, LockKept
<1>6. CountedStored'
  <2>1. \A s \in Session : session[s] # None /\ s \notin overtaken =>
          Length(s)' >= session[s].received
    BY DEF CountedStored, Length, TypeOK
  <2>2. \A s \in Session : chunkLock'[s] # None =>
          chunkLock'[s] = chunkLock[s] /\ req'[chunkLock[s]] = req[chunkLock[s]]
    BY <1>1, <1>2 DEF TypeOK
  <2>3. QED
    BY <2>1, <2>2 DEF CountedStored
<1>7. CountsAcked'
  <2>1. \A s : AckedUnits(s)' = AckedUnits(s)
    BY <1>1, <1>3, AckedKept
  <2>2. QED
    BY <2>1, CountsKept
<1>8. ChunksContiguous'
  <2> SUFFICES ASSUME NEW f \in File, NEW q \in Request, req'[q].s \notin overtaken,
                      NEW i \in DOMAIN content'[f], NEW k \in DOMAIN content'[f],
                      content'[f][i] = q, content'[f][k] = q, NEW j \in i..k
               PROVE  content'[f][j] = q
    BY DEF ChunksContiguous
  <2>1. content[f][i] = q /\ content[f][k] = q /\ i \in DOMAIN content[f] /\ k \in DOMAIN content[f]
    BY UploadAssumption
  <2>0. req[q].s \notin overtaken
    BY <1>1
  <2>2. content[f][j] = q /\ j \in DOMAIN content[f] /\ j \in DOMAIN content'[f]
    BY <2>0, <2>1 DEF ChunksContiguous, TypeOK
  <2>3. QED
    BY <2>2
<1>9. Begun'
  BY <1>1 DEF Begun
<1>10. Unwritten'
  <2>1. \A q \in Request \ {r}, f \in File :
          (\A i \in DOMAIN content[f] : content[f][i] # q)
            => \A i \in DOMAIN content'[f] : content'[f][i] # q
    BY UploadAssumption
  <2>2. \A q \in Request \ {r} : req'[q].pc \in {"new", "lock", "open"} =>
          \A f \in File : \A i \in DOMAIN content'[f] : content'[f][i] # q
    BY <1>1, <2>1 DEF Unwritten
  <2>3. QED
    BY <1>1, <2>2 DEF Unwritten
<1>11. TakenOut'
  BY <1>1 DEF TakenOut
<1>12. OwnFile'
  BY <1>1, OwnFileKept
<1>13. Appending'
  <2>1. ASSUME NEW q \in Request \ {r}, req[q].fd # None
        PROVE  /\ req[q].s \in Session /\ req[q].fd \in File
               /\ req[q].s \notin overtaken => content'[req[q].fd] = content[req[q].fd]
               /\ session[req[q].s] # None => temp'[req[q].s] = temp[req[q].s]
    <3>1. req[q].s \in Session /\ req[q].fd \in File
      BY <2>1 DEF Appending, LateOnFile, TypeOK, Begun
    <3>2. QED
      BY <3>1
  <2>2. ASSUME NEW q \in Request \ {r}, req[q].fd # None, req[q].s \notin overtaken
        PROVE  (AfterCounted(q) => AfterCounted(q)') /\ (AtEnd(q) => AtEnd(q)')
    BY <1>1, <2>1, <2>2 DEF AfterCounted, AtEnd
  <2>3. /\ req'[r].fd = None /\ req'[r].pc = "done"
        /\ \A q \in Request \ {r} : req'[q] = req[q]
    BY <1>1
  <2>4. QED
    BY <2>2, <2>3 DEF Appending, LateOnFile
<1>14. QED
  BY <1>4, <1>5, <1>6, <1>7, <1>8, <1>9, <1>10, <1>11, <1>12, <1>13

\* finish_session gives what it took out a file under videos/.
LEMMA FilmStep ==
  ASSUME UploadIInv, UNCHANGED <<session, declared, chunkLock, library, spoiled, overtaken>>,
         NEW r \in Request, req[r].pc \in {"move", "library"},
         req' = [req EXCEPT ![r].pc = "library"],
         temp' = [temp EXCEPT ![req[r].s] = None] \/ temp' = temp,
         NEW g \in File, video' = [video EXCEPT ![req[r].s] = g],
         NEW f \in File,
         content' = content \/ (Free(g) /\ content' = [content EXCEPT ![g] = content[f]])
  PROVE  Stored'
<1> USE DEF UploadIInv, Stored, UploadInv, AppendsSerial
<1>1. /\ req' \in [Request -> Calls]
      /\ req'[r].pc = "library" /\ req'[r].fd = req[r].fd /\ req'[r].ok = req[r].ok
      /\ req'[r].s = req[r].s /\ req'[r].written = req[r].written /\ req'[r].prev = req[r].prev
      /\ \A q \in Request \ {r} : req'[q] = req[q]
  <2> DEFINE x == [req[r] EXCEPT !.pc = "library"]
  <2>1. req \in [Request -> Calls]
    BY DEF TypeOK, Calls
  <2>2. /\ x \in Calls /\ x.pc = "library" /\ x.fd = req[r].fd /\ x.ok = req[r].ok
        /\ x.s = req[r].s /\ x.written = req[r].written /\ x.prev = req[r].prev
    BY <2>1, Phases DEF Calls
  <2>3. req' = [req EXCEPT ![r] = x]
    BY <2>1 DEF Calls
  <2>4. QED
    BY <2>1, <2>2, <2>3
<1>2. /\ req[r].s \in Session /\ session[req[r].s] = None /\ req[r].fd = None
      /\ video'[req[r].s] # None
  BY UploadAssumption DEF Begun, TakenOut, Appending, LateOnFile, TypeOK
<1>3. /\ temp' \in [Session -> File \cup {None}] /\ video' \in [Session -> File \cup {None}]
      /\ \A t \in Session : temp'[t] = temp[t] \/ (t = req[r].s /\ temp'[t] = None)
      /\ \A t \in Session : video'[t] = video[t] \/ video'[t] # None
      /\ content' \in [File -> Seq(Request \cup {None})]
      /\ \A e \in File :
           \/ content'[e] = content[e]
           \/ content'[e] = content[f] /\ (\A t \in Session : temp[t] # e)
                /\ (\A q \in Request : req[q].fd # e)
  <2>1. temp \in [Session -> File \cup {None}] /\ video \in [Session -> File \cup {None}]
        /\ content \in [File -> Seq(Request \cup {None})]
    BY DEF TypeOK
  <2>2. /\ temp' \in [Session -> File \cup {None}] /\ video' \in [Session -> File \cup {None}]
        /\ \A t \in Session : temp'[t] = temp[t] \/ (t = req[r].s /\ temp'[t] = None)
        /\ \A t \in Session : video'[t] = video[t] \/ video'[t] # None
    BY <1>2, <2>1, UploadAssumption
  <2>3. content' \in [File -> Seq(Request \cup {None})]
    BY <2>1
  <2>4. ASSUME NEW e \in File
        PROVE  \/ content'[e] = content[e]
               \/ content'[e] = content[f] /\ (\A t \in Session : temp[t] # e)
                    /\ (\A q \in Request : req[q].fd # e)
    BY <2>1 DEF Free
  <2>5. QED
    BY <2>2, <2>3, <2>4
<1>4. TypeOK'
  BY <1>1, <1>3 DEF TypeOK, Calls
<1>5. LockHeld'
  BY <1>1, LockKept
<1>6. CountedStored'
  <2>1. \A s \in Session : session[s] # None => Length(s)' = Length(s)
    BY <1>2, <1>3 DEF Length, TypeOK
  <2>2. \A s \in Session : chunkLock[s] # None => req'[chunkLock[s]].prev = req[chunkLock[s]].prev
    BY <1>1 DEF TypeOK
  <2>3. QED
    BY <2>1, <2>2 DEF CountedStored
<1>7. CountsAcked'
  <2>1. \A s : AckedUnits(s)' = AckedUnits(s)
    BY <1>1, AckedKept
  <2>2. QED
    BY <2>1, CountsKept
<1>8. ChunksContiguous' /\ Begun' /\ TakenOut'
  BY <1>1, <1>2, <1>3, SMTT(30) DEF ChunksContiguous, Begun, TakenOut
<1>9. Unwritten'
  BY <1>1, <1>2, <1>3 DEF Unwritten
<1>10. OwnFile'
  BY <1>1, <1>3, OwnFileKept
<1>11. Appending'
  <2>1. ASSUME NEW q \in Request, req[q].fd # None
        PROVE  /\ q # r /\ req[q].s \in Session /\ content'[req[q].fd] = content[req[q].fd]
               /\ session[req[q].s] # None => temp'[req[q].s] = temp[req[q].s]
    <3>1. q # r /\ req[q].s \in Session /\ req[q].fd \in File
      BY <1>2, <2>1 DEF Appending, LateOnFile, TypeOK, Begun
    <3>2. QED
      BY <1>2, <1>3, <3>1
  <2>2. ASSUME NEW q \in Request, req[q].fd # None
        PROVE  (AfterCounted(q) => AfterCounted(q)') /\ (AtEnd(q) => AtEnd(q)')
    BY <1>1, <2>1, <2>2 DEF AfterCounted, AtEnd
  <2>3. req'[r].fd = None /\ req'[r].pc = "library" /\ \A q \in Request \ {r} : req'[q] = req[q]
    BY <1>1, <1>2
  <2>4. QED
    BY <2>2, <2>3 DEF Appending, LateOnFile
<1>12. QED
  BY <1>4, <1>5, <1>6, <1>7, <1>8, <1>9, <1>10, <1>11

LEMMA StartStep ==
  ASSUME UploadIInv, NEW s \in Session, NEW size \in Declared, StartSession(s, size)
  PROVE  Stored'
<1> USE DEF UploadIInv, Stored, UploadInv, AppendsSerial
<1>1. /\ declared[s] = 0 /\ declared'[s] = size /\ size # 0
      /\ UNCHANGED <<chunkLock, video, content, library, req, spoiled, overtaken>>
      /\ \A t \in Session \ {s} : declared'[t] = declared[t]
  BY UploadAssumption DEF StartSession, TypeOK
<1>2. /\ session' \in [Session -> Sessions \cup {None}] /\ session'[s].received = 0
      /\ temp' \in [Session -> File \cup {None}]
      /\ declared' \in [Session -> Declared \cup {0}]
      /\ \A t \in Session \ {s} : session'[t] \in {None, session[t]}
      /\ \A t \in Session : temp'[t] \in {None, temp[t]}
      /\ \A t \in Session \ {s} : session'[t] # None => temp'[t] = temp[t]
  BY UploadAssumption DEF StartSession, TypeOK, Swept, SweptTemp, Stale, Sessions
<1>3. \A q \in Request : ~(req[q].pc \notin {"new", "done"} /\ req[q].s = s)
  BY <1>1 DEF Begun
<1>4. TypeOK'
  BY <1>1, <1>2 DEF TypeOK, Sessions
<1>5. LockHeld'
  BY <1>1 DEF LockHeld
<1>6. CountedStored'
  <2>1. chunkLock[s] = None
    <3>1. chunkLock[s] \in Request \cup {None}
      BY DEF TypeOK
    <3>2. ASSUME NEW q \in Request PROVE chunkLock[s] # q
      BY <1>3 DEF LockHeld
    <3>3. QED
      BY <3>1, <3>2
  <2>2. Length(s)' >= 0
    BY <1>4 DEF TypeOK, Length
  <2>3. \A t \in Session \ {s} : session'[t] # None => session'[t] = session[t] /\ Length(t)' = Length(t)
    BY <1>1, <1>2 DEF Length
  <2>4. QED
    BY <1>1, <1>2, <2>1, <2>2, <2>3 DEF CountedStored
<1>7. CountsAcked'
  <2>1. \A t : AckedUnits(t)' = AckedUnits(t)
    BY <1>1, AckedKept
  <2>2. AckedUnits(s) = {}
    <3>1. Acked(s) = {}
      BY <1>1 DEF Acked, Begun
    <3>2. QED
      BY <3>1 DEF AckedUnits
  <2>3. QED
    BY <1>2, <2>1, <2>2, FS_EmptySet DEF CountsAcked
<1>8. ChunksContiguous' /\ Unwritten'
  BY <1>1 DEF ChunksContiguous, Unwritten
<1>9. Begun'
  <2>1. \A t \in Session : session'[t] # None => declared'[t] # 0
    BY <1>1, <1>2 DEF Begun
  <2>2. ASSUME NEW q \in Request
        PROVE  /\ req[q].pc # "new" => req[q].s \in Session
               /\ req[q].pc \notin {"new", "done"} \/ req[q].ok => declared'[req[q].s] # 0
    <3>1. req[q].ok => req[q].pc = "done"
      BY DEF Unwritten
    <3>2. QED
      BY <1>1, <3>1 DEF Begun
  <2>3. QED
    BY <1>1, <2>1, <2>2 DEF Begun
<1>10. TakenOut'
  <2>1. \A q \in Request : req[q].pc \in {"move", "library"} => req[q].s \in Session \ {s}
    BY <1>3 DEF Begun
  <2>2. QED
    BY <1>1, <1>2, <2>1 DEF TakenOut
<1>11. OwnFile'
  BY <1>1, <1>2, OwnFileKept
<1>12. Appending'
  <2>1. \A q \in Request : req[q].fd # None => req[q].s \in Session \ {s}
    BY <1>3 DEF Begun, Appending, LateOnFile
  <2>2. ASSUME NEW q \in Request, req[q].fd # None
        PROVE  (AfterCounted(q) => AfterCounted(q)') /\ (AtEnd(q) => AtEnd(q)')
    BY <1>1, <1>2, <2>1, <2>2 DEF AfterCounted, AtEnd
  <2>3. QED
    BY <1>1, <2>2 DEF Appending, LateOnFile
<1>13. QED
  BY <1>4, <1>5, <1>6, <1>7, <1>8, <1>9, <1>10, <1>11, <1>12

LEMMA LockStep ==
  ASSUME UploadIInv, NEW r \in Request, LockChunk(r), session[req[r].s] # None
  PROVE  Stored'
<1> DEFINE s == req[r].s
           x == [req[r] EXCEPT !.pc = "open", !.prev = session[s].received]
<1> USE DEF UploadIInv, Stored, UploadInv, AppendsSerial
<1>1. /\ req[r].pc = "lock" /\ chunkLock[s] = None
      /\ chunkLock' = [chunkLock EXCEPT ![s] = r]
      /\ req' = [req EXCEPT ![r].pc = "open", ![r].prev = session[s].received]
      /\ UNCHANGED <<session, declared, temp, video, content, library, spoiled>>
  BY DEF LockChunk
<1>0. overtaken \subseteq overtaken' /\ overtaken' \subseteq Session
  <2>1. s \in Session /\ overtaken \subseteq Session
    BY <1>1 DEF Begun, TypeOK
  <2>2. QED
    BY <1>1, <2>1 DEF LockChunk, Overtakes
<1>2. s \in Session /\ session[s].received \in 0..MaxUpload
  BY <1>1 DEF Begun, TypeOK
<1>3. req \in [Request -> Calls] /\ req[r] \in Calls
  BY DEF TypeOK, Calls
<1>4. /\ x.pc = "open" /\ x.prev = session[s].received /\ x.fd = req[r].fd
      /\ x.s = s /\ x.written = req[r].written /\ x.ok = req[r].ok
  BY <1>3 DEF Calls
<1>5. x \in Calls
  BY ONLY <1>2, <1>3, Phases, CallRecord DEF Calls
<1>6. req' = [req EXCEPT ![r] = x]
  BY <1>1, <1>3 DEF Calls
<1>7. /\ req' \in [Request -> Calls] /\ req'[r] = x
      /\ \A q \in Request \ {r} : req'[q] = req[q]
  BY <1>3, <1>5, <1>6
<1> HIDE DEF x
<1>8. TypeOK'
  BY <1>0, <1>1, <1>7 DEF TypeOK, Calls
<1>9. LockHeld'
  <2>1. \A q \in Request, t \in Session : chunkLock'[t] = q <=>
          (t = s /\ q = r) \/ (t # s /\ chunkLock[t] = q)
    BY <1>1, <1>2 DEF TypeOK
  <2>2. QED
    BY <1>1, <1>4, <1>7, <2>1, UploadAssumption DEF LockHeld
<1>10. CountedStored'
  <2>1. \A t \in Session : Length(t)' = Length(t)
    BY <1>1 DEF Length
  <2>2. \A t \in Session \ {s} : chunkLock'[t] = chunkLock[t] /\ chunkLock[t] # r
    BY <1>1, <1>2 DEF TypeOK, LockHeld
  <2>3. chunkLock'[s] = r
    BY <1>1, <1>2 DEF TypeOK
  <2>4. QED
    BY <1>0, <1>1, <1>4, <1>7, <2>1, <2>2, <2>3 DEF CountedStored, TypeOK
<1>11. CountsAcked'
  <2>1. \A t : AckedUnits(t)' = AckedUnits(t)
    BY <1>4, <1>7, AckedKept
  <2>2. QED
    BY <1>1, <2>1, CountsKept
<1>12. ChunksContiguous' /\ Begun' /\ TakenOut'
  <2>1. \A q \in Request : req'[q].s \notin overtaken' => req[q].s \notin overtaken
    BY <1>0, <1>4, <1>7
  <2>2. ChunksContiguous'
    BY <1>1, <2>1 DEF ChunksContiguous
  <2>3. QED
    BY <1>1, <1>4, <1>7, <2>2 DEF Begun, TakenOut
<1>13. Unwritten'
  BY <1>1, <1>4, <1>7 DEF Unwritten
<1>14. OwnFile'
  BY <1>1, <1>4, <1>7, OwnFileKept
<1>15. Appending'
  <2>1. /\ req'[r].fd = None /\ req'[r].pc = "open" /\ \A q \in Request \ {r} : req'[q] = req[q]
    BY <1>1, <1>4, <1>7 DEF Appending, LateOnFile
  <2>2. ASSUME NEW q \in Request \ {r}
        PROVE  (AfterCounted(q) => AfterCounted(q)') /\ (AtEnd(q) => AtEnd(q)')
    BY <1>1, <2>1 DEF AfterCounted, AtEnd
  <2>3. QED
    BY <1>0, <2>1, <2>2 DEF Appending, LateOnFile
<1>16. QED
  BY <1>8, <1>9, <1>10, <1>11, <1>12, <1>13, <1>14, <1>15

\* OpenTemp finds the file of the session, or makes one that is empty.
LEMMA OpenStep ==
  ASSUME UploadIInv, NEW r \in Request, OpenTemp(r)
  PROVE  Stored'
<1> USE DEF UploadIInv, Stored, UploadInv, AppendsSerial
<1>1. PICK s \in Session : s = req[r].s
  BY DEF OpenTemp, Begun
<1>2. PICK f \in File :
        /\ IF temp[s] = None THEN Free(f) ELSE f = temp[s]
        /\ temp' = [temp EXCEPT ![s] = f]
        /\ content' = IF temp[s] = None THEN [content EXCEPT ![f] = <<>>] ELSE content
        /\ req' = [req EXCEPT ![r].pc = "write", ![r].fd = f,
                              ![r].initial = Len(content'[f])]
  BY <1>1 DEF OpenTemp, Opens
<1>3. req[r].pc = "open" /\ UNCHANGED <<session, declared, chunkLock, video, library, spoiled, overtaken>>
  BY DEF OpenTemp
<1>4. chunkLock[s] = r
  BY <1>1, <1>3 DEF LockHeld
<1>5. /\ temp' \in [Session -> File \cup {None}] /\ temp'[s] = f
      /\ \A t \in Session \ {s} : temp'[t] = temp[t] /\ temp[t] # f
      /\ temp[s] # None => temp[s] = f
  BY <1>2, UploadAssumption DEF TypeOK, Free, OwnFile
<1>6. /\ content' \in [File -> Seq(Request \cup {None})]
      /\ \A e \in File : content'[e] = content[e] \/ (content'[e] = <<>> /\ Free(e) /\ e = f)
      /\ temp[s] = None => content'[f] = <<>>
      /\ temp[s] # None => content'[f] = content[f]
      /\ Len(content'[f]) \in Nat
  BY <1>2, <1>5 DEF TypeOK
<1>7. PICK n \in Nat : n = Len(content'[f])
  BY <1>6
<1> DEFINE x == [req[r] EXCEPT !.pc = "write", !.fd = f, !.initial = n]
<1>8. req \in [Request -> Calls] /\ req[r] \in Calls
  BY DEF TypeOK, Calls
<1>9. /\ x.pc = "write" /\ x.prev = req[r].prev /\ x.fd = f /\ x.initial = n
      /\ x.s = s /\ x.written = req[r].written /\ x.ok = req[r].ok
  BY <1>1, <1>8 DEF Calls
<1>10. x \in Calls
  <2>1. f \in File \cup {None}
    OBVIOUS
  <2>2. QED
    BY ONLY <2>1, <1>7, <1>8, Phases, CallRecord DEF Calls
<1>11. req' = [req EXCEPT ![r] = x]
  <2>1. req' = [req EXCEPT ![r].pc = "write", ![r].fd = f, ![r].initial = n]
    BY <1>2, <1>7
  <2>2. QED
    BY <1>8, <2>1 DEF Calls
<1>12. /\ req' \in [Request -> Calls] /\ req'[r] = x
       /\ \A q \in Request \ {r} : req'[q] = req[q]
  BY <1>8, <1>10, <1>11
<1> HIDE DEF x
<1>13. \A q \in Request \ {r} : req[q].fd = f => req[q].s = s /\ content' = content
  BY <1>2, UploadAssumption DEF Free, OwnFile
<1>14. TypeOK'
  BY <1>3, <1>5, <1>6, <1>12 DEF TypeOK, Calls
<1>15. LockHeld'
  BY <1>1, <1>3, <1>9, <1>12, LockKept
<1>16. session[s] # None /\ s \notin overtaken => Len(content'[f]) >= session[s].received
  BY <1>1, <1>4, <1>5, <1>6, UploadAssumption DEF CountedStored, Length, TypeOK
<1>17. CountedStored'
  <2>1. \A t \in Session \ {s} : Length(t)' = Length(t)
    BY <1>5, <1>6 DEF Length, TypeOK, Free
  <2>2. Length(s)' = Len(content'[f])
    BY <1>4, <1>5, UploadAssumption DEF Length
  <2>3. \A t \in Session : chunkLock[t] # None => req'[chunkLock[t]].prev = req[chunkLock[t]].prev
    BY <1>9, <1>12 DEF TypeOK
  <2>4. QED
    BY <1>3, <1>16, <2>1, <2>2, <2>3 DEF CountedStored
<1>18. CountsAcked'
  <2>1. \A t : AckedUnits(t)' = AckedUnits(t)
    BY <1>1, <1>9, <1>12, AckedKept
  <2>2. QED
    BY <1>3, <2>1, CountsKept
<1>19. ChunksContiguous'
  <2>1. \A q \in Request : req'[q].s = req[q].s
    BY <1>1, <1>9, <1>12
  <2>2. QED
    BY <1>3, <1>6, <2>1 DEF ChunksContiguous
<1>20. Begun' /\ TakenOut'
  BY <1>1, <1>3, <1>9, <1>12 DEF Begun, TakenOut
<1>21. Unwritten'
  <2>1. \A q \in Request :
          (\A e \in File : \A i \in DOMAIN content[e] : content[e][i] # q)
            => \A e \in File : \A i \in DOMAIN content'[e] : content'[e][i] # q
    BY <1>6
  <2>2. QED
    BY <1>3, <1>9, <1>12, <2>1 DEF Unwritten
<1>22. OwnFile'
  <2>1. \A q \in Request \ {r}, t \in Session : req[q].fd # None /\ req[q].fd = temp'[t] => t = req[q].s
    BY <1>5, <1>13 DEF OwnFile
  <2>2. \A t, u \in Session : temp'[t] # None /\ temp'[t] = temp'[u] => t = u
    BY <1>4, <1>5 DEF OwnFile
  <2>3. \A t \in Session : f = temp'[t] => t = s
    BY <1>5
  <2>4. \A q, p \in Request : req'[q].fd # None /\ req'[q].fd = req'[p].fd => req'[q].s = req'[p].s
    BY <1>9, <1>12, <1>13 DEF OwnFile
  <2>5. QED
    BY <1>9, <1>12, <2>1, <2>2, <2>3, <2>4 DEF OwnFile
<1>23. Appending'
  <2>1. ASSUME NEW q \in Request \ {r}, req[q].fd # None
        PROVE  content'[req[q].fd] = content[req[q].fd]
    BY <1>6, <1>13, <2>1 DEF TypeOK
  <2>2. ASSUME NEW q \in Request \ {r}, req[q].fd # None
        PROVE  (AfterCounted(q) => AfterCounted(q)') /\ (AtEnd(q) => AtEnd(q)')
    <3>1. req[q].s \in Session /\ req'[q] = req[q]
      BY <1>12, <2>2 DEF Begun, Appending, LateOnFile
    <3>2. session[req[q].s] # None /\ temp[req[q].s] = req[q].fd => temp'[req[q].s] = req[q].fd
      BY <1>5, <2>2, <3>1
    <3>3. QED
      BY <1>3, <2>1, <2>2, <3>1, <3>2 DEF AfterCounted, AtEnd
  <2>3. /\ req'[r].pc = "write" /\ req'[r].fd = f /\ req'[r].initial = n /\ req'[r].s = s
        /\ req'[r].written = req[r].written /\ f # None
    BY <1>9, <1>12, UploadAssumption
  <2>4. AtEnd(r)'
    <3>1. req[r].written = 0 /\ \A i \in DOMAIN content[f] : content[f][i] # r
      BY <1>3 DEF Unwritten
    <3>2. /\ n + 0 = n /\ \A i \in DOMAIN content'[f] : content'[f][i] # r /\ ~(i > n)
      <4>1. DOMAIN content'[f] = 1..n
        BY <1>6, <1>7
      <4>2. \A i \in DOMAIN content'[f] : content'[f][i] # r
        BY <1>6, <3>1
      <4>3. QED
        BY <1>7, <4>1, <4>2
    <3>3. QED
      BY <1>7, <2>3, <3>1, <3>2 DEF AtEnd
  <2>5. s \notin overtaken => AfterCounted(r)'
    BY <1>3, <1>5, <1>7, <1>16, <2>3 DEF AfterCounted
  <2>6. ASSUME NEW q \in Request \ {r}
        PROVE  /\ req'[q].fd # None <=> req'[q].pc \in {"write"} \cup LateOnFile
               /\ req'[q].fd # None /\ req'[q].s \notin overtaken' => AfterCounted(q)'
               /\ req'[q].pc \in {"write", "late_write"} /\ req'[q].s \notin overtaken' => AtEnd(q)'
    BY <1>3, <1>12, <2>2 DEF Appending, LateOnFile
  <2>7. /\ req'[r].fd # None <=> req'[r].pc \in {"write"} \cup LateOnFile
        /\ req'[r].fd # None /\ req'[r].s \notin overtaken' => AfterCounted(r)'
        /\ req'[r].pc \in {"write", "late_write"} /\ req'[r].s \notin overtaken' => AtEnd(r)'
    BY <1>3, <2>3, <2>4, <2>5
  <2>8. QED
    BY <2>6, <2>7 DEF Appending
<1>24. QED
  BY <1>14, <1>15, <1>17, <1>18, <1>19, <1>20, <1>21, <1>22, <1>23

\* A unit more at the end of the file r writes to: nobody else's end is moved.
LEMMA UnitAdded ==
  ASSUME UploadIInv, NEW r \in Request, req[r].pc \in {"write", "late_write"},
         NEW f \in File, f = req[r].fd, content' = [content EXCEPT ![f] = Append(content[f], r)],
         \A q \in Request : req'[q].s = req[q].s, UNCHANGED <<temp, overtaken>>
  PROVE  /\ content' \in [File -> Seq(Request \cup {None})] /\ ChunksContiguous'
         /\ \A t \in Session : Length(t) \in Nat /\ Length(t)' \in Nat /\ Length(t)' >= Length(t)
         /\ \A q \in Request \ {r} :
              /\ (\A e \in File : \A i \in DOMAIN content[e] : content[e][i] # q)
                   => \A e \in File : \A i \in DOMAIN content'[e] : content'[e][i] # q
              /\ req[q].fd # None /\ req[q].s \notin overtaken =>
                   content'[req[q].fd] = content[req[q].fd]
         /\ Len(content'[f]) = Len(content[f]) + 1
         /\ \A i \in DOMAIN content'[f] :
              i \in 1..(Len(content[f]) + 1)
              /\ content'[f][i] = IF i \in 1..Len(content[f]) THEN content[f][i] ELSE r
<1> USE DEF UploadIInv, Stored, UploadInv, AppendsSerial
<1>1. PICK c \in Seq(Request \cup {None}) : c = content[f]
  BY DEF TypeOK
<1>2. /\ content' \in [File -> Seq(Request \cup {None})]
      /\ content'[f] = Append(c, r) /\ Len(content'[f]) = Len(c) + 1
      /\ \A i \in 1..Len(c) : content'[f][i] = c[i]
      /\ content'[f][Len(c) + 1] = r /\ DOMAIN content'[f] = 1..(Len(c) + 1)
      /\ \A e \in File \ {f} : content'[e] = content[e]
  <2>1. content \in [File -> Seq(Request \cup {None})]
    BY DEF TypeOK
  <2>2. content' = [content EXCEPT ![f] = Append(c, r)]
    BY <1>1
  <2>3. Append(c, r) \in Seq(Request \cup {None})
    OBVIOUS
  <2>4. /\ content' \in [File -> Seq(Request \cup {None})] /\ content'[f] = Append(c, r)
        /\ \A e \in File \ {f} : content'[e] = content[e]
    BY <2>1, <2>2, <2>3
  <2>5. QED
    BY <2>3, <2>4
<1>3. ASSUME NEW q \in Request \ {r}, req[q].fd # None, req[q].s \notin overtaken
      PROVE  content'[req[q].fd] = content[req[q].fd]
  <2>1. req[q].fd \in File /\ req[q].pc \in {"write"} \cup LateOnFile
    BY <1>3 DEF Appending, TypeOK
  <2>2. req[q].fd # f
    <3>1. SUFFICES ASSUME req[q].fd = f PROVE FALSE
      OBVIOUS
    <3>2. req[q].s = req[r].s /\ req[r].s \in Session
      BY <1>3, <3>1 DEF OwnFile, Begun
    <3>3. CASE req[q].pc = "write" /\ req[r].pc = "write"
      <4>1. chunkLock[req[r].s] = r /\ chunkLock[req[r].s] = q
        BY <3>2, <3>3 DEF LockHeld
      <4>2. QED
        BY <4>1
    <3>4. CASE req[q].pc \in LateOnFile
      BY <1>3, <3>2, <3>4 DEF OneWriter, InLock, LateOnFile
    <3>5. CASE req[q].pc = "write" /\ req[r].pc = "late_write"
      BY <1>3, <3>2, <3>5 DEF OneWriter, InLock, LateOnFile
    <3>6. QED
      BY <2>1, <3>3, <3>4, <3>5
  <2>3. QED
    BY <1>2, <2>1, <2>2
<1>4. \A t \in Session : Length(t) \in Nat /\ Length(t)' \in Nat /\ Length(t)' >= Length(t)
  <2>1. \A e \in File : /\ Len(content[e]) \in Nat /\ Len(content'[e]) \in Nat
                       /\ Len(content'[e]) >= Len(content[e])
    <3>1. \A e \in File : Len(content[e]) \in Nat
      BY DEF TypeOK
    <3>2. QED
      BY <1>1, <1>2, <3>1
  <2>2. QED
    BY <2>1 DEF Length, TypeOK
<1>5. ChunksContiguous'
  <2> SUFFICES ASSUME NEW e \in File, NEW q \in Request, req[q].s \notin overtaken,
                      NEW i \in DOMAIN content'[e], NEW k \in DOMAIN content'[e],
                      content'[e][i] = q, content'[e][k] = q, NEW j \in i..k
               PROVE  content'[e][j] = q
    BY DEF ChunksContiguous
  <2>1. CASE e # f
    BY <1>2, <2>1 DEF ChunksContiguous
  <2>2. CASE e = f /\ q = r
    <3>1. AtEnd(r)
      BY <2>2 DEF Appending
    <3>2. PICK n \in Nat, m \in Nat, w \in Nat :
            n = Len(c) /\ m = req[r].initial /\ w = req[r].written
      BY DEF TypeOK
    <3>3. n = m + w /\ \A x \in 1..n : c[x] = r <=> x > m
      BY <1>1, <3>1, <3>2 DEF AtEnd
    <3>4. /\ i \in 1..(n + 1) /\ k \in 1..(n + 1)
          /\ i \in 1..n => i > m
      BY <1>2, <2>2, <3>2, <3>3
    <3>5. j > m /\ j \in 1..(n + 1)
      <4>1. i > m
        <5>1. i \in 1..n \/ i = n + 1
          BY ONLY <3>2, <3>4
        <5>2. QED
          BY ONLY <3>2, <3>3, <3>4, <5>1
      <4>2. j \in Int /\ i <= j /\ j <= k
        BY ONLY <3>4, j \in i..k
      <4>3. QED
        BY ONLY <3>2, <3>4, <4>1, <4>2
    <3>6. CASE j \in 1..n
      BY <1>2, <2>2, <3>2, <3>3, <3>5, <3>6
    <3>7. CASE j = n + 1
      BY <1>2, <2>2, <3>2, <3>7
    <3>8. QED
      BY ONLY <3>2, <3>5, <3>6, <3>7
  <2>3. CASE e = f /\ q # r
    <3>1. i \in 1..Len(c) /\ k \in 1..Len(c) /\ j \in 1..Len(c) /\ c[i] = q /\ c[k] = q
      BY <1>2, <2>3
    <3>2. c[j] = q
      BY <1>1, <3>1 DEF ChunksContiguous
    <3>3. QED
      BY <1>2, <2>3, <3>1, <3>2
  <2>4. QED
    BY <2>1, <2>2, <2>3
<1>6. \A q \in Request \ {r} :
        (\A e \in File : \A i \in DOMAIN content[e] : content[e][i] # q)
          => \A e \in File : \A i \in DOMAIN content'[e] : content'[e][i] # q
  BY <1>1, <1>2, SMTT(30)
<1>7. /\ Len(content'[f]) = Len(content[f]) + 1
      /\ \A i \in DOMAIN content'[f] :
           i \in 1..(Len(content[f]) + 1)
           /\ content'[f][i] = IF i \in 1..Len(content[f]) THEN content[f][i] ELSE r
  BY <1>1, <1>2
<1>8. QED
  BY <1>2, <1>3, <1>4, <1>5, <1>6, <1>7

LEMMA WriteStep ==
  ASSUME UploadIInv, NEW r \in Request, WriteFrame(r)
  PROVE  Stored'
<1> USE DEF UploadIInv, Stored, UploadInv, AppendsSerial
<1>1. /\ req[r].pc = "write" /\ req[r].written < MaxChunk
      /\ content' = [content EXCEPT ![req[r].fd] = Append(@, r)]
      /\ req' = [req EXCEPT ![r].written = @ + 1]
      /\ UNCHANGED <<session, declared, chunkLock, temp, video, library, spoiled, overtaken>>
  BY DEF WriteFrame
<1>2. PICK f \in File : f = req[r].fd
  BY <1>1 DEF Appending, TypeOK
<1>3. /\ req' \in [Request -> Calls]
      /\ req'[r].pc = "write" /\ req'[r].fd = f /\ req'[r].initial = req[r].initial
      /\ req'[r].s = req[r].s /\ req'[r].written = req[r].written + 1
      /\ req'[r].prev = req[r].prev /\ req'[r].ok = req[r].ok
      /\ \A q \in Request \ {r} : req'[q] = req[q]
  <2>1. req \in [Request -> Calls] /\ req[r].written \in 0..MaxChunk
    BY DEF TypeOK, Calls
  <2>2. req[r].written + 1 \in 0..MaxChunk
    BY <1>1, <2>1, UploadAssumption
  <2>3. QED
    BY <1>1, <1>2, <2>1, <2>2 DEF Calls
<1>4. /\ content' \in [File -> Seq(Request \cup {None})] /\ ChunksContiguous'
      /\ \A t \in Session : Length(t) \in Nat /\ Length(t)' \in Nat /\ Length(t)' >= Length(t)
      /\ \A q \in Request \ {r} :
           /\ (\A e \in File : \A i \in DOMAIN content[e] : content[e][i] # q)
                => \A e \in File : \A i \in DOMAIN content'[e] : content'[e][i] # q
           /\ req[q].fd # None /\ req[q].s \notin overtaken =>
                content'[req[q].fd] = content[req[q].fd]
      /\ Len(content'[f]) = Len(content[f]) + 1
      /\ \A i \in DOMAIN content'[f] :
           i \in 1..(Len(content[f]) + 1)
           /\ content'[f][i] = IF i \in 1..Len(content[f]) THEN content[f][i] ELSE r
  <2>1. /\ req[r].pc \in {"write", "late_write"} /\ content' = [content EXCEPT ![f] = Append(content[f], r)]
        /\ \A q \in Request : req'[q].s = req[q].s
        /\ UNCHANGED <<temp, overtaken>>
    BY <1>1, <1>2, <1>3
  <2>2. /\ content' \in [File -> Seq(Request \cup {None})] /\ ChunksContiguous'
        /\ \A t \in Session : Length(t) \in Nat /\ Length(t)' \in Nat /\ Length(t)' >= Length(t)
        /\ \A i \in DOMAIN content'[f] :
             i \in 1..(Len(content[f]) + 1)
             /\ content'[f][i] = IF i \in 1..Len(content[f]) THEN content[f][i] ELSE r
        /\ \A q \in Request \ {r} :
             /\ (\A e \in File : \A i \in DOMAIN content[e] : content[e][i] # q)
                  => \A e \in File : \A i \in DOMAIN content'[e] : content'[e][i] # q
             /\ req[q].fd # None /\ req[q].s \notin overtaken =>
                  content'[req[q].fd] = content[req[q].fd]
    BY <1>2, <2>1, UnitAdded
  <2>3. Len(content'[f]) = Len(content[f]) + 1
    <3>1. content[f] \in Seq(Request \cup {None}) /\ content'[f] = Append(content[f], r)
      BY <1>2, <2>1 DEF TypeOK
    <3>2. QED
      BY <3>1
  <2>4. QED
    BY <2>2, <2>3
<1>5. TypeOK'
  BY <1>1, <1>3, <1>4 DEF TypeOK, Calls
<1>6. LockHeld'
  BY <1>1, <1>3, LockKept
<1>7. CountedStored'
  <2>1. \A t \in Session : chunkLock[t] # None => req'[chunkLock[t]].prev = req[chunkLock[t]].prev
    BY <1>3 DEF TypeOK
  <2>2. \A t \in Session : session[t] # None => session[t].received \in Nat
    BY DEF TypeOK
  <2>3. QED
    BY <1>1, <1>4, <2>1, <2>2 DEF CountedStored
<1>8. CountsAcked'
  <2>1. \A t : AckedUnits(t)' = AckedUnits(t)
    BY <1>1, <1>3, AckedKept DEF Unwritten
  <2>2. QED
    BY <1>1, <2>1, CountsKept
<1>9. Begun' /\ TakenOut'
  BY <1>1, <1>3 DEF Begun, TakenOut
<1>10. Unwritten'
  BY <1>1, <1>3, <1>4 DEF Unwritten
<1>11. OwnFile'
  BY <1>1, <1>2, <1>3, OwnFileKept
<1>12. Appending'
  <2>1. ASSUME NEW q \in Request \ {r}, req[q].fd # None, req[q].s \notin overtaken
        PROVE  (AfterCounted(q) => AfterCounted(q)') /\ (AtEnd(q) => AtEnd(q)')
    <3>1. req'[q] = req[q] /\ content'[req[q].fd] = content[req[q].fd]
      BY <1>3, <1>4, <2>1
    <3>2. QED
      BY <1>1, <3>1 DEF AfterCounted, AtEnd
  <2>2. AfterCounted(r) => AfterCounted(r)'
    BY <1>1, <1>2, <1>3 DEF AfterCounted
  <2>3. AtEnd(r) => AtEnd(r)'
    <3>1. req[r].initial \in Nat /\ req[r].written \in Nat /\ Len(content[f]) \in Nat
      BY DEF TypeOK
    <3>2. ASSUME AtEnd(r), NEW i \in DOMAIN content'[f]
          PROVE  content'[f][i] = r <=> i > req[r].initial
      <4>1. /\ Len(content[f]) = req[r].initial + req[r].written
            /\ \A k \in DOMAIN content[f] : content[f][k] = r <=> k > req[r].initial
        BY <1>2, <3>2 DEF AtEnd
      <4>2. CASE i \in 1..Len(content[f])
        <5>1. i \in DOMAIN content[f]
          BY <4>2 DEF TypeOK
        <5>2. QED
          BY <1>4, <4>1, <4>2, <5>1
      <4>3. CASE i \notin 1..Len(content[f])
        <5>1. content'[f][i] = r /\ i = Len(content[f]) + 1
          BY <1>4, <3>1, <4>3
        <5>2. QED
          BY <3>1, <4>1, <5>1
      <4>4. QED
        BY <4>2, <4>3
    <3>3. AtEnd(r) => Len(content'[f]) = req[r].initial + (req[r].written + 1)
      BY <1>2, <1>4, <3>1 DEF AtEnd
    <3>4. QED
      BY <1>3, <3>2, <3>3 DEF AtEnd
  <2>4. ASSUME NEW q \in Request \ {r}
        PROVE  /\ req'[q].fd # None <=> req'[q].pc \in {"write"} \cup LateOnFile
               /\ req'[q].fd # None /\ req'[q].s \notin overtaken' => AfterCounted(q)'
               /\ req'[q].pc \in {"write", "late_write"} /\ req'[q].s \notin overtaken' => AtEnd(q)'
    BY <1>1, <1>3, <2>1 DEF Appending, LateOnFile
  <2>5. /\ req'[r].fd # None <=> req'[r].pc \in {"write"} \cup LateOnFile
        /\ req'[r].fd # None /\ req'[r].s \notin overtaken' => AfterCounted(r)'
        /\ req'[r].pc \in {"write", "late_write"} /\ req'[r].s \notin overtaken' => AtEnd(r)'
    BY <1>1, <1>2, <1>3, <2>2, <2>3 DEF Appending
  <2>6. QED
    BY <2>4, <2>5 DEF Appending
<1>13. QED
  BY <1>4, <1>5, <1>6, <1>7, <1>8, <1>9, <1>10, <1>11, <1>12

\* The upload is over its limit: the descriptor is closed, the lock kept.
LEMMA OverStep ==
  ASSUME UploadIInv, NEW r \in Request, OverLimit(r)
  PROVE  Stored'
<1> USE DEF UploadIInv, Stored, UploadInv, AppendsSerial
<1>1. /\ req[r].pc = "write"
      /\ req' = [req EXCEPT ![r].pc = "trim", ![r].fd = None]
      /\ UNCHANGED <<session, declared, chunkLock, temp, video, content, library, spoiled, overtaken>>
  BY DEF OverLimit
<1> DEFINE x == [req[r] EXCEPT !.pc = "trim", !.fd = None]
<1>2. req \in [Request -> Calls] /\ req[r] \in Calls
  BY DEF TypeOK, Calls
<1>3. /\ x.pc = "trim" /\ x.prev = req[r].prev /\ x.fd = None /\ x.s = req[r].s
      /\ x.written = req[r].written /\ x.ok = req[r].ok
  BY <1>2 DEF Calls
<1>4. x \in Calls
  <2>1. None \in File \cup {None}
    OBVIOUS
  <2>2. QED
    BY ONLY <2>1, <1>2, Phases, CallRecord DEF Calls
<1>5. req' = [req EXCEPT ![r] = x]
  BY <1>1, <1>2 DEF Calls
<1>6. /\ req' \in [Request -> Calls] /\ req'[r] = x
      /\ \A q \in Request \ {r} : req'[q] = req[q]
  BY <1>2, <1>4, <1>5
<1> HIDE DEF x
<1>7. TypeOK'
  BY <1>1, <1>6 DEF TypeOK, Calls
<1>8. LockHeld'
  BY <1>1, <1>3, <1>6, LockKept
<1>9. CountedStored'
  <2>1. \A t \in Session : chunkLock[t] # None => req'[chunkLock[t]].prev = req[chunkLock[t]].prev
    BY <1>3, <1>6 DEF TypeOK
  <2>2. QED
    BY <1>1, <2>1 DEF CountedStored, Length
<1>10. CountsAcked'
  <2>1. \A t : AckedUnits(t)' = AckedUnits(t)
    BY <1>3, <1>6, AckedKept
  <2>2. QED
    BY <1>1, <2>1, CountsKept
<1>11. ChunksContiguous' /\ Begun' /\ TakenOut'
  BY <1>1, <1>3, <1>6 DEF ChunksContiguous, Begun, TakenOut
<1>12. Unwritten'
  BY <1>1, <1>3, <1>6 DEF Unwritten
<1>13. OwnFile'
  BY <1>1, <1>3, <1>6, OwnFileKept
<1>14. Appending'
  <2>1. ASSUME NEW q \in Request \ {r}
        PROVE  (AfterCounted(q) => AfterCounted(q)') /\ (AtEnd(q) => AtEnd(q)')
    BY <1>1, <1>6 DEF AfterCounted, AtEnd
  <2>2. QED
    BY <1>1, <1>3, <1>6, <2>1 DEF Appending, LateOnFile
<1>15. QED
  BY <1>7, <1>8, <1>9, <1>10, <1>11, <1>12, <1>13, <1>14

\* The units of the chunk r sent join those that were answered, and none twice.
LEMMA CountStep ==
  ASSUME UploadIInv, NEW r \in Request, CountChunk(r), session[req[r].s] # None
  PROVE  Stored'
<1> USE DEF UploadIInv, Stored, UploadInv, AppendsSerial
<1>1. PICK s \in Session, prev \in 0..MaxUpload, n \in 0..MaxChunk :
        s = req[r].s /\ prev = req[r].prev /\ n = req[r].written
  BY DEF CountChunk, Begun, TypeOK
<1>2. /\ req[r].pc = "write" /\ n > 0 /\ prev + n <= MaxUpload
      /\ session' = [session EXCEPT ![s].received = prev + n] /\ Return(r, TRUE)
      /\ UNCHANGED <<declared, temp, video, content, library, spoiled, overtaken>>
  BY <1>1 DEF CountChunk
<1>3. /\ req' \in [Request -> Calls]
      /\ req'[r].pc = "done" /\ req'[r].fd = None /\ req'[r].ok = TRUE
      /\ req'[r].s = s /\ req'[r].written = n /\ req'[r].prev = prev
      /\ \A q \in Request \ {r} : req'[q] = req[q]
  <2> DEFINE x == [req[r] EXCEPT !.pc = "done", !.fd = None, !.ok = TRUE]
  <2>1. req \in [Request -> Calls] /\ req[r] \in Calls
    BY DEF TypeOK, Calls
  <2>2. /\ x.pc = "done" /\ x.fd = None /\ x.ok = TRUE
        /\ x.s = req[r].s /\ x.written = req[r].written /\ x.prev = req[r].prev
    BY <2>1 DEF Calls
  <2>3. x \in Calls
    <3>1. None \in File \cup {None} /\ TRUE \in BOOLEAN
      OBVIOUS
    <3>2. QED
      BY ONLY <2>1, <3>1, Phases, CallRecord DEF Calls
  <2>4. req' = [req EXCEPT ![r] = x]
    BY <1>2, <2>1 DEF Return, Calls
  <2>5. QED
    BY <1>1, <2>1, <2>2, <2>3, <2>4
<1>4. /\ \A t \in Session : chunkLock'[t] = IF chunkLock[t] = r THEN None ELSE chunkLock[t]
      /\ chunkLock' \in [Session -> Request \cup {None}]
      /\ chunkLock[s] = r
  BY <1>1, <1>2 DEF Return, Unlock, TypeOK, LockHeld
<1>5. /\ session' \in [Session -> Sessions \cup {None}]
      /\ session'[s].received = prev + n /\ session[s] # None
      /\ \A t \in Session \ {s} : session'[t] = session[t]
  BY <1>1, <1>2, UploadAssumption DEF TypeOK, Sessions
<1>6. TypeOK'
  BY <1>2, <1>3, <1>4, <1>5 DEF TypeOK, Calls, Sessions
<1>7. LockHeld'
  BY <1>1, <1>3, <1>4, LockKept
<1>8. prev = session[s].received
  BY <1>1, <1>4, <1>5, UploadAssumption DEF CountedStored
<1>9. CountedStored'
  <2>1. s \notin overtaken => Length(s) >= prev + n
    <3>1. req[r].fd # None /\ req[r].initial \in Nat
      BY <1>2 DEF Appending, TypeOK
    <3>2. s \notin overtaken => AfterCounted(r) /\ AtEnd(r)
      BY <1>1, <1>2, <3>1 DEF Appending
    <3>3. QED
      BY <1>1, <1>5, <1>8, <3>1, <3>2 DEF Length, AfterCounted, AtEnd
  <2>2. \A t \in Session \ {s} : chunkLock'[t] # None =>
          chunkLock'[t] = chunkLock[t] /\ req'[chunkLock[t]] = req[chunkLock[t]]
    BY <1>3, <1>4 DEF TypeOK
  <2>3. chunkLock'[s] = None /\ \A t \in Session : Length(t)' = Length(t)
    BY <1>2, <1>4 DEF Length
  <2>4. QED
    BY <1>2, <1>5, <2>1, <2>2, <2>3 DEF CountedStored
<1>10. CountsAcked'
  <2>1. ~req[r].ok
    BY <1>2 DEF Unwritten
  <2>2. \A t \in Session \ {s} : AckedUnits(t)' = AckedUnits(t)
    <3> TAKE t \in Session \ {s}
    <3>1. \A q \in Request : q \in Acked(t)' <=> q \in Acked(t)
      BY <1>1, <1>3, <2>1 DEF Acked
    <3>2. \A q \in Request : q \in Acked(t) => req'[q].written = req[q].written
      BY <1>3, <2>1 DEF Acked
    <3>3. \A u \in Request \X (1..MaxChunk) : u[1] \in Request
      OBVIOUS
    <3>4. QED
      BY <3>1, <3>2, <3>3 DEF AckedUnits
  <2> DEFINE New == {r} \X (1..n)
  <2>3. AckedUnits(s)' = AckedUnits(s) \cup New
    <3>1. Acked(s)' = Acked(s) \cup {r}
      BY <1>1, <1>2, <1>3 DEF Acked
    <3>2. \A q \in Request \ {r} : req'[q].written = req[q].written
      BY <1>3
    <3>3. r \notin Acked(s)
      BY <2>1 DEF Acked
    <3>4. ASSUME NEW u \in Request \X (1..MaxChunk)
          PROVE  u \in AckedUnits(s)' <=> u \in AckedUnits(s) \cup New
      BY <1>3, <3>1, <3>2, <3>3 DEF AckedUnits
    <3>5. New \subseteq Request \X (1..MaxChunk)
      BY UploadAssumption
    <3>6. QED
      BY <3>4, <3>5 DEF AckedUnits
  <2>4. AckedUnits(s) \cap New = {}
    BY <2>1 DEF AckedUnits, Acked
  <2>5. IsFiniteSet(AckedUnits(s))
    <3>1. IsFiniteSet(Request \X (1..MaxChunk))
      <4>1. 1 \in Int /\ MaxChunk \in Int
        BY UploadAssumption
      <4>2. IsFiniteSet(1..MaxChunk)
        BY <4>1, FS_Interval
      <4>3. QED
        BY <4>2, UploadAssumption, FS_Product
    <3>2. QED
      BY <3>1, FS_Subset DEF AckedUnits
  <2>6. IsFiniteSet(New) /\ Cardinality(New) = n
    <3>1. /\ IsFiniteSet({r}) /\ Cardinality({r}) = 1
          /\ IsFiniteSet(1..n) /\ Cardinality(1..n) = n
      <4>1. n \in Int /\ 1 \in Int /\ n - 1 + 1 = n /\ ~(1 > n)
        BY <1>2
      <4>2. IsFiniteSet(1..n) /\ Cardinality(1..n) = n - 1 + 1
        BY <4>1, FS_Interval
      <4>3. QED
        BY <4>1, <4>2, FS_Singleton
    <3>2. QED
      BY <3>1, FS_Product
  <2>7. Cardinality(AckedUnits(s) \cup New) = Cardinality(AckedUnits(s)) + n
    <3> HIDE DEF New
    <3>1. Cardinality(AckedUnits(s) \cup New)
            = Cardinality(AckedUnits(s)) + Cardinality(New) - Cardinality(AckedUnits(s) \cap New)
      BY <2>5, <2>6, FS_Union
    <3>2. Cardinality(AckedUnits(s) \cap New) = 0
      BY <2>4, FS_EmptySet
    <3>3. QED
      BY <2>5, <2>6, <3>1, <3>2, FS_CardinalityType
  <2>8. session'[s].received = Cardinality(AckedUnits(s)')
    BY <1>5, <1>8, <2>3, <2>7 DEF CountsAcked
  <2>9. QED
    BY <1>5, <2>2, <2>8 DEF CountsAcked
<1>11. ChunksContiguous'
  BY <1>1, <1>2, <1>3 DEF ChunksContiguous
<1>12. Begun'
  BY <1>1, <1>2, <1>3, <1>5 DEF Begun
<1>13. Unwritten'
  BY <1>2, <1>3 DEF Unwritten
<1>14. TakenOut'
  <2>1. \A t \in Session : session[t] = None => session'[t] = None
    BY <1>5
  <2>2. QED
    BY <1>2, <1>3, <2>1 DEF TakenOut, Begun
<1>15. OwnFile'
  BY <1>2, <1>3, OwnFileKept
<1>16. Appending'
  <2>1. ASSUME NEW q \in Request \ {r}, req[q].fd # None, req[q].s \notin overtaken
        PROVE  req[q].s \in Session \ {s}
    <3>1. req[q].pc \in {"write"} \cup LateOnFile
      BY <2>1 DEF Appending
    <3>2. req[q].s \in Session
      BY <3>1 DEF Begun, LateOnFile
    <3>3. CASE req[q].pc = "write"
      BY <1>4, <3>2, <3>3, UploadAssumption DEF LockHeld
    <3>4. CASE req[q].pc \in LateOnFile
      BY <1>1, <1>2, <2>1, <3>2, <3>4 DEF OneWriter, InLock
    <3>5. QED
      BY <3>1, <3>3, <3>4
  <2>2. ASSUME NEW q \in Request \ {r}, req[q].fd # None, req[q].s \notin overtaken
        PROVE  (AfterCounted(q) => AfterCounted(q)') /\ (AtEnd(q) => AtEnd(q)')
    <3>1. session'[req[q].s] = session[req[q].s] /\ req'[q] = req[q]
      BY <1>3, <1>5, <2>1, <2>2
    <3>2. QED
      BY <1>2, <3>1 DEF AfterCounted, AtEnd
  <2>3. QED
    BY <1>2, <1>3, <2>2 DEF Appending, LateOnFile
<1>17. QED
  BY <1>6, <1>7, <1>9, <1>10, <1>11, <1>12, <1>13, <1>14, <1>15, <1>16

LEMMA RestartStep ==
  ASSUME UploadIInv, Restart PROVE Stored'
<1> USE DEF UploadIInv, Stored, UploadInv, AppendsSerial
<1>1. /\ \A s \in Session : session'[s] = None /\ chunkLock'[s] = None
      /\ session' \in [Session -> Sessions \cup {None}]
      /\ chunkLock' \in [Session -> Request \cup {None}]
      /\ UNCHANGED <<declared, temp, video, content, library, spoiled, overtaken>>
  BY DEF Restart
<1>2. req \in [Request -> Calls]
  BY DEF TypeOK, Calls
<1>3. ASSUME NEW q \in Request
      PROVE  /\ req'[q] \in Calls /\ req'[q].s = req[q].s /\ req'[q].written = req[q].written
             /\ req'[q].ok = req[q].ok /\ req'[q].fd = None
             /\ req'[q].pc = IF req[q].pc = "new" THEN "new" ELSE "done"
  <2>1. CASE req[q].pc \in {"new", "done"}
    <3>1. req[q].fd = None
      BY <2>1 DEF Appending, LateOnFile
    <3>2. req'[q] = req[q]
      BY <2>1 DEF Restart
    <3>3. QED
      BY <1>2, <2>1, <3>1, <3>2
  <2>2. CASE req[q].pc \notin {"new", "done"}
    <3>1. req'[q] = [req[q] EXCEPT !.pc = "done", !.fd = None]
      BY <2>2 DEF Restart
    <3>2. req[q] \in Calls /\ None \in File \cup {None}
      BY <1>2
    <3>3. [req[q] EXCEPT !.pc = "done", !.fd = None] \in Calls
      BY ONLY <3>2, Phases, CallRecord DEF Calls
    <3>4. QED
      BY <2>2, <3>1, <3>2, <3>3 DEF Calls
  <2>3. QED
    BY <2>1, <2>2
<1>4. req' \in [Request -> Calls]
  BY <1>3 DEF Restart
<1>5. TypeOK'
  BY <1>1, <1>4 DEF TypeOK, Calls, Sessions
<1>6. LockHeld' /\ CountedStored' /\ CountsAcked'
  BY <1>1, <1>3, UploadAssumption DEF LockHeld, CountedStored, CountsAcked
<1>7. ChunksContiguous'
  BY <1>1, <1>3 DEF ChunksContiguous
<1>8. Begun'
  BY <1>1, <1>3 DEF Begun
<1>9. Unwritten' /\ TakenOut'
  BY <1>1, <1>3 DEF Unwritten, TakenOut
<1>10. OwnFile'
  BY <1>1, <1>3, OwnFileKept
<1>11. Appending'
  BY <1>3 DEF Appending, LateOnFile
<1>12. QED
  BY <1>5, <1>6, <1>7, <1>8, <1>9, <1>10, <1>11

\* A call that fails, or is cut off, and changes no file.
LEMMA PlainReturn ==
  ASSUME UploadIInv, UNCHANGED <<session, declared, video, content, temp, library, overtaken>>,
         spoiled' \subseteq Session, NEW r \in Request, Return(r, FALSE),
         req[r].pc \notin {"new", "done"}
  PROVE  Stored'
<1>1. /\ library' \subseteq Session /\ temp' \in [Session -> File \cup {None}]
      /\ content' \in [File -> Seq(Request \cup {None})]
  BY DEF UploadIInv, Stored, UploadInv, TypeOK
<1>2. QED
  BY <1>1, ReturnStep

LEMMA CutBack ==
  ASSUME UploadIInv, NEW f \in File, NEW n \in Nat, content' = SetLen(f, n)
  PROVE  /\ content' \in [File -> Seq(Request \cup {None})] /\ Len(content'[f]) = n
         /\ \A e \in File \ {f} : content'[e] = content[e]
         /\ \A i \in DOMAIN content'[f] :
              content'[f][i] = IF i \in DOMAIN content[f] THEN content[f][i] ELSE None
<1> DEFINE cut == [i \in 1..n |-> IF i <= Len(content[f]) THEN content[f][i] ELSE None]
<1>1. content \in [File -> Seq(Request \cup {None})]
  BY DEF UploadIInv, Stored, UploadInv, TypeOK
<1>2. cut \in Seq(Request \cup {None}) /\ Len(cut) = n /\ DOMAIN cut = 1..n
  <2>1. \A i \in 1..n : cut[i] \in Request \cup {None}
    BY <1>1
  <2>2. cut \in [1..n -> Request \cup {None}]
    BY <2>1
  <2>3. QED
    BY <2>2
<1>3. content' = [content EXCEPT ![f] = cut]
  BY DEF SetLen
<1>4. \A i \in 1..n : i \in DOMAIN content[f] <=> i <= Len(content[f])
  BY <1>1
<1>5. content'[f] = cut
  BY <1>1, <1>3
<1>6. QED
  BY <1>1, <1>2, <1>3, <1>4, <1>5

\* Whoever holds the file of r open besides r has overtaken it, or was
\* overtaken; and before what r writes there is all that is counted.
LEMMA SoleWriter ==
  ASSUME UploadIInv, NEW r \in Request, NEW f \in File, f = req[r].fd
  PROVE  /\ \A q \in Request \ {r} : req[q].fd = f => req[q].s \in overtaken
         /\ \A t \in Session : session[t] # None /\ temp[t] = f =>
              t \in overtaken \/ req[r].initial >= session[t].received
<1> USE DEF UploadIInv, Stored, UploadInv
<1>1. f # None
  BY UploadAssumption
<1>2. req[r].pc \in {"write"} \cup LateOnFile /\ req[r].s \in Session
  BY <1>1 DEF Appending, Begun, LateOnFile
<1>3. ASSUME NEW q \in Request \ {r}, req[q].fd = f PROVE req[q].s \in overtaken
  <2>1. req[q].pc \in {"write"} \cup LateOnFile /\ req[q].s = req[r].s
    BY <1>1, <1>3 DEF Appending, OwnFile
  <2>2. CASE req[q].pc = "write" /\ req[r].pc = "write"
    <3>1. chunkLock[req[r].s] = r /\ chunkLock[req[r].s] = q
      BY <1>2, <2>1, <2>2 DEF LockHeld
    <3>2. QED
      BY <3>1
  <2>3. CASE req[q].pc \in LateOnFile \/ req[r].pc \in LateOnFile
    BY <1>2, <2>1, <2>3 DEF OneWriter, InLock
  <2>4. QED
    BY <1>2, <2>1, <2>2, <2>3
<1>4. ASSUME NEW t \in Session, session[t] # None, temp[t] = f, t \notin overtaken
      PROVE  req[r].initial >= session[t].received
  <2>1. t = req[r].s
    BY <1>1, <1>4 DEF OwnFile
  <2>2. QED
    BY <1>1, <1>4, <2>1 DEF Appending, AfterCounted
<1>5. QED
  BY <1>3, <1>4

LEMMA AppendNext ==
  ASSUME UploadIInv, NEW r \in Request, AppendStep(r) PROVE Stored'
<1>1. CASE LockChunk(r)
  <2>1. CASE session[req[r].s] # None
    BY <1>1, <2>1, LockStep
  <2>2. CASE session[req[r].s] = None
    <3>1. /\ Return(r, FALSE) /\ req[r].pc = "lock"
          /\ UNCHANGED <<session, declared, temp, video, content, library, spoiled, overtaken>>
      BY <1>1, <2>2 DEF LockChunk
    <3>2. QED
      BY <3>1, PlainReturn DEF UploadIInv, Stored, UploadInv, TypeOK
  <2>3. QED
    BY <2>1, <2>2
<1>2. CASE OpenTemp(r)
  BY <1>2, OpenStep
<1>3. CASE WriteFrame(r)
  BY <1>3, WriteStep
<1>4. CASE RejectChunk(r)
  <2>1. /\ Return(r, FALSE) /\ req[r].pc = "write" /\ content' = SetLen(req[r].fd, req[r].initial)
        /\ UNCHANGED <<session, declared, temp, video, library, spoiled, overtaken>>
    BY <1>4 DEF RejectChunk
  <2>2. PICK f \in File, n \in Nat : f = req[r].fd /\ n = req[r].initial
    BY <2>1 DEF UploadIInv, Stored, UploadInv, Appending, TypeOK
  <2>3. /\ \A q \in Request \ {r} : req[q].fd = f => req[q].s \in overtaken
        /\ \A t \in Session : session[t] # None /\ temp[t] = f =>
             t \in overtaken \/ n >= session[t].received
    BY <2>1, <2>2, SoleWriter
  <2>5. /\ content' \in [File -> Seq(Request \cup {None})] /\ Len(content'[f]) = n
        /\ \A e \in File \ {f} : content'[e] = content[e]
        /\ \A i \in DOMAIN content'[f] :
              content'[f][i] = IF i \in DOMAIN content[f] THEN content[f][i] ELSE None
    BY <2>1, <2>2, CutBack
  <2>6. temp' \in [Session -> File \cup {None}] /\ library' \subseteq Session /\ spoiled' \subseteq Session
    BY <2>1 DEF UploadIInv, Stored, UploadInv, TypeOK
  <2>7. ASSUME NEW e \in File
        PROVE  \/ content'[e] = content[e]
               \/ /\ \A q \in Request \ {r} : req[q].fd = e => req[q].s \in overtaken
                  /\ \A t \in Session : session[t] # None /\ temp[t] = e =>
                       t \in overtaken \/ Len(content'[e]) >= session[t].received
                  /\ \A i \in DOMAIN content'[e] :
                       content'[e][i] = IF i \in DOMAIN content[e] THEN content[e][i] ELSE None
    BY <2>3, <2>5
  <2>8. QED
    BY <2>1, <2>5, <2>6, <2>7, ReturnStep
<1>5. CASE CountChunk(r)
  <2>1. CASE session[req[r].s] # None
    BY <1>5, <2>1, CountStep
  <2>2. CASE session[req[r].s] = None
    <3>1. /\ Return(r, FALSE) /\ req[r].pc = "write"
          /\ UNCHANGED <<session, declared, temp, video, content, library, spoiled, overtaken>>
      BY <1>5, <2>2 DEF CountChunk
    <3>2. QED
      BY <3>1, PlainReturn DEF UploadIInv, Stored, UploadInv, TypeOK
  <2>3. QED
    BY <2>1, <2>2
<1>6. CASE OverLimit(r)
  BY <1>6, OverStep
<1>7. CASE TrimUpload(r)
  <2>1. /\ Return(r, FALSE) /\ req[r].pc = "trim"
        /\ content' = IF temp[req[r].s] = None THEN content ELSE SetLen(temp[req[r].s], req[r].prev)
        /\ UNCHANGED <<session, declared, temp, video, library, spoiled, overtaken>>
    BY <1>7 DEF TrimUpload
  <2>2. CASE temp[req[r].s] = None
    BY <2>1, <2>2, PlainReturn DEF UploadIInv, Stored, UploadInv, TypeOK
  <2>3. CASE temp[req[r].s] # None
    <3>1. PICK s \in Session, f \in File, n \in Nat :
            s = req[r].s /\ f = temp[s] /\ n = req[r].prev
      BY <2>1, <2>3 DEF UploadIInv, Stored, UploadInv, Begun, TypeOK
    <3>2. chunkLock[s] = r
      BY <2>1, <3>1 DEF UploadIInv, Stored, UploadInv, LockHeld
    <3>3. ASSUME NEW q \in Request \ {r}, req[q].fd = f PROVE req[q].s \in overtaken
      <4>1. req[q].s = s /\ req[q].pc \in {"write"} \cup LateOnFile
        BY <3>1, <3>3, UploadAssumption DEF UploadIInv, Stored, OwnFile, Appending
      <4>2. CASE req[q].pc = "write"
        BY <3>2, <4>1, <4>2 DEF UploadIInv, Stored, UploadInv, LockHeld
      <4>3. CASE req[q].pc \in LateOnFile
        BY <2>1, <3>1, <4>1, <4>3 DEF UploadIInv, OneWriter, InLock
      <4>4. QED
        BY <4>1, <4>2, <4>3
    <3>4. ASSUME NEW t \in Session, session[t] # None, temp[t] = f PROVE n >= session[t].received
      <4>1. t = s
        BY <3>1, <3>4, UploadAssumption DEF UploadIInv, Stored, OwnFile
      <4>2. n = session[t].received
        BY <3>1, <3>2, <3>4, <4>1, UploadAssumption DEF UploadIInv, Stored, UploadInv, CountedStored
      <4>3. n \in Nat
        OBVIOUS
      <4>4. QED
        BY <4>2, <4>3
    <3>5. /\ content' \in [File -> Seq(Request \cup {None})] /\ Len(content'[f]) = n
          /\ \A e \in File \ {f} : content'[e] = content[e]
          /\ \A i \in DOMAIN content'[f] :
                content'[f][i] = IF i \in DOMAIN content[f] THEN content[f][i] ELSE None
      BY <2>1, <2>3, <3>1, CutBack
    <3>6. temp' \in [Session -> File \cup {None}] /\ library' \subseteq Session /\ spoiled' \subseteq Session
      BY <2>1 DEF UploadIInv, Stored, UploadInv, TypeOK
    <3>7. ASSUME NEW e \in File
          PROVE  \/ content'[e] = content[e]
                 \/ /\ \A q \in Request \ {r} : req[q].fd = e => req[q].s \in overtaken
                    /\ \A t \in Session : session[t] # None /\ temp[t] = e =>
                         t \in overtaken \/ Len(content'[e]) >= session[t].received
                    /\ \A i \in DOMAIN content'[e] :
                         content'[e][i] = IF i \in DOMAIN content[e] THEN content[e][i] ELSE None
      BY <3>3, <3>4, <3>5
    <3>8. QED
      BY <2>1, <3>5, <3>6, <3>7, ReturnStep
  <2>4. QED
    BY <2>2, <2>3
<1>8. QED
  BY <1>1, <1>2, <1>3, <1>4, <1>5, <1>6, <1>7 DEF AppendStep

LEMMA FinishNext ==
  ASSUME UploadIInv, NEW r \in Request, FinishStep(r) PROVE Stored'
<1> USE DEF UploadIInv, Stored, UploadInv
<1>1. req[r].pc \in {"move", "library"}
  BY DEF FinishStep, MoveVideo, ConvertVideo, ReencodeVideo, AddEntry, FinishFails
<1>2. PICK s \in Session : s = req[r].s
  BY <1>1 DEF Begun
<1>3. CASE MoveVideo(r) \/ ConvertVideo(r)
  <2>1. PICK f \in File : f = temp[s]
    BY <1>2, <1>3 DEF MoveVideo, ConvertVideo, TypeOK
  <2>2. PICK g \in File :
          /\ video' = [video EXCEPT ![req[r].s] = g]
          /\ content' = content \/ (Free(g) /\ content' = [content EXCEPT ![g] = content[f]])
    BY <1>2, <1>3, <2>1 DEF MoveVideo, ConvertVideo, CopyVideo
  <2>3. QED
    BY <1>1, <1>3, <2>1, <2>2, FilmStep DEF MoveVideo, ConvertVideo
<1>4. CASE ReencodeVideo(r)
  <2>1. PICK f \in File : f = video[s]
    BY <1>2, <1>4 DEF ReencodeVideo, TakenOut, TypeOK
  <2>2. PICK g \in File :
          /\ video' = [video EXCEPT ![req[r].s] = g]
          /\ Free(g) /\ content' = [content EXCEPT ![g] = content[f]]
    BY <1>2, <1>4, <2>1 DEF ReencodeVideo, CopyVideo
  <2>3. req' = [req EXCEPT ![r].pc = "library"]
    BY <1>4 DEF ReencodeVideo, TypeOK
  <2>4. QED
    BY <1>1, <1>4, <2>1, <2>2, <2>3, FilmStep DEF ReencodeVideo
<1>5. CASE AddEntry(r)
  <2>1. /\ Return(r, TRUE) /\ library' = library \cup {s} /\ req[r].written = 0
        /\ UNCHANGED <<session, declared, temp, video, content, spoiled, overtaken>>
    BY <1>1, <1>2, <1>5 DEF AddEntry, Unwritten
  <2>2. /\ temp' \in [Session -> File \cup {None}] /\ library' \subseteq Session
        /\ spoiled' \subseteq Session /\ content' \in [File -> Seq(Request \cup {None})]
    BY <2>1 DEF TypeOK
  <2>3. TRUE \in BOOLEAN
    OBVIOUS
  <2>4. QED
    BY <1>1, <2>1, <2>2, <2>3, ReturnStep
<1>6. CASE FinishFails(r)
  <2>1. /\ Return(r, FALSE) /\ temp' = [temp EXCEPT ![s] = None] /\ session[s] = None
        /\ UNCHANGED <<session, declared, video, content, library, spoiled, overtaken>>
    BY <1>1, <1>2, <1>6 DEF FinishFails, TakenOut
  <2>2. /\ temp' \in [Session -> File \cup {None}] /\ library' \subseteq Session
        /\ spoiled' \subseteq Session /\ content' \in [File -> Seq(Request \cup {None})]
        /\ \A t \in Session : temp'[t] = temp[t] \/ (temp'[t] = None /\ session[t] = None)
    BY <2>1 DEF TypeOK
  <2>3. QED
    BY <1>1, <2>1, <2>2, ReturnStep
<1>7. QED
  BY <1>3, <1>4, <1>5, <1>6 DEF FinishStep

LEMMA BeginStep ==
  ASSUME UploadIInv, NEW r \in Request, NEW s \in Session,
         BeginAppend(r, s) \/ BeginFinish(r, s)
  PROVE  Stored'
<1> USE DEF UploadIInv, Stored, UploadInv
<1>1. PICK p \in {"lock", "done", "move"} :
        /\ req' = [req EXCEPT ![r].s = s, ![r].pc = p]
        /\ p # "done" => session[s] # None
        /\ p = "move" => session'[s] = None
  BY DEF BeginAppend, BeginFinish, Complete, Swept, TypeOK
<1>2. /\ req[r].pc = "new" /\ UNCHANGED <<declared, chunkLock, video, content, library, overtaken>>
      /\ spoiled' \subseteq Session
  BY DEF BeginAppend, BeginFinish, TypeOK
<1>3. /\ session' \in [Session -> Sessions \cup {None}] /\ temp' \in [Session -> File \cup {None}]
      /\ \A t \in Session :
           \/ session'[t] = None /\ temp'[t] \in {None, temp[t]}
           \/ session[t] # None /\ session'[t] = session[t] /\ temp'[t] = temp[t]
  <2>1. /\ session \in [Session -> Sessions \cup {None}] /\ temp \in [Session -> File \cup {None}]
    BY DEF TypeOK, Sessions
  <2>2. /\ Swept \in [Session -> Sessions \cup {None}] /\ SweptTemp \in [Session -> File \cup {None}]
        /\ \A t \in Session :
             \/ Swept[t] = None /\ SweptTemp[t] \in {None, temp[t]}
             \/ session[t] # None /\ Swept[t] = session[t] /\ SweptTemp[t] = temp[t]
    BY <2>1 DEF Swept, SweptTemp, Stale
  <2>3. /\ session' \in {Swept, [Swept EXCEPT ![s] = None]}
        /\ temp' = SweptTemp \/ (temp' = [SweptTemp EXCEPT ![s] = None] /\ session' = [Swept EXCEPT ![s] = None])
    BY DEF BeginAppend, BeginFinish
  <2> HIDE DEF Swept, SweptTemp
  <2>4. QED
    BY <2>2, <2>3
<1> DEFINE x == [req[r] EXCEPT !.s = s, !.pc = p]
<1>4. req \in [Request -> Calls] /\ req[r] \in Calls
  BY DEF TypeOK, Calls
<1>5. /\ x.pc = p /\ x.fd = req[r].fd /\ x.s = s /\ x.written = req[r].written
      /\ x.ok = req[r].ok
  BY <1>4 DEF Calls
<1>6. x \in Calls
  <2>1. s \in Session \cup {None} /\ p \in Phase
    BY Phases
  <2>2. QED
    BY ONLY <2>1, <1>4, CallRecord DEF Calls
<1>7. req' = [req EXCEPT ![r] = x]
  BY <1>1, <1>4 DEF Calls
<1>8. /\ req' \in [Request -> Calls] /\ req'[r] = x
      /\ \A q \in Request \ {r} : req'[q] = req[q]
  BY <1>4, <1>6, <1>7
<1> HIDE DEF x
<1>9. ~req[r].ok /\ (p # "done" => declared[s] # 0)
  BY <1>1, <1>2 DEF Unwritten, Begun
<1>10. \A q \in Request :
         \/ req'[q] = req[q]
         \/ /\ req[q].pc = "new" /\ req'[q].fd = req[q].fd /\ ~req'[q].ok
            /\ req'[q].written = req[q].written /\ req'[q].s \in Session
            /\ \/ req'[q].pc = "done"
               \/ req'[q].pc = "lock" /\ declared[req'[q].s] # 0
               \/ /\ req'[q].pc = "move" /\ declared[req'[q].s] # 0
                  /\ session'[req'[q].s] = None
  BY <1>1, <1>2, <1>5, <1>8, <1>9
<1>11. \A t \in Session :
           \/ session'[t] = None /\ temp'[t] \in {None, temp[t]}
           \/ /\ session[t] # None /\ session'[t].received = session[t].received
              /\ temp'[t] = temp[t]
  BY <1>3
<1>12. QED
  BY <1>2, <1>3, <1>8, <1>10, <1>11, SweepStep

\* The call ends, and r's record is that of a call that failed.
LEMMA Ends ==
  ASSUME UploadIInv, NEW r \in Request, req[r].pc # "done",
         \/ req' = [req EXCEPT ![r].pc = "done", ![r].fd = None]
         \/ req' = [req EXCEPT ![r] = [req[r] EXCEPT !.pc = "done", !.fd = None]]
  PROVE  req' = [req EXCEPT ![r].pc = "done", ![r].fd = None, ![r].ok = FALSE]
<1>1. req \in [Request -> Calls] /\ req[r].ok = FALSE
  BY DEF UploadIInv, Stored, UploadInv, TypeOK, Calls, Unwritten
<1>2. [req[r] EXCEPT !.pc = "done", !.fd = None] = [req[r] EXCEPT !.pc = "done", !.fd = None, !.ok = FALSE]
  BY <1>1 DEF Calls
<1>3. req' = [req EXCEPT ![r] = [req[r] EXCEPT !.pc = "done", !.fd = None]]
  BY <1>1 DEF Calls
<1>4. QED
  BY <1>1, <1>2, <1>3 DEF Calls

\* What was cut off was outside the chunk lock.
LEMMA OverReturns ==
  ASSUME UploadIInv, NEW r \in Request, req[r].pc \in Late, Over(r), UNCHANGED chunkLock
  PROVE  Return(r, FALSE)
<1>1. req' = [req EXCEPT ![r].pc = "done", ![r].fd = None, ![r].ok = FALSE]
  BY Ends DEF Over, Late
<1>2. chunkLock \in [Session -> Request \cup {None}] /\ \A t \in Session : chunkLock[t] # r
  BY DEF UploadIInv, Stored, UploadInv, TypeOK, LockHeld, Late
<1>3. chunkLock' = [t \in Session |-> IF chunkLock[t] = r THEN None ELSE chunkLock[t]]
  BY <1>2
<1>4. QED
  BY <1>1, <1>3 DEF Return, Unlock

\* A call dropped where it awaits ends, or goes on with what it has begun.
LEMMA DroppedCall ==
  ASSUME UploadIInv, NEW r \in Request, Disconnect(r)
  PROVE  \/ Return(r, FALSE)
         \/ /\ req' \in [Request -> Calls]
            /\ req'[r].s = req[r].s /\ req'[r].ok = req[r].ok
            /\ req'[r].written = req[r].written /\ req'[r].prev = req[r].prev
            /\ \A q \in Request \ {r} : req'[q] = req[q]
            /\ \/ /\ req[r].pc = "open" /\ req'[r].pc = "late_open" /\ req'[r].fd = req[r].fd
               \/ /\ req[r].pc = "write" /\ req'[r].pc \in LateOnFile
                  /\ req'[r].fd = req[r].fd /\ req'[r].initial = req[r].initial
               \/ /\ req[r].pc = "trim" /\ req'[r].pc = "late_cut" /\ temp[req[r].s] # None
                  /\ req'[r].fd = temp[req[r].s] /\ req'[r].initial = req[r].prev
<1>1. PICK x \in Unfinished(r) \cup {[req[r] EXCEPT !.pc = "done", !.fd = None]} :
        req' = [req EXCEPT ![r] = x]
  BY DEF Disconnect
<1>2. /\ req \in [Request -> Calls] /\ req[r] \in Calls /\ Unlock(r) /\ req[r].pc # "done"
      /\ temp \in [Session -> File \cup {None}] /\ req[r].prev \in Nat
      /\ req[r].pc = "trim" => req[r].s \in Session
  BY DEF UploadIInv, Stored, UploadInv, TypeOK, Calls, Disconnect, Begun
<1>3. CASE x = [req[r] EXCEPT !.pc = "done", !.fd = None]
  BY <1>1, <1>2, <1>3, Ends DEF Return
<1>4. CASE x \in Unfinished(r)
  <2>1. \A p \in Phase : LET y == [req[r] EXCEPT !.pc = p] IN
          /\ y \in Calls /\ y.pc = p /\ y.s = req[r].s /\ y.ok = req[r].ok
          /\ y.written = req[r].written /\ y.prev = req[r].prev /\ y.fd = req[r].fd
          /\ y.initial = req[r].initial
    BY <1>2 DEF Calls
  <2>2. CASE req[r].pc = "open"
    <3>1. x = [req[r] EXCEPT !.pc = "late_open"]
      BY <1>4, <2>2 DEF Unfinished
    <3>2. QED
      BY <1>1, <1>2, <2>1, <2>2, <3>1, Phases
  <2>3. CASE req[r].pc = "write"
    <3>1. PICK p \in LateOnFile : x = [req[r] EXCEPT !.pc = p]
      BY <1>4, <2>3 DEF Unfinished, LateOnFile
    <3>2. p \in Phase
      BY Phases DEF LateOnFile
    <3>3. QED
      BY <1>1, <1>2, <2>1, <2>3, <3>1, <3>2
  <2>4. CASE req[r].pc = "trim"
    <3>1. PICK f \in File \cup {None} : f = temp[req[r].s]
      BY <1>2, <2>4
    <3>2. x = [req[r] EXCEPT !.pc = "late_cut", !.fd = f, !.initial = req[r].prev] /\ f # None
      BY <1>4, <2>4, <3>1 DEF Unfinished
    <3>3. /\ x \in Calls /\ x.pc = "late_cut" /\ x.s = req[r].s /\ x.ok = req[r].ok
          /\ x.written = req[r].written /\ x.prev = req[r].prev /\ x.fd = f
          /\ x.initial = req[r].prev
      BY <1>2, <3>2, Phases DEF Calls
    <3>4. QED
      BY <1>1, <1>2, <2>4, <3>1, <3>2, <3>3
  <2>5. req[r].pc \in {"open", "write", "trim"}
    BY <1>4 DEF Unfinished
  <2>6. QED
    BY <2>2, <2>3, <2>4, <2>5
<1>5. QED
  BY <1>1, <1>3, <1>4

LEMMA DropStep ==
  ASSUME UploadIInv, NEW r \in Request, Disconnect(r)
  PROVE  Stored'
<1> USE DEF UploadIInv, Stored, UploadInv, AppendsSerial
<1>1. /\ req[r].pc \notin {"new", "done"} /\ Unlock(r)
      /\ UNCHANGED <<session, declared, temp, video, content, library, overtaken>>
  BY DEF Disconnect
<1>2. spoiled' \subseteq Session
  <2>1. req[r].s \in Session /\ spoiled \subseteq Session
    BY <1>1 DEF Begun, TypeOK
  <2>2. QED
    BY <2>1 DEF Disconnect
<1>3. CASE Return(r, FALSE)
  BY <1>1, <1>2, <1>3, PlainReturn
<1>4. CASE ~Return(r, FALSE)
  <2>1. /\ req' \in [Request -> Calls]
        /\ req'[r].s = req[r].s /\ req'[r].ok = req[r].ok
        /\ req'[r].written = req[r].written /\ req'[r].prev = req[r].prev
        /\ \A q \in Request \ {r} : req'[q] = req[q]
    BY <1>4, DroppedCall
  <2>2. \/ /\ req[r].pc = "open" /\ req'[r].pc = "late_open" /\ req'[r].fd = req[r].fd
        \/ /\ req[r].pc = "write" /\ req'[r].pc \in LateOnFile
           /\ req'[r].fd = req[r].fd /\ req'[r].initial = req[r].initial
        \/ /\ req[r].pc = "trim" /\ req'[r].pc = "late_cut" /\ temp[req[r].s] # None
           /\ req'[r].fd = temp[req[r].s] /\ req'[r].initial = req[r].prev
    BY <1>4, DroppedCall
  <2>3. PICK s \in Session : s = req[r].s /\ chunkLock[s] = r
    BY <2>2 DEF Begun, LockHeld
  <2>4. /\ req[r].pc \in {"open", "write", "trim"}
        /\ req'[r].pc \in {"late_open", "late_write", "late_cut"}
    BY <2>2 DEF LateOnFile
  <2>5. /\ \A t \in Session : chunkLock'[t] = IF chunkLock[t] = r THEN None ELSE chunkLock[t]
        /\ chunkLock' \in [Session -> Request \cup {None}]
    BY <1>1 DEF Unlock, TypeOK
  <2>6. TypeOK'
    BY <1>1, <1>2, <2>1, <2>5 DEF TypeOK, Calls
  <2>7. LockHeld'
    BY <2>1, <2>4, <2>5, LockKept
  <2>8. CountedStored'
    <3>1. \A t \in Session : chunkLock'[t] # None =>
            chunkLock'[t] = chunkLock[t] /\ req'[chunkLock[t]] = req[chunkLock[t]]
      BY <2>1, <2>5 DEF TypeOK
    <3>2. QED
      BY <1>1, <3>1 DEF CountedStored, Length
  <2>9. CountsAcked'
    <3>1. \A t : AckedUnits(t)' = AckedUnits(t)
      BY <2>1, AckedKept
    <3>2. QED
      BY <1>1, <3>1, CountsKept
  <2>10. ChunksContiguous' /\ Begun' /\ TakenOut'
    BY <1>1, <2>1, <2>4 DEF ChunksContiguous, Begun, TakenOut
  <2>11. Unwritten'
    BY <1>1, <2>1, <2>4 DEF Unwritten
  <2>12. OwnFile'
    <3>1. req'[r].fd = req[r].fd \/ req'[r].fd = temp[s]
      BY <2>2, <2>3
    <3>2. \A t \in Session : req'[r].fd # None /\ req'[r].fd = temp[t] => t = s
      BY <2>3, <3>1 DEF OwnFile
    <3>3. \A q \in Request : req'[r].fd # None /\ req'[r].fd = req[q].fd => req[q].s = s
      BY <2>3, <3>1 DEF OwnFile
    <3>4. QED
      BY <1>1, <2>1, <2>3, <3>2, <3>3 DEF OwnFile
  <2>13. Appending'
    <3>1. ASSUME NEW q \in Request \ {r}
          PROVE  (AfterCounted(q) => AfterCounted(q)') /\ (AtEnd(q) => AtEnd(q)')
      BY <1>1, <2>1 DEF AfterCounted, AtEnd
    <3>2. CASE req[r].pc = "open"
      <4>1. req'[r].fd = None /\ req'[r].pc = "late_open"
        BY <2>2, <3>2 DEF Appending, LateOnFile
      <4>2. QED
        BY <1>1, <2>1, <3>1, <4>1 DEF Appending, LateOnFile
    <3>3. CASE req[r].pc = "write"
      <4>1. (AfterCounted(r) => AfterCounted(r)') /\ (AtEnd(r) => AtEnd(r)')
        BY <1>1, <2>1, <2>2, <3>3 DEF AfterCounted, AtEnd
      <4>2. req'[r].fd # None /\ req[r].fd # None /\ req'[r].pc \in LateOnFile
        BY <2>2, <3>3 DEF Appending
      <4>3. QED
        BY <1>1, <2>1, <3>1, <3>3, <4>1, <4>2 DEF Appending
    <3>4. CASE req[r].pc = "trim"
      <4>1. req'[r].fd # None /\ req'[r].pc = "late_cut" /\ req'[r].fd = temp[s] /\ req'[r].initial = req[r].prev
        BY <2>2, <2>3, <3>4
      <4>2. session[s] # None => req[r].prev = session[s].received /\ session[s].received \in Nat
        BY <2>3, UploadAssumption DEF CountedStored, TypeOK
      <4>3. AfterCounted(r)'
        BY <1>1, <2>1, <2>3, <4>1, <4>2 DEF AfterCounted
      <4>4. QED
        BY <1>1, <2>1, <3>1, <4>1, <4>3 DEF Appending, LateOnFile
    <3>5. QED
      BY <2>4, <3>2, <3>3, <3>4
  <2>14. QED
    BY <2>6, <2>7, <2>8, <2>9, <2>10, <2>11, <2>12, <2>13
<1>5. QED
  BY <1>3, <1>4

\* The file at the path of s is found, or made, empty; no other is touched.
LEMMA FileOpened ==
  ASSUME UploadIInv, NEW s \in Session, NEW f \in File, Opens(s, f)
  PROVE  /\ temp' \in [Session -> File \cup {None}] /\ temp'[s] = f
         /\ \A t \in Session \ {s} : temp'[t] = temp[t] /\ temp[t] # f
         /\ temp[s] # None => temp[s] = f /\ content' = content
         /\ content' \in [File -> Seq(Request \cup {None})]
         /\ \A e \in File : content'[e] = content[e] \/ (content'[e] = <<>> /\ Free(e) /\ e = f)
         /\ temp[s] = None => content'[f] = <<>>
         /\ \A q \in Request : req[q].fd = f => req[q].s = s /\ content' = content
         /\ \A t \in Session : Length(t)' = Length(t)
<1> USE DEF UploadIInv, Stored, UploadInv
<1>1. /\ IF temp[s] = None THEN Free(f) ELSE f = temp[s]
      /\ temp' = [temp EXCEPT ![s] = f]
      /\ content' = IF temp[s] = None THEN [content EXCEPT ![f] = <<>>] ELSE content
  BY DEF Opens
<1>2. /\ temp' \in [Session -> File \cup {None}] /\ temp'[s] = f
      /\ \A t \in Session \ {s} : temp'[t] = temp[t] /\ temp[t] # f
      /\ temp[s] # None => temp[s] = f /\ content' = content
  BY <1>1, UploadAssumption DEF TypeOK, Free, OwnFile
<1>3. /\ content' \in [File -> Seq(Request \cup {None})]
      /\ \A e \in File : content'[e] = content[e] \/ (content'[e] = <<>> /\ Free(e) /\ e = f)
      /\ temp[s] = None => content'[f] = <<>>
  BY <1>1 DEF TypeOK
<1>4. \A q \in Request : req[q].fd = f => req[q].s = s /\ content' = content
  BY <1>1, UploadAssumption DEF Free, OwnFile
<1>5. \A t \in Session \ {s} : Length(t)' = Length(t)
  BY <1>2, <1>3 DEF Length, TypeOK, Free
<1>6. Length(s)' = Length(s)
  BY <1>2, <1>3, UploadAssumption DEF Length
<1>7. QED
  BY <1>2, <1>3, <1>4, <1>5, <1>6

\* What a call cut off still did, and then it is over.
LEMMA LateOpenStep ==
  ASSUME UploadIInv, NEW r \in Request, LateOpen(r)
  PROVE  Stored'
<1> USE DEF UploadIInv, Stored, UploadInv, AppendsSerial
<1>1. PICK s \in Session, f \in File : s = req[r].s /\ Opens(s, f)
  BY DEF LateOpen, Begun
<1>2. /\ req[r].pc = "late_open" /\ Over(r)
      /\ UNCHANGED <<session, declared, chunkLock, video, library, spoiled, overtaken>>
  BY DEF LateOpen
<1>3. /\ temp' \in [Session -> File \cup {None}] /\ temp'[s] = f
      /\ \A t \in Session \ {s} : temp'[t] = temp[t] /\ temp[t] # f
      /\ temp[s] # None => temp[s] = f /\ content' = content
      /\ content' \in [File -> Seq(Request \cup {None})]
      /\ \A e \in File : content'[e] = content[e] \/ (content'[e] = <<>> /\ Free(e) /\ e = f)
      /\ \A q \in Request : req[q].fd = f => req[q].s = s /\ content' = content
      /\ \A t \in Session : Length(t)' = Length(t)
  BY <1>1, FileOpened
<1>4. /\ req' \in [Request -> Calls]
      /\ req'[r].pc = "done" /\ req'[r].fd = None /\ req'[r].ok = req[r].ok /\ req'[r].s = s
      /\ req'[r].written = req[r].written /\ req'[r].prev = req[r].prev
      /\ \A q \in Request \ {r} : req'[q] = req[q]
  <2>1. req \in [Request -> Calls] /\ req[r] \in Calls /\ "done" \in Phase
    BY Phases DEF TypeOK, Calls
  <2>2. req' = [req EXCEPT ![r] = [req[r] EXCEPT !.pc = "done", !.fd = None]]
    BY <1>2, <2>1 DEF Over, Calls
  <2>3. [req[r] EXCEPT !.pc = "done", !.fd = None] \in Calls
    BY <2>1 DEF Calls
  <2>4. QED
    BY <1>1, <2>1, <2>2, <2>3 DEF Calls
<1>5. TypeOK'
  BY <1>2, <1>3, <1>4 DEF TypeOK, Calls
<1>6. LockHeld'
  BY <1>1, <1>2, <1>4, LockKept
<1>7. CountedStored'
  <2>1. \A t \in Session : chunkLock[t] # None => req'[chunkLock[t]].prev = req[chunkLock[t]].prev
    BY <1>4 DEF TypeOK
  <2>2. QED
    BY <1>2, <1>3, <2>1 DEF CountedStored
<1>8. CountsAcked'
  <2>1. \A t : AckedUnits(t)' = AckedUnits(t)
    BY <1>1, <1>4, AckedKept
  <2>2. QED
    BY <1>2, <2>1, CountsKept
<1>9. ChunksContiguous'
  <2>1. \A q \in Request : req'[q].s = req[q].s
    BY <1>1, <1>4
  <2>2. QED
    BY <1>2, <1>3, <2>1 DEF ChunksContiguous
<1>10. Begun' /\ TakenOut'
  BY <1>1, <1>2, <1>4 DEF Begun, TakenOut
<1>11. Unwritten'
  <2>1. \A q \in Request :
          (\A e \in File : \A i \in DOMAIN content[e] : content[e][i] # q)
            => \A e \in File : \A i \in DOMAIN content'[e] : content'[e][i] # q
    BY <1>3
  <2>2. QED
    BY <1>2, <1>4, <2>1 DEF Unwritten
<1>12. OwnFile'
  <2>1. \A q \in Request, t \in Session : req[q].fd # None /\ req[q].fd = temp'[t] => t = req[q].s
    BY <1>3 DEF OwnFile
  <2>2. \A t, u \in Session : temp'[t] # None /\ temp'[t] = temp'[u] => t = u
    BY <1>3 DEF OwnFile
  <2>3. QED
    BY <1>4, <2>1, <2>2 DEF OwnFile
<1>13. Appending'
  <2>1. ASSUME NEW q \in Request \ {r}, req[q].fd # None
        PROVE  (AfterCounted(q) => AfterCounted(q)') /\ (AtEnd(q) => AtEnd(q)')
    <3>1. req[q].s \in Session /\ req'[q] = req[q] /\ req[q].fd \in File
      BY <1>4, <2>1 DEF Begun, Appending, LateOnFile, TypeOK
    <3>2. content'[req[q].fd] = content[req[q].fd]
      BY <1>3, <3>1
    <3>3. temp[req[q].s] = req[q].fd => temp'[req[q].s] = req[q].fd
      BY <1>3, <2>1, <3>1
    <3>4. QED
      BY <1>2, <3>1, <3>2, <3>3 DEF AfterCounted, AtEnd
  <2>2. QED
    BY <1>2, <1>4, <2>1 DEF Appending, LateOnFile
<1>14. QED
  BY <1>5, <1>6, <1>7, <1>8, <1>9, <1>10, <1>11, <1>12, <1>13

LEMMA LateWriteStep ==
  ASSUME UploadIInv, NEW r \in Request, LateWrite(r)
  PROVE  Stored'
<1> USE DEF UploadIInv, Stored, UploadInv, AppendsSerial
<1>1. /\ req[r].pc = "late_write" /\ Over(r)
      /\ content' = [content EXCEPT ![req[r].fd] = Append(@, r)]
      /\ UNCHANGED <<session, declared, chunkLock, temp, video, library, spoiled, overtaken>>
  BY DEF LateWrite
<1>2. PICK f \in File : f = req[r].fd
  BY <1>1 DEF Appending, LateOnFile, TypeOK
<1>3. /\ req' \in [Request -> Calls]
      /\ req'[r].pc = "done" /\ req'[r].fd = None /\ req'[r].ok = req[r].ok
      /\ req'[r].s = req[r].s /\ req'[r].written = req[r].written /\ req'[r].prev = req[r].prev
      /\ \A q \in Request \ {r} : req'[q] = req[q]
  <2>1. req \in [Request -> Calls] /\ req[r] \in Calls /\ "done" \in Phase
    BY Phases DEF TypeOK, Calls
  <2>2. req' = [req EXCEPT ![r] = [req[r] EXCEPT !.pc = "done", !.fd = None]]
    BY <1>1, <2>1 DEF Over, Calls
  <2>3. [req[r] EXCEPT !.pc = "done", !.fd = None] \in Calls
    BY <2>1 DEF Calls
  <2>4. QED
    BY <2>1, <2>2, <2>3 DEF Calls
<1>4. /\ content' \in [File -> Seq(Request \cup {None})] /\ ChunksContiguous'
      /\ \A t \in Session : Length(t) \in Nat /\ Length(t)' \in Nat /\ Length(t)' >= Length(t)
      /\ \A q \in Request \ {r} :
           /\ (\A e \in File : \A i \in DOMAIN content[e] : content[e][i] # q)
                => \A e \in File : \A i \in DOMAIN content'[e] : content'[e][i] # q
           /\ req[q].fd # None /\ req[q].s \notin overtaken =>
                content'[req[q].fd] = content[req[q].fd]
  <2>1. /\ req[r].pc \in {"write", "late_write"} /\ content' = [content EXCEPT ![f] = Append(content[f], r)]
        /\ \A q \in Request : req'[q].s = req[q].s
        /\ UNCHANGED <<temp, overtaken>>
    BY <1>1, <1>2, <1>3
  <2>2. QED
    BY <1>2, <2>1, UnitAdded
<1>5. TypeOK'
  BY <1>1, <1>3, <1>4 DEF TypeOK, Calls
<1>6. LockHeld'
  BY <1>1, <1>3, LockKept
<1>7. CountedStored'
  <2>1. \A t \in Session : chunkLock[t] # None => req'[chunkLock[t]].prev = req[chunkLock[t]].prev
    BY <1>3 DEF TypeOK
  <2>2. \A t \in Session : session[t] # None => session[t].received \in Nat
    BY DEF TypeOK
  <2>3. QED
    BY <1>1, <1>4, <2>1, <2>2 DEF CountedStored
<1>8. CountsAcked'
  <2>1. \A t : AckedUnits(t)' = AckedUnits(t)
    BY <1>1, <1>3, AckedKept
  <2>2. QED
    BY <1>1, <2>1, CountsKept
<1>9. Begun' /\ TakenOut'
  BY <1>1, <1>3 DEF Begun, TakenOut
<1>10. Unwritten'
  BY <1>1, <1>3, <1>4 DEF Unwritten
<1>11. OwnFile'
  BY <1>1, <1>3, OwnFileKept
<1>12. Appending'
  <2>1. ASSUME NEW q \in Request \ {r}, req[q].fd # None, req[q].s \notin overtaken
        PROVE  (AfterCounted(q) => AfterCounted(q)') /\ (AtEnd(q) => AtEnd(q)')
    <3>1. req'[q] = req[q] /\ content'[req[q].fd] = content[req[q].fd]
      BY <1>3, <1>4, <2>1
    <3>2. QED
      BY <1>1, <3>1 DEF AfterCounted, AtEnd
  <2>2. QED
    BY <1>1, <1>3, <2>1 DEF Appending, LateOnFile
<1>13. QED
  BY <1>4, <1>5, <1>6, <1>7, <1>8, <1>9, <1>10, <1>11, <1>12

LEMMA LateCutStep ==
  ASSUME UploadIInv, NEW r \in Request, LateCut(r)
  PROVE  Stored'
<1>1. /\ req[r].pc = "late_cut" /\ Over(r) /\ content' = SetLen(req[r].fd, req[r].initial)
      /\ UNCHANGED <<session, declared, chunkLock, temp, video, library, spoiled, overtaken>>
  BY DEF LateCut
<1>2. PICK f \in File, n \in Nat : f = req[r].fd /\ n = req[r].initial
  BY <1>1 DEF UploadIInv, Stored, UploadInv, Appending, LateOnFile, TypeOK
<1>3. Return(r, FALSE)
  BY <1>1, OverReturns DEF Late
<1>4. /\ \A q \in Request \ {r} : req[q].fd = f => req[q].s \in overtaken
      /\ \A t \in Session : session[t] # None /\ temp[t] = f =>
           t \in overtaken \/ n >= session[t].received
  BY <1>2, SoleWriter
<1>5. /\ content' \in [File -> Seq(Request \cup {None})] /\ Len(content'[f]) = n
      /\ \A e \in File \ {f} : content'[e] = content[e]
      /\ \A i \in DOMAIN content'[f] :
            content'[f][i] = IF i \in DOMAIN content[f] THEN content[f][i] ELSE None
  BY <1>1, <1>2, CutBack
<1>6. temp' \in [Session -> File \cup {None}] /\ library' \subseteq Session /\ spoiled' \subseteq Session
  BY <1>1 DEF UploadIInv, Stored, UploadInv, TypeOK
<1>7. ASSUME NEW e \in File
      PROVE  \/ content'[e] = content[e]
             \/ /\ \A q \in Request \ {r} : req[q].fd = e => req[q].s \in overtaken
                /\ \A t \in Session : session[t] # None /\ temp[t] = e =>
                     t \in overtaken \/ Len(content'[e]) >= session[t].received
                /\ \A i \in DOMAIN content'[e] :
                     content'[e][i] = IF i \in DOMAIN content[e] THEN content[e][i] ELSE None
  BY <1>4, <1>5
<1>8. QED
  BY <1>1, <1>3, <1>5, <1>6, <1>7, ReturnStep

LEMMA StoredNext == UploadIInv /\ [Next]_vars => Stored'
<1> SUFFICES ASSUME UploadIInv, [Next]_vars PROVE Stored'
  OBVIOUS
<1>0. /\ TypeOK /\ req \in [Request -> Calls] /\ session \in [Session -> Sessions \cup {None}]
      /\ temp \in [Session -> File \cup {None}] /\ spoiled \subseteq Session
  BY DEF UploadIInv, Stored, UploadInv, TypeOK, Calls, Sessions
<1>1. ASSUME NEW s \in Session, NEW size \in Declared, StartSession(s, size) PROVE Stored'
  BY <1>1, StartStep
<1>2. ASSUME NEW r \in Request, NEW s \in Session, BeginAppend(r, s) \/ BeginFinish(r, s)
      PROVE  Stored'
  BY <1>2, BeginStep
<1>3. ASSUME NEW r \in Request, AppendStep(r) \/ FinishStep(r) PROVE Stored'
  BY <1>3, AppendNext, FinishNext
<1>4. ASSUME NEW r \in Request, Disconnect(r) \/ LateStep(r) PROVE Stored'
  BY <1>4, DropStep, LateOpenStep, LateWriteStep, LateCutStep DEF LateStep
<1>5. ASSUME NEW s \in Session, TimePasses(s) PROVE Stored'
  <2>1. /\ session[s] # None /\ session' = [session EXCEPT ![s].stale = TRUE]
        /\ UNCHANGED <<declared, chunkLock, temp, video, content, library, req, spoiled, overtaken>>
    BY <1>5 DEF TimePasses
  <2>2. /\ session' \in [Session -> Sessions \cup {None}]
        /\ \A t \in Session :
           \/ session'[t] = None /\ temp'[t] \in {None, temp[t]}
           \/ /\ session[t] # None /\ session'[t].received = session[t].received
              /\ temp'[t] = temp[t]
    BY <1>0, <2>1 DEF Sessions
  <2>3. QED
    BY <1>0, <2>1, <2>2, SweepStep
<1>6. CASE Sweep
  <2>1. /\ session' = Swept /\ temp' = SweptTemp
        /\ UNCHANGED <<declared, chunkLock, video, content, library, req, spoiled, overtaken>>
    BY <1>6 DEF Sweep
  <2>2. /\ session' \in [Session -> Sessions \cup {None}] /\ temp' \in [Session -> File \cup {None}]
        /\ \A t \in Session :
           \/ session'[t] = None /\ temp'[t] \in {None, temp[t]}
           \/ /\ session[t] # None /\ session'[t].received = session[t].received
              /\ temp'[t] = temp[t]
    BY <1>0, <2>1 DEF Swept, SweptTemp, Stale
  <2>3. QED
    BY <1>0, <2>1, <2>2, SweepStep
<1>7. CASE Restart
  BY <1>7, RestartStep
<1>8. CASE UNCHANGED vars
  <2>1. UNCHANGED <<session, declared, chunkLock, temp, video, content, library, req, spoiled, overtaken>>
    BY <1>8 DEF vars
  <2>2. QED
    BY <2>1 DEF UploadIInv, Stored, UploadInv, TypeOK, LockHeld, CountedStored, Length, AppendsSerial,
                CountsAcked, AckedUnits, Acked, ChunksContiguous, Begun, Unwritten, TakenOut,
                OwnFile, Appending, AfterCounted, AtEnd
<1>9. QED
  BY <1>1, <1>2, <1>3, <1>4, <1>5, <1>6, <1>7, <1>8 DEF Next

\* A call returns: of its record, pc, fd and ok change.
LEMMA ReturnCall ==
  ASSUME TypeOK, NEW r \in Request, NEW ok \in BOOLEAN, Return(r, ok)
  PROVE  /\ req'[r].pc = "done" /\ req'[r].fd = None /\ req'[r].ok = ok
         /\ req'[r].s = req[r].s /\ req'[r].written = req[r].written
         /\ req'[r].prev = req[r].prev
         /\ \A q \in Request \ {r} : req'[q] = req[q]
         /\ \A t \in Session : chunkLock'[t] = IF chunkLock[t] = r THEN None ELSE chunkLock[t]
<1>1. req \in [Request -> Calls]
  BY DEF TypeOK, Calls
<1>2. req' = [req EXCEPT ![r] = [req[r] EXCEPT !.pc = "done", !.fd = None, !.ok = ok]]
  BY <1>1 DEF Return, Calls
<1>3. QED
  BY <1>1, <1>2 DEF Return, Unlock, TypeOK, Calls

\* A call gets into the lock by LockChunk, and is late on a file after a Disconnect.
CallsMove ==
  \A x \in Request :
    /\ req'[x].pc \in LateOnFile =>
         /\ req'[x].s = req[x].s
         /\ req[x].pc \in LateOnFile \/ (req[x].pc \in InLock /\ Disconnect(x))
    /\ req'[x].pc \in InLock =>
         req'[x].s = req[x].s /\ (req[x].pc \in InLock \/ LockChunk(x))

LEMMA CallsMoveNext == UploadIInv /\ [Next]_vars => CallsMove /\ overtaken \subseteq overtaken'
<1> SUFFICES ASSUME UploadIInv, [Next]_vars PROVE CallsMove /\ overtaken \subseteq overtaken'
  OBVIOUS
<1>0. req \in [Request -> Calls] /\ TypeOK
  BY DEF UploadIInv, Stored, UploadInv, TypeOK, Calls
<1> USE DEF CallsMove, InLock, LateOnFile
<1>1. CASE /\ UNCHANGED <<req, overtaken>>
  BY <1>1
<1>2. ASSUME NEW r \in Request, NEW s \in Session, BeginAppend(r, s) \/ BeginFinish(r, s)
      PROVE  CallsMove /\ overtaken \subseteq overtaken'
  <2>1. PICK p \in {"lock", "done", "move"} : req' = [req EXCEPT ![r].s = s, ![r].pc = p] /\ overtaken' = overtaken
    BY <1>2 DEF BeginAppend, BeginFinish
  <2>2. \A q \in Request : q # r => req'[q] = req[q]
    BY <1>0, <2>1
  <2>3. req'[r].pc = p
    BY <1>0, <2>1 DEF Calls
  <2>4. QED
    BY <2>1, <2>2, <2>3
<1>3. ASSUME NEW r \in Request, LockChunk(r), req'[r].pc \in InLock
      PROVE  CallsMove /\ overtaken \subseteq overtaken'
  <2>1. req'[r].s = req[r].s /\ \A q \in Request : q # r => req'[q] = req[q]
    BY <1>0, <1>3 DEF LockChunk, Return, Calls
  <2>2. overtaken \subseteq overtaken'
    BY <1>3 DEF LockChunk, Overtakes
  <2>3. QED
    BY <1>3, <2>1, <2>2
<1>4. ASSUME NEW r \in Request, Disconnect(r)
      PROVE  CallsMove /\ overtaken \subseteq overtaken'
  <2>1. overtaken' = overtaken
    BY <1>4 DEF Disconnect
  <2>2. CASE Return(r, FALSE)
    BY <1>0, <2>1, <2>2, ReturnCall
  <2>3. CASE ~Return(r, FALSE)
    <3>1. /\ req'[r].s = req[r].s /\ \A q \in Request \ {r} : req'[q] = req[q]
          /\ req[r].pc \in InLock /\ req'[r].pc \notin InLock
      BY <1>4, <2>3, DroppedCall
    <3>2. CASE req[r].pc \in InLock /\ Disconnect(r)
      <4>1. \A x \in Request : req'[x] = req[x] \/ x = r
        BY <3>1
      <4>2. ASSUME NEW x \in Request, req'[x].pc \in LateOnFile
            PROVE  /\ req'[x].s = req[x].s
                   /\ req[x].pc \in LateOnFile \/ (req[x].pc \in InLock /\ Disconnect(x))
        <5>1. CASE x = r
          BY <3>1, <3>2, <5>1
        <5>2. CASE x # r
          BY <4>1, <4>2, <5>2
        <5>3. QED
          BY <5>1, <5>2
      <4>3. ASSUME NEW x \in Request, req'[x].pc \in InLock
            PROVE  req'[x].s = req[x].s /\ req[x].pc \in InLock
        <5>1. x # r
          BY <3>1, <4>3
        <5>2. QED
          BY <4>1, <4>3, <5>1
      <4>4. QED
        BY <2>1, <4>2, <4>3
    <3>3. QED
      BY <1>4, <3>1, <3>2
  <2>4. QED
    BY <2>2, <2>3
<1>5. ASSUME NEW r \in Request, \E ok \in BOOLEAN : Return(r, ok), overtaken' = overtaken
      PROVE  CallsMove /\ overtaken \subseteq overtaken'
  BY <1>0, <1>5, ReturnCall
<1>6. ASSUME NEW r \in Request, LateStep(r)
      PROVE  CallsMove /\ overtaken \subseteq overtaken'
  <2>1. Over(r) /\ overtaken' = overtaken
    BY <1>6 DEF LateStep, LateOpen, LateWrite, LateCut
  <2>2. req'[r].pc = "done" /\ \A q \in Request : q # r => req'[q] = req[q]
    BY <1>0, <2>1 DEF Over, Calls
  <2>3. QED
    BY <2>1, <2>2
<1>7. ASSUME NEW r \in Request, OpenTemp(r) \/ WriteFrame(r) \/ OverLimit(r)
      PROVE  CallsMove /\ overtaken \subseteq overtaken'
  <2>1. /\ req'[r].s = req[r].s /\ \A q \in Request : q # r => req'[q] = req[q]
        /\ req'[r].pc \in InLock /\ req[r].pc \in InLock
    <3>1. CASE OpenTemp(r)
      BY <1>0, <3>1 DEF OpenTemp, Calls
    <3>2. CASE WriteFrame(r)
      BY <1>0, <3>2 DEF WriteFrame, Calls
    <3>3. CASE OverLimit(r)
      BY <1>0, <3>3 DEF OverLimit, Calls
    <3>4. QED
      BY <1>7, <3>1, <3>2, <3>3
  <2>2. overtaken' = overtaken
    BY <1>7 DEF OpenTemp, WriteFrame, OverLimit
  <2>3. QED
    BY <2>1, <2>2
<1>8. ASSUME NEW r \in Request, AppendStep(r) PROVE CallsMove /\ overtaken \subseteq overtaken'
  <2>1. CASE LockChunk(r)
    <3>1. CASE session[req[r].s] # None
      <4>1. req'[r].pc = "open"
        BY <1>0, <2>1, <3>1 DEF LockChunk, Calls
      <4>2. QED
        BY <1>3, <2>1, <4>1
    <3>2. CASE session[req[r].s] = None
      BY <1>5, <2>1, <3>2 DEF LockChunk
    <3>3. QED
      BY <3>1, <3>2
  <2>2. CASE RejectChunk(r) \/ CountChunk(r) \/ TrimUpload(r)
    BY <1>5, <2>2 DEF RejectChunk, CountChunk, TrimUpload
  <2>3. QED
    BY <1>7, <1>8, <2>1, <2>2 DEF AppendStep
<1>9. ASSUME NEW r \in Request, FinishStep(r) PROVE CallsMove /\ overtaken \subseteq overtaken'
  <2>1. CASE MoveVideo(r) \/ ConvertVideo(r)
    <3>1. req' = [req EXCEPT ![r].pc = "library"] /\ overtaken' = overtaken
      BY <2>1 DEF MoveVideo, ConvertVideo
    <3>2. req'[r].pc = "library" /\ \A q \in Request : q # r => req'[q] = req[q]
      BY <1>0, <3>1 DEF Calls
    <3>3. QED
      BY <3>1, <3>2
  <2>2. CASE ReencodeVideo(r)
    BY <1>1, <2>2 DEF ReencodeVideo
  <2>3. CASE AddEntry(r) \/ FinishFails(r)
    BY <1>5, <2>3 DEF AddEntry, FinishFails
  <2>4. QED
    BY <1>9, <2>1, <2>2, <2>3 DEF FinishStep
<1>10. CASE Restart
  <2>1. overtaken' = overtaken /\ \A q \in Request : req'[q].pc \in {"new", "done"}
    BY <1>0, <1>10 DEF Restart, Calls
  <2>2. QED
    BY <2>1
<1>11. ASSUME NEW s \in Session, NEW size \in Declared, StartSession(s, size)
       PROVE  UNCHANGED <<req, overtaken>>
  BY <1>11 DEF StartSession
<1>12. ASSUME NEW s \in Session, TimePasses(s) PROVE UNCHANGED <<req, overtaken>>
  BY <1>12 DEF TimePasses
<1>13. Sweep \/ UNCHANGED vars => UNCHANGED <<req, overtaken>>
  BY DEF Sweep, vars
<1>14. QED
  BY <1>1, <1>2, <1>4, <1>6, <1>8, <1>9, <1>10, <1>11, <1>12, <1>13 DEF Next

LEMMA OneWriterNext == UploadIInv /\ [Next]_vars => OneWriter'
<1> SUFFICES ASSUME UploadIInv, [Next]_vars,
                    NEW r \in Request, NEW q \in Request, req'[r].pc \in LateOnFile,
                    req'[q].pc \in InLock \cup LateOnFile, req'[r].s = req'[q].s,
                    r # q, req'[r].s \notin overtaken'
             PROVE  FALSE
  BY DEF OneWriter
<1>1. CallsMove /\ overtaken \subseteq overtaken'
  BY CallsMoveNext
<1>2. req[r].pc \in InLock \cup LateOnFile /\ req'[r].s = req[r].s /\ req'[q].s = req[q].s
  BY <1>1 DEF CallsMove
<1>3. req[r].s \in Session
  BY <1>2 DEF UploadIInv, Stored, Begun, InLock, LateOnFile
<1>4. CASE req[q].pc \in InLock \cup LateOnFile
  <2>1. CASE req[q].pc \in LateOnFile \/ req[r].pc \in LateOnFile
    BY <1>1, <1>2, <1>4, <2>1 DEF UploadIInv, OneWriter
  <2>2. CASE req[q].pc \in InLock /\ req[r].pc \in InLock
    <3>1. chunkLock[req[r].s] = r /\ chunkLock[req[r].s] = q
      <4>1. \A x \in Request, s \in Session : req[x].s = s /\ req[x].pc \in InLock => chunkLock[s] = x
        BY DEF UploadIInv, Stored, UploadInv, LockHeld, InLock
      <4>2. QED
        BY <1>2, <1>3, <2>2, <4>1
    <3>2. QED
      BY <3>1
  <2>3. QED
    BY <1>2, <1>4, <2>1, <2>2
<1>5. CASE LockChunk(q) /\ req'[q].pc \in InLock
  <2>1. req \in [Request -> Calls]
    BY DEF UploadIInv, Stored, UploadInv, TypeOK, Calls
  <2>2. req'[r] = req[r]
    BY <1>5, <2>1 DEF LockChunk, Return, Calls
  <2>3. session[req[q].s] # None
    BY <1>5, <2>1 DEF LockChunk, Return, Calls, InLock
  <2>4. Overtakes(req[q].s)
    BY <1>5, <2>3 DEF LockChunk
  <2>5. QED
    BY <1>2, <2>2, <2>4 DEF Overtakes, LateOnFile
<1>6. QED
  BY <1>1, <1>4, <1>5 DEF CallsMove

LEMMA UploadIInvNext == UploadIInv /\ [Next]_vars => UploadIInv'
BY StoredNext, OneWriterNext DEF UploadIInv

(***************************************************************************)
(* UploadSafe: the bytes a session counts are the chunks it answered with  *)
(* success, they are in its file, and no two chunks mix in it, whoever     *)
(* fails, is cut off, is swept away or comes at the same time.             *)
(***************************************************************************)
THEOREM UploadSafe == Spec => []UploadInv
<1>1. UploadIInv => UploadInv
  BY DEF UploadIInv, Stored
<1>2. QED
  BY <1>1, UploadIInvInit, UploadIInvNext, PTL DEF Spec

(***************************************************************************)
(* PublishedExact.  Unused: nothing has the name of a session before it is *)
(* started.  Apart: a video is nobody's temporary file, and open only in a *)
(* call that finish_session outran, or that was cut off.  Gathered: the    *)
(* file of a session that goes on holds what was answered, and what the    *)
(* call in the lock has written.  Sealed: once a session is taken out      *)
(* complete, nobody is at work on it, and its file holds what was          *)
(* answered, wherever it is.  Marked: what a call cut off still does to a  *)
(* file is known of the session.  Finishing: one finish at a time has a    *)
(* session, and the file is there until it is moved.                       *)
(***************************************************************************)
Count(c, x) == Cardinality({i \in DOMAIN c : c[i] = x})
Inside(r, s) == IF temp[s] = None THEN 0 ELSE Units(r, temp[s])
Share(r, s) == IF r \in Acked(s) \/ chunkLock[s] = r THEN req[r].written ELSE 0
Uncounted(s) == IF chunkLock[s] = None THEN 0 ELSE req[chunkLock[s]].written
CutTo(c, n) == [i \in 1..n |-> IF i <= Len(c) THEN c[i] ELSE None]
\* The units of x in c are those after the first n.
LastOf(c, n, x) == \A i \in DOMAIN c : c[i] = x <=> i > n
ToTrim(s, r) ==
  chunkLock[s] = r /\ req[r].pc = "trim" /\ temp[s] # None =>
    LastOf(content[temp[s]], req[r].prev, r)
Collected(s) ==
  /\ Length(s) = session[s].received + Uncounted(s)
  /\ \A r \in Request : Inside(r, s) = Share(r, s) /\ ToTrim(s, r)

At(s, p) == \E r \in Request : req[r].s = s /\ req[r].pc = p
Closing(s) == s \in library \/ At(s, "move") \/ At(s, "library")
Exactly(s, f) ==
  /\ declared[s] \in {None, Len(content[f])}
  /\ \A r \in Request : Units(r, f) = IF r \in Acked(s) THEN req[r].written ELSE 0
Closed(s) ==
  /\ session[s] = None /\ chunkLock[s] = None
  /\ At(s, "move") /\ temp[s] # None => Exactly(s, temp[s])
  /\ s \in library \/ At(s, "library") => video[s] # None /\ Exactly(s, video[s])

Unused == \A s \in Session : declared[s] = 0 => temp[s] = None /\ s \notin library
Apart ==
  /\ \A s, t \in Session : temp[s] # None => temp[s] # video[t]
  /\ \A s, t \in Session : video[s] # None /\ video[s] = video[t] => s = t
  /\ \A r \in Request, t \in Session :
       req[r].fd # None /\ req[r].fd = video[t] => t \in spoiled
Gathered == \A s \in Session \ spoiled : session[s] # None => Collected(s)
Sealed == \A s \in Session \ spoiled : Closing(s) => Closed(s)
Published == Unused /\ Apart /\ Gathered /\ Sealed
Marked ==
  /\ overtaken \subseteq spoiled
  /\ \A r \in Request : req[r].pc \in LateOnFile => req[r].s \in spoiled
InFinish == {"move", "library"}
Finishing ==
  /\ \A r, q \in Request :
       {req[r].pc, req[q].pc} \subseteq InFinish /\ req[r].s = req[q].s => r = q
  /\ \A r \in Request :
       req[r].pc = "move" /\ req[r].s \notin spoiled => temp[req[r].s] # None

LEMMA CountAppend ==
  ASSUME NEW S, NEW c \in Seq(S), NEW x \in S, IsFiniteSet(DOMAIN c)
  PROVE  /\ Count(Append(c, x), x) = Count(c, x) + 1
         /\ \A y : y # x => Count(Append(c, x), y) = Count(c, y)
<1>1. /\ DOMAIN Append(c, x) = DOMAIN c \cup {Len(c) + 1} /\ Len(c) + 1 \notin DOMAIN c
      /\ Append(c, x)[Len(c) + 1] = x /\ \A i \in DOMAIN c : Append(c, x)[i] = c[i]
  OBVIOUS
<1>2. {i \in DOMAIN Append(c, x) : Append(c, x)[i] = x} = {i \in DOMAIN c : c[i] = x} \cup {Len(c) + 1}
  BY <1>1
<1>3. IsFiniteSet({i \in DOMAIN c : c[i] = x})
  BY FS_Subset
<1>4. Len(c) + 1 \notin {i \in DOMAIN c : c[i] = x}
  BY <1>1
<1>5. Count(Append(c, x), x) = Count(c, x) + 1
  BY <1>2, <1>3, <1>4, FS_AddElement DEF Count
<1>6. ASSUME NEW y, y # x
      PROVE  {i \in DOMAIN Append(c, x) : Append(c, x)[i] = y} = {i \in DOMAIN c : c[i] = y}
  BY <1>1, <1>6
<1>7. QED
  BY <1>5, <1>6 DEF Count

LEMMA SeqFinite == ASSUME NEW S, NEW c \in Seq(S) PROVE IsFiniteSet(DOMAIN c)
<1>1. DOMAIN c = 1..Len(c) /\ Len(c) \in Int /\ 1 \in Int
  OBVIOUS
<1>2. QED
  BY <1>1, FS_Interval

\* Cut back to n, a file loses the units of x if those are the rest of it.
LEMMA CountCut ==
  ASSUME NEW c \in Seq(Request \cup {None}), NEW n \in 0..Len(c), NEW d, NEW x,
         d = CutTo(c, n), LastOf(c, n, x)
  PROVE  /\ Len(d) = n /\ Count(d, x) = 0
         /\ \A y : y # x => Count(d, y) = Count(c, y)
<1>1. DOMAIN d = 1..n /\ DOMAIN c = 1..Len(c) /\ Len(c) \in Nat /\ n \in Nat
  BY DEF CutTo
<1>2. \A i \in 1..n : i \in DOMAIN c /\ d[i] = c[i] /\ d[i] # x
  BY <1>1 DEF LastOf, CutTo
<1>3. {i \in DOMAIN d : d[i] = x} = {}
  BY <1>1, <1>2
<1>4. ASSUME NEW y, y # x PROVE {i \in DOMAIN d : d[i] = y} = {i \in DOMAIN c : c[i] = y}
  BY <1>1, <1>2, <1>4 DEF LastOf
<1>5. Len(d) = n
  BY <1>1
<1>6. QED
  BY <1>3, <1>4, <1>5, FS_EmptySet DEF Count

LEMMA UnitsCount == \A r, f : Units(r, f) = Count(content[f], r) /\ Units(r, f)' = Count(content'[f], r)
BY DEF Units, Count

\* What was answered stays answered, and no more of any weight is.
LEMMA AnsweredKept ==
  ASSUME \A q \in Request :
           \/ /\ req'[q].s = req[q].s /\ req'[q].ok = req[q].ok
              /\ req'[q].written = req[q].written
           \/ ~req[q].ok /\ ~req'[q].ok
           \/ req[q].written = 0 /\ req'[q].written = 0
  PROVE  \A s : /\ Acked(s)' = Acked(s)
                /\ \A q \in Acked(s) : req'[q].written = req[q].written
BY DEF Acked

\* Frame conditions: a session whose file and answers stay as they are, and
\* whose lock does, or is let go by a call that wrote nothing.
LEMMA CollectedKept ==
  ASSUME NEW s \in Session, Collected(s), session'[s].received = session[s].received,
         temp'[s] = temp[s], temp[s] # None => content'[temp[s]] = content[temp[s]],
         Acked(s)' = Acked(s), \A q \in Acked(s) : req'[q].written = req[q].written,
         \/ /\ chunkLock'[s] = chunkLock[s]
            /\ chunkLock[s] # None => req'[chunkLock[s]] = req[chunkLock[s]]
         \/ /\ chunkLock'[s] = None
            /\ chunkLock[s] # None => req[chunkLock[s]].written = 0
  PROVE  Collected(s)'
<1>1. Length(s)' = Length(s) /\ Uncounted(s)' = Uncounted(s)
  BY DEF Length, Uncounted
<1>2. ASSUME NEW q \in Request
      PROVE  Inside(q, s)' = Inside(q, s) /\ Share(q, s)' = Share(q, s) /\ (ToTrim(s, q) => ToTrim(s, q)')
  <2>1. Inside(q, s)' = Inside(q, s)
    BY DEF Inside, Units
  <2>2. q # None
    BY UploadAssumption
  <2>3. Share(q, s)' = Share(q, s)
    BY <2>2 DEF Share, Acked
  <2>4. ToTrim(s, q) => ToTrim(s, q)'
    BY <2>2 DEF ToTrim
  <2>5. QED
    BY <2>1, <2>3, <2>4
<1>3. QED
  BY <1>1, <1>2 DEF Collected

LEMMA ExactlyKept ==
  ASSUME NEW s, NEW f, NEW g, Exactly(s, f), declared'[s] = declared[s],
         content'[g] = content[f],
         Acked(s)' = Acked(s), \A q \in Acked(s) : req'[q].written = req[q].written
  PROVE  Exactly(s, g)'
<1>1. \A q : Units(q, g)' = Units(q, f)
  BY DEF Units
<1>2. QED
  BY <1>1 DEF Exactly

LEMMA ClosedKept ==
  ASSUME NEW s \in Session, Closed(s), declared'[s] = declared[s],
         session'[s] = None, chunkLock'[s] = None,
         temp'[s] \in {None, temp[s]}, video'[s] = video[s],
         temp[s] # None => content'[temp[s]] = content[temp[s]],
         video[s] # None => content'[video[s]] = content[video[s]],
         Acked(s)' = Acked(s), \A q \in Acked(s) : req'[q].written = req[q].written,
         At(s, "move")' => At(s, "move"),
         s \in library' \/ At(s, "library")' => s \in library \/ At(s, "library")
  PROVE  Closed(s)'
<1>1. ASSUME At(s, "move")', temp'[s] # None PROVE Exactly(s, temp[s])'
  <2>1. PICK f : f = temp[s]
    OBVIOUS
  <2>2. temp'[s] = f /\ content'[f] = content[f]
    BY <1>1, <2>1
  <2>3. Exactly(s, f)
    BY <1>1, <2>1, <2>2 DEF Closed
  <2>4. Exactly(s, f)'
    BY <2>2, <2>3, ExactlyKept
  <2>5. QED
    BY <2>2, <2>4 DEF Exactly, Units
<1>2. ASSUME s \in library' \/ At(s, "library")' PROVE video'[s] # None /\ Exactly(s, video[s])'
  <2>1. PICK f : f = video[s]
    OBVIOUS
  <2>2. video'[s] = f /\ f # None /\ Exactly(s, f)
    BY <1>2, <2>1 DEF Closed
  <2>3. Exactly(s, f)'
    BY <2>1, <2>2, ExactlyKept
  <2>4. QED
    BY <2>2, <2>3 DEF Exactly, Units
<1>3. QED
  BY <1>1, <1>2 DEF Closed

PublishIInv == UploadIInv /\ Published /\ Marked /\ Finishing

\* What a step may do to the sessions it is not about: a call of theirs begins
\* or ends, a session of theirs is taken out, a complete one gets its entry.
LeftAlone(t) ==
  /\ session'[t] # None => /\ session[t] # None
                           /\ session'[t].received = session[t].received
                           /\ temp'[t] = temp[t]
  /\ temp'[t] \in {None, temp[t]} /\ video'[t] = video[t] /\ declared'[t] = declared[t]
  /\ t \in library' => t \in library \/ At(t, "library")
  /\ temp[t] # None => content'[temp[t]] = content[temp[t]]
  /\ video[t] # None => content'[video[t]] = content[video[t]]
  /\ \/ chunkLock'[t] = chunkLock[t]
     \/ /\ chunkLock'[t] = None
        /\ session'[t] = None \/ (chunkLock[t] # None /\ req[chunkLock[t]].written = 0)
CallsKept(s0) ==
  \A q \in Request :
    \/ req'[q] = req[q]
    \/ req[q].s = s0 /\ req'[q].s = s0
    \/ req[q].pc = "new" /\ ~req'[q].ok /\ (req'[q].pc \in {"lock", "done"} \/ req'[q].s = s0)
    \/ /\ req'[q].pc \in {"done"} \cup Late
       /\ req'[q].s = req[q].s /\ req'[q].written = req[q].written
       /\ req'[q].ok = req[q].ok \/ (~req[q].ok /\ req[q].written = 0)

LEMMA OthersKept ==
  ASSUME PublishIInv, UploadIInv', NEW s0, spoiled \subseteq spoiled',
         CallsKept(s0), \A t \in Session \ (spoiled' \cup {s0}) : LeftAlone(t),
         s0 \in Session \ spoiled' => /\ session'[s0] # None => Collected(s0)'
                                      /\ Closing(s0)' => Closed(s0)'
  PROVE  Gathered' /\ Sealed'
<1> SUFFICES ASSUME NEW t \in Session \ (spoiled' \cup {s0})
             PROVE  (session'[t] # None => Collected(t)') /\ (Closing(t)' => Closed(t)')
  BY DEF Gathered, Sealed
<1>1. LeftAlone(t) /\ t \in Session \ spoiled
  OBVIOUS
<1>2. \A q \in Request : req[q].pc = "new" => ~req[q].ok
  BY DEF PublishIInv, UploadIInv, Stored, Unwritten
<1>3. /\ Acked(t)' = Acked(t)
      /\ \A q \in Acked(t) : req'[q].written = req[q].written
  <2>1. ASSUME NEW q \in Request
        PROVE  /\ q \in Acked(t)' <=> q \in Acked(t)
               /\ q \in Acked(t) => req'[q].written = req[q].written
    BY <1>2 DEF CallsKept, Acked
  <2>2. QED
    BY <2>1 DEF Acked
<1>4. \A p \in {"move", "library"} : At(t, p)' => At(t, p)
  BY DEF CallsKept, At, Late
<1>5. ASSUME session'[t] # None PROVE Collected(t)'
  <2>1. Collected(t)
    BY <1>1, <1>5 DEF PublishIInv, Published, Gathered, LeftAlone
  <2>2. chunkLock[t] \in Request \cup {None} /\ chunkLock'[t] \in Request \cup {None}
    BY DEF PublishIInv, UploadIInv, Stored, UploadInv, TypeOK
  <2>3. ASSUME NEW q \in Request, chunkLock[t] = q, chunkLock'[t] = q PROVE req'[q] = req[q]
    <3>1. req[q].s = t /\ req[q].pc \in {"open", "write", "trim"}
      BY <2>3 DEF PublishIInv, UploadIInv, Stored, UploadInv, LockHeld
    <3>2. req'[q].pc \in {"open", "write", "trim"}
      BY <2>3 DEF UploadIInv, Stored, UploadInv, LockHeld
    <3>3. QED
      BY <3>1, <3>2 DEF CallsKept, Late
  <2>4. \/ /\ chunkLock'[t] = chunkLock[t]
           /\ chunkLock[t] # None => req'[chunkLock[t]] = req[chunkLock[t]]
        \/ /\ chunkLock'[t] = None
           /\ chunkLock[t] # None => req[chunkLock[t]].written = 0
    BY <1>1, <1>5, <2>2, <2>3 DEF LeftAlone
  <2>5. /\ session'[t].received = session[t].received /\ temp'[t] = temp[t]
        /\ temp[t] # None => content'[temp[t]] = content[temp[t]]
    BY <1>1, <1>5 DEF LeftAlone
  <2>6. QED
    BY <1>3, <2>1, <2>4, <2>5, CollectedKept
<1>6. ASSUME Closing(t)' PROVE Closed(t)'
  <2>1. t \in library' \/ At(t, "library")' => t \in library \/ At(t, "library")
    BY <1>1, <1>4 DEF LeftAlone
  <2>2. Closing(t)
    BY <1>4, <1>6, <2>1 DEF Closing
  <2>3. Closed(t)
    BY <1>1, <2>2 DEF PublishIInv, Published, Sealed
  <2>4. session'[t] = None /\ chunkLock'[t] = None
    BY <1>1, <2>3 DEF LeftAlone, Closed
  <2>5. /\ declared'[t] = declared[t] /\ temp'[t] \in {None, temp[t]} /\ video'[t] = video[t]
        /\ temp[t] # None => content'[temp[t]] = content[temp[t]]
        /\ video[t] # None => content'[video[t]] = content[video[t]]
    BY <1>1 DEF LeftAlone
  <2>6. QED
    BY <1>3, <1>4, <2>1, <2>3, <2>4, <2>5, ClosedKept
<1>7. QED
  BY <1>5, <1>6

\* No step but OpenTemp and finish_session's gives a file a name.
LEMMA NamesKept ==
  ASSUME PublishIInv, spoiled \subseteq spoiled', video' = video,
         \A t \in Session : temp'[t] \in {None, temp[t]},
         \A q \in Request : req'[q].fd \in {None, req[q].fd} \cup {temp[t] : t \in Session},
         \A t \in Session : declared'[t] = 0 => declared[t] = 0,
         library' \subseteq library \cup {t \in Session : declared[t] # 0}
  PROVE  Unused' /\ Apart'
<1> USE DEF PublishIInv, Published
<1>1. Unused'
  BY DEF Unused
<1>2. Apart'
  BY DEF Apart
<1>3. QED
  BY <1>1, <1>2


Parts ==
  /\ UploadIInv /\ TypeOK /\ LockHeld /\ CountedStored /\ Begun /\ Unwritten
  /\ TakenOut /\ OwnFile /\ Appending /\ Unused /\ Apart /\ Gathered /\ Sealed
  /\ Marked /\ Finishing
LEMMA PublishedParts == PublishIInv => Parts
BY DEF PublishIInv, Parts, UploadIInv, Stored, UploadInv, Published

LEMMA NobodyMeant == None \notin Session
BY UploadAssumption

\* Steps that write to no file and name none.
LEMMA QuietStep ==
  ASSUME PublishIInv, UploadIInv', spoiled \subseteq spoiled', CallsKept(None),
         UNCHANGED <<declared, video, content>>,
         \A t \in Session : temp'[t] \in {None, temp[t]},
         \A q \in Request : req'[q].fd \in {None, req[q].fd} \cup {temp[t] : t \in Session},
         \A t \in library' : t \in library \/ At(t, "library"),
         \A t \in Session \ spoiled' :
           /\ session'[t] # None => /\ session[t] # None /\ temp'[t] = temp[t]
                                    /\ session'[t].received = session[t].received
           /\ \/ chunkLock'[t] = chunkLock[t]
              \/ /\ chunkLock'[t] = None
                 /\ session'[t] = None \/ (chunkLock[t] # None /\ req[chunkLock[t]].written = 0)
  PROVE  Published'
<1>1. \A t \in Session \ spoiled' : LeftAlone(t)
  BY DEF LeftAlone
<1>2. library' \subseteq library \cup {t \in Session : declared[t] # 0}
  <2>1. \A t \in library' : t \in Session
    BY DEF UploadIInv, Stored, UploadInv, TypeOK
  <2>2. \A t : At(t, "library") => declared[t] # 0
    BY PublishedParts DEF Parts, Begun, At
  <2>3. QED
    BY <2>1, <2>2
<1>3. Gathered' /\ Sealed'
  BY <1>1, NobodyMeant, OthersKept
<1>4. Unused' /\ Apart'
  BY <1>2, NamesKept
<1>5. QED
  BY <1>3, <1>4 DEF Published

LEMMA PublishedSwept ==
  ASSUME PublishIInv, UploadIInv',
         \/ Sweep
         \/ \E s \in Session : TimePasses(s)
         \/ \E r \in Request, s \in Session : BeginAppend(r, s)
  PROVE  Published'
<1>0. Parts
  BY PublishedParts
<1> USE <1>0 DEF Parts
<1>1. \A t \in Session :
        /\ temp'[t] \in {None, temp[t]}
        /\ session'[t] # None => /\ session[t] # None /\ temp'[t] = temp[t]
                                 /\ session'[t].received = session[t].received
  <2>1. CASE session' = Swept /\ temp' = SweptTemp
    BY <2>1 DEF Swept, SweptTemp, TypeOK
  <2>2. CASE \E s \in Session : TimePasses(s)
    <3>1. PICK s \in Session : TimePasses(s)
      BY <2>2
    <3>2. temp' = temp /\ session' = [session EXCEPT ![s].stale = TRUE] /\ session[s] # None
      BY <3>1 DEF TimePasses
    <3>3. session \in [Session -> Sessions \cup {None}] /\ session[s] \in Sessions
      BY <3>2 DEF TypeOK, Sessions
    <3>4. \A t \in Session : session'[t] = IF t = s THEN [session[s] EXCEPT !.stale = TRUE] ELSE session[t]
      BY <3>2, <3>3
    <3>5. session'[s].received = session[s].received
      BY <3>2, <3>3, <3>4 DEF Sessions
    <3>6. QED
      BY <3>2, <3>4, <3>5
  <2>3. QED
    BY <2>1, <2>2 DEF Sweep, BeginAppend
<1>2. UNCHANGED <<declared, chunkLock, video, content, library, spoiled, overtaken>>
  BY DEF Sweep, TimePasses, BeginAppend
<1>3. CallsKept(None) /\ \A q \in Request : req'[q].fd \in {None, req[q].fd}
  <2>1. CASE UNCHANGED req
    BY <2>1 DEF CallsKept
  <2>2. CASE \E r \in Request, s \in Session : BeginAppend(r, s)
    <3>1. PICK r \in Request, s \in Session : BeginAppend(r, s)
      BY <2>2
    <3>2. /\ req[r].pc = "new" /\ ~req[r].ok
          /\ req'[r].pc \in {"lock", "done"} /\ req'[r].fd = req[r].fd /\ req'[r].ok = req[r].ok
          /\ \A q \in Request \ {r} : req'[q] = req[q]
      BY <3>1 DEF BeginAppend, TypeOK, Unwritten
    <3>3. QED
      BY <3>2 DEF CallsKept
  <2>3. QED
    BY <2>1, <2>2 DEF Sweep, TimePasses
<1>4. QED
  BY <1>1, <1>2, <1>3, QuietStep

\* A call that ends with nothing new to its name, or with its writes uncounted.
LEMMA PublishedReturn ==
  ASSUME PublishIInv, UploadIInv', NEW r \in Request, NEW ok \in BOOLEAN, Return(r, ok),
         req[r].pc \notin {"new", "done"}, spoiled \subseteq spoiled',
         UNCHANGED <<session, declared, video, content>>,
         \A t \in Session : temp'[t] \in {None, temp[t]},
         ok => req[r].written = 0,
         \A t \in library' : t \in library \/ At(t, "library"),
         \A t \in Session \ spoiled' :
           session[t] # None =>
             temp'[t] = temp[t] /\ (chunkLock[t] = r => req[r].written = 0)
  PROVE  Published'
<1>1. /\ req'[r].pc = "done" /\ req'[r].fd = None /\ req'[r].ok = ok
      /\ req'[r].s = req[r].s /\ req'[r].written = req[r].written
      /\ \A q \in Request \ {r} : req'[q] = req[q]
      /\ \A t \in Session : chunkLock'[t] = IF chunkLock[t] = r THEN None ELSE chunkLock[t]
  BY ReturnCall DEF PublishIInv, UploadIInv, Stored, UploadInv
<1>2. req[r].ok = FALSE
  BY PublishedParts DEF Parts, Unwritten, TypeOK
<1>3. CallsKept(None)
  <2>1. req'[r].ok = req[r].ok \/ (~req[r].ok /\ req[r].written = 0)
    BY <1>1, <1>2
  <2>2. QED
    BY <1>1, <2>1 DEF CallsKept
<1>4. \A q \in Request : req'[q].fd \in {None, req[q].fd}
  BY <1>1
<1>5. r # None
  BY UploadAssumption
<1>6. \A t \in Session \ spoiled' :
        /\ session'[t] # None => /\ session[t] # None /\ temp'[t] = temp[t]
                                 /\ session'[t].received = session[t].received
        /\ \/ chunkLock'[t] = chunkLock[t]
           \/ /\ chunkLock'[t] = None
              /\ session'[t] = None \/ (chunkLock[t] # None /\ req[chunkLock[t]].written = 0)
  BY <1>1, <1>5
<1>7. QED
  BY <1>3, <1>4, <1>6, QuietStep

LEMMA PublishedEnded ==
  ASSUME PublishIInv, UploadIInv', NEW r \in Request,
         \/ LockChunk(r) /\ session[req[r].s] = None
         \/ CountChunk(r) /\ session[req[r].s] = None
         \/ AddEntry(r) \/ FinishFails(r) \/ Disconnect(r)
  PROVE  Published'
<1>0. Parts
  BY PublishedParts
<1> USE <1>0 DEF Parts
<1>1. \A t \in Session : chunkLock[t] = r => t = req[r].s /\ req[r].pc \in {"open", "write", "trim"}
  BY DEF LockHeld
<1>2. CASE LockChunk(r) /\ session[req[r].s] = None
  <2>1. /\ Return(r, FALSE) /\ req[r].pc = "lock"
        /\ UNCHANGED <<session, declared, temp, video, content, library, spoiled, overtaken>>
    BY <1>2 DEF LockChunk
  <2>2. QED
    BY <1>1, <2>1, PublishedReturn
<1>3. CASE CountChunk(r) /\ session[req[r].s] = None
  <2>1. /\ Return(r, FALSE) /\ req[r].pc = "write"
        /\ UNCHANGED <<session, declared, temp, video, content, library, spoiled, overtaken>>
    BY <1>3 DEF CountChunk
  <2>2. QED
    BY <1>1, <1>3, <2>1, PublishedReturn
<1>4. CASE AddEntry(r)
  <2>1. /\ Return(r, TRUE) /\ req[r].pc = "library" /\ library' = library \cup {req[r].s}
        /\ UNCHANGED <<session, declared, temp, video, content, spoiled, overtaken>>
    BY <1>4 DEF AddEntry
  <2>2. req[r].written = 0 /\ At(req[r].s, "library")
    BY <2>1 DEF Unwritten, At
  <2>3. \A t \in library' : t \in library \/ At(t, "library")
    BY <2>1, <2>2
  <2>4. QED
    BY <2>1, <2>2, <2>3, PublishedReturn
<1>5. CASE FinishFails(r)
  <2>1. /\ Return(r, FALSE) /\ req[r].pc \in {"move", "library"}
        /\ temp' = [temp EXCEPT ![req[r].s] = None]
        /\ UNCHANGED <<session, declared, video, content, library, spoiled, overtaken>>
    BY <1>5 DEF FinishFails
  <2>2. session[req[r].s] = None /\ \A t \in Session : t # req[r].s => temp'[t] = temp[t]
    BY <2>1 DEF TakenOut, TypeOK
  <2>3. \A t \in Session : temp'[t] \in {None, temp[t]}
    BY <2>1 DEF TypeOK
  <2>4. \A t \in Session : session[t] # None => temp'[t] = temp[t] /\ chunkLock[t] # r
    BY <1>1, <2>1, <2>2
  <2>5. QED
    BY <2>1, <2>3, <2>4, PublishedReturn
<1>6. CASE Disconnect(r)
  <2>1. /\ req[r].pc \notin {"new", "done"} /\ Unlock(r) /\ spoiled \subseteq spoiled'
        /\ req[r].pc \in {"write", "trim"} /\ req[r].written > 0 => req[r].s \in spoiled'
        /\ UNCHANGED <<session, declared, temp, video, content, library>>
    BY <1>6 DEF Disconnect
  <2>2. req[r].written \in Nat /\ (req[r].pc = "open" => req[r].written = 0)
    BY DEF TypeOK, Unwritten
  <2>3. \A t \in Session \ spoiled' : chunkLock[t] = r => req[r].written = 0
    BY <1>1, <2>1, <2>2
  <2>4. CASE Return(r, FALSE)
    BY <2>1, <2>3, <2>4, PublishedReturn
  <2>5. CASE ~Return(r, FALSE)
    <3>1. /\ req'[r].s = req[r].s /\ req'[r].ok = req[r].ok /\ req'[r].written = req[r].written
          /\ req'[r].pc \in Late /\ \A q \in Request \ {r} : req'[q] = req[q]
      BY <1>6, <2>5, DroppedCall DEF LateOnFile, Late
    <3>2. req'[r].fd = req[r].fd \/ (req'[r].fd = temp[req[r].s] /\ req[r].s \in Session)
      BY <1>6, <2>5, DroppedCall DEF Begun
    <3>3. CallsKept(None)
      BY <3>1 DEF CallsKept
    <3>4. \A q \in Request : req'[q].fd \in {None, req[q].fd} \cup {temp[t] : t \in Session}
      BY <3>1, <3>2
    <3>5. \A t \in Session : chunkLock'[t] = IF chunkLock[t] = r THEN None ELSE chunkLock[t]
      BY <2>1 DEF Unlock
    <3>6. \A t \in Session \ spoiled' :
            \/ chunkLock'[t] = chunkLock[t]
            \/ /\ chunkLock'[t] = None
               /\ session'[t] = None \/ (chunkLock[t] # None /\ req[chunkLock[t]].written = 0)
      BY <2>3, <3>5, UploadAssumption
    <3>7. QED
      BY <2>1, <3>3, <3>4, <3>6, QuietStep
  <2>6. QED
    BY <2>4, <2>5
<1>7. QED
  BY <1>2, <1>3, <1>4, <1>5, <1>6

LEMMA PublishedRestart ==
  ASSUME PublishIInv, UploadIInv', Restart
  PROVE  Published'
<1>0. Parts
  BY PublishedParts
<1> USE <1>0 DEF Parts
<1>1. /\ session' = [s \in Session |-> None] /\ chunkLock' = [s \in Session |-> None]
      /\ UNCHANGED <<declared, temp, video, content, library, spoiled, overtaken>>
  BY DEF Restart
<1>2. \A q \in Request :
        \/ req'[q] = req[q]
        \/ /\ req'[q].pc = "done" /\ req'[q].fd = None /\ req'[q].s = req[q].s
           /\ req'[q].written = req[q].written /\ req'[q].ok = req[q].ok
  <2>1. req \in [Request -> Calls]
    BY DEF TypeOK, Calls
  <2>2. QED
    BY <2>1 DEF Restart, Calls
<1>3. CallsKept(None) /\ \A q \in Request : req'[q].fd \in {None, req[q].fd}
  BY <1>2 DEF CallsKept
<1>4. QED
  BY <1>1, <1>3, QuietStep

LEMMA PublishedStart ==
  ASSUME PublishIInv, UploadIInv', NEW s \in Session, NEW size \in Declared,
         StartSession(s, size)
  PROVE  Published'
<1>0. Parts
  BY PublishedParts
<1> USE <1>0 DEF Parts
<1>1. /\ declared[s] = 0 /\ declared'[s] = size /\ size # 0
      /\ UNCHANGED <<chunkLock, video, content, library, req, spoiled, overtaken>>
      /\ \A t \in Session \ {s} : declared'[t] = declared[t]
  BY UploadAssumption DEF StartSession, TypeOK
<1>2. /\ session'[s].received = 0
      /\ \A t \in Session : temp'[t] \in {None, temp[t]}
      /\ \A t \in Session \ {s} :
           session'[t] # None => session'[t] = session[t] /\ temp'[t] = temp[t]
  BY UploadAssumption DEF StartSession, TypeOK, Swept, SweptTemp, Stale
<1>3. Unused' /\ Apart'
  BY <1>1, <1>2, NamesKept
<1>4. temp[s] = None /\ s \notin library
  BY <1>1 DEF Unused
<1>5. \A q \in Request : req[q].s = s => req[q].pc \in {"new", "done"} /\ ~req[q].ok
  BY <1>1 DEF Begun, Unwritten
<1>6. chunkLock[s] = None
  <2>1. chunkLock[s] \in Request \cup {None}
    BY DEF TypeOK
  <2>2. ASSUME NEW q \in Request PROVE chunkLock[s] # q
    BY <1>5 DEF LockHeld
  <2>3. QED
    BY <2>1, <2>2
<1>7. Collected(s)'
  <2>1. Length(s)' = 0 /\ Uncounted(s)' = 0 /\ temp'[s] = None
    BY <1>1, <1>2, <1>4, <1>6 DEF Length, Uncounted
  <2>2. Acked(s)' = {}
    BY <1>1, <1>5 DEF Acked
  <2>3. \A q \in Request : Inside(q, s)' = 0 /\ Share(q, s)' = 0 /\ ToTrim(s, q)'
    BY <1>1, <1>6, <2>1, <2>2, UploadAssumption DEF Inside, Share, ToTrim
  <2>4. QED
    BY <1>2, <2>1, <2>3 DEF Collected
<1>8. ~Closing(s)'
  BY <1>1, <1>4, <1>5 DEF Closing, At
<1>9. CallsKept(s) /\ \A t \in Session \ (spoiled' \cup {s}) : LeftAlone(t)
  BY <1>1, <1>2 DEF CallsKept, LeftAlone
<1>10. Gathered' /\ Sealed'
  BY <1>1, <1>7, <1>8, <1>9, OthersKept
<1>11. QED
  BY <1>3, <1>10 DEF Published

LEMMA PublishedFinish ==
  ASSUME PublishIInv, UploadIInv', NEW r \in Request, NEW s \in Session, BeginFinish(r, s)
  PROVE  Published'
<1>0. Parts
  BY PublishedParts
<1> USE <1>0 DEF Parts
<1>1. /\ req[r].pc = "new" /\ ~req[r].ok /\ session'[s] = None
      /\ UNCHANGED <<declared, chunkLock, video, content, library>>
      /\ \A t \in Session :
           /\ temp'[t] \in {None, temp[t]}
           /\ session'[t] # None => session'[t] = session[t] /\ temp'[t] = temp[t]
  BY DEF BeginFinish, Unwritten, TypeOK, Swept, SweptTemp
<1>2. /\ req'[r].pc \in {"move", "done"} /\ req'[r].s = s
      /\ req'[r].fd = req[r].fd /\ req'[r].ok = req[r].ok /\ req'[r].written = req[r].written
      /\ \A q \in Request \ {r} : req'[q] = req[q]
  BY DEF BeginFinish, TypeOK
<1>3. spoiled \subseteq spoiled'
  BY DEF BeginFinish
<1>4. Unused' /\ Apart'
  BY <1>1, <1>2, <1>3, NamesKept
<1>5. CallsKept(s) /\ \A t \in Session \ (spoiled' \cup {s}) : LeftAlone(t)
  BY <1>1, <1>2 DEF CallsKept, LeftAlone
<1>6. ASSUME s \notin spoiled', Closing(s)' PROVE Closed(s)'
  <2>1. CASE ~Complete(s)
    <3>1. req'[r].pc = "done" /\ spoiled' = spoiled
      BY <2>1 DEF BeginFinish, TypeOK
    <3>2. Closing(s)
      BY <1>1, <1>2, <1>6, <3>1 DEF Closing, At
    <3>3. Closed(s)
      BY <1>6, <3>1, <3>2 DEF Sealed
    <3>4. \A q \in Request : Acked(s)' = Acked(s) /\ req'[q].written = req[q].written
      BY <1>1, <1>2 DEF Acked
    <3>5. /\ At(s, "move")' => At(s, "move") 
          /\ s \in library' \/ At(s, "library")' => s \in library \/ At(s, "library")
      BY <1>1, <1>2, <3>1 DEF At
    <3>6. chunkLock[s] = None
      BY <3>3 DEF Closed
    <3>7. \A q \in Acked(s) : req'[q].written = req[q].written
      BY <3>4 DEF Acked
    <3>8. Acked(s)' = Acked(s)
      BY <3>4
    <3>9. QED
      BY <1>1, <3>3, <3>5, <3>6, <3>7, <3>8, ClosedKept
  <2>2. CASE Complete(s)
    <3>1. /\ ~Stale(s) /\ session[s] # None /\ session[s].received > 0
          /\ declared[s] \in {None, session[s].received}
          /\ spoiled' = IF Writing(s) THEN spoiled \cup {s} ELSE spoiled
          /\ temp' = SweptTemp
      BY <2>2 DEF BeginFinish, Complete, Swept
    <3>2. temp'[s] = temp[s]
      BY <3>1 DEF SweptTemp
    <3>3. ~Writing(s) /\ s \notin spoiled
      BY <1>6, <3>1
    <3>4. chunkLock[s] = None
      BY <3>3 DEF Writing, LockHeld, TypeOK
    <3>5. Collected(s)
      BY <3>1, <3>3 DEF Gathered
    <3>6. session[s].received \in Nat /\ Length(s) = session[s].received
      BY <3>1, <3>4, <3>5 DEF Collected, Uncounted, TypeOK
    <3>7. temp[s] # None /\ Len(content[temp[s]]) = session[s].received
      BY <3>1, <3>6 DEF Length
    <3>8. PICK f : f = temp[s]
      OBVIOUS
    <3>9. Exactly(s, f)
      <4>1. \A q \in Request : Units(q, f) = IF q \in Acked(s) THEN req[q].written ELSE 0
        BY <3>4, <3>5, <3>7, <3>8, UploadAssumption DEF Collected, Inside, Share
      <4>2. QED
        BY <3>1, <3>7, <3>8, <4>1 DEF Exactly
    <3>10. Acked(s)' = Acked(s) /\ \A q \in Acked(s) : req'[q].written = req[q].written
      BY <1>1, <1>2 DEF Acked
    <3>11. Exactly(s, f)'
      BY <1>1, <3>9, <3>10, ExactlyKept
    <3>12. s \notin library /\ \A q \in Request : req[q].s = s => req[q].pc # "library"
      <4>1. ~Closing(s)
        BY <3>1, <3>3 DEF Sealed, Closed
      <4>2. QED
        BY <4>1 DEF Closing, At
    <3>13. s \notin library' /\ ~At(s, "library")'
      BY <1>1, <1>2, <3>12 DEF At
    <3>14. Exactly(s, temp[s])'
      BY <3>2, <3>8, <3>11 DEF Exactly, Units
    <3>15. QED
      BY <1>1, <3>4, <3>13, <3>14 DEF Closed
  <2>3. QED
    BY <2>1, <2>2
<1>7. Gathered' /\ Sealed'
  BY <1>1, <1>3, <1>5, <1>6, OthersKept
<1>8. QED
  BY <1>4, <1>7 DEF Published


\* A step of a call r of s that goes on: who else is touched, and what is kept.
LEMMA OwnCalls ==
  ASSUME NEW r \in Request, NEW s, req[r].s = s, req'[r].s = s,
         \A q \in Request \ {r} : req'[q] = req[q]
  PROVE  CallsKept(s)
BY DEF CallsKept

LEMMA PublishedLocked ==
  ASSUME PublishIInv, UploadIInv', NEW r \in Request, LockChunk(r), session[req[r].s] # None
  PROVE  Published'
<1>0. Parts
  BY PublishedParts
<1> USE <1>0 DEF Parts
<1>1. PICK s \in Session : s = req[r].s
  BY DEF LockChunk, Begun
<1>2. /\ req[r].pc = "lock" /\ chunkLock[s] = None /\ session[s] # None
      /\ chunkLock' = [chunkLock EXCEPT ![s] = r]
      /\ UNCHANGED <<session, declared, temp, video, content, library, spoiled>>
  BY <1>1 DEF LockChunk
<1>3. /\ req'[r].s = s /\ req'[r].pc = "open" /\ req'[r].fd = req[r].fd
      /\ req'[r].written = req[r].written /\ req'[r].ok = req[r].ok
      /\ \A q \in Request \ {r} : req'[q] = req[q]
  <2>1. req \in [Request -> Calls]
    BY DEF TypeOK, Calls
  <2>2. req' = [req EXCEPT ![r].pc = "open", ![r].prev = session[s].received]
    BY <1>1, <1>2 DEF LockChunk
  <2>3. QED
    BY <1>1, <2>1, <2>2 DEF Calls
<1>4. chunkLock'[s] = r /\ \A t \in Session \ {s} : chunkLock'[t] = chunkLock[t]
  BY <1>2 DEF TypeOK
<1>5. Unused' /\ Apart'
  BY <1>2, <1>3, NamesKept
<1>6. CallsKept(s)
  BY <1>1, <1>3, OwnCalls
<1>7. \A t \in Session \ (spoiled' \cup {s}) : LeftAlone(t)
  BY <1>2, <1>4 DEF LeftAlone
<1>8. req[r].written = 0 /\ r # None /\ r \notin Acked(s)
  BY <1>2, UploadAssumption DEF Unwritten, Acked
<1>9. Acked(s)' = Acked(s) /\ \A q \in Request : req'[q].written = req[q].written
  BY <1>1, <1>3 DEF Acked
<1>10. ASSUME s \notin spoiled' PROVE Collected(s)'
  <2>1. Collected(s)
    BY <1>2, <1>10 DEF Gathered
  <2>2. Length(s)' = Length(s) /\ Uncounted(s) = 0 /\ Uncounted(s)' = 0
    BY <1>2, <1>4, <1>8, <1>9 DEF Length, Uncounted
  <2>3. \A q \in Request : Inside(q, s)' = Inside(q, s)
    BY <1>2 DEF Inside, Units
  <2>4. \A q \in Request : Share(q, s)' = Share(q, s)
    BY <1>2, <1>4, <1>8, <1>9, UploadAssumption DEF Share
  <2>5. \A q \in Request : ToTrim(s, q)'
    BY <1>3, <1>4 DEF ToTrim
  <2>6. QED
    BY <1>2, <2>1, <2>2, <2>3, <2>4, <2>5 DEF Collected
<1>11. s \notin spoiled' => ~Closing(s)'
  <2>1. s \notin spoiled => ~Closing(s)
    BY <1>2 DEF Sealed, Closed
  <2>2. Closing(s)' => Closing(s)
    BY <1>1, <1>2, <1>3 DEF Closing, At
  <2>3. QED
    BY <1>2, <2>1, <2>2
<1>12. Gathered' /\ Sealed'
  BY <1>2, <1>6, <1>7, <1>10, <1>11, OthersKept
<1>13. QED
  BY <1>5, <1>12 DEF Published

\* Whoever is inside the lock of s has it: nothing of s is complete and sealed.
LEMMA LockedOpen ==
  ASSUME PublishIInv, NEW r \in Request, NEW s \in Session, chunkLock[s] = r
  PROVE  /\ s \notin spoiled => ~Closing(s)
         /\ \A q \in Request, t \in Session : chunkLock[t] = q <=>
              req[q].s = t /\ req[q].pc \in {"open", "write", "trim"}
         /\ req[r].s = s /\ r # None
<1>0. Parts
  BY PublishedParts
<1>1. s \notin spoiled => ~Closing(s)
  BY <1>0, UploadAssumption DEF Parts, Sealed, Closed
<1>2. QED
  BY <1>0, <1>1, UploadAssumption DEF Parts, LockHeld

LEMMA PublishedWritten ==
  ASSUME PublishIInv, UploadIInv', NEW r \in Request, WriteFrame(r)
  PROVE  Published'
<1>0. Parts
  BY PublishedParts
<1> USE <1>0 DEF Parts
<1>1. PICK s \in Session, f \in File : s = req[r].s /\ f = req[r].fd
  BY DEF WriteFrame, Begun, Appending, LateOnFile, TypeOK
<1>2. /\ req[r].pc = "write" /\ chunkLock[s] = r
      /\ content' = [content EXCEPT ![f] = Append(content[f], r)]
      /\ UNCHANGED <<session, declared, chunkLock, temp, video, library, spoiled, overtaken>>
  BY <1>1 DEF WriteFrame, LockHeld
<1>3. /\ req'[r].s = s /\ req'[r].pc = "write" /\ req'[r].fd = f /\ req'[r].ok = req[r].ok
      /\ req'[r].written = req[r].written + 1
      /\ \A q \in Request \ {r} : req'[q] = req[q]
  <2>1. req \in [Request -> Calls]
    BY DEF TypeOK, Calls
  <2>2. req' = [req EXCEPT ![r].written = @ + 1]
    BY DEF WriteFrame
  <2>3. QED
    BY <1>1, <1>2, <2>1, <2>2 DEF Calls
<1>4. PICK c \in Seq(Request \cup {None}) : c = content[f] /\ content'[f] = Append(c, r)
  BY <1>2 DEF TypeOK
<1>5. \A g \in File \ {f} : content'[g] = content[g]
  BY <1>2 DEF TypeOK
<1>6. Unused' /\ Apart'
  BY <1>1, <1>2, <1>3, NamesKept
<1>7. CallsKept(s)
  BY <1>1, <1>3, OwnCalls
<1>8. \A t \in Session \ (spoiled' \cup {s}) : LeftAlone(t)
  <2>1. \A t \in Session \ (spoiled' \cup {s}) : f # temp[t] /\ f # video[t]
    BY <1>1, <1>2, UploadAssumption DEF OwnFile, Apart
  <2>2. \A t \in Session : /\ temp[t] # None => temp[t] \in File
                           /\ video[t] # None => video[t] \in File
    BY DEF TypeOK
  <2>3. QED
    BY <1>2, <1>5, <2>1, <2>2 DEF LeftAlone
<1>9. r # None /\ req[r].ok = FALSE /\ req[r].written \in Nat /\ r \notin Acked(s)
  BY <1>2, UploadAssumption DEF Unwritten, Acked, TypeOK
<1>10. Acked(s)' = Acked(s)
  BY <1>1, <1>3, <1>9 DEF Acked
<1>11. ASSUME s \notin spoiled', session'[s] # None PROVE Collected(s)'
  <2>1. Collected(s)
    BY <1>2, <1>11 DEF Gathered
  <2>2. temp[s] = f /\ temp'[s] = f /\ f # None
    BY <1>1, <1>2, <1>11, UploadAssumption DEF Appending, AfterCounted, Marked
  <2>3. Length(s) = Len(c) /\ Length(s)' = Len(c) + 1 /\ Len(c) \in Nat
    BY <1>4, <2>2 DEF Length
  <2>4. Uncounted(s) = req[r].written /\ Uncounted(s)' = req[r].written + 1
    BY <1>2, <1>3, <1>9 DEF Uncounted
  <2>5. session[s].received \in Nat
    BY <1>2, <1>11 DEF TypeOK
  <2>6. Length(s)' = (session[s].received)' + Uncounted(s)'
    BY <1>2, <1>9, <2>1, <2>3, <2>4, <2>5, SMTT(30) DEF Collected
  <2>7. \A q \in Request : Inside(q, s) = Count(c, q) /\ Inside(q, s)' = Count(content'[f], q)
    BY <1>4, <2>2, UnitsCount DEF Inside
  <2>8. r \in Request \cup {None}
    OBVIOUS
  <2>9. /\ Count(content'[f], r) = Count(c, r) + 1
        /\ \A q : q # r => Count(content'[f], q) = Count(c, q)
    <3>1. IsFiniteSet(DOMAIN c)
      BY SeqFinite
    <3>2. QED
      BY <1>4, <2>8, <3>1, CountAppend
  <2>10. Inside(r, s)' = Share(r, s)'
    <3>1. Share(r, s) = req[r].written /\ Share(r, s)' = req[r].written + 1
      BY <1>2, <1>3 DEF Share
    <3>2. QED
      BY <2>1, <2>7, <2>9, <3>1 DEF Collected
  <2>11. \A q \in Request \ {r} : Inside(q, s)' = Share(q, s)'
    <3>1. \A q \in Request \ {r} : Share(q, s)' = Share(q, s)
      BY <1>2, <1>3, <1>10 DEF Share
    <3>2. QED
      BY <2>1, <2>7, <2>9, <3>1 DEF Collected
  <2>12. \A q \in Request : ToTrim(s, q)'
    BY <1>2, <1>3 DEF ToTrim
  <2>13. QED
    BY <2>6, <2>10, <2>11, <2>12 DEF Collected
<1>12. s \notin spoiled' => ~Closing(s)'
  <2>1. s \notin spoiled => ~Closing(s)
    BY <1>2, LockedOpen
  <2>2. Closing(s)' => Closing(s)
    BY <1>1, <1>2, <1>3 DEF Closing, At
  <2>3. QED
    BY <1>2, <2>1, <2>2
<1>13. Gathered' /\ Sealed'
  BY <1>2, <1>7, <1>8, <1>11, <1>12, OthersKept
<1>14. QED
  BY <1>6, <1>13 DEF Published


\* A call of s that returns lets go of the lock, and nobody else's.
LEMMA LockFreed ==
  ASSUME PublishIInv, NEW r \in Request, NEW s \in Session, chunkLock[s] = r,
         NEW ok \in BOOLEAN, Return(r, ok)
  PROVE  /\ req'[r].s = s /\ req'[r].pc = "done" /\ req'[r].fd = None /\ req'[r].ok = ok
         /\ req'[r].written = req[r].written
         /\ \A q \in Request \ {r} : req'[q] = req[q]
         /\ chunkLock'[s] = None
         /\ \A t \in Session \ {s} : chunkLock'[t] = chunkLock[t]
         /\ CallsKept(s)
<1>1. /\ req'[r].pc = "done" /\ req'[r].fd = None /\ req'[r].ok = ok
      /\ req'[r].s = req[r].s /\ req'[r].written = req[r].written
      /\ \A q \in Request \ {r} : req'[q] = req[q]
      /\ \A t \in Session : chunkLock'[t] = IF chunkLock[t] = r THEN None ELSE chunkLock[t]
  BY ReturnCall, PublishedParts DEF Parts
<1>2. req[r].s = s /\ \A t \in Session \ {s} : chunkLock[t] # r
  BY LockedOpen
<1>3. CallsKept(s)
  BY <1>1, <1>2, OwnCalls
<1>4. QED
  BY <1>1, <1>2, <1>3

\* Nobody's file but the one of s, and it ends with what r added to n units.
Private(f, s) == \A t \in Session \ spoiled : f # video[t] /\ (f = temp[t] => t = s)
EndsWith(r, s, f, n) ==
  s \notin spoiled /\ session[s] # None =>
    temp[s] = f /\ n = session[s].received /\ LastOf(content[f], n, r)

\* A failed chunk is cut from the file f of s, down to the n units before it.
LEMMA PublishedCut ==
  ASSUME PublishIInv, UploadIInv', NEW r \in Request, NEW s \in Session, chunkLock[s] = r,
         Return(r, FALSE), NEW f \in File, NEW n, content' = SetLen(f, n),
         UNCHANGED <<session, declared, temp, video, library, spoiled, overtaken>>,
         Private(f, s), EndsWith(r, s, f, n)
  PROVE  Published'
<1>0. Parts
  BY PublishedParts
<1> USE <1>0 DEF Parts
<1>1. /\ req'[r].s = s /\ req'[r].pc = "done" /\ req'[r].fd = None /\ req'[r].ok = FALSE
      /\ req'[r].written = req[r].written
      /\ \A q \in Request \ {r} : req'[q] = req[q]
      /\ chunkLock'[s] = None
      /\ \A t \in Session \ {s} : chunkLock'[t] = chunkLock[t]
      /\ CallsKept(s)
  BY LockFreed
<1>2. /\ req[r].s = s /\ r # None
      /\ s \notin spoiled => ~Closing(s)
  BY LockedOpen
<1>3. Unused' /\ Apart'
  BY <1>1, NamesKept
<1>4. \A t \in Session \ (spoiled' \cup {s}) : LeftAlone(t)
  <2>1. \A g \in File \ {f} : content'[g] = content[g]
    BY DEF SetLen, TypeOK
  <2>2. \A t \in Session : /\ temp[t] # None => temp[t] \in File
                           /\ video[t] # None => video[t] \in File
    BY DEF TypeOK
  <2>3. QED
    BY <1>1, <2>1, <2>2 DEF LeftAlone, Private
<1>5. req[r].ok = FALSE /\ r \notin Acked(s) /\ req[r].written \in Nat
  <2>1. req[r].pc # "done"
    BY LockedOpen
  <2>2. QED
    BY <2>1 DEF Unwritten, Acked, TypeOK
<1>6. Acked(s)' = Acked(s)
  BY <1>1, <1>2, <1>5 DEF Acked
<1>7. ASSUME s \notin spoiled', session'[s] # None PROVE Collected(s)'
  <2>1. Collected(s)
    BY <1>7 DEF Gathered
  <2>2. temp[s] = f /\ n = session[s].received /\ f # None
        /\ LastOf(content[f], n, r)
    BY <1>7, UploadAssumption DEF EndsWith
  <2>3. PICK c \in Seq(Request \cup {None}) : c = content[f]
    BY DEF TypeOK
  <2>4. content'[f] = CutTo(c, n)
    BY <2>3 DEF SetLen, CutTo, TypeOK
  <2>5. n \in 0..Len(c)
    <3>1. Len(c) \in Nat /\ n \in Nat /\ Length(s) = Len(c)
      BY <1>7, <2>2, <2>3 DEF Length, TypeOK
    <3>2. Length(s) >= n
      BY <1>7, <2>2 DEF CountedStored, Marked
    <3>3. QED
      BY <3>1, <3>2
  <2>6. /\ Len(content'[f]) = n /\ Count(content'[f], r) = 0
        /\ \A y : y # r => Count(content'[f], y) = Count(c, y)
    <3>1. PICK d : d = content'[f]
      OBVIOUS
    <3>2. d = CutTo(c, n) /\ LastOf(c, n, r)
      BY <2>2, <2>3, <2>4, <3>1
    <3>3. QED
      BY <2>5, <3>1, <3>2, CountCut
  <2>7. Length(s)' = n /\ Uncounted(s)' = 0 /\ n \in Nat
    BY <1>1, <2>2, <2>5, <2>6 DEF Length, Uncounted
  <2>8. \A q \in Request : Inside(q, s) = Count(c, q) /\ Inside(q, s)' = Count(content'[f], q)
    BY <2>2, <2>3, UnitsCount DEF Inside
  <2>9. Inside(r, s)' = Share(r, s)'
    <3>1. Share(r, s)' = 0
      BY <1>1, <1>2, <1>5, <1>6 DEF Share
    <3>2. QED
      BY <2>6, <2>8, <3>1
  <2>10. \A q \in Request \ {r} : Inside(q, s)' = Share(q, s)'
    <3>1. \A q \in Request \ {r} : Share(q, s)' = Share(q, s)
      BY <1>1, <1>6, UploadAssumption DEF Share
    <3>2. QED
      BY <2>1, <2>6, <2>8, <3>1 DEF Collected
  <2>11. \A q \in Request : ToTrim(s, q)'
    BY <1>1, UploadAssumption DEF ToTrim
  <2>12. QED
    BY <2>2, <2>7, <2>9, <2>10, <2>11 DEF Collected
<1>8. s \notin spoiled' => ~Closing(s)'
  BY <1>1, <1>2 DEF Closing, At
<1>9. Gathered' /\ Sealed'
  BY <1>1, <1>4, <1>7, <1>8, OthersKept
<1>10. QED
  BY <1>3, <1>9 DEF Published

LEMMA PublishedRejected ==
  ASSUME PublishIInv, UploadIInv', NEW r \in Request, RejectChunk(r)
  PROVE  Published'
<1>0. Parts
  BY PublishedParts
<1> USE <1>0 DEF Parts
<1>1. PICK s \in Session, f \in File : s = req[r].s /\ f = req[r].fd
  BY DEF RejectChunk, Begun, Appending, LateOnFile, TypeOK
<1>2. /\ req[r].pc = "write" /\ chunkLock[s] = r /\ r # None /\ f # None
      /\ content' = SetLen(f, req[r].initial) /\ Return(r, FALSE)
      /\ UNCHANGED <<session, declared, temp, video, library, spoiled, overtaken>>
  <2>1. /\ req[r].pc = "write" /\ Return(r, FALSE)
        /\ content' = SetLen(req[r].fd, req[r].initial)
        /\ UNCHANGED <<session, declared, temp, video, library, spoiled, overtaken>>
    BY DEF RejectChunk
  <2>2. chunkLock[s] = r
    BY <1>1, <2>1 DEF LockHeld
  <2>3. QED
    BY <1>1, <2>1, <2>2, UploadAssumption
<1>3. Private(f, s)
  BY <1>1, <1>2 DEF OwnFile, Apart, Private
<1>4. ASSUME s \notin spoiled, session[s] # None
      PROVE  /\ temp[s] = f /\ req[r].initial = session[s].received
             /\ LastOf(content[f], req[r].initial, r)
  <2>1. /\ temp[s] = f /\ Len(content[f]) = req[r].initial + req[r].written
        /\ LastOf(content[f], req[r].initial, r)
    BY <1>1, <1>2, <1>4 DEF Appending, AfterCounted, AtEnd, Marked, LastOf
  <2>2. Collected(s)
    BY <1>4 DEF Gathered
  <2>3. Length(s) = session[s].received + req[r].written
    BY <1>2, <2>2 DEF Collected, Uncounted
  <2>4. Length(s) = req[r].initial + req[r].written
    BY <1>2, <2>1 DEF Length
  <2>5. session[s].received \in Nat /\ req[r].initial \in Nat /\ req[r].written \in Nat
    BY <1>4 DEF TypeOK
  <2>6. \A a, b, c \in Nat : a + c = b + c => a = b
    OBVIOUS
  <2>7. session[s].received + req[r].written = req[r].initial + req[r].written
    BY <2>3, <2>4
  <2>8. session[s].received = req[r].initial
    BY <2>5, <2>6, <2>7
  <2>9. QED
    BY <2>1, <2>8
<1>5. PICK n : n = req[r].initial
  OBVIOUS
<1>6. EndsWith(r, s, f, n)
  BY <1>4, <1>5 DEF EndsWith
<1>7. content' = SetLen(f, n) /\ Return(r, FALSE)
  BY <1>2, <1>5
<1>8. /\ chunkLock[s] = r
      /\ UNCHANGED <<session, declared, temp, video, library, spoiled, overtaken>>
  BY <1>2
<1>9. QED
  BY <1>3, <1>6, <1>7, <1>8, PublishedCut

LEMMA PublishedTrimmed ==
  ASSUME PublishIInv, UploadIInv', NEW r \in Request, TrimUpload(r)
  PROVE  Published'
<1>0. Parts
  BY PublishedParts
<1> USE <1>0 DEF Parts
<1>1. PICK s \in Session : s = req[r].s
  BY DEF TrimUpload, Begun
<1>2. /\ req[r].pc = "trim" /\ chunkLock[s] = r /\ r # None
      /\ content' = IF temp[s] = None THEN content ELSE SetLen(temp[s], req[r].prev)
      /\ Return(r, FALSE)
      /\ UNCHANGED <<session, declared, temp, video, library, spoiled, overtaken>>
  <2>1. /\ req[r].pc = "trim"
        /\ content' = IF temp[s] = None THEN content ELSE SetLen(temp[s], req[r].prev)
        /\ Return(r, FALSE)
        /\ UNCHANGED <<session, declared, temp, video, library, spoiled, overtaken>>
    BY <1>1 DEF TrimUpload
  <2>2. chunkLock[s] = r
    BY <1>1, <2>1 DEF LockHeld
  <2>3. r # None
    BY UploadAssumption
  <2>4. QED
    BY <2>1, <2>2, <2>3
<1>3. session[s] # None => req[r].prev = session[s].received
  BY <1>2 DEF CountedStored
<1>4. CASE temp[s] # None
  <2>1. PICK f \in File : f = temp[s]
    BY <1>4 DEF TypeOK
  <2>2. content' = SetLen(f, req[r].prev)
    BY <1>2, <1>4, <2>1
  <2>3. Private(f, s)
    BY <1>4, <2>1 DEF OwnFile, Apart, Private
  <2>4. ASSUME s \notin spoiled, session[s] # None
        PROVE  LastOf(content[f], req[r].prev, r)
    BY <1>2, <1>4, <2>1, <2>4 DEF Gathered, Collected, ToTrim
  <2>5. PICK n : n = req[r].prev
    OBVIOUS
  <2>6. EndsWith(r, s, f, n)
    BY <1>3, <2>1, <2>4, <2>5 DEF EndsWith
  <2>7. content' = SetLen(f, n) /\ Return(r, FALSE)
    BY <1>2, <2>2, <2>5
  <2>8. /\ chunkLock[s] = r
        /\ UNCHANGED <<session, declared, temp, video, library, spoiled, overtaken>>
    BY <1>2
  <2>9. QED
    BY <2>3, <2>6, <2>7, <2>8, PublishedCut
<1>5. CASE temp[s] = None
  <2>1. content' = content
    BY <1>2, <1>5
  <2>2. ASSUME s \notin spoiled, session[s] # None PROVE req[r].written = 0
    <3>1. Collected(s)
      BY <2>2 DEF Gathered
    <3>2. Length(s) = session[s].received + req[r].written /\ Length(s) = 0
      BY <1>2, <1>5, <3>1 DEF Collected, Uncounted, Length
    <3>3. session[s].received \in Nat /\ req[r].written \in Nat
      BY <2>2 DEF TypeOK
    <3>4. QED
      BY <3>2, <3>3
  <2>3. \A t \in Session : chunkLock[t] = r => t = s
    BY <1>1, <1>2, LockedOpen
  <2>4. \A t \in Session : temp'[t] \in {None, temp[t]}
    BY <1>2
  <2>5. QED
    BY <1>2, <2>1, <2>2, <2>3, <2>4, PublishedReturn
<1>6. QED
  BY <1>4, <1>5


LEMMA PublishedOpened ==
  ASSUME PublishIInv, UploadIInv', NEW r \in Request, OpenTemp(r)
  PROVE  Published'
<1>0. Parts
  BY PublishedParts
<1> USE <1>0 DEF Parts
<1>1. PICK s \in Session : s = req[r].s
  BY DEF OpenTemp, Begun
<1>2. /\ req[r].pc = "open" /\ chunkLock[s] = r /\ r # None
      /\ UNCHANGED <<session, declared, chunkLock, video, library, spoiled, overtaken>>
  BY <1>1, UploadAssumption DEF OpenTemp, LockHeld
<1>3. PICK f \in File :
        /\ IF temp[s] = None THEN Free(f) ELSE f = temp[s]
        /\ temp' = [temp EXCEPT ![s] = f]
        /\ content' = IF temp[s] = None THEN [content EXCEPT ![f] = <<>>] ELSE content
        /\ req' = [req EXCEPT ![r].pc = "write", ![r].fd = f, ![r].initial = Len(content'[f])]
  BY <1>1 DEF OpenTemp, Opens
<1>4. /\ req'[r].s = s /\ req'[r].pc = "write" /\ req'[r].fd = f /\ req'[r].ok = req[r].ok
      /\ req'[r].written = req[r].written
      /\ \A q \in Request \ {r} : req'[q] = req[q]
  <2>1. req \in [Request -> Calls]
    BY DEF TypeOK, Calls
  <2>2. QED
    BY <1>1, <1>3, <2>1 DEF Calls
<1>5. f # None /\ temp'[s] = f /\ \A t \in Session \ {s} : temp'[t] = temp[t]
  BY <1>3, UploadAssumption DEF TypeOK
<1>6. \A t \in Session : f # video[t]
  BY <1>3, <1>5 DEF Free, Apart
<1>7. \A g \in File : content'[g] = content[g] \/ (Free(g) /\ g = f)
  BY <1>3 DEF TypeOK
<1>8. Unused'
  BY <1>1, <1>2, <1>5 DEF Unused, Begun
<1>9. Apart'
  <2>1. \A t, u \in Session : temp'[t] # None => temp'[t] # video[u]
    BY <1>5, <1>6 DEF Apart
  <2>2. \A q \in Request, t \in Session :
          req'[q].fd # None /\ req'[q].fd = video[t] => t \in spoiled
    BY <1>4, <1>6 DEF Apart
  <2>3. QED
    BY <1>2, <2>1, <2>2 DEF Apart
<1>10. CallsKept(s)
  BY <1>1, <1>4, OwnCalls
<1>11. \A t \in Session \ (spoiled' \cup {s}) : LeftAlone(t)
  <2>1. \A t \in Session : /\ temp[t] # None => temp[t] \in File
                           /\ video[t] # None => video[t] \in File
    BY DEF TypeOK
  <2>2. \A t \in Session : /\ temp[t] # None => content'[temp[t]] = content[temp[t]]
                           /\ video[t] # None => content'[video[t]] = content[video[t]]
    BY <1>7, <2>1 DEF Free
  <2>3. QED
    BY <1>2, <1>5, <2>2 DEF LeftAlone
<1>12. Acked(s)' = Acked(s) /\ \A q \in Request : req'[q].written = req[q].written
  BY <1>1, <1>4 DEF Acked
<1>13. ASSUME s \notin spoiled', session'[s] # None PROVE Collected(s)'
  <2>1. Collected(s)
    BY <1>2, <1>13 DEF Gathered
  <2>2. Uncounted(s)' = Uncounted(s)
    BY <1>2, <1>12 DEF Uncounted
  <2>3. Length(s)' = Length(s) /\ \A q \in Request : Inside(q, s)' = Inside(q, s)
    <3>1. CASE temp[s] # None
      <4>1. temp'[s] = temp[s] /\ content' = content
        BY <1>3, <1>5, <3>1
      <4>2. QED
        BY <4>1 DEF Length, Inside, Units
    <3>2. CASE temp[s] = None
      <4>1. content'[f] = <<>>
        BY <1>3, <3>2 DEF TypeOK
      <4>2. Length(s)' = 0 /\ Length(s) = 0
        BY <1>5, <3>2, <4>1 DEF Length
      <4>3. \A q : {i \in DOMAIN content'[f] : content'[f][i] = q} = {}
        BY <4>1
      <4>4. \A q \in Request : Inside(q, s)' = 0 /\ Inside(q, s) = 0
        BY <1>5, <3>2, <4>3, FS_EmptySet DEF Inside, Units
      <4>5. QED
        BY <4>2, <4>4
    <3>3. QED
      BY <3>1, <3>2
  <2>4. \A q \in Request : Share(q, s)' = Share(q, s)
    BY <1>2, <1>12 DEF Share
  <2>5. \A q \in Request : ToTrim(s, q)'
    BY <1>2, <1>4 DEF ToTrim
  <2>6. QED
    BY <1>2, <2>1, <2>2, <2>3, <2>4, <2>5 DEF Collected
<1>14. s \notin spoiled' => ~Closing(s)'
  <2>1. s \notin spoiled => ~Closing(s)
    BY <1>2, LockedOpen
  <2>2. Closing(s)' => Closing(s)
    BY <1>1, <1>2, <1>4 DEF Closing, At
  <2>3. QED
    BY <1>2, <2>1, <2>2
<1>15. Gathered' /\ Sealed'
  BY <1>2, <1>10, <1>11, <1>13, <1>14, OthersKept
<1>16. QED
  BY <1>8, <1>9, <1>15 DEF Published

LEMMA PublishedCounted ==
  ASSUME PublishIInv, UploadIInv', NEW r \in Request, CountChunk(r), session[req[r].s] # None
  PROVE  Published'
<1>0. Parts
  BY PublishedParts
<1> USE <1>0 DEF Parts
<1>1. PICK s \in Session : s = req[r].s
  BY DEF CountChunk, Begun
<1>2. /\ req[r].pc = "write" /\ req[r].written > 0 /\ Return(r, TRUE)
      /\ session' = [session EXCEPT ![s].received = req[r].prev + req[r].written]
      /\ UNCHANGED <<declared, temp, video, content, library, spoiled, overtaken>>
  BY <1>1 DEF CountChunk
<1>3. chunkLock[s] = r /\ session[s] # None /\ r # None
  BY <1>1, <1>2, UploadAssumption DEF LockHeld
<1>4. /\ req'[r].s = s /\ req'[r].pc = "done" /\ req'[r].fd = None /\ req'[r].ok = TRUE
      /\ req'[r].written = req[r].written
      /\ \A q \in Request \ {r} : req'[q] = req[q]
      /\ chunkLock'[s] = None
      /\ \A t \in Session \ {s} : chunkLock'[t] = chunkLock[t]
      /\ CallsKept(s)
  BY <1>2, <1>3, LockFreed
<1>5. /\ session'[s].received = session[s].received + req[r].written
      /\ \A t \in Session \ {s} : session'[t] = session[t]
  <2>1. session \in [Session -> Sessions \cup {None}] /\ session[s] \in Sessions
    BY <1>3 DEF TypeOK, Sessions
  <2>2. req[r].prev = session[s].received
    BY <1>3 DEF CountedStored
  <2>3. QED
    BY <1>2, <2>1, <2>2 DEF Sessions
<1>6. Unused' /\ Apart'
  BY <1>2, <1>4, NamesKept
<1>7. \A t \in Session \ (spoiled' \cup {s}) : LeftAlone(t)
  BY <1>2, <1>4, <1>5 DEF LeftAlone
<1>8. /\ Acked(s)' = Acked(s) \cup {r}
      /\ \A q \in Request : req'[q].written = req[q].written
  BY <1>1, <1>2, <1>4 DEF Acked
<1>9. ASSUME s \notin spoiled' PROVE Collected(s)'
  <2>1. Collected(s)
    BY <1>2, <1>3, <1>9 DEF Gathered
  <2>2. Length(s) = session[s].received + req[r].written
    BY <1>3, <2>1 DEF Collected, Uncounted
  <2>3. session[s].received \in Nat /\ req[r].written \in Nat
    BY <1>3 DEF TypeOK
  <2>4. Length(s)' = (session[s].received)' + Uncounted(s)'
    BY <1>2, <1>4, <1>5, <2>2, <2>3 DEF Length, Uncounted
  <2>5. \A q \in Request : Inside(q, s)' = Inside(q, s)
    BY <1>2 DEF Inside, Units
  <2>6. \A q \in Request : Share(q, s)' = Share(q, s)
    BY <1>3, <1>4, <1>8, UploadAssumption DEF Share
  <2>7. \A q \in Request : ToTrim(s, q)'
    BY <1>4, UploadAssumption DEF ToTrim
  <2>8. QED
    BY <2>1, <2>4, <2>5, <2>6, <2>7 DEF Collected
<1>10. s \notin spoiled' => ~Closing(s)'
  <2>1. s \notin spoiled => ~Closing(s)
    BY <1>3, LockedOpen
  <2>2. Closing(s)' => Closing(s)
    BY <1>2, <1>4 DEF Closing, At
  <2>3. QED
    BY <1>2, <2>1, <2>2
<1>11. Gathered' /\ Sealed'
  BY <1>2, <1>4, <1>7, <1>9, <1>10, OthersKept
<1>12. QED
  BY <1>6, <1>11 DEF Published

LEMMA PublishedOver ==
  ASSUME PublishIInv, UploadIInv', NEW r \in Request, OverLimit(r)
  PROVE  Published'
<1>0. Parts
  BY PublishedParts
<1> USE <1>0 DEF Parts
<1>1. PICK s \in Session : s = req[r].s
  BY DEF OverLimit, Begun
<1>2. /\ req[r].pc = "write" /\ chunkLock[s] = r /\ r # None
      /\ req' = [req EXCEPT ![r].pc = "trim", ![r].fd = None]
      /\ UNCHANGED <<session, declared, chunkLock, temp, video, content, library, spoiled, overtaken>>
  BY <1>1, UploadAssumption DEF OverLimit, LockHeld
<1>3. /\ req'[r].s = s /\ req'[r].pc = "trim" /\ req'[r].fd = None /\ req'[r].ok = req[r].ok
      /\ req'[r].written = req[r].written /\ req'[r].prev = req[r].prev
      /\ \A q \in Request \ {r} : req'[q] = req[q]
  <2>1. req \in [Request -> Calls]
    BY DEF TypeOK, Calls
  <2>2. QED
    BY <1>1, <1>2, <2>1 DEF Calls
<1>4. Unused' /\ Apart'
  BY <1>2, <1>3, NamesKept
<1>5. CallsKept(s) /\ \A t \in Session \ (spoiled' \cup {s}) : LeftAlone(t)
  BY <1>1, <1>2, <1>3, OwnCalls DEF LeftAlone
<1>6. Acked(s)' = Acked(s) /\ \A q \in Request : req'[q].written = req[q].written
  BY <1>1, <1>3 DEF Acked
<1>7. ASSUME s \notin spoiled', session'[s] # None PROVE Collected(s)'
  <2>1. Collected(s)
    BY <1>2, <1>7 DEF Gathered
  <2>2. Length(s)' = Length(s) /\ Uncounted(s)' = Uncounted(s)
    BY <1>2, <1>6 DEF Length, Uncounted
  <2>3. \A q \in Request : Inside(q, s)' = Inside(q, s) /\ Share(q, s)' = Share(q, s)
    BY <1>2, <1>6 DEF Inside, Units, Share
  <2>4. /\ temp[s] = req[r].fd
        /\ Len(content[temp[s]]) = req[r].initial + req[r].written
        /\ LastOf(content[temp[s]], req[r].initial, r)
    BY <1>1, <1>2, <1>7 DEF Appending, AfterCounted, AtEnd, Marked, LastOf
  <2>5. temp[s] # None
    BY <1>2, <2>4 DEF Appending, LateOnFile
  <2>6. req[r].initial = req[r].prev
    <3>1. Length(s) = session[s].received + req[r].written
      BY <1>2, <2>1 DEF Collected, Uncounted
    <3>2. Length(s) = req[r].initial + req[r].written
      BY <2>4, <2>5 DEF Length
    <3>3. req[r].prev = session[s].received
      BY <1>2, <1>7 DEF CountedStored
    <3>4. req[r].prev \in Nat /\ req[r].initial \in Nat /\ req[r].written \in Nat
      BY DEF TypeOK
    <3>5. QED
      BY <3>1, <3>2, <3>3, <3>4
  <2>7. \A q \in Request : ToTrim(s, q)'
    BY <1>2, <1>3, <2>4, <2>6 DEF ToTrim
  <2>8. QED
    BY <1>2, <2>1, <2>2, <2>3, <2>7 DEF Collected
<1>8. s \notin spoiled' => ~Closing(s)'
  <2>1. s \notin spoiled => ~Closing(s)
    BY <1>2, LockedOpen
  <2>2. Closing(s)' => Closing(s)
    BY <1>1, <1>2, <1>3 DEF Closing, At
  <2>3. QED
    BY <1>2, <2>1, <2>2
<1>9. Gathered' /\ Sealed'
  BY <1>2, <1>5, <1>7, <1>8, OthersKept
<1>10. QED
  BY <1>4, <1>9 DEF Published


\* finish_session gives s a video g that holds what f did: f itself, or a copy.
Filmed(r, s, f, g) ==
  /\ s = req[r].s /\ req' = [req EXCEPT ![r].pc = "library"]
  /\ UNCHANGED <<session, declared, chunkLock, library, spoiled, overtaken>>
  /\ temp' = [temp EXCEPT ![s] = None] \/ temp' = temp
  /\ video' = [video EXCEPT ![s] = g]
  /\ \/ f = temp[s] /\ req[r].pc = "move"
     \/ f = video[s] /\ req[r].pc = "library"
  /\ \/ Free(g) /\ content' = [content EXCEPT ![g] = content[f]]
     \/ g = f /\ content' = content /\ f = temp[s] /\ temp'[s] = None

LEMMA PublishedFilm ==
  ASSUME PublishIInv, UploadIInv', NEW r \in Request, NEW s \in Session,
         NEW f \in File, NEW g \in File, Filmed(r, s, f, g)
  PROVE  Published'
<1>0. /\ Parts
      /\ s = req[r].s /\ req' = [req EXCEPT ![r].pc = "library"]
      /\ UNCHANGED <<session, declared, chunkLock, library, spoiled, overtaken>>
      /\ temp' = [temp EXCEPT ![s] = None] \/ temp' = temp
      /\ video' = [video EXCEPT ![s] = g]
      /\ \/ f = temp[s] /\ req[r].pc = "move"
         \/ f = video[s] /\ req[r].pc = "library"
      /\ \/ Free(g) /\ content' = [content EXCEPT ![g] = content[f]]
         \/ g = f /\ content' = content /\ f = temp[s] /\ temp'[s] = None
  BY PublishedParts DEF Filmed
<1> USE <1>0 DEF Parts
<1>1. /\ req'[r].s = s /\ req'[r].pc = "library" /\ req'[r].fd = req[r].fd
      /\ req'[r].ok = req[r].ok /\ req'[r].written = req[r].written
      /\ \A q \in Request \ {r} : req'[q] = req[q]
  <2>1. req \in [Request -> Calls]
    BY DEF TypeOK, Calls
  <2>2. QED
    BY <2>1 DEF Calls
<1>2. /\ g # None /\ f # None /\ session[s] = None
      /\ video'[s] = g /\ \A t \in Session \ {s} : video'[t] = video[t]
      /\ temp'[s] \in {None, temp[s]} /\ \A t \in Session \ {s} : temp'[t] = temp[t]
  BY UploadAssumption DEF TypeOK, TakenOut
<1>3. ASSUME s \notin spoiled
      PROVE  /\ chunkLock[s] = None /\ Exactly(s, f)
             /\ \A q \in Request : req[q].s = s => req[q].fd = None
  <2>1. Closed(s)
    BY <1>3 DEF Sealed, Closing, At
  <2>2. Exactly(s, f)
    <3>1. CASE f = temp[s] /\ req[r].pc = "move"
      <4>1. Exactly(s, temp[s])
        BY <1>2, <2>1, <3>1 DEF Closed, At
      <4>2. QED
        BY <3>1, <4>1
    <3>2. CASE f = video[s] /\ req[r].pc = "library"
      <4>1. Exactly(s, video[s])
        BY <2>1, <3>2 DEF Closed, At
      <4>2. QED
        BY <3>2, <4>1
    <3>3. QED
      BY <3>1, <3>2
  <2>3. ASSUME NEW q \in Request, req[q].s = s, req[q].fd # None PROVE FALSE
    <3>1. req[q].pc = "write"
      BY <1>3, <2>3 DEF Appending, Marked
    <3>2. chunkLock[s] = q
      BY <2>3, <3>1 DEF LockHeld
    <3>3. QED
      BY <2>1, <3>2, UploadAssumption DEF Closed
  <2>4. QED
    BY <2>1, <2>2, <2>3 DEF Closed
<1>4. /\ \A t \in Session : temp'[t] # g
      /\ \A t \in Session \ {s} : video[t] # g
      /\ s \notin spoiled => \A q \in Request : req[q].fd # g
  <2>1. CASE Free(g)
    BY <1>2, <2>1 DEF Free
  <2>2. CASE g = f /\ f = temp[s] /\ temp'[s] = None
    <3>1. \A t \in Session : temp'[t] # g
      BY <1>2, <2>2 DEF OwnFile
    <3>2. \A t \in Session : video[t] # g
      BY <1>2, <2>2 DEF Apart
    <3>3. s \notin spoiled => \A q \in Request : req[q].fd # g
      BY <1>2, <1>3, <2>2 DEF OwnFile
    <3>4. QED
      BY <3>1, <3>2, <3>3
  <2>3. QED
    BY <2>1, <2>2
<1>5. Unused'
  BY <1>2 DEF Unused
<1>6. Apart'
  <2>1. \A t, u \in Session : temp'[t] # None => temp'[t] # video'[u]
    BY <1>2, <1>4 DEF Apart
  <2>2. \A t, u \in Session : video'[t] # None /\ video'[t] = video'[u] => t = u
    BY <1>2, <1>4 DEF Apart
  <2>3. \A q \in Request, t \in Session :
          req'[q].fd # None /\ req'[q].fd = video'[t] => t \in spoiled'
    <3>1. \A q \in Request : req'[q].fd = req[q].fd
      BY <1>1
    <3>2. QED
      BY <1>2, <1>4, <3>1 DEF Apart
  <2>4. QED
    BY <2>1, <2>2, <2>3 DEF Apart
<1>7. CallsKept(s)
  BY <1>1, OwnCalls
<1>8. \A t \in Session \ (spoiled' \cup {s}) : LeftAlone(t)
  <2>1. \A h \in File : content'[h] = content[h] \/ (Free(g) /\ h = g)
    BY DEF TypeOK
  <2>2. \A t \in Session : /\ temp[t] # None => temp[t] \in File
                           /\ video[t] # None => video[t] \in File
    BY DEF TypeOK
  <2>3. \A t \in Session : /\ temp[t] # None => content'[temp[t]] = content[temp[t]]
                           /\ video[t] # None => content'[video[t]] = content[video[t]]
    BY <2>1, <2>2 DEF Free
  <2>4. QED
    BY <1>2, <2>3 DEF LeftAlone
<1>9. Acked(s)' = Acked(s) /\ \A q \in Acked(s) : req'[q].written = req[q].written
  BY <1>1 DEF Acked
<1>10. content'[g] = content[f]
  BY DEF TypeOK
<1>11. ASSUME s \notin spoiled' PROVE Closed(s)'
  <2>1. Exactly(s, f) /\ chunkLock[s] = None
    BY <1>3, <1>11
  <2>2. Exactly(s, g)'
    BY <1>9, <1>10, <2>1, ExactlyKept
  <2>3. Exactly(s, video[s])'
    <3>1. video'[s] = g
      BY <1>2
    <3>2. QED
      BY ONLY <2>2, <3>1 DEF Exactly, Units
  <2>4. At(s, "move")' /\ temp'[s] # None => Exactly(s, temp[s])'
    <3>1. CASE At(s, "move")' /\ temp'[s] # None
      <4>1. temp'[s] = temp[s] /\ At(s, "move")
        BY <1>1, <1>2, <3>1 DEF At
      <4>2. PICK h \in File : h = temp[s]
        BY <1>2, <3>1, <4>1 DEF TypeOK
      <4>3. Exactly(s, h)
        <5>1. Closed(s)
          BY <1>11, <4>1 DEF Sealed, Closing
        <5>2. Exactly(s, temp[s])
          BY <1>2, <3>1, <4>1, <5>1 DEF Closed
        <5>3. QED
          BY <4>2, <5>2
      <4>4. content'[h] = content[h]
        BY <1>4, <4>1, <4>2 DEF TypeOK
      <4>5. Exactly(s, h)'
        BY <1>9, <4>3, <4>4, ExactlyKept
      <4>6. QED
        <5>1. temp'[s] = h
          BY <4>1, <4>2
        <5>2. QED
          BY ONLY <4>5, <5>1 DEF Exactly, Units
    <3>2. QED
      BY <3>1
  <2>5. QED
    BY <1>2, <2>1, <2>3, <2>4 DEF Closed
<1>12. Gathered' /\ Sealed'
  BY <1>2, <1>7, <1>8, <1>11, OthersKept
<1>13. QED
  BY <1>5, <1>6, <1>12 DEF Published

LEMMA PublishedProcessed ==
  ASSUME PublishIInv, UploadIInv', NEW r \in Request,
         MoveVideo(r) \/ ConvertVideo(r) \/ ReencodeVideo(r)
  PROVE  Published'
<1>0. Parts
  BY PublishedParts
<1> USE <1>0 DEF Parts
<1>1. PICK s \in Session : s = req[r].s
  BY DEF MoveVideo, ConvertVideo, ReencodeVideo, Begun
<1>2. CASE MoveVideo(r)
  <2>1. /\ req[r].pc = "move" /\ temp[s] # None /\ req' = [req EXCEPT ![r].pc = "library"]
        /\ temp' = [temp EXCEPT ![s] = None]
        /\ UNCHANGED <<session, declared, chunkLock, content, library, spoiled, overtaken>>
        /\ video' = [video EXCEPT ![s] = temp[s]]
    BY <1>1, <1>2 DEF MoveVideo
  <2>2. PICK f \in File : f = temp[s]
    BY <2>1 DEF TypeOK
  <2>3. video' = [video EXCEPT ![s] = f] /\ temp'[s] = None
    BY <2>1, <2>2 DEF TypeOK
  <2>4. Filmed(r, s, f, f)
    <3>1. f = temp[s] /\ req[r].pc = "move" /\ content' = content
      BY <2>1, <2>2
    <3>2. temp' = [temp EXCEPT ![s] = None] \/ temp' = temp
      BY <2>1
    <3>3. QED
      BY <1>1, <2>1, <2>3, <3>1, <3>2, Zenon DEF Filmed
  <2>5. QED
    BY <2>4, PublishedFilm
<1>3. CASE ConvertVideo(r)
  <2>1. /\ req[r].pc = "move" /\ temp[s] # None /\ req' = [req EXCEPT ![r].pc = "library"]
        /\ temp' = [temp EXCEPT ![s] = None] /\ CopyVideo(s, temp[s])
        /\ UNCHANGED <<session, declared, chunkLock, library, spoiled, overtaken>>
    BY <1>1, <1>3 DEF ConvertVideo
  <2>2. PICK f \in File : f = temp[s]
    BY <2>1 DEF TypeOK
  <2>3. PICK g \in File : /\ Free(g) /\ content' = [content EXCEPT ![g] = content[f]]
                          /\ video' = [video EXCEPT ![s] = g]
    BY <2>1, <2>2 DEF CopyVideo
  <2>4. Filmed(r, s, f, g)
    <3>1. f = temp[s] /\ req[r].pc = "move"
      BY <2>1, <2>2
    <3>2. temp' = [temp EXCEPT ![s] = None] \/ temp' = temp
      BY <2>1
    <3>3. QED
      BY <1>1, <2>1, <2>3, <3>1, <3>2, Zenon DEF Filmed
  <2>5. QED
    BY <2>4, PublishedFilm
<1>4. CASE ReencodeVideo(r)
  <2>1. /\ req[r].pc = "library" /\ CopyVideo(s, video[s])
        /\ UNCHANGED <<session, declared, chunkLock, temp, library, req, spoiled, overtaken>>
    BY <1>1, <1>4 DEF ReencodeVideo
  <2>2. PICK f \in File : f = video[s]
    BY <1>1, <2>1 DEF TypeOK, TakenOut
  <2>3. PICK g \in File : /\ Free(g) /\ content' = [content EXCEPT ![g] = content[f]]
                          /\ video' = [video EXCEPT ![s] = g]
    BY <2>1, <2>2 DEF CopyVideo
  <2>4. req' = [req EXCEPT ![r].pc = "library"]
    <3>1. req \in [Request -> Calls]
      BY DEF TypeOK, Calls
    <3>2. QED
      BY <2>1, <3>1 DEF Calls
  <2>5. Filmed(r, s, f, g)
    BY <1>1, <2>1, <2>2, <2>3, <2>4 DEF Filmed
  <2>6. QED
    BY <2>5, PublishedFilm
<1>5. QED
  BY <1>2, <1>3, <1>4

\* A call cut off makes the file of s, if it is missing; a finish finds it there.
LEMMA PublishedLateOpen ==
  ASSUME PublishIInv, UploadIInv', NEW r \in Request, LateOpen(r)
  PROVE  Published'
<1>0. Parts
  BY PublishedParts
<1> USE <1>0 DEF Parts
<1>1. PICK s \in Session, f \in File : s = req[r].s /\ Opens(s, f)
  BY DEF LateOpen, Begun
<1>2. /\ req[r].pc = "late_open" /\ Over(r)
      /\ UNCHANGED <<session, declared, chunkLock, video, library, spoiled, overtaken>>
  BY DEF LateOpen
<1>3. /\ temp' \in [Session -> File \cup {None}] /\ temp'[s] = f
      /\ \A t \in Session \ {s} : temp'[t] = temp[t] /\ temp[t] # f
      /\ temp[s] # None => temp[s] = f /\ content' = content
      /\ \A e \in File : content'[e] = content[e] \/ (content'[e] = <<>> /\ Free(e) /\ e = f)
      /\ temp[s] = None => content'[f] = <<>>
      /\ \A t \in Session : Length(t)' = Length(t)
  BY <1>1, FileOpened
<1>4. /\ req'[r].s = s /\ req'[r].pc = "done" /\ req'[r].fd = None /\ req'[r].ok = req[r].ok
      /\ req'[r].written = req[r].written /\ ~req[r].ok
      /\ \A q \in Request \ {r} : req'[q] = req[q]
  BY <1>1, <1>2 DEF Over, TypeOK, Unwritten
<1>5. f # None /\ \A t \in Session : f # video[t]
  BY <1>1, UploadAssumption DEF Opens, Free, Apart
<1>6. Unused'
  BY <1>1, <1>2, <1>3 DEF Unused, Begun
<1>7. Apart'
  <2>1. \A t, u \in Session : temp'[t] # None => temp'[t] # video[u]
    BY <1>3, <1>5 DEF Apart
  <2>2. \A q \in Request, t \in Session :
          req'[q].fd # None /\ req'[q].fd = video[t] => t \in spoiled
    BY <1>4 DEF Apart
  <2>3. QED
    BY <1>2, <2>1, <2>2 DEF Apart
<1>8. CallsKept(s)
  BY <1>1, <1>4, OwnCalls
<1>9. \A t \in Session : /\ temp[t] # None => content'[temp[t]] = content[temp[t]]
                         /\ video[t] # None => content'[video[t]] = content[video[t]]
  <2>1. \A t \in Session : /\ temp[t] # None => temp[t] \in File
                           /\ video[t] # None => video[t] \in File
    BY DEF TypeOK
  <2>2. QED
    BY <1>3, <2>1 DEF Free
<1>10. \A t \in Session \ (spoiled' \cup {s}) : LeftAlone(t)
  BY <1>2, <1>3, <1>9 DEF LeftAlone
<1>11. Acked(s)' = Acked(s) /\ \A q \in Request : req'[q].written = req[q].written
  BY <1>1, <1>4 DEF Acked
<1>12. ASSUME s \notin spoiled', session'[s] # None PROVE Collected(s)'
  <2>1. Collected(s)
    BY <1>2, <1>12 DEF Gathered
  <2>2. chunkLock[s] # r /\ (chunkLock[s] = None \/ chunkLock[s] \in Request)
    <3>1. chunkLock[s] # r
      BY <1>2 DEF LockHeld
    <3>2. chunkLock[s] = None \/ chunkLock[s] \in Request
      BY DEF TypeOK
    <3>3. QED
      BY <3>1, <3>2
  <2>3. Uncounted(s)' = Uncounted(s)
    BY <1>2, <1>11, <2>2 DEF Uncounted
  <2>4. \A q \in Request : Inside(q, s)' = Inside(q, s)
    <3>1. CASE temp[s] # None
      BY <1>3, <3>1 DEF Inside, Units
    <3>2. CASE temp[s] = None
      <4>1. \A q : {i \in DOMAIN content'[f] : content'[f][i] = q} = {}
        BY <1>3, <3>2
      <4>2. QED
        BY <1>3, <1>5, <3>2, <4>1, FS_EmptySet DEF Inside, Units
    <3>3. QED
      BY <3>1, <3>2
  <2>5. \A q \in Request : Share(q, s)' = Share(q, s)
    BY <1>2, <1>11 DEF Share
  <2>6. ASSUME NEW q \in Request PROVE ToTrim(s, q)'
    <3>1. ToTrim(s, q)
      BY <2>1 DEF Collected
    <3>2. chunkLock'[s] = q => req'[q] = req[q] /\ chunkLock[s] = q
      BY <1>2, <1>4, <2>2
    <3>3. CASE temp[s] # None
      BY <1>3, <3>1, <3>2, <3>3 DEF ToTrim
    <3>4. CASE temp[s] = None
      BY <1>3, <3>4 DEF ToTrim, LastOf
    <3>5. QED
      BY <3>3, <3>4
  <2>7. QED
    BY <1>2, <1>3, <2>1, <2>3, <2>4, <2>5, <2>6 DEF Collected
<1>13. ASSUME s \notin spoiled', Closing(s)' PROVE Closed(s)'
  <2>1. \A p \in {"move", "library"} : At(s, p)' => At(s, p)
    BY <1>4 DEF At
  <2>2. Closing(s) /\ Closed(s)
    BY <1>2, <1>13, <2>1 DEF Closing, Sealed
  <2>3. ASSUME At(s, "move")' PROVE Exactly(s, temp[s])'
    <3>1. temp[s] # None
      BY <1>2, <1>13, <2>1, <2>3 DEF At, Finishing
    <3>2. Exactly(s, f) /\ content' = content
      BY <1>3, <2>1, <2>2, <2>3, <3>1 DEF Closed
    <3>3. \A q \in Acked(s) : req'[q].written = req[q].written
      BY <1>11 DEF Acked
    <3>4. declared'[s] = declared[s] /\ content'[f] = content[f]
      BY <1>2, <3>2
    <3>5. Exactly(s, f)'
      BY <1>11, <3>2, <3>3, <3>4, ExactlyKept
    <3>6. QED
      BY <1>3, <3>5 DEF Exactly, Units
  <2>4. ASSUME s \in library' \/ At(s, "library")' PROVE video'[s] # None /\ Exactly(s, video[s])'
    <3>1. PICK g : g = video[s]
      OBVIOUS
    <3>2. g # None /\ Exactly(s, g) /\ content'[g] = content[g] /\ video'[s] = g
      BY <1>2, <1>9, <2>1, <2>2, <2>4, <3>1 DEF Closed
    <3>3. \A q \in Acked(s) : req'[q].written = req[q].written
      BY <1>11 DEF Acked
    <3>4. declared'[s] = declared[s] /\ content'[g] = content[g]
      BY <1>2, <3>2
    <3>5. Exactly(s, g)'
      BY <1>11, <3>2, <3>3, <3>4, ExactlyKept
    <3>6. QED
      BY <3>2, <3>5 DEF Exactly, Units
  <2>5. QED
    BY <1>2, <2>2, <2>3, <2>4 DEF Closed
<1>14. Gathered' /\ Sealed'
  BY <1>2, <1>8, <1>10, <1>12, <1>13, OthersKept
<1>15. QED
  BY <1>6, <1>7, <1>14 DEF Published

\* What a call cut off writes or cuts is in a file of its session, which is marked.
LEMMA PublishedLateFile ==
  ASSUME PublishIInv, UploadIInv', NEW r \in Request, LateWrite(r) \/ LateCut(r)
  PROVE  Published'
<1>0. Parts
  BY PublishedParts
<1> USE <1>0 DEF Parts
<1>1. /\ req[r].pc \in LateOnFile /\ Over(r)
      /\ UNCHANGED <<session, declared, chunkLock, temp, video, library, spoiled, overtaken>>
  BY DEF LateWrite, LateCut, LateOnFile
<1>2. PICK s \in Session, f \in File : s = req[r].s /\ f = req[r].fd
  BY <1>1 DEF Begun, Appending, LateOnFile, TypeOK
<1>3. s \in spoiled /\ f # None
  BY <1>1, <1>2, UploadAssumption DEF Marked
<1>4. /\ req'[r].s = s /\ req'[r].pc = "done" /\ req'[r].fd = None
      /\ \A q \in Request \ {r} : req'[q] = req[q]
  BY <1>1, <1>2 DEF Over, TypeOK
<1>5. \A g \in File \ {f} : content'[g] = content[g]
  BY <1>2 DEF LateWrite, LateCut, SetLen, TypeOK
<1>6. \A t \in Session \ spoiled' : f # temp[t] /\ f # video[t]
  BY <1>1, <1>2, <1>3 DEF OwnFile, Apart
<1>7. \A t \in Session : /\ temp[t] # None => temp[t] \in File
                         /\ video[t] # None => video[t] \in File
  BY DEF TypeOK
<1>8. \A t \in Session \ (spoiled' \cup {s}) : LeftAlone(t)
  BY <1>1, <1>5, <1>6, <1>7 DEF LeftAlone
<1>9. CallsKept(s)
  BY <1>2, <1>4, OwnCalls
<1>10. Gathered' /\ Sealed'
  BY <1>1, <1>3, <1>8, <1>9, OthersKept
<1>11. \A q \in Request : req'[q].fd \in {None, req[q].fd} \cup {temp[t] : t \in Session}
  BY <1>4
<1>12. Unused' /\ Apart'
  BY <1>1, <1>11, NamesKept
<1>13. QED
  BY <1>10, <1>12 DEF Published

LEMMA PublishedStep == PublishIInv /\ UploadIInv' /\ [Next]_vars => Published'
<1> SUFFICES ASSUME PublishIInv, UploadIInv', [Next]_vars PROVE Published'
  OBVIOUS
<1>1. CASE UNCHANGED vars
  <2>1. UNCHANGED <<session, declared, chunkLock, temp, video, content, library, req, spoiled, overtaken>>
    BY <1>1 DEF vars
  <2>2. CallsKept(None)
    BY <2>1 DEF CallsKept
  <2>3. QED
    BY <2>1, <2>2, QuietStep
<1>2. ASSUME NEW s \in Session, NEW size \in Declared, StartSession(s, size)
      PROVE  Published'
  BY <1>2, PublishedStart
<1>3. ASSUME NEW r \in Request, NEW s \in Session, BeginAppend(r, s) \/ BeginFinish(r, s)
      PROVE  Published'
  BY <1>3, PublishedSwept, PublishedFinish
<1>4. ASSUME NEW r \in Request, AppendStep(r) PROVE Published'
  <2>1. CASE LockChunk(r) \/ CountChunk(r)
    BY <2>1, PublishedEnded, PublishedLocked, PublishedCounted
  <2>2. CASE OpenTemp(r) \/ WriteFrame(r) \/ OverLimit(r)
    BY <2>2, PublishedOpened, PublishedWritten, PublishedOver
  <2>3. CASE RejectChunk(r) \/ TrimUpload(r)
    BY <2>3, PublishedRejected, PublishedTrimmed
  <2>4. QED
    BY <1>4, <2>1, <2>2, <2>3 DEF AppendStep
<1>5. ASSUME NEW r \in Request, FinishStep(r) \/ Disconnect(r) PROVE Published'
  BY <1>5, PublishedProcessed, PublishedEnded DEF FinishStep
<1>9. ASSUME NEW r \in Request, LateStep(r) PROVE Published'
  BY <1>9, PublishedLateOpen, PublishedLateFile DEF LateStep
<1>6. CASE (\E s \in Session : TimePasses(s)) \/ Sweep
  BY <1>6, PublishedSwept
<1>7. CASE Restart
  BY <1>7, PublishedRestart
<1>8. QED
  BY <1>1, <1>2, <1>3, <1>4, <1>5, <1>6, <1>7, <1>9 DEF Next

LEMMA SpoiledGrows ==
  [Next]_vars => spoiled \subseteq spoiled'
                 /\ (overtaken' = overtaken \/ \E r \in Request : Overtakes(req[r].s))
<1> SUFFICES ASSUME [Next]_vars
             PROVE  spoiled \subseteq spoiled'
                    /\ (overtaken' = overtaken \/ \E r \in Request : Overtakes(req[r].s))
  OBVIOUS
<1>1. ASSUME NEW r \in Request, AppendStep(r)
      PROVE  spoiled' = spoiled /\ (overtaken' = overtaken \/ Overtakes(req[r].s))
  BY <1>1 DEF AppendStep, LockChunk, OpenTemp, WriteFrame, RejectChunk, CountChunk, OverLimit,
              TrimUpload
<1>2. ASSUME NEW r \in Request, FinishStep(r) \/ LateStep(r)
      PROVE  UNCHANGED <<spoiled, overtaken>>
  BY <1>2 DEF FinishStep, MoveVideo, ConvertVideo, ReencodeVideo, AddEntry, FinishFails,
              LateStep, LateOpen, LateWrite, LateCut
<1>3. ASSUME NEW r \in Request, Disconnect(r)
      PROVE  spoiled \subseteq spoiled' /\ overtaken' = overtaken
  BY <1>3 DEF Disconnect
<1>4. ASSUME NEW r \in Request, NEW s \in Session, BeginAppend(r, s) \/ BeginFinish(r, s)
      PROVE  spoiled \subseteq spoiled' /\ overtaken' = overtaken
  BY <1>4 DEF BeginAppend, BeginFinish
<1>5. ASSUME \/ \E s \in Session, size \in Declared : StartSession(s, size)
             \/ \E s \in Session : TimePasses(s)
             \/ Sweep \/ Restart \/ UNCHANGED vars
      PROVE  UNCHANGED <<spoiled, overtaken>>
  BY <1>5 DEF StartSession, TimePasses, Sweep, Restart, vars
<1>6. QED
  BY <1>1, <1>2, <1>3, <1>4, <1>5 DEF Next

LEMMA MarkedNext == PublishIInv /\ [Next]_vars => Marked'
<1> SUFFICES ASSUME PublishIInv, [Next]_vars PROVE Marked'
  OBVIOUS
<1>1. UploadIInv /\ Marked /\ TypeOK
  BY DEF PublishIInv, UploadIInv, Stored, UploadInv
<1>2. spoiled \subseteq spoiled' /\ (overtaken' = overtaken \/ \E r \in Request : Overtakes(req[r].s))
  BY SpoiledGrows
<1>3. overtaken' \subseteq spoiled'
  BY <1>1, <1>2 DEF Overtakes, Marked, LateOnFile
<1>4. ASSUME NEW x \in Request, req'[x].pc \in LateOnFile PROVE req'[x].s \in spoiled'
  <2>1. req'[x].s = req[x].s /\ (req[x].pc \in LateOnFile \/ Disconnect(x))
    BY <1>1, <1>4, CallsMoveNext DEF CallsMove
  <2>2. CASE req[x].pc \in LateOnFile
    BY <1>1, <1>2, <2>1, <2>2 DEF Marked
  <2>3. CASE Disconnect(x)
    <3>1. PICK call : /\ req' = [req EXCEPT ![x] = call]
                      /\ call.pc \in LateOnFile => req[x].s \in spoiled'
      BY <2>3 DEF Disconnect, LateOnFile
    <3>2. req'[x] = call
      BY <1>1, <3>1 DEF TypeOK
    <3>3. QED
      BY <1>4, <2>1, <3>1, <3>2
  <2>4. QED
    BY <2>1, <2>2, <2>3
<1>5. QED
  BY <1>3, <1>4 DEF Marked

\* A call is in finish_session by BeginFinish, and only a call there, or who
\* finds the session, takes its file away.
FinishMoves ==
  /\ \A x \in Request : req'[x].pc \in InFinish =>
       \/ /\ req[x].pc \in InFinish /\ req'[x].s = req[x].s
          /\ req'[x].pc = "move" => req[x].pc = "move"
       \/ \E s \in Session : BeginFinish(x, s)
  /\ \A t \in Session : temp[t] # None /\ temp'[t] = None =>
       \/ session[t] # None
       \/ \E x \in Request : req[x].pc \in InFinish /\ req[x].s = t /\ req'[x].pc # "move"

LEMMA FinishMovesNext == PublishIInv /\ [Next]_vars => FinishMoves
<1> SUFFICES ASSUME PublishIInv, [Next]_vars PROVE FinishMoves
  OBVIOUS
<1>0. Parts /\ UploadIInv
  BY PublishedParts DEF Parts
<1>00. req \in [Request -> Calls] /\ temp \in [Session -> File \cup {None}] /\ TypeOK
  BY <1>0 DEF Parts, TypeOK, Calls
<1> USE DEF FinishMoves, InFinish
\* A call that returns was, if anywhere, in finish_session.
<1>1. ASSUME NEW r \in Request, NEW ok \in BOOLEAN, Return(r, ok), temp' = temp
      PROVE  FinishMoves
  BY <1>00, <1>1, ReturnCall
<1>2. ASSUME NEW r \in Request, AppendStep(r) PROVE FinishMoves
  <2>1. CASE RejectChunk(r) \/ CountChunk(r) \/ TrimUpload(r)
    BY <1>1, <2>1 DEF RejectChunk, CountChunk, TrimUpload
  <2>2. CASE LockChunk(r) /\ session[req[r].s] = None
    BY <1>1, <2>2 DEF LockChunk
  <2>3. CASE (LockChunk(r) /\ session[req[r].s] # None) \/ WriteFrame(r) \/ OverLimit(r)
    <3>1. /\ req'[r].pc \in {"open", "write", "trim"} /\ temp' = temp
          /\ \A q \in Request \ {r} : req'[q] = req[q]
      BY <1>00, <2>3 DEF LockChunk, WriteFrame, OverLimit, Calls
    <3>2. QED
      BY <3>1
  <2>4. CASE OpenTemp(r)
    <3>1. req'[r].pc = "write" /\ \A q \in Request \ {r} : req'[q] = req[q]
      BY <1>00, <2>4 DEF OpenTemp, Calls
    <3>2. PICK f \in File : temp' = [temp EXCEPT ![req[r].s] = f]
      BY <2>4 DEF OpenTemp, Opens
    <3>3. \A t \in Session : temp'[t] # None \/ temp'[t] = temp[t]
      BY <1>00, <3>2, UploadAssumption
    <3>4. QED
      BY <3>1, <3>3
  <2>5. QED
    BY <1>2, <2>1, <2>2, <2>3, <2>4 DEF AppendStep
<1>3. ASSUME NEW r \in Request, FinishStep(r) PROVE FinishMoves
  <2>1. CASE MoveVideo(r) \/ ConvertVideo(r)
    <3>1. /\ req[r].pc = "move" /\ temp' = [temp EXCEPT ![req[r].s] = None]
          /\ req' = [req EXCEPT ![r].pc = "library"]
      BY <2>1 DEF MoveVideo, ConvertVideo
    <3>2. /\ req'[r].pc = "library" /\ req'[r].s = req[r].s
          /\ \A q \in Request \ {r} : req'[q] = req[q]
      BY <1>00, <3>1 DEF Calls
    <3>3. \A t \in Session : temp'[t] = temp[t] \/ t = req[r].s
      BY <1>00, <3>1
    <3>4. QED
      BY <3>1, <3>2, <3>3
  <2>2. CASE ReencodeVideo(r)
    BY <2>2 DEF ReencodeVideo
  <2>3. CASE AddEntry(r)
    BY <1>1, <2>3 DEF AddEntry
  <2>4. CASE FinishFails(r)
    <3>1. /\ req[r].pc \in {"move", "library"} /\ temp' = [temp EXCEPT ![req[r].s] = None]
          /\ Return(r, FALSE)
      BY <2>4 DEF FinishFails
    <3>2. req'[r].pc = "done" /\ \A q \in Request \ {r} : req'[q] = req[q]
      BY <1>00, <3>1, ReturnCall
    <3>3. \A t \in Session : temp'[t] = temp[t] \/ t = req[r].s
      BY <1>00, <3>1
    <3>4. QED
      BY <3>1, <3>2, <3>3
  <2>5. QED
    BY <1>3, <2>1, <2>2, <2>3, <2>4 DEF FinishStep
<1>4. ASSUME NEW r \in Request, Disconnect(r) PROVE FinishMoves
  <2>1. temp' = temp
    BY <1>4 DEF Disconnect
  <2>2. CASE ~Return(r, FALSE)
    <3>1. req'[r].pc \notin InFinish /\ \A q \in Request \ {r} : req'[q] = req[q]
      BY <1>0, <1>4, <2>2, DroppedCall DEF LateOnFile
    <3>2. QED
      BY <2>1, <3>1
  <2>3. QED
    BY <1>1, <2>1, <2>2
<1>5. ASSUME NEW r \in Request, LateStep(r) PROVE FinishMoves
  <2>1. req'[r].pc = "done" /\ \A q \in Request \ {r} : req'[q] = req[q]
    BY <1>00, <1>5 DEF LateStep, LateOpen, LateWrite, LateCut, Over, Calls
  <2>2. CASE LateOpen(r)
    <3>1. PICK f \in File : temp' = [temp EXCEPT ![req[r].s] = f]
      BY <2>2 DEF LateOpen, Opens
    <3>2. \A t \in Session : temp'[t] # None \/ temp'[t] = temp[t]
      BY <1>00, <3>1, UploadAssumption
    <3>3. QED
      BY <2>1, <3>2
  <2>3. CASE LateWrite(r) \/ LateCut(r)
    BY <2>1, <2>3 DEF LateWrite, LateCut
  <2>4. QED
    BY <1>5, <2>2, <2>3 DEF LateStep
<1>6. ASSUME NEW r \in Request, NEW s \in Session, BeginAppend(r, s) \/ BeginFinish(r, s)
      PROVE  FinishMoves
  <2>1. \A q \in Request \ {r} : req'[q] = req[q]
    BY <1>00, <1>6 DEF BeginAppend, BeginFinish
  <2>2. req'[r].pc \in InFinish => BeginFinish(r, s)
    BY <1>00, <1>6 DEF BeginAppend, Calls
  <2>3. \A t \in Session : temp[t] # None /\ temp'[t] = None => session[t] # None
    BY <1>00, <1>6 DEF BeginAppend, BeginFinish, Swept, SweptTemp, Stale
  <2>4. QED
    BY <2>1, <2>2, <2>3
<1>7. ASSUME (\E s \in Session, size \in Declared : StartSession(s, size)) \/ Sweep
      PROVE  FinishMoves
  <2>1. req' = req /\ \A t \in Session : temp[t] # None /\ temp'[t] = None => session[t] # None
    BY <1>7 DEF StartSession, Sweep, SweptTemp, Stale
  <2>2. QED
    BY <2>1
<1>8. ASSUME (\E s \in Session : TimePasses(s)) \/ UNCHANGED vars PROVE FinishMoves
  BY <1>8 DEF TimePasses, vars
<1>9. ASSUME Restart PROVE FinishMoves
  <2>1. temp' = temp /\ \A q \in Request : req'[q].pc \in {"new", "done"}
    BY <1>00, <1>9 DEF Restart, Calls
  <2>2. QED
    BY <2>1
<1>10. QED
  BY <1>2, <1>3, <1>4, <1>5, <1>6, <1>7, <1>8, <1>9 DEF Next

LEMMA FinishingNext == PublishIInv /\ [Next]_vars => Finishing'
<1> SUFFICES ASSUME PublishIInv, [Next]_vars PROVE Finishing'
  OBVIOUS
<1>0. Parts
  BY PublishedParts
<1> USE <1>0 DEF Parts
<1>1. FinishMoves /\ spoiled \subseteq spoiled'
  BY FinishMovesNext, SpoiledGrows
\* Who begins to finish s finds it, and nobody else has it.
<1>2. ASSUME NEW x \in Request, NEW s \in Session, BeginFinish(x, s), req'[x].pc \in InFinish
      PROVE  /\ req'[x].s = s /\ session[s] # None /\ temp'[s] = temp[s]
             /\ s \notin spoiled => temp[s] # None
             /\ \A q \in Request \ {x} : req'[q] = req[q]
  <2>1. Complete(s) /\ temp' = SweptTemp
    BY <1>2 DEF BeginFinish, InFinish, TypeOK
  <2>2. /\ ~Stale(s) /\ session[s] # None /\ session[s].received > 0
        /\ session[s].received \in Nat
    BY <2>1 DEF Complete, Swept, TypeOK
  <2>3. req'[x].s = s /\ \A q \in Request \ {x} : req'[q] = req[q]
    BY <1>2 DEF BeginFinish, TypeOK
  <2>4. temp'[s] = temp[s]
    BY <2>1, <2>2 DEF SweptTemp
  <2>5. ASSUME s \notin spoiled, temp[s] = None PROVE FALSE
    <3>1. Collected(s)
      BY <2>2, <2>5 DEF Gathered
    <3>2. Length(s) = 0 /\ Uncounted(s) \in Nat
      BY <2>5 DEF Length, Uncounted, TypeOK
    <3>3. QED
      BY <2>2, <3>1, <3>2 DEF Collected
  <2>6. QED
    BY <2>2, <2>3, <2>4, <2>5
<1>3. \A x \in Request : req[x].pc \in InFinish => req[x].s \in Session /\ session[req[x].s] = None
  BY DEF Begun, TakenOut, InFinish
<1>4. ASSUME NEW x \in Request, NEW q \in Request, req'[x].pc \in InFinish, req'[q].pc \in InFinish,
             req'[x].s = req'[q].s
      PROVE  x = q
  <2>1. CASE /\ req[x].pc \in InFinish /\ req'[x].s = req[x].s
             /\ req[q].pc \in InFinish /\ req'[q].s = req[q].s
    BY <1>4, <2>1 DEF Finishing
  <2>2. CASE \E s \in Session : BeginFinish(x, s)
    <3>1. SUFFICES ASSUME x # q PROVE FALSE
      OBVIOUS
    <3>2. session[req'[x].s] # None /\ req'[q] = req[q]
      BY <1>2, <1>4, <2>2, <3>1
    <3>3. QED
      BY <1>3, <1>4, <3>2
  <2>3. CASE \E s \in Session : BeginFinish(q, s)
    <3>1. SUFFICES ASSUME x # q PROVE FALSE
      OBVIOUS
    <3>2. session[req'[q].s] # None /\ req'[x] = req[x]
      BY <1>2, <1>4, <2>3, <3>1
    <3>3. QED
      BY <1>3, <1>4, <3>2
  <2>4. QED
    BY <1>1, <1>4, <2>1, <2>2, <2>3 DEF FinishMoves
<1>5. ASSUME NEW x \in Request, req'[x].pc = "move", req'[x].s \notin spoiled'
      PROVE  temp'[req'[x].s] # None
  <2>1. CASE req[x].pc = "move" /\ req'[x].s = req[x].s
    <3>1. temp[req[x].s] # None /\ req[x].s \in Session /\ session[req[x].s] = None
      BY <1>1, <1>3, <1>5, <2>1 DEF Finishing, InFinish
    <3>2. SUFFICES ASSUME temp'[req[x].s] = None PROVE FALSE
      BY <2>1
    <3>3. PICK y \in Request : req[y].pc \in InFinish /\ req[y].s = req[x].s /\ req'[y].pc # "move"
      BY <1>1, <3>1, <3>2 DEF FinishMoves
    <3>4. y = x
      BY <2>1, <3>3 DEF Finishing, InFinish
    <3>5. QED
      BY <1>5, <3>3, <3>4
  <2>2. CASE \E s \in Session : BeginFinish(x, s)
    BY <1>1, <1>2, <1>5, <2>2 DEF InFinish
  <2>3. QED
    BY <1>1, <1>5, <2>1, <2>2 DEF FinishMoves, InFinish
<1>6. QED
  BY <1>4, <1>5 DEF Finishing

LEMMA PublishedInit == Init => Published /\ Marked /\ Finishing
<1> SUFFICES ASSUME Init PROVE Published /\ Marked /\ Finishing
  OBVIOUS
<1>1. \A r \in Request : req[r] = Fresh
  BY DEF Init
<1>2. library = {} /\ \A s \in Session : session[s] = None /\ temp[s] = None /\ video[s] = None
  BY DEF Init
<1>3. (\A r \in Request : req[r].pc = "new" /\ req[r].fd = None) /\ overtaken = {}
  BY <1>1 DEF Fresh, Init
<1>4. Published
  BY <1>2, <1>3 DEF Published, Unused, Apart, Gathered, Sealed, Closing, At
<1>5. QED
  BY <1>3, <1>4 DEF Marked, Finishing, LateOnFile, InFinish

(***************************************************************************)
(* What the library lists after finish_session holds the chunks answered   *)
(* with success, whole, and nothing of those that failed, whatever fails,  *)
(* is cut back or comes at the same time.                                  *)
(***************************************************************************)
THEOREM PublishedSafe == Spec => []PublishedExact
<1>1. Init => PublishIInv
  BY UploadIInvInit, PublishedInit DEF PublishIInv
<1>2. PublishIInv /\ [Next]_vars => PublishIInv'
  BY UploadIInvNext, PublishedStep, MarkedNext, FinishingNext DEF PublishIInv
<1>3. PublishIInv => PublishedExact
  <2> SUFFICES ASSUME PublishIInv, NEW s \in library \ spoiled
               PROVE  /\ declared[s] \in {None, Len(content[video[s]])}
                      /\ \A r \in Request :
                           Units(r, video[s]) = IF r \in Acked(s) THEN req[r].written ELSE 0
    BY DEF PublishedExact
  <2>1. Exactly(s, video[s])
    BY PublishedParts DEF Parts, TypeOK, Sealed, Closing, Closed
  <2>2. QED
    BY <2>1 DEF Exactly
<1>4. QED
  BY <1>1, <1>2, <1>3, PTL DEF Spec
-----------------------------------------------------------------------------
(***************************************************************************)
(* GalleryInv, the gallery.  A save that has not entered its key yet finds *)
(* it free, if nobody got past the look at the same time; what a worker    *)
(* has written is where its step says, and what the shelf shows was made   *)
(* by a worker that is done with its video.                                *)
(***************************************************************************)
KeyFree ==
  \A s \in Save : WorkAt(s, "insert") /\ Job(s) \notin raced => Job(s) \notin galleryJobs
OneTask ==
  \A j \in {JobOf[i] : i \in Item} \ raced :
    /\ \A s, t \in Saving(j) : s = t
    /\ j \in galleryJobs <=> Saving(j) # {}
Stages ==
  \A w \in Worker :
    /\ work[w].pc # "rest" => work[w].item \in Item
    /\ work[w].pc \in {"rest", "insert", "get"} => part[w] = NoFile
    /\ work[w].pc \in {"rest", "insert", "get", "write", "rename"} => videos[w] = NoFile
    /\ WorkAt(w, "rename") => part[w] = "whole"
    /\ WorkAt(w, "enter") => part[w] = NoFile /\ videos[w] = "whole"
    /\ w \notin torn /\ work[w].pc \in {"unqueue", "over"} =>
         part[w] = NoFile /\ (videos[w] = NoFile \/ shelf[work[w].item] # NoItem)
Shelved ==
  \A i \in Item : shelf[i] # NoItem =>
    videos[shelf[i]] = "whole" /\ work[shelf[i]].pc \in {"unqueue", "over"}
GalleryIInv == GalleryTypeOK /\ OneTask /\ KeyFree /\ Stages /\ Shelved

Tasks == {"get", "write", "rename", "enter", "unqueue"}

LEMMA GalleryIInvInit == GalleryInit => GalleryIInv
<1> SUFFICES ASSUME GalleryInit PROVE GalleryIInv
  OBVIOUS
<1>1. \A w \in Worker : work[w].pc = "rest"
  BY DEF GalleryInit, AtRest
<1>2. GalleryTypeOK
  BY DEF GalleryInit, GalleryTypeOK, Works, AtRest, NoFile
<1>3. \A j : Saving(j) = {}
  BY <1>1 DEF Saving, Worker
<1>4. OneTask /\ KeyFree /\ Stages /\ Shelved
  BY <1>1, <1>3 DEF GalleryInit, OneTask, KeyFree, Stages, Shelved, WorkAt, Worker, NoFile
<1>5. QED
  BY <1>2, <1>4 DEF GalleryIInv

\* Steps that neither enter nor remove a key, begin or end a task.
LEMMA TasksKept ==
  ASSUME GalleryIInv, UNCHANGED <<galleryJobs, raced>>,
         \A s \in Save :
           /\ work'[s].pc \in Tasks <=> work[s].pc \in Tasks
           /\ work[s].pc \in Tasks => work'[s].item = work[s].item
           /\ work'[s].pc = "insert" =>
                work'[s] = work[s] \/ JobOf[work'[s].item] \notin galleryJobs
  PROVE  OneTask' /\ KeyFree'
<1>1. \A j : Saving(j)' = Saving(j)
  BY DEF Saving, Job, Tasks
<1>2. OneTask'
  BY <1>1 DEF GalleryIInv, OneTask
<1>3. KeyFree'
  BY DEF GalleryIInv, KeyFree, WorkAt, Job
<1>4. QED
  BY <1>2, <1>3

\* The step of one worker leaves the others' files and stages alone.
LEMMA StagesOf ==
  ASSUME GalleryIInv, NEW w \in Worker,
         \A v \in Worker \ {w} : /\ work'[v] = work[v] /\ part'[v] = part[v]
                                 /\ videos'[v] = videos[v] /\ (v \notin torn' => v \notin torn),
         \A i \in Item : shelf[i] # NoItem => shelf'[i] # NoItem
  PROVE  \A v \in Worker \ {w} :
           /\ work'[v].pc # "rest" => work'[v].item \in Item
           /\ work'[v].pc \in {"rest", "insert", "get"} => part'[v] = NoFile
           /\ work'[v].pc \in {"rest", "insert", "get", "write", "rename"} =>
                videos'[v] = NoFile
           /\ WorkAt(v, "rename")' => part'[v] = "whole"
           /\ WorkAt(v, "enter")' => part'[v] = NoFile /\ videos'[v] = "whole"
           /\ v \notin torn' /\ work'[v].pc \in {"unqueue", "over"} =>
                part'[v] = NoFile /\ (videos'[v] = NoFile \/ shelf'[work'[v].item] # NoItem)
BY DEF GalleryIInv, Stages, WorkAt

LEMMA GalleryIInvNext == GalleryIInv /\ [GalleryNext]_galleryVars => GalleryIInv'
<1> SUFFICES ASSUME GalleryIInv, [GalleryNext]_galleryVars PROVE GalleryIInv'
  OBVIOUS
<1>0. /\ GalleryTypeOK /\ OneTask /\ KeyFree /\ Stages /\ Shelved
      /\ work \in Works /\ Save \subseteq Worker /\ Form \subseteq Worker
      /\ \A u \in Form : u \notin Save
      /\ \A w \in Worker : w # NoItem
  BY GalleryAssumption DEF GalleryIInv, GalleryTypeOK, Worker
<1> USE <1>0
<1>1. ASSUME NEW s \in Save, NEW i \in Item, AlreadyQueued(s, i) PROVE GalleryIInv'
  <2>1. /\ work' = [work EXCEPT ![s] = [pc |-> "over", item |-> i]] /\ work[s].pc = "rest"
        /\ UNCHANGED <<galleryJobs, part, videos, shelf, raced, torn>>
    BY <1>1 DEF AlreadyQueued, WorkAt
  <2>2. /\ work' \in Works /\ work'[s] = [pc |-> "over", item |-> i]
        /\ \A v \in Worker \ {s} : work'[v] = work[v]
    BY <2>1 DEF Works
  <2>3. OneTask' /\ KeyFree'
    BY <2>1, <2>2, TasksKept DEF Tasks
  <2>4. Stages' /\ Shelved'
    BY <2>1, <2>2, StagesOf DEF Stages, Shelved, WorkAt, GalleryTypeOK
  <2>5. QED
    BY <2>1, <2>2, <2>3, <2>4 DEF GalleryIInv, GalleryTypeOK
<1>2. ASSUME NEW s \in Save, NEW i \in Item, QueueSave(s, i) PROVE GalleryIInv'
  <2>1. /\ work' = [work EXCEPT ![s] = [pc |-> "insert", item |-> i]]
        /\ work[s].pc = "rest" /\ JobOf[i] \notin galleryJobs
        /\ UNCHANGED <<galleryJobs, part, videos, shelf, raced, torn>>
    BY <1>2 DEF QueueSave, WorkAt
  <2>2. /\ work' \in Works /\ work'[s] = [pc |-> "insert", item |-> i]
        /\ \A v \in Worker \ {s} : work'[v] = work[v]
    BY <2>1 DEF Works
  <2>3. OneTask' /\ KeyFree'
    BY <2>1, <2>2, TasksKept DEF Tasks
  <2>4. Stages' /\ Shelved'
    BY <2>1, <2>2, StagesOf DEF Stages, Shelved, WorkAt, GalleryTypeOK
  <2>5. QED
    BY <2>1, <2>2, <2>3, <2>4 DEF GalleryIInv, GalleryTypeOK
<1>3. ASSUME NEW u \in Form, NEW i \in Item, ReceiveFile(u, i) PROVE GalleryIInv'
  <2>1. /\ work' = [work EXCEPT ![u] = [pc |-> "write", item |-> i]] /\ work[u].pc = "rest"
        /\ part' = [part EXCEPT ![u] = "piece"]
        /\ UNCHANGED <<galleryJobs, videos, shelf, raced, torn>>
    BY <1>3 DEF ReceiveFile, WorkAt
  <2>2. /\ work' \in Works /\ work'[u] = [pc |-> "write", item |-> i]
        /\ part' \in [Worker -> {NoFile, "piece", "whole"}]
        /\ \A v \in Worker \ {u} : work'[v] = work[v] /\ part'[v] = part[v]
    BY <2>1 DEF Works, GalleryTypeOK
  <2>3. OneTask' /\ KeyFree'
    BY <2>1, <2>2, TasksKept DEF Tasks
  <2>4. Stages' /\ Shelved'
    BY <2>1, <2>2, StagesOf DEF Stages, Shelved, WorkAt, GalleryTypeOK
  <2>5. QED
    BY <2>1, <2>2, <2>3, <2>4 DEF GalleryIInv, GalleryTypeOK
<1>4. ASSUME NEW s \in Save, InsertJob(s) PROVE GalleryIInv'
  <2>1. /\ work' = [work EXCEPT ![s].pc = "get"] /\ work[s].pc = "insert"
        /\ galleryJobs' = galleryJobs \cup {Job(s)}
        /\ raced' = raced \cup {j \in {Job(s)} :
             \E t \in Save \ {s} : WorkAt(t, "insert") /\ Job(t) = j}
        /\ UNCHANGED <<part, videos, shelf, torn>>
    BY <1>4 DEF InsertJob, Proceed, WorkAt
  <2>2. /\ work' \in Works /\ work'[s].pc = "get" /\ work'[s].item = work[s].item
        /\ \A v \in Worker \ {s} : work'[v] = work[v]
    BY <2>1 DEF Works
  <2>3. work[s].item \in Item /\ Job(s) = JobOf[work[s].item] /\ Job(s)' = Job(s)
    BY <2>1, <2>2 DEF Stages, Job
  <2>4. /\ Saving(Job(s))' = Saving(Job(s)) \cup {s}
        /\ \A j : j # Job(s) => Saving(j)' = Saving(j)
    BY <2>1, <2>2, <2>3 DEF Saving, Job
  <2>5. OneTask'
    <3> SUFFICES ASSUME NEW j \in {JobOf[i] : i \in Item}, j \notin raced'
                 PROVE  /\ \A a, b \in Saving(j)' : a = b
                        /\ j \in galleryJobs' <=> Saving(j)' # {}
      BY DEF OneTask
    <3>1. j \notin raced
      BY <2>1
    <3>2. CASE j = Job(s)
      <4>1. Saving(j) = {}
        BY <2>1, <3>1, <3>2 DEF KeyFree, WorkAt, OneTask
      <4>2. Saving(j)' = {s}
        BY <2>1, <2>2, <2>3, <3>2, <4>1 DEF Saving, Job
      <4>3. QED
        BY <2>1, <3>2, <4>2
    <3>3. CASE j # Job(s)
      BY <2>1, <2>4, <3>1, <3>3 DEF OneTask
    <3>4. QED
      BY <3>2, <3>3
  <2>6. KeyFree'
    BY <2>1, <2>2 DEF KeyFree, WorkAt, Job
  <2>7. Stages' /\ Shelved'
    BY <2>1, <2>2, StagesOf DEF Stages, Shelved, WorkAt, GalleryTypeOK
  <2>8. GalleryTypeOK'
    BY <2>1, <2>2, <2>3 DEF GalleryTypeOK
  <2>9. QED
    BY <2>5, <2>6, <2>7, <2>8 DEF GalleryIInv
<1>5. ASSUME NEW s \in Save, GetStream(s) PROVE GalleryIInv'
  <2>1. PICK p \in {"write", "unqueue"} :
          /\ work' = [work EXCEPT ![s].pc = p]
          /\ part' = IF p = "write" THEN [part EXCEPT ![s] = "piece"] ELSE part
    BY <1>5 DEF GetStream, Proceed
  <2>2. work[s].pc = "get" /\ UNCHANGED <<galleryJobs, videos, shelf, raced, torn>>
    BY <1>5 DEF GetStream, WorkAt
  <2>3. /\ work' \in Works /\ work'[s].pc = p /\ work'[s].item = work[s].item
        /\ part' \in [Worker -> {NoFile, "piece", "whole"}]
        /\ p = "unqueue" => part'[s] = part[s]
        /\ \A v \in Worker \ {s} : work'[v] = work[v] /\ part'[v] = part[v]
    BY <2>1 DEF Works, GalleryTypeOK
  <2>4. OneTask' /\ KeyFree'
    BY <2>2, <2>3, TasksKept DEF Tasks
  <2>5. Stages' /\ Shelved'
    BY <2>2, <2>3, StagesOf DEF Stages, Shelved, WorkAt, GalleryTypeOK
  <2>6. QED
    BY <2>2, <2>3, <2>4, <2>5 DEF GalleryIInv, GalleryTypeOK
<1>6. ASSUME NEW s \in Save, Unqueue(s) PROVE GalleryIInv'
  <2>1. /\ work' = [work EXCEPT ![s].pc = "over"] /\ work[s].pc = "unqueue"
        /\ galleryJobs' = galleryJobs \ {Job(s)}
        /\ UNCHANGED <<part, videos, shelf, raced, torn>>
    BY <1>6 DEF Unqueue, Proceed, WorkAt
  <2>2. /\ work' \in Works /\ work'[s].pc = "over" /\ work'[s].item = work[s].item
        /\ \A v \in Worker \ {s} : work'[v] = work[v]
    BY <2>1 DEF Works
  <2>3. \A j : Saving(j)' = Saving(j) \ {s}
    BY <2>1, <2>2 DEF Saving, Job
  <2>4. \A j : j # Job(s) => s \notin Saving(j)
    BY DEF Saving
  <2>5. s \in Saving(Job(s))
    BY <2>1 DEF Saving
  <2>6. OneTask'
    BY <2>1, <2>3, <2>4, <2>5 DEF OneTask
  <2>7. KeyFree'
    BY <2>1, <2>2 DEF KeyFree, WorkAt, Job
  <2>8. Stages' /\ Shelved'
    BY <2>1, <2>2, StagesOf DEF Stages, Shelved, WorkAt, GalleryTypeOK
  <2>9. QED
    BY <2>1, <2>2, <2>6, <2>7, <2>8 DEF GalleryIInv, GalleryTypeOK
<1>7. ASSUME NEW w \in Worker,
             \/ WriteAll(w) \/ TooLarge(w) \/ Tear(w) \/ ToVideos(w) \/ EnterShelf(w)
             \/ Reject(w) \/ DropUpload(w)
      PROVE  GalleryIInv'
  <2>1. PICK p \in {"rename", "enter", "unqueue", "over"} :
          /\ work' = [work EXCEPT ![w].pc = p]
          /\ \/ WriteAll(w) /\ p = "rename"
             \/ ToVideos(w) /\ p = "enter"
             \/ (TooLarge(w) \/ Tear(w) \/ EnterShelf(w)) /\ p = After(w)
             \/ (Reject(w) \/ DropUpload(w)) /\ p = "over" /\ w \notin Save
    BY <1>7 DEF WriteAll, TooLarge, Tear, ToVideos, EnterShelf, Reject, DropUpload,
                Proceed, After
  <2>2. /\ work' \in Works /\ work'[w].pc = p /\ work'[w].item = work[w].item
        /\ \A v \in Worker \ {w} : work'[v] = work[v]
    BY <2>1 DEF Works
  <2>3. /\ work[w].pc \in {"write", "rename", "enter"} /\ UNCHANGED <<galleryJobs, raced>>
        /\ w \in Save => p \in Tasks
    BY <2>1 DEF WriteAll, TooLarge, Tear, ToVideos, EnterShelf, Reject, DropUpload,
                After, WorkAt, Tasks
  <2>4. OneTask' /\ KeyFree'
    BY <2>2, <2>3, TasksKept DEF Tasks
  <2>5. /\ part' \in [Worker -> {NoFile, "piece", "whole"}]
        /\ videos' \in [Worker -> {NoFile, "piece", "whole"}] /\ torn' \subseteq Worker
        /\ shelf' \in [Item -> Worker \cup {NoItem}]
        /\ \A v \in Worker \ {w} : /\ part'[v] = part[v] /\ videos'[v] = videos[v]
                                   /\ (v \notin torn' => v \notin torn)
        /\ \A i \in Item : shelf[i] # NoItem => shelf'[i] # NoItem
    BY <1>7, <2>3 DEF WriteAll, TooLarge, Tear, ToVideos, EnterShelf, Reject, DropUpload,
                GalleryTypeOK, Stages, NoFile
  <2>6. /\ work[w].item \in Item
        /\ p = "rename" => part'[w] = "whole" /\ videos'[w] = NoFile
        /\ p = "enter" => part'[w] = NoFile /\ videos'[w] = "whole"
        /\ w \notin torn' /\ p \in {"unqueue", "over"} =>
             part'[w] = NoFile /\ (videos'[w] = NoFile \/ shelf'[work[w].item] # NoItem)
    <3>1. CASE WriteAll(w) /\ p = "rename"
      BY <3>1 DEF WriteAll, GalleryTypeOK, Stages, WorkAt
    <3>2. CASE ToVideos(w) /\ p = "enter"
      BY <3>2 DEF ToVideos, GalleryTypeOK, Stages, WorkAt
    <3>3. CASE TooLarge(w) /\ p = After(w)
      BY <3>3 DEF TooLarge, GalleryTypeOK, Stages, WorkAt, After
    <3>4. CASE Tear(w) /\ p = After(w)
      BY <2>3, <3>4 DEF Tear, Stages, After
    <3>5. CASE EnterShelf(w) /\ p = After(w)
      BY <2>3, <3>5 DEF EnterShelf, GalleryTypeOK, Stages, WorkAt, After
    <3>6. CASE Reject(w) /\ p = "over"
      BY <3>6 DEF Reject, GalleryTypeOK, Stages, WorkAt
    <3>7. CASE DropUpload(w) /\ p = "over"
      BY <2>3, <3>7 DEF DropUpload, Stages
    <3>8. QED
      BY <2>1, <3>1, <3>2, <3>3, <3>4, <3>5, <3>6, <3>7
  <2>7. Stages'
    BY <2>2, <2>5, <2>6, StagesOf DEF Stages, WorkAt
  <2>8. Shelved'
    <3>1. \A i \in Item : \/ shelf'[i] = shelf[i]
                          \/ /\ shelf'[i] = w /\ work[w].pc = "enter"
                             /\ p \in {"unqueue", "over"} /\ UNCHANGED videos
      BY <2>1 DEF WriteAll, TooLarge, Tear, ToVideos, EnterShelf, Reject, DropUpload,
                  GalleryTypeOK, WorkAt, After
    <3>2. \A i \in Item : shelf[i] # w
      BY <2>3 DEF Shelved
    <3>3. QED
      BY <2>2, <2>5, <3>1, <3>2 DEF Shelved, Stages, WorkAt, GalleryTypeOK
  <2>9. QED
    BY <2>2, <2>3, <2>4, <2>5, <2>7, <2>8 DEF GalleryIInv, GalleryTypeOK
<1>8. CASE RestartUploads
  <2>1. /\ galleryJobs' = {} /\ raced' = {} /\ UNCHANGED <<part, videos, shelf>>
        /\ torn' = torn \cup {w \in Worker : work[w].pc \notin {"rest", "over"}}
    BY <1>8 DEF RestartUploads
  <2>2. /\ work' \in Works
        /\ \A w \in Worker : /\ work'[w].item = work[w].item
                             /\ work'[w].pc = IF work[w].pc = "rest" THEN "rest" ELSE "over"
    BY <1>8 DEF RestartUploads, Works, WorkAt
  <2>3. \A j : Saving(j)' = {}
    BY <2>2 DEF Saving
  <2>4. OneTask' /\ KeyFree'
    BY <2>1, <2>2, <2>3 DEF OneTask, KeyFree, WorkAt
  <2>5. Stages' /\ Shelved'
    BY <2>1, <2>2 DEF Stages, Shelved, WorkAt, GalleryTypeOK
  <2>6. QED
    BY <2>1, <2>2, <2>4, <2>5 DEF GalleryIInv, GalleryTypeOK
<1>9. CASE UNCHANGED galleryVars
  <2>1. \A s \in Save : work'[s] = work[s]
    BY <1>9 DEF galleryVars
  <2>2. OneTask' /\ KeyFree'
    BY <1>9, <2>1, TasksKept DEF galleryVars
  <2>3. QED
    BY <1>9, <2>2 DEF galleryVars, GalleryIInv, GalleryTypeOK, Stages, Shelved, WorkAt
<1>10. QED
  BY <1>1, <1>2, <1>3, <1>4, <1>5, <1>6, <1>7, <1>8, <1>9 DEF GalleryNext

(***************************************************************************)
(* GallerySafe: the shelf shows whole files only, a stream is saved by one *)
(* task at a time under a key that is free again after it, and no file is  *)
(* left behind unexplained, whatever fails or is cut off.                  *)
(***************************************************************************)
THEOREM GallerySafe == GallerySpec => []GalleryInv
<1>1. GalleryIInv => GalleryInv
  <2> SUFFICES ASSUME GalleryIInv PROVE GalleryInv
    OBVIOUS
  <2>1. ASSUME NEW j \in {JobOf[i] : i \in Item} \ raced PROVE Cardinality(Saving(j)) <= 1
    <3>1. CASE Saving(j) = {}
      BY <3>1, FS_EmptySet
    <3>2. CASE Saving(j) # {}
      <4>1. PICK s : s \in Saving(j)
        BY <3>2
      <4>2. Saving(j) = {s}
        BY <4>1 DEF GalleryIInv, OneTask
      <4>3. QED
        BY <4>2, FS_Singleton
    <3>3. QED
      BY <3>1, <3>2
  <2>2. OneSave
    BY <2>1 DEF GalleryIInv, OneTask, OneSave
  <2>3. Explained
    BY DEF GalleryIInv, Stages, Explained
  <2>4. QED
    BY <2>2, <2>3 DEF GalleryInv, GalleryIInv, Shelved
<1>2. QED
  BY <1>1, GalleryIInvInit, GalleryIInvNext, PTL DEF GallerySpec
=============================================================================
