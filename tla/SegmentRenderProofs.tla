------------------------- MODULE SegmentRenderProofs -------------------------
(***************************************************************************)
(* Proofs about SegmentRender, for any number of paths, calls and permits. *)
(* SegmentInv is inductive: the segment lock leaves one call inside a      *)
(* path; that call found no segment there and alone makes, completes and   *)
(* renames the partial file, unless the path is disturbed from outside.    *)
(***************************************************************************)
EXTENDS SegmentRender, TLAPS

(***************************************************************************)
(* What the actions make of the calls and the files, as far as types go.   *)
(***************************************************************************)
LEMMA IdleType == Idle \in CallRecord
  BY DEF Idle, CallRecord, Phase

LEMMA GotoType ==
  ASSUME call \in [Call -> CallRecord], NEW c \in Call, NEW p \in Phase
  PROVE  [call EXCEPT ![c].pc = p] \in [Call -> CallRecord]
  BY DEF CallRecord

LEMMA BeginType ==
  ASSUME call \in [Call -> CallRecord], NEW c \in Call, NEW p \in Path
  PROVE  [call EXCEPT ![c].pc = "lock", ![c].path = p]
           \in [Call -> CallRecord]
<1>1. [call[c] EXCEPT !.pc = "lock", !.path = p] \in CallRecord
  BY DEF CallRecord, Phase
<1> QED
  BY <1>1

LEMMA RunType ==
  ASSUME call \in [Call -> CallRecord], NEW c \in Call,
         NEW m \in {"hw", "none"}
  PROVE  [call EXCEPT ![c].pc = "ffmpeg", ![c].mode = m, ![c].at = "part"]
           \in [Call -> CallRecord]
<1>1. [call[c] EXCEPT !.pc = "ffmpeg", !.mode = m, !.at = "part"]
        \in CallRecord
  BY DEF CallRecord, Phase
<1> QED
  BY <1>1

LEMMA StopType ==
  ASSUME call \in [Call -> CallRecord], NEW c \in Call, NEW p \in Phase
  PROVE  [call EXCEPT ![c].pc = p, ![c].at = None] \in [Call -> CallRecord]
  BY DEF CallRecord

LEMMA AtType ==
  ASSUME NEW x \in CallRecord, NEW n \in {"seg", "part", None}
  PROVE  [x EXCEPT !.at = n] \in CallRecord
  BY DEF CallRecord

LEMMA FileType ==
  ASSUME file \in [Name -> Content], NEW n \in Name, NEW x \in Content
  PROVE  [file EXCEPT ![n] = x] \in [Name -> Content]
  OBVIOUS

LEMMA NameType ==
  ASSUME NEW p \in Path
  PROVE  Seg(p) \in Name /\ Part(p) \in Name
  BY DEF Seg, Part, Name

LEMMA RenamedType ==
  ASSUME file \in [Name -> Content], NEW p \in Path
  PROVE  Renamed(p) \in [Name -> Content]
  BY NameType DEF Renamed, Content

LEMMA SegmentInvInit == Init => SegmentInv
<1> SUFFICES ASSUME Init PROVE SegmentInv
  OBVIOUS
<1> USE SegmentAssumption DEF Init
<1>1. TypeOK
  BY IdleType DEF TypeOK, Content
<1>2. LockHeld
  BY DEF LockHeld, Idle, Inside
<1>3. CallOK
  BY DEF CallOK, Idle, Running
<1>4. HolderAlone
  BY DEF HolderAlone, Idle, Inside
<1>5. LateLeft /\ SegmentWhole
  BY DEF LateLeft, SegmentWhole, Seg, Name
<1> QED
  BY <1>1, <1>2, <1>3, <1>4, <1>5 DEF SegmentInv

\* A step keeps the types.
LEMMA SegmentTypeNext ==
  ASSUME TypeOK, CallOK, [Next]_vars
  PROVE  TypeOK'
<1>0. /\ call \in [Call -> CallRecord] /\ file \in [Name -> Content]
      /\ lock \in [Path -> Call \cup {None}]
      /\ late \subseteq Path /\ doomed \subseteq Name /\ left \subseteq Path
      /\ {"none", "short", "whole"} \subseteq Content
      /\ {"lock", "queue", "check", "rename", "remove"} \subseteq Phase
      /\ JobPath \subseteq Path
  BY SegmentAssumption DEF TypeOK, Content, Phase
<1>1. SUFFICES /\ call' \in [Call -> CallRecord] /\ file' \in [Name -> Content]
               /\ lock' \in [Path -> Call \cup {None}]
               /\ late' \subseteq Path /\ doomed' \subseteq Name
               /\ left' \subseteq Path
  BY DEF TypeOK
<1>2. ASSUME NEW c \in Call, call[c].pc # "idle"
      PROVE  call[c].path \in Path
  BY <1>0, <1>2 DEF CallOK, CallRecord
<1>3. ASSUME NEW c \in Call, Ends(c)
      PROVE  /\ call' \in [Call -> CallRecord]
             /\ lock' \in [Path -> Call \cup {None}]
  BY <1>0, <1>3, IdleType DEF Ends
<1>4. ASSUME NEW c \in Call, NEW p \in Path, BeginRender(c, p)
      PROVE  <1>1!1
  BY <1>0, <1>4, BeginType DEF BeginRender
<1>5. ASSUME NEW c \in Call, Enter(c) PROVE <1>1!1
  BY <1>0, <1>2, <1>3, <1>5, GotoType DEF Enter, LockSegment, FindSegment, Goto
<1>6. ASSUME NEW c \in Call, NEW m \in {"hw", "none"}, CreatePartial(c, m),
             call[c].pc # "idle"
      PROVE  call' \in [Call -> CallRecord] /\ file' \in [Name -> Content]
  BY <1>0, <1>2, <1>6, RunType, FileType, NameType DEF CreatePartial
<1>7. ASSUME NEW c \in Call, Queue(c) PROVE <1>1!1
  BY <1>0, <1>3, <1>6, <1>7 DEF Queue, QueueTimeout, StartRender
<1>8. ASSUME NEW c \in Call, FfmpegEnds(c) PROVE <1>1!1
  <2>1. CASE RenderDone(c)
    <3>1. call[c].at # None => <<call[c].path, call[c].at>> \in Name
      BY <1>0, <1>2, <2>1 DEF RenderDone, Running, Name, CallRecord
    <3> QED
      BY <1>0, <2>1, <3>1, StopType, FileType DEF RenderDone
  <2>2. CASE RenderFails(c)
    BY <1>0, <2>2, StopType DEF RenderFails
  <2>3. CASE RetrySoftware(c)
    BY <1>0, <1>6, <2>3 DEF RetrySoftware, Running
  <2> QED
    BY <1>8, <2>1, <2>2, <2>3 DEF FfmpegEnds
<1>9. ASSUME NEW c \in Call, Publish(c) PROVE <1>1!1
  <2>1. CASE CheckPartial(c)
    BY <1>0, <2>1, GotoType DEF CheckPartial, Goto
  <2>2. CASE RemovePartial(c)
    BY <1>0, <1>2, <1>3, <2>2, NameType, FileType DEF RemovePartial
  <2>3. CASE RenameSegment(c)
    BY <1>0, <1>2, <1>3, <2>3, RenamedType DEF RenameSegment
  <2> QED
    BY <1>9, <2>1, <2>2, <2>3 DEF Publish
<1>10. ASSUME NEW c \in Call, Disconnect(c) PROVE <1>1!1
  BY <1>0, <1>2, <1>3, <1>10, NameType DEF Disconnect
<1>11. ASSUME NEW p \in late, LateRename(p) PROVE <1>1!1
  BY <1>0, <1>11, RenamedType, AtType DEF LateRename
<1>12. ASSUME NEW n \in Name, Remove(n)
       PROVE  call' \in [Call -> CallRecord] /\ file' \in [Name -> Content]
  BY <1>0, <1>12, FileType, AtType DEF Remove, Unlinked
<1>13. ASSUME NEW n \in Name,
              ListStale(n) \/ RemoveListed(n) \/ RemoveIncomplete(n)
       PROVE  <1>1!1
  BY <1>0, <1>12, <1>13 DEF ListStale, RemoveListed, RemoveIncomplete
<1>14. ASSUME NEW p \in JobPath, TranscodeWrites(p) PROVE <1>1!1
  BY <1>0, <1>14, NameType, FileType DEF TranscodeWrites
<1>15. CASE Restart
  BY <1>0, <1>15, IdleType DEF Restart
<1>16. CASE UNCHANGED vars
  BY <1>0, <1>16 DEF vars
<1> QED
  BY <1>4, <1>5, <1>7, <1>8, <1>9, <1>10, <1>11, <1>13, <1>14, <1>15, <1>16
     DEF Next, CallStep

(***************************************************************************)
(* A step keeps LockHeld, CallOK and what follows from them.               *)
(***************************************************************************)
LEMMA SegmentLockNext ==
  ASSUME TypeOK, CallOK, LockHeld, [Next]_vars
  PROVE  LockHeld' /\ CallOK'
<1> USE SegmentAssumption DEF TypeOK, LockHeld, CallOK, Running, Inside
<1>1. ASSUME NEW c \in Call, Ends(c) PROVE LockHeld' /\ CallOK'
  BY <1>1 DEF Ends, Idle
<1>2. ASSUME NEW c \in Call, NEW p \in Path, BeginRender(c, p)
      PROVE  LockHeld' /\ CallOK'
  BY <1>2 DEF BeginRender
<1>3. ASSUME NEW c \in Call, Enter(c) PROVE LockHeld' /\ CallOK'
  BY <1>1, <1>3 DEF Enter, LockSegment, FindSegment, Goto, CallRecord
<1>4. ASSUME NEW c \in Call, Queue(c) PROVE LockHeld' /\ CallOK'
  BY <1>1, <1>4 DEF Queue, QueueTimeout, StartRender, CreatePartial, CallRecord
<1>5. ASSUME NEW c \in Call, FfmpegEnds(c) PROVE LockHeld' /\ CallOK'
  BY <1>5 DEF FfmpegEnds, RenderDone, RenderFails, RetrySoftware,
              CreatePartial, CallRecord
<1>6. ASSUME NEW c \in Call, Publish(c) PROVE LockHeld' /\ CallOK'
  BY <1>1, <1>6 DEF Publish, CheckPartial, RemovePartial, RenameSegment, Goto,
                    CallRecord
<1>7. ASSUME NEW c \in Call, Disconnect(c) PROVE LockHeld' /\ CallOK'
  BY <1>1, <1>7 DEF Disconnect
<1>8. ASSUME UNCHANGED lock,
             \A c \in Call : /\ call'[c].pc = call[c].pc
                             /\ call'[c].path = call[c].path
                             /\ call'[c].at # None => call[c].at # None
      PROVE  LockHeld' /\ CallOK'
  BY <1>8
<1>9. ASSUME NEW p \in late, LateRename(p) PROVE LockHeld' /\ CallOK'
  BY <1>8, <1>9 DEF LateRename, CallRecord
<1>10. ASSUME NEW n \in Name,
              ListStale(n) \/ RemoveListed(n) \/ RemoveIncomplete(n)
       PROVE  LockHeld' /\ CallOK'
  BY <1>8, <1>10 DEF ListStale, RemoveListed, RemoveIncomplete, Remove,
                     Unlinked, CallRecord
<1>11. ASSUME NEW p \in JobPath, TranscodeWrites(p)
       PROVE  LockHeld' /\ CallOK'
  BY <1>11 DEF TranscodeWrites
<1>12. CASE Restart
  BY <1>12 DEF Restart, Idle
<1>13. CASE UNCHANGED vars
  BY <1>13 DEF vars
<1> QED
  BY <1>2, <1>3, <1>4, <1>5, <1>6, <1>7, <1>9, <1>10, <1>11, <1>12, <1>13
     DEF Next, CallStep

\* Two calls inside the lock of a path are one.
LEMMA InsideAlone ==
  ASSUME LockHeld, NEW c \in Call, NEW d \in Call,
         call[c].pc \in Inside, call[d].pc \in Inside,
         call[c].path \in Path, call[d].path = call[c].path
  PROVE  c = d
<1>1. lock[call[c].path] = c
  BY DEF LockHeld
<1>2. lock[call[d].path] = d
  BY DEF LockHeld
<1> QED
  BY <1>1, <1>2

(***************************************************************************)
(* A step keeps what a call inside the lock relies on.  A step of a call   *)
(* changes the names of its own path only, where no other call is inside;  *)
(* what changes names without the lock does so at a disturbed path, or     *)
(* takes a name away.                                                      *)
(***************************************************************************)
LEMMA SegmentFilesNext ==
  ASSUME SegmentInv, [Next]_vars
  PROVE  HolderAlone' /\ SegmentWhole'
<1> USE SegmentAssumption DEF SegmentInv
<1>1. ASSUME NEW c \in Call, call[c].pc # "idle"
      PROVE  call[c].path \in Path
  BY <1>1 DEF CallOK, TypeOK, CallRecord
<1>2. ASSUME NEW c \in Call, NEW d \in Call, c # d,
             call[c].pc \in Inside, call[d].pc \in Inside
      PROVE  call[c].path # call[d].path
  BY <1>1, <1>2, InsideAlone DEF Inside
<1>3. ASSUME NEW c \in Call, Ends(c), UNCHANGED file, left \subseteq left'
      PROVE  HolderAlone' /\ SegmentWhole'
  BY <1>3 DEF Ends, Idle, HolderAlone, SegmentWhole, Disturbed, Inside, TypeOK
<1>4. ASSUME NEW c \in Call, NEW p \in Path, BeginRender(c, p)
      PROVE  HolderAlone' /\ SegmentWhole'
  BY <1>4 DEF BeginRender, HolderAlone, SegmentWhole, Disturbed, Inside, TypeOK
<1>5. ASSUME NEW c \in Call, Enter(c) PROVE HolderAlone' /\ SegmentWhole'
  <2>1. CASE LockSegment(c)
    <3>1. /\ \A d \in Call : d # c => call'[d] = call[d]
          /\ call'[c].path = call[c].path /\ call'[c].pc = "queue"
          /\ call'[c].at = call[c].at /\ call[c].at = None
      BY <2>1 DEF LockSegment, Goto, CallOK, Running, TypeOK, CallRecord
    <3>2. file' = file /\ left' = left /\ file[Seg(call[c].path)] = "none"
      BY <2>1 DEF LockSegment
    <3>3. HolderAlone'
      BY <3>1, <3>2, SegmentAssumption DEF HolderAlone, Disturbed
    <3> QED
      BY <3>2, <3>3 DEF SegmentWhole, Disturbed
  <2>2. CASE FindSegment(c)
    BY <2>2, <1>3 DEF FindSegment
  <2> QED
    BY <1>5, <2>1, <2>2 DEF Enter
<1>6. ASSUME NEW c \in Call, NEW m \in {"hw", "none"}, CreatePartial(c, m),
             call[c].pc \in Inside, UNCHANGED left
      PROVE  HolderAlone' /\ SegmentWhole'
  <2>1. \A n \in Name : n # Part(call[c].path) => file'[n] = file[n]
    BY <1>6 DEF CreatePartial, TypeOK
  <2>2. \A p \in Path : file'[Seg(p)] = file[Seg(p)]
    BY <2>1, NameType DEF Seg, Part
  <2>3. \A d \in Call : d # c /\ call[d].pc \in Inside =>
                          file'[Part(call[d].path)] = file[Part(call[d].path)]
    BY <1>1, <1>2, <1>6, <2>1, NameType DEF Part, Inside
  <2>4. \A d \in Call : d # c => call'[d] = call[d]
    BY <1>6 DEF CreatePartial, TypeOK
  <2>5. /\ call'[c].path = call[c].path /\ call'[c].pc = "ffmpeg"
        /\ call'[c].at = "part"
    BY <1>6 DEF CreatePartial, TypeOK, CallRecord
  <2>6. HolderAlone'
    BY <1>1, <1>6, <2>2, <2>3, <2>4, <2>5 DEF HolderAlone, Disturbed, Inside
  <2> QED
    BY <1>6, <2>2, <2>6 DEF SegmentWhole, Disturbed
<1>7. ASSUME NEW c \in Call, Queue(c) PROVE HolderAlone' /\ SegmentWhole'
  BY <1>3, <1>6, <1>7 DEF Queue, QueueTimeout, StartRender, Inside
<1>8. ASSUME NEW c \in Call, RenderDone(c) PROVE HolderAlone' /\ SegmentWhole'
  <2> DEFINE q == call[c].path
  <2>1. q \in Path /\ call[c].pc \in Inside
    BY <1>1, <1>8 DEF RenderDone, Running, Inside
  <2>2. call[c].at \in {"seg", "part", None}
    BY DEF TypeOK, CallRecord
  <2>3. \A n \in Name : file'[n] # file[n] => n[1] = q /\ file'[n] = "whole"
    BY <1>8, <2>1, <2>2 DEF RenderDone, TypeOK, Name
  <2>4. ~Disturbed(q) => file'[Seg(q)] = file[Seg(q)]
    BY <1>8, <2>1, <2>2, NameType
       DEF RenderDone, HolderAlone, TypeOK, Seg, Part
  <2>5. \A p \in Path : p # q => /\ file'[Seg(p)] = file[Seg(p)]
                                 /\ file'[Part(p)] = file[Part(p)]
    BY <2>3, NameType DEF Seg, Part
  <2>6. ~Disturbed(q) => file'[Part(q)] # "short"
    <3>1. call[c].pc = "ffmpeg" /\ Part(q) \in Name
      BY <1>8, <2>1, NameType DEF RenderDone, Running
    <3>2. CASE call[c].at = "part"
      BY <1>8, <2>1, <3>1, <3>2 DEF RenderDone, TypeOK, Part
    <3>3. CASE call[c].at = None
      BY <1>8, <2>1, <3>1, <3>3 DEF RenderDone, HolderAlone
    <3>4. ~Disturbed(q) => call[c].at # "seg"
      BY <2>1 DEF HolderAlone
    <3> QED
      BY <2>2, <3>2, <3>3, <3>4
  <2>7. /\ \A d \in Call : d # c => call'[d] = call[d]
        /\ call'[c].path = q /\ call'[c].pc = "check" /\ call'[c].at = None
        /\ left' = left
    BY <1>8 DEF RenderDone, TypeOK, CallRecord
  <2>8. SegmentWhole'
    BY <2>4, <2>5, <2>7 DEF SegmentWhole, Disturbed
  <2>9. HolderAlone'
    BY <1>1, <1>2, <2>1, <2>4, <2>5, <2>6, <2>7
       DEF HolderAlone, Disturbed, Inside
  <2> QED
    BY <2>8, <2>9
<1>9. ASSUME NEW c \in Call, FfmpegEnds(c) PROVE HolderAlone' /\ SegmentWhole'
  <2>1. CASE RenderFails(c)
    BY <2>1 DEF RenderFails, Running, HolderAlone, SegmentWhole, Disturbed,
                Inside, TypeOK, CallRecord
  <2>2. CASE RetrySoftware(c)
    BY <2>2, <1>6 DEF RetrySoftware, Running, Inside
  <2> QED
    BY <1>8, <1>9, <2>1, <2>2 DEF FfmpegEnds
<1>10. ASSUME NEW c \in Call, NEW q \in Path, q = call[c].path,
              call[c].pc \in Inside, Ends(c), UNCHANGED left,
              file' \in [Name -> Content],
              \A n \in Name : n[1] # q => file'[n] = file[n],
              ~Disturbed(q) => file'[Seg(q)] # "short"
       PROVE  HolderAlone' /\ SegmentWhole'
  <2>1. \A p \in Path : p # q => /\ file'[Seg(p)] = file[Seg(p)]
                                 /\ file'[Part(p)] = file[Part(p)]
    BY <1>10, NameType DEF Seg, Part
  <2>2. /\ \A d \in Call : d # c => call'[d] = call[d]
        /\ call'[c].pc = "idle"
    BY <1>10 DEF Ends, Idle, TypeOK
  <2>3. HolderAlone'
    BY <1>1, <1>2, <1>10, <2>1, <2>2 DEF HolderAlone, Disturbed, Inside
  <2> QED
    BY <1>10, <2>1, <2>3 DEF SegmentWhole, Disturbed
<1>11. ASSUME NEW c \in Call, Publish(c) PROVE HolderAlone' /\ SegmentWhole'
  <2>0. call[c].path \in Path /\ call[c].pc \in Inside
    BY <1>1, <1>11 DEF Publish, CheckPartial, RemovePartial, RenameSegment,
                       Inside
  <2>1. CASE CheckPartial(c)
    BY <2>1 DEF CheckPartial, Goto, HolderAlone, SegmentWhole, Disturbed,
                Inside, TypeOK, CallRecord
  <2>2. CASE RemovePartial(c)
    <3>1. \A n \in Name : n # Part(call[c].path) => file'[n] = file[n]
      BY <2>2 DEF RemovePartial, TypeOK
    <3>2. file' \in [Name -> Content]
      BY <2>2, <2>0, NameType, FileType DEF RemovePartial, TypeOK, Content
    <3>3. file'[Seg(call[c].path)] = file[Seg(call[c].path)]
      BY <2>0, <3>1, NameType DEF Seg, Part
    <3>4. \A n \in Name : n[1] # call[c].path => file'[n] = file[n]
      BY <3>1 DEF Part
    <3> QED
      BY <1>10, <2>0, <2>2, <3>2, <3>3, <3>4 DEF RemovePartial, SegmentWhole
  <2>3. CASE RenameSegment(c)
    <3>1. file' = Renamed(call[c].path)
      BY <2>3 DEF RenameSegment
    <3>2. file' \in [Name -> Content]
      BY <2>0, <3>1, RenamedType DEF TypeOK
    <3>3. \A n \in Name : n[1] # call[c].path => file'[n] = file[n]
      BY <3>1 DEF Renamed, Seg, Part, TypeOK
    <3>4. ~Disturbed(call[c].path) => file'[Seg(call[c].path)] # "short"
      <4>1. call[c].pc = "rename" /\ call[c].at = None
        BY <2>3 DEF RenameSegment, CallOK, Running
      <4>2. ~Disturbed(call[c].path) =>
              /\ file[Part(call[c].path)] # "short"
              /\ file[Seg(call[c].path)] = "none"
        BY <2>0, <4>1 DEF HolderAlone
      <4>3. Seg(call[c].path) # Part(call[c].path)
        BY DEF Seg, Part
      <4> QED
        BY <2>0, <3>1, <4>2, <4>3, NameType DEF Renamed, TypeOK
    <3> QED
      BY <1>10, <2>0, <2>3, <3>2, <3>3, <3>4 DEF RenameSegment
  <2> QED
    BY <1>11, <2>1, <2>2, <2>3 DEF Publish
<1>12. ASSUME NEW c \in Call, Disconnect(c) PROVE HolderAlone' /\ SegmentWhole'
  BY <1>3, <1>12 DEF Disconnect
<1>13. ASSUME NEW q \in Path, Disturbed(q), UNCHANGED left,
              \A n \in Name : n[1] # q => file'[n] = file[n],
              \A c \in Call : /\ call'[c].pc = call[c].pc
                              /\ call'[c].path = call[c].path
                              /\ call[c].path # q => call'[c] = call[c]
       PROVE  HolderAlone' /\ SegmentWhole'
  <2>1. \A p \in Path : p # q => /\ file'[Seg(p)] = file[Seg(p)]
                                 /\ file'[Part(p)] = file[Part(p)]
    BY <1>13, NameType DEF Seg, Part
  <2>2. HolderAlone'
    BY <1>1, <1>13, <2>1 DEF HolderAlone, Disturbed, Inside
  <2> QED
    BY <1>13, <2>1, <2>2 DEF SegmentWhole, Disturbed
<1>14. ASSUME NEW p \in late, LateRename(p) PROVE HolderAlone' /\ SegmentWhole'
  <2>1. p \in Path /\ Disturbed(p)
    BY DEF LateLeft, TypeOK
  <2>2. \A n \in Name : n[1] # p => file'[n] = file[n]
    BY <1>14 DEF LateRename, Renamed, Seg, Part, TypeOK
  <2>3. \A c \in Call : /\ call'[c].pc = call[c].pc
                        /\ call'[c].path = call[c].path
                        /\ call[c].path # p => call'[c] = call[c]
    BY <1>14 DEF LateRename, TypeOK, CallRecord
  <2> QED
    BY <1>13, <1>14, <2>1, <2>2, <2>3 DEF LateRename
<1>15. ASSUME NEW n \in Name, Remove(n), UNCHANGED left
       PROVE  HolderAlone' /\ SegmentWhole'
  <2>1. \A m \in Name : file'[m] = file[m] \/ file'[m] = "none"
    BY <1>15 DEF Remove, TypeOK
  <2>2. \A c \in Call : /\ call'[c].pc = call[c].pc
                        /\ call'[c].path = call[c].path
                        /\ call'[c].at = call[c].at \/ call'[c].at = None
    BY <1>15 DEF Remove, Unlinked, TypeOK, CallRecord
  <2>3. HolderAlone'
    <3>1. ASSUME NEW c \in Call, call[c].pc \in Inside,
                 ~Disturbed(call[c].path)
          PROVE  /\ file'[Seg(call[c].path)] = "none"
                 /\ call'[c].at # "seg"
                 /\ /\ call[c].pc \in {"ffmpeg", "check", "rename"}
                    /\ call'[c].at = None
                    => file'[Part(call[c].path)] # "short"
      <4>1. Seg(call[c].path) \in Name /\ Part(call[c].path) \in Name
        BY <1>1, <3>1, NameType DEF Inside
      <4>2. file'[Seg(call[c].path)] = "none" /\ call[c].at # "seg"
        BY <2>1, <3>1, <4>1 DEF HolderAlone
      <4>3. CASE call'[c].at = call[c].at
        BY <2>1, <2>2, <3>1, <4>1, <4>2, <4>3 DEF HolderAlone
      <4>4. CASE call'[c].at # call[c].at
        <5>1. call[c].path = n[1] /\ call[c].at = n[2] /\ call'[c].at = None
          BY <1>15, <4>4 DEF Remove, Unlinked, TypeOK, CallRecord
        <5>2. call[c].at = "part"
          BY <4>2, <5>1 DEF Name
        <5>3. n = Part(call[c].path)
          <6>1. PICK p \in Path, w \in {"seg", "part"} : n = <<p, w>>
            BY DEF Name
          <6> QED
            BY <5>1, <5>2, <6>1 DEF Part
        <5>4. file'[Part(call[c].path)] = "none"
          BY <1>15, <5>3 DEF Remove, TypeOK
        <5> QED
          BY <4>2, <5>1, <5>4
      <4> QED
        BY <4>3, <4>4
    <3>2. \A p : Disturbed(p)' <=> Disturbed(p)
      BY <1>15 DEF Disturbed
    <3> QED
      BY <2>2, <3>1, <3>2 DEF HolderAlone, Disturbed, Seg, Part
  <2>4. SegmentWhole'
    BY <1>15, <2>1, NameType DEF SegmentWhole, Disturbed
  <2> QED
    BY <2>3, <2>4
<1>16. ASSUME NEW n \in Name, ListStale(n) PROVE HolderAlone' /\ SegmentWhole'
  BY <1>16 DEF ListStale, HolderAlone, SegmentWhole, Disturbed
<1>17. ASSUME NEW n \in Name, RemoveListed(n) \/ RemoveIncomplete(n)
       PROVE  HolderAlone' /\ SegmentWhole'
  BY <1>15, <1>17 DEF RemoveListed, RemoveIncomplete
<1>18. ASSUME NEW p \in JobPath, TranscodeWrites(p)
       PROVE  HolderAlone' /\ SegmentWhole'
  <2>1. p \in Path /\ Disturbed(p)
    BY DEF Disturbed
  <2>2. \A n \in Name : n[1] # p => file'[n] = file[n]
    BY <1>18 DEF TranscodeWrites, Seg, TypeOK
  <2> QED
    BY <1>13, <1>18, <2>1, <2>2 DEF TranscodeWrites
<1>19. CASE Restart
  BY <1>19 DEF Restart, Idle, HolderAlone, SegmentWhole, Disturbed, Inside
<1>20. CASE UNCHANGED vars
  BY <1>20 DEF vars, HolderAlone, SegmentWhole, Disturbed
<1> QED
  BY <1>4, <1>5, <1>7, <1>9, <1>11, <1>12, <1>14, <1>16, <1>17, <1>18, <1>19,
     <1>20 DEF Next, CallStep

LEMMA SegmentLateNext ==
  ASSUME TypeOK, LateLeft, [Next]_vars
  PROVE  LateLeft'
<1>1. \/ late' \subseteq late /\ left' = left
      \/ \E c \in Call : Disconnect(c)
  BY DEF Next, vars, CallStep, Enter, Queue, FfmpegEnds, Publish, BeginRender,
         LockSegment, FindSegment, StartRender, QueueTimeout, RenderDone,
         RenderFails, RetrySoftware, CheckPartial, RemovePartial,
         RenameSegment, LateRename, ListStale, RemoveListed, RemoveIncomplete,
         TranscodeWrites, Restart
<1>2. CASE late' \subseteq late /\ left' = left
  BY <1>2 DEF LateLeft, Disturbed
<1>3. ASSUME NEW c \in Call, Disconnect(c) PROVE LateLeft'
  BY <1>3 DEF Disconnect, LateLeft, Disturbed
<1> QED
  BY <1>1, <1>2, <1>3

LEMMA SegmentInvNext == SegmentInv /\ [Next]_vars => SegmentInv'
  BY SegmentTypeNext, SegmentLockNext, SegmentFilesNext, SegmentLateNext
     DEF SegmentInv

(***************************************************************************)
(* SegmentInv always holds; with it SegmentWhole, one of its conjuncts:    *)
(* what lies at an undisturbed on-demand path is a complete segment.       *)
(***************************************************************************)
THEOREM SegmentInvariant == Spec => []SegmentInv
  BY SegmentInvInit, SegmentInvNext, PTL DEF Spec

(***************************************************************************)
(* Two ffmpegs never render into the same partial file, whatever the       *)
(* number of permits: the segment lock alone keeps them apart.             *)
(***************************************************************************)
THEOREM OneRender == Spec => []OneRenderPerPath
<1>1. SegmentInv => OneRenderPerPath
  <2> SUFFICES ASSUME SegmentInv, NEW c \in Call, NEW d \in Call,
                      Running(c), Running(d), call[c].path = call[d].path
               PROVE  c = d
    BY DEF OneRenderPerPath
  <2>1. call[c].path \in Path
    BY DEF SegmentInv, CallOK, Running, TypeOK, CallRecord
  <2> QED
    BY <2>1, InsideAlone DEF SegmentInv, Running, Inside
<1> QED
  BY <1>1, SegmentInvariant, PTL

(***************************************************************************)
(* No ffmpeg is ever started for a segment that is there already.          *)
(***************************************************************************)
THEOREM NoWaste == Spec => NoWastedRender
<1>1. ASSUME SegmentInv, [Next]_vars, NEW c \in Call,
             Running(c)', ~Running(c), ~Disturbed(call[c].path)
      PROVE  file[Seg(call[c].path)] = "none"
  <2> USE DEF Running, SegmentInv, TypeOK, CallRecord
  <2>1. ASSUME NEW d \in Call, CallStep(d) PROVE call[c].pc = "queue"
    BY <1>1, <2>1
       DEF CallStep, Enter, Queue, FfmpegEnds, Publish, LockSegment,
           FindSegment, StartRender, QueueTimeout, RenderDone, RenderFails,
           RetrySoftware, CheckPartial, RemovePartial, RenameSegment, Ends,
           Goto, CreatePartial, Idle
  <2>2. ASSUME NEW d \in Call, Disconnect(d) PROVE FALSE
    BY <1>1, <2>2 DEF Disconnect, Ends, Idle
  <2>3. ASSUME NEW d \in Call, NEW p \in Path, BeginRender(d, p) PROVE FALSE
    BY <1>1, <2>3 DEF BeginRender
  <2>4. ASSUME NEW p \in late, LateRename(p) PROVE FALSE
    BY <1>1, <2>4 DEF LateRename
  <2>5. ASSUME NEW n \in Name,
               ListStale(n) \/ RemoveListed(n) \/ RemoveIncomplete(n)
        PROVE  FALSE
    BY <1>1, <2>5
       DEF ListStale, RemoveListed, RemoveIncomplete, Remove, Unlinked
  <2>6. ASSUME NEW p \in JobPath, TranscodeWrites(p) PROVE FALSE
    BY <1>1, <2>6 DEF TranscodeWrites
  <2>7. ~Restart /\ ~UNCHANGED vars
    BY <1>1 DEF Restart, Idle, vars
  <2>8. call[c].pc = "queue"
    BY <1>1, <2>1, <2>2, <2>3, <2>4, <2>5, <2>6, <2>7 DEF Next
  <2> QED
    BY <1>1, <2>8 DEF HolderAlone, Inside
<1>2. SegmentInv /\ [Next]_vars =>
        [\A c \in Call :
           Running(c)' /\ ~Running(c) /\ ~Disturbed(call[c].path) =>
             file[Seg(call[c].path)] = "none"]_vars
  BY <1>1
<1> QED
  BY <1>2, SegmentInvariant, PTL DEF Spec, NoWastedRender
=============================================================================
