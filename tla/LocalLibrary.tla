---------------------------- MODULE LocalLibrary ----------------------------
(***************************************************************************)
(* library.rs: assets/library.json, read and replaced as a whole, under    *)
(* LOCAL_LIBRARY_LOCK.  An upload or a gallery save adds its entry to what *)
(* it reads (mutate_local_library); an edit dialog loads the library,      *)
(* perhaps minutes earlier, and puts back all of it.  Entries are named by *)
(* the call that adds them.                                                *)
(*                                                                         *)
(* The new text is written beside the file and renamed over it.  A client  *)
(* that goes away drops the handler, and the lock's guard with it, but not *)
(* a rename that already is with the blocking pool: it is done later.      *)
(***************************************************************************)
EXTENDS FiniteSets

CONSTANTS Upload, Editor, None

ASSUME LibraryAssumption ==
  Upload \cap Editor = {} /\ None \notin Upload \cup Editor

VARIABLES
  file,  \* the entries in library.json
  lock,  \* LOCAL_LIBRARY_LOCK: the call inside it, or None
  call,  \* the calls: where they are, and the library they hold
  late,  \* libraries whose rename was left behind by a dropped handler
  left   \* history: a rename has been left behind

vars == <<file, lock, call, late, left>>
Call == Upload \cup Editor
Library == SUBSET Upload

TypeOK ==
  /\ file \in Library /\ lock \in Call \cup {None}
  /\ call \in [Call -> [pc : {"idle", "edit", "lock", "read", "rename",
                              "done"},
                        library : Library]]
  /\ late \subseteq Library /\ left \in BOOLEAN

Init ==
  /\ file = {} /\ lock = None /\ late = {} /\ left = FALSE
  /\ call = [c \in Call |-> [pc |-> "idle", library |-> {}]]

Goto(c, p, entries) ==
  call' = [call EXCEPT ![c] = [pc |-> p, library |-> entries]]
-----------------------------------------------------------------------------
\* GET /api/library; a rename is atomic, so a reader sees all of a library.
Load(e) ==
  /\ call[e].pc \in {"idle", "done"} /\ lock = None
  /\ Goto(e, "edit", file)
  /\ UNCHANGED <<file, lock, late, left>>

\* PUT: entries are edited in place, or deleted.
Put(e) ==
  /\ call[e].pc = "edit"
  /\ \E kept \in SUBSET call[e].library : Goto(e, "lock", kept)
  /\ UNCHANGED <<file, lock, late, left>>

AddMovie(u) ==
  /\ call[u].pc = "idle"
  /\ Goto(u, "lock", {})
  /\ UNCHANGED <<file, lock, late, left>>

\* Mutant: nobody is kept out.
LockLibraryUnlocked(c) ==
  /\ call[c].pc = "lock"
  /\ lock' = c
  /\ Goto(c, IF c \in Upload THEN "read" ELSE "rename", call[c].library)
  /\ UNCHANGED <<file, late, left>>

LockLibrary(c) ==
  /\ call[c].pc = "lock" /\ lock = None
  /\ lock' = c
  /\ Goto(c, IF c \in Upload THEN "read" ELSE "rename", call[c].library)
  /\ UNCHANGED <<file, late, left>>

\* The library is read and the entry put into it, in place of its like.
ReadLibrary(u) ==
  /\ call[u].pc = "read"
  /\ Goto(u, "rename", file \cup {u})
  /\ UNCHANGED <<file, lock, late, left>>

Return(c, p) ==
  /\ lock' = IF lock = c THEN None ELSE lock
  /\ Goto(c, p, {})

RenameLibrary(c) ==
  /\ call[c].pc = "rename"
  /\ file' = call[c].library
  /\ Return(c, "done")
  /\ UNCHANGED <<late, left>>

\* The text cannot be read, parsed or written, or the client goes away.
GiveUp(c) ==
  /\ call[c].pc \in {"lock", "read", "rename"}
  /\ Return(c, "idle")
  /\ UNCHANGED <<file, late, left>>

\* The client goes away while the rename is on its way.
LeaveRename(c) ==
  /\ call[c].pc = "rename"
  /\ late' = late \cup {call[c].library} /\ left' = TRUE
  /\ Return(c, "idle")
  /\ UNCHANGED file

LateRename(entries) ==
  /\ entries \in late
  /\ file' = entries
  /\ late' = late \ {entries}
  /\ UNCHANGED <<lock, call, left>>

\* The file is all that is kept.
Restart ==
  /\ lock' = None /\ late' = {}
  /\ call' = [c \in Call |-> IF call[c].pc \in {"edit", "done"} THEN call[c]
                             ELSE [pc |-> "idle", library |-> {}]]
  /\ UNCHANGED <<file, left>>

Next ==
  \/ \E e \in Editor : Load(e) \/ Put(e)
  \/ \E u \in Upload : AddMovie(u) \/ ReadLibrary(u)
  \/ \E c \in Call : \/ LockLibrary(c) \/ RenameLibrary(c)
                     \/ GiveUp(c) \/ LeaveRename(c)
  \/ \E entries \in late : LateRename(entries)
  \/ Restart

Spec == Init /\ [][Next]_vars
-----------------------------------------------------------------------------
LockHeld == \A c \in Call : call[c].pc \in {"read", "rename"} <=> lock = c

\* ReadCurrent: what an upload read under the lock still is the file.
ReadCurrent ==
  \A u \in Upload :
    call[u].pc = "rename" /\ ~left => call[u].library = file \cup {u}

LateLeft == late # {} => left

LibraryInv == TypeOK /\ LockHeld /\ ReadCurrent /\ LateLeft

Saves(e) == call[e].pc = "rename" /\ call'[e].pc = "done"

(***************************************************************************)
(* UploadsAdd: the file changes by an entry being added to what is there,  *)
(* whatever runs beside it; unless an edit dialog saves, or a dropped      *)
(* handler has left a rename behind, which goes on without the lock.       *)
(***************************************************************************)
UploadsAdd ==
  [][\/ file' = file \/ left
     \/ \E e \in Editor : Saves(e)
     \/ \E u \in Upload : file' = file \cup {u}]_vars
=============================================================================
