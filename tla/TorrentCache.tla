---------------------------- MODULE TorrentCache ----------------------------
(***************************************************************************)
(* local_torrent.rs: LocalTorrentService.  A torrent is downloaded into a  *)
(* directory named by its hash while it is streamed.  The table handles    *)
(* says which torrents are in use; before a new one is added, directories  *)
(* out of use are pruned, oldest first, to keep the cache within           *)
(* LOCAL_TORRENT_MAX_BYTES.  Rows of the database lead a later request, of *)
(* a later process too, back to the torrent.                               *)
(*                                                                         *)
(* A call holds the lock of its hash from beginning to end (KeyLockTable); *)
(* nothing orders calls for different hashes.  The pruning runs on the     *)
(* blocking pool: a call whose client goes away leaves it behind, running. *)
(*                                                                         *)
(* External: the torrent engine (librqbit).  session.add_torrent enters a  *)
(* torrent with the one file chosen, and lays the file out at its full     *)
(* length while it initializes, also when the call no longer waits for it. *)
(***************************************************************************)
EXTENDS Integers, FiniteSetsExt, SequencesExt

CONSTANTS
  Viewer,     \* calls of resolve and of create_stream_response
  Hash,       \* torrents
  TorrentFile,\* their video files
  Offers,     \* which <<torrent, file>> are asked for: one of these sets
  Length,     \* the files' lengths
  MaxBytes,   \* LOCAL_TORRENT_MAX_BYTES
  MaxPrunes,  \* bound: so many prunings at a time
  Nothing

ASSUME TorrentAssumption ==
  /\ Offers \subseteq SUBSET (Hash \X TorrentFile)
  /\ Length \in [TorrentFile -> Nat] /\ MaxBytes \in Nat \ {0}
  /\ Nothing \notin TorrentFile \cup Hash \cup Viewer
  /\ IsFiniteSet(Hash) /\ IsFiniteSet(TorrentFile)

VARIABLES
  offer,    \* what is asked for in this behaviour
  viewer,   \* the calls: what they do, for which file of which torrent
  handles,  \* LocalTorrentService.handles: the file streamed, and whether
            \* the engine still has that torrent
  engine,   \* the engine's torrents: the file, and whether it is laid out
  disk,     \* the files in each torrent's directory
  dirs,     \* the directories, the one longest untouched first
  rows,     \* rows local-torrent:<hash>:<file>
  prunes,   \* blocking tasks inside prune_cache
  pruned,   \* history: torrents pruned although the engine had them
  unseen    \* history: bytes came that the room check does not count

torrents == <<handles, engine>>
files == <<disk, dirs>>
history == <<pruned, unseen>>
torrentVars ==
  <<offer, viewer, handles, engine, disk, dirs, rows, prunes, pruned, unseen>>

Kind == {"torrent", "copy"}
NoHandle == [file |-> Nothing, live |-> FALSE]
Unmanaged == [file |-> Nothing, laid |-> FALSE]
Free == [pc |-> "idle", op |-> "none", hash |-> Nothing, file |-> Nothing]
Steps == {"room", "pruning", "handle", "delete", "add", "init", "answer"}

TorrentTypeOK ==
  /\ viewer \in [Viewer -> {Free} \cup
       [pc : Steps, op : {"resolve", "stream"}, hash : Hash, file : TorrentFile]]
  /\ handles \in [Hash -> [file : TorrentFile \cup {Nothing},
                           live : BOOLEAN]]
  /\ engine \in [Hash -> [file : TorrentFile \cup {Nothing},
                          laid : BOOLEAN]]
  /\ disk \in [Hash -> SUBSET (Kind \X TorrentFile)]
  /\ ToSet(dirs) \subseteq Hash /\ IsInjective(dirs)
  /\ rows \subseteq Hash \X TorrentFile /\ offer \in Offers

\* dir_size
FileSize == [f \in Kind \X TorrentFile |-> Length[f[2]]]
BytesOf(h) == SumFunctionOnSet(FileSize, disk[h])
BytesIn(hashes) == SumFunctionOnSet([h \in hashes |-> BytesOf(h)], hashes)
BytesUsed == BytesIn(Hash)

\* Whole files copied into the cache (and their rows local-file:...) are left
\* from earlier versions: nothing calls cache_direct_file any more.
TorrentInit ==
  /\ offer \in Offers
  /\ \E copies \in SUBSET offer :
       disk = [h \in Hash |-> {<<"copy", e[2]>> : e \in {c \in copies : c[1] = h}}]
  /\ BytesUsed <= MaxBytes
  /\ dirs \in SetToSeqs({h \in Hash : disk[h] # {}})
  /\ viewer = [v \in Viewer |-> Free]
  /\ handles = [h \in Hash |-> NoHandle] /\ engine = [h \in Hash |-> Unmanaged]
  /\ rows = {} /\ prunes = {}
  /\ pruned = {} /\ unseen = FALSE

At(v, p) == viewer[v].pc = p
MoveTo(v, p) == viewer' = [viewer EXCEPT ![v].pc = p]
Leave(v) == viewer' = [viewer EXCEPT ![v] = Free]

\* The directory is made, or written to: it is the latest.
Touch(h) == dirs' = Append(RemoveFirst(dirs, h), h)
-----------------------------------------------------------------------------
LockFree(h) == \A w \in Viewer : viewer[w].hash # h

Enter(v, p, o, h, f) ==
  viewer' = [viewer EXCEPT ![v] = [pc |-> p, op |-> o, hash |-> h, file |-> f]]

\* resolve: the lock, the directory, then the engine's list of the files.
Resolve(v, h, f) ==
  /\ At(v, "idle") /\ LockFree(h)
  /\ Enter(v, "room", "resolve", h, f)
  /\ IF h \in ToSet(dirs) THEN UNCHANGED dirs ELSE Touch(h)
  /\ UNCHANGED <<offer, torrents, disk, rows, prunes, history>>

\* create_stream_response: without a row there is nothing to stream.
Stream(v, h, f) ==
  /\ At(v, "idle") /\ LockFree(h) /\ <<h, f>> \in rows
  /\ Enter(v, "handle", "stream", h, f)
  /\ UNCHANGED <<offer, torrents, files, rows, prunes, history>>

\* Mutant: nothing is in use.
InUseNone == {}

\* The torrents in use are not pruned.
InUse == {h \in Hash : handles[h] # NoHandle}

\* By when they were touched.
Older(d, e) == \E i, j \in DOMAIN dirs : i < j /\ dirs[i] = d /\ dirs[j] = e

(***************************************************************************)
(* The directories that will be deleted for the call v: the stale ones     *)
(* (untouched for 30 days: any number of the oldest), and those that do    *)
(* not fit when all older ones are gone; without those that are in use,    *)
(* and those where remove_dir_all fails (stuck).                           *)
(***************************************************************************)
Doomed(v, stale, stuck) ==
  LET h == viewer[v].hash
      wanted == Length[viewer[v].file]
      target == MaxBytes - (IF wanted > BytesOf(h) THEN wanted - BytesOf(h)
                                                   ELSE 0)
      idle == ToSet(dirs) \ (InUse \cup {h} \cup stuck)
      Left(d) == BytesUsed - BytesIn({e \in idle : Older(e, d)})
  IN {d \in idle : d \in stale \/ Left(d) > target}

Plans(doomed) ==
  {plan \in SetToSeqs(doomed) :
     \A i, j \in DOMAIN plan : i < j => Older(plan[i], plan[j])}

\* ensure_cache_has_room
StartPrune(v) ==
  /\ At(v, "room") /\ Length[viewer[v].file] <= MaxBytes
  /\ Cardinality(prunes) < MaxPrunes
  /\ \E n \in 0..Len(dirs), stuck \in SUBSET ToSet(dirs) :
     \E plan \in Plans(Doomed(v, ToSet(SubSeq(dirs, 1, n)), stuck)) :
       prunes' = prunes \cup {[of |-> v, plan |-> plan]}
  /\ MoveTo(v, "pruning")
  /\ UNCHANGED <<offer, torrents, files, rows, history>>

PruneDir(p) ==
  LET h == Head(p.plan) IN
  /\ p.plan # << >>
  /\ prunes' = (prunes \ {p}) \cup {[p EXCEPT !.plan = Tail(@)]}
  /\ disk' = [disk EXCEPT ![h] = {}]
  /\ dirs' = RemoveFirst(dirs, h)
  /\ pruned' = IF engine[h] # Unmanaged /\ handles[h] = NoHandle
               THEN pruned \cup {h} ELSE pruned
  /\ UNCHANGED <<offer, viewer, torrents, rows, unseen>>

\* Mutant: only what is there already is compared.
HasRoomNow(v) == BytesUsed - BytesOf(viewer[v].hash) <= MaxBytes

\* What will be used when the new file has been laid out.
HasRoom(v) ==
  BytesUsed - BytesOf(viewer[v].hash) + Length[viewer[v].file] <= MaxBytes

Unwritten(h) == engine[h] # Unmanaged /\ ~engine[h].laid

\* A file that is on its way but not laid out yet, so that it is not counted.
Coming(h) ==
  \/ Unwritten(h)
  \/ \E v \in Viewer : /\ viewer[v].hash = h
                      /\ viewer[v].pc \in {"handle", "delete", "add"}

\* The pruning is done, and the call that waits for it is let in or refused.
EndPrune(p) ==
  /\ p.plan = << >>
  /\ prunes' = prunes \ {p}
  /\ \/ p.of = Nothing /\ UNCHANGED viewer
     \/ p.of # Nothing /\ HasRoom(p.of) /\ MoveTo(p.of, "handle")
     \/ p.of # Nothing /\ ~HasRoom(p.of) /\ Leave(p.of)
  /\ unseen' = (unseen \/ \E h \in Hash : /\ Coming(h) /\ p.of # Nothing
                                          /\ h # viewer[p.of].hash)
  /\ UNCHANGED <<offer, torrents, files, rows, pruned>>
-----------------------------------------------------------------------------
\* ensure_handle: the torrent in use, if it is about this file ...
HandleReady(v) ==
  /\ At(v, "handle") /\ handles[viewer[v].hash].file = viewer[v].file
  /\ MoveTo(v, "answer")
  /\ UNCHANGED <<offer, torrents, files, rows, prunes, history>>

\* ... or about another file: then it is deleted, files aside ...
HandleOther(v) ==
  /\ At(v, "handle")
  /\ handles[viewer[v].hash].file \notin {viewer[v].file, Nothing}
  /\ MoveTo(v, "delete")
  /\ UNCHANGED <<offer, torrents, files, rows, prunes, history>>

EngineDeletes(h) ==
  /\ engine' = [engine EXCEPT ![h] = Unmanaged]
  /\ handles' = [handles EXCEPT ![h].live = FALSE]

\* ... (an error of session.delete is ignored) and taken out of handles.
DeleteOld(v) ==
  LET h == viewer[v].hash IN
  /\ At(v, "delete")
  /\ handles' = [handles EXCEPT ![h] = NoHandle]
  /\ \/ engine' = [engine EXCEPT ![h] = Unmanaged]
     \/ UNCHANGED engine
  /\ MoveTo(v, "add")
  /\ UNCHANGED <<offer, files, rows, prunes, history>>

(***************************************************************************)
(* What the room check misses, besides a file on its way: another file     *)
(* left in the directory, which the check takes to be replaced; a stream   *)
(* of a row whose file is downloaded again without any check.              *)
(***************************************************************************)
Unchecked(v) ==
  LET file == <<"torrent", viewer[v].file>>
      there == disk[viewer[v].hash] IN
  there \ {file} # {} \/ (viewer[v].op = "stream" /\ file \notin there)

\* Added, AlreadyManaged with this file, or deleted and added once more.
AddTorrent(v) ==
  LET h == viewer[v].hash
      f == viewer[v].file IN
  /\ At(v, "add") \/ (At(v, "handle") /\ handles[h] = NoHandle)
  /\ engine' = IF engine[h].file = f THEN engine
               ELSE [engine EXCEPT ![h] = [file |-> f, laid |-> FALSE]]
  /\ IF h \in ToSet(dirs) THEN UNCHANGED dirs ELSE Touch(h)
  /\ unseen' = (unseen \/ Unchecked(v))
  /\ MoveTo(v, "init")
  /\ UNCHANGED <<offer, handles, disk, rows, prunes, pruned>>

\* The engine, whoever waits.
LayOut(h) ==
  /\ Unwritten(h)
  /\ engine' = [engine EXCEPT ![h].laid = TRUE]
  /\ disk' = [disk EXCEPT ![h] = @ \cup {<<"torrent", engine[h].file>>}]
  /\ Touch(h)
  /\ UNCHANGED <<offer, viewer, handles, rows, prunes, history>>

Initialized(v) ==
  LET h == viewer[v].hash IN
  /\ At(v, "init") /\ engine[h].laid
  /\ handles' = [handles EXCEPT ![h] = [file |-> viewer[v].file, live |-> TRUE]]
  /\ pruned' = IF \E p \in prunes : h \in ToSet(p.plan)
               THEN pruned \cup {h} ELSE pruned
  /\ MoveTo(v, "answer")
  /\ UNCHANGED <<offer, engine, files, rows, prunes, unseen>>

\* wait_for_first_byte (a torrent that the engine has given up sends none),
\* then refresh_entry_access: the row, and the marker in the directory.
Answer(v) ==
  /\ At(v, "answer")
  /\ viewer[v].op = "resolve" => handles[viewer[v].hash].live
  /\ rows' = rows \cup {<<viewer[v].hash, viewer[v].file>>}
  /\ Touch(viewer[v].hash)
  /\ Leave(v)
  /\ UNCHANGED <<offer, torrents, disk, prunes, history>>

\* create_direct_file_stream_response and try_direct_file_resolved_source
StreamCopy(h, f) ==
  /\ <<"copy", f>> \in disk[h]
  /\ Touch(h)
  /\ UNCHANGED <<offer, viewer, torrents, disk, rows, prunes, history>>
-----------------------------------------------------------------------------
Orphaned(v) ==
  {IF p.of = v THEN [p EXCEPT !.of = Nothing] ELSE p : p \in prunes}

(***************************************************************************)
(* An error, a timeout, or the client goes away.  What the engine was told *)
(* stays; a session.delete under way may have been done, and handles then  *)
(* keeps a torrent that is gone.                                           *)
(***************************************************************************)
Abandon(v) ==
  /\ viewer[v] # Free
  /\ Leave(v)
  /\ prunes' = Orphaned(v)
  /\ \/ UNCHANGED torrents
     \/ At(v, "delete") /\ EngineDeletes(viewer[v].hash)
  /\ UNCHANGED <<offer, files, rows, history>>

\* A row is good for 30 days.
Expire(e) ==
  /\ e \in rows
  /\ rows' = rows \ {e}
  /\ UNCHANGED <<offer, viewer, torrents, files, prunes, history>>

RestartTorrents ==
  /\ viewer' = [v \in Viewer |-> Free]
  /\ handles' = [h \in Hash |-> NoHandle] /\ engine' = [h \in Hash |-> Unmanaged]
  /\ prunes' = {}
  /\ UNCHANGED <<offer, files, rows, history>>

TorrentNext ==
  \/ \E v \in Viewer, e \in offer :
       Resolve(v, e[1], e[2]) \/ Stream(v, e[1], e[2])
  \/ \E v \in Viewer :
       \/ StartPrune(v) \/ HandleReady(v) \/ HandleOther(v) \/ DeleteOld(v)
       \/ AddTorrent(v) \/ Initialized(v) \/ Answer(v) \/ Abandon(v)
  \/ \E p \in prunes : PruneDir(p) \/ EndPrune(p)
  \/ \E h \in Hash : LayOut(h)
  \/ \E e \in offer : StreamCopy(e[1], e[2]) \/ Expire(e)
  \/ RestartTorrents

TorrentSpec == TorrentInit /\ [][TorrentNext]_torrentVars
-----------------------------------------------------------------------------
\* OneCall: nobody else is at work on a torrent.
OneCall ==
  \A v, w \in Viewer :
    v # w /\ viewer[v] # Free => viewer[v].hash # viewer[w].hash

\* HandleLive: a torrent in the table is the engine's, with that file.
HandleLive ==
  \A h \in Hash : handles[h].live => /\ engine[h].file = handles[h].file
                                     /\ engine[h].laid

\* StreamKept: pruning leaves a torrent that is in use alone, apart from one
\* that came into use after the pruning had looked.
StreamKept ==
  \A h \in Hash : engine[h].laid /\ h \notin pruned =>
    <<"torrent", engine[h].file>> \in disk[h]

(***************************************************************************)
(* QuotaHeld: the directories stay within LOCAL_TORRENT_MAX_BYTES, however *)
(* calls, prunings, failures and restarts interleave, unless bytes came    *)
(* that the room check does not count: a second torrent admitted before    *)
(* the first was laid out, another file of the same torrent, or a stream   *)
(* that downloads its file again.                                          *)
(***************************************************************************)
QuotaHeld == BytesUsed <= MaxBytes \/ unseen

(***************************************************************************)
(* TorrentInv: one call works on a torrent, its handle is what the engine  *)
(* streams, and the files under a stream stay on the disk although other   *)
(* calls prune the cache at any time.                                      *)
(***************************************************************************)
TorrentInv == TorrentTypeOK /\ OneCall /\ HandleLive /\ StreamKept /\ QuotaHeld
=============================================================================
