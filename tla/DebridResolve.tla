--------------------------- MODULE DebridResolve ---------------------------
(***************************************************************************)
(* resolver.rs: how a list of torrent candidates becomes a URL, through    *)
(* the torrents on a user's Real-Debrid account and then, if all fails,    *)
(* through the local torrent engine (TorrentCache).  A torrent is added to *)
(* the account, a file is selected, its links are waited for; a torrent of *)
(* the same hash that the account has already is used again.  A row of the *)
(* database remembers the torrent that worked.                             *)
(*                                                                         *)
(* The resolve lock (EmbedResolve) covers one title with its preferences,  *)
(* so calls for other episodes in the same torrent run at the same time.   *)
(*                                                                         *)
(* External: the account.  Files are selected once; links come in time, or *)
(* the torrent fails.  Every request may fail, and one that nobody hears   *)
(* the answer of (the answer is lost, the time is up, the call is dropped) *)
(* may have had its effect.                                                *)
(***************************************************************************)
EXTENDS Integers, Sequences, FiniteSets

CONSTANTS
  Caller,     \* calls of resolve_movie_candidates, resolve_episode_...
  Candidates, \* the hashes every call tries, in this order
  Video,      \* the files of each torrent: one is what a call wants
  TorrentId,  \* the ids the account gives; bound: no more can be added
  NoId

SourceHash == {Candidates[i] : i \in 1..Len(Candidates)}

ASSUME DebridAssumption ==
  /\ NoId \notin TorrentId
  /\ Candidates \in Seq(SourceHash) /\ Candidates # <<>>

VARIABLES
  caller,   \* the calls
  account,  \* the torrents on the account, by id
  idRow,    \* rows rd-torrent:<scope>:<hash>: the id, or NoId
  foreign,  \* history: torrents the user has put there
  spared    \* history: torrents that led to an answer, whose deletion
            \* failed or was never asked for, or whose id was never heard of

debridVars == <<caller, account, idRow, foreign, spared>>

Absent == [hash |-> NoId, chosen |-> {}, status |-> "absent"]
Idle == [pc |-> "idle", wants |-> NoId, next |-> 1, id |-> NoId,
         reused |-> FALSE, attempt |-> 0, got |-> NoId]

\* Those in which a candidate is being tried.
Trying == {"find", "select", "links", "mismatch", "failed", "add"}

Callers ==
  [pc : Trying \cup {"idle", "local", "answered"},
   wants : Video \cup {NoId}, next : 1..Len(Candidates), id : TorrentId \cup {NoId},
   reused : BOOLEAN, attempt : 0..1, got : Video \cup {NoId}]
RdTorrents ==
  [hash : SourceHash, chosen : SUBSET Video, status : {"waiting", "ready", "dead"}]

DebridTypeOK ==
  /\ caller \in [Caller -> Callers]
  /\ account \in [TorrentId -> {Absent} \cup RdTorrents]
  /\ idRow \in [SourceHash -> TorrentId \cup {NoId}]
  /\ foreign \cup spared \subseteq TorrentId

\* The account may have torrents that the user has put there.
DebridInit ==
  /\ caller = [c \in Caller |-> Idle]
  /\ foreign \in SUBSET TorrentId /\ Cardinality(foreign) <= 1
  /\ account \in [TorrentId -> {Absent} \cup
       [hash : SourceHash, chosen : SUBSET Video \ {{}}, status : {"ready"}]]
  /\ \A t \in TorrentId : t \in foreign <=> account[t] # Absent
  /\ idRow = [h \in SourceHash |-> NoId]
  /\ spared = {}

\* The next candidate; none is left, or the time for them all is up.
GiveUpCandidate(c) ==
  \/ /\ caller[c].next < Len(Candidates)
     /\ caller' = [caller EXCEPT ![c] = [Idle EXCEPT !.pc = "find",
                      !.wants = caller[c].wants, !.next = caller[c].next + 1]]
  \/ caller' = [caller EXCEPT ![c] = [Idle EXCEPT !.pc = "local"]]
AddAgain(c, n) ==
  caller' = [caller EXCEPT ![c].pc = "add", ![c].id = NoId,
                           ![c].reused = FALSE, ![c].attempt = n]

Step(c, p) == caller' = [caller EXCEPT ![c].pc = p]
Doing(c, p) == caller[c].pc = p
HashOf(c) == Candidates[caller[c].next]
On(t) == t \in TorrentId /\ account[t] # Absent
-----------------------------------------------------------------------------
ResolveCandidates(c, f) ==
  /\ Doing(c, "idle")
  /\ caller' = [caller EXCEPT ![c] = [Idle EXCEPT !.pc = "find", !.wants = f]]
  /\ UNCHANGED <<account, idRow, foreign, spared>>

Reuse(c, t) ==
  caller' = [caller EXCEPT ![c].pc = "select", ![c].id = t, ![c].reused = TRUE]

\* find_reusable_rd_torrent_by_hash: the row, else the account's list; it
\* counts as nothing found when a request fails.
FindReusable(c) ==
  /\ Doing(c, "find")
  /\ \/ /\ idRow[HashOf(c)] # NoId
        /\ Reuse(c, idRow[HashOf(c)])
        /\ UNCHANGED idRow
     \/ /\ idRow[HashOf(c)] = NoId
        /\ \E t \in TorrentId :
             /\ account[t].hash = HashOf(c)
             /\ idRow' = [idRow EXCEPT ![HashOf(c)] = t]
             /\ Reuse(c, t)
     \/ Step(c, "add") /\ UNCHANGED idRow
  /\ UNCHANGED <<account, foreign, spared>>

\* An id is not given twice.
NewId(t) ==
  /\ t \notin foreign \cup spared /\ ~On(t)
  /\ \A d \in Caller : caller[d].id # t
  /\ \A h \in SourceHash : idRow[h] # t

\* addMagnet: the account takes the same hash more than once.
Adds(c, t) ==
  account' = [account EXCEPT ![t] =
    [hash |-> HashOf(c), chosen |-> {}, status |-> "waiting"]]

\* selectFiles has no effect on a torrent with files selected before.
SelectsFile(c) ==
  LET t == caller[c].id IN
  /\ On(t)
  /\ account' = IF account[t].chosen = {}
                THEN [account EXCEPT ![t].chosen = {caller[c].wants}]
                ELSE account

LeftBehind(c) ==
  spared' = IF On(caller[c].id) /\ ~caller[c].reused
           THEN spared \cup {caller[c].id} ELSE spared

(***************************************************************************)
(* A call goes on without the answer to its request, which has its effect  *)
(* or has none.  An effect that comes later is one the others notice       *)
(* later: they may miss what is on the account anyway (FindReusable), and  *)
(* of two selections the first counts; a deletion that comes later is      *)
(* AccountLoses.                                                           *)
(***************************************************************************)
AnswerLost(c) ==
  \/ /\ Doing(c, "add")
     /\ \E t \in TorrentId : NewId(t) /\ Adds(c, t) /\ spared' = spared \cup {t}
  \/ Doing(c, "select") /\ SelectsFile(c) /\ LeftBehind(c)
  \/ UNCHANGED account /\ LeftBehind(c)

\* The request fails, its answer is lost, or the answer has no id in it.
AddMagnet(c) ==
  /\ Doing(c, "add")
  /\ \/ /\ \E t \in TorrentId :
             /\ NewId(t) /\ Adds(c, t)
             /\ caller' = [caller EXCEPT ![c].pc = "select", ![c].id = t,
                                         ![c].reused = FALSE]
        /\ UNCHANGED spared
     \/ AnswerLost(c) /\ GiveUpCandidate(c)
  /\ UNCHANGED <<idRow, foreign>>

\* resolve_from_torrent_id: the file wanted is picked and selected.
SelectFiles(c) ==
  /\ Doing(c, "select")
  /\ \/ SelectsFile(c) /\ (Step(c, "links") \/ Step(c, "failed"))
     \/ UNCHANGED account /\ Step(c, "failed")
  /\ UNCHANGED <<idRow, foreign, spared>>

\* Mutant: whatever is selected will do.
SelectedAny(c) == TRUE

\* ready_info_has_selected_file_id
Selected(c) == caller[c].wants \in account[caller[c].id].chosen

(***************************************************************************)
(* wait_for_torrent_to_be_ready and the rest of resolve_from_torrent_id:   *)
(* every link is unrestricted and tried, and the first that works is the   *)
(* answer, whichever of the selected files it leads to.                    *)
(***************************************************************************)
Links(c) ==
  LET t == caller[c].id IN
  /\ Doing(c, "links")
  /\ \/ /\ On(t) /\ account[t].status = "ready" /\ Selected(c)
        /\ \E f \in account[t].chosen :
             caller' = [caller EXCEPT ![c].pc = "answered", ![c].got = f]
        /\ spared' = spared \cup {t}
        /\ \/ idRow' = [idRow EXCEPT ![HashOf(c)] = t]
           \/ UNCHANGED idRow
     \/ /\ On(t) /\ account[t].status = "ready" /\ ~Selected(c)
        /\ Step(c, "mismatch")
        /\ UNCHANGED <<idRow, spared>>
     \/ Step(c, "failed") /\ UNCHANGED <<idRow, spared>>
  /\ UNCHANGED <<account, foreign>>

\* safe_delete_torrent: best effort.
SafeDelete(t) ==
  \/ account' = [account EXCEPT ![t] = Absent] /\ UNCHANGED spared
  \/ spared' = (IF On(t) THEN spared \cup {t} ELSE spared) /\ UNCHANGED account

ForgetRow(c) ==
  \/ idRow' = [idRow EXCEPT ![HashOf(c)] = NoId]
  \/ UNCHANGED idRow

\* A torrent used again did not do: only a wrong file makes it go.
FailReused(c) ==
  /\ caller[c].pc \in {"mismatch", "failed"} /\ caller[c].reused
  /\ IF Doing(c, "mismatch") THEN SafeDelete(caller[c].id)
                             ELSE UNCHANGED <<account, spared>>
  /\ ForgetRow(c)
  /\ AddAgain(c, 0)
  /\ UNCHANGED <<foreign>>

\* Mutant: the torrent is left on the account.
FailKeepingTorrent(c) ==
  /\ caller[c].pc \in {"mismatch", "failed"} /\ ~caller[c].reused
  /\ ForgetRow(c)
  /\ GiveUpCandidate(c)
  /\ UNCHANGED <<account, foreign, spared>>

\* A torrent just added goes; after a wrong file, one more is added.
FailAdded(c) ==
  /\ caller[c].pc \in {"mismatch", "failed"} /\ ~caller[c].reused
  /\ SafeDelete(caller[c].id)
  /\ ForgetRow(c)
  /\ IF Doing(c, "mismatch") /\ caller[c].attempt = 0
     THEN AddAgain(c, 1) ELSE GiveUpCandidate(c)
  /\ UNCHANGED <<foreign>>

\* The "fastest" provider: the local torrent engine, for what it is worth.
TryLocal(c) ==
  /\ Doing(c, "local")
  /\ caller' = [caller EXCEPT ![c] = Idle]
  /\ UNCHANGED <<account, idRow, foreign, spared>>

\* validate_resolved_..._source: the file's name is not of the title, after
\* all.  The torrent stays.
RejectAnswer(c) ==
  /\ Doing(c, "answered")
  /\ GiveUpCandidate(c)
  /\ UNCHANGED <<account, idRow, foreign, spared>>

\* The candidate's time is up: resolve_candidate_stream is dropped.
CandidateTimesOut(c) ==
  /\ caller[c].pc \in Trying
  /\ AnswerLost(c)
  /\ GiveUpCandidate(c)
  /\ UNCHANGED <<idRow, foreign>>

\* The response is on its way, or nobody waits for it any more.
DropCaller(c) ==
  /\ ~Doing(c, "idle")
  /\ IF caller[c].pc \in Trying THEN AnswerLost(c) ELSE UNCHANGED <<account, spared>>
  /\ caller' = [caller EXCEPT ![c] = Idle]
  /\ UNCHANGED <<idRow, foreign>>

\* External: Real-Debrid has the links, or has given up.
AccountMoves(t) ==
  /\ account[t].status = "waiting"
  /\ \/ /\ account[t].chosen # {}
        /\ account' = [account EXCEPT ![t].status = "ready"]
     \/ account' = [account EXCEPT ![t].status = "dead"]
  /\ UNCHANGED <<caller, idRow, foreign, spared>>

\* External: a deletion comes late, or the user deletes the torrent.
AccountLoses(t) ==
  /\ On(t)
  /\ account' = [account EXCEPT ![t] = Absent]
  /\ UNCHANGED <<caller, idRow, foreign, spared>>

ExpireIdRow(h) ==
  /\ idRow[h] # NoId
  /\ idRow' = [idRow EXCEPT ![h] = NoId]
  /\ UNCHANGED <<caller, account, foreign, spared>>

DebridNext ==
  \/ \E c \in Caller, f \in Video : ResolveCandidates(c, f)
  \/ \E c \in Caller :
       \/ FindReusable(c) \/ AddMagnet(c) \/ SelectFiles(c)
       \/ Links(c) \/ FailReused(c) \/ FailAdded(c) \/ TryLocal(c)
       \/ RejectAnswer(c) \/ CandidateTimesOut(c) \/ DropCaller(c)
  \/ \E t \in TorrentId : AccountMoves(t) \/ AccountLoses(t)
  \/ \E h \in SourceHash : ExpireIdRow(h)

DebridSpec == DebridInit /\ [][DebridNext]_debridVars
-----------------------------------------------------------------------------
(***************************************************************************)
(* AnswerFits: the URL answered leads to the file that was asked for,      *)
(* although other calls, also such as are gone by then, select files in    *)
(* the same torrent and delete it; except in a torrent where the user has  *)
(* selected several files.                                                 *)
(***************************************************************************)
AnswerFits ==
  \A c \in Caller :
    Doing(c, "answered") /\ caller[c].id \notin foreign =>
      caller[c].got = caller[c].wants

(***************************************************************************)
(* NothingLeft: a torrent that was added to the user's account is deleted  *)
(* in the end, unless it led to an answer, its deletion failed, or nobody  *)
(* is there to delete it: the time of its candidate was up, the call was   *)
(* dropped, or the answer to addMagnet, which has its id, was lost.        *)
(***************************************************************************)
NothingLeft ==
  \A t \in TorrentId :
    On(t) => \/ t \in foreign \cup spared
             \/ \E c \in Caller : /\ caller[c].id = t /\ ~caller[c].reused
                                  /\ caller[c].pc \in Trying

(***************************************************************************)
(* DebridInv: answers fit, and what was added for nothing is taken away.   *)
(***************************************************************************)
DebridInv == DebridTypeOK /\ AnswerFits /\ NothingLeft
=============================================================================
