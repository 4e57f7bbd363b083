----------------------------- MODULE MCPlayback -----------------------------
(***************************************************************************)
(* The components on the way from a title to a stream, for one run of TLC. *)
(* They share no variable, and no property is about two of them: in a      *)
(* behaviour the one in focus moves, and the others stay where they begin. *)
(***************************************************************************)
EXTENDS SourceDiscovery, SourceRanking, DebridResolve, TorrentCache, TLC

CONSTANTS c1, c2, e1, e2, t1, t2, f1, f2, h1, h2, h3

VARIABLE focus  \* the component that moves in this behaviour

MCOffers == {{<<h1, f1>>, <<h1, f2>>}, {<<h1, f1>>, <<h2, f1>>}}
MCLength == [f \in {f1, f2} |-> 2]
MCCandidates == <<h1, h2>>

\* Bound: rows, which only let a call begin, expire while the engine is at rest.
AtRest == engine = [h \in Hash |-> Unmanaged] /\ \A v \in Viewer : viewer[v] = Free
TorrentStep == TorrentNext /\ (AtRest \/ rows \subseteq rows')

\* Files, keys and ids differ in nothing but their names.
MCSymmetry == Permutations({e1, e2}) \cup Permutations({t1, t2})

\* Nor do calls: how many there are in each state is what counts.
Crowd(f) ==
  LET states == {f[x] : x \in DOMAIN f} IN
  [s \in states |-> Cardinality({x \in DOMAIN f : f[x] = s})]

\* Bounds: one call at a time is past its first candidate, and rows expire while
\* no call is under way; one that has only the local engine left tries it before
\* anything else happens, and one that has its answer returns or rejects it.
RowsLast == caller' = caller => idRow' = idRow \/ \A c \in Caller : Doing(c, "idle")
OneAhead == \E c \in Caller : caller'[c].next = 1
AtEnd == {c \in Caller : caller[c].pc \in {"local", "answered"}}
DebridStep ==
  IF AtEnd = {} THEN DebridNext /\ OneAhead /\ RowsLast
  ELSE \E c \in AtEnd : TryLocal(c) \/ RejectAnswer(c) \/ DropCaller(c)
-----------------------------------------------------------------------------
MCFound(hash, fits) == [hash |-> hash, fits |-> fits]
MCAnswers ==
  [torrentio |-> {Unreadable, <<MCFound(h1, TRUE), MCFound(h2, FALSE)>>},
   torznab |-> {<<>>, <<MCFound(h2, TRUE), MCFound(h3, TRUE)>>},
   search |-> {<<MCFound(h3, TRUE)>>}]
MCFreshFor == [torrentio |-> 1, torznab |-> 1, search |-> 1]
MCKeptFor == [torrentio |-> 2, torznab |-> 1, search |-> 1]

\* Bound: a request that is over leaves before anything else happens.
Over ==
  {s \in Seeker : \/ seeker[s].pc \in {"played", "refused"}
                  \/ seeker[s].pc = "shown" /\ seeker[s].shown = << >>}
DiscoveryStep ==
  IF Over = {} THEN DiscoveryNext ELSE \E s \in Over : SeekerLeaves(s)

\* Who has asked what is told apart only while no content has moved.
DiscoveryView ==
  <<hour, kept,
    Crowd([s \in Seeker |->
      <<moved[s], IF moved[s] THEN [seeker[s] EXCEPT !.asked = <<>>] ELSE seeker[s]>>])>>
-----------------------------------------------------------------------------
playbackVars == <<focus, discoveryVars, rankVars, debridVars, torrentVars>>

\* Only what is in focus tells states apart.
MCView ==
  CASE focus = "discovery" -> <<focus, DiscoveryView>>
    [] focus = "ranking" -> <<focus, rankVars>>
    [] focus = "debrid" -> <<focus, Crowd(caller), account, idRow, foreign, spared>>
    [] focus = "torrents" -> <<focus, offer, Crowd(viewer), torrents, files, rows,
                               prunes, history>>

PlaybackInit ==
  /\ focus \in {"discovery", "ranking", "debrid", "torrents"}
  /\ DiscoveryInit
  /\ RankInit
  /\ focus # "ranking" => wish = CHOOSE w \in Wish : TRUE
  /\ DebridInit
  /\ \A t \in TorrentId : account[t].hash # h2
  /\ focus # "debrid" => foreign = {}
  /\ TorrentInit
  /\ focus # "torrents" => dirs = <<>> /\ <<h2, f1>> \in offer

PlaybackNext ==
  \/ /\ focus = "discovery" /\ DiscoveryStep
     /\ UNCHANGED <<focus, rankVars, debridVars, torrentVars>>
  \/ /\ focus = "ranking" /\ RankNext
     /\ UNCHANGED <<focus, discoveryVars, debridVars, torrentVars>>
  \/ /\ focus = "debrid" /\ DebridStep
     /\ UNCHANGED <<focus, discoveryVars, rankVars, torrentVars>>
  \/ /\ focus = "torrents" /\ TorrentStep
     /\ UNCHANGED <<focus, discoveryVars, rankVars, debridVars>>

PlaybackSpec == PlaybackInit /\ [][PlaybackNext]_playbackVars
=============================================================================
