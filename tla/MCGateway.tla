----------------------------- MODULE MCGateway -----------------------------
(***************************************************************************)
(* The components between the server and what others send it: uploads, the *)
(* schedules and streams of the sports providers, their live playlists and *)
(* segments, the metadata of TMDB, for one run of TLC.  They share no      *)
(* variable, and no property is about two of them: in a behaviour the one  *)
(* in focus moves, and the others stay where they begin.                   *)
(***************************************************************************)
EXTENDS UploadSessions, SportsSchedule, SportsStreams, TmdbCache, LiveProxy,
        TLC

CONSTANTS q1, q2, a1, a2, a3, series, other, m1, v1, roll

VARIABLE focus  \* the component that moves in this behaviour

\* Requests differ in nothing but their names.
MCSymmetry == Permutations({q1, q2})
-----------------------------------------------------------------------------
MCDeclared == {2, 3, None}

\* Calls and files of uploads are numbers, and the lowest one is used first.
InOrder ==
  /\ \A r \in Request : req[r].pc = "new" /\ req'[r].pc # "new" =>
       \A q \in Request : q < r => req[q].pc # "new"
  /\ \A f \in File : Free(f) /\ ~Free(f)' => \A g \in File : g < f => ~Free(g)

\* The places of the members of S, a set of numbers, in their order.
Places(S) ==
  [x \in S \cup {None} |-> IF x = None THEN 0 ELSE Cardinality({y \in S : y <= x})]

\* Bound: of one call, the first to begin, a file operation goes on when it is
\* cut off; an open does only where it makes the file.
FirstLate ==
  \A r \in Request : req[r].pc \notin Late /\ req'[r].pc \in Late =>
    /\ \A q \in Request : r <= q
    /\ req'[r].pc = "late_open" => temp[req[r].s] = None

(***************************************************************************)
(* Calls that left nothing behind, and files that nothing leads to, are    *)
(* never looked at again; of the others only the order tells.  What is in  *)
(* the files of sessions overtaken, nothing depends on.                    *)
(***************************************************************************)
UploadView ==
  LET blind == Session \subseteq overtaken
      files == {f \in File : ~Free(f)}
      calls == {r \in Request :
                  \/ req[r].pc \notin {"new", "done"}
                  \/ req[r].ok
                  \/ ~blind /\ \E f \in files : r \in Range(content[f])}
      file == Places(files)
      call == Places(calls)
      Bytes(f) == [i \in DOMAIN content[f] |-> call[content[f][i]]]
      Call(r) == IF blind THEN <<req[r].pc, req[r].prev, req[r].written, req[r].ok>>
                          ELSE [req[r] EXCEPT !.fd = file[@]]
  IN <<session, declared, library, overtaken,
       {<<call[r], Call(r)>> : r \in calls},
       Cardinality({r \in Request : req[r].pc = "new"}),
       [s \in Session |-> call[chunkLock[s]]],
       IF blind THEN [s \in Session |-> <<temp[s] # None, video[s] # None>>]
       ELSE <<spoiled, [s \in Session |-> <<file[temp[s]], file[video[s]]>>],
              {<<file[f], Bytes(f)>> : f \in files}>>>>
-----------------------------------------------------------------------------
MCMatch(start, sources) ==
  [start |-> start, length |-> 0, titled |-> TRUE, ours |-> TRUE,
   paged |-> TRUE, sources |-> sources]
MCListings ==
  {<<MCMatch(2, <<"plain", "blank", "best">>)>>, <<MCMatch(4, <<"void">>)>>,
   <<MCMatch(9, <<"blank">>), [MCMatch(1, <<"plain">>) EXCEPT !.length = 2]>>}
MCWays == {{<<"streamed", "matchstream">>}, {<<"ntvs">>}, {<<"cdnlivetv">>}}

\* Bound: a request that is over leaves before anything else happens.
Served == {f \in Fan : fan[f].pc \in {"hit", "miss", "stale", "error"}}
ScheduleStep ==
  IF Served = {} THEN ScheduleNext ELSE \E f \in Served : FanLeaves(f)
-----------------------------------------------------------------------------
MCEmbed(no, hd, site, min, full) ==
  [no |-> no, hd |-> hd, site |-> site, min |-> min, full |-> full,
   holds |-> << >>]
MCPageAt ==
  a1 :> [provider |-> "streamed",
         items |-> <<MCEmbed(1, FALSE, "embed", TRUE, TRUE),
                     MCEmbed(2, TRUE, "embed", FALSE, TRUE),
                     MCEmbed(3, TRUE, "odd", TRUE, TRUE)>>]
  @@ a2 :> [provider |-> "ntvs",
            items |-> <<MCEmbed(1, TRUE, "embed", FALSE, FALSE),
                        [MCEmbed(2, TRUE, "wrapper", FALSE, FALSE) EXCEPT
                           !.holds = <<MCEmbed(3, TRUE, "player", TRUE, FALSE)>>]>>]
  @@ a3 :> [provider |-> "matchstream",
            items |-> <<MCEmbed(1, TRUE, "embed", FALSE, FALSE)>>]
MCQuery(urls, preflight) == [urls |-> urls, preflight |-> preflight]
MCQueries ==
  {MCQuery(<<a2, a1>>, FALSE), MCQuery(<<a3, "odd", a3, a2, a1>>, TRUE),
   MCQuery(<<a1, "broken">>, FALSE)}

\* Bound: a request that is over leaves before anything else happens.
Told == {w \in Watcher : watcher[w].pc \in {"answered", "refused"}}
StreamsStep ==
  IF Told = {} THEN StreamsNext ELSE \E w \in Told : WatcherLeaves(w)
-----------------------------------------------------------------------------
MCTtl == series :> 3 @@ other :> 1
MCWants == {[pages |-> <<series>>, warm |-> FALSE],
            [pages |-> <<series, other>>, warm |-> TRUE]}

\* Bounds: one warm-up at a time, and a request that was answered leaves before
\* anything else happens.
OneWarmUp == Cardinality({r \in Reader : reader[r].warm}) <= 1
Finished == {r \in Reader : reader[r].pc \in {"answered", "failed"}}
TmdbStep ==
  IF Finished = {} THEN TmdbNext /\ OneWarmUp' ELSE \E r \in Finished : ReaderLeaves(r)

\* What the rest of a behaviour, and TmdbSound, look at.
ReaderView(r) ==
  LET ahead == {r.left[i] : i \in DOMAIN r.left} \ raced
      copied == {"touch", "lengthen", "revive", "insert", "keep", "store"}
  IN <<r.pc, r.left, r.warm, r.extend, r.since, r.got # << >>,
       IF r.pc \in copied THEN r.copy ELSE NoCopy,
       {<<p, r.began[p]>> : p \in ahead}>>
TmdbView ==
  <<day, memory, table, [r \in Reader |-> ReaderView(reader[r])],
    [p \in Sliding |-> asked[p]], [p \in Page \ raced |-> told[p]], raced,
    ReadsForward>>
-----------------------------------------------------------------------------
MCFixed ==
  m1 :> <<Line("head", 0), Line("streaminf", 1440), Line("variant", 1),
          Line("streaminf", 720), Line("variant", 2), Line("iframe", 1440)>>
  @@ v1 :> <<Line("head", 0), Line("extinf", 2), Line("uri", 1), Line("end", 0)>>
MCHostOf == m1 :> "open" @@ v1 :> "curl" @@ roll :> "bound"
MCDirOf == m1 :> "d1" @@ v1 :> "d1" @@ roll :> "d2"
MCSegment(dir, host, name, body, size, nature) ==
  [dir |-> dir, host |-> host, name |-> name, body |-> body, size |-> size,
   nature |-> nature]
MCSegments ==
  {MCSegment("d1", "curl", "ts", "mpegts", "normal", "audio"),
   MCSegment("d2", "plain", "ts", "mpegts", "normal", "clean"),
   MCSegment("d2", "plain", "m4s", "plain", "normal", "data"),
   MCSegment("d2", "plain", "m4s", "png", "normal", "clean"),
   MCSegment("d1", "plain", "ts", "mpegts", "huge", "data"),
   MCSegment("d1", "plain", "m4s", "mpegts", "normal", "data")}

\* Bound: a player that has its answer leaves before anything else happens.
Played == {p \in Player : player[p].pc \in {"list", "segment"}}
\* Bound: of its two caches, one is in use.
OneCache == \/ \A k \in DOMAIN lists : lists[k] = NoList
            \/ \A d \in Dir : decision[d] = Undecided
LiveStep ==
  IF Played = {} THEN LiveNext /\ OneCache' ELSE \E p \in Played : PlayerLeaves(p)

\* Players differ in nothing: how many there are in each state is what counts.
Crowd(f) ==
  LET states == {f[x] : x \in DOMAIN f} IN
  [s \in states |-> Cardinality({x \in DOMAIN f : f[x] = s})]
-----------------------------------------------------------------------------
gatewayVars == <<focus, vars, scheduleVars, sportsVars, tmdbVars, liveVars>>

\* Only what is in focus tells states apart.
MCView ==
  CASE focus = "uploads" -> <<focus, UploadView>>
    [] focus = "schedule" -> <<focus, scheduleVars>>
    [] focus = "streams" -> <<focus, sportsVars>>
    [] focus = "tmdb" -> <<focus, TmdbView>>
    [] focus = "live" -> <<focus, beat, edge, lists, decision, Crowd(player)>>

GatewayInit ==
  /\ focus \in {"uploads", "schedule", "streams", "tmdb", "live"}
  /\ Init
  /\ ScheduleInit
  /\ focus # "schedule" => ways = CHOOSE w \in MCWays : TRUE
  /\ StreamsInit
  /\ TmdbInit
  /\ LiveInit

GatewayNext ==
  \/ /\ focus = "uploads" /\ Next /\ InOrder /\ FirstLate
     /\ UNCHANGED <<focus, scheduleVars, sportsVars, tmdbVars, liveVars>>
  \/ /\ focus = "schedule" /\ ScheduleStep
     /\ UNCHANGED <<focus, vars, sportsVars, tmdbVars, liveVars>>
  \/ /\ focus = "streams" /\ StreamsStep
     /\ UNCHANGED <<focus, vars, scheduleVars, tmdbVars, liveVars>>
  \/ /\ focus = "tmdb" /\ TmdbStep
     /\ UNCHANGED <<focus, vars, scheduleVars, sportsVars, liveVars>>
  \/ /\ focus = "live" /\ LiveStep
     /\ UNCHANGED <<focus, vars, scheduleVars, sportsVars, tmdbVars>>

GatewaySpec == GatewayInit /\ [][GatewayNext]_gatewayVars
=============================================================================
