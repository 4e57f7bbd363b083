------------------------------- MODULE LiveProxy -------------------------------
(***************************************************************************)
(* live.rs: playlists and segments on their way from an upstream to a      *)
(* player.  A playlist is rewritten so that what it names comes through    *)
(* this server, a worker, or straight from a host that lets it; of a       *)
(* rolling one the last segments are kept, and one that cannot change is   *)
(* kept in memory for a while.  A segment goes on as it came, but for one  *)
(* that browsers cannot play: whether a rendition's segments are such is   *)
(* probed once in a while, by whoever finds no decision.                   *)
(*                                                                         *)
(* A line of a playlist is its tag with a value: a height for "streaminf"  *)
(* and "iframe", a duration for "extinf", a number for "uri", "variant",   *)
(* "key" and "seq"; by says who serves what it names.                      *)
(***************************************************************************)
EXTENDS Integers, FiniteSetsExt, SequencesExt, Lists

CONSTANTS
  Player,        \* requests for a playlist or a segment
  Fixed,         \* playlists that stay as they are, and what is in them
  Rolling,       \* a playlist that goes on
  HostOf,        \* the playlist's host: "plain", "curl", "bound" or "open"
  DirOf,         \* the directory of its segments
  Segments,      \* [dir, host, name, body, size, nature] of a segment
  Duration,      \* that of the rolling playlist's segments
  UpstreamKept,  \* the segments a rolling playlist lists
  KeyEvery,      \* and how many of them share a key
  EdgeCount,     \* LIVE_HLS_EDGE_SEGMENT_COUNT
  StartOffset, StartOffsetMin, \* LIVE_HLS_START_OFFSET_*_SECONDS
  MaxHeight,     \* of a playlist that comes over the own uplink
  ListTtl,       \* LIVE_HLS_PLAYLIST_CACHE_TTL_MS
  MaxLists,      \* LIVE_HLS_PLAYLIST_CACHE_MAX_ENTRIES
  DecisionTtl,   \* LIVE_AUDIO_TRANSCODE_DECISION_TTL_MS
  MaxDecisions,  \* LIVE_AUDIO_TRANSCODE_MAX_ENTRIES
  CurlPermits, ProbePermits, EncodePermits, \* LIVE_*_MAX_CONCURRENT
  LastBeat, LastEdge \* bounds: of the clock, and of the rolling playlist

Playlist == DOMAIN Fixed \cup {Rolling}
Dir == {s.dir : s \in Segments}

ASSUME LiveAssumption ==
  /\ Rolling \notin DOMAIN Fixed
  /\ {EdgeCount, UpstreamKept, KeyEvery, MaxLists, MaxDecisions, CurlPermits,
      ProbePermits, EncodePermits, Duration, StartOffsetMin} \subseteq Nat \ {0}
  /\ {StartOffset, MaxHeight, ListTtl, DecisionTtl, LastBeat} \subseteq Nat
  /\ StartOffsetMin <= StartOffset /\ LastEdge \in Nat /\ UpstreamKept <= LastEdge
  /\ DirOf \in [Playlist -> Dir]
  /\ \A s \in Segments : s.nature \in {"clean", "audio", "data"}

Tag == {"head", "streaminf", "variant", "iframe", "media", "extinf", "uri", "key",
        "map", "date", "discontinuity", "seq", "start", "end"}
Server == {"upstream", "self", "worker", "direct"}
TypedLine == [tag : Tag, value : Int, by : Server]
Tags(lines) == {line.tag : line \in ToSet(lines)}

\* live_hls_playlist_is_immutable
Immutable(lines) ==
  "streaminf" \in Tags(lines) \/ {"extinf", "end"} \subseteq Tags(lines)

\* What stays as it is can be told to; a line with a height is followed by
\* its variant, and no variant comes without.
ASSUME FixedAssumption ==
  \A l \in DOMAIN Fixed :
    /\ Fixed[l] \in Seq(TypedLine) /\ Immutable(Fixed[l])
    /\ \A i \in DOMAIN Fixed[l] :
         /\ Fixed[l][i].by = "upstream"
         /\ Fixed[l][i].tag = "variant" => i > 1 /\ Fixed[l][i - 1].tag = "streaminf"
         /\ Fixed[l][i].tag = "streaminf" =>
              i < Len(Fixed[l]) /\ Fixed[l][i + 1].tag = "variant"

VARIABLES
  beat,      \* the clock
  edge,      \* the newest segment of the rolling playlist
  lists,     \* LiveHlsPlaylistCache, by playlist and flags
  decision,  \* LiveAudioTranscodeCache, by directory
  player     \* the requests

liveVars == <<beat, edge, lists, decision, player>>

NoList == [lines |-> << >>, at |-> -1]
Undecided == [nature |-> "unknown", from |-> "none", at |-> -1]
Blank == [pc |-> "rest"]

LiveTypeOK ==
  /\ beat \in 0 .. LastBeat /\ edge \in UpstreamKept .. LastEdge
  /\ lists \in [Playlist \X BOOLEAN \X BOOLEAN -> [at : -1 .. beat,
       lines : Seq(TypedLine)]]
  /\ decision \in [Dir -> [nature : {"unknown", "clean", "audio", "data"},
                         from : Dir \cup {"none"}, at : -1 .. beat]]
  /\ player = [p \in Player |-> player[p]]
  /\ \A p \in Player :
       player[p].pc \in {"rest", "queue", "fetch", "browse", "list", "segqueue",
                         "segfetch", "look", "probequeue", "probe", "encodequeue",
                         "encode", "segment"}

LiveInit ==
  /\ beat = 0 /\ edge = UpstreamKept
  /\ lists = [k \in Playlist \X BOOLEAN \X BOOLEAN |-> NoList]
  /\ decision = [d \in Dir |-> Undecided]
  /\ player = [p \in Player |-> Blank]
-----------------------------------------------------------------------------
(*************************** What the upstream says ************************)
Line(tag, value) == [tag |-> tag, value |-> value, by |-> "upstream"]

\* A segment, with the key before it if it is another one.
Block(n, first) ==
  IF n = first \/ n % KeyEvery = 0
  THEN <<Line("key", n \div KeyEvery), Line("extinf", Duration), Line("uri", n)>>
  ELSE <<Line("extinf", Duration), Line("uri", n)>>

RollingLines ==
  LET first == edge - UpstreamKept + 1
  IN <<Line("head", 0), Line("seq", first)>>
       \o FlattenSeq([i \in 1 .. UpstreamKept |-> Block(first + i - 1, first)])

Upstream(l) == IF l = Rolling THEN RollingLines ELSE Fixed[l]
-----------------------------------------------------------------------------
(******************************* The rewriting *****************************)
\* direct_hls_url_if_eligible, live_hls_proxy_*_url_with_trust
Proxied(line, l, direct) ==
  IF line.tag \in {"uri", "variant", "key", "media", "iframe"}
  THEN [line EXCEPT !.by = IF direct /\ HostOf[l] = "open" THEN "direct" ELSE "self"]
  ELSE line

Keepable(lines) ==
  \E line \in ToSet(lines) : line.tag = "streaminf" /\ line.value <= MaxHeight

\* cap_external_embed_master_to_1080p (a height that is not told is 0): a
\* variant goes with the line before it, unless none would be left.
Cap(lines) ==
  LET Tall(line) == line.tag \in {"streaminf", "iframe"} /\ line.value > MaxHeight
      fit == {i \in DOMAIN lines :
                ~Tall(lines[i]) /\ (lines[i].tag = "variant" => ~Tall(lines[i - 1]))}
  IN IF Keepable(lines) THEN Chosen(lines, Select([i \in DOMAIN lines |-> i], fit)) ELSE lines

\* rewrite_live_hls_master_playlist
RewriteMaster(lines, l, trusted, direct) ==
  LET kept == IF trusted /\ ~direct THEN Cap(lines) ELSE lines IN
  [i \in DOMAIN kept |-> Proxied(kept[i], l, direct)]

\* rewrite_vod_hls_media_playlist
RewriteVod(lines, l, direct) == [i \in DOMAIN lines |-> Proxied(lines[i], l, direct)]

InBlock == {"extinf", "key", "map", "date", "discontinuity"}

\* The header, the block of lines of each segment and how long each is: one
\* line more.
TakeLine(s, line) ==
  CASE line.tag = "seq" -> [s EXCEPT !.seq = line.value]
    [] line.tag = "end" -> s
    [] line.tag = "uri" ->
         [s EXCEPT !.blocks = Append(@, Append(s.open, line)), !.open = << >>,
                   !.long = Append(@, s.last), !.last = 0]
    [] OTHER ->
         LET timed == [s EXCEPT !.last = IF line.tag = "extinf" THEN line.value ELSE @]
         IN IF s.blocks = << >> /\ line.tag \notin InBlock
            THEN [timed EXCEPT !.header = Append(@, line)]
            ELSE [timed EXCEPT !.open = Append(@, line)]

Unread == [header |-> << >>, open |-> << >>, blocks |-> << >>, long |-> << >>,
           last |-> 0, seq |-> 0]

AllTaken(lines) ==
  LET taken[n \in 0 .. Len(lines)] ==
        IF n = 0 THEN Unread ELSE TakeLine(taken[n - 1], lines[n])
  IN  taken[Len(lines)]

\* How long it is together from the one after those dropped.
Window(long, dropped) ==
  LET sum[n \in 0 .. Len(long)] == IF n <= dropped THEN 0 ELSE sum[n - 1] + long[n]
  IN  sum[Len(long)]

Least(a, b) == IF a < b THEN a ELSE b

\* Mutant: the sequence number is that of the upstream's first segment.
SameSequence(s, dropped) == s.seq
\* The number of the first segment that is kept.
NextSequence(s, dropped) == s.seq + dropped

\* rewrite_live_hls_media_playlist: the segments at the edge, and a start
\* behind it that is within them.
RewriteRolling(lines, l, direct) ==
  LET s == AllTaken(RewriteVod(lines, l, direct))
      dropped == IF Len(s.blocks) > EdgeCount THEN Len(s.blocks) - EdgeCount ELSE 0
      start == Least(StartOffset, Window(s.long, dropped) \div 2)
  IN IF s.blocks = << >> THEN lines
     ELSE s.header
            \o (IF start >= StartOffsetMin THEN <<Line("start", start)>> ELSE << >>)
            \o <<Line("seq", NextSequence(s, dropped))>>
            \o FlattenSeq(SubSeq(s.blocks, dropped + 1, Len(s.blocks)))

\* rewrite_live_hls_playlist
Rewrite(lines, l, trusted, direct) ==
  CASE "streaminf" \in Tags(lines) -> RewriteMaster(lines, l, trusted, direct)
    [] "streaminf" \notin Tags(lines) /\ "extinf" \in Tags(lines) ->
         IF "end" \in Tags(lines) THEN RewriteVod(lines, l, direct)
         ELSE RewriteRolling(lines, l, direct)
    [] OTHER -> lines

FreshDecision(d) == decision[d] # Undecided /\ beat - decision[d].at <= DecisionTtl

\* maybe_route_live_resources_to_worker: if the first segment's rendition is
\* known to need no processing, and curl is not needed to get it.
RouteToWorker(lines, l, trusted) ==
  IF /\ trusted /\ HostOf[l] # "curl"
     /\ \E line \in ToSet(lines) : line.tag = "uri" /\ line.by = "self"
     /\ FreshDecision(DirOf[l]) /\ decision[DirOf[l]].nature = "clean"
  THEN [i \in DOMAIN lines |->
          IF lines[i].tag \in {"uri", "key"} /\ lines[i].by = "self"
          THEN [lines[i] EXCEPT !.by = "worker"] ELSE lines[i]]
  ELSE lines
-----------------------------------------------------------------------------
(******************************** Playlists ********************************)
FreshList(k) == lists[k] # NoList /\ beat - lists[k].at <= ListTtl

\* LiveHlsPlaylistCache.store
StoreList(k, lines) ==
  LET all == [lists EXCEPT ![k] = [lines |-> lines, at |-> beat]]
      Count(kept) == Cardinality({j \in DOMAIN kept : kept[j] # NoList})
      fresh == [j \in DOMAIN all |->
                  IF beat - all[j].at <= ListTtl THEN all[j] ELSE NoList]
  IN lists' = IF Count(all) <= MaxLists THEN all
              ELSE IF Count(fresh) <= MaxLists THEN fresh
              ELSE [j \in DOMAIN all |-> NoList]

ListAnswer(key, lines, public, said) ==
  [pc |-> "list", key |-> key, lines |-> lines, public |-> public, said |-> said]

\* live_hls_handler, live_hls_request_input: only a trusted request may ask
\* for direct segments.
AskPlaylist(p) ==
  /\ player[p].pc = "rest"
  /\ \E l \in Playlist, trusted \in BOOLEAN, direct \in BOOLEAN :
       LET key == <<l, trusted, direct>> IN
       /\ direct => trusted
       /\ player' =
            [player EXCEPT
               ![p] = IF FreshList(key)
                      THEN ListAnswer(key, lists[key].lines, TRUE, Upstream(l))
                      ELSE [pc |-> IF HostOf[l] = "curl" THEN "queue" ELSE "fetch",
                            key |-> key]]
  /\ UNCHANGED <<beat, edge, lists, decision>>

Curling == {p \in Player : \/ player[p].pc = "fetch" /\ HostOf[player[p].key[1]] = "curl"
                           \/ player[p].pc = "segfetch" /\ player[p].seg.host = "curl"}

\* fetch_live_hls_via_curl has its permit.
StartCurl(p) ==
  /\ player[p].pc \in {"queue", "segqueue"} /\ Cardinality(Curling) < CurlPermits
  /\ player' = [player EXCEPT ![p].pc = IF @ = "queue" THEN "fetch" ELSE "segfetch"]
  /\ UNCHANGED <<beat, edge, lists, decision>>

\* The playlist is here; what follows has no await.
ServePlaylist(p) ==
  /\ player[p].pc \in {"fetch", "browse"}
  /\ LET key == player[p].key
         said == Upstream(key[1])
         lines == RouteToWorker(Rewrite(said, key[1], key[2], key[3]), key[1], key[2])
         public == key[2] /\ Immutable(said)
     IN /\ player' = [player EXCEPT ![p] = ListAnswer(key, lines, public, said)]
        /\ IF public THEN StoreList(key, lines) ELSE UNCHANGED lists
  /\ UNCHANGED <<beat, edge, decision>>

\* should_retry_live_hls_with_browser_fetch, fetch_live_hls_playlist_via_browser
FetchForbidden(p) ==
  /\ player[p].pc = "fetch" /\ HostOf[player[p].key[1]] = "bound"
  /\ player' = [player EXCEPT ![p].pc = "browse"]
  /\ UNCHANGED <<beat, edge, lists, decision>>

\* The answer is an error, of a fetch or its timeout.
UpstreamFails(p) ==
  /\ player[p].pc \in {"fetch", "browse", "segfetch"}
  /\ player' = [player EXCEPT ![p] = Blank]
  /\ UNCHANGED <<beat, edge, lists, decision>>
-----------------------------------------------------------------------------
(********************************* Segments ********************************)
\* The segment is answered: as it came, with the PNG header off, or made new.
SegmentAnswer(p, how, from) ==
  player' = [player EXCEPT ![p] = [pc |-> "segment", seg |-> player[p].seg,
                                   how |-> how, from |-> from]]

\* live_hls_resource_handler
AskSegment(p) ==
  /\ player[p].pc = "rest"
  /\ \E s \in Segments :
       player' = [player EXCEPT
                    ![p] = [pc |-> IF s.host = "curl" THEN "segqueue" ELSE "segfetch",
                            seg |-> s]]
  /\ UNCHANGED <<beat, edge, lists, decision>>

\* is_live_ts_segment
Transport(s) == s.name = "ts" \/ s.body = "mpegts"

\* stream_live_hls_resource_via_http lets a segment through that is neither
\* MPEG-TS nor PNG; the others are fetched whole (for a second time), and the
\* PNG header is taken off.  process_live_segment has the rest.
SegmentArrives(p) ==
  /\ player[p].pc = "segfetch"
  /\ LET s == player[p].seg IN
     \/ s.body = "png" /\ SegmentAnswer(p, "stripped", "none")
     \/ s.body # "png" /\ ~Transport(s) /\ SegmentAnswer(p, "same", "none")
     \/ /\ s.body # "png" /\ Transport(s) /\ s.size # "normal"
        /\ SegmentAnswer(p, "same", "none")
     \/ /\ s.body # "png" /\ Transport(s) /\ s.size = "normal"
        /\ player' = [player EXCEPT ![p].pc = "look"]
  /\ UNCHANGED <<beat, edge, lists, decision>>

\* Mutant: one decision for the whole host.
HostKey(s) == CHOOSE d \in Dir : TRUE

\* live_audio_stream_key
StreamKey(s) == s.dir

\* What a decision asks for.
Process(p, nature, from) ==
  IF nature = "clean" THEN SegmentAnswer(p, "same", from)
  ELSE player' = [player EXCEPT ![p] = [pc |-> "encodequeue", seg |-> player[p].seg,
                                        need |-> nature, from |-> from]]

LookAtDecision(p) ==
  /\ player[p].pc = "look"
  /\ LET d == StreamKey(player[p].seg) IN
     IF FreshDecision(d) THEN Process(p, decision[d].nature, decision[d].from)
     ELSE player' = [player EXCEPT ![p].pc = "probequeue"]
  /\ UNCHANGED <<beat, edge, lists, decision>>

\* LIVE_PROBE_SEMAPHORE, LIVE_REENCODE_SEMAPHORE
InStage(stage) == {p \in Player : player[p].pc = stage}
StartProcess(p) ==
  /\ \/ /\ player[p].pc = "probequeue" /\ Cardinality(InStage("probe")) < ProbePermits
        /\ player' = [player EXCEPT ![p].pc = "probe"]
     \/ /\ player[p].pc = "encodequeue" /\ Cardinality(InStage("encode")) < EncodePermits
        /\ player' = [player EXCEPT ![p].pc = "encode"]
  /\ UNCHANGED <<beat, edge, lists, decision>>

\* probe_live_segment_needs_transcode says what the segment is, or nothing.
ProbeTells(p) ==
  /\ player[p].pc = "probe"
  /\ LET s == player[p].seg IN
     /\ decision' = [decision EXCEPT ![StreamKey(s)] =
                       [nature |-> s.nature, from |-> s.dir, at |-> beat]]
     /\ Process(p, s.nature, s.dir)
  /\ UNCHANGED <<beat, edge, lists>>

ProbeFails(p) ==
  /\ player[p].pc = "probe" /\ SegmentAnswer(p, "same", "failure")
  /\ UNCHANGED <<beat, edge, lists, decision>>

\* transcode_live_segment_to_browser_safe, remux_live_segment_strip_data
EncodeEnds(p) ==
  /\ player[p].pc = "encode"
  /\ \/ /\ player[p].need = "audio" /\ SegmentAnswer(p, "encoded", player[p].from)
     \/ /\ player[p].need = "data" /\ SegmentAnswer(p, "remuxed", player[p].from)
     \/ player' = [player EXCEPT ![p] = Blank]
  /\ UNCHANGED <<beat, edge, lists, decision>>

\* The answer is out, or the player goes.
PlayerLeaves(p) ==
  /\ player[p].pc # "rest" /\ player' = [player EXCEPT ![p] = Blank]
  /\ UNCHANGED <<beat, edge, lists, decision>>

\* Both prune.
PruneLive ==
  /\ lists' = [k \in DOMAIN lists |-> IF FreshList(k) THEN lists[k] ELSE NoList]
  /\ LET fresh == {d \in Dir : FreshDecision(d)}
         spared == IF Cardinality(fresh) > MaxDecisions THEN {} ELSE fresh
     IN decision' = [d \in Dir |-> IF d \in spared THEN decision[d] ELSE Undecided]
  /\ UNCHANGED <<beat, edge, player>>

BeatPasses ==
  /\ beat < LastBeat /\ beat' = beat + 1
  /\ edge' \in {edge, IF edge < LastEdge THEN edge + 1 ELSE edge}
  /\ UNCHANGED <<lists, decision, player>>

LiveNext ==
  \/ \E p \in Player :
       \/ AskPlaylist(p) \/ StartCurl(p) \/ ServePlaylist(p) \/ FetchForbidden(p)
       \/ UpstreamFails(p) \/ AskSegment(p) \/ SegmentArrives(p) \/ LookAtDecision(p)
       \/ StartProcess(p) \/ ProbeTells(p) \/ ProbeFails(p) \/ EncodeEnds(p)
       \/ PlayerLeaves(p)
  \/ PruneLive \/ BeatPasses

LiveSpec == LiveInit /\ [][LiveNext]_liveVars
-----------------------------------------------------------------------------
Only(lines, tag) == Select(lines, [tag : {tag}, value : Int, by : Server])
Values(lines, tag) == [i \in DOMAIN Only(lines, tag) |-> Only(lines, tag)[i].value]

\* Of a rolling playlist the newest segments are served, each under the number
\* it has upstream, and the player starts within them.
WindowRight(answer) ==
  LET uris == Values(answer.lines, "uri")
      from == Values(answer.said, "uri")
      first == Values(answer.lines, "seq")[1]
  IN /\ Len(uris) = Least(EdgeCount, Len(from))
     /\ uris = SubSeq(from, Len(from) - Len(uris) + 1, Len(from))
     /\ \A i \in DOMAIN uris : uris[i] = first + i - 1
     /\ \A start \in ToSet(Values(answer.lines, "start")) :
          StartOffsetMin <= start /\ start < Len(uris) * Duration

\* Of one that does not change everything is served, but for variants that are
\* too tall for the uplink; some variant is left.
WholeOrCapped(answer) ==
  /\ Values(answer.lines, "uri") = Values(answer.said, "uri")
  /\ \A i \in DOMAIN answer.lines : answer.lines[i].tag = "variant" =>
       i > 1 /\ answer.lines[i - 1].tag = "streaminf"
  /\ "variant" \in Tags(answer.said) => "variant" \in Tags(answer.lines)
  /\ Len(Only(answer.lines, "variant")) = Len(Only(answer.lines, "streaminf"))
  /\ answer.key[2] /\ ~answer.key[3] /\ Keepable(answer.said) =>
       \A line \in ToSet(answer.lines) :
         line.tag \in {"streaminf", "iframe"} => line.value <= MaxHeight

\* Nothing goes past the server that was not asked to, or that a browser may
\* not be able to play.
Serves(line, key) ==
  /\ line.by = "direct" => key[3]
  /\ line.by = "worker" => key[2] /\ HostOf[key[1]] # "curl"
  /\ line.by = "upstream" => line.tag \notin {"uri", "variant", "key", "iframe"}

\* A playlist is what its request asks for, whoever's fetch it is from: only
\* one that cannot change may be kept.
ListFits(answer) ==
  /\ answer.public => Immutable(answer.said) /\ answer.key[2]
  /\ IF answer.key[1] = Rolling THEN WindowRight(answer) ELSE WholeOrCapped(answer)
  /\ \A line \in ToSet(answer.lines) : Serves(line, answer.key)

ListsRight == \A p \in Player : player[p].pc = "list" => ListFits(player[p])

\* A segment that browsers cannot play goes on as it is only if it is not of
\* ordinary size, could not be probed, or a segment of the same rendition has
\* been found to be another kind.
SegmentFits(answer) ==
  LET s == answer.seg IN
  /\ s.body = "png" <=> answer.how = "stripped"
  /\ answer.how = "same" /\ s.nature # "clean" /\ Transport(s) =>
       \/ s.size # "normal"
       \/ answer.from = "failure"
       \/ /\ answer.from = s.dir
          /\ \E other \in Segments : other.dir = s.dir /\ other.nature = "clean"
  /\ answer.how \in {"encoded", "remuxed"} => answer.from = s.dir

SegmentsRight == \A p \in Player : player[p].pc = "segment" => SegmentFits(player[p])

PermitsKept ==
  /\ Cardinality(Curling) <= CurlPermits
  /\ Cardinality(InStage("probe")) <= ProbePermits
  /\ Cardinality(InStage("encode")) <= EncodePermits

(***************************************************************************)
(* LiveRight: whatever requests share the caches, in whatever order their  *)
(* fetches and probes end, and however old what they find is, a player     *)
(* gets a playlist that fits its request, whose numbers are the upstream's *)
(* and whose start is within it, and a segment that its browser can play,  *)
(* but for the named cases.                                                *)
(***************************************************************************)
LiveRight == LiveTypeOK /\ ListsRight /\ SegmentsRight /\ PermitsKept
=============================================================================
