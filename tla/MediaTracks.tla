------------------------------ MODULE MediaTracks ------------------------------
(***************************************************************************)
(* media.rs: the tracks of a file and the text of its subtitles.  What     *)
(* ffprobe says of a file is kept in the database, the text of a subtitle  *)
(* in a file of its own, what a search found in memory; a lock per key     *)
(* keeps calls from doing the same work twice.  The file may be replaced   *)
(* at any moment, and a write goes on when its call is dropped.            *)
(*                                                                         *)
(* A content of the file is a sequence of streams, and its number in       *)
(* Contents stands for it.                                                 *)
(***************************************************************************)
EXTENDS Integers, Sequences, FiniteSets, SequencesExt, Lists

CONSTANTS
  Contents,    \* what the file holds, one after the other
  Asker,       \* calls
  Requests,    \* [what, key, audio, subs]: what a call may want
  Sidecars,    \* subtitle files beside the file
  Ranked,      \* answers of OpenSubtitles: items with a score
  Addon,       \* answers of the keyless addon: items in its order
  Menu,        \* STREMIO_SUBTITLE_LANGUAGE_MENU
  Word,        \* languages and labels
  TrackLimit,  \* OPENSUBTITLES_TRACK_LIMIT
  TextFor, ProbeFor, SearchFor,  \* how long each is kept
  LastTick     \* bound: the clock stops there

Outside == -1  \* the key of an external subtitle

FileStream == [index : Int, kind : {"video", "audio", "subtitle"}, lang : Word, tag : Word,
               default : BOOLEAN, plays : BOOLEAN]
SearchItem == [id : Int, lang : Word, tag : Word, score : Int, allowed : BOOLEAN]
MediaTrack == [index : {"inner", "beside", "open", "addon"} \X Int, lang : Word, tag : Word,
               default : BOOLEAN, plays : BOOLEAN, external : BOOLEAN]

\* A file numbers its streams, and an id of OpenSubtitles is of one subtitle.
ASSUME MediaAssumption ==
  /\ Contents \in Seq(Seq(FileStream)) /\ Contents # << >>
  /\ \A v \in DOMAIN Contents : \A i, j \in DOMAIN Contents[v] :
       Contents[v][i].index = Contents[v][j].index /\ Contents[v][i].index >= 0 => i = j
  /\ TrackLimit \in Nat /\ LastTick \in Nat
  /\ TextFor \in Nat /\ ProbeFor \in Nat \ {0} /\ SearchFor \in Nat
  /\ \A q \in Requests : q.what \in {"tracks", "resolve", "embed", "text"}
  /\ Sidecars \in Seq(MediaTrack) /\ Menu \in Seq(Word)
  /\ Ranked \subseteq Seq(SearchItem) /\ Addon \subseteq Seq(SearchItem)
  /\ \A answer \in Ranked : \A i, j \in DOMAIN answer : answer[i].id = answer[j].id =>
       answer[i].lang = answer[j].lang /\ answer[i].tag = answer[j].tag

VARIABLES
  tick,      \* the clock
  content,   \* the number of what the file holds
  until,     \* when a content was replaced
  probeRow,  \* media_probe_cache
  texts,     \* the files of subtitles, by key
  found,     \* stremio_subtitle_cache, by preference
  prober,    \* who holds the lock of the probe
  writer,    \* who holds the lock of a subtitle
  asker      \* the calls

mediaVars == <<tick, content, until, probeRow, texts, found, prober, writer, asker>>

NoOne == "no one"
NoProbe == [of |-> 0, at |-> -1]
NoText == [of |-> 0, stream |-> 0, by |-> 0, whole |-> TRUE, at |-> -1,
           older |-> FALSE, late |-> FALSE]
NoTrack == [index |-> <<"none", -1>>]
Idle == [pc |-> "absent"]

TextKeys == {q.key : q \in Requests}
Prefs == {q.subs : q \in Requests}

MediaInit ==
  /\ tick = 0 /\ content = 1 /\ until = [v \in DOMAIN Contents |-> -1]
  /\ probeRow = NoProbe /\ texts = [k \in TextKeys |-> NoText]
  /\ found = [p \in Prefs |-> [at |-> -1, tracks |-> << >>]]
  /\ prober = NoOne /\ writer = [k \in TextKeys |-> NoOne]
  /\ asker = [c \in Asker |-> Idle]
-----------------------------------------------------------------------------
(***************************************************************************)
(* The tracks, and the choice among them.                                  *)
(***************************************************************************)
\* parse_probe_tracks_from_ffprobe_payload.  A subtitle has a URL if its
\* codec is text; an audio track plays if a browser knows its codec.
Track(s) == [index |-> <<"inner", s.index>>, lang |-> s.lang, tag |-> s.tag,
             default |-> s.default, plays |-> s.plays, external |-> FALSE]
TracksOfKind(v, kind) ==
  LET streams == Select(Contents[v], {s \in FileStream : s.index >= 0 /\ s.kind = kind})
  IN [i \in DOMAIN streams |-> Track(streams[i])]
Parsed(v) == [audio |-> TracksOfKind(v, "audio"), subs |-> TracksOfKind(v, "subtitle")]

NoTracks == [audio |-> << >>, subs |-> << >>]

\* The first track of the first of these sets that has one.
FirstOf(tracks, sets) ==
  LET hits == {k \in DOMAIN sets : ToSet(tracks) \cap sets[k] # {}}
  IN IF hits = {} THEN NoTrack
     ELSE Select(tracks, sets[CHOOSE k \in hits : \A j \in hits : k <= j])[1]

Dubbed(t) == t.tag = "dubbed"
Original(t) == t.tag = "original"

\* choose_audio_track_from_probe.  A tag that is a language is a hint.
ChooseAudio(tracks, pref) ==
  FirstOf(tracks, << {t \in MediaTrack : pref = "auto" /\ Original(t)},
                     {t \in MediaTrack : pref # "auto" /\ t.lang = pref},
                     {t \in MediaTrack : pref # "auto" /\ t.tag = pref},
                     {t \in MediaTrack : t.default /\ ~Dubbed(t)},
                     {t \in MediaTrack : ~Dubbed(t)},
                     {t \in MediaTrack : Original(t)},
                     {t \in MediaTrack : t.default},
                     MediaTrack >>)

\* sort_subtitle_tracks_by_playback_preference
Late(t) == (IF t.tag = "forced" THEN 4 ELSE 0) + (IF t.external THEN 0 ELSE 2)
           + (IF t.default THEN 0 ELSE 1)
ByPlaybackPreference(tracks) ==
  Sorted(tracks, {p \in MediaTrack \X MediaTrack : Late(p[1]) < Late(p[2])})

BestOf(tracks, pref) ==
  LET spoken == Select(tracks, {t \in MediaTrack : t.lang = pref})
      defaults == Select(tracks, {t \in MediaTrack : t.default})
      matches == IF spoken # << >> THEN spoken
                 ELSE IF defaults # << >> THEN defaults ELSE tracks
  IN IF tracks = << >> THEN NoTrack ELSE ByPlaybackPreference(matches)[1]

\* Mutant: tracks that cannot be played are chosen among, too.
ChooseAny(tracks, pref) ==
  IF pref \in {"", "off"} THEN NoTrack ELSE BestOf(tracks, pref)

\* choose_subtitle_track_from_probe
ChooseSubtitle(tracks, pref) ==
  IF pref \in {"", "off"} THEN NoTrack
  ELSE BestOf(Select(tracks, {t \in MediaTrack : t.plays}), pref)

\* merge_preferred_subtitle_tracks
Merged(preferred, fallback) ==
  LET all == preferred \o fallback
      new == {i \in DOMAIN all : \A j \in DOMAIN all : j < i => all[j].index # all[i].index}
  IN Chosen(all, Select([i \in DOMAIN all |-> i], new))

Found(base, item) ==
  [index |-> <<base, item.id>>, lang |-> item.lang, tag |-> item.tag,
   default |-> FALSE, plays |-> TRUE, external |-> TRUE]

\* search_opensubtitles_tracks: the best by score, in the order they came in.
OpenTracks(answer) ==
  LET items == Select(answer, {i \in SearchItem : i.id > 0 /\ i.lang # ""})
      ranked == Sorted(items, {p \in SearchItem \X SearchItem : p[1].score > p[2].score})
  IN [n \in 1 .. IF Len(ranked) < TrackLimit THEN Len(ranked) ELSE TrackLimit
        |-> Found("open", ranked[n])]

\* build_stremio_subtitle_tracks_from_payload: an id counts once; three of the
\* language that is wanted, two of English, one of any other; in the order of
\* the menu.
Quota(lang, wanted) == IF lang = wanted THEN 3 ELSE IF lang = "en" THEN 2 ELSE 1
MenuRank(lang, wanted) ==
  IF lang = wanted THEN 0 ELSE IF lang = "en" THEN 1
  ELSE 1 + CHOOSE n \in DOMAIN Menu : Menu[n] = lang

ByMenu(items, wanted) ==
  Sorted(items, {p \in ToSet(items) \X ToSet(items) :
                   MenuRank(p[1].lang, wanted) < MenuRank(p[2].lang, wanted)})

WithinQuota(answer, wanted) ==
  LET fit == {i \in DOMAIN answer :
                answer[i].allowed /\ answer[i].id > 0 /\ answer[i].lang \in ToSet(Menu)}
      new == {i \in fit : \A j \in fit : j < i => answer[j].id # answer[i].id}
  IN {i \in new : Cardinality({j \in new : j < i /\ answer[j].lang = answer[i].lang})
                    < Quota(answer[i].lang, wanted)}

AddonTracks(answer, pref) ==
  LET wanted == IF pref \in {"", "off"} THEN "en" ELSE pref
      places == Select([i \in DOMAIN answer |-> i], WithinQuota(answer, wanted))
      listed == ByMenu(Chosen(answer, places), wanted)
  IN [n \in DOMAIN listed |-> Found("addon", listed[n])]
-----------------------------------------------------------------------------
GoTo(c, pc) == asker' = [asker EXCEPT ![c].pc = pc]
FreeProbe(c) == prober' = IF prober = c THEN NoOne ELSE prober
FreeText(c) == writer' = [k \in TextKeys |-> IF writer[k] = c THEN NoOne ELSE writer[k]]
AtText(c) == asker[c].want.key

\* media_tracks_handler, build_resolved_response, the tracks of an embed
\* that has none (attach_external_subtitle_tracks_to_payload), and the
\* handlers of subtitles.
StartMedia(c) ==
  /\ asker[c].pc = "absent"
  /\ \E q \in Requests :
       asker' = [asker EXCEPT ![c] =
                  [pc |-> CASE q.what = "text" -> "look" [] q.what = "embed" -> "search"
                            [] OTHER -> "probe",
                   want |-> q, began |-> content, since |-> tick, probed |-> 0,
                   subs |-> << >>, text |-> NoText]]
  /\ UNCHANGED <<tick, content, until, probeRow, texts, found, prober, writer>>

\* Mutant: a row is good while it is there.
RowAsIs == probeRow

\* get_media_probe_cache: a row that is too old goes.
RowOfNow ==
  IF probeRow # NoProbe /\ probeRow.at + ProbeFor > tick THEN probeRow ELSE NoProbe

AfterProbe(c) == IF asker[c].want.what = "text" THEN "retry" ELSE "search"

\* cached_probe, before the lock and under it.
LookAtProbe(c) ==
  /\ asker[c].pc \in {"probe", "probe again"} /\ probeRow' = RowOfNow
  /\ IF RowOfNow # NoProbe
     THEN /\ asker' = [asker EXCEPT ![c].pc = AfterProbe(c), ![c].probed = probeRow.of]
          /\ FreeProbe(c)
     ELSE /\ GoTo(c, IF asker[c].pc = "probe" THEN "probe wait" ELSE "probing")
          /\ UNCHANGED prober
  /\ UNCHANGED <<tick, content, until, texts, found, writer>>

TakeProbe(c) ==
  /\ asker[c].pc = "probe wait" /\ prober = NoOne
  /\ prober' = c /\ GoTo(c, "probe again")
  /\ UNCHANGED <<tick, content, until, probeRow, texts, found, writer>>

Probe(c) ==
  /\ asker[c].pc = "probing"
  /\ asker' = [asker EXCEPT ![c].pc = "probe store", ![c].probed = content]
  /\ UNCHANGED <<tick, content, until, probeRow, texts, found, prober, writer>>

StoreProbe(c) ==
  /\ asker[c].pc = "probe store"
  /\ probeRow' = [of |-> asker[c].probed, at |-> tick]
  /\ GoTo(c, AfterProbe(c)) /\ FreeProbe(c)
  /\ UNCHANGED <<tick, content, until, texts, found, writer>>

\* ffprobe fails, or the database.  The handler of the tracks answers with
\* nothing, a resolve goes on without, and a subtitle is empty.
FfprobeFails(c) ==
  /\ asker[c].pc \in {"probe", "probe again", "probing", "probe store"}
  /\ asker' = [asker EXCEPT ![c].probed = 0,
                          ![c].pc = CASE asker[c].want.what = "resolve" -> "search"
                                      [] asker[c].want.what = "tracks" -> "nothing"
                                      [] OTHER -> "served"]
  /\ FreeProbe(c) /\ FreeText(c)
  /\ UNCHANGED <<tick, content, until, probeRow, texts, found>>

\* The key of the database's search comes first; it finds nothing if it fails.
SearchOpen(c) ==
  /\ asker[c].pc = "search"
  /\ \E answer \in Ranked :
       asker' = [asker EXCEPT ![c].subs = OpenTracks(answer),
                            ![c].pc = IF OpenTracks(answer) = << >> THEN "addon" ELSE "chosen"]
  /\ UNCHANGED <<tick, content, until, probeRow, texts, found, prober, writer>>

SearchAddon(c) ==
  LET pref == asker[c].want.subs
      kept == found[pref]
  IN /\ asker[c].pc = "addon"
     /\ \/ /\ kept.at >= 0 /\ tick - kept.at < SearchFor
           /\ asker' = [asker EXCEPT ![c].subs = kept.tracks, ![c].pc = "chosen"]
           /\ UNCHANGED found
        \/ /\ ~(kept.at >= 0 /\ tick - kept.at < SearchFor)
           /\ \E answer \in Addon :
                /\ found' = [found EXCEPT ![pref] = [at |-> tick,
                                                     tracks |-> AddonTracks(answer, pref)]]
                /\ asker' = [asker EXCEPT ![c].subs = AddonTracks(answer, pref),
                                        ![c].pc = "chosen"]
        \/ /\ ~(kept.at >= 0 /\ tick - kept.at < SearchFor)
           /\ GoTo(c, "chosen") /\ UNCHANGED found
     /\ UNCHANGED <<tick, content, until, probeRow, texts, prober, writer>>

\* What the call answers, out of what it has gathered.
TracksOf(c) ==
  LET probe == IF asker[c].probed = 0 THEN NoTracks ELSE Parsed(asker[c].probed)
      beside == IF asker[c].want.what = "tracks" THEN Merged(Sidecars, probe.subs)
                ELSE probe.subs
  IN [audio |-> probe.audio,
      subs |-> IF asker[c].want.what = "embed" THEN asker[c].subs
               ELSE IF asker[c].subs = << >> THEN beside ELSE Merged(asker[c].subs, beside)]

SubtitleOf(c) == ChooseSubtitle(TracksOf(c).subs, asker[c].want.subs)

\* A resolve names a track only if it was asked to, or if the one that the
\* browser would take is in a codec that it cannot play.
AudioOf(c) ==
  LET tracks == TracksOf(c).audio
      browser == FirstOf(tracks, <<{t \in MediaTrack : t.default}, MediaTrack>>)
  IN IF \/ asker[c].want.what = "tracks" \/ asker[c].want.audio # "auto"
        \/ tracks # << >> /\ ~browser.plays
     THEN ChooseAudio(tracks, asker[c].want.audio) ELSE NoTrack
-----------------------------------------------------------------------------
\* Mutant: the age alone decides.
TextIsYoung(k) == texts[k].at >= 0 /\ tick - texts[k].at <= TextFor

\* file_is_fresh_against_source; what comes from outside has no source.
TextIsFresh(k) ==
  /\ texts[k].at >= 0 /\ tick - texts[k].at <= TextFor
  /\ k = Outside \/ ~texts[k].older

\* create_subtitle_vtt_response, create_external_subtitle_vtt_response
LookAtText(c) ==
  /\ asker[c].pc \in {"look", "look again"}
  /\ GoTo(c, IF TextIsFresh(AtText(c)) THEN "read"
             ELSE IF asker[c].pc = "look" THEN "wait" ELSE "extract")
  /\ UNCHANGED <<tick, content, until, probeRow, texts, found, prober, writer>>

TakeText(c) ==
  /\ asker[c].pc = "wait" /\ writer[AtText(c)] = NoOne
  /\ writer' = [writer EXCEPT ![AtText(c)] = c] /\ GoTo(c, "look again")
  /\ UNCHANGED <<tick, content, until, probeRow, texts, found, prober>>

\* serve_text_file: it fails if the sweep has been here.
ReadText(c) ==
  LET text == texts[AtText(c)] IN
  /\ asker[c].pc = "read" /\ FreeText(c)
  /\ asker' = [asker EXCEPT ![c].text = text,
                          ![c].pc = IF text.at < 0 THEN "nothing" ELSE "served"]
  /\ UNCHANGED <<tick, content, until, probeRow, texts, found, prober>>

Extracted(c, stream, by) ==
  asker' = [asker EXCEPT ![c].pc = "write",
                       ![c].text = [NoText EXCEPT !.of = content, !.stream = stream,
                                                  !.by = by]]

\* fetch_external_subtitle_payload, or ffmpeg with the index of the stream.
Extract(c) ==
  /\ asker[c].pc = "extract"
  /\ AtText(c) # Outside =>
       \E i \in DOMAIN Contents[content] : Contents[content][i].index = AtText(c)
  /\ Extracted(c, AtText(c), 0)
  /\ UNCHANGED <<tick, content, until, probeRow, texts, found, prober, writer>>

\* An outside subtitle that cannot be fetched is empty, and not kept.
ExtractFails(c) ==
  /\ asker[c].pc = "extract"
  /\ IF AtText(c) = Outside THEN GoTo(c, "served") /\ FreeText(c)
     ELSE GoTo(c, "probe") /\ UNCHANGED writer
  /\ UNCHANGED <<tick, content, until, probeRow, texts, found, prober>>

\* Mutant: the position among the subtitles that are text.
OrdinalAmongTexts(c) ==
  LET subs == IF asker[c].probed = 0 THEN << >>
              ELSE Select(Parsed(asker[c].probed).subs, {t \in MediaTrack : t.plays})
  IN {i \in DOMAIN subs : subs[i].index = <<"inner", AtText(c)>>}

\* Once more, with the position that the stream has in the probe.
OrdinalOf(c) ==
  LET subs == IF asker[c].probed = 0 THEN << >> ELSE Parsed(asker[c].probed).subs
  IN {i \in DOMAIN subs : subs[i].index = <<"inner", AtText(c)>>}

Retry(c) ==
  /\ asker[c].pc = "retry"
  /\ \/ \E i \in OrdinalOf(c) :
          /\ i \in DOMAIN Parsed(content).subs
          /\ Extracted(c, Parsed(content).subs[i].index[2], asker[c].probed)
          /\ UNCHANGED writer
     \/ GoTo(c, "served") /\ FreeText(c)
  /\ UNCHANGED <<tick, content, until, probeRow, texts, found, prober>>

Laid(c, whole) ==
  [asker[c].text EXCEPT !.whole = whole, !.at = tick, !.late = asker[c].text.of # content]

\* tokio::fs::write: the file is emptied, and then filled.
OpenText(c) ==
  /\ asker[c].pc \in {"write", "write alone"}
  /\ texts' = [texts EXCEPT ![AtText(c)] = Laid(c, FALSE)]
  /\ GoTo(c, IF asker[c].pc = "write" THEN "fill" ELSE "fill alone")
  /\ UNCHANGED <<tick, content, until, probeRow, found, prober, writer>>

Written(c) ==
  IF asker[c].pc \in {"write", "fill"}
  THEN GoTo(c, "served") /\ FreeText(c)
  ELSE asker' = [asker EXCEPT ![c] = Idle] /\ UNCHANGED writer

FillText(c) ==
  /\ asker[c].pc \in {"fill", "fill alone"} /\ Written(c)
  /\ texts' = [texts EXCEPT ![AtText(c)] = Laid(c, TRUE)]
  /\ UNCHANGED <<tick, content, until, probeRow, found, prober>>

\* A write that fails is no matter to the call, and what there is stays.
WriteFails(c) ==
  /\ asker[c].pc \in {"write", "fill", "write alone", "fill alone"} /\ Written(c)
  /\ UNCHANGED <<tick, content, until, probeRow, texts, found, prober>>
-----------------------------------------------------------------------------
\* The answer is out, or the client goes: the locks are free, but a write
\* goes on.
CallLeaves(c) ==
  /\ asker[c].pc \notin {"absent", "write alone", "fill alone"}
  /\ FreeProbe(c) /\ FreeText(c)
  /\ IF asker[c].pc \in {"write", "fill"}
     THEN GoTo(c, IF asker[c].pc = "write" THEN "write alone" ELSE "fill alone")
     ELSE asker' = [asker EXCEPT ![c] = Idle]
  /\ UNCHANGED <<tick, content, until, probeRow, texts, found>>

\* The file is replaced, by a later download or an upload.
Replace ==
  /\ content < Len(Contents) /\ content' = content + 1
  /\ until' = [until EXCEPT ![content] = tick]
  /\ texts' = [k \in TextKeys |-> [texts[k] EXCEPT !.older = texts[k].at >= 0]]
  /\ UNCHANGED <<tick, probeRow, found, prober, writer, asker>>

\* prune_hls_cache_files
TextIsSwept(k) ==
  /\ texts[k].at >= 0 /\ texts' = [texts EXCEPT ![k] = NoText]
  /\ UNCHANGED <<tick, content, until, probeRow, found, prober, writer, asker>>

ProcessEnds ==
  /\ asker' = [c \in Asker |-> Idle] /\ prober' = NoOne
  /\ writer' = [k \in TextKeys |-> NoOne]
  /\ found' = [p \in Prefs |-> [at |-> -1, tracks |-> << >>]]
  /\ UNCHANGED <<tick, content, until, probeRow, texts>>

\* No call takes so long.
Tick ==
  /\ \A c \in Asker : asker[c].pc # "absent" => asker[c].since = tick
  /\ tick < LastTick /\ tick' = tick + 1
  /\ UNCHANGED <<content, until, probeRow, texts, found, prober, writer, asker>>

MediaNext ==
  \/ \E c \in Asker :
       \/ StartMedia(c) \/ LookAtProbe(c) \/ TakeProbe(c) \/ Probe(c) \/ StoreProbe(c)
       \/ FfprobeFails(c) \/ SearchOpen(c) \/ SearchAddon(c) \/ LookAtText(c)
       \/ TakeText(c) \/ ReadText(c) \/ Extract(c) \/ ExtractFails(c) \/ Retry(c)
       \/ OpenText(c) \/ FillText(c) \/ WriteFails(c) \/ CallLeaves(c)
  \/ \E k \in TextKeys : TextIsSwept(k)
  \/ Replace \/ ProcessEnds \/ Tick

MediaSpec == MediaInit /\ [][MediaNext]_mediaVars
-----------------------------------------------------------------------------
MediaTypeOK ==
  /\ tick \in 0 .. LastTick /\ content \in DOMAIN Contents
  /\ prober \in Asker \cup {NoOne} /\ writer \in [TextKeys -> Asker \cup {NoOne}]
  /\ probeRow.of \in 0 .. content /\ until \in [DOMAIN Contents -> -1 .. tick]
  /\ texts = [k \in TextKeys |-> texts[k]] /\ found = [p \in Prefs |-> found[p]]
  /\ asker = [c \in Asker |-> asker[c]]

\* Tracks are of something that the file held not longer ago than a row is
\* kept for.  (A row is dated when it is stored, a tick later at most.)
TracksRecent ==
  \A c \in Asker :
    asker[c].pc = "chosen" /\ asker[c].probed # 0 =>
      \/ asker[c].probed >= asker[c].began
      \/ until[asker[c].probed] + ProbeFor >= asker[c].since

\* A track that is chosen is on the list, alone under its index.  The
\* language that is asked for is found if anything on the list has it; only
\* then is a forced subtitle or a dub taken while there is another.
ChoiceRight ==
  \A c \in Asker : asker[c].pc = "chosen" =>
    LET subs == ToSet(TracksOf(c).subs)
        audio == ToSet(TracksOf(c).audio)
        want == asker[c].want
        s == SubtitleOf(c)
        a == AudioOf(c)
        speaks == {t \in subs : t.plays /\ t.lang = want.subs}
    IN /\ s # NoTrack => /\ s.plays /\ want.subs \notin {"", "off"}
                         /\ Cardinality({t \in subs : t.index = s.index}) = 1
                         /\ speaks # {} => s \in speaks
                         /\ s.tag = "forced" /\ s \in speaks =>
                              \A t \in speaks : t.tag = "forced"
       /\ s = NoTrack /\ want.subs \notin {"", "off"} => \A t \in subs : ~t.plays
       /\ a # NoTrack =>
            /\ a \in audio
            /\ want.audio # "auto" /\ (\E t \in audio : t.lang = want.audio) =>
                 a.lang = want.audio
            /\ Dubbed(a) => \/ want.audio \in {a.lang, a.tag}
                            \/ \A t \in audio : Dubbed(t)

\* The text is of the stream that was asked for, unless its position was
\* taken from a probe of what the file held before; and of what the file held when
\* the call began or later, unless the text was stored after its file had
\* been replaced.
TextRight ==
  \A c \in Asker :
    LET text == asker[c].text IN
    asker[c].pc = "served" /\ text.of # 0 /\ AtText(c) # Outside =>
      /\ text.of >= asker[c].began \/ text.late
      /\ text.stream = AtText(c) \/ text.by \notin {0, text.of}

(***************************************************************************)
(* MediaRight: whatever replacements, failures, dropped calls and restarts *)
(* come between the steps of a call, its tracks are recent, the choice     *)
(* among them is right, and a subtitle is that of the stream and the file  *)
(* that it was asked of.                                                   *)
(***************************************************************************)
MediaRight == MediaTypeOK /\ TracksRecent /\ ChoiceRight /\ TextRight
=============================================================================
