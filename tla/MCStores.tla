------------------------------ MODULE MCStores ------------------------------
(***************************************************************************)
(* The components whose properties are about what is stored, for one run   *)
(* of TLC.  They share no variable, and no property is about two of them:  *)
(* in a behaviour the one in focus moves, and the others stay where they   *)
(* begin.                                                                  *)
(***************************************************************************)
EXTENDS PlaybackSessions, LocalLibrary, GallerySaves, WatchHistory,
        MediaTracks, TLC

CONSTANTS c1, c2, e1, e2, m1

VARIABLE focus  \* the component that moves in this behaviour

MCSeries == [e \in {e1, e2} |-> "show"]
MCJobOf == [i \in {e1, e2, m1} |-> IF i = m1 THEN "gallery:movie" ELSE "gallery:tv"]

\* Calls differ in nothing but their names, nor do episodes.
MCSymmetry == Permutations({c1, c2}) \cup Permutations({e1, e2})

\* What a request still needs to know.
JobView(j) ==
  CASE j.pc = "idle" -> <<>>
    [] j.pc = "wipe" -> <<j.title>>
    [] j.pc = "list" -> <<j.pc, j.mine>>
    [] j.pc = "merge" -> <<j.pc, j.mine, j.held, j.alone>>
    [] OTHER -> <<j>>
HistoryView ==
  <<progress, removed, cardVars, listVars, [q \in Request |-> JobView(job[q])]>>
-----------------------------------------------------------------------------
\* Calls on a title's rows: how many there are in each state is what counts.
Crowd(f) ==
  LET states == {f[x] : x \in DOMAIN f} IN
  [s \in states |-> Cardinality({x \in DOMAIN f : f[x] = s})]

(***************************************************************************)
(* Bounds: one call at a time looks at several rows; where a row of an     *)
(* earlier version was, none looks at rows while two keys are in use.      *)
(***************************************************************************)
OneLooks == Cardinality({a \in Access : access[a].rest # <<>>}) <= 1
InUse ==
  {k \in Session : row[k] # NoRow \/ \E a \in Access : k \in {access[a].key, access[a].own}}
OneInUse ==
  Cardinality(InUse) <= 1 \/ \A a \in Access : access[a].pc \notin {"check", "mark"}
SessionStep == SessionNext /\ OneLooks' /\ (focus = "legacy" => OneInUse')
-----------------------------------------------------------------------------
MCStream(index, kind, lang, tag, default, plays) ==
  [index |-> index, kind |-> kind, lang |-> lang, tag |-> tag,
   default |-> default, plays |-> plays]
MCContents ==
  <<<<MCStream(0, "video", "", "", TRUE, TRUE),
      MCStream(1, "audio", "fr", "dubbed", TRUE, FALSE),
      MCStream(2, "audio", "en", "", FALSE, TRUE),
      MCStream(3, "subtitle", "en", "forced", TRUE, FALSE),
      MCStream(4, "subtitle", "en", "forced", FALSE, TRUE),
      MCStream(5, "subtitle", "fr", "", FALSE, TRUE)>>,
    <<MCStream(-1, "audio", "es", "", TRUE, TRUE),
      MCStream(1, "audio", "en", "original", FALSE, TRUE),
      MCStream(2, "audio", "en", "fr", TRUE, TRUE),
      MCStream(4, "subtitle", "fr", "", TRUE, FALSE),
      MCStream(5, "subtitle", "en", "", FALSE, TRUE)>>>>
MCAsk(what, key, audio) ==
  [what |-> what, key |-> key, audio |-> audio, subs |-> "en"]
MCRequests ==
  {MCAsk("tracks", 4, "auto"), MCAsk("resolve", 4, "fr"),
   MCAsk("embed", 4, "auto"), MCAsk("text", 4, "auto"),
   MCAsk("text", -1, "auto")}
MCSidecars ==
  <<[index |-> <<"beside", 0>>, lang |-> "en", tag |-> "", default |-> FALSE,
     plays |-> TRUE, external |-> TRUE]>>
MCItem(id, lang, tag, score) ==
  [id |-> id, lang |-> lang, tag |-> tag, score |-> score, allowed |-> TRUE]
MCRanked ==
  {<<>>, <<MCItem(1, "en", "forced", 3), MCItem(2, "en", "", 5),
           MCItem(0, "en", "", 9), MCItem(1, "en", "forced", 3)>>}
MCAddon ==
  {<<MCItem(1, "fr", "", 0), MCItem(2, "en", "", 0), MCItem(2, "fr", "", 0),
     MCItem(3, "en", "", 0), MCItem(4, "en", "", 0), MCItem(5, "fr", "", 0),
     MCItem(6, "xx", "", 0)>>}
MCMenu == <<"en", "fr">>
MCWord == {"", "en", "fr", "es", "xx", "dubbed", "original", "forced"}

Wanting(what) ==
  {a \in Asker : asker[a].pc # "absent" /\ asker[a].want.what \in what}

(***************************************************************************)
(* Bounds: texts and tracks are not asked for at once; a resolve, an       *)
(* embed's tracks and an external text have nobody beside them; there are  *)
(* no texts on the last tick; and a text is swept only while it is read.   *)
(***************************************************************************)
MediaBounds ==
  /\ Wanting({"text"}) = {} \/ Wanting({"tracks", "resolve", "embed"}) = {}
  /\ Wanting({"resolve", "embed"}) # {} =>
       Cardinality(Wanting({"resolve", "embed", "tracks"})) = 1
  /\ \A a, b \in Asker :
       asker[a].pc # "absent" /\ asker[a].want.key = Outside /\ b # a =>
         asker[b].pc = "absent"
  /\ tick = LastTick =>
       Wanting({"text"}) = {} /\ \A k \in TextKeys : texts[k] = NoText
Reading == {a \in Asker : asker[a].pc = "read"}
SweptInUse == \A k \in TextKeys : texts[k].at >= 0 /\ texts'[k].at = -1 => Reading # {}

\* Bound: a call that is over leaves before anything else happens.
Over == {a \in Asker : asker[a].pc \in {"chosen", "nothing", "served"}}
MediaStep ==
  IF Over = {} THEN MediaNext /\ MediaBounds' /\ SweptInUse
  ELSE \E a \in Over : CallLeaves(a)

\* What is too old to be used is as good as absent.
MediaView ==
  <<tick, content, until, RowOfNow,
    [k \in TextKeys |-> IF TextIsFresh(k) \/ Reading # {} THEN texts[k]
                    ELSE [NoText EXCEPT !.at = IF texts[k].at < 0 THEN -1 ELSE 0]],
    [p \in Prefs |-> IF found[p].at = tick THEN found[p] ELSE 0],
    prober, writer, asker>>
-----------------------------------------------------------------------------
storesVars == <<focus, vars, galleryVars, historyVars, sessionVars,
                mediaVars>>

\* Only what is in focus tells states apart.
MCView ==
  CASE focus = "library" -> <<focus, vars>>
    [] focus = "gallery" -> <<focus, galleryVars>>
    [] focus = "history" -> <<focus, HistoryView>>
    [] focus \in {"sessions", "legacy"} -> <<focus, row, Crowd(access), reports, lastPos, failed,
                               undone>>
    [] focus = "media" -> <<focus, MediaView>>

StoresInit ==
  /\ focus \in {"library", "gallery", "history", "sessions", "legacy", "media"}
  /\ Init
  /\ GalleryInit
  /\ HistoryInit
  /\ SessionInit
  /\ (focus = "legacy") = (row[Legacy] # NoRow)
  /\ MediaInit

StoresNext ==
  \/ /\ focus = "library" /\ Next
     /\ UNCHANGED <<focus, galleryVars, historyVars, sessionVars,
                    mediaVars>>
  \/ /\ focus = "gallery" /\ GalleryNext
     /\ UNCHANGED <<focus, vars, historyVars, sessionVars,
                    mediaVars>>
  \/ /\ focus = "history" /\ HistoryNext
     /\ UNCHANGED <<focus, vars, galleryVars, sessionVars,
                    mediaVars>>
  \/ /\ focus \in {"sessions", "legacy"} /\ SessionStep
     /\ UNCHANGED <<focus, vars, galleryVars, historyVars,
                    mediaVars>>
  \/ /\ focus = "media" /\ MediaStep
     /\ UNCHANGED <<focus, vars, galleryVars, historyVars, sessionVars>>

StoresSpec == StoresInit /\ [][StoresNext]_storesVars
=============================================================================
