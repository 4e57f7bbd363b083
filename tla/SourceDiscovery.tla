---------------------------- MODULE SourceDiscovery ----------------------------
(***************************************************************************)
(* resolver.rs: where the torrents of a title come from.  Torrentio is     *)
(* asked first; Torznab (by the title's id, then by its name) if that      *)
(* fails, has nothing that fits, or lacks the torrent the user has picked. *)
(* Answers are kept in the database: for a while they are used unasked,    *)
(* and for a while longer if their index fails.  list_sources shows what   *)
(* is found after the external embeds; resolve_movie and resolve_tv try    *)
(* it, and are followed here from where the embeds and the stored sessions *)
(* have not helped.                                                        *)
(*                                                                         *)
(* A stream is its torrent and whether it fits the filters; an answer is   *)
(* a list of them, best first, or Unreadable.  Which of several that are   *)
(* tried works is the subject of DebridResolve.                            *)
(***************************************************************************)
EXTENDS Integers, FiniteSetsExt, SequencesExt, Lists

CONSTANTS
  Seeker,       \* requests
  Torrents,     \* info hashes
  Anything,     \* no torrent is picked
  Answers,      \* what each index may say
  Unreadable,   \* an answer that does not parse
  FreshFor, KeptFor, \* per index: how long an answer is used unasked, and kept
  ListLimit, TryLimit, \* how many are shown, and tried
  SeekPermits,  \* max_concurrent_external_resolves
  LastHour      \* bound: the clock stops there

Index == DOMAIN Answers
FoundStream == [hash : Torrents, fits : BOOLEAN]

ASSUME DiscoveryAssumption ==
  /\ Index = {"torrentio", "torznab", "search"} /\ Anything \notin Torrents
  /\ \A i \in Index : \A answer \in Answers[i] :
       answer = Unreadable \/ answer \in Seq(FoundStream)
  /\ \A i \in Index : /\ FreshFor[i] \in Nat \ {0} /\ KeptFor[i] \in Nat
                       /\ FreshFor[i] <= KeptFor[i]
  /\ {ListLimit, TryLimit, SeekPermits} \subseteq Nat \ {0} /\ LastHour \in Nat
  /\ IsFiniteSet(Seeker)

VARIABLES
  hour,    \* the clock
  kept,    \* resolved_stream_cache
  moved,   \* since a seeker came, an index has failed it, or what is kept has
           \* changed but for what it has itself been answered
  seeker   \* the requests

discoveryVars == <<hour, kept, moved, seeker>>

NothingKept == [answer |-> << >>, at |-> -1]
\* No answer; no index says this.
Failed == <<[hash |-> Anything, fits |-> FALSE]>>

\* The stages of a request: Torrentio; Torznab, because what was found is not
\* enough (fill), Torrentio has failed (instead), the picked torrent is missing
\* (pin), or nothing else has worked (last).
SeekStages == {"first", "fill", "instead", "pin", "last"}

NotSeeking ==
  [pc |-> "rest", does |-> "list", pick |-> Anything, embeds |-> FALSE,
   stage |-> "first", index |-> "torrentio", old |-> NothingKept,
   found |-> << >>, byId |-> << >>, why |-> {}, tried |-> << >>, shown |-> << >>,
   after |-> FALSE, asked |-> [i \in Index |-> 0]]

DiscoveryTypeOK ==
  /\ hour \in 0 .. LastHour /\ moved \in [Seeker -> BOOLEAN]
  /\ kept = [i \in Index |-> kept[i]] /\ seeker = [s \in Seeker |-> seeker[s]]
  /\ \A i \in Index : kept[i].at \in -1 .. hour
  /\ \A s \in Seeker :
       /\ seeker[s].pc \in {"rest", "look", "ask", "try", "shown", "played",
                            "refused"}
       /\ seeker[s].stage \in SeekStages /\ seeker[s].index \in Index

DiscoveryInit ==
  /\ hour = 0 /\ kept = [i \in Index |-> NothingKept]
  /\ moved = [s \in Seeker |-> FALSE]
  /\ seeker = [s \in Seeker |-> NotSeeking]
-----------------------------------------------------------------------------
HashesIn(streams) == {stream.hash : stream \in ToSet(streams)}
Fits(streams) == Select(streams, {stream \in ToSet(streams) : stream.fits})

\* select_top_movie_candidates, select_top_episode_candidates: what fits, the
\* picked torrent before all others.
TopCandidates(streams, pick, limit) ==
  LET fitting == Fits(streams)
      picked == {stream \in ToSet(fitting) : stream.hash = pick}
      list == Select(fitting, picked) \o Select(fitting, ToSet(fitting) \ picked)
  IN SubSeq(list, 1, IF Len(list) < limit THEN Len(list) ELSE limit)

\* stream_list_contains_hash
Missing(streams, pick) == pick # Anything /\ pick \notin HashesIn(streams)

\* Those who have the permit of an external resolve.
Seeking == {s \in Seeker : seeker[s].pc \in {"look", "ask", "try"}}

\* The request goes on to an index.
GoAsk(r, stage, index) ==
  [r EXCEPT !.pc = "look", !.stage = stage, !.index = index,
            !.old = NothingKept]

\* Without an id of the title, Torznab is only asked by name.
GoTorznab(r, stage) == GoAsk([r EXCEPT !.byId = << >>], stage, "torznab")

Show(r, sources) ==
  [NotSeeking EXCEPT !.pc = "shown", !.shown = sources, !.asked = r.asked]
Refuse(r, why) == [r EXCEPT !.pc = "refused", !.why = @ \cup {why}]
Try(r, streams) ==
  [r EXCEPT !.pc = "try", !.old = NothingKept,
            !.tried = Append(@, TopCandidates(streams, r.pick, TryLimit))]
-----------------------------------------------------------------------------
(***************************************************************************)
(* What a request does with an answer.  streams is Failed if there is none.*)
(***************************************************************************)
\* Of list_sources, Torrentio's.
ListTorrentio(r, streams) ==
  LET sources == TopCandidates(streams, r.pick, ListLimit)
      noted == [r EXCEPT !.found = streams]
  IN IF streams = Failed
     THEN GoTorznab([r EXCEPT !.why = @ \cup {"torrentio"}], "instead")
     ELSE IF sources = << >> \/ Missing(streams, r.pick)
     THEN GoTorznab(noted, "fill")
     ELSE Show(noted, sources)

\* Of list_sources, Torznab's: without the picked torrent it is of no use.
ListTorznab(r, streams) ==
  LET found == IF streams = Failed THEN << >> ELSE streams
      sources == TopCandidates(found, r.pick, ListLimit)
      before == TopCandidates(r.found, r.pick, ListLimit)
  IN IF streams = Failed /\ ~r.embeds THEN Refuse(r, "torznab")
     ELSE IF r.stage = "instead"
     THEN IF sources = << >> /\ ~r.embeds THEN Refuse(r, "nothing")
          ELSE Show(r, sources)
     ELSE IF sources # << >> /\ (Missing(r.found, r.pick) => r.pick \in HashesIn(found))
     THEN Show(r, sources) ELSE Show(r, before)

\* Of resolve_*_inner: what comes after the search for the picked torrent.
TryFound(r) ==
  IF TopCandidates(r.found, r.pick, TryLimit) # << >>
  THEN Try([r EXCEPT !.stage = "first"], r.found)
  ELSE GoTorznab(r, "last")

\* Mutant: the picked torrent is looked for when all else has failed.
TorrentioAlone(r, streams) ==
  IF streams = Failed
  THEN GoTorznab([r EXCEPT !.why = @ \cup {"torrentio"}], "last")
  ELSE TryFound([r EXCEPT !.found = streams])

\* Of resolve_*_inner, Torrentio's.
ResolveTorrentio(r, streams) ==
  LET noted == [r EXCEPT !.found = streams] IN
  IF streams = Failed
  THEN GoTorznab([r EXCEPT !.why = @ \cup {"torrentio"}], "last")
  ELSE IF Missing(streams, r.pick) THEN GoTorznab(noted, "pin")
  ELSE TryFound(noted)

\* Of resolve_*_inner, Torznab's: its failure ends the request, whatever else
\* there is to be tried.
ResolveTorznab(r, streams) ==
  IF streams = Failed THEN Refuse(r, "torznab")
  ELSE IF r.stage = "pin"
  THEN IF Missing(streams, r.pick) THEN TryFound(r) ELSE Try(r, streams)
  ELSE IF TopCandidates(streams, r.pick, TryLimit) = << >> THEN Refuse(r, "nothing")
  ELSE Try(r, streams)

\* fetch_torznab_*_streams: by id, then by name if that has nothing; if both
\* fail, or one fails and the other has nothing, it is a failure.
Torznab(r, streams) ==
  LET Goes(result) == IF r.does = "list" THEN ListTorznab(r, result)
                      ELSE ResolveTorznab(r, result)
  IN CASE r.index = "torznab" /\ streams \notin {Failed, << >>} -> Goes(streams)
       [] r.index = "torznab" /\ streams \in {Failed, << >>} ->
            GoAsk([r EXCEPT !.byId = streams], r.stage, "search")
       [] r.index = "search" /\ streams = << >> -> Goes(r.byId)
       [] r.index = "search" /\ streams # << >> -> Goes(streams)

\* The fetch has an answer, or none.
Receive(r, answer) ==
  LET streams == IF answer = Unreadable THEN Failed ELSE answer IN
  IF r.index # "torrentio" THEN Torznab(r, streams)
  ELSE IF r.does = "list" THEN ListTorrentio(r, streams)
  ELSE ResolveTorrentio(r, streams)

\* The seekers for whom it is not as it was.
MovedFor(seekers) ==
  moved' = [s \in Seeker |-> moved[s] \/ (s \in seekers /\ seeker[s].pc # "rest")]
-----------------------------------------------------------------------------
(***************************************************************************)
(* list_sources and resolve_*, up to the permit.  A user without a debrid  *)
(* account is shown the embeds only; so is one who finds no permit.        *)
(***************************************************************************)
Begin(r) ==
  IF Cardinality(Seeking) < SeekPermits THEN GoAsk(r, "first", "torrentio")
  ELSE IF r.does = "list" /\ r.embeds THEN Show(r, << >>)
  ELSE Refuse(r, "permit")

AskSources(s) ==
  /\ seeker[s].pc = "rest"
  /\ \E does \in {"list", "resolve"}, pick \in Torrents \cup {Anything},
        embeds, debrid \in BOOLEAN :
       LET r == [NotSeeking EXCEPT !.does = does, !.pick = pick, !.embeds = embeds] IN
       /\ embeds => does = "list"
       /\ seeker' = [seeker EXCEPT
                       ![s] = CASE debrid -> Begin(r)
                                [] ~debrid /\ does = "list" -> Show(r, << >>)
                                [] ~debrid /\ does = "resolve" -> Refuse(r, "debrid")]
  /\ UNCHANGED <<hour, kept, moved>>

\* The user picks one of the torrents that are shown.
PickShown(s) ==
  /\ seeker[s].pc = "shown" /\ seeker[s].shown # << >>
  /\ \E pick \in HashesIn(seeker[s].shown) :
       seeker' = [seeker EXCEPT
                    ![s] = Begin([NotSeeking EXCEPT
                                    !.does = "resolve", !.pick = pick,
                                    !.after = TRUE, !.asked = seeker[s].asked])]
  /\ UNCHANGED <<hour, kept, moved>>

Expired(i) == kept[i] # NothingKept /\ kept[i].at + KeptFor[i] <= hour
UsedUnasked(i) == kept[i] # NothingKept /\ hour < kept[i].at + FreshFor[i]

\* fetch_torrentio_streams, fetch_torznab_streams: get_resolved_stream_cache
\* drops what is too old.
LookKept(s) ==
  LET r == seeker[s]
      i == r.index IN
  /\ seeker[s].pc = "look"
  /\ kept' = IF Expired(i) THEN [kept EXCEPT ![i] = NothingKept] ELSE kept
  /\ seeker' = [seeker EXCEPT
                  ![s] = IF UsedUnasked(i) THEN Receive(r, kept[i].answer)
                         ELSE [r EXCEPT !.pc = "ask", !.old = kept'[i],
                                        !.asked[i] = r.asked[i] + 1]]
  /\ UNCHANGED <<hour, moved>>

\* Mutant: what cannot be read is not kept.
KeepReadable(i, answer) ==
  IF answer = Unreadable THEN kept
  ELSE [kept EXCEPT ![i] = [answer |-> answer, at |-> hour]]

\* set_resolved_stream_cache, before anyone has read the answer.
Keep(i, answer) == [kept EXCEPT ![i] = [answer |-> answer, at |-> hour]]

\* The body has arrived.
IndexAnswers(s) ==
  LET i == seeker[s].index IN
  /\ seeker[s].pc = "ask"
  /\ \E answer \in Answers[i] :
       /\ kept' = Keep(i, answer)
       /\ seeker' = [seeker EXCEPT ![s] = Receive(@, answer)]
  /\ MovedFor(Seeker \ {s})
  /\ UNCHANGED hour

\* An error status, or no answer in time (of Torrentio's second attempt, if it
\* has failed soon): what was kept is good enough, if it
\* is not too old by now.
IndexFails(s) ==
  LET r == seeker[s]
      good == r.old # NothingKept /\ hour < r.old.at + KeptFor[r.index]
  IN /\ r.pc = "ask"
     /\ seeker' = [seeker EXCEPT
                     ![s] = Receive(@, IF good THEN r.old.answer ELSE Unreadable)]
     /\ MovedFor({s})
     /\ UNCHANGED <<hour, kept>>

\* A body that breaks off, is not JSON, or, from Torznab, is too large: what was
\* kept is not looked at.
BodyFails(s) ==
  /\ seeker[s].pc = "ask"
  /\ seeker' = [seeker EXCEPT ![s] = Receive(@, Unreadable)]
  /\ MovedFor({s})
  /\ UNCHANGED <<hour, kept>>

\* resolve_*_candidates: one of them works, or none does.
CandidateWorks(s) ==
  /\ seeker[s].pc = "try" /\ Last(seeker[s].tried) # << >>
  /\ seeker' = [seeker EXCEPT ![s].pc = "played"]
  /\ UNCHANGED <<hour, kept, moved>>

CandidatesFail(s) ==
  /\ seeker[s].pc = "try"
  /\ seeker' = [seeker EXCEPT
                  ![s] = CASE @.stage = "pin" -> TryFound(@)
                           [] @.stage = "first" -> GoTorznab(@, "last")
                           [] @.stage = "last" -> Refuse(@, "candidates")]
  /\ UNCHANGED <<hour, kept, moved>>

\* The answer is out, or the client goes.
SeekerLeaves(s) ==
  /\ seeker[s].pc # "rest"
  /\ seeker' = [seeker EXCEPT ![s] = NotSeeking]
  /\ moved' = [moved EXCEPT ![s] = FALSE]
  /\ UNCHANGED <<hour, kept>>

\* trim_table, and the sweep of rows that are too old.
RowGoes(i) ==
  /\ kept[i] # NothingKept
  /\ kept' = [kept EXCEPT ![i] = NothingKept]
  /\ MovedFor(Seeker)
  /\ UNCHANGED <<hour, seeker>>

\* An answer that ages is another one.
HourPasses ==
  /\ hour < LastHour /\ hour' = hour + 1
  /\ MovedFor(Seeker)
  /\ UNCHANGED <<kept, seeker>>

DiscoveryNext ==
  \/ \E s \in Seeker :
       \/ AskSources(s) \/ PickShown(s) \/ LookKept(s) \/ IndexAnswers(s)
       \/ IndexFails(s) \/ BodyFails(s)
       \/ CandidateWorks(s) \/ CandidatesFail(s) \/ SeekerLeaves(s)
  \/ \E i \in Index : RowGoes(i)
  \/ HourPasses

DiscoverySpec == DiscoveryInit /\ [][DiscoveryNext]_discoveryVars
-----------------------------------------------------------------------------
\* A torrent that was shown and is picked is tried before any other, unless
\* Torrentio lists it as one that does not fit.
PickedTried ==
  \A s \in Seeker :
    LET r == seeker[s] IN
    r.after /\ ~moved[s] /\ r.pc \in {"try", "played", "refused"} =>
      \/ "permit" \in r.why
      \/ r.pick \in HashesIn(r.found) \ HashesIn(Fits(r.found))
      \/ r.tried # << >> /\ Head(Head(r.tried)).hash = r.pick

\* What Torrentio has found is shown, or tried, unless the picked torrent is
\* missing and Torznab fails; a list is only refused if there is no embed.
FoundUsed ==
  \A s \in Seeker :
    LET r == seeker[s]
        fits == Fits(r.found) # << >>
        lost == Missing(r.found, r.pick) /\ "torznab" \in r.why
    IN r.pc = "refused" =>
         IF r.does = "list" THEN ~r.embeds /\ (fits => lost)
         ELSE fits => lost \/ TopCandidates(r.found, r.pick, TryLimit) \in ToSet(r.tried)

\* An index is asked once, for the list and for what is picked from it, even
\* if its answer cannot be read.
AskedOnce ==
  \A s \in Seeker : ~moved[s] => \A i \in Index : seeker[s].asked[i] <= 1

\* Torrentio's are tried at most once, Torznab's at most twice.
TriesBounded == \A s \in Seeker : Len(seeker[s].tried) <= 3

(***************************************************************************)
(* DiscoverySound: whatever the indexes answer, and whoever's answers are  *)
(* kept, a source that is shown can be played, what is found is used, the  *)
(* indexes are spared, and external resolves stay within their permits.    *)
(***************************************************************************)
DiscoverySound ==
  /\ DiscoveryTypeOK /\ PickedTried /\ FoundUsed /\ AskedOnce /\ TriesBounded
  /\ Cardinality(Seeking) <= SeekPermits
=============================================================================
