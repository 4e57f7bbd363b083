---------------------------- MODULE SportsSchedule ----------------------------
(***************************************************************************)
(* football.rs: the schedules of one sport.  Each provider's schedule is   *)
(* kept until it is due, which depends on what it lists: a minute while a  *)
(* match is live, half an hour if the next one is hours away.  A schedule  *)
(* that is due is fetched by one request at a time (its lock is that of    *)
(* KeyLockTable); if that fails, the old one is good for another day.      *)
(* Without a wish for one provider, they are asked in turn.                *)
(*                                                                         *)
(* A match of a provider is its start, its length (0 if not told), whether *)
(* it has a title, is of this sport and has a page of its own, and its     *)
(* sources in order: "best" and "plain" ones can be played, a "blank" one  *)
(* has no address, a "void" one has no stream behind its address.  A match *)
(* that is shown is its start, its end and its streams.                    *)
(***************************************************************************)
EXTENDS Integers, FiniteSetsExt, SequencesExt, Lists

CONSTANTS
  Fan,         \* requests for the schedule
  Provider,    \* the providers of schedules
  Ways,        \* how those of one behaviour ask: a set of sets of chains
  Listings,    \* what a provider may be listing
  DefaultLength, \* STREAMED_DEFAULT_DURATION_MINUTES, and the like
  ShortLength,   \* no provider tells of a shorter match
  MaxFeeds,    \* CDNLIVETV_MAX_CHANNELS_PER_MATCH
  LiveTtl, NearTtl, EmptyTtl, FutureTtl, StaleTtl, \* SPORTS_SCHEDULE_*_TTL_MS
  NearWindow,  \* two hours
  LastMoment   \* bound: the clock stops there

\* What a provider says of its sources, and of a match.
Sources == {"best", "plain", "blank", "void"}
Match == [start : Int, length : {0} \cup {n \in Nat : n >= ShortLength},
          titled : BOOLEAN, ours : BOOLEAN, paged : BOOLEAN, sources : Seq(Sources)]

ASSUME ScheduleAssumption ==
  /\ \A ways \in Ways : \A chain \in ways :
       chain \in Seq(Provider) \ {<< >>} /\ IsInjective(chain)
  /\ Provider \subseteq {"streamed", "matchstream", "ntvs", "cdnlivetv"}
  /\ Listings \subseteq Seq(Match)
  /\ {LiveTtl, NearTtl, EmptyTtl, FutureTtl, StaleTtl, NearWindow} \subseteq Nat
  /\ {DefaultLength, ShortLength, MaxFeeds, LastMoment} \subseteq Nat
  /\ 0 < LiveTtl /\ LiveTtl <= NearTtl /\ NearTtl <= EmptyTtl
  /\ EmptyTtl <= FutureTtl /\ FutureTtl <= NearWindow /\ FutureTtl <= StaleTtl
  /\ NearTtl <= ShortLength /\ ShortLength <= DefaultLength /\ MaxFeeds > 0

VARIABLES
  moment,    \* the clock
  schedule,  \* SportsScheduleCache.entries
  ways,      \* the chains asked for: one provider, or several in turn
  fan        \* the requests: where, whom they have left to ask, since when

scheduleVars == <<moment, schedule, ways, fan>>

NoSchedule == [matches |-> << >>, fetched |-> -1, due |-> -1]
Home == [pc |-> "home", left |-> << >>, all |-> {}, began |-> 0]

Shown == {"best", "plain", "void", "page"}

ScheduleTypeOK ==
  /\ moment \in 0 .. LastMoment /\ ways \in Ways
  /\ schedule = [p \in Provider |-> schedule[p]] /\ fan = [f \in Fan |-> fan[f]]
  /\ \A p \in Provider :
       schedule[p].due \in schedule[p].fetched .. schedule[p].fetched + FutureTtl
  /\ \A f \in Fan : /\ fan[f].pc \in {"home", "look", "wait", "fetch",
                                      "hit", "miss", "stale", "error"}
                    /\ ToSet(fan[f].left) \subseteq fan[f].all

ScheduleInit ==
  /\ moment = 0 /\ ways \in Ways
  /\ schedule = [p \in Provider |-> NoSchedule]
  /\ fan = [f \in Fan |-> Home]
-----------------------------------------------------------------------------
\* streamed_source_stream_api_url, normalize_matchstream_link
Addressed(sources) == Select(sources, Sources \ {"blank"})

\* streamed_match_is_live
Live(m, t) == m.start <= t /\ t < m.start + DefaultLength

(***************************************************************************)
(* filter_empty_live_streamed_sources: the sources of live matches are     *)
(* asked for their streams; one that says it has none is left out, one     *)
(* that says nothing (asked is FALSE) is kept.                             *)
(***************************************************************************)
FilterEmptyLive(matches, t, asked) ==
  [i \in DOMAIN matches |->
     IF asked /\ Live(matches[i], t)
     THEN [matches[i] EXCEPT !.sources = Select(@, Sources \ {"void"})]
     ELSE matches[i]]

\* sports_embed_source_priority, and the sort by it, which is stable.
ByPriority(sources) ==
  Select(sources, {"best"}) \o Select(sources, Sources \ {"best"})

\* normalize_streamed_sport_match
NormalizeStreamed(m) ==
  [start |-> m.start, end |-> m.start + DefaultLength,
   streams |-> ByPriority(Addressed(m.sources))]

\* normalize_matchstream_sport_match
NormalizeMatchstream(m) ==
  [start |-> m.start,
   end |-> m.start + (IF m.length > 0 THEN m.length ELSE DefaultLength),
   streams |-> Addressed(m.sources)]

\* Mutant: the page first.
PageFirst(m) ==
  [start |-> m.start, end |-> m.start + DefaultLength,
   streams |-> (IF m.paged THEN <<"page">> ELSE << >>)
                 \o ByPriority(Addressed(m.sources))]

\* normalize_ntvs_sport_match: the watch page is the last resort.
NormalizeNtvs(m) ==
  [start |-> m.start, end |-> m.start + DefaultLength,
   streams |-> ByPriority(Addressed(m.sources))
                 \o (IF m.paged THEN <<"page">> ELSE << >>)]

\* normalize_cdnlivetv_event, curate_cdnlivetv_channels: the best few.
NormalizeCdnlivetv(m) ==
  LET feeds == ByPriority(Addressed(m.sources)) IN
  [start |-> m.start, end |-> m.start + DefaultLength,
   streams |-> SubSeq(feeds, 1, IF Len(feeds) < MaxFeeds THEN Len(feeds) ELSE MaxFeeds)]

(***************************************************************************)
(* build_*_sport_matches_payload: what is over, has no title, no source or *)
(* is of another sport is left out.  Streamed's sources may all be blank.  *)
(***************************************************************************)
BuildStreamed(matches, t) ==
  LET kept == Select(matches, {m \in ToSet(matches) :
                                 /\ m.titled /\ m.sources # << >>
                                 /\ m.start + DefaultLength > t}) IN
  [i \in DOMAIN kept |-> NormalizeStreamed(kept[i])]

BuildMatchstream(matches, t) ==
  LET kept == Select(matches, {m \in ToSet(matches) :
                                 /\ Addressed(m.sources) # << >>
                                 /\ NormalizeMatchstream(m).end > t}) IN
  [i \in DOMAIN kept |-> NormalizeMatchstream(kept[i])]

BuildNtvs(matches, t) ==
  LET kept == Select(matches, {m \in ToSet(matches) :
                                 /\ m.titled /\ m.ours /\ Addressed(m.sources) # << >>
                                 /\ m.start + DefaultLength > t}) IN
  [i \in DOMAIN kept |-> NormalizeNtvs(kept[i])]

BuildCdnlivetv(matches, t) ==
  LET kept == Select(matches, {m \in ToSet(matches) :
                                 /\ m.titled /\ m.ours /\ m.start + DefaultLength > t
                                 /\ NormalizeCdnlivetv(m).streams # << >>}) IN
  [i \in DOMAIN kept |-> NormalizeCdnlivetv(kept[i])]

\* What can come of a fetch from p now.
Fetched(p, matches) ==
  CASE p = "streamed" ->
         {BuildStreamed(FilterEmptyLive(matches, moment, asked), moment) :
            asked \in BOOLEAN}
    [] p = "matchstream" -> {BuildMatchstream(matches, moment)}
    [] p = "ntvs" -> {BuildNtvs(matches, moment)}
    [] p = "cdnlivetv" -> {BuildCdnlivetv(matches, moment)}

\* Mutant: a match that starts soon does not make a difference.
FutureOrLive(matches, t) ==
  IF matches = << >> THEN EmptyTtl
  ELSE IF \E i \in DOMAIN matches : matches[i].start <= t /\ t < matches[i].end
  THEN LiveTtl ELSE FutureTtl

\* sports_schedule_fresh_ttl_ms
FreshTtl(matches, t) ==
  IF matches = << >> THEN EmptyTtl
  ELSE IF \E i \in DOMAIN matches : matches[i].start <= t /\ t < matches[i].end
  THEN LiveTtl
  ELSE IF \E i \in DOMAIN matches : t < matches[i].start
                                    /\ matches[i].start - t <= NearWindow
  THEN NearTtl
  ELSE FutureTtl
-----------------------------------------------------------------------------
FreshSchedule(p) == schedule[p] # NoSchedule /\ moment <= schedule[p].due
Usable(p) == schedule[p] # NoSchedule /\ moment <= schedule[p].fetched + StaleTtl
ScheduleLocked(p) == \E f \in Fan : fan[f].pc = "fetch" /\ Head(fan[f].left) = p

\* The request is answered with what is now kept of the provider it asks.
TellFan(f, how) == fan' = [fan EXCEPT ![f] = [Home EXCEPT !.pc = how]]

\* The provider has failed, and nothing of it is left: the next, if any.
\* (auto_sport_matches_response)
AskNext(f) ==
  IF Len(fan[f].left) > 1
  THEN fan' = [fan EXCEPT ![f].pc = "look", ![f].left = Tail(@)]
  ELSE TellFan(f, "error")

\* sport_matches_response
AskSchedule(f) ==
  /\ fan[f].pc = "home"
  /\ \E chain \in ways :
       fan' = [fan EXCEPT ![f] = [pc |-> "look", left |-> chain,
                                  all |-> ToSet(chain), began |-> moment]]
  /\ UNCHANGED <<moment, schedule, ways>>

\* The first look, without the lock.
LookUp(f, p) ==
  /\ fan[f].pc = "look" /\ Head(fan[f].left) = p
  /\ IF FreshSchedule(p) THEN TellFan(f, "hit") ELSE fan' = [fan EXCEPT ![f].pc = "wait"]
  /\ UNCHANGED <<moment, schedule, ways>>

\* The lock, and the second look.
LockSchedule(f, p) ==
  /\ fan[f].pc = "wait" /\ Head(fan[f].left) = p /\ ~ScheduleLocked(p)
  /\ IF FreshSchedule(p) THEN TellFan(f, "hit") ELSE fan' = [fan EXCEPT ![f].pc = "fetch"]
  /\ UNCHANGED <<moment, schedule, ways>>

FetchWorks(f, p) ==
  /\ fan[f].pc = "fetch" /\ Head(fan[f].left) = p
  /\ \E listing \in Listings : \E matches \in Fetched(p, listing) :
       schedule' = [schedule EXCEPT
                      ![p] = [matches |-> matches, fetched |-> moment,
                              due |-> moment + FreshTtl(matches, moment)]]
  /\ TellFan(f, "miss")
  /\ UNCHANGED <<moment, ways>>

\* Mutant: the old schedule is not looked at.
FailAnyway(f, p) ==
  /\ fan[f].pc = "fetch" /\ Head(fan[f].left) = p
  /\ AskNext(f)
  /\ UNCHANGED <<moment, schedule, ways>>

FetchFails(f, p) ==
  /\ fan[f].pc = "fetch" /\ Head(fan[f].left) = p
  /\ IF Usable(p) THEN TellFan(f, "stale") ELSE AskNext(f)
  /\ UNCHANGED <<moment, schedule, ways>>

Serve(f, p) ==
  LookUp(f, p) \/ LockSchedule(f, p) \/ FetchWorks(f, p) \/ FetchFails(f, p)

\* The four handlers differ in what they fetch.
StreamedSchedule(f) == Serve(f, "streamed")
MatchstreamSchedule(f) == Serve(f, "matchstream")
NtvsSchedule(f) == Serve(f, "ntvs")
CdnlivetvSchedule(f) == Serve(f, "cdnlivetv")

\* The answer is out, or the client goes; so does its lock.
FanLeaves(f) ==
  /\ fan[f].pc # "home"
  /\ fan' = [fan EXCEPT ![f] = Home]
  /\ UNCHANGED <<moment, schedule, ways>>

MomentPasses ==
  /\ moment < LastMoment /\ moment' = moment + 1
  /\ UNCHANGED <<schedule, ways, fan>>

ScheduleNext ==
  \/ \E f \in Fan : \/ AskSchedule(f) \/ FanLeaves(f)
                    \/ StreamedSchedule(f) \/ MatchstreamSchedule(f)
                    \/ NtvsSchedule(f) \/ CdnlivetvSchedule(f)
  \/ MomentPasses

ScheduleSpec == ScheduleInit /\ [][ScheduleNext]_scheduleVars
-----------------------------------------------------------------------------
\* The request f is answered by this step.
Answered(f) ==
  fan[f].pc \in {"look", "wait", "fetch"} /\ fan'[f].pc \notin {"home", fan[f].pc}

\* A match that is on was asked for lately, and one that is over is gone.
LiveIsRecent(f) ==
  Answered(f) /\ fan'[f].pc \in {"hit", "miss"} =>
    LET told == schedule'[Head(fan[f].left)] IN
    \A m \in ToSet(told.matches) :
      /\ m.start <= moment => moment - told.fetched <= NearTtl
      /\ m.end <= moment => moment - m.end <= LiveTtl

\* An error means that no provider asked had a schedule of the last day, but
\* for one that another request has fetched meanwhile.
ErrorIsLast(f) ==
  Answered(f) /\ fan'[f].pc = "error" =>
    \A p \in fan[f].all : ~Usable(p) \/ schedule[p].fetched >= fan[f].began

\* The first stream of a match is never the watch page, and only Streamed
\* shows a match without one.
PlayableFirst ==
  \A p \in Provider : \A m \in ToSet(schedule[p].matches) :
    /\ ToSet(m.streams) \subseteq Shown
    /\ m.streams = << >> => p = "streamed"
    /\ m.streams # << >> => Head(m.streams) # "page"

(***************************************************************************)
(* ScheduleHonest: whatever requests, failures and the clock do, a match   *)
(* that is on is never shown from a schedule older than the near-live      *)
(* limit, one that is over is gone within the live limit, an error is the  *)
(* last resort, and the stream a client plays first is one that a provider *)
(* gave.                                                                   *)
(***************************************************************************)
ScheduleHonest ==
  /\ [](ScheduleTypeOK /\ PlayableFirst)
  /\ [][\A f \in Fan : LiveIsRecent(f) /\ ErrorIsLast(f)]_scheduleVars
=============================================================================
