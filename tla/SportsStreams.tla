----------------------------- MODULE SportsStreams -----------------------------
(***************************************************************************)
(* football.rs: from the addresses of a match's streams to a playlist.  A  *)
(* request names a stream and others to fall back on.  They are tried one  *)
(* after the other, or a few at a time for a preflight; the first that     *)
(* gives a playlist is the answer, and the rest is dropped.  What became   *)
(* of an address is kept for all requests, a playlist and a failure apart; *)
(* an address that has to be resolved is so by one attempt at a time (its  *)
(* lock is that of KeyLockTable), with a permit of its own.                *)
(*                                                                         *)
(* Behind an address is a page with embeds.  Those of one that answers do  *)
(* not change here; one that is Flaky may not answer.  An embed is played  *)
(* by the minimal resolver script, by the full one, or by none.            *)
(***************************************************************************)
EXTENDS Integers, FiniteSetsExt, SequencesExt, Lists

CONSTANTS
  Watcher,        \* requests to resolve a stream
  Address,        \* of streams that a provider supports
  PageAt,         \* what is behind each
  Flaky,          \* those whose page may fail to answer
  Queries,        \* [urls, preflight]: what a request may ask for
  MaxCandidates,  \* MAX_LIVE_STREAM_CANDIDATES
  PreflightMax,   \* SPORTS_PREFLIGHT_MAX_CONCURRENT
  MaxStreams,     \* SPORTS_STREAM_RESOLVE_CACHE_MAX_ENTRIES
  StreamTtl,      \* SPORTS_STREAM_RESOLVE_CACHE_TTL_MS
  FailureTtl,     \* SPORTS_STREAM_RESOLVE_FAILURE_TTL_MS
  StreamPermits,  \* max_concurrent
  LastTick        \* bound: the clock stops there

\* What is listed on a page: its number there, its quality, what it leads to,
\* which resolvers play it, and, of a wrapper that answers, what is in it.
Listed(Held) == [no : Nat \ {0}, hd : BOOLEAN, site : STRING,
                 min : BOOLEAN, full : BOOLEAN, holds : Held]
Embed == Listed(Seq(Listed({<< >>})))

ASSUME StreamsAssumption ==
  /\ Flaky \subseteq Address
  /\ PageAt \in [Address -> [provider : STRING, items : Seq(Embed)]]
  /\ \A q \in Queries : q.urls \in Seq(ToSet(q.urls)) \ {<< >>} /\ q.preflight \in BOOLEAN
  /\ {MaxCandidates, PreflightMax, MaxStreams, StreamPermits} \subseteq Nat \ {0}
  /\ {StreamTtl, FailureTtl, LastTick} \subseteq Nat /\ FailureTtl < StreamTtl

VARIABLES
  tick,     \* the clock
  stream,   \* SportsStreamResolveCache.entries
  failure,  \* SportsStreamResolveCache.failures: when
  watcher   \* the requests

sportsVars == <<tick, stream, failure, watcher>>

NoStream == [embed |-> 0, index |-> 0, at |-> -1]
Away == [pc |-> "away", list |-> << >>, width |-> 1,
         at |-> << >>, busy |-> FALSE, index |-> 0, embed |-> 0]

Stages == {"idle", "wait", "queue", "resolve", "failed"}

StreamsTypeOK ==
  /\ tick \in 0 .. LastTick
  /\ stream \in [Address -> [embed : Nat, index : Nat, at : -1 .. tick]]
  /\ failure \in [Address -> -1 .. tick]
  /\ watcher = [w \in Watcher |-> watcher[w]]
  /\ \A w \in Watcher :
       /\ watcher[w].pc \in {"away", "busy", "answered", "refused"}
       /\ \A i \in DOMAIN watcher[w].list : watcher[w].at[i] \in Stages

StreamsInit ==
  /\ tick = 0
  /\ stream = [a \in Address |-> NoStream] /\ failure = [a \in Address |-> -1]
  /\ watcher = [w \in Watcher |-> Away]
-----------------------------------------------------------------------------
(***************************************************************************)
(* The candidates of a request: what it names, once each, and no more than *)
(* so many.  A first one that is not supported is an error, and so is a    *)
(* list that cannot be read ("broken"); others are passed over.            *)
(***************************************************************************)
\* sports_live_stream_source_candidates, push_unique_stream_candidate
CandidatesOf(urls) == PushNew(<< >>, Select(urls, Address), MaxCandidates)

Readable(urls) == Head(urls) \in Address /\ "broken" \notin ToSet(urls)
-----------------------------------------------------------------------------
\* resolve_streamed_embed_hls_url, resolve_ntvs_embed_st_hls_url: the minimal
\* resolver, then the full one.
Plays(e) == e.min \/ e.full

\* Mutant: the first embed as listed, whatever its quality.
AsListed(embeds) == embeds

\* fetch_streamed_embed_streams and the sort that follows it.
BestFirst(embeds) ==
  Sorted(embeds, {p \in ToSet(embeds) \X ToSet(embeds) :
                    \/ p[1].hd /\ ~p[2].hd
                    \/ p[1].hd = p[2].hd /\ p[1].no < p[2].no})

Direct == {"embed", "player"}
OfSite(items, sites) == Select(items, {e \in ToSet(items) : e.site \in sites})

\* fetch_ntvs_direct_embed_candidates: the embeds and players of a wrapper.
DirectOf(items) == PushNew(<< >>, OfSite(items, Direct), MaxCandidates)

\* The limit is looked at after each embed of a wrapper.
PushHeld(list, held) ==
  IF Len(list) < MaxCandidates THEN PushNew(list, held, MaxCandidates)
  ELSE PushNew(list, [i \in DOMAIN held \cap {1} |-> held[i]], Len(list) + 1)

(***************************************************************************)
(* ntvs_player_page_candidates: of a watch page, embeds, players and what  *)
(* is in its wrappers, once each.  Of embeds and players there may be any  *)
(* number; after a wrapper, whether it answers or not, it may be enough.   *)
(***************************************************************************)
NtvsCandidates(items) ==
  LET gathered[n \in 0 .. Len(items)] ==
        IF n = 0 THEN [list |-> << >>, enough |-> FALSE]
        ELSE LET list == gathered[n - 1].list
                 more == PushHeld(list, DirectOf(items[n].holds))
             IN CASE gathered[n - 1].enough -> gathered[n - 1]
                  [] ~gathered[n - 1].enough /\ items[n].site \in Direct ->
                       [list |-> PushNew(list, <<items[n]>>, Len(list) + 1),
                        enough |-> FALSE]
                  [] ~gathered[n - 1].enough /\ items[n].site = "wrapper" ->
                       [list |-> more, enough |-> Len(more) >= MaxCandidates]
                  [] OTHER -> gathered[n - 1]
  IN  gathered[Len(items)].list

\* The embeds in the order in which they are tried.
EmbedsOf(a) ==
  CASE PageAt[a].provider = "streamed" ->
         BestFirst(OfSite(PageAt[a].items, {"embed"}))
    [] PageAt[a].provider = "ntvs" -> NtvsCandidates(PageAt[a].items)
    [] OTHER -> PageAt[a].items

\* resolve_verified_*_live_stream_uncached: the first that plays.
Verified(a) ==
  LET playing == Select(EmbedsOf(a), {e \in ToSet(EmbedsOf(a)) : Plays(e)}) IN
  IF playing = << >> THEN 0 ELSE Head(playing).no

\* What can come of it: the number of an embed, or 0.
Resolved(a) == {Verified(a)} \cup (IF a \in Flaky THEN {0} ELSE {})
-----------------------------------------------------------------------------
FreshStream(a) == stream[a] # NoStream /\ tick <= stream[a].at + StreamTtl
FreshFailure(a) == failure[a] # -1 /\ tick <= failure[a] + FailureTtl

\* trim, trim_failures: the oldest goes.
Trim(kept, age, gone) ==
  LET old == {a \in Address : age[a] # -1} IN
  IF Cardinality(old) <= MaxStreams THEN {kept}
  ELSE {[kept EXCEPT ![a] = gone] :
          a \in {o \in old : \A p \in old : age[o] <= age[p]}}

InsertStream(a, entry) ==
  LET kept == [stream EXCEPT ![a] = entry] IN
  stream' \in Trim(kept, [b \in Address |-> kept[b].at], NoStream)

InsertFailure(a) ==
  LET kept == [failure EXCEPT ![a] = tick] IN failure' \in Trim(kept, kept, -1)

\* Where attempts are: watcher[w].at[i] is that of its i-th candidate.
At(w, i, stage) ==
  watcher[w].pc = "busy" /\ i \in DOMAIN watcher[w].list /\ watcher[w].at[i] = stage
Attempting(a, stages) ==
  {w \in Watcher : \E i \in DOMAIN watcher[w].list :
     watcher[w].list[i] = a /\ \E s \in stages : At(w, i, s)}
AddressLocked(a) == Attempting(a, {"queue", "resolve"}) # {}
Resolving ==
  UNION {{<<w, i>> : i \in {j \in DOMAIN watcher[w].list : At(w, j, "resolve")}} :
           w \in Watcher}

\* The request is answered with a candidate; what else it tries is dropped.
AnswerStream(w, i, embed) ==
  watcher' = [watcher EXCEPT ![w].pc = "answered", ![w].index = i, ![w].embed = embed]

\* The attempt has failed; the request has, if it was the last.
FailAttempt(w, i, busy) ==
  LET at == [watcher[w].at EXCEPT ![i] = "failed"] IN
  watcher' = [watcher EXCEPT
                ![w].at = at, ![w].busy = @ \/ busy,
                ![w].pc = IF \A j \in DOMAIN at : at[j] = "failed"
                          THEN "refused" ELSE @]
-----------------------------------------------------------------------------
\* *_stream_resolve_handler, sports_stream_resolve_response
AskStream(w) ==
  /\ watcher[w].pc = "away"
  /\ \E q \in Queries :
       IF ~Readable(q.urls)
       THEN watcher' = [watcher EXCEPT ![w].pc = "refused", ![w].busy = TRUE]
       ELSE LET list == CandidatesOf(q.urls) IN
            watcher' = [watcher EXCEPT
                          ![w] = [Away EXCEPT
                                    !.pc = "busy", !.list = list,
                                    !.width = IF q.preflight THEN PreflightMax ELSE 1,
                                    !.at = [i \in DOMAIN list |-> "idle"]]]
  /\ UNCHANGED <<tick, stream, failure>>

\* A look into the two caches, and the stage that comes next if all is open.
Consult(w, i, next) ==
  LET a == watcher[w].list[i] IN
  /\ \/ FreshStream(a) /\ AnswerStream(w, i, stream[a].embed)
     \/ ~FreshStream(a) /\ FreshFailure(a) /\ FailAttempt(w, i, FALSE)
     \/ /\ ~FreshStream(a) /\ ~FreshFailure(a)
        /\ watcher' = [watcher EXCEPT ![w].at[i] = next]
  /\ UNCHANGED <<tick, stream, failure>>

\* buffer_unordered has room for the next attempt, which begins with a look
\* (resolve_cached_*_live_stream).
Launch(w, i) ==
  /\ At(w, i, "idle") /\ \A j \in 1 .. i - 1 : ~At(w, j, "idle")
  /\ Cardinality({j \in DOMAIN watcher[w].list :
                    watcher[w].at[j] \notin {"idle", "failed"}}) < watcher[w].width
  /\ Consult(w, i, "wait")

\* Mutant: nobody looks again when the lock is there.
LockOnly(w, i) ==
  /\ At(w, i, "wait") /\ ~AddressLocked(watcher[w].list[i])
  /\ watcher' = [watcher EXCEPT ![w].at[i] = "queue"]
  /\ UNCHANGED <<tick, stream, failure>>

LockAddress(w, i) ==
  /\ At(w, i, "wait") /\ ~AddressLocked(watcher[w].list[i])
  /\ Consult(w, i, "queue")

TakePermit(w, i) ==
  /\ At(w, i, "queue") /\ Cardinality(Resolving) < StreamPermits
  /\ watcher' = [watcher EXCEPT ![w].at[i] = "resolve"]
  /\ UNCHANGED <<tick, stream, failure>>

\* The queue's timeout is the one failure that is not remembered.
PermitTimeout(w, i) ==
  /\ At(w, i, "queue") /\ Cardinality(Resolving) = StreamPermits
  /\ FailAttempt(w, i, TRUE)
  /\ UNCHANGED <<tick, stream, failure>>

ResolveWorks(w, i) ==
  /\ At(w, i, "resolve")
  /\ \E embed \in Resolved(watcher[w].list[i]) \ {0} :
       /\ InsertStream(watcher[w].list[i], [embed |-> embed, index |-> i, at |-> tick])
       /\ AnswerStream(w, i, embed)
  /\ UNCHANGED <<tick, failure>>

ResolveFails(w, i) ==
  /\ At(w, i, "resolve") /\ 0 \in Resolved(watcher[w].list[i])
  /\ InsertFailure(watcher[w].list[i])
  /\ FailAttempt(w, i, FALSE)
  /\ UNCHANGED <<tick, stream>>

\* The answer is out, or the client goes.
WatcherLeaves(w) ==
  /\ watcher[w].pc # "away"
  /\ watcher' = [watcher EXCEPT ![w] = Away]
  /\ UNCHANGED <<tick, stream, failure>>

\* prune, an entry at a time.
PruneAddress(a) ==
  /\ \/ /\ stream[a] # NoStream /\ ~FreshStream(a)
        /\ stream' = [stream EXCEPT ![a] = NoStream] /\ UNCHANGED failure
     \/ /\ failure[a] # -1 /\ ~FreshFailure(a)
        /\ failure' = [failure EXCEPT ![a] = -1] /\ UNCHANGED stream
  /\ UNCHANGED <<tick, watcher>>

TickPasses ==
  /\ tick < LastTick /\ tick' = tick + 1
  /\ UNCHANGED <<stream, failure, watcher>>

StreamsNext ==
  \/ \E w \in Watcher :
       \/ AskStream(w) \/ WatcherLeaves(w)
       \/ \E i \in DOMAIN watcher[w].list :
            \/ Launch(w, i) \/ LockAddress(w, i) \/ TakePermit(w, i)
            \/ PermitTimeout(w, i) \/ ResolveWorks(w, i) \/ ResolveFails(w, i)
  \/ \E a \in Address : PruneAddress(a)
  \/ TickPasses

StreamsSpec == StreamsInit /\ [][StreamsNext]_sportsVars
-----------------------------------------------------------------------------
\* One resolver at a time is at work on an address, and the permits suffice.
ResolversKept ==
  /\ \A a \in Address : Cardinality(Attempting(a, {"queue", "resolve"})) <= 1
  /\ Cardinality(Resolving) <= StreamPermits

\* An address has one verdict: it is not both known to play and to fail.
VerdictsApart == \A a \in Address : ~(FreshStream(a) /\ FreshFailure(a))

\* An address whose page always answers and plays is never held to fail, and
\* what is kept of any is an embed that plays, of Streamed's the best.
VerdictsTrue ==
  \A a \in Address :
    /\ failure[a] # -1 => a \in Flaky \/ Verified(a) = 0
    /\ stream[a] # NoStream =>
         \E e \in ToSet(EmbedsOf(a)) :
           /\ e.no = stream[a].embed /\ Plays(e)
           /\ PageAt[a].provider = "streamed" =>
                \A f \in ToSet(EmbedsOf(a)) : Plays(f) /\ f.hd => e.hd

\* An answer is an embed of the candidate it names; in a request that goes
\* through them in turn, those before it have failed.  Without an answer all
\* have, and one that always plays only because no permit came free.
AnswersOwn ==
  \A w \in Watcher :
    LET r == watcher[w] IN
    /\ r.pc = "answered" =>
         /\ \E e \in ToSet(EmbedsOf(r.list[r.index])) : e.no = r.embed /\ Plays(e)
         /\ r.width = 1 => \A j \in 1 .. r.index - 1 : r.at[j] = "failed"
    /\ r.pc = "refused" /\ ~r.busy =>
         \A a \in ToSet(r.list) : a \in Flaky \/ Verified(a) = 0

(***************************************************************************)
(* StreamsHonest: whatever requests race, time out, are dropped or answer  *)
(* each other from the caches, an address is resolved once at a time and   *)
(* within the permits, has one verdict, which is true of its page, and a   *)
(* request is answered with a stream of its own list, in its order, or     *)
(* refused for a reason.                                                   *)
(***************************************************************************)
StreamsHonest ==
  StreamsTypeOK /\ ResolversKept /\ VerdictsApart /\ VerdictsTrue /\ AnswersOwn
=============================================================================
