---------------------------- MODULE EmbedResolve ----------------------------
(***************************************************************************)
(* resolve_movie and resolve_tv of resolver.rs: a title is resolved to a   *)
(* playback URL, under a lock whose key holds the title and the caller's   *)
(* preferences.  The answer comes from ResolvedEmbedCache, from a race of  *)
(* the embed providers, or from a playback session or a torrent.  External *)
(* work holds one of MaxConcurrent permits.  The cache is keyed by title   *)
(* alone, so callers under different locks share its entries; a refresh    *)
(* evicts the title's entry before it looks.                               *)
(*                                                                         *)
(* A provider's URL is a number: how often the title's upstream has moved. *)
(* The locks are as in KeyMutex.  Every request is made once; Request      *)
(* bounds the history counters (ext, stores) and MaxMoves the URLs.        *)
(***************************************************************************)
EXTENDS Integers, FiniteSets

CONSTANTS
  Title, LockKey,
  TitleOf,        \* the title in a lock key
  Pinned,         \* lock keys whose source hash names an embed provider
  Skipped,        \* those with skip_external_embed
  Preferred,      \* those without source hash or a provider other than embeds
  Request,
  Candidates,     \* how many providers a race has
  MaxConcurrent,  \* resolver_max_concurrent
  MaxEntries,     \* RESOLVED_EMBED_CACHE_MAX_ENTRIES
  MaxMoves,       \* bound: how often a title's upstream moves
  None

ASSUME EmbedAssumption ==
  /\ TitleOf \in [LockKey -> Title]
  /\ Pinned \subseteq LockKey /\ Skipped \subseteq LockKey
  /\ Preferred \subseteq LockKey \ Pinned
  /\ Candidates \in Nat \ {0} /\ MaxConcurrent \in Nat \ {0}
  /\ MaxEntries \in Nat /\ MaxMoves \in Nat
  /\ IsFiniteSet(Request) /\ IsFiniteSet(Title)
  /\ None \notin Request \cup LockKey

VARIABLES
  req,      \* the requests
  lock,     \* lock[k]: the request inside the lock of k, or None
  cache,    \* cache[t]: the entry of t, or NoEntry
  free,     \* permits nobody holds
  ext,      \* the counters external_* of ResolverStats
  current,  \* current[t]: the URL the upstream of t serves
  stores    \* history: entries stored so far

vars == <<req, lock, cache, free, ext, current, stores>>

\* at: the number of the store; by: the lock key it was stored under.
NoEntry == [url |-> 0, fresh |-> FALSE, by |-> None, at |-> 0]
EntryRecord == [url : Nat, fresh : BOOLEAN, by : LockKey \cup {None}, at : Nat]

Phase == {"idle", "lock", "meta", "look", "permit", "build", "race", "won",
          "lost", "reuse", "torrentPermit", "torrent", "tracks", "done"}

(***************************************************************************)
(* rd: a Real-Debrid key is configured.  flying, failed: the attempts of   *)
(* the race that run, and that yielded None.  got: the winner's URL.  hit: *)
(* the cache entry that is the answer.  mark and moved are history: the    *)
(* number of stores, and the upstream's URL, when a refresh evicted.       *)
(***************************************************************************)
RequestRecord ==
  [pc : Phase, key : LockKey \cup {None}, rd : BOOLEAN, refresh : BOOLEAN,
   flying : SUBSET (1..Candidates), failed : SUBSET (1..Candidates),
   got : Nat, hit : EntryRecord, mark : Nat, moved : Nat]

Blank == [pc |-> "idle", key |-> None, rd |-> FALSE, refresh |-> FALSE,
          flying |-> {}, failed |-> {}, got |-> 0, hit |-> NoEntry,
          mark |-> 0, moved |-> 0]

TypeOK ==
  /\ req \in [Request -> RequestRecord]
  /\ lock \in [LockKey -> Request \cup {None}]
  /\ cache \in [Title -> EntryRecord]
  /\ free \in Nat
  /\ ext \in [active : Int, started : Nat, completed : Nat, failed : Nat]
  /\ current \in [Title -> Nat]
  /\ stores \in Nat

Init ==
  /\ req = [r \in Request |-> Blank]
  /\ lock = [k \in LockKey |-> None]
  /\ cache = [t \in Title |-> NoEntry]
  /\ free = MaxConcurrent
  /\ ext = [active |-> 0, started |-> 0, completed |-> 0, failed |-> 0]
  /\ current = [t \in Title |-> 0]
  /\ stores = 0
-----------------------------------------------------------------------------
T(r) == TitleOf[req[r].key]
In(r, p) == req[r].pc = p
Goto(r, p) == req' = [req EXCEPT ![r].pc = p]

\* Which way a request goes: without Real-Debrid there are only embeds.
Pins(r) ==
  req[r].key \in Pinned /\ (req[r].key \notin Skipped \/ ~req[r].rd)
Defaults(r) ==
  ~Pins(r) /\ (req[r].rd => req[r].key \in Preferred \ Skipped)

\* external_embed_hls_candidate_sources: a pinned provider runs alone.
Field(r) == IF Pins(r) THEN 1..1 ELSE 1..Candidates
Launched(r) == req[r].flying \cup req[r].failed
NextUp(r) == {c \in Field(r) : Launched(r) = 1..(c - 1)}

Holding == {"build", "race", "won", "lost", "torrent"}
Holds(r) == req[r].pc \in Holding

\* ResolverExternalGuard::new, mark_completed and drop.
TakePermit ==
  /\ free > 0
  /\ free' = free - 1
  /\ ext' = [ext EXCEPT !.active = @ + 1, !.started = @ + 1]
DropPermit(completed) ==
  /\ free' = free + 1
  /\ ext' = [ext EXCEPT !.active = @ - 1,
                        !.completed = IF completed THEN @ + 1 ELSE @,
                        !.failed = IF completed THEN @ ELSE @ + 1]

\* The handler returns, or is dropped: so is the guard of its key's lock.
Ends(r) ==
  /\ req' = [req EXCEPT ![r] = [Blank EXCEPT !.pc = "done"]]
  /\ lock' = [k \in LockKey |-> IF lock[k] = r THEN None ELSE lock[k]]

Hit(t) == cache[t].by # None /\ cache[t].fresh

\* The answer is built from the cache's entry.
ServeHit(r) ==
  /\ Hit(T(r))
  /\ req' = [req EXCEPT ![r].pc = "tracks", ![r].hit = cache[T(r)]]

\* Nothing came of the embeds: torrents, or an error without Real-Debrid.
FallBack(r) ==
  IF req[r].rd THEN Goto(r, "reuse") /\ UNCHANGED lock ELSE Ends(r)

Kept(c, t) == c[t].by # None
Swept(c) == [t \in Title |-> IF c[t].fresh THEN c[t] ELSE NoEntry]
Entries(c) == Cardinality({t \in Title : Kept(c, t)})

\* ResolvedEmbedCache::store: too many entries, even without those past
\* their time, and the cache is cleared, of the new one as well.
Stored(t, e) ==
  LET grown == [cache EXCEPT ![t] = e] IN
  IF Entries(grown) <= MaxEntries THEN grown
  ELSE IF Entries(Swept(grown)) <= MaxEntries THEN Swept(grown)
  ELSE [u \in Title |-> NoEntry]
-----------------------------------------------------------------------------
Arrive(r, k, rd, refresh) ==
  /\ In(r, "idle")
  /\ req' = [req EXCEPT ![r] = [Blank EXCEPT !.pc = "lock", !.key = k,
                                             !.rd = rd, !.refresh = refresh]]
  /\ UNCHANGED <<lock, cache, free, ext, current, stores>>

\* Mutant: whoever finds the lock held goes on without it.
EnterAnyway(r) ==
  /\ In(r, "lock")
  /\ lock' = [lock EXCEPT ![req[r].key] = r]
  /\ Goto(r, "meta")
  /\ UNCHANGED <<cache, free, ext, current, stores>>

Enter(r) ==
  /\ In(r, "lock") /\ lock[req[r].key] = None
  /\ lock' = [lock EXCEPT ![req[r].key] = r]
  /\ Goto(r, "meta")
  /\ UNCHANGED <<cache, free, ext, current, stores>>

\* Preferences or metadata cannot be read.
MetadataFails(r) ==
  /\ In(r, "meta")
  /\ Ends(r)
  /\ UNCHANGED <<cache, free, ext, current, stores>>

\* Mutant: a refresh leaves the entry where it is.
PrepareWithoutEvict(r) ==
  LET step == IF Pins(r) THEN "permit" ELSE IF Defaults(r) THEN "look" ELSE "reuse"
  IN
  /\ In(r, "meta")
  /\ IF req[r].refresh
       THEN req' = [req EXCEPT ![r].pc = step, ![r].mark = stores,
                              ![r].moved = current[T(r)]]
       ELSE Goto(r, step)
  /\ UNCHANGED <<lock, cache, free, ext, current, stores>>

\* The metadata is there; a refresh evicts the title's entry.
Prepare(r) ==
  LET t == T(r)
      step == IF Pins(r) THEN "permit" ELSE IF Defaults(r) THEN "look" ELSE "reuse"
  IN
  /\ In(r, "meta")
  /\ IF req[r].refresh
       THEN /\ cache' = [cache EXCEPT ![t] = NoEntry]
            /\ req' = [req EXCEPT ![r].pc = step, ![r].mark = stores,
                                  ![r].moved = current[t]]
       ELSE Goto(r, step) /\ UNCHANGED cache
  /\ UNCHANGED <<lock, free, ext, current, stores>>

\* A cache hit needs no permit.
Look(r) ==
  /\ In(r, "look")
  /\ \/ ServeHit(r)
     \/ ~Hit(T(r)) /\ Goto(r, "permit")
  /\ UNCHANGED <<lock, cache, free, ext, current, stores>>

AcquirePermit(r) ==
  /\ In(r, "permit")
  /\ TakePermit
  /\ Goto(r, "build")
  /\ UNCHANGED <<lock, cache, current, stores>>

\* No permit within resolver_queue_timeout_ms: 429, which the default way
\* takes for "no embed".
RejectPermit(r) ==
  /\ In(r, "permit") /\ free = 0
  /\ IF Pins(r) THEN Ends(r) ELSE FallBack(r)
  /\ UNCHANGED <<cache, free, ext, current, stores>>

\* The second look, after the wait for the permit.
BuildFromCache(r) ==
  /\ In(r, "build") /\ Defaults(r)
  /\ ServeHit(r)
  /\ DropPermit(TRUE)
  /\ UNCHANGED <<lock, cache, current, stores>>

StartRace(r) ==
  /\ In(r, "build")
  /\ Defaults(r) => ~Hit(T(r))
  /\ req' = [req EXCEPT ![r].pc = "race", ![r].flying = {1}]
  /\ UNCHANGED <<lock, cache, free, ext, current, stores>>

\* The first success; the other attempts are dropped.
AttemptWins(r, c) ==
  /\ In(r, "race") /\ c \in req[r].flying
  /\ req' = [req EXCEPT ![r].pc = "won", ![r].got = current[T(r)],
                        ![r].flying = {}, ![r].failed = {}]
  /\ UNCHANGED <<lock, cache, free, ext, current, stores>>

\* Mutant: the race is over when no attempt runs, whoever is still to come.
AttemptFailsAlone(r, c) ==
  LET flying == req[r].flying \ {c} IN
  /\ In(r, "race") /\ c \in req[r].flying
  /\ req' = [req EXCEPT ![r].flying = flying, ![r].failed = @ \cup {c},
                        ![r].pc = IF flying = {} THEN "lost" ELSE "race"]
  /\ UNCHANGED <<lock, cache, free, ext, current, stores>>

\* Mutant: the driver goes on waiting when every attempt has failed.
AttemptFailsUnnoticed(r, c) ==
  LET flying == (req[r].flying \ {c}) \cup NextUp(r) IN
  /\ In(r, "race") /\ c \in req[r].flying
  /\ req' = [req EXCEPT ![r].flying = flying, ![r].failed = @ \cup {c}]
  /\ UNCHANGED <<lock, cache, free, ext, current, stores>>

\* An attempt fails or runs out of time: the next candidate is launched.
AttemptFails(r, c) ==
  LET flying == (req[r].flying \ {c}) \cup NextUp(r) IN
  /\ In(r, "race") /\ c \in req[r].flying
  /\ req' = [req EXCEPT ![r].flying = flying, ![r].failed = @ \cup {c},
                        ![r].pc = IF flying = {} THEN "lost" ELSE "race"]
  /\ UNCHANGED <<lock, cache, free, ext, current, stores>>

\* EXTERNAL_EMBED_HEDGE_STAGGER_MS have passed.
Hedge(r) ==
  /\ In(r, "race") /\ NextUp(r) # {}
  /\ req' = [req EXCEPT ![r].flying = @ \cup NextUp(r)]
  /\ UNCHANGED <<lock, cache, free, ext, current, stores>>

\* The winner's health event is recorded; the default way caches the URL.
PublishWin(r) ==
  /\ In(r, "won")
  /\ IF Defaults(r)
       THEN /\ stores' = stores + 1
            /\ cache' = Stored(T(r), [url |-> req[r].got, fresh |-> TRUE,
                                      by |-> req[r].key, at |-> stores + 1])
       ELSE UNCHANGED <<stores, cache>>
  /\ DropPermit(TRUE)
  /\ Goto(r, "tracks")
  /\ UNCHANGED <<lock, current>>

\* Mutant: the embeds' permit is kept while the torrents ask for theirs.
GiveUpKeepingPermit(r) ==
  /\ In(r, "lost")
  /\ IF Pins(r) THEN DropPermit(FALSE) /\ Ends(r)
     ELSE FallBack(r) /\ UNCHANGED <<free, ext>>
  /\ UNCHANGED <<cache, current, stores>>

GiveUpEmbeds(r) ==
  /\ In(r, "lost")
  /\ DropPermit(FALSE)
  /\ IF Pins(r) THEN Ends(r) ELSE FallBack(r)
  /\ UNCHANGED <<cache, current, stores>>
-----------------------------------------------------------------------------
\* A playback session fits; or none does; or torrents are not configured.
ReuseSession(r) ==
  /\ In(r, "reuse")
  /\ \/ \E p \in {"tracks", "torrentPermit"} : Goto(r, p) /\ UNCHANGED lock
     \/ Ends(r)
  /\ UNCHANGED <<cache, free, ext, current, stores>>

AcquireTorrentPermit(r) ==
  /\ In(r, "torrentPermit")
  /\ TakePermit
  /\ Goto(r, "torrent")
  /\ UNCHANGED <<lock, cache, current, stores>>

RejectTorrentPermit(r) ==
  /\ In(r, "torrentPermit") /\ free = 0
  /\ Ends(r)
  /\ UNCHANGED <<cache, free, ext, current, stores>>

\* The torrent candidates are tried, up to a success.
TryTorrents(r) ==
  /\ In(r, "torrent")
  /\ \/ DropPermit(TRUE) /\ Goto(r, "tracks") /\ UNCHANGED lock
     \/ DropPermit(FALSE) /\ Ends(r)
  /\ UNCHANGED <<cache, current, stores>>

\* Subtitle tracks are attached, still inside the lock; the answer is sent.
Answer(r) ==
  /\ In(r, "tracks")
  /\ Ends(r)
  /\ UNCHANGED <<cache, free, ext, current, stores>>

\* The client goes away: the handler's future and its guards are dropped.
Abandon(r) ==
  /\ ~In(r, "idle") /\ ~In(r, "done")
  /\ IF Holds(r) THEN DropPermit(FALSE) ELSE UNCHANGED <<free, ext>>
  /\ Ends(r)
  /\ UNCHANGED <<cache, current, stores>>
-----------------------------------------------------------------------------
\* RESOLVED_EMBED_CACHE_TTL_MS pass for the entry of t.
Expire(t) ==
  /\ cache[t].fresh
  /\ cache' = [cache EXCEPT ![t].fresh = FALSE]
  /\ UNCHANGED <<req, lock, free, ext, current, stores>>

\* The periodic ResolvedEmbedCache::prune.
Prune ==
  /\ cache' = Swept(cache)
  /\ UNCHANGED <<req, lock, free, ext, current, stores>>

\* The upstream of t stops serving the URL it served.
Move(t) ==
  /\ current[t] < MaxMoves
  /\ current' = [current EXCEPT ![t] = @ + 1]
  /\ UNCHANGED <<req, lock, cache, free, ext, stores>>

Attempt(r) ==
  \E c \in 1..Candidates : AttemptWins(r, c) \/ AttemptFails(r, c)

Embed(r) ==
  \/ AcquirePermit(r) \/ RejectPermit(r)
  \/ BuildFromCache(r) \/ StartRace(r) \/ Attempt(r) \/ Hedge(r)
  \/ PublishWin(r) \/ GiveUpEmbeds(r)

Torrent(r) ==
  \/ ReuseSession(r)
  \/ AcquireTorrentPermit(r) \/ RejectTorrentPermit(r) \/ TryTorrents(r)

RequestStep(r) ==
  \/ Enter(r) \/ MetadataFails(r) \/ Prepare(r) \/ Look(r)
  \/ Embed(r) \/ Torrent(r) \/ Answer(r)

Next ==
  \/ \E r \in Request :
       \/ \E k \in LockKey, rd, refresh \in BOOLEAN : Arrive(r, k, rd, refresh)
       \/ RequestStep(r)
       \/ Abandon(r)
  \/ \E t \in Title : Expire(t) \/ Move(t)
  \/ Prune

Spec == Init /\ [][Next]_vars

(***************************************************************************)
(* Every await has a timeout (the permit's queue, an attempt, upstream     *)
(* HTTP calls) or is a local query, and the locks are FIFO.  The stagger   *)
(* need not run out first, clients and upstreams owe nothing.              *)
(***************************************************************************)
FairSpec == Spec /\ \A r \in Request : SF_vars(RequestStep(r))
-----------------------------------------------------------------------------
Inside == Phase \ {"idle", "lock", "done"}
Early == {"lock", "meta", "look", "permit", "build"}

\* LockHeld: a request past the lock and not ended holds its key's lock.
LockHeld(r) ==
  \A k \in LockKey :
    lock[k] = r <=> (req[r].pc \in Inside /\ req[r].key = k)

RequestOK(r) ==
  /\ req[r].pc \in Inside \cup {"lock"} => req[r].key \in LockKey
  /\ req[r].hit # NoEntry => req[r].pc = "tracks"
  /\ req[r].mark <= stores

(***************************************************************************)
(* RaceComplete: the attempts are launched in the order of the candidates, *)
(* one at least runs while the race does, and a race that yields nothing   *)
(* has tried every candidate, however failures and hedges interleave.      *)
(***************************************************************************)
RaceComplete(r) ==
  /\ req[r].pc \in Early => Launched(r) = {}
  /\ req[r].pc = "race" =>
       /\ req[r].flying # {} /\ req[r].flying \cap req[r].failed = {}
       /\ \E n \in Field(r) : Launched(r) = 1..n
  /\ req[r].pc = "lost" => req[r].failed = Field(r)

Refreshing(r) == req[r].refresh /\ req[r].pc \in {"look", "permit", "build"}

\* SinceEvicted: what a refresh finds was stored after it evicted, by another.
SinceEvicted(r) ==
  Refreshing(r) /\ Kept(cache, T(r)) =>
    cache[T(r)].at > req[r].mark /\ cache[T(r)].by # req[r].key

(***************************************************************************)
(* RefreshGuarded: a refresh is never answered from an entry stored before *)
(* it evicted the title's, nor from one that a request with its own lock   *)
(* key stored: only a resolve with other preferences can come between.     *)
(***************************************************************************)
Guarded(r) ==
  req[r].refresh /\ req[r].hit # NoEntry =>
    req[r].hit.at > req[r].mark /\ req[r].hit.by # req[r].key

RefreshGuarded == \A r \in Request : Guarded(r)

RequestInv(r) ==
  LockHeld(r) /\ RequestOK(r) /\ RaceComplete(r) /\ SinceEvicted(r) /\ Guarded(r)

EmbedInv == TypeOK /\ \A r \in Request : RequestInv(r)

(***************************************************************************)
(* SingleFlight: requests with one lock key are never both between their   *)
(* look at the cache and their store, so the second one finds the entry of *)
(* the first instead of asking the providers again.                        *)
(***************************************************************************)
Resolving(r) == req[r].pc \in {"look", "permit", "build", "race", "won"}

SingleFlight ==
  \A r, s \in Request :
    Resolving(r) /\ Resolving(s) /\ req[r].key = req[s].key => r = s

(***************************************************************************)
(* ExternalAccounted: nobody holds two permits, none is lost whoever fails *)
(* or leaves, and of the resolves ResolverStats reports as started each is *)
(* active, completed or failed.                                            *)
(***************************************************************************)
ExternalAccounted ==
  /\ free + Cardinality({r \in Request : Holds(r)}) = MaxConcurrent
  /\ ext.active = MaxConcurrent - free
  /\ ext.started = ext.active + ext.completed + ext.failed

(***************************************************************************)
(* ResolveEnds: every request ends, whatever the providers do and however  *)
(* many wait for the same lock and for the permits.                        *)
(***************************************************************************)
ResolveEnds == \A r \in Request : ~In(r, "idle") ~> In(r, "done")

(***************************************************************************)
(* RefreshRecovers: resolver.rs says of the eviction "so a stale/dead      *)
(* upstream URL can't be re-served on the recovery path": the cached URL a *)
(* refresh is answered with is one the upstream served at the eviction or  *)
(* later.                                                                  *)
(***************************************************************************)
RefreshRecovers ==
  \A r \in Request :
    req[r].refresh /\ req[r].hit # NoEntry => req[r].hit.url >= req[r].moved
=============================================================================
