----------------------------- MODULE HomeBootstrap -----------------------------
(***************************************************************************)
(* home_bootstrap.rs: the home page's payload is kept in memory, rebuilt   *)
(* in the background when it is 15 minutes old, and persisted for the next *)
(* start.  A rebuild asks TMDB for every rail; one that it does not get is *)
(* taken from the payload before.  A payload is the set of its rails that  *)
(* are not empty.                                                          *)
(***************************************************************************)
CONSTANTS Visitor, Rail, Warming

\* Warming is no payload.
ASSUME HomeAssumption == \A payload \in SUBSET Rail : payload # Warming

VARIABLES
  cachedHome, \* HomeBootstrapCacheInner.cached, or Warming
  homeStale,  \* the payload in memory is due
  savedHome,  \* the row of home_bootstrap_cache, or Warming
  inFlight,   \* refresh_in_flight
  refresh,    \* the task of spawn_refresh
  panicked,   \* it has panicked, in this process
  visit,      \* requests for the page
  shown,      \* history: rails that a visitor has seen
  blind       \* history: the row was not to be read, or not written

homeVars ==
  <<cachedHome, homeStale, savedHome, inFlight, refresh, panicked, visit, shown, blind>>

Payload == SUBSET Rail
NoRefresh == [pc |-> "none", previous |-> {}]
NoVisit == [pc |-> "away", row |-> Warming]

HomeTypeOK ==
  /\ cachedHome \in {Warming} \cup Payload /\ savedHome \in {Warming} \cup Payload
  /\ homeStale \in BOOLEAN /\ inFlight \in BOOLEAN
  /\ panicked \in BOOLEAN /\ blind \in BOOLEAN
  /\ refresh \in [pc : {"none", "previous", "build", "persist", "clear"},
                  previous : Payload]
  /\ visit \in [Visitor -> [pc : {"away", "read", "restore"},
                           row : {Warming} \cup Payload]]
  /\ shown \subseteq Rail

\* main starts the first refresh; the row is of an earlier process.
HomeInit ==
  /\ savedHome \in {Warming} \cup Payload /\ cachedHome = Warming
  /\ homeStale = FALSE /\ inFlight = TRUE
  /\ refresh = [NoRefresh EXCEPT !.pc = "previous"] /\ panicked = FALSE
  /\ visit = [v \in Visitor |-> NoVisit]
  /\ shown = {} /\ blind = FALSE

\* spawn_refresh: swap(true)
SpawnRefresh(wanted) ==
  /\ inFlight' = (inFlight \/ wanted)
  /\ refresh' = IF wanted /\ ~inFlight
                THEN [NoRefresh EXCEPT !.pc = "previous"] ELSE refresh

ServeHome(v, payload) ==
  /\ visit' = [visit EXCEPT ![v] = NoVisit]
  /\ shown' = shown \cup payload
-----------------------------------------------------------------------------
\* payload_or_refresh, with a payload in memory ...
VisitCached(v) ==
  /\ visit[v].pc = "away" /\ cachedHome # Warming
  /\ ServeHome(v, cachedHome)
  /\ SpawnRefresh(homeStale)
  /\ UNCHANGED <<cachedHome, homeStale, savedHome, blind, panicked>>

\* ... or without one: then the row is read,
VisitUncached(v) ==
  /\ visit[v].pc = "away" /\ cachedHome = Warming
  /\ visit' = [visit EXCEPT ![v].pc = "read"]
  /\ UNCHANGED <<cachedHome, homeStale, savedHome, inFlight, refresh, shown, blind, panicked>>

ReadRow(v) ==
  /\ visit[v].pc = "read"
  /\ \/ /\ savedHome # Warming
        /\ visit' = [visit EXCEPT ![v] = [pc |-> "restore", row |-> savedHome]]
        /\ UNCHANGED <<inFlight, refresh, shown>>
     \/ ServeHome(v, {}) /\ SpawnRefresh(TRUE)
  /\ UNCHANGED <<cachedHome, homeStale, savedHome, blind, panicked>>

\* Mutant: whatever a refresh has stored meanwhile.
RestoreOver(v) ==
  /\ visit[v].pc = "restore"
  /\ cachedHome' = visit[v].row
  /\ homeStale' \in BOOLEAN
  /\ ServeHome(v, cachedHome')
  /\ SpawnRefresh(homeStale')
  /\ UNCHANGED <<savedHome, blind, panicked>>

\* and put into memory, unless a refresh was done meanwhile.
Restore(v) ==
  /\ visit[v].pc = "restore"
  /\ IF cachedHome # Warming THEN UNCHANGED <<cachedHome, homeStale>>
     ELSE cachedHome' = visit[v].row /\ homeStale' \in BOOLEAN
  /\ ServeHome(v, cachedHome')
  /\ SpawnRefresh(homeStale')
  /\ UNCHANGED <<savedHome, blind, panicked>>
-----------------------------------------------------------------------------
\* The rails of the payload in memory, or else of the row.
KeptRails == IF cachedHome # Warming THEN cachedHome
             ELSE IF savedHome # Warming THEN savedHome ELSE {}

\* The payload before; an error is nothing.
ReadPrevious ==
  /\ refresh.pc = "previous"
  /\ \/ /\ refresh' = [pc |-> "build", previous |-> KeptRails]
        /\ UNCHANGED blind
     \/ /\ cachedHome = Warming
        /\ refresh' = [NoRefresh EXCEPT !.pc = "build"] /\ blind' = TRUE
  /\ UNCHANGED <<cachedHome, homeStale, savedHome, inFlight, visit, shown, panicked>>

\* Mutant: rails that did not come are empty.
RailsFresh(got) == got

\* rail_payload_or_previous, genres_or_previous
Rails(got) == got \cup refresh.previous

\* build_home_bootstrap and store_payload.
Build ==
  /\ refresh.pc = "build"
  /\ \E got \in Payload : cachedHome' = Rails(got)
  /\ homeStale' = FALSE
  /\ refresh' = [NoRefresh EXCEPT !.pc = "persist"]
  /\ UNCHANGED <<savedHome, inFlight, visit, shown, blind, panicked>>

\* Mutant: the task ends there.
BuildFailsAtOnce ==
  /\ refresh.pc = "build"
  /\ refresh' = NoRefresh
  /\ UNCHANGED <<cachedHome, homeStale, savedHome, inFlight, visit, shown, blind, panicked>>

\* library.json cannot be read: all the rails are thrown away with it.
BuildFails ==
  /\ refresh.pc = "build"
  /\ refresh' = [NoRefresh EXCEPT !.pc = "clear"]
  /\ UNCHANGED <<cachedHome, homeStale, savedHome, inFlight, visit, shown, blind, panicked>>

Persist ==
  /\ refresh.pc = "persist"
  /\ \/ savedHome' = cachedHome /\ UNCHANGED blind
     \/ blind' = TRUE /\ UNCHANGED savedHome
  /\ refresh' = [NoRefresh EXCEPT !.pc = "clear"]
  /\ UNCHANGED <<cachedHome, homeStale, inFlight, visit, shown, panicked>>

ClearFlag ==
  /\ refresh.pc = "clear"
  /\ inFlight' = FALSE /\ refresh' = NoRefresh
  /\ UNCHANGED <<cachedHome, homeStale, savedHome, visit, shown, blind, panicked>>

\* The task unwinds: the flag is lowered in its last statement, by no guard.
RefreshPanics ==
  /\ refresh.pc \notin {"none", "clear"}
  /\ refresh' = NoRefresh /\ panicked' = TRUE
  /\ blind' = (blind \/ refresh.pc = "persist")
  /\ UNCHANGED <<cachedHome, homeStale, savedHome, inFlight, visit, shown>>
-----------------------------------------------------------------------------
GrowStale ==
  /\ cachedHome # Warming /\ ~homeStale
  /\ homeStale' = TRUE
  /\ UNCHANGED <<cachedHome, savedHome, inFlight, refresh, visit, shown, blind, panicked>>

\* clear_persistent_caches
DeleteRow ==
  /\ savedHome # Warming
  /\ savedHome' = Warming /\ blind' = TRUE
  /\ UNCHANGED <<cachedHome, homeStale, inFlight, refresh, visit, shown, panicked>>

RestartHome ==
  /\ cachedHome' = Warming /\ homeStale' = FALSE /\ inFlight' = TRUE
  /\ refresh' = [NoRefresh EXCEPT !.pc = "previous"]
  /\ visit' = [v \in Visitor |-> NoVisit]
  /\ blind' = (blind \/ refresh.pc = "persist")
  /\ panicked' = FALSE
  /\ UNCHANGED <<savedHome, shown>>

Refreshing == ReadPrevious \/ Build \/ BuildFails \/ Persist \/ ClearFlag

HomeNext ==
  \/ \E v \in Visitor :
       VisitCached(v) \/ VisitUncached(v) \/ ReadRow(v) \/ Restore(v)
  \/ Refreshing \/ RefreshPanics \/ GrowStale \/ DeleteRow \/ RestartHome

\* Every fetch of a refresh has a timeout; that it panics is never due.
HomeSpec == HomeInit /\ [][HomeNext]_homeVars /\ WF_homeVars(Refreshing)
-----------------------------------------------------------------------------
(***************************************************************************)
(* RailsKept: a flaky moment of TMDB does not blank a rail that visitors   *)
(* could already see: the payload in memory, or the row if there is none,  *)
(* has every rail shown so far; unless the row could once not be read or   *)
(* written, or was deleted.                                                *)
(***************************************************************************)
RailsKept == HomeTypeOK /\ (~blind => shown \subseteq KeptRails)

(***************************************************************************)
(* RefreshAgain: the flag that keeps a second refresh out is lowered       *)
(* whichever way the first ends, so that a later visitor starts another;   *)
(* unless the process is restarted time and again, or the task panics,     *)
(* which nothing but a restart makes good.                                 *)
(***************************************************************************)
RefreshAgain ==
  \/ []<>(~inFlight /\ refresh = NoRefresh)
  \/ []<><<RestartHome>>_homeVars
  \/ <>[]panicked
=============================================================================
