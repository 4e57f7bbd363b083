------------------------------ MODULE WatchHistory ------------------------------
(***************************************************************************)
(* What the server keeps of one user's watching: the titles watched, and   *)
(* how far (user_watch_progress), the cards to continue with, of a series  *)
(* only its latest episode (user_continue_watching), and My List.          *)
(* Handlers of routes.rs change them by statements of persistence.rs that  *)
(* each commit on their own; requests of several devices interleave.       *)
(*                                                                         *)
(* An episode's card is recognised by its series or by its TMDB id: here   *)
(* Series of the title.  Positions, times and the cards' other contents    *)
(* are left out.                                                           *)
(***************************************************************************)
EXTENDS Naturals, FiniteSets

CONSTANTS
  Title,      \* source identities: episodes and movies
  NoTitle,
  Series,     \* Series[t]: the series of an episode, or the movie itself
  Request,
  MaxList     \* USER_SYNC_MAX_ENTRIES

ASSUME HistoryAssumption ==
  DOMAIN Series = Title /\ Title # {} /\ MaxList \in Nat

VARIABLES
  progress,  \* titles with a row of user_watch_progress
  cards,     \* rows of user_continue_watching
  myList,    \* rows of user_my_list
  job,      \* requests: where they are, and what they hold
  removed,   \* history: series removed, and not watched since
  wanted,    \* history: series with a card that was stored and not removed
  clashed,     \* history: series whose cards two requests stored at once
  broken,    \* history: series whose card's update ended half way
  listed,    \* history: what My List is if merges are not interrupted
  lapsed     \* history: a merge wrote a list read before another request's

cardVars == <<cards, wanted, clashed, broken>>
listVars == <<myList, listed, lapsed>>
historyVars == <<progress, removed, cardVars, listVars, job>>

Phases == {"clear", "insert", "wipe", "list", "merge"}
Lists == {s \in SUBSET Title : Cardinality(s) <= MaxList}
Unused == [pc |-> "idle", title |-> NoTitle, sync |-> FALSE, mine |-> {},
           held |-> {}, alone |-> TRUE]

HistoryJob == [pc : Phases, title : Title, sync : BOOLEAN,
               mine : SUBSET Title, held : Lists, alone : BOOLEAN]
HistoryJobs == [Request -> HistoryJob \cup {Unused}]
HistoryTypeOK ==
  /\ progress \subseteq Title /\ removed \subseteq {Series[t] : t \in Title}
  /\ cards \subseteq Title /\ {myList, listed} \subseteq SUBSET Title
  /\ job \in HistoryJobs

HistoryInit ==
  /\ progress = {} /\ removed = {}
  /\ cards = {} /\ wanted = {} /\ clashed = {} /\ broken = {}
  /\ myList = {} /\ listed = {} /\ lapsed = FALSE
  /\ job = [q \in Request |-> Unused]

SiblingsOf(t) == {u \in Title : Series[u] = Series[t]}
Mine(q) == job[q].title
ShowOf(q) == Series[Mine(q)]
Working(q, p) == job[q].pc = p
To(q, p) == job' = [job EXCEPT ![q].pc = p]
-----------------------------------------------------------------------------
\* upsert_user_watch_progress: whatever the row says, also if it is newer
Progress(t) ==
  /\ progress' = progress \cup {t}
  /\ removed' = removed \ {Series[t]}

\* PUT /api/user/watch-progress
PutProgress(t) ==
  /\ Progress(t)
  /\ UNCHANGED <<cardVars, listVars, job>>

ForgetProgress(t) ==
  /\ progress' = progress \ SiblingsOf(t)
  /\ removed' = removed \cup {Series[t]}

\* DELETE /api/user/watch-progress: all of a series
DeleteProgress(t) ==
  /\ ForgetProgress(t)
  /\ UNCHANGED <<cardVars, listVars, job>>

\* POST /api/user/sync, after signing in: what the browser had kept, of a
\* title and of My List.
Sync(q, t, mine) ==
  /\ Working(q, "idle")
  /\ Progress(t)
  /\ job' = [job EXCEPT ![q] = [Unused EXCEPT !.pc = "clear", !.title = t,
                                               !.sync = TRUE, !.mine = mine]]
  /\ UNCHANGED <<cardVars, listVars>>
-----------------------------------------------------------------------------
\* PUT /api/user/continue-watching: upsert_user_continue_watching
PutCard(q, t) ==
  /\ Working(q, "idle")
  /\ job' = [job EXCEPT ![q] = [Unused EXCEPT !.pc = "clear", !.title = t]]
  /\ UNCHANGED <<progress, removed, cardVars, listVars>>

\* Mutant: a series is not looked for.
ClearNothing(q) ==
  /\ Working(q, "clear")
  /\ job' = [job EXCEPT ![q].pc = "insert", ![q].alone = TRUE]
  /\ UNCHANGED <<progress, removed, cardVars, listVars>>

\* The other episodes' cards go,
ClearSiblings(q) ==
  /\ Working(q, "clear")
  /\ cards' = cards \ (SiblingsOf(Mine(q)) \ {Mine(q)})
  /\ job' = [job EXCEPT ![q].pc = "insert", ![q].alone = TRUE]
  /\ UNCHANGED <<progress, removed, wanted, clashed, broken, listVars>>

\* then this one's comes; a sync goes on to My List.
InsertCard(q) ==
  /\ Working(q, "insert")
  /\ cards' = cards \cup {Mine(q)}
  /\ wanted' = wanted \cup {ShowOf(q)} /\ broken' = broken \ {ShowOf(q)}
  /\ clashed' = IF job[q].alone /\ ~\E r \in Request \ {q} :
                     Working(r, "insert") /\ ShowOf(r) = ShowOf(q)
              THEN clashed \ {ShowOf(q)} ELSE clashed \cup {ShowOf(q)}
  /\ job' = [r \in Request |->
                IF r = q THEN IF job[q].sync THEN [job[q] EXCEPT !.pc = "list"]
                              ELSE Unused
                ELSE IF Working(r, "insert") /\ ShowOf(r) = ShowOf(q)
                     THEN [job[r] EXCEPT !.alone = FALSE]
                ELSE job[r]]
  /\ UNCHANGED <<progress, removed, listVars>>

\* DELETE /api/user/continue-watching: the cards, then the progress.
DeleteCard(q, t) ==
  /\ Working(q, "idle")
  /\ cards' = cards \ SiblingsOf(t)
  /\ wanted' = wanted \ {Series[t]} /\ broken' = broken \ {Series[t]}
  /\ job' = [job EXCEPT ![q] = [Unused EXCEPT !.pc = "wipe", !.title = t]]
  /\ UNCHANGED <<progress, removed, clashed, listVars>>

WipeProgress(q) ==
  /\ Working(q, "wipe")
  /\ ForgetProgress(Mine(q))
  /\ job' = [job EXCEPT ![q] = Unused]
  /\ UNCHANGED <<cardVars, listVars>>
-----------------------------------------------------------------------------
\* The requests that hold a list read before this write
Outdated == [r \in Request |-> IF Working(r, "merge")
                                THEN [job[r] EXCEPT !.alone = FALSE] ELSE job[r]]

\* PUT /api/user/my-list: replace_user_my_list
PutList(s) ==
  /\ myList' = s /\ listed' = s /\ lapsed' = FALSE
  /\ job' = Outdated
  /\ UNCHANGED <<progress, removed, cardVars>>

ReadList(q) ==
  /\ Working(q, "list")
  /\ job' = [job EXCEPT ![q].pc = "merge", ![q].held = myList, ![q].alone = TRUE]
  /\ UNCHANGED <<progress, removed, cardVars, listVars>>

\* Mutant: the list is as long as it gets.
FitsAny(q, new) == new = job[q].mine \ job[q].held

\* As many new entries as there is room for.
Fits(q, new) ==
  /\ new \subseteq job[q].mine \ job[q].held
  /\ job[q].held \cup new \in Lists
  /\ Cardinality(job[q].held \cup new) = MaxList \/ job[q].mine \subseteq job[q].held \cup new

MergeList(q) ==
  /\ Working(q, "merge")
  /\ \E new \in SUBSET Title :
       /\ Fits(q, new)
       /\ myList' = job[q].held \cup new /\ listed' = listed \cup new
  /\ lapsed' = (lapsed \/ ~job[q].alone)
  /\ job' = [Outdated EXCEPT ![q] = Unused]
  /\ UNCHANGED <<progress, removed, cardVars>>
-----------------------------------------------------------------------------
\* A statement fails or the process ends, and with it the request.
EndEarly(q) ==
  /\ ~Working(q, "idle")
  /\ broken' = IF Working(q, "insert") /\ cards \cap SiblingsOf(Mine(q)) = {}
               THEN broken \cup {ShowOf(q)} ELSE broken
  /\ job' = [job EXCEPT ![q] = Unused]
  /\ UNCHANGED <<progress, removed, cards, wanted, clashed, listVars>>

HistoryNext ==
  \/ \E t \in Title : PutProgress(t) \/ DeleteProgress(t)
  \/ \E q \in Request, t \in Title : PutCard(q, t) \/ DeleteCard(q, t)
  \/ \E q \in Request, t \in Title, mine \in Lists : Sync(q, t, mine)
  \/ \E q \in Request : \/ ClearSiblings(q) \/ InsertCard(q) \/ WipeProgress(q)
                        \/ ReadList(q) \/ MergeList(q) \/ EndEarly(q)
  \/ \E s \in Lists : PutList(s)

HistorySpec == HistoryInit /\ [][HistoryNext]_historyVars
-----------------------------------------------------------------------------
(***************************************************************************)
(* ListRight: My List is within its limit, and is what the last device to  *)
(* send the whole list made it, with all that later signings-in added;     *)
(* unless one of those had read the list before another request wrote it.  *)
(***************************************************************************)
ListRight == myList \in Lists /\ (~lapsed => myList = listed)

(***************************************************************************)
(* CardsRight: a series has one card, that of the episode stored last,     *)
(* unless two requests stored cards of it at once; and a card that was     *)
(* stored is there until it is removed, but between the two statements     *)
(* that replace it and after an update that ended between them.  Nothing   *)
(* is left of a series that was removed, until it is watched again.        *)
(***************************************************************************)
CardsRight ==
  /\ \A t \in progress : Series[t] \notin removed
  /\ \A t \in cards : Series[t] \in clashed \/ cards \cap SiblingsOf(t) = {t}
  /\ \A s \in wanted : \/ s \in broken \/ \E t \in cards : Series[t] = s
                       \/ \E q \in Request : Working(q, "insert") /\ ShowOf(q) = s

(***************************************************************************)
(* HistoryInv: the cards and the list are right, whatever requests and     *)
(* devices meet.                                                           *)
(***************************************************************************)
HistoryInv == HistoryTypeOK /\ CardsRight /\ ListRight
=============================================================================
