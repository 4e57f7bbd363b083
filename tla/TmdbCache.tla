------------------------------- MODULE TmdbCache -------------------------------
(***************************************************************************)
(* tmdb.rs: what TMDB says, kept in memory and in the database.  A request *)
(* looks in memory, then in the database, and asks TMDB if neither has an  *)
(* answer that is still good; nothing keeps two requests from doing so at  *)
(* once.  The time that the metadata of a series is good for is counted    *)
(* anew whenever it is read.  A restart leaves the database.               *)
(*                                                                         *)
(* An answer is the day on which TMDB gave it.  A request reads several    *)
(* pages, at once in the code and one after the other here.                *)
(***************************************************************************)
EXTENDS Integers, FiniteSets, Sequences

CONSTANTS
  Page,        \* what is asked for, by cache key
  Sliding,     \* is_tv_metadata_cache_path
  Ttl,         \* get_tmdb_cache_ttl_ms, of each
  MinDelta,    \* TMDB_RESPONSE_CACHE_EXTEND_MIN_DELTA_MS
  MaxKept,     \* TMDB_RESPONSE_CACHE_MAX_ENTRIES
  UnusedAge,   \* TMDB_CACHE_EVICTION_AGE_MS
  Reader,      \* requests
  Wants,       \* [pages, warm]: what a request may read, and how
  LastDay      \* bound: the clock stops there

ASSUME TmdbAssumption ==
  /\ Sliding \subseteq Page /\ Ttl \in [Page -> Nat \ {0}]
  /\ MinDelta \in Nat \ {0} /\ MaxKept \in Nat \ {0} /\ UnusedAge \in Nat
  /\ \A p \in Sliding : MinDelta <= Ttl[p]
  /\ \A want \in Wants : want.pages \in Seq(Page) \ {<< >>} /\ want.warm \in BOOLEAN
  /\ LastDay \in Nat

VARIABLES
  day,       \* the clock
  memory,    \* TmdbService.cache
  table,     \* tmdb_response_cache
  reader,    \* the requests
  asked,     \* when a page was last asked for
  told,      \* the newest answer that a request has had of a page
  raced      \* pages that TMDB has given to one request while another was asking
             \* for them, or bringing them into memory, or had stored them

tmdbVars == <<day, memory, table, reader, asked, told, raced>>

NoCopy == [from |-> -1, expires |-> -1, used |-> -1]
CopySet == [from : -1 .. day, expires : {-1} \cup Nat, used : -1 .. day]
Absent == [pc |-> "absent", left |-> << >>, warm |-> FALSE, extend |-> -1,
           copy |-> NoCopy, since |-> 0, began |-> << >>, got |-> << >>]

TmdbTypeOK ==
  /\ day \in 0 .. LastDay /\ raced \subseteq Page
  /\ memory \in [Page -> CopySet] /\ table \in [Page -> CopySet]
  /\ asked \in [Page -> -1 .. day] /\ told \in [Page -> -1 .. day]
  /\ reader = [r \in Reader |-> reader[r]]
  /\ \A r \in Reader :
       reader[r].pc \in {"absent", "memory", "touch", "lengthen", "forget", "table",
                         "delete", "revive", "insert", "ask", "keep", "store",
                         "answered", "failed"}

TmdbInit ==
  /\ day = 0 /\ raced = {}
  /\ memory = [p \in Page |-> NoCopy] /\ table = [p \in Page |-> NoCopy]
  /\ reader = [r \in Reader |-> Absent]
  /\ asked = [p \in Page |-> -1] /\ told = [p \in Page |-> -1]
-----------------------------------------------------------------------------
PageOf(r) == Head(reader[r].left)
GoodCopy(copy) == copy # NoCopy /\ copy.expires > day

Later(a, b) == IF a < b THEN b ELSE a

\* Mutant: the time is added to what is left of it.
ExtensionOf(r, expires) ==
  IF reader[r].extend - expires >= MinDelta THEN expires + Ttl[PageOf(r)] ELSE expires

\* cache_extension_expires_at: not for less than a day.
Extension(r, expires) ==
  IF reader[r].extend - expires >= MinDelta THEN reader[r].extend ELSE expires

\* The look at the next page begins.
Looking(rec, left) ==
  [rec EXCEPT !.pc = "memory", !.left = left, !.copy = NoCopy, !.since = day,
              !.extend = IF Head(left) \in Sliding THEN day + Ttl[Head(left)] ELSE -1]

\* The request has an answer to its page, and goes on to the next.
Tell(r, from) ==
  LET rec == [reader[r] EXCEPT !.got = Append(@, <<PageOf(r), from>>)]
      left == Tail(rec.left)
  IN /\ reader' = [reader EXCEPT
                     ![r] = IF left = << >> THEN [rec EXCEPT !.pc = "answered", !.left = left]
                            ELSE Looking(rec, left)]
     /\ told' = [told EXCEPT ![PageOf(r)] = Later(@, from)]
     /\ asked' = IF left = << >> THEN asked ELSE [asked EXCEPT ![Head(left)] = day]

\* A page fails.  A warm-up goes on, unless it is its first.
Miss(r) ==
  LET left == Tail(reader[r].left)
      goes == reader[r].warm /\ reader[r].got # << >> /\ left # << >>
  IN /\ reader' = [reader EXCEPT ![r] = IF goes THEN Looking(@, left)
                                        ELSE [@ EXCEPT !.pc = "failed"]]
     /\ asked' = IF goes THEN [asked EXCEPT ![Head(left)] = day] ELSE asked
     /\ UNCHANGED told

Step(r, pc) == /\ reader' = [reader EXCEPT ![r].pc = pc]
               /\ UNCHANGED <<told, asked>>

\* trim_cache, after each insertion.
Trimmed(copies) ==
  IF Cardinality({p \in Page : copies[p] # NoCopy}) <= MaxKept THEN copies
  ELSE [p \in Page |-> IF copies[p].used > day - UnusedAge THEN copies[p] ELSE NoCopy]

InsertCopy(p, from, expires) ==
  memory' = Trimmed([memory EXCEPT
                       ![p] = [from |-> from, expires |-> expires, used |-> day]])
-----------------------------------------------------------------------------
\* fetch, fetch_movie_metadata, fetch_tv_episode_metadata, the handlers of
\* TMDB's pages, and warm_tv_metadata_candidate.
AskPage(r) ==
  /\ reader[r].pc = "absent"
  /\ \E want \in Wants :
       /\ reader' = [reader EXCEPT
                       ![r] = Looking([Absent EXCEPT !.warm = want.warm, !.began = told],
                                      want.pages)]
       /\ asked' = [asked EXCEPT ![Head(want.pages)] = day]
  /\ UNCHANGED <<day, memory, table, told, raced>>

\* get_cached_response, which lets the shard go before it takes it again.
LookInMemory(r) ==
  LET copy == memory[PageOf(r)] IN
  /\ reader[r].pc = "memory"
  /\ IF copy = NoCopy THEN Step(r, "table")
     ELSE /\ reader' = [reader EXCEPT ![r].pc = IF GoodCopy(copy) THEN "touch" ELSE "forget",
                                      ![r].copy = copy]
          /\ UNCHANGED <<told, asked>>
  /\ UNCHANGED <<day, memory, table, raced>>

\* Whatever is there by now is marked as used, and lengthened.
TouchCopy(r) ==
  LET p == PageOf(r)
      expires == Extension(r, reader[r].copy.expires)
      longer == expires # reader[r].copy.expires
  IN /\ reader[r].pc = "touch"
     /\ memory' = IF memory[p] = NoCopy THEN memory
                  ELSE [memory EXCEPT ![p].used = day,
                                      ![p].expires = IF longer THEN expires ELSE @]
     /\ IF longer THEN Step(r, "lengthen") ELSE Tell(r, reader[r].copy.from)
     /\ UNCHANGED <<day, table, raced>>

\* extend_tmdb_cache_expiration
Lengthened(r) ==
  LET p == PageOf(r)
      expires == Extension(r, reader[r].copy.expires)
  IN [table EXCEPT ![p].expires = IF table[p] # NoCopy THEN Later(@, expires) ELSE @]

LengthenRow(r) ==
  /\ reader[r].pc = "lengthen"
  /\ table' = Lengthened(r) /\ Tell(r, reader[r].copy.from)
  /\ UNCHANGED <<day, memory, raced>>

\* Whatever is there by now is removed.
ForgetCopy(r) ==
  /\ reader[r].pc = "forget"
  /\ memory' = [memory EXCEPT ![PageOf(r)] = NoCopy] /\ Step(r, "table")
  /\ UNCHANGED <<day, table, raced>>

\* get_tmdb_cache reads, and then deletes what is too old.
LookInTable(r) ==
  LET copy == table[PageOf(r)] IN
  /\ reader[r].pc = "table"
  /\ IF copy = NoCopy THEN Step(r, "ask")
     ELSE IF ~GoodCopy(copy) THEN Step(r, "delete")
     ELSE /\ reader' = [reader EXCEPT
                          ![r].copy = copy,
                          ![r].pc = IF Extension(r, copy.expires) # copy.expires
                                    THEN "revive" ELSE "insert"]
          /\ UNCHANGED <<told, asked>>
  /\ UNCHANGED <<day, memory, table, raced>>

DeleteRow(r) ==
  /\ reader[r].pc = "delete"
  /\ table' = [table EXCEPT ![PageOf(r)] = NoCopy] /\ Step(r, "ask")
  /\ UNCHANGED <<day, memory, raced>>

ReviveRow(r) ==
  /\ reader[r].pc = "revive"
  /\ table' = Lengthened(r) /\ Step(r, "insert")
  /\ UNCHANGED <<day, memory, raced>>

InsertRow(r) ==
  /\ reader[r].pc = "insert"
  /\ InsertCopy(PageOf(r), reader[r].copy.from, Extension(r, reader[r].copy.expires))
  /\ Tell(r, reader[r].copy.from)
  /\ UNCHANGED <<day, table, raced>>

Bringing(r, p) ==
  reader[r].pc \in {"revive", "insert", "ask", "keep", "store"} /\ PageOf(r) = p

TmdbAnswers(r) ==
  /\ reader[r].pc = "ask"
  /\ reader' = [reader EXCEPT ![r].pc = "keep", ![r].copy.from = day]
  /\ raced' = IF \/ table[PageOf(r)] # NoCopy
                 \/ \E q \in Reader \ {r} : Bringing(q, PageOf(r))
              THEN raced \cup {PageOf(r)} ELSE raced
  /\ UNCHANGED <<day, memory, table, asked, told>>

KeepAnswer(r) ==
  /\ reader[r].pc = "keep"
  /\ InsertCopy(PageOf(r), reader[r].copy.from, day + Ttl[PageOf(r)])
  /\ reader' = [reader EXCEPT ![r].pc = "store",
                              ![r].copy.expires = day + Ttl[PageOf(r)]]
  /\ UNCHANGED <<day, table, asked, told, raced>>

\* set_tmdb_cache
StoreRow(r) ==
  LET copy == reader[r].copy IN
  /\ reader[r].pc = "store"
  /\ table' = [table EXCEPT ![PageOf(r)] = [copy EXCEPT !.used = -1]]
  /\ Tell(r, copy.from)
  /\ UNCHANGED <<day, memory, raced>>

\* TMDB fails, or the database does: what is in memory does not help.
PageFails(r) ==
  /\ reader[r].pc \in {"lengthen", "table", "delete", "revive", "ask", "store"}
  /\ Miss(r)
  /\ UNCHANGED <<day, memory, table, raced>>

\* The answer is out, or the client goes.
ReaderLeaves(r) ==
  /\ reader[r].pc # "absent" /\ reader' = [reader EXCEPT ![r] = Absent]
  /\ UNCHANGED <<day, memory, table, asked, told, raced>>

\* sweep_cache_db, and trim_table.
RowIsSwept(p) ==
  /\ table[p] # NoCopy /\ table' = [table EXCEPT ![p] = NoCopy]
  /\ UNCHANGED <<day, memory, reader, asked, told, raced>>

ServerRestarts ==
  /\ memory' = [p \in Page |-> NoCopy] /\ reader' = [r \in Reader |-> Absent]
  /\ UNCHANGED <<day, table, asked, told, raced>>

\* A page takes less than a day: TMDB has twenty seconds.
DayPasses ==
  /\ \A r \in Reader : reader[r].pc \in {"absent", "answered", "failed"}
                       \/ reader[r].since = day
  /\ day < LastDay /\ day' = day + 1
  /\ UNCHANGED <<memory, table, reader, asked, told, raced>>

TmdbNext ==
  \/ \E r \in Reader :
       \/ AskPage(r) \/ LookInMemory(r) \/ TouchCopy(r) \/ LengthenRow(r)
       \/ ForgetCopy(r) \/ LookInTable(r) \/ DeleteRow(r) \/ ReviveRow(r)
       \/ InsertRow(r) \/ TmdbAnswers(r) \/ KeepAnswer(r) \/ StoreRow(r)
       \/ PageFails(r) \/ ReaderLeaves(r)
  \/ \E p \in Page : RowIsSwept(p)
  \/ ServerRestarts \/ DayPasses

TmdbSpec == TmdbInit /\ [][TmdbNext]_tmdbVars
-----------------------------------------------------------------------------
Copies(p) == {memory[p], table[p]} \ {NoCopy}

\* A copy is good for its time after TMDB gave it; that of a series, after it
\* was last asked for.  (A day more, if it came at midnight.)
CopiesEnd ==
  \A p \in Page : \A copy \in Copies(p) :
    copy.expires <= (IF p \in Sliding THEN asked[p] ELSE copy.from) + Ttl[p] + 1

\* Nobody is told something older than what someone had been told before he
\* asked, unless two requests have fetched the page at the same time.
ReadsForward ==
  \A r \in Reader : \A i \in DOMAIN reader[r].got :
    LET p == reader[r].got[i][1] IN
    p \notin raced => reader[r].got[i][2] >= reader[r].began[p]

\* What is in the database is not newer than what is in memory, with the same
\* exception: a restart never brings news.
RowsFollow ==
  \A p \in Page \ raced :
    memory[p] # NoCopy /\ table[p] # NoCopy => table[p].from <= memory[p].from

(***************************************************************************)
(* TmdbSound: whatever requests, failures, restarts, sweeps and midnights  *)
(* come between the steps of a request, what TMDB said is not used for too *)
(* long, readers do not go back in time, and the table follows the memory. *)
(***************************************************************************)
TmdbSound == TmdbTypeOK /\ CopiesEnd /\ ReadsForward /\ RowsFollow
=============================================================================
