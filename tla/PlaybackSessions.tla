--------------------------- MODULE PlaybackSessions ---------------------------
(***************************************************************************)
(* The table playback_sessions (persistence.rs) of one title: for a user   *)
(* and preferred language, the source that was resolved, how far it was    *)
(* played, and whether it still is thought to work.  A resolve of          *)
(* resolver.rs first tries to reuse a row, and stores what it answers; a   *)
(* player reports its position, and that a source failed.                  *)
(*                                                                         *)
(* Every access is a task of its own on the blocking pool, with its own    *)
(* connection; nothing holds a row from one access to the next.  (A call   *)
(* whose client goes away ends after the access it is in.)  The counts of  *)
(* failures and the texts of the errors are left out.                      *)
(***************************************************************************)
EXTENDS Integers, Sequences

CONSTANTS
  Session,   \* session keys with a language: real-debrid:user:<id>:<tmdb>:en:..
  Legacy,    \* the key <tmdb>:auto:<quality> of earlier versions
  Access,    \* calls of the resolver and of POST /api/session/progress
  Source,
  NoSource,
  MaxReports \* bound on positions reported: position n is that of report n

ASSUME SessionAssumption ==
  /\ Legacy \notin Session /\ NoSource \notin Source /\ MaxReports \in Nat
  /\ (Session \cup {Legacy}) \cap (Source \cup {NoSource}) = {}

VARIABLES
  row,      \* the rows
  access,   \* the calls: where they are, and the row they hold
  reports,  \* positions reported so far
  lastPos,  \* history: the position last stored by a report
  failed,   \* history: sources reported to have failed, and not chosen since
  undone    \* history: keys and sources for which an older state came back

sessionVars == <<row, access, reports, lastPos, failed, undone>>

Keys == Session \cup {Legacy}
NoRow == [source |-> NoSource, pos |-> 0, valid |-> FALSE]
Rows == [source : Source \cup {NoSource}, pos : 0..MaxReports, valid : BOOLEAN]
\* A call: its row, and those it may look at after it; its own key.
Resting == [pc |-> "idle", key |-> Legacy, old |-> FALSE, held |-> NoRow,
            rest |-> <<>>, own |-> Legacy]

Looks == [key : Keys, old : BOOLEAN, held : Rows]
Accesses ==
  [pc : {"idle", "check", "mark", "store", "upsert", "report", "blame"},
   key : Keys, old : BOOLEAN, held : Rows, rest : Seq(Looks), own : Keys]

SessionTypeOK ==
  /\ row \in [Keys -> Rows] /\ access \in [Access -> Accesses]
  /\ reports \in 0..MaxReports /\ lastPos \in [Keys -> 0..MaxReports]
  /\ failed \subseteq Source /\ undone \subseteq Keys \cup Source

SessionInit ==
  /\ \E s \in Source \cup {NoSource} :
       row = [k \in Keys |-> IF k = Legacy /\ s # NoSource
                             THEN [source |-> s, pos |-> 0, valid |-> TRUE]
                             ELSE NoRow]
  /\ access = [a \in Access |-> Resting]
  /\ reports = 0 /\ lastPos = [k \in Keys |-> 0]
  /\ failed = {} /\ undone = {}

OnlySource(held) == [NoRow EXCEPT !.source = held.source]
InStep(a, p) == access[a].pc = p
StepTo(a, p) == access' = [access EXCEPT ![a].pc = p]
Rest(a) == access' = [access EXCEPT ![a] = Resting]
Usable(k) == row[k] # NoRow /\ row[k].valid
-----------------------------------------------------------------------------
\* A row that was taken up now, or earlier.
Taken(j) == [key |-> j, old |-> FALSE, held |-> row[j]]

\* A resolve for the key k looks at what it has taken up, in order.
LookAt(taken, k) ==
  IF taken = <<>> THEN Resting
  ELSE [pc |-> "check", key |-> Head(taken).key, old |-> Head(taken).old,
        held |-> Head(taken).held, rest |-> Tail(taken), own |-> k]

(***************************************************************************)
(* try_reuse_playback_session: the row of the key that the player asks     *)
(* for, if it is one of the user's, or else of the resolve's own.          *)
(***************************************************************************)
TryReuse(a, k, j) ==
  /\ InStep(a, "idle") /\ Legacy \notin {k, j} /\ Usable(j)
  /\ access' = [access EXCEPT ![a] = LookAt(<<Taken(j)>>, k)]
  /\ UNCHANGED <<row, reports, lastPos, failed, undone>>

(***************************************************************************)
(* try_reuse_latest_healthy_playback_session: the usable rows of the title *)
(* are read at once, and those that the filters let pass looked at, the    *)
(* latest first.  (The times of the rows are left out: any order may be.)  *)
(***************************************************************************)
TryLatest(a, k) ==
  /\ InStep(a, "idle") /\ k # Legacy
  /\ \E i, j \in Session :
       /\ Usable(i) /\ Usable(j) /\ i # j
       /\ access' = [access EXCEPT ![a] = LookAt(<<Taken(i), Taken(j)>>, k)]
  /\ UNCHANGED <<row, reports, lastPos, failed, undone>>

\* The row is of another film, or its URL no longer answers a HEAD ...
CheckFails(a) ==
  /\ InStep(a, "check")
  /\ access' = [access EXCEPT ![a].pc = "mark", ![a].old = FALSE,
                               ![a].held.source = NoSource, ![a].held.valid = FALSE]
  /\ UNCHANGED <<row, reports, lastPos, failed, undone>>

\* ... or is that of another episode: it is passed over.
PassOver(a) ==
  /\ InStep(a, "check")
  /\ access' = [access EXCEPT ![a] = LookAt(@.rest, @.own)]
  /\ UNCHANGED <<row, reports, lastPos, failed, undone>>

\* UPDATE: position and health of the row, if there still is one.
Write(a, position, valid) ==
  LET k == access[a].key IN
  IF row[k] = NoRow THEN UNCHANGED row
  ELSE row' = [row EXCEPT ![k].pos = position, ![k].valid = valid]

\* What comes back if k's row holds the position p again, and is valid.
Back(k, p, valid) ==
  IF row[k] = NoRow THEN {}
  ELSE {l \in {k} : p # lastPos[l]} \cup
       {s \in failed : valid /\ s = row[k].source}

\* ... invalidate_playback_session, with the position read before.
MarkInvalid(a) ==
  /\ InStep(a, "mark")
  /\ Write(a, access[a].held.pos, FALSE)
  /\ undone' = undone \cup Back(access[a].key, access[a].held.pos, FALSE)
  /\ access' = [access EXCEPT ![a] = LookAt(@.rest, @.own)]
  /\ UNCHANGED <<reports, lastPos, failed>>

\* A source is resolved anew, or the one reused is good (its validation
\* window is set forth first, if that was due).
ResolveAnew(a, k, s) ==
  /\ InStep(a, "idle") /\ k # Legacy
  /\ access' = [access EXCEPT ![a] = [Resting EXCEPT !.pc = "store", !.key = k,
                                                     !.held.source = s]]
  /\ UNCHANGED <<row, reports, lastPos, failed, undone>>

CheckPasses(a) ==
  /\ InStep(a, "check")
  /\ access' = [access EXCEPT ![a] = [Resting EXCEPT !.pc = "store", !.key = access[a].own,
                                                     !.old = access[a].old,
                                                     !.held = OnlySource(access[a].held)]]
  /\ UNCHANGED <<row, reports, lastPos, failed, undone>>

(***************************************************************************)
(* build_resolved_response, after the probes: persist_playback_session     *)
(* reads the row there is, or else the one build_related_playback_...      *)
(* names, which for every key of today is the legacy key ...               *)
(***************************************************************************)
StoreReads(a) ==
  LET k == access[a].key
      from == IF row[k] = NoRow THEN Legacy ELSE k IN
  /\ InStep(a, "store")
  /\ access' = [access EXCEPT ![a].pc = "upsert", ![a].held.pos = row[from].pos]
  /\ UNCHANGED <<row, reports, lastPos, failed, undone>>

\* Mutant: the position is updated with the rest.
StoreWritesAll(a) ==
  LET k == access[a].key
      s == access[a].held.source IN
  /\ InStep(a, "upsert")
  /\ row' = [row EXCEPT ![k] = [access[a].held EXCEPT !.valid = TRUE],
                        ![Legacy] = NoRow]
  /\ failed' = IF access[a].old THEN failed ELSE failed \ {s}
  /\ undone' = IF access[a].old THEN undone \cup ({s} \cap failed) ELSE undone \ {s}
  /\ Rest(a)
  /\ UNCHANGED <<lastPos, reports>>

\* ... and in a transaction inserts the new row, or updates all but the
\* position, and deletes the legacy row.
StoreWrites(a) ==
  LET k == access[a].key
      s == access[a].held.source
      fresh == row[k] = NoRow
      pos == IF fresh THEN access[a].held.pos ELSE row[k].pos
      due == IF ~fresh THEN lastPos[k]
             ELSE IF row[Legacy] # NoRow THEN lastPos[Legacy] ELSE pos IN
  /\ InStep(a, "upsert")
  /\ row' = [row EXCEPT ![k] = [source |-> s, pos |-> pos, valid |-> TRUE],
                        ![Legacy] = NoRow]
  /\ lastPos' = [lastPos EXCEPT ![k] = due, ![Legacy] = 0]
  /\ failed' = IF access[a].old THEN failed ELSE failed \ {s}
  /\ undone' = ((IF access[a].old THEN undone \cup ({s} \cap failed) ELSE undone \ {s})
                \ {l \in {k} : fresh}) \cup {l \in {k} : fresh /\ pos # due}
  /\ Rest(a)
  /\ UNCHANGED reports
-----------------------------------------------------------------------------
(***************************************************************************)
(* session_progress_handler: the row of the key in the report, or without  *)
(* one the legacy row, or else the latest row of the title.  What the      *)
(* report does not say, position or health, is taken from that row.        *)
(* (Here old means: the position is not of this report.)                   *)
(***************************************************************************)
ReportReads(a, k) ==
  /\ InStep(a, "idle") /\ row[k] # NoRow
  /\ \E s \in Source \cup {NoSource}, new \in BOOLEAN, v \in {row[k].valid, FALSE} :
       /\ new => reports < MaxReports
       /\ v => s = NoSource
       /\ reports' = IF new THEN reports + 1 ELSE reports
       /\ access' = [access EXCEPT ![a] =
            [Resting EXCEPT !.pc = "report", !.key = k, !.old = ~new,
                            !.held = [source |-> s, valid |-> v,
                                      pos |-> IF new THEN reports + 1 ELSE row[k].pos]]]
  /\ UNCHANGED <<row, lastPos, failed, undone>>

\* update_playback_session_progress; a row that is gone is an error.
ReportWrites(a) ==
  LET k == access[a].key
      held == access[a].held IN
  /\ InStep(a, "report")
  /\ Write(a, held.pos, held.valid)
  /\ IF access[a].old \/ row[k] = NoRow
     THEN /\ undone' = undone \cup Back(k, held.pos, held.valid)
          /\ UNCHANGED lastPos
     ELSE /\ undone' = (undone \ {k}) \cup (Back(k, held.pos, held.valid) \ {k})
          /\ lastPos' = [lastPos EXCEPT ![k] = held.pos]
  /\ IF row[k] = NoRow \/ held.valid \/ held.source = NoSource
     THEN Rest(a)
     ELSE access' = [access EXCEPT ![a].pc = "blame", ![a].old = FALSE,
                                   ![a].held = OnlySource(@)]
  /\ UNCHANGED <<reports, failed>>

Marked(ks) == [k \in Keys |-> [row[k] EXCEPT !.valid = @ /\ k \notin ks]]

\* Mutant: only the row of the report.
BlameOwn(a) == {access[a].key}

Blame(a) == {k \in Keys : Usable(k) /\ row[k].source = access[a].held.source}

\* What was taken up before the blame is old.
Overtaken(taken, s) ==
  [i \in DOMAIN taken |-> [taken[i] EXCEPT !.old = @ \/ taken[i].held.source = s]]

\* invalidate_playback_sessions_by_source_hash
BlameSource(a) ==
  LET s == access[a].held.source IN
  /\ InStep(a, "blame")
  /\ row' = Marked(Blame(a))
  /\ failed' = failed \cup {s} /\ undone' = undone \ {s}
  /\ access' = [b \in Access |->
       IF b = a THEN Resting
       ELSE [access[b] EXCEPT
               !.old = @ \/ (access[b].held.source = s /\ ~InStep(b, "report")),
               !.rest = Overtaken(@, s)]]
  /\ UNCHANGED <<reports, lastPos>>
-----------------------------------------------------------------------------
\* DELETE of the title's settings; trim_table, when rows of other titles
\* are stored and these are the oldest.
DropRows(ks) ==
  /\ row' = [k \in Keys |-> IF k \in ks THEN NoRow ELSE row[k]]
  /\ lastPos' = [k \in Keys |-> IF k \in ks THEN 0 ELSE lastPos[k]]
  /\ undone' = undone \ ks
  /\ UNCHANGED <<access, reports, failed>>

ClearTitle == DropRows(Keys)
TrimRow(k) == row[k] # NoRow /\ DropRows({k})

\* An access fails, the client goes away, or all calls end with the process.
GiveUpAccess(a) ==
  /\ ~InStep(a, "idle")
  /\ Rest(a)
  /\ UNCHANGED <<row, reports, lastPos, failed, undone>>

SessionNext ==
  \/ \E a \in Access, k \in Keys :
       \/ TryLatest(a, k) \/ ReportReads(a, k)
       \/ \E j \in Keys : TryReuse(a, k, j)
       \/ \E s \in Source : ResolveAnew(a, k, s)
  \/ \E a \in Access :
       \/ CheckFails(a) \/ PassOver(a) \/ MarkInvalid(a) \/ CheckPasses(a)
       \/ StoreReads(a) \/ StoreWrites(a)
       \/ ReportWrites(a) \/ BlameSource(a) \/ GiveUpAccess(a)
  \/ ClearTitle \/ \E k \in Keys : TrimRow(k)

SessionSpec == SessionInit /\ [][SessionNext]_sessionVars
-----------------------------------------------------------------------------
(***************************************************************************)
(* FailedHidden: once a report that a source failed has been dealt with,   *)
(* no row, of whatever user and language, offers that source for reuse     *)
(* before it is chosen anew; unless a resolve that had taken it up before  *)
(* stores it afterwards, or a report without a health state writes back    *)
(* the one it had read.                                                    *)
(***************************************************************************)
FailedHidden ==
  \A k \in Keys : Usable(k) /\ row[k].source \in failed => row[k].source \in undone

(***************************************************************************)
(* PositionKept: a row holds the position last reported for it, however    *)
(* often its source is resolved anew meanwhile, and takes over that of the *)
(* legacy row it replaces; unless a call wrote back, or carried over, one  *)
(* it had read earlier (invalidate_playback_session does, after seconds).  *)
(***************************************************************************)
PositionKept ==
  \A k \in Keys : row[k] # NoRow => row[k].pos = lastPos[k] \/ k \in undone

SessionsInv == SessionTypeOK /\ FailedHidden /\ PositionKept
=============================================================================
