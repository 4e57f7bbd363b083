---------------------------- MODULE PlaybackProofs ----------------------------
(***************************************************************************)
(* What leads from a title to a stream keeps its promises for any number   *)
(* of calls, users, sources and torrents: the rows of playback_sessions,   *)
(* the torrents on a debrid account, the card that follows them, the       *)
(* torrents the server downloads itself, how sources are found and which   *)
(* of them are tried first.                                                *)
(***************************************************************************)
EXTENDS PlaybackSessions, DebridResolve, ContinueSource, TorrentCache,
        SourceDiscovery, SourceRanking, DataLemmas, FiniteSetTheorems,
        FunctionTheorems, SequenceTheorems, WellFoundedInduction, TLAPS

(***************************************************************************)
(* SessionsInv, the rows of playback_sessions.  Only a source is blamed.   *)
(***************************************************************************)
BlamesSource ==
  \A a \in Access : access[a].pc = "blame" => access[a].held.source \in Source
SessionIInv == SessionsInv /\ BlamesSource

LEMMA RowTypes ==
  /\ NoRow \in Rows /\ Resting \in Accesses /\ Resting.pc = "idle"
  /\ \A k \in Keys : k \notin Source /\ k # NoSource
  /\ 0 \in 0..MaxReports
  /\ NoRow.pos = 0 /\ NoRow.valid = FALSE /\ NoRow.source = NoSource
BY SessionAssumption DEF NoRow, Rows, Resting, Accesses, Keys, Looks

LEMMA SessionIInvInit == SessionInit => SessionIInv
<1> SUFFICES ASSUME SessionInit PROVE SessionIInv
  OBVIOUS
<1>1. PICK s \in Source \cup {NoSource} :
        row = [k \in Keys |-> IF k = Legacy /\ s # NoSource
                              THEN [source |-> s, pos |-> 0, valid |-> TRUE] ELSE NoRow]
  BY DEF SessionInit
<1>2. [source |-> s, pos |-> 0, valid |-> TRUE] \in Rows
  BY SessionAssumption DEF Rows
<1>3. row \in [Keys -> Rows]
  BY <1>1, <1>2, RowTypes
<1>4. SessionTypeOK
  BY <1>3, RowTypes DEF SessionInit, SessionTypeOK
<1>5. FailedHidden /\ PositionKept
  BY <1>1, RowTypes DEF SessionInit, FailedHidden, PositionKept
<1>6. BlamesSource
  BY RowTypes DEF SessionInit, BlamesSource
<1>7. QED
  BY <1>4, <1>5, <1>6 DEF SessionIInv, SessionsInv

LEMMA LookAtTypes ==
  ASSUME NEW taken \in Seq(Looks), NEW k \in Keys
  PROVE  LookAt(taken, k) \in Accesses /\ LookAt(taken, k).pc \in {"idle", "check"}
<1>1. CASE taken = <<>>
  BY <1>1, RowTypes DEF LookAt
<1>2. CASE taken # <<>>
  <2>1. Head(taken) \in Looks /\ Tail(taken) \in Seq(Looks)
    BY <1>2
  <2>2. /\ Head(taken).key \in Keys /\ Head(taken).old \in BOOLEAN /\ Head(taken).held \in Rows
    BY <2>1 DEF Looks
  <2>3. QED
    BY <1>2, <2>1, <2>2 DEF LookAt, Accesses
<1>3. QED
  BY <1>1, <1>2

\* Steps that move one call and write nothing.
LEMMA ReadingStep ==
  ASSUME SessionIInv, NEW a \in Access, NEW x \in Accesses,
         access' = [access EXCEPT ![a] = x], x.pc # "blame",
         UNCHANGED <<row, lastPos, failed, undone>>, reports' \in 0..MaxReports
  PROVE  SessionIInv'
<1>1. access' \in [Access -> Accesses]
  BY DEF SessionIInv, SessionsInv, SessionTypeOK
<1>2. SessionTypeOK'
  BY <1>1 DEF SessionIInv, SessionsInv, SessionTypeOK
<1>3. FailedHidden' /\ PositionKept'
  BY DEF SessionIInv, SessionsInv, FailedHidden, PositionKept, Usable
<1>4. BlamesSource'
  BY DEF SessionIInv, SessionsInv, SessionTypeOK, BlamesSource
<1>5. QED
  BY <1>2, <1>3, <1>4 DEF SessionIInv, SessionsInv

LEMMA SessionIInvNext == SessionIInv /\ [SessionNext]_sessionVars => SessionIInv'
<1> SUFFICES ASSUME SessionIInv, [SessionNext]_sessionVars PROVE SessionIInv'
  OBVIOUS
<1>0. /\ row \in [Keys -> Rows] /\ access \in [Access -> Accesses]
      /\ reports \in 0..MaxReports /\ lastPos \in [Keys -> 0..MaxReports]
      /\ failed \subseteq Source /\ undone \subseteq Keys \cup Source
      /\ FailedHidden /\ PositionKept /\ BlamesSource
  BY DEF SessionIInv, SessionsInv, SessionTypeOK
<1>a. ASSUME NEW a \in Access
       PROVE  /\ access[a] \in Accesses /\ access[a].key \in Keys /\ access[a].own \in Keys
              /\ access[a].held \in Rows /\ access[a].rest \in Seq(Looks)
              /\ access[a].old \in BOOLEAN
              /\ access[a].held.pos \in 0..MaxReports
              /\ access[a].held.source \in Source \cup {NoSource}
              /\ access[a].held.valid \in BOOLEAN
  BY <1>0 DEF Accesses, Rows
<1>1. ASSUME NEW a \in Access, NEW k \in Keys, TryLatest(a, k) PROVE SessionIInv'
  <2>1. PICK i \in Session, j \in Session :
          access' = [access EXCEPT ![a] = LookAt(<<Taken(i), Taken(j)>>, k)]
    BY <1>1 DEF TryLatest
  <2>2. <<Taken(i), Taken(j)>> \in Seq(Looks)
    BY <1>0 DEF Taken, Looks, Keys
  <2>3. UNCHANGED <<row, reports, lastPos, failed, undone>>
    BY <1>1 DEF TryLatest
  <2>4. QED
    BY <1>0, <2>1, <2>2, <2>3, LookAtTypes, ReadingStep
<1>2. ASSUME NEW a \in Access, NEW k \in Keys, NEW j \in Keys, TryReuse(a, k, j)
      PROVE  SessionIInv'
  <2>1. /\ access' = [access EXCEPT ![a] = LookAt(<<Taken(j)>>, k)]
        /\ UNCHANGED <<row, reports, lastPos, failed, undone>>
    BY <1>2 DEF TryReuse
  <2>2. <<Taken(j)>> \in Seq(Looks)
    BY <1>0 DEF Taken, Looks
  <2>3. QED
    BY <1>0, <2>1, <2>2, LookAtTypes, ReadingStep
<1>3. ASSUME NEW a \in Access, CheckFails(a) PROVE SessionIInv'
  <2> DEFINE x == [access[a] EXCEPT !.pc = "mark", !.old = FALSE,
                      !.held = [access[a].held EXCEPT !.source = NoSource, !.valid = FALSE]]
  <2>1. /\ access' = [access EXCEPT ![a].pc = "mark", ![a].old = FALSE,
                               ![a].held.source = NoSource, ![a].held.valid = FALSE]
        /\ UNCHANGED <<row, reports, lastPos, failed, undone>>
    BY <1>3 DEF CheckFails
  <2>2. access' = [access EXCEPT ![a] = x]
    BY <1>0, <1>a, <2>1 DEF Accesses
  <2>3. x \in Accesses /\ x.pc = "mark"
    BY <1>a DEF Accesses, Rows
  <2>4. QED
    BY <1>0, <2>1, <2>2, <2>3, ReadingStep
<1>4. ASSUME NEW a \in Access, PassOver(a) PROVE SessionIInv'
  <2>1. /\ access' = [access EXCEPT ![a] = LookAt(access[a].rest, access[a].own)]
        /\ UNCHANGED <<row, reports, lastPos, failed, undone>>
    BY <1>0, <1>4 DEF PassOver
  <2>2. QED
    BY <1>0, <1>a, <2>1, LookAtTypes, ReadingStep
<1>5. ASSUME NEW a \in Access, NEW k \in Keys, NEW s \in Source, ResolveAnew(a, k, s)
      PROVE  SessionIInv'
  <2> DEFINE x == [Resting EXCEPT !.pc = "store", !.key = k, !.held.source = s]
  <2>1. /\ access' = [access EXCEPT ![a] = x] /\ UNCHANGED <<row, reports, lastPos, failed, undone>>
    BY <1>5 DEF ResolveAnew
  <2>2. x \in Accesses /\ x.pc = "store"
    BY RowTypes DEF Accesses, Resting, Rows, NoRow
  <2>3. QED
    BY <1>0, <2>1, <2>2, ReadingStep
<1>6. ASSUME NEW a \in Access, CheckPasses(a) PROVE SessionIInv'
  <2> DEFINE x == [Resting EXCEPT !.pc = "store", !.key = access[a].own,
                                  !.old = access[a].old, !.held = OnlySource(access[a].held)]
  <2>1. /\ access' = [access EXCEPT ![a] = x] /\ UNCHANGED <<row, reports, lastPos, failed, undone>>
    BY <1>6 DEF CheckPasses
  <2>2. OnlySource(access[a].held) \in Rows
    BY <1>a, RowTypes DEF OnlySource, Rows, NoRow
  <2>3. x \in Accesses /\ x.pc = "store"
    BY <1>a, <2>2, RowTypes DEF Accesses, Resting
  <2>4. QED
    BY <1>0, <2>1, <2>3, ReadingStep
<1>7. ASSUME NEW a \in Access, StoreReads(a) PROVE SessionIInv'
  <2>1. PICK from \in Keys : access' = [access EXCEPT ![a].pc = "upsert", ![a].held.pos = row[from].pos]
    BY <1>a, <1>7 DEF StoreReads, Keys
  <2>2. row[from].pos \in 0..MaxReports
    BY <1>0 DEF Rows
  <2> DEFINE x == [access[a] EXCEPT !.pc = "upsert",
                      !.held = [access[a].held EXCEPT !.pos = row[from].pos]]
  <2>3. access' = [access EXCEPT ![a] = x]
    BY <1>0, <1>a, <2>1 DEF Accesses
  <2>4. x \in Accesses /\ x.pc = "upsert"
    BY <1>a, <2>2 DEF Accesses, Rows
  <2>5. UNCHANGED <<row, reports, lastPos, failed, undone>>
    BY <1>7 DEF StoreReads
  <2>6. QED
    BY <1>0, <2>3, <2>4, <2>5, ReadingStep
<1>8. ASSUME NEW a \in Access, NEW k \in Keys, ReportReads(a, k) PROVE SessionIInv'
  <2>1. PICK s \in Source \cup {NoSource}, new \in BOOLEAN, v \in {row[k].valid, FALSE} :
          /\ new => reports < MaxReports
          /\ reports' = IF new THEN reports + 1 ELSE reports
          /\ access' = [access EXCEPT ![a] =
               [Resting EXCEPT !.pc = "report", !.key = k, !.old = ~new,
                               !.held = [source |-> s, valid |-> v,
                                         pos |-> IF new THEN reports + 1 ELSE row[k].pos]]]
    BY <1>8 DEF ReportReads
  <2>2. UNCHANGED <<row, lastPos, failed, undone>>
    BY <1>8 DEF ReportReads
  <2>3. PICK p \in 0..MaxReports : p = IF new THEN reports + 1 ELSE row[k].pos
    BY <1>0, <2>1, SessionAssumption DEF Rows
  <2> DEFINE held == [source |-> s, valid |-> v, pos |-> p]
  <2>4. held \in Rows
    BY <1>0 DEF Rows
  <2> DEFINE x == [Resting EXCEPT !.pc = "report", !.key = k, !.old = ~new, !.held = held]
  <2>5. x \in Accesses /\ x.pc = "report"
    <3> HIDE DEF held
    <3>1. QED
      BY <2>4, RowTypes DEF Accesses, Resting
  <2>6. access' = [access EXCEPT ![a] = x] /\ reports' \in 0..MaxReports
    BY <1>0, <2>1, <2>3, SessionAssumption
  <2>7. QED
    BY <2>2, <2>5, <2>6, ReadingStep
<1>9. ASSUME NEW a \in Access, GiveUpAccess(a) PROVE SessionIInv'
  BY <1>0, <1>9, RowTypes, ReadingStep DEF GiveUpAccess, Rest
<1>10. ASSUME NEW a \in Access, MarkInvalid(a) PROVE SessionIInv'
  <2>1. PICK k \in Keys, p \in 0..MaxReports : k = access[a].key /\ p = access[a].held.pos
    BY <1>a
  <2>2. /\ IF row[k] = NoRow THEN UNCHANGED row
           ELSE row' = [row EXCEPT ![k].pos = p, ![k].valid = FALSE]
        /\ undone' = undone \cup Back(k, p, FALSE)
        /\ access' = [access EXCEPT ![a] = LookAt(access[a].rest, access[a].own)]
        /\ UNCHANGED <<reports, lastPos, failed>>
    BY <1>0, <1>10, <2>1 DEF MarkInvalid, Write
  <2>3. Back(k, p, FALSE) = IF row[k] # NoRow /\ p # lastPos[k] THEN {k} ELSE {}
    BY DEF Back
  <2>4. PICK x \in Accesses : x.pc # "blame" /\ access' = [access EXCEPT ![a] = x]
    BY <1>a, <2>2, LookAtTypes
  <2>5. access' \in [Access -> Accesses] /\ BlamesSource'
    BY <1>0, <2>4 DEF BlamesSource
  <2>6. CASE row[k] = NoRow
    BY <1>0, <2>2, <2>3, <2>5, <2>6
       DEF SessionIInv, SessionsInv, SessionTypeOK, FailedHidden, PositionKept, Usable
  <2>7. CASE row[k] # NoRow
    <3>1. row' = [row EXCEPT ![k] = [source |-> row[k].source, pos |-> p, valid |-> FALSE]]
      BY <1>0, <2>2, <2>7 DEF Rows
    <3>2. row' \in [Keys -> Rows]
      BY <1>0, <3>1 DEF Rows
    <3>3. SessionTypeOK'
      BY <1>0, <2>2, <2>3, <2>5, <3>2 DEF SessionTypeOK
    <3>4. FailedHidden'
      BY <1>0, <2>2, <3>1, RowTypes DEF FailedHidden, Usable
    <3>5. PositionKept'
      BY <1>0, <2>2, <2>3, <2>7, <3>1 DEF PositionKept
    <3>6. QED
      BY <2>5, <3>3, <3>4, <3>5 DEF SessionIInv, SessionsInv
  <2>8. QED
    BY <2>6, <2>7
<1>11. ASSUME NEW a \in Access, StoreWrites(a) PROVE SessionIInv'
  <2>1. PICK k \in Keys, s \in Source \cup {NoSource}, fresh \in BOOLEAN, old \in BOOLEAN :
          k = access[a].key /\ s = access[a].held.source /\ fresh = (row[k] = NoRow)
          /\ old = access[a].old
    BY <1>a
  <2>2. PICK pos \in 0..MaxReports : pos = IF fresh THEN access[a].held.pos ELSE row[k].pos
    BY <1>0, <1>a DEF Rows
  <2>3. PICK due \in 0..MaxReports :
          due = IF ~fresh THEN lastPos[k]
                ELSE IF row[Legacy] # NoRow THEN lastPos[Legacy] ELSE pos
    BY <1>0 DEF Keys
  <2>4. /\ row' = [row EXCEPT ![k] = [source |-> s, pos |-> pos, valid |-> TRUE],
                              ![Legacy] = NoRow]
        /\ lastPos' = [lastPos EXCEPT ![k] = due, ![Legacy] = 0]
        /\ failed' = IF old THEN failed ELSE failed \ {s}
        /\ undone' = ((IF old THEN undone \cup ({s} \cap failed) ELSE undone \ {s})
                      \ {l \in {k} : fresh}) \cup {l \in {k} : fresh /\ pos # due}
        /\ access' = [access EXCEPT ![a] = Resting]
        /\ UNCHANGED reports
    BY <1>11, <2>1, <2>2, <2>3 DEF StoreWrites, Rest
  <2>5. [source |-> s, pos |-> pos, valid |-> TRUE] \in Rows
    BY DEF Rows
  <2>6. row' \in [Keys -> Rows]
    BY <1>0, <2>4, <2>5, RowTypes
  <2>7. access' \in [Access -> Accesses] /\ BlamesSource'
    BY <1>0, <2>4, RowTypes DEF BlamesSource
  <2>8. failed' \subseteq Source /\ undone' \subseteq Keys \cup Source
    BY <1>0, <2>4
  <2>9. lastPos' \in [Keys -> 0..MaxReports]
    BY <1>0, <2>4, RowTypes
  <2>10. SessionTypeOK'
    BY <1>0, <2>4, <2>6, <2>7, <2>8, <2>9 DEF SessionTypeOK
  <2>11. FailedHidden'
    <3> SUFFICES ASSUME NEW j \in Keys, Usable(j)', row'[j].source \in failed'
                 PROVE  row'[j].source \in undone'
      BY DEF FailedHidden
    <3>1. j # Legacy /\ row'[j].source \in Source
      BY <1>0, <2>4, <2>8 DEF Usable, Keys
    <3>2. CASE j = k
      BY <1>0, <2>4, <3>1, <3>2, RowTypes
    <3>3. CASE j # k
      <4>1. row'[j] = row[j] /\ Usable(j)
        BY <1>0, <2>4, <3>1, <3>3 DEF Usable
      <4>2. row[j].source \in failed /\ row[j].source \in undone
        BY <1>0, <2>4, <4>1 DEF FailedHidden
      <4>3. QED
        BY <2>4, <3>1, <4>1, <4>2, RowTypes
    <3>4. QED
      BY <3>2, <3>3
  <2>12. PositionKept'
    <3> SUFFICES ASSUME NEW j \in Keys, row'[j] # NoRow
                 PROVE  row'[j].pos = lastPos'[j] \/ j \in undone'
      BY DEF PositionKept
    <3>1. j # Legacy
      BY <1>0, <2>4 DEF Keys
    <3>2. CASE j = k
      <4>1. row'[j].pos = pos /\ lastPos'[j] = due
        BY <1>0, <2>4, <3>1, <3>2
      <4>2. CASE fresh
        BY <2>4, <3>2, <4>1, <4>2
      <4>3. CASE ~fresh
        <5>1. pos = lastPos[k] \/ k \in undone
          BY <1>0, <2>1, <2>2, <4>3 DEF PositionKept
        <5>2. QED
          BY <2>1, <2>3, <2>4, <3>2, <4>1, <4>3, <5>1, RowTypes
      <4>4. QED
        BY <4>2, <4>3
    <3>3. CASE j # k
      <4>1. row'[j] = row[j] /\ lastPos'[j] = lastPos[j]
        BY <1>0, <2>4, <3>1, <3>3
      <4>2. row[j].pos = lastPos[j] \/ j \in undone
        BY <1>0, <4>1 DEF PositionKept
      <4>3. j # s
        BY RowTypes
      <4>4. QED
        BY <2>4, <3>3, <4>1, <4>2, <4>3
    <3>4. QED
      BY <3>2, <3>3
  <2>13. QED
    BY <2>7, <2>10, <2>11, <2>12 DEF SessionIInv, SessionsInv
<1>12. ASSUME NEW a \in Access, ReportWrites(a) PROVE SessionIInv'
  <2>1. PICK k \in Keys, held \in Rows, old \in BOOLEAN :
          k = access[a].key /\ held = access[a].held /\ old = access[a].old
    BY <1>a
  <2>2. /\ held.pos \in 0..MaxReports /\ held.valid \in BOOLEAN
        /\ held.source \in Source \cup {NoSource}
    BY <2>1 DEF Rows
  <2>3. /\ IF row[k] = NoRow THEN UNCHANGED row
           ELSE row' = [row EXCEPT ![k].pos = held.pos, ![k].valid = held.valid]
        /\ IF old \/ row[k] = NoRow
           THEN /\ undone' = undone \cup Back(k, held.pos, held.valid)
                /\ UNCHANGED lastPos
           ELSE /\ undone' = (undone \ {k}) \cup (Back(k, held.pos, held.valid) \ {k})
                /\ lastPos' = [lastPos EXCEPT ![k] = held.pos]
        /\ IF row[k] = NoRow \/ held.valid \/ held.source = NoSource
           THEN access' = [access EXCEPT ![a] = Resting]
           ELSE access' = [access EXCEPT ![a].pc = "blame", ![a].old = FALSE,
                                         ![a].held = OnlySource(access[a].held)]
        /\ UNCHANGED <<reports, failed>>
    BY <1>0, <1>12, <2>1 DEF ReportWrites, Write, Rest
  <2>4. access' \in [Access -> Accesses] /\ BlamesSource'
    <3>1. CASE row[k] = NoRow \/ held.valid \/ held.source = NoSource
      BY <1>0, <2>3, <3>1, RowTypes DEF BlamesSource
    <3>2. CASE ~(row[k] = NoRow \/ held.valid \/ held.source = NoSource)
      <4> DEFINE x == [access[a] EXCEPT !.pc = "blame", !.old = FALSE, !.held = OnlySource(held)]
      <4>1. access' = [access EXCEPT ![a] = x]
        BY <1>0, <1>a, <2>1, <2>3, <3>2, ZenonT(40) DEF Accesses
      <4>2. OnlySource(held) \in Rows /\ OnlySource(held).source \in Source
        BY <2>2, <3>2, RowTypes DEF OnlySource, Rows, NoRow
      <4>3. x \in Accesses /\ x.held.source \in Source
        BY <1>a, <4>2 DEF Accesses
      <4>4. QED
        BY <1>0, <4>1, <4>3 DEF BlamesSource
    <3>3. QED
      BY <3>1, <3>2
  <2>5. CASE row[k] = NoRow
    <3>1. Back(k, held.pos, held.valid) = {}
      BY <2>5 DEF Back
    <3>2. QED
      BY <1>0, <2>3, <2>4, <2>5, <3>1
         DEF SessionIInv, SessionsInv, SessionTypeOK, FailedHidden, PositionKept, Usable
  <2>6. CASE row[k] # NoRow
    <3>1. row' = [row EXCEPT ![k] = [source |-> row[k].source, pos |-> held.pos,
                                     valid |-> held.valid]]
      BY <1>0, <2>3, <2>6 DEF Rows
    <3>2. row' \in [Keys -> Rows]
      BY <1>0, <2>2, <3>1 DEF Rows
    <3>3. Back(k, held.pos, held.valid) =
            {l \in {k} : held.pos # lastPos[l]} \cup
            {s \in failed : held.valid /\ s = row[k].source}
      BY <2>6 DEF Back
    <3>4. undone' \subseteq Keys \cup Source /\ lastPos' \in [Keys -> 0..MaxReports]
      BY <1>0, <2>2, <2>3, <3>3
    <3>5. SessionTypeOK'
      BY <1>0, <2>3, <2>4, <3>2, <3>4 DEF SessionTypeOK
    <3>6. FailedHidden'
      <4> SUFFICES ASSUME NEW j \in Keys, Usable(j)', row'[j].source \in failed'
                   PROVE  row'[j].source \in undone'
        BY DEF FailedHidden
      <4>1. row'[j].source = row[j].source /\ row[j].source \in failed /\ row[j].source # k
        BY <1>0, <2>3, <3>1, RowTypes
      <4>2. CASE j = k
        <5>1. held.valid
          BY <1>0, <3>1, <4>2 DEF Usable
        <5>2. QED
          BY <2>3, <3>3, <4>1, <4>2, <5>1
      <4>3. CASE j # k
        <5>1. Usable(j)
          BY <1>0, <3>1, <4>3 DEF Usable
        <5>2. row[j].source \in undone
          BY <1>0, <4>1, <5>1 DEF FailedHidden
        <5>3. QED
          BY <2>3, <4>1, <5>2
      <4>4. QED
        BY <4>2, <4>3
    <3>7. PositionKept'
      <4> SUFFICES ASSUME NEW j \in Keys, row'[j] # NoRow
                   PROVE  row'[j].pos = lastPos'[j] \/ j \in undone'
        BY DEF PositionKept
      <4>1. CASE j = k
        <5>1. row'[j].pos = held.pos
          BY <1>0, <3>1, <4>1
        <5>2. QED
          BY <1>0, <2>3, <2>6, <3>3, <4>1, <5>1
      <4>2. CASE j # k
        <5>1. row'[j] = row[j] /\ lastPos'[j] = lastPos[j]
          BY <1>0, <2>3, <3>1, <4>2
        <5>2. QED
          BY <1>0, <2>3, <4>2, <5>1 DEF PositionKept
      <4>3. QED
        BY <4>1, <4>2
    <3>8. QED
      BY <2>4, <3>5, <3>6, <3>7 DEF SessionIInv, SessionsInv
  <2>7. QED
    BY <2>5, <2>6
<1>13. ASSUME NEW a \in Access, BlameSource(a) PROVE SessionIInv'
  <2> DEFINE s == access[a].held.source
  <2>2. /\ row' = Marked(Blame(a))
        /\ failed' = failed \cup {s} /\ undone' = undone \ {s}
        /\ access' = [b \in Access |->
             IF b = a THEN Resting
             ELSE [access[b] EXCEPT
                     !.old = access[b].old \/ (access[b].held.source = s /\ ~InStep(b, "report")),
                     !.rest = Overtaken(access[b].rest, s)]]
        /\ UNCHANGED <<reports, lastPos>>
    BY <1>13 DEF BlameSource
  <2>3. s \in Source
    BY <1>0, <1>13 DEF BlamesSource, BlameSource, InStep
  <2> HIDE DEF s
  <2>4. ASSUME NEW b \in Access
        PROVE  access'[b] \in Accesses /\ (access'[b].pc = "blame" => access'[b].held.source \in Source)
    <3>1. CASE b = a
      BY <2>2, <3>1, RowTypes
    <3>2. CASE b # a
      <4>1. PICK old : old = (access[b].old \/ (access[b].held.source = s /\ ~InStep(b, "report")))
        OBVIOUS
      <4>2. PICK rest : rest = Overtaken(access[b].rest, s)
        OBVIOUS
      <4>3. \A look \in Looks, o \in BOOLEAN : [look EXCEPT !.old = o] \in Looks
        BY DEF Looks
      <4>4. rest \in Seq(Looks)
        <5>1. PICK n \in Nat : access[b].rest \in [1..n -> Looks] /\ DOMAIN access[b].rest = 1..n
          BY <1>a
        <5>2. \A i \in 1..n : (access[b].rest[i].old \/ access[b].rest[i].held.source = s) \in BOOLEAN
          OBVIOUS
        <5>3. rest \in [1..n -> Looks]
          BY <4>2, <4>3, <5>1, <5>2 DEF Overtaken
        <5>4. QED
          BY <5>3
      <4>5. old \in BOOLEAN
        BY <4>1
      <4>6. access'[b] = [access[b] EXCEPT !.old = old, !.rest = rest]
        BY <2>2, <3>2, <4>1, <4>2
      <4>7. QED
        BY <1>0, <1>a, <4>4, <4>5, <4>6 DEF Accesses, BlamesSource
    <3>3. QED
      BY <3>1, <3>2
  <2>5. access' \in [Access -> Accesses] /\ BlamesSource'
    BY <2>2, <2>4 DEF BlamesSource
  <2>6. ASSUME NEW j \in Keys
        PROVE  /\ row'[j] \in Rows /\ row'[j].source = row[j].source
               /\ row'[j].pos = row[j].pos /\ (row[j] = NoRow => row'[j] = NoRow)
               /\ row'[j].valid = (row[j].valid /\ ~(Usable(j) /\ row[j].source = s))
    <3>1. row'[j] = [row[j] EXCEPT !.valid = row[j].valid /\ j \notin Blame(a)]
      BY <2>2 DEF Marked
    <3>2. j \in Blame(a) <=> Usable(j) /\ row[j].source = s
      BY DEF Blame, s
    <3>3. row[j] \in Rows
      BY <1>0
    <3>4. PICK v \in BOOLEAN : v = (row[j].valid /\ j \notin Blame(a))
      OBVIOUS
    <3>5. row'[j] = [row[j] EXCEPT !.valid = v]
      BY <3>1, <3>4
    <3>6. row[j] = NoRow => row'[j] = NoRow
      BY <3>4, <3>5, RowTypes DEF NoRow
    <3>7. QED
      BY <3>2, <3>3, <3>4, <3>5, <3>6 DEF Rows
  <2>7. row' \in [Keys -> Rows]
    BY <2>2, <2>6 DEF Marked
  <2>8. SessionTypeOK'
    BY <1>0, <2>2, <2>3, <2>5, <2>7 DEF SessionTypeOK
  <2>9. FailedHidden'
    <3> SUFFICES ASSUME NEW j \in Keys, Usable(j)', row'[j].source \in failed'
                 PROVE  row'[j].source \in undone'
      BY DEF FailedHidden
    <3>1. Usable(j) /\ row[j].source # s
      BY <2>6 DEF Usable
    <3>2. QED
      BY <1>0, <2>2, <2>6, <3>1 DEF FailedHidden
  <2>10. PositionKept'
    BY <1>0, <2>2, <2>3, <2>6, RowTypes DEF PositionKept
  <2>11. QED
    BY <2>5, <2>8, <2>9, <2>10 DEF SessionIInv, SessionsInv
<1>14. ASSUME NEW ks \in SUBSET Keys, DropRows(ks) PROVE SessionIInv'
  <2>1. /\ row' = [k \in Keys |-> IF k \in ks THEN NoRow ELSE row[k]]
        /\ lastPos' = [k \in Keys |-> IF k \in ks THEN 0 ELSE lastPos[k]]
        /\ undone' = undone \ ks
        /\ UNCHANGED <<access, reports, failed>>
    BY <1>14 DEF DropRows
  <2>2. SessionTypeOK'
    BY <1>0, <2>1, RowTypes, SessionAssumption DEF SessionTypeOK
  <2>3. FailedHidden'
    BY <1>0, <2>1, RowTypes DEF FailedHidden, Usable
  <2>4. PositionKept'
    BY <1>0, <2>1 DEF PositionKept
  <2>5. QED
    BY <1>0, <2>1, <2>2, <2>3, <2>4 DEF SessionIInv, SessionsInv, BlamesSource
<1>15. ASSUME UNCHANGED sessionVars PROVE SessionIInv'
  BY <1>0, <1>15 DEF sessionVars, SessionIInv, SessionsInv, SessionTypeOK, FailedHidden,
                     PositionKept, BlamesSource, Usable
<1>16. QED
  BY <1>1, <1>2, <1>3, <1>4, <1>5, <1>6, <1>7, <1>8, <1>9, <1>10, <1>11, <1>12, <1>13, <1>14,
     <1>15 DEF SessionNext, ClearTitle, TrimRow

\* For any users, calls and sources: a source reported to have failed is
\* offered by no row until it is chosen anew, and a row holds the position
\* last reported, but for what an older access wrote (persistence.rs).
THEOREM SessionsSafe == SessionSpec => []SessionsInv
<1>1. SessionIInv => SessionsInv
  BY DEF SessionIInv
<1>2. QED
  BY SessionIInvInit, SessionIInvNext, <1>1, PTL DEF SessionSpec
-----------------------------------------------------------------------------
(***************************************************************************)
(* DebridInv, the torrents of an account.  In a torrent that the service   *)
(* has added one file is selected; a call that has not found or added one  *)
(* holds none, and one that tries a candidate knows which file it wants.   *)
(***************************************************************************)
OneFile ==
  \A t \in TorrentId \ foreign : \A f, g \in account[t].chosen : f = g
InPlace(x) ==
  /\ x.pc \in {"idle", "find", "add", "local"} => x.id = NoId
  /\ x.pc \notin {"idle", "local"} => x.wants \in Video
CallersInPlace == \A c \in Caller : InPlace(caller[c])
DebridIInv == DebridInv /\ OneFile /\ CallersInPlace

LEMMA DebridTypes ==
  /\ 1 \in 1..Len(Candidates) /\ Len(Candidates) \in Nat
  /\ \A i \in 1..Len(Candidates) : Candidates[i] \in SourceHash
  /\ Idle \in Callers /\ Idle.pc = "idle" /\ Idle.id = NoId
  /\ Absent.chosen = {} /\ Absent.status = "absent" /\ Absent \notin RdTorrents
<1>1. Len(Candidates) \in Nat /\ 1 \in 1..Len(Candidates)
  BY DebridAssumption
<1>2. \A i \in 1..Len(Candidates) : Candidates[i] \in SourceHash
  BY DEF SourceHash
<1>3. Idle \in Callers /\ Idle.pc = "idle" /\ Idle.id = NoId
  BY <1>1 DEF Idle, Callers
<1>4. Absent.chosen = {} /\ Absent.status = "absent" /\ Absent \notin RdTorrents
  BY DEF Absent, RdTorrents
<1>5. QED
  BY <1>1, <1>2, <1>3, <1>4

LEMMA DebridIInvInit == DebridInit => DebridIInv
<1> SUFFICES ASSUME DebridInit PROVE DebridIInv
  OBVIOUS
<1>1. account \in [TorrentId -> {Absent} \cup RdTorrents]
  BY DEF DebridInit, RdTorrents
<1>2. \A t \in TorrentId \ foreign : account[t] = Absent
  BY DEF DebridInit
<1>3. DebridTypeOK
  BY <1>1, DebridTypes DEF DebridInit, DebridTypeOK
<1>4. AnswerFits /\ CallersInPlace
  BY DebridTypes DEF DebridInit, AnswerFits, CallersInPlace, InPlace, Doing
<1>5. NothingLeft /\ OneFile
  BY <1>2, DebridTypes DEF NothingLeft, OneFile, On
<1>6. QED
  BY <1>3, <1>4, <1>5 DEF DebridIInv, DebridInv

\* What a step of one call must keep: a torrent that comes to the account is
\* the call's own, and one the call lets go is spared or deleted.
LEMMA CallerStep ==
  ASSUME DebridIInv, NEW c \in Caller, NEW x \in Callers,
         caller' = [caller EXCEPT ![c] = x],
         InPlace(x),
         x.pc = "answered" /\ x.id \notin foreign => x.got = x.wants,
         account' \in [TorrentId -> {Absent} \cup RdTorrents],
         \A t \in TorrentId \ foreign : \A f, g \in account'[t].chosen : f = g,
         \A t \in TorrentId : account'[t] # Absent =>
           \/ account[t] # Absent \/ t \in spared'
           \/ t = x.id /\ ~x.reused /\ x.pc \in Trying,
         spared \subseteq spared', spared' \subseteq TorrentId,
         \A t \in TorrentId :
           caller[c].pc \in Trying /\ ~caller[c].reused /\ caller[c].id = t =>
             \/ t \in spared' \/ account'[t] = Absent
             \/ x.pc \in Trying /\ ~x.reused /\ x.id = t,
         idRow' \in [SourceHash -> TorrentId \cup {NoId}], UNCHANGED foreign
  PROVE  DebridIInv'
<1>1. DebridTypeOK'
  BY DEF DebridIInv, DebridInv, DebridTypeOK
<1>2. AnswerFits' /\ CallersInPlace'
  BY DEF DebridIInv, DebridInv, DebridTypeOK, AnswerFits, CallersInPlace, Doing
<1>3. OneFile'
  BY DEF OneFile
<1>4. NothingLeft'
  <2> SUFFICES ASSUME NEW t \in TorrentId, On(t)', t \notin (foreign \cup spared)'
               PROVE  \E d \in Caller : /\ caller'[d].id = t /\ ~caller'[d].reused
                                        /\ caller'[d].pc \in Trying
    BY DEF NothingLeft
  <2>1. caller'[c] = x /\ account'[t] # Absent
    BY DEF DebridIInv, DebridInv, DebridTypeOK, On
  <2>2. CASE x.id = t /\ ~x.reused /\ x.pc \in Trying
    BY <2>1, <2>2
  <2>3. CASE ~(x.id = t /\ ~x.reused /\ x.pc \in Trying)
    <3>1. On(t) /\ t \notin foreign \cup spared
      BY <2>1, <2>3 DEF On
    <3>2. PICK d \in Caller : caller[d].id = t /\ ~caller[d].reused /\ caller[d].pc \in Trying
      BY <3>1 DEF DebridIInv, DebridInv, NothingLeft
    <3>3. d # c
      BY <2>1, <2>3, <3>2
    <3>4. caller'[d] = caller[d]
      BY <3>3 DEF DebridIInv, DebridInv, DebridTypeOK
    <3>5. QED
      BY <3>2, <3>4
  <2>4. QED
    BY <2>2, <2>3
<1>5. QED
  BY <1>1, <1>2, <1>3, <1>4 DEF DebridIInv, DebridInv

\* A step of a call that leaves the account alone, and no torrent behind.
LEMMA CallerMoves ==
  ASSUME DebridIInv, NEW c \in Caller, NEW x \in Callers,
         caller' = [caller EXCEPT ![c] = x],
         InPlace(x),
         x.pc = "answered" /\ x.id \notin foreign => x.got = x.wants,
         \/ /\ caller[c].pc \in {"idle", "find", "add", "local", "answered"}
            /\ UNCHANGED spared
         \/ /\ x.id = caller[c].id /\ x.reused = caller[c].reused /\ x.pc \in Trying
            /\ UNCHANGED spared
         \/ LeftBehind(c),
         UNCHANGED <<account, foreign>>,
         idRow' \in [SourceHash -> TorrentId \cup {NoId}]
  PROVE  DebridIInv'
<1>1. /\ account \in [TorrentId -> {Absent} \cup RdTorrents] /\ caller[c] \in Callers
      /\ spared \subseteq TorrentId /\ OneFile /\ CallersInPlace
  BY DEF DebridIInv, DebridInv, DebridTypeOK
<1>2. spared \subseteq spared' /\ spared' \subseteq TorrentId
  BY <1>1 DEF LeftBehind, On
<1>3. ASSUME NEW t \in TorrentId,
             caller[c].pc \in Trying, ~caller[c].reused, caller[c].id = t
      PROVE  \/ t \in spared' \/ account'[t] = Absent
             \/ x.pc \in Trying /\ ~x.reused /\ x.id = t
  <2>1. caller[c].pc \notin {"idle", "find", "add", "local", "answered"}
    BY <1>1, <1>3, DebridAssumption DEF CallersInPlace, InPlace, Trying
  <2>2. QED
    BY <1>3, <2>1 DEF LeftBehind, On
<1>4. \A t \in TorrentId \ foreign : \A f, g \in account'[t].chosen : f = g
  BY <1>1 DEF OneFile
<1>5. QED
  BY <1>1, <1>2, <1>3, <1>4, CallerStep

LEMMA GiveUpTypes ==
  ASSUME DebridIInv, NEW c \in Caller, GiveUpCandidate(c),
         caller[c].pc \notin {"idle", "local"}
  PROVE  \E x \in Callers : /\ caller' = [caller EXCEPT ![c] = x]
                            /\ InPlace(x) /\ x.pc \in {"find", "local"}
<1>1. caller[c] \in Callers /\ caller[c].wants \in Video
  BY DEF DebridIInv, DebridInv, DebridTypeOK, CallersInPlace, InPlace
<1>2. CASE /\ caller[c].next < Len(Candidates)
           /\ caller' = [caller EXCEPT ![c] = [Idle EXCEPT !.pc = "find",
                            !.wants = caller[c].wants, !.next = caller[c].next + 1]]
  <2>1. caller[c].next + 1 \in 1..Len(Candidates)
    BY <1>1, <1>2, DebridTypes DEF Callers
  <2> DEFINE x == [Idle EXCEPT !.pc = "find", !.wants = caller[c].wants,
                               !.next = caller[c].next + 1]
  <2>2. x \in Callers /\ x.pc = "find" /\ InPlace(x)
    BY <1>1, <2>1, DebridTypes DEF Callers, Trying, InPlace
  <2>3. QED
    BY <1>2, <2>2
<1>3. CASE caller' = [caller EXCEPT ![c] = [Idle EXCEPT !.pc = "local"]]
  <2> DEFINE x == [Idle EXCEPT !.pc = "local"]
  <2>1. x \in Callers /\ x.pc = "local" /\ InPlace(x)
    BY DebridTypes DEF Callers, InPlace
  <2>2. QED
    BY <1>3, <2>1
<1>4. QED
  BY <1>2, <1>3 DEF GiveUpCandidate

\* The torrent of a candidate that failed is taken from the account, or spared.
LEMMA TakenAway ==
  ASSUME DebridIInv, NEW c \in Caller, NEW x \in Callers,
         caller' = [caller EXCEPT ![c] = x], InPlace(x), x.pc # "answered",
         \/ SafeDelete(caller[c].id)
         \/ caller[c].reused /\ UNCHANGED <<account, spared>>,
         idRow' \in [SourceHash -> TorrentId \cup {NoId}], UNCHANGED foreign
  PROVE  DebridIInv'
<1>1. /\ account \in [TorrentId -> {Absent} \cup RdTorrents] /\ spared \subseteq TorrentId
      /\ OneFile
  BY DEF DebridIInv, DebridInv, DebridTypeOK
<1>2. /\ account' \in [TorrentId -> {Absent} \cup RdTorrents]
      /\ \A t \in TorrentId : account'[t] # Absent => account'[t] = account[t]
      /\ spared \subseteq spared' /\ spared' \subseteq TorrentId
      /\ \A t \in TorrentId : ~caller[c].reused /\ caller[c].id = t =>
                             t \in spared' \/ account'[t] = Absent
  BY <1>1 DEF SafeDelete, On
<1>3. \A t \in TorrentId \ foreign : \A f, g \in account'[t].chosen : f = g
  <2> SUFFICES ASSUME NEW t \in TorrentId \ foreign
               PROVE  \A f, g \in account'[t].chosen : f = g
    OBVIOUS
  <2>1. CASE account'[t] = Absent
    BY <2>1, DebridTypes
  <2>2. CASE account'[t] # Absent
    BY <1>1, <1>2, <2>2 DEF OneFile
  <2>3. QED
    BY <2>1, <2>2
<1>4. \A t \in TorrentId : /\ account'[t] # Absent => account[t] # Absent
                           /\ ~caller[c].reused /\ caller[c].id = t =>
                                t \in spared' \/ account'[t] = Absent
  BY <1>2
<1>5. spared \subseteq spared' /\ spared' \subseteq TorrentId
  BY <1>2
<1>6. account' \in [TorrentId -> {Absent} \cup RdTorrents]
  BY <1>2
<1>7. QED
  BY <1>3, <1>4, <1>5, <1>6, CallerStep

\* A torrent with a file more than none selected, by a call that tries one.
LEMMA SelectsKeeps ==
  ASSUME DebridIInv, NEW c \in Caller, caller[c].pc = "select", SelectsFile(c)
  PROVE  /\ account' \in [TorrentId -> {Absent} \cup RdTorrents]
         /\ \A t \in TorrentId \ foreign : \A f, g \in account'[t].chosen : f = g
         /\ \A t \in TorrentId : account'[t] # Absent => account[t] # Absent
<1> DEFINE t == caller[c].id
<1>1. /\ account \in [TorrentId -> {Absent} \cup RdTorrents] /\ caller[c] \in Callers
      /\ OneFile /\ CallersInPlace
  BY DEF DebridIInv, DebridInv, DebridTypeOK
<1>2. t \in TorrentId /\ account[t] # Absent /\ account[t] \in RdTorrents
  BY <1>1 DEF SelectsFile, On
<1>3. CASE account[t].chosen # {}
  BY <1>1, <1>3 DEF SelectsFile, OneFile
<1>4. CASE account[t].chosen = {}
  <2> DEFINE new == [account[t] EXCEPT !.chosen = {caller[c].wants}]
  <2>1. new \in RdTorrents /\ \A f, g \in new.chosen : f = g
    BY <1>1, <1>2 DEF RdTorrents, CallersInPlace, InPlace
  <2>2. account' = [account EXCEPT ![t] = new]
    BY <1>1, <1>2, <1>4 DEF SelectsFile
  <2> HIDE DEF new
  <2>3. account' \in [TorrentId -> {Absent} \cup RdTorrents]
    BY <1>1, <2>1, <2>2
  <2>4. \A u \in TorrentId \ foreign : \A f, g \in account'[u].chosen : f = g
    BY <1>1, <1>2, <2>1, <2>2 DEF OneFile
  <2>5. \A u \in TorrentId : account'[u] # Absent => account[u] # Absent
    BY <1>1, <1>2, <2>2
  <2> QED
    BY <2>3, <2>4, <2>5
<1> QED
  BY <1>3, <1>4

\* A torrent comes to the account.
LEMMA AddsKeeps ==
  ASSUME DebridIInv, NEW c \in Caller, NEW t \in TorrentId, Adds(c, t)
  PROVE  /\ account' \in [TorrentId -> {Absent} \cup RdTorrents]
         /\ \A u \in TorrentId \ foreign : \A f, g \in account'[u].chosen : f = g
         /\ \A u \in TorrentId : account'[u] # Absent => account[u] # Absent \/ u = t
<1> DEFINE new == [hash |-> HashOf(c), chosen |-> {}, status |-> "waiting"]
<1>1. /\ account \in [TorrentId -> {Absent} \cup RdTorrents] /\ OneFile
      /\ caller[c] \in Callers
  BY DEF DebridIInv, DebridInv, DebridTypeOK
<1>2. new \in RdTorrents /\ new.chosen = {}
  BY <1>1, DebridTypes DEF RdTorrents, HashOf, Callers
<1>3. account' = [account EXCEPT ![t] = new]
  BY DEF Adds
<1> HIDE DEF new
<1> QED
  BY <1>1, <1>2, <1>3 DEF OneFile

\* A call goes on, or is gone, without the answer to its request.
LEMMA AnswerLostKeeps ==
  ASSUME DebridIInv, NEW c \in Caller, caller[c].pc \in Trying, AnswerLost(c),
         NEW x \in Callers, caller' = [caller EXCEPT ![c] = x],
         InPlace(x), x.pc # "answered", UNCHANGED <<idRow, foreign>>
  PROVE  DebridIInv'
<1>1. /\ caller[c] \in Callers /\ spared \subseteq TorrentId /\ CallersInPlace
      /\ idRow \in [SourceHash -> TorrentId \cup {NoId}]
  BY DEF DebridIInv, DebridInv, DebridTypeOK
<1>2. CASE Doing(c, "add") /\ \E t \in TorrentId : NewId(t) /\ Adds(c, t) /\ spared' = spared \cup {t}
  <2>1. PICK t \in TorrentId : Adds(c, t) /\ spared' = spared \cup {t}
    BY <1>2
  <2>2. caller[c].id = NoId
    BY <1>1, <1>2 DEF CallersInPlace, InPlace, Doing
  <2>3. /\ account' \in [TorrentId -> {Absent} \cup RdTorrents]
        /\ \A u \in TorrentId \ foreign : \A f, g \in account'[u].chosen : f = g
        /\ \A u \in TorrentId : account'[u] # Absent => account[u] # Absent \/ u \in spared'
    BY <2>1, AddsKeeps
  <2>4. spared \subseteq spared' /\ spared' \subseteq TorrentId
    BY <1>1, <2>1
  <2> QED
    BY <1>1, <2>2, <2>3, <2>4, CallerStep, DebridAssumption
<1>3. CASE Doing(c, "select") /\ SelectsFile(c) /\ LeftBehind(c)
  <2>1. /\ account' \in [TorrentId -> {Absent} \cup RdTorrents]
        /\ \A u \in TorrentId \ foreign : \A f, g \in account'[u].chosen : f = g
        /\ \A u \in TorrentId : account'[u] # Absent => account[u] # Absent
    BY <1>3, SelectsKeeps DEF Doing
  <2>2. spared \subseteq spared' /\ spared' \subseteq TorrentId
    BY <1>1, <1>3 DEF LeftBehind, On
  <2>3. \A u \in TorrentId : ~caller[c].reused /\ caller[c].id = u =>
          u \in spared' \/ account'[u] = Absent
    BY <1>3 DEF LeftBehind, SelectsFile
  <2> QED
    BY <1>1, <2>1, <2>2, <2>3, CallerStep
<1>4. CASE UNCHANGED account /\ LeftBehind(c)
  BY <1>1, <1>4, CallerMoves
<1> QED
  BY <1>2, <1>3, <1>4 DEF AnswerLost

LEMMA DebridIInvNext == DebridIInv /\ [DebridNext]_debridVars => DebridIInv'
<1> SUFFICES ASSUME DebridIInv, [DebridNext]_debridVars PROVE DebridIInv'
  OBVIOUS
<1>0. /\ caller \in [Caller -> Callers]
      /\ account \in [TorrentId -> {Absent} \cup RdTorrents]
      /\ idRow \in [SourceHash -> TorrentId \cup {NoId}]
      /\ foreign \subseteq TorrentId /\ spared \subseteq TorrentId
      /\ OneFile /\ CallersInPlace
  BY DEF DebridIInv, DebridInv, DebridTypeOK
<1>a. ASSUME NEW c \in Caller
      PROVE  /\ caller[c] \in Callers /\ HashOf(c) \in SourceHash
             /\ caller[c].id \in TorrentId \cup {NoId} /\ caller[c].wants \in Video \cup {NoId}
  BY <1>0, DebridTypes DEF Callers, HashOf
<1>b. ASSUME NEW c \in Caller, ForgetRow(c)
      PROVE  idRow' \in [SourceHash -> TorrentId \cup {NoId}]
  BY <1>0, <1>a, <1>b DEF ForgetRow
<1>c. ASSUME NEW c \in Caller, NEW p \in {"links", "failed", "mismatch"}, Step(c, p),
             caller[c].pc \in {"select", "links"}
      PROVE  \E x \in Callers :
               /\ caller' = [caller EXCEPT ![c] = x] /\ InPlace(x)
               /\ x.pc = p /\ x.id = caller[c].id /\ x.reused = caller[c].reused
  <2> DEFINE x == [caller[c] EXCEPT !.pc = p]
  <2>1. /\ x \in Callers /\ InPlace(x)
        /\ x.pc = p /\ x.id = caller[c].id /\ x.reused = caller[c].reused
    BY <1>0, <1>a, <1>c DEF Callers, Trying, CallersInPlace, InPlace
  <2>2. caller' = [caller EXCEPT ![c] = x]
    BY <1>0, <1>c DEF Step
  <2>3. QED
    BY <2>1, <2>2
<1>1. ASSUME NEW c \in Caller, NEW f \in Video, ResolveCandidates(c, f) PROVE DebridIInv'
  <2> DEFINE x == [Idle EXCEPT !.pc = "find", !.wants = f]
  <2>1. x \in Callers /\ x.pc = "find" /\ InPlace(x)
    BY DebridTypes DEF Callers, Trying, InPlace
  <2>2. /\ caller[c].pc = "idle" /\ caller' = [caller EXCEPT ![c] = x]
        /\ UNCHANGED <<account, idRow, foreign, spared>>
    BY <1>1 DEF ResolveCandidates, Doing
  <2>3. QED
    BY <1>0, <2>1, <2>2, CallerMoves
<1>2. ASSUME NEW c \in Caller, FindReusable(c) PROVE DebridIInv'
  <2>1. caller[c].pc = "find" /\ UNCHANGED <<account, foreign, spared>>
    BY <1>2 DEF FindReusable, Doing
  <2>2. ASSUME NEW t \in TorrentId, Reuse(c, t), idRow' \in [SourceHash -> TorrentId \cup {NoId}]
        PROVE  DebridIInv'
    <3> DEFINE x == [caller[c] EXCEPT !.pc = "select", !.id = t, !.reused = TRUE]
    <3>1. caller' = [caller EXCEPT ![c] = x]
      BY <1>0, <1>a, <2>2 DEF Reuse, Callers
    <3>2. x \in Callers /\ x.pc = "select" /\ InPlace(x)
      BY <1>0, <1>a, <2>1 DEF Callers, Trying, CallersInPlace, InPlace
    <3>3. QED
      BY <2>1, <2>2, <3>1, <3>2, CallerMoves
  <2>3. CASE idRow[HashOf(c)] # NoId /\ Reuse(c, idRow[HashOf(c)]) /\ UNCHANGED idRow
    BY <1>0, <1>a, <2>2, <2>3
  <2>4. ASSUME NEW t \in TorrentId, idRow' = [idRow EXCEPT ![HashOf(c)] = t], Reuse(c, t)
        PROVE  DebridIInv'
    BY <1>0, <1>a, <2>2, <2>4
  <2>5. CASE Step(c, "add") /\ UNCHANGED idRow
    <3> DEFINE x == [caller[c] EXCEPT !.pc = "add"]
    <3>1. caller' = [caller EXCEPT ![c] = x]
      BY <1>0, <2>5 DEF Step
    <3>2. x \in Callers /\ x.pc = "add" /\ InPlace(x)
      BY <1>0, <1>a, <2>1 DEF Callers, Trying, CallersInPlace, InPlace
    <3>3. QED
      BY <1>0, <2>1, <2>5, <3>1, <3>2, CallerMoves
  <2>6. QED
    BY <1>2, <2>3, <2>4, <2>5 DEF FindReusable
<1>3. ASSUME NEW c \in Caller, AddMagnet(c) PROVE DebridIInv'
  <2>1. caller[c].pc = "add" /\ UNCHANGED <<idRow, foreign>>
    BY <1>3 DEF AddMagnet, Doing
  <2>2. ASSUME NEW t \in TorrentId, Adds(c, t), UNCHANGED spared,
               caller' = [caller EXCEPT ![c].pc = "select", ![c].id = t, ![c].reused = FALSE]
        PROVE  DebridIInv'
    <3> DEFINE x == [caller[c] EXCEPT !.pc = "select", !.id = t, !.reused = FALSE]
    <3>1. caller' = [caller EXCEPT ![c] = x]
      BY <1>0, <1>a, <2>2 DEF Callers
    <3>2. x \in Callers /\ x.pc = "select" /\ x.id = t /\ ~x.reused /\ InPlace(x)
      BY <1>0, <1>a, <2>1, ZenonT(40) DEF Callers, Trying, CallersInPlace, InPlace
    <3>3. /\ account' \in [TorrentId -> {Absent} \cup RdTorrents]
          /\ \A u \in TorrentId \ foreign : \A f, g \in account'[u].chosen : f = g
          /\ \A u \in TorrentId : account'[u] # Absent => account[u] # Absent \/ u = t
      BY <2>2, AddsKeeps
    <3> HIDE DEF x
    <3>4. caller[c].id = NoId
      BY <1>0, <2>1 DEF CallersInPlace, InPlace
    <3>5. \A u \in TorrentId : account'[u] # Absent =>
            \/ account[u] # Absent \/ u \in spared'
            \/ u = x.id /\ ~x.reused /\ x.pc \in Trying
      BY <3>2, <3>3 DEF Trying
    <3>6. \A u \in TorrentId : caller[c].id # u
      BY <3>4, DebridAssumption
    <3>7. spared \subseteq spared' /\ spared' \subseteq TorrentId
      BY <1>0, <2>2
    <3>8. \A u \in TorrentId :
            caller[c].pc \in Trying /\ ~caller[c].reused /\ caller[c].id = u =>
              \/ u \in spared' \/ account'[u] = Absent
              \/ x.pc \in Trying /\ ~x.reused /\ x.id = u
      BY <3>6
    <3>9. x.pc # "answered" /\ UNCHANGED <<idRow, foreign>>
      BY <2>1, <3>2
    <3>10. QED
      BY <1>0, <3>1, <3>2, <3>3, <3>5, <3>7, <3>8, <3>9, CallerStep
  <2>3. CASE AnswerLost(c) /\ GiveUpCandidate(c)
    <3>1. PICK x \in Callers : /\ caller' = [caller EXCEPT ![c] = x]
                               /\ InPlace(x) /\ x.pc \in {"find", "local"}
      BY <2>1, <2>3, GiveUpTypes
    <3>2. QED
      BY <2>1, <2>3, <3>1, AnswerLostKeeps DEF Trying
  <2>4. QED
    BY <1>3, <2>2, <2>3 DEF AddMagnet
<1>4. ASSUME NEW c \in Caller, SelectFiles(c) PROVE DebridIInv'
  <2>1. caller[c].pc = "select" /\ UNCHANGED <<idRow, foreign, spared>>
    BY <1>4 DEF SelectFiles, Doing
  <2>2. PICK p \in {"links", "failed"} : Step(c, p)
    BY <1>4 DEF SelectFiles
  <2>3. PICK x \in Callers : /\ caller' = [caller EXCEPT ![c] = x] /\ InPlace(x) /\ x.pc = p
                             /\ x.id = caller[c].id /\ x.reused = caller[c].reused
    BY <1>c, <2>1, <2>2
  <2>4. CASE SelectsFile(c)
    <3>1. /\ account' \in [TorrentId -> {Absent} \cup RdTorrents]
          /\ \A u \in TorrentId \ foreign : \A f, g \in account'[u].chosen : f = g
          /\ \A u \in TorrentId : account'[u] # Absent => account[u] # Absent
      BY <2>1, <2>4, SelectsKeeps
    <3> QED
      BY <1>0, <2>1, <2>3, <3>1, CallerStep DEF Trying
  <2>5. CASE UNCHANGED account
    BY <1>0, <2>1, <2>3, <2>5, CallerMoves DEF Trying
  <2> QED
    BY <1>4, <2>4, <2>5 DEF SelectFiles
<1>5. ASSUME NEW c \in Caller, Links(c) PROVE DebridIInv'
  <2> DEFINE t == caller[c].id
  <2>1. caller[c].pc = "links" /\ UNCHANGED <<account, foreign>>
    BY <1>5 DEF Links, Doing
  <2>2. ASSUME NEW p \in {"mismatch", "failed"}, Step(c, p), UNCHANGED <<idRow, spared>>
        PROVE  DebridIInv'
    <3>1. PICK x \in Callers : /\ caller' = [caller EXCEPT ![c] = x] /\ InPlace(x)
                               /\ x.pc = p /\ x.id = t /\ x.reused = caller[c].reused
      BY <1>c, <2>1, <2>2
    <3>2. QED
      BY <1>0, <2>1, <2>2, <3>1, CallerMoves DEF Trying
  <2>3. ASSUME On(t), Selected(c), NEW f \in account[t].chosen,
               caller' = [caller EXCEPT ![c].pc = "answered", ![c].got = f],
               spared' = spared \cup {t},
               idRow' = [idRow EXCEPT ![HashOf(c)] = t] \/ UNCHANGED idRow
        PROVE  DebridIInv'
    <3> DEFINE x == [caller[c] EXCEPT !.pc = "answered", !.got = f]
    <3>1. t \in TorrentId /\ f \in Video /\ caller[c].wants \in account[t].chosen
      BY <1>0, <2>3, DebridTypes DEF On, RdTorrents, Selected
    <3>2. x \in Callers /\ InPlace(x) /\ x.id = t /\ x.got = f /\ x.wants = caller[c].wants
      BY <1>0, <1>a, <2>1, <3>1 DEF Callers, CallersInPlace, InPlace
    <3>3. caller' = [caller EXCEPT ![c] = x]
      BY <1>0, <1>a, <2>3 DEF Callers
    <3>4. x.id \notin foreign => x.got = x.wants
      BY <1>0, <2>3, <3>1, <3>2 DEF OneFile
    <3>5. /\ spared \subseteq spared' /\ spared' \subseteq TorrentId /\ t \in spared'
          /\ idRow' \in [SourceHash -> TorrentId \cup {NoId}]
      BY <1>0, <1>a, <2>3, <3>1
    <3> HIDE DEF x
    <3>6. /\ account' \in [TorrentId -> {Absent} \cup RdTorrents]
          /\ \A u \in TorrentId \ foreign : \A g, h \in account'[u].chosen : g = h
          /\ \A u \in TorrentId : account'[u] # Absent => account[u] # Absent
          /\ \A u \in TorrentId : caller[c].id = u => u \in spared'
      BY <1>0, <2>1, <3>5 DEF OneFile
    <3>7. QED
      BY <2>1, <3>2, <3>3, <3>4, <3>5, <3>6, CallerStep
  <2>4. QED
    BY <1>5, <2>2, <2>3 DEF Links
<1>6. ASSUME NEW c \in Caller, NEW n \in 0..1, caller[c].pc \in {"mismatch", "failed"},
             AddAgain(c, n)
      PROVE  \E x \in Callers : /\ caller' = [caller EXCEPT ![c] = x] /\ InPlace(x)
                                /\ x.pc = "add"
  <2> DEFINE x == [caller[c] EXCEPT !.pc = "add", !.id = NoId, !.reused = FALSE, !.attempt = n]
  <2>1. x \in Callers /\ InPlace(x) /\ x.pc = "add"
    BY <1>0, <1>a, <1>6 DEF Callers, Trying, CallersInPlace, InPlace
  <2>2. caller' = [caller EXCEPT ![c] = x]
    BY <1>0, <1>a, <1>6 DEF AddAgain, Callers
  <2>3. QED
    BY <2>1, <2>2
<1>7. ASSUME NEW c \in Caller, FailReused(c) PROVE DebridIInv'
  <2>1. /\ caller[c].pc \in {"mismatch", "failed"} /\ AddAgain(c, 0) /\ UNCHANGED foreign
        /\ SafeDelete(caller[c].id) \/ (caller[c].reused /\ UNCHANGED <<account, spared>>)
    BY <1>7 DEF FailReused
  <2>2. idRow' \in [SourceHash -> TorrentId \cup {NoId}]
    BY <1>7, <1>b DEF FailReused
  <2>3. PICK x \in Callers : /\ caller' = [caller EXCEPT ![c] = x] /\ InPlace(x)
                             /\ x.pc = "add"
    BY <1>6, <2>1
  <2>4. QED
    BY <2>1, <2>2, <2>3, TakenAway
<1>8. ASSUME NEW c \in Caller, FailAdded(c) PROVE DebridIInv'
  <2>1. /\ caller[c].pc \in {"mismatch", "failed"} /\ UNCHANGED foreign
        /\ SafeDelete(caller[c].id)
        /\ AddAgain(c, 1) \/ GiveUpCandidate(c)
    BY <1>8 DEF FailAdded
  <2>2. idRow' \in [SourceHash -> TorrentId \cup {NoId}]
    BY <1>8, <1>b DEF FailAdded
  <2>3. PICK x \in Callers : /\ caller' = [caller EXCEPT ![c] = x] /\ InPlace(x)
                             /\ x.pc # "answered"
    <3>1. CASE AddAgain(c, 1)
      BY <1>6, <2>1, <3>1
    <3>2. CASE GiveUpCandidate(c)
      BY <2>1, <3>2, GiveUpTypes
    <3>3. QED
      BY <2>1, <3>1, <3>2
  <2>4. QED
    BY <2>1, <2>2, <2>3, TakenAway
<1>9. ASSUME NEW c \in Caller, TryLocal(c) PROVE DebridIInv'
  BY <1>0, <1>9, DebridTypes, CallerMoves DEF TryLocal, Doing, InPlace
<1>10. ASSUME NEW c \in Caller, RejectAnswer(c) PROVE DebridIInv'
  <2>1. /\ caller[c].pc = "answered" /\ GiveUpCandidate(c)
        /\ UNCHANGED <<account, idRow, foreign, spared>>
    BY <1>10 DEF RejectAnswer, Doing
  <2>2. PICK x \in Callers : /\ caller' = [caller EXCEPT ![c] = x]
                             /\ InPlace(x) /\ x.pc \in {"find", "local"}
    BY <2>1, GiveUpTypes
  <2>3. QED
    BY <1>0, <2>1, <2>2, CallerMoves
<1>11. ASSUME NEW c \in Caller, CandidateTimesOut(c) PROVE DebridIInv'
  <2>1. /\ caller[c].pc \in Trying /\ GiveUpCandidate(c) /\ AnswerLost(c)
        /\ UNCHANGED <<idRow, foreign>>
    BY <1>11 DEF CandidateTimesOut
  <2>2. PICK x \in Callers : /\ caller' = [caller EXCEPT ![c] = x]
                             /\ InPlace(x) /\ x.pc \in {"find", "local"}
    BY <2>1, GiveUpTypes DEF Trying
  <2>3. QED
    BY <2>1, <2>2, AnswerLostKeeps
<1>12. ASSUME NEW c \in Caller, DropCaller(c) PROVE DebridIInv'
  <2>1. /\ caller' = [caller EXCEPT ![c] = Idle] /\ UNCHANGED <<idRow, foreign>>
        /\ IF caller[c].pc \in Trying THEN AnswerLost(c) ELSE UNCHANGED <<account, spared>>
    BY <1>12 DEF DropCaller
  <2>2. InPlace(Idle)
    BY DebridTypes DEF InPlace
  <2>3. CASE caller[c].pc \in Trying
    BY <2>1, <2>2, <2>3, DebridTypes, AnswerLostKeeps
  <2>4. CASE caller[c].pc \in {"idle", "local", "answered"}
    BY <1>0, <2>1, <2>2, <2>4, DebridTypes, CallerMoves DEF Trying
  <2>5. QED
    BY <1>a, <2>3, <2>4 DEF Callers
<1>13. ASSUME NEW t \in TorrentId, AccountMoves(t) PROVE DebridIInv'
  <2>1. PICK st \in {"ready", "dead"} : account' = [account EXCEPT ![t].status = st]
    BY <1>13 DEF AccountMoves
  <2>2. account[t] \in RdTorrents /\ UNCHANGED <<caller, idRow, foreign, spared>>
    BY <1>0, <1>13, DebridTypes DEF AccountMoves
  <2> DEFINE new == [account[t] EXCEPT !.status = st]
  <2>3. account' = [account EXCEPT ![t] = new]
    BY <1>0, <2>1
  <2>4. new \in RdTorrents /\ new.chosen = account[t].chosen
    BY <2>2 DEF RdTorrents
  <2> HIDE DEF new
  <2>5. account' \in [TorrentId -> {Absent} \cup RdTorrents]
    BY <1>0, <2>3, <2>4
  <2>6. \A u \in TorrentId : /\ account'[u].chosen = account[u].chosen
                             /\ account'[u] # Absent => account[u] # Absent
    BY <1>0, <2>2, <2>3, <2>4, DebridTypes
  <2>7. DebridTypeOK' /\ AnswerFits' /\ CallersInPlace'
    BY <2>2, <2>5 DEF DebridIInv, DebridInv, DebridTypeOK, AnswerFits, Doing, CallersInPlace
  <2>8. NothingLeft' /\ OneFile'
    BY <2>2, <2>6 DEF DebridIInv, DebridInv, NothingLeft, OneFile, On
  <2>9. QED
    BY <2>7, <2>8 DEF DebridIInv, DebridInv
<1>17. ASSUME NEW t \in TorrentId, AccountLoses(t) PROVE DebridIInv'
  <2>1. account' = [account EXCEPT ![t] = Absent] /\ UNCHANGED <<caller, idRow, foreign, spared>>
    BY <1>17 DEF AccountLoses
  <2>2. /\ account' \in [TorrentId -> {Absent} \cup RdTorrents]
        /\ \A u \in TorrentId : account'[u] # Absent => account'[u] = account[u]
    BY <1>0, <2>1
  <2>3. DebridTypeOK' /\ AnswerFits' /\ CallersInPlace'
    BY <2>1, <2>2 DEF DebridIInv, DebridInv, DebridTypeOK, AnswerFits, Doing, CallersInPlace
  <2>4. NothingLeft' /\ OneFile'
    BY <2>1, <2>2, DebridTypes DEF DebridIInv, DebridInv, NothingLeft, OneFile, On
  <2>5. QED
    BY <2>3, <2>4 DEF DebridIInv, DebridInv
<1>14. ASSUME NEW h \in SourceHash, ExpireIdRow(h) PROVE DebridIInv'
  <2>1. idRow' \in [SourceHash -> TorrentId \cup {NoId}] /\ UNCHANGED <<caller, account, foreign, spared>>
    BY <1>0, <1>14 DEF ExpireIdRow
  <2>2. QED
    BY <2>1 DEF DebridIInv, DebridInv, DebridTypeOK, AnswerFits, Doing, NothingLeft, On,
                OneFile, CallersInPlace
<1>15. CASE UNCHANGED debridVars
  BY <1>15 DEF debridVars, DebridIInv, DebridInv, DebridTypeOK, AnswerFits, Doing, NothingLeft,
               On, OneFile, CallersInPlace
<1>16. QED
  BY <1>1, <1>2, <1>3, <1>4, <1>5, <1>7, <1>8, <1>9, <1>10, <1>11, <1>12, <1>13, <1>14, <1>15,
     <1>17
     DEF DebridNext

\* For any calls, candidates, files and torrents: an answer leads to the file
\* asked for, although calls share torrents, and what was added to the account
\* for nothing is taken away but for what the code spares (resolver.rs).
THEOREM DebridSafe == DebridSpec => []DebridInv
<1>1. DebridIInv => DebridInv
  BY DEF DebridIInv
<1>2. QED
  BY DebridIInvInit, DebridIInvNext, <1>1, PTL DEF DebridSpec
-----------------------------------------------------------------------------
(***************************************************************************)
(* CardFollows, the source of a card.  That the rows are well formed is    *)
(* inductive, and the rest is so in every such state.                      *)
(***************************************************************************)
LEMMA SourceTypes ==
  /\ NoSession \in Sessions /\ NoSession.at = 0 /\ NoSession.valid = FALSE
  /\ \A s \in Sessions : s.at \in 0..MaxTime /\ (s.valid => s.at > 0)
  /\ \A s \in Sessions, n \in 1..MaxTime : s.at > 0 =>
       /\ [s EXCEPT !.at = n] \in Sessions
       /\ [s EXCEPT !.valid = FALSE, !.at = n] \in Sessions
<1>1. NoSession \in Sessions /\ NoSession.at = 0 /\ NoSession.valid = FALSE
  BY DEF NoSession, Sessions
<1>2. ASSUME NEW s \in Sessions PROVE s.at \in 0..MaxTime /\ (s.valid => s.at > 0)
  <2>1. CASE s = NoSession
    BY <1>1, <2>1, SourceAssumption
  <2>2. CASE s \in [hash : Origin, provider : Provider, at : 1..MaxTime, valid : BOOLEAN]
    <3>1. s.at \in 1..MaxTime
      BY <2>2
    <3>2. QED
      BY <3>1, SourceAssumption
  <2>3. QED
    BY <2>1, <2>2 DEF Sessions
<1>3. ASSUME NEW s \in Sessions, NEW n \in 1..MaxTime, s.at > 0
      PROVE  /\ [s EXCEPT !.at = n] \in Sessions
             /\ [s EXCEPT !.valid = FALSE, !.at = n] \in Sessions
  <2>1. s \in [hash : Origin, provider : Provider, at : 1..MaxTime, valid : BOOLEAN]
    BY <1>1, <1>3 DEF Sessions
  <2>2. QED
    BY <2>1 DEF Sessions
<1>4. QED
  BY <1>1, <1>2, <1>3

LEMMA SourceTyped == SourceSpec => []SourceTypeOK
<1>1. SourceInit => SourceTypeOK
  BY SourceTypes, SourceAssumption DEF SourceInit, SourceTypeOK
<1>2. SourceTypeOK /\ [SourceNext]_sourceVars => SourceTypeOK'
  <2> SUFFICES ASSUME SourceTypeOK, [SourceNext]_sourceVars PROVE SourceTypeOK'
    OBVIOUS
  <2>1. ASSUME NEW k \in Slot, NEW s \in Sessions, s.at > 0, Stamp(k, s)
        PROVE  SourceTypeOK'
    <3>1. now' \in 1..MaxTime /\ sess' = [sess EXCEPT ![k] = [s EXCEPT !.at = now']]
      BY <2>1, SourceAssumption DEF Stamp, SourceTypeOK
    <3>2. [s EXCEPT !.at = now'] \in Sessions
      BY <2>1, <3>1, SourceTypes
    <3>3. QED
      BY <3>1, <3>2 DEF SourceTypeOK
  <2>2. ASSUME NEW k \in Slot, StoreSession(k) PROVE SourceTypeOK'
    BY <2>1, <2>2 DEF StoreSession
  <2>3. ASSUME NEW k \in Slot, UseSession(k) PROVE SourceTypeOK'
    BY <2>1, <2>3 DEF UseSession, Stored, SourceTypeOK
  <2>4. ASSUME NEW k \in Slot, Trim(k) PROVE SourceTypeOK'
    BY <2>4, SourceTypes DEF Trim, SourceTypeOK
  <2>5. ASSUME NEW h \in Origin, SourceFails(h) PROVE SourceTypeOK'
    <3>0. sess' = [k \in Slot |-> IF sess[k].hash = h /\ sess[k].valid
                                   THEN [sess[k] EXCEPT !.valid = FALSE, !.at = now']
                                   ELSE sess[k]]
      BY <2>5, Zenon DEF SourceFails
    <3>1. now' \in 1..MaxTime /\ now' \in 0..MaxTime
      <4>1. now < MaxTime /\ now' = now + 1
        BY <2>5, Zenon DEF SourceFails
      <4>2. now \in 0..MaxTime
        BY DEF SourceTypeOK
      <4>3. QED
        BY <4>1, <4>2, SourceAssumption
    <3>2. ASSUME NEW k \in Slot PROVE sess'[k] \in Sessions
      <4>1. sess[k] \in Sessions /\ (sess[k].valid => sess[k].at > 0)
        BY SourceTypes DEF SourceTypeOK
      <4>2. QED
        BY <3>0, <3>1, <4>1, SourceTypes
    <3>3. QED
      BY <3>0, <3>1, <3>2 DEF SourceTypeOK
  <2>6. CASE UNCHANGED sourceVars
    BY <2>6 DEF sourceVars, SourceTypeOK
  <2>7. QED
    BY <2>2, <2>3, <2>4, <2>5, <2>6 DEF SourceNext
<1>3. QED
  BY <1>1, <1>2, PTL DEF SourceSpec

\* LatestOf finds what it chooses: times are bounded by now.
LEMMA LatestExists ==
  ASSUME SourceTypeOK, NEW slots \in SUBSET Slot, slots # {}
  PROVE  LatestOf(slots) \in slots /\ \A l \in slots : sess[l].at <= sess[LatestOf(slots)].at
<1> DEFINE ages == {MaxTime - sess[k].at : k \in slots}
<1>1. \A k \in slots : sess[k].at \in 0..MaxTime
  BY SourceTypes DEF SourceTypeOK
<1>2. ages \subseteq Nat /\ ages # {}
  BY <1>1, SourceAssumption
<1>3. PICK n \in ages : \A m \in ages : <<m, n>> \notin OpToRel(<, Nat)
  BY <1>2, WFMin, NatLessThanWellFounded
<1>4. PICK k \in slots : n = MaxTime - sess[k].at
  BY <1>3
<1>5. ASSUME NEW l \in slots PROVE sess[l].at <= sess[k].at
  <2>1. ~(MaxTime - sess[l].at < n)
    BY <1>2, <1>3 DEF OpToRel
  <2>2. QED
    BY <1>1, <1>4, <2>1, SourceAssumption
<1>6. QED
  BY <1>4, <1>5 DEF LatestOf

LEMMA TypedFollows == SourceTypeOK => CardFollows
<1> SUFFICES ASSUME SourceTypeOK, NEW card \in Cards
    PROVE  LET new == Reconciled(card) IN
       /\ Reconciled(new) = new
       /\ new # card => new.slot \in Episode /\ sess[new.slot].valid
       /\ card.slot \in Stored =>
            \A k \in Episode \cap Stored :
              sess[k].valid /\ sess[k].at > sess[card.slot].at =>
                \/ sess[new.slot].valid /\ sess[new.slot].at >= sess[k].at
                \/ card.provider = "external-embed"
       /\ card.provider = "external-embed" => new.provider = "external-embed"
  BY DEF CardFollows
<1>1. /\ Reusable # {} => Latest \in Reusable
      /\ \A k \in Reusable : sess[k].at <= sess[Latest].at
  BY LatestExists DEF Latest, Reusable, Stored
<1>2. \A k \in Slot : sess[k].at \in 0..MaxTime
  BY SourceTypes DEF SourceTypeOK
<1>3. CASE Reusable # {} /\ ~EmbedChosen(card) /\ Replaces(card)
  <2>1. Reconciled(card) = CardOf(Latest)
    BY <1>3 DEF Reconciled
  <2>2. CardOf(Latest).slot = Latest /\ CardOf(Latest).provider = sess[Latest].provider
    BY DEF CardOf
  <2>3. Reconciled(CardOf(Latest)) = CardOf(Latest)
    BY DEF Reconciled
  <2>4. Latest \in Episode /\ sess[Latest].valid
    BY <1>1, <1>3 DEF Reusable
  <2>5. \A k \in Episode \cap Stored : sess[k].valid => sess[Latest].at >= sess[k].at
    BY <1>1, <1>2, <2>4, SourceAssumption DEF Reusable, Stored
  <2>6. card.provider = "external-embed" => sess[Latest].provider = "external-embed"
    BY <1>3 DEF EmbedChosen
  <2>7. QED
    BY <2>1, <2>2, <2>3, <2>4, <2>5, <2>6
<1>4. CASE ~(Reusable # {} /\ ~EmbedChosen(card) /\ Replaces(card))
  <2>1. Reconciled(card) = card
    BY <1>4 DEF Reconciled
  <2>2. ASSUME card.slot \in Stored, NEW k \in Episode \cap Stored,
               sess[k].valid, sess[k].at > sess[card.slot].at
        PROVE  card.provider = "external-embed"
    <3>1. k \in Reusable
      BY <2>2 DEF Reusable
    <3>2. sess[Latest].at > sess[card.slot].at
      BY <1>1, <1>2, <2>2, <3>1 DEF Stored, Reusable
    <3>3. Replaces(card)
      BY <2>2, <3>2 DEF Replaces, Current
    <3>4. QED
      BY <1>4, <3>1, <3>3 DEF EmbedChosen
  <2>3. QED
    BY <2>1, <2>2
<1>5. QED
  BY <1>3, <1>4

\* For any rows, sources and times: whatever a card says, the reconciliation
\* moves it to the latest session of its episode that works, if its own was
\* used before, and is done after one pass (persistence.rs).
THEOREM CardSafe == SourceSpec => []CardFollows
BY SourceTyped, TypedFollows, PTL

-----------------------------------------------------------------------------
(***************************************************************************)
(* TorrentServed.  A call that has taken out an old torrent has none in    *)
(* the table until it enters its own (Adding), and waits for the file it   *)
(* has asked for (AsAsked).  A pruning that a call waits for is its only   *)
(* one (Awaited), and what it still has to delete is not in use, or known  *)
(* to have come into use since (Spared).                                   *)
(***************************************************************************)
Pruning == [of : Viewer \cup {Nothing}, plan : Seq(Hash)]
DirsRight == dirs \in Seq(Hash) /\ IsInjective(dirs)
Adding ==
  \A v \in Viewer : viewer[v].pc \in {"add", "init"} => handles[viewer[v].hash] = NoHandle
AsAsked ==
  \A v \in Viewer : viewer[v].pc = "init" => engine[viewer[v].hash].file = viewer[v].file
Awaited ==
  \A p \in prunes : p.of # Nothing =>
    viewer[p.of].pc = "pruning" /\ \A q \in prunes : q.of = p.of => q = p
Spared ==
  \A p \in prunes : \A h \in ToSet(p.plan) : handles[h] # NoHandle => h \in pruned

TorrentsServed == OneCall /\ HandleLive /\ StreamKept
TorrentIInv ==
  /\ TorrentTypeOK /\ DirsRight /\ prunes \subseteq Pruning
  /\ TorrentsServed /\ Adding /\ AsAsked /\ Awaited /\ Spared

LEMMA ListedOnce ==
  ASSUME NEW S, IsFiniteSet(S), NEW s \in SetToSeqs(S)
  PROVE  s \in Seq(S) /\ IsInjective(s)
<1>1. Cardinality(S) \in Nat
  BY FS_CardinalityType
<1>2. s \in [1 .. Cardinality(S) -> S]
      /\ \A i, j \in 1 .. Cardinality(S) : i # j => s[i] # s[j]
  BY DEF SetToSeqs
<1> QED
  BY <1>1, <1>2 DEF IsInjective

LEMMA Removed ==
  ASSUME NEW S, NEW s \in Seq(S), IsInjective(s), NEW e
  PROVE  /\ RemoveFirst(s, e) \in Seq(S) /\ IsInjective(RemoveFirst(s, e))
         /\ \A i \in DOMAIN RemoveFirst(s, e) : RemoveFirst(s, e)[i] # e
<1>1. CASE ~\E i \in 1 .. Len(s) : s[i] = e
  BY <1>1 DEF RemoveFirst
<1>2. ASSUME NEW k \in 1 .. Len(s), s[k] = e
      PROVE  /\ RemoveFirst(s, e) \in Seq(S) /\ IsInjective(RemoveFirst(s, e))
             /\ \A i \in DOMAIN RemoveFirst(s, e) : RemoveFirst(s, e)[i] # e
  <2>1. {i \in 1 .. Len(s) : s[i] = e} = {k}
    BY <1>2 DEF IsInjective
  <2>2. Min({k}) = k
    BY DEF Min
  <2>3. RemoveFirst(s, e) = SubSeq(s, 1, k - 1) \o SubSeq(s, k + 1, Len(s))
    BY <1>2, <2>1, <2>2 DEF RemoveFirst, RemoveAt, SelectInSeq
  <2>4. PICK t : t = SubSeq(s, 1, k - 1) \o SubSeq(s, k + 1, Len(s))
    OBVIOUS
  <2>5. /\ t \in Seq(S) /\ Len(t) = Len(s) - 1
        /\ \A i \in 1 .. Len(t) : t[i] = IF i < k THEN s[i] ELSE s[i + 1]
    <3>1. PICK front : front = SubSeq(s, 1, k - 1)
      OBVIOUS
    <3>2. PICK back : back = SubSeq(s, k + 1, Len(s))
      OBVIOUS
    <3>3. /\ front \in Seq(S) /\ Len(front) = k - 1
          /\ \A i \in 1 .. k - 1 : front[i] = s[i]
      BY <3>1
    <3>4. /\ back \in Seq(S) /\ Len(back) = Len(s) - k
          /\ \A i \in 1 .. Len(s) - k : back[i] = s[k + i]
      BY <3>2
    <3>5. t = front \o back /\ Len(s) \in Nat
      BY <2>4, <3>1, <3>2
    <3>6. t \in Seq(S) /\ Len(t) = Len(s) - 1
      BY <3>3, <3>4, <3>5, ConcatProperties
    <3>7. ASSUME NEW i \in 1 .. Len(t) PROVE t[i] = IF i < k THEN s[i] ELSE s[i + 1]
      <4>1. CASE i < k
        BY <3>3, <3>4, <3>5, <3>6, <4>1
      <4>2. CASE ~(i < k)
        <5>1. t[i] = back[i - (k - 1)]
          BY <3>3, <3>4, <3>5, <3>6, <4>2, SMTT(30)
        <5>2. i - (k - 1) \in 1 .. Len(s) - k /\ k + (i - (k - 1)) = i + 1
          BY <3>5, <3>6, <4>2
        <5> QED
          BY <3>4, <4>2, <5>1, <5>2
      <4> QED
        BY <4>1, <4>2
    <3> QED
      BY <3>6, <3>7
  <2>6. PICK at \in [1 .. Len(t) -> 1 .. Len(s)] :
          \A i \in 1 .. Len(t) : at[i] = IF i < k THEN i ELSE i + 1
    <3>1. [i \in 1 .. Len(t) |-> IF i < k THEN i ELSE i + 1] \in [1 .. Len(t) -> 1 .. Len(s)]
      BY <2>5
    <3> QED
      BY <3>1
  <2>7. \A i \in 1 .. Len(t) : t[i] = s[at[i]] /\ at[i] # k
    BY <2>5, <2>6
  <2>8. \A i, j \in 1 .. Len(t) : at[i] = at[j] => i = j
    BY <2>6
  <2>9. DOMAIN t = 1 .. Len(t) /\ DOMAIN s = 1 .. Len(s)
    BY <2>5
  <2>10. IsInjective(t) /\ \A i \in DOMAIN t : t[i] # e
    BY <1>2, <2>6, <2>7, <2>8, <2>9, SMTT(30) DEF IsInjective
  <2> QED
    BY <2>3, <2>4, <2>5, <2>10
<1> QED
  BY <1>1, <1>2

LEMMA DirsTouched ==
  ASSUME DirsRight, NEW h \in Hash, Touch(h)
  PROVE  DirsRight'
<1>1. PICK s : s = RemoveFirst(dirs, h)
  OBVIOUS
<1>2. s \in Seq(Hash) /\ IsInjective(s) /\ \A i \in DOMAIN s : s[i] # h
  BY <1>1, Removed DEF DirsRight
<1>3. dirs' = Append(s, h)
  BY <1>1 DEF Touch
<1> QED
  BY <1>2, <1>3 DEF DirsRight, IsInjective

LEMMA DirsRemoved ==
  ASSUME DirsRight, NEW h \in Hash, dirs' = RemoveFirst(dirs, h)
  PROVE  DirsRight'
  BY Removed DEF DirsRight

LEMMA TorrentIInvInit == TorrentInit => TorrentIInv
<1> SUFFICES ASSUME TorrentInit PROVE TorrentIInv
  OBVIOUS
<1>1. offer \in SUBSET (Hash \X TorrentFile)
  BY TorrentAssumption DEF TorrentInit
<1>2. disk \in [Hash -> SUBSET (Kind \X TorrentFile)]
  <2>1. PICK copies \in SUBSET offer :
          disk = [h \in Hash |-> {<<"copy", e[2]>> : e \in {c \in copies : c[1] = h}}]
    BY DEF TorrentInit
  <2>2. \A e \in copies : <<"copy", e[2]>> \in Kind \X TorrentFile
    BY <1>1 DEF Kind
  <2> QED
    BY <2>1, <2>2
<1>3. DirsRight /\ ToSet(dirs) \subseteq Hash
  <2>1. PICK S : S = {h \in Hash : disk[h] # {}}
    OBVIOUS
  <2>2. IsFiniteSet(S) /\ dirs \in SetToSeqs(S) /\ S \subseteq Hash
    BY <2>1, TorrentAssumption, FS_Subset DEF TorrentInit
  <2>3. dirs \in Seq(S) /\ IsInjective(dirs)
    BY <2>2, ListedOnce
  <2> QED
    BY <2>2, <2>3 DEF DirsRight, ToSet
<1>4. TorrentTypeOK
  BY <1>1, <1>2, <1>3, TorrentAssumption
     DEF TorrentInit, TorrentTypeOK, NoHandle, Unmanaged, DirsRight
<1>5. TorrentsServed
  BY DEF TorrentInit, TorrentsServed, OneCall, HandleLive, StreamKept, NoHandle, Unmanaged
<1>6. Adding /\ AsAsked /\ Awaited /\ Spared /\ prunes \subseteq Pruning
  BY DEF TorrentInit, Adding, AsAsked, Awaited, Spared, Free
<1> QED
  BY <1>3, <1>4, <1>5, <1>6 DEF TorrentIInv

\* The steps of a call: its own record changes, to none or one of the same hash.
CallOf(v, x) ==
  /\ viewer' = [viewer EXCEPT ![v] = x]
  /\ viewer[v] # Free /\ (x = Free \/ x.hash = viewer[v].hash)

ViewerSet == {Free} \cup
  [pc : Steps, op : {"resolve", "stream"}, hash : Hash, file : TorrentFile]

LEMMA ViewerOf ==
  ASSUME TorrentTypeOK, NEW v \in Viewer
  PROVE  /\ viewer[v] \in ViewerSet
         /\ viewer[v] # Free => /\ viewer[v].pc \in Steps /\ viewer[v].hash \in Hash
                                /\ viewer[v].file \in TorrentFile
         /\ viewer[v].pc # "idle" => viewer[v] # Free
         /\ viewer[v] = Free => viewer[v].hash = Nothing /\ viewer[v].pc = "idle"
<1>1. viewer[v] \in ViewerSet
  BY DEF TorrentTypeOK, ViewerSet
<1> QED
  BY <1>1 DEF ViewerSet, Free

LEMMA OneCallKept ==
  ASSUME TorrentTypeOK, OneCall, NEW v \in Viewer, NEW x, CallOf(v, x)
  PROVE  OneCall'
<1> SUFFICES ASSUME NEW a \in Viewer, NEW b \in Viewer, a # b, viewer'[a] # Free
             PROVE  viewer'[a].hash # viewer'[b].hash
  BY DEF OneCall
<1>1. viewer[v].hash \in Hash /\ viewer[v] # Free
  BY ViewerOf DEF CallOf
<1>2. viewer'[v] = x /\ \A w \in Viewer \ {v} : viewer'[w] = viewer[w]
  BY DEF CallOf, TorrentTypeOK
<1>3. Free.hash \notin Hash
  BY TorrentAssumption DEF Free
<1>4. CASE a = v
  BY <1>1, <1>2, <1>4 DEF OneCall, CallOf
<1>5. CASE b = v
  <2>1. viewer[a].hash \in Hash
    BY <1>2, <1>5, ViewerOf
  <2> QED
    BY <1>1, <1>2, <1>3, <1>5, <2>1 DEF OneCall, CallOf
<1>6. CASE a # v /\ b # v
  BY <1>2, <1>6 DEF OneCall
<1> QED
  BY <1>4, <1>5, <1>6

LEMMA ViewerTyped ==
  ASSUME TorrentTypeOK, NEW v \in Viewer, NEW x \in ViewerSet,
         viewer' = [viewer EXCEPT ![v] = x]
  PROVE  viewer' \in [Viewer -> ViewerSet] /\ viewer'[v] = x
         /\ \A w \in Viewer \ {v} : viewer'[w] = viewer[w]
  BY DEF TorrentTypeOK, ViewerSet

\* MoveTo and Leave are such steps.
LEMMA Moved ==
  ASSUME TorrentTypeOK, NEW v \in Viewer, NEW pc \in Steps, viewer[v] # Free, MoveTo(v, pc)
  PROVE  /\ viewer'[v] = [viewer[v] EXCEPT !.pc = pc] /\ CallOf(v, viewer'[v])
         /\ viewer'[v].pc = pc /\ viewer'[v].hash = viewer[v].hash
         /\ viewer'[v].file = viewer[v].file /\ viewer'[v].op = viewer[v].op
         /\ viewer' \in [Viewer -> ViewerSet]
         /\ \A w \in Viewer \ {v} : viewer'[w] = viewer[w]
<1>1. PICK old : old = viewer[v]
  OBVIOUS
<1>2. old \in [pc : Steps, op : {"resolve", "stream"}, hash : Hash, file : TorrentFile]
  BY <1>1, ViewerOf DEF ViewerSet
<1>3. PICK x : x = [old EXCEPT !.pc = pc]
  OBVIOUS
<1>4. x \in ViewerSet /\ x.pc = pc /\ x.hash = old.hash /\ x.file = old.file
      /\ x.op = old.op
  BY <1>2, <1>3 DEF ViewerSet
<1>5. viewer' = [viewer EXCEPT ![v] = x]
  BY <1>1, <1>3 DEF MoveTo
<1> QED
  BY <1>1, <1>3, <1>4, <1>5, ViewerTyped DEF CallOf

LEMMA Left ==
  ASSUME TorrentTypeOK, NEW v \in Viewer, viewer[v] # Free, Leave(v)
  PROVE  /\ viewer'[v] = Free /\ CallOf(v, viewer'[v])
         /\ viewer' \in [Viewer -> ViewerSet]
         /\ \A w \in Viewer \ {v} : viewer'[w] = viewer[w]
<1>1. Free \in ViewerSet /\ viewer' = [viewer EXCEPT ![v] = Free]
  BY DEF ViewerSet, Leave
<1> QED
  BY <1>1, ViewerTyped DEF CallOf

\* Between two calls nothing is done to a torrent by anyone but the engine.
Entered(v, h) ==
  /\ viewer' \in [Viewer -> ViewerSet]
  /\ viewer'[v].pc \notin {"add", "init"} /\ viewer'[v] # Free /\ viewer'[v].hash = h
  /\ \A w \in Viewer \ {v} : viewer'[w] = viewer[w]

LEMMA EnteredKept ==
  ASSUME TorrentIInv, NEW v \in Viewer, NEW h \in Hash, viewer[v].pc = "idle", LockFree(h),
         Entered(v, h), UNCHANGED <<offer, torrents, disk, rows, prunes, pruned>>, DirsRight'
  PROVE  TorrentIInv'
<1>1. OneCall'
  BY DEF TorrentIInv, TorrentsServed, OneCall, LockFree, Entered
<1>2. HandleLive' /\ StreamKept' /\ Spared' /\ (prunes \subseteq Pruning)'
  BY DEF TorrentIInv, TorrentsServed, HandleLive, StreamKept, Spared, torrents
<1>3. Adding' /\ AsAsked'
  BY DEF TorrentIInv, Adding, AsAsked, Entered, torrents
<1>4. Awaited'
  <2> SUFFICES ASSUME NEW p \in prunes, p.of # Nothing
               PROVE  viewer'[p.of].pc = "pruning" /\ \A q \in prunes : q.of = p.of => q = p
    BY DEF Awaited
  <2>1. viewer[p.of].pc = "pruning" /\ p.of \in Viewer
    BY DEF TorrentIInv, Awaited, Pruning
  <2> QED
    BY <2>1 DEF TorrentIInv, Awaited, Entered
<1>5. TorrentTypeOK'
  BY DEF TorrentIInv, TorrentTypeOK, Entered, ViewerSet, torrents, DirsRight, ToSet
<1> QED
  BY <1>1, <1>2, <1>3, <1>4, <1>5 DEF TorrentIInv, TorrentsServed

LEMMA EntersAs ==
  ASSUME TorrentIInv, NEW v \in Viewer, NEW e \in offer, NEW pc \in Steps,
         NEW op \in {"resolve", "stream"}, pc \notin {"add", "init"},
         Enter(v, pc, op, e[1], e[2])
  PROVE  Entered(v, e[1]) /\ e[1] \in Hash
<1>1. e[1] \in Hash /\ e[2] \in TorrentFile
  BY TorrentAssumption DEF TorrentIInv, TorrentTypeOK
<1>2. PICK x : x = [pc |-> pc, op |-> op, hash |-> e[1], file |-> e[2]]
  OBVIOUS
<1>3. x \in ViewerSet /\ x.pc = pc /\ x.hash = e[1]
  BY <1>1, <1>2 DEF ViewerSet
<1>4. x # Free
  BY <1>1, <1>3, TorrentAssumption DEF Free
<1>5. viewer' = [viewer EXCEPT ![v] = x]
  BY <1>2 DEF Enter
<1> QED
  BY <1>1, <1>3, <1>4, <1>5, ViewerTyped DEF Entered, TorrentIInv

LEMMA ResolveKept ==
  ASSUME TorrentIInv, NEW v \in Viewer, NEW e \in offer, Resolve(v, e[1], e[2])
  PROVE  TorrentIInv'
<1>1. Entered(v, e[1]) /\ e[1] \in Hash
  BY EntersAs DEF Resolve, Steps
<1>2. DirsRight'
  <2>1. CASE UNCHANGED dirs
    BY <2>1 DEF DirsRight, TorrentIInv
  <2>2. CASE Touch(e[1])
    BY <1>1, <2>2, DirsTouched DEF TorrentIInv
  <2> QED
    BY <2>1, <2>2 DEF Resolve
<1> QED
  BY <1>1, <1>2, EnteredKept DEF Resolve, At, history

LEMMA StreamKeeps ==
  ASSUME TorrentIInv, NEW v \in Viewer, NEW e \in offer, Stream(v, e[1], e[2])
  PROVE  TorrentIInv'
<1>1. Entered(v, e[1]) /\ e[1] \in Hash
  BY EntersAs DEF Stream, Steps
<1>2. DirsRight'
  BY DEF DirsRight, TorrentIInv, Stream, files
<1> QED
  BY <1>1, <1>2, EnteredKept DEF Stream, At, history, files

\* A call that waits for no pruning goes on, without a word to the engine.
Onward(v) ==
  /\ viewer' \in [Viewer -> ViewerSet]
  /\ CallOf(v, viewer'[v]) /\ viewer'[v].pc \notin {"add", "init"}
  /\ \A w \in Viewer \ {v} : viewer'[w] = viewer[w]

LEMMA OnwardKept ==
  ASSUME TorrentIInv, NEW v \in Viewer, viewer[v].pc # "pruning", Onward(v),
         UNCHANGED <<offer, torrents, disk, prunes, pruned>>, DirsRight',
         rows' \subseteq Hash \X TorrentFile
  PROVE  TorrentIInv'
<1>1. OneCall'
  BY OneCallKept DEF TorrentIInv, TorrentsServed, Onward
<1>2. HandleLive' /\ StreamKept' /\ Spared' /\ (prunes \subseteq Pruning)'
  BY DEF TorrentIInv, TorrentsServed, HandleLive, StreamKept, Spared, torrents
<1>3. Adding' /\ AsAsked'
  BY DEF TorrentIInv, Adding, AsAsked, Onward, torrents
<1>4. Awaited'
  <2> SUFFICES ASSUME NEW p \in prunes, p.of # Nothing
               PROVE  viewer'[p.of].pc = "pruning" /\ \A q \in prunes : q.of = p.of => q = p
    BY DEF Awaited
  <2>1. viewer[p.of].pc = "pruning" /\ p.of \in Viewer
    BY DEF TorrentIInv, Awaited, Pruning
  <2> QED
    BY <2>1 DEF TorrentIInv, Awaited, Onward
<1>5. TorrentTypeOK'
  BY DEF TorrentIInv, TorrentTypeOK, Onward, ViewerSet, torrents, DirsRight, ToSet
<1> QED
  BY <1>1, <1>2, <1>3, <1>4, <1>5 DEF TorrentIInv, TorrentsServed

LEMMA HandleFoundKept ==
  ASSUME TorrentIInv, NEW v \in Viewer, HandleReady(v) \/ HandleOther(v)
  PROVE  TorrentIInv'
<1>1. viewer[v] # Free /\ viewer[v].pc = "handle"
  BY ViewerOf DEF TorrentIInv, HandleReady, HandleOther, At
<1>2. Onward(v)
  <2>1. PICK pc \in {"answer", "delete"} : MoveTo(v, pc)
    BY DEF HandleReady, HandleOther
  <2> QED
    BY <1>1, <2>1, Moved DEF Onward, TorrentIInv, Steps
<1>3. UNCHANGED <<offer, torrents, dirs, disk, prunes, pruned, rows>>
  BY DEF HandleReady, HandleOther, files, history
<1>4. DirsRight' /\ rows' \subseteq Hash \X TorrentFile
  BY <1>3 DEF TorrentIInv, TorrentTypeOK, DirsRight
<1> QED
  BY <1>1, <1>2, <1>3, <1>4, OnwardKept

LEMMA AnswerKept ==
  ASSUME TorrentIInv, NEW v \in Viewer, Answer(v)
  PROVE  TorrentIInv'
<1>1. viewer[v] # Free /\ viewer[v].pc = "answer" /\ viewer[v].hash \in Hash
      /\ viewer[v].file \in TorrentFile
  BY ViewerOf DEF TorrentIInv, Answer, At
<1>2. Onward(v)
  BY <1>1, Left DEF Onward, Answer, TorrentIInv, Free
<1>3. DirsRight'
  BY <1>1, DirsTouched DEF TorrentIInv, Answer
<1>4. rows' \subseteq Hash \X TorrentFile
  BY <1>1 DEF Answer, TorrentIInv, TorrentTypeOK
<1>5. UNCHANGED <<offer, torrents, disk, prunes, pruned>>
  BY DEF Answer, history
<1> QED
  BY <1>1, <1>2, <1>3, <1>4, <1>5, OnwardKept

\* What none of the calls does: the engine lays a file out, a copy is read,
\* a row expires.
LEMMA LayOutKept ==
  ASSUME TorrentIInv, NEW h \in Hash, LayOut(h)
  PROVE  TorrentIInv'
<1>1. PICK old : old = engine[h]
  OBVIOUS
<1>2. old \in [file : TorrentFile \cup {Nothing}, laid : BOOLEAN]
  BY <1>1 DEF TorrentIInv, TorrentTypeOK
<1>3. old.file \in TorrentFile
  BY <1>1, <1>2 DEF LayOut, Unwritten, Unmanaged
<1>4. PICK new : new = [old EXCEPT !.laid = TRUE]
  OBVIOUS
<1>5. /\ new \in [file : TorrentFile \cup {Nothing}, laid : BOOLEAN]
      /\ new.file = old.file /\ new.laid
  BY <1>2, <1>4
<1>6. engine' = [engine EXCEPT ![h] = new]
  BY <1>1, <1>4 DEF LayOut
<1>7. engine'[h] = new /\ \A g \in Hash \ {h} : engine'[g] = engine[g]
  BY <1>6 DEF TorrentIInv, TorrentTypeOK
<1>8. \A g \in Hash : engine'[g].file = engine[g].file /\ (engine[g].laid => engine'[g].laid)
  BY <1>1, <1>5, <1>7
<1>9. disk' \in [Hash -> SUBSET (Kind \X TorrentFile)]
      /\ <<"torrent", old.file>> \in disk'[h]
      /\ \A g \in Hash \ {h} : disk'[g] = disk[g]
  BY <1>1, <1>3 DEF LayOut, TorrentIInv, TorrentTypeOK, Kind
<1>10. DirsRight'
  BY DirsTouched DEF LayOut, TorrentIInv
<1>11. TorrentTypeOK'
  <2>1. engine' \in [Hash -> [file : TorrentFile \cup {Nothing}, laid : BOOLEAN]]
    BY <1>5, <1>6 DEF TorrentIInv, TorrentTypeOK
  <2>2. (ToSet(dirs) \subseteq Hash /\ IsInjective(dirs))'
    BY <1>10 DEF DirsRight, ToSet
  <2> QED
    BY <2>1, <2>2, <1>9 DEF LayOut, TorrentIInv, TorrentTypeOK
<1>12. OneCall' /\ Adding' /\ Awaited' /\ Spared' /\ (prunes \subseteq Pruning)'
  BY DEF LayOut, history, TorrentIInv, TorrentsServed, OneCall, Adding, Awaited, Spared
<1>13. HandleLive' /\ AsAsked'
  BY <1>8, ViewerOf
     DEF LayOut, TorrentIInv, TorrentsServed, HandleLive, AsAsked, TorrentTypeOK
<1>14. StreamKept'
  BY <1>5, <1>7, <1>9 DEF LayOut, history, TorrentIInv, TorrentsServed, StreamKept
<1> QED
  BY <1>10, <1>11, <1>12, <1>13, <1>14 DEF TorrentIInv, TorrentsServed

LEMMA QuietKept ==
  ASSUME TorrentIInv, UNCHANGED <<offer, viewer, torrents, disk, prunes, pruned>>,
         DirsRight', rows' \subseteq Hash \X TorrentFile
  PROVE  TorrentIInv'
<1>1. TorrentTypeOK'
  BY DEF TorrentIInv, TorrentTypeOK, DirsRight, ToSet, torrents
<1>2. TorrentsServed'
  BY DEF TorrentIInv, TorrentsServed, OneCall, HandleLive, StreamKept, torrents
<1>3. Adding' /\ AsAsked' /\ Awaited' /\ Spared' /\ (prunes \subseteq Pruning)'
  BY DEF TorrentIInv, Adding, AsAsked, Awaited, Spared, torrents
<1> QED
  BY <1>1, <1>2, <1>3 DEF TorrentIInv

LEMMA StreamCopyKept ==
  ASSUME TorrentIInv, NEW e \in offer, StreamCopy(e[1], e[2])
  PROVE  TorrentIInv'
<1>1. e[1] \in Hash
  BY TorrentAssumption DEF TorrentIInv, TorrentTypeOK
<1>2. DirsRight'
  BY <1>1, DirsTouched DEF StreamCopy, TorrentIInv
<1>3. rows' \subseteq Hash \X TorrentFile
  BY DEF StreamCopy, TorrentIInv, TorrentTypeOK
<1> QED
  BY <1>2, <1>3, QuietKept DEF StreamCopy, history

LEMMA ExpireKept ==
  ASSUME TorrentIInv, NEW e \in offer, Expire(e)
  PROVE  TorrentIInv'
<1>1. DirsRight'
  BY DEF Expire, files, TorrentIInv, DirsRight
<1>2. rows' \subseteq Hash \X TorrentFile
  BY DEF Expire, TorrentIInv, TorrentTypeOK
<1> QED
  BY <1>1, <1>2, QuietKept DEF Expire, history, files

\* What a call holds against the others: only it asks for its torrent.
LEMMA Alone ==
  ASSUME TorrentIInv, NEW v \in Viewer, viewer[v] # Free
  PROVE  \A w \in Viewer \ {v} : viewer[w].hash # viewer[v].hash
  BY DEF TorrentIInv, TorrentsServed, OneCall

LEMMA AwaitedStays ==
  ASSUME TorrentIInv, NEW v \in Viewer, viewer[v].pc # "pruning",
         \A w \in Viewer \ {v} : viewer'[w] = viewer[w], UNCHANGED prunes
  PROVE  Awaited' /\ (prunes \subseteq Pruning)'
<1> SUFFICES ASSUME NEW p \in prunes, p.of # Nothing
             PROVE  viewer'[p.of].pc = "pruning" /\ \A q \in prunes : q.of = p.of => q = p
  BY DEF Awaited, TorrentIInv
<1>1. viewer[p.of].pc = "pruning" /\ p.of \in Viewer
  BY DEF TorrentIInv, Awaited, Pruning
<1> QED
  BY <1>1 DEF TorrentIInv, Awaited

LEMMA DeleteOldKept ==
  ASSUME TorrentIInv, NEW v \in Viewer, DeleteOld(v)
  PROVE  TorrentIInv'
<1>1. PICK h : h = viewer[v].hash
  OBVIOUS
<1>2. viewer[v] # Free /\ viewer[v].pc = "delete" /\ h \in Hash
  BY <1>1, ViewerOf DEF TorrentIInv, DeleteOld, At
<1>3. /\ CallOf(v, viewer'[v]) /\ viewer'[v].pc = "add" /\ viewer'[v].hash = h
      /\ viewer' \in [Viewer -> ViewerSet]
      /\ \A w \in Viewer \ {v} : viewer'[w] = viewer[w]
  BY <1>1, <1>2, Moved DEF DeleteOld, TorrentIInv, Steps
<1>4. handles' = [handles EXCEPT ![h] = NoHandle]
  BY <1>1 DEF DeleteOld
<1>5. engine' = [engine EXCEPT ![h] = Unmanaged] \/ engine' = engine
  BY <1>1 DEF DeleteOld
<1>6. /\ handles'[h] = NoHandle /\ \A g \in Hash \ {h} : handles'[g] = handles[g]
      /\ handles' \in [Hash -> [file : TorrentFile \cup {Nothing}, live : BOOLEAN]]
  BY <1>2, <1>4 DEF TorrentIInv, TorrentTypeOK, NoHandle
<1>7. /\ engine'[h] = Unmanaged \/ engine'[h] = engine[h]
      /\ \A g \in Hash \ {h} : engine'[g] = engine[g]
      /\ engine' \in [Hash -> [file : TorrentFile \cup {Nothing}, laid : BOOLEAN]]
  <2>1. CASE engine' = engine
    BY <2>1, <1>2 DEF TorrentIInv, TorrentTypeOK
  <2>2. CASE engine' = [engine EXCEPT ![h] = Unmanaged]
    <3>1. Unmanaged \in [file : TorrentFile \cup {Nothing}, laid : BOOLEAN]
      BY DEF Unmanaged
    <3> QED
      BY <2>2, <1>2, <3>1 DEF TorrentIInv, TorrentTypeOK
  <2> QED
    BY <1>5, <2>1, <2>2
<1>8. UNCHANGED <<offer, dirs, disk, rows, prunes, pruned>>
  BY DEF DeleteOld, files, history
<1>9. \A w \in Viewer \ {v} : viewer[w].hash # h
  BY <1>1, <1>2, Alone
<1>10. TorrentTypeOK'
  BY <1>3, <1>6, <1>7, <1>8 DEF TorrentIInv, TorrentTypeOK, ViewerSet
<1>11. OneCall'
  BY <1>3, OneCallKept DEF TorrentIInv, TorrentsServed
<1>12. HandleLive'
  BY <1>6, <1>7 DEF TorrentIInv, TorrentsServed, HandleLive, NoHandle
<1>13. StreamKept'
  BY <1>7, <1>8 DEF TorrentIInv, TorrentsServed, StreamKept, Unmanaged
<1>14. Adding'
  <2> SUFFICES ASSUME NEW w \in Viewer, viewer'[w].pc \in {"add", "init"}
               PROVE  handles'[viewer'[w].hash] = NoHandle
    BY DEF Adding
  <2>1. w # v => viewer[w].hash \in Hash \ {h}
    BY <1>3, <1>9, ViewerOf DEF TorrentIInv
  <2> QED
    BY <2>1, <1>3, <1>6 DEF TorrentIInv, Adding
<1>15. AsAsked'
  <2> SUFFICES ASSUME NEW w \in Viewer, viewer'[w].pc = "init"
               PROVE  engine'[viewer'[w].hash].file = viewer'[w].file
    BY DEF AsAsked
  <2>1. w # v /\ viewer'[w] = viewer[w]
    BY <1>3
  <2>2. viewer[w].hash \in Hash \ {h}
    BY <2>1, <1>9, ViewerOf DEF TorrentIInv
  <2> QED
    BY <2>1, <2>2, <1>7 DEF TorrentIInv, AsAsked
<1>16. Awaited' /\ (prunes \subseteq Pruning)'
  BY <1>2, <1>3, <1>8, AwaitedStays
<1>17. Spared'
  <2> SUFFICES ASSUME NEW p \in prunes, NEW g \in ToSet(p.plan), handles'[g] # NoHandle
               PROVE  g \in pruned
    BY <1>8 DEF Spared
  <2>1. g \in Hash
    BY DEF TorrentIInv, Pruning, ToSet
  <2> QED
    BY <2>1, <1>6 DEF TorrentIInv, Spared
<1>18. DirsRight'
  BY <1>8 DEF TorrentIInv, DirsRight
<1> QED
  BY <1>10, <1>11, <1>12, <1>13, <1>14, <1>15, <1>16, <1>17, <1>18
     DEF TorrentIInv, TorrentsServed

LEMMA AddTorrentKept ==
  ASSUME TorrentIInv, NEW v \in Viewer, AddTorrent(v)
  PROVE  TorrentIInv'
<1>1. PICK h, f : h = viewer[v].hash /\ f = viewer[v].file
  OBVIOUS
<1>2. /\ viewer[v] # Free /\ viewer[v].pc \in {"handle", "add"}
      /\ h \in Hash /\ f \in TorrentFile
  BY <1>1, ViewerOf DEF TorrentIInv, AddTorrent, At
<1>3. handles[h] = NoHandle
  BY <1>1 DEF AddTorrent, At, TorrentIInv, Adding
<1>4. /\ CallOf(v, viewer'[v]) /\ viewer'[v].hash = h /\ viewer'[v].file = f
      /\ viewer' \in [Viewer -> ViewerSet]
      /\ \A w \in Viewer \ {v} : viewer'[w] = viewer[w]
  BY <1>1, <1>2, Moved DEF AddTorrent, TorrentIInv, Steps
<1>5. PICK new : new = [file |-> f, laid |-> FALSE]
  OBVIOUS
<1>6. new \in [file : TorrentFile \cup {Nothing}, laid : BOOLEAN] /\ new.file = f /\ ~new.laid
  BY <1>2, <1>5
<1>7. engine' = IF engine[h].file = f THEN engine ELSE [engine EXCEPT ![h] = new]
  BY <1>1, <1>5 DEF AddTorrent
<1>8. /\ engine'[h] = engine[h] \/ engine'[h] = new
      /\ engine'[h].file = f
      /\ \A g \in Hash \ {h} : engine'[g] = engine[g]
      /\ engine' \in [Hash -> [file : TorrentFile \cup {Nothing}, laid : BOOLEAN]]
  BY <1>2, <1>6, <1>7 DEF TorrentIInv, TorrentTypeOK
<1>9. UNCHANGED <<offer, handles, disk, rows, prunes, pruned>>
  BY DEF AddTorrent
<1>10. DirsRight'
  <2>1. CASE UNCHANGED dirs
    BY <2>1 DEF DirsRight, TorrentIInv
  <2>2. CASE Touch(h)
    BY <1>2, <2>2, DirsTouched DEF TorrentIInv
  <2> QED
    BY <1>1, <2>1, <2>2 DEF AddTorrent
<1>11. \A w \in Viewer \ {v} : viewer[w].hash # h
  BY <1>1, <1>2, Alone
<1>12. TorrentTypeOK'
  BY <1>4, <1>8, <1>9, <1>10
     DEF TorrentIInv, TorrentTypeOK, ViewerSet, DirsRight, ToSet
<1>13. OneCall'
  BY <1>4, OneCallKept DEF TorrentIInv, TorrentsServed
<1>14. HandleLive'
  BY <1>3, <1>8, <1>9 DEF TorrentIInv, TorrentsServed, HandleLive, NoHandle
<1>15. StreamKept'
  BY <1>6, <1>8, <1>9 DEF TorrentIInv, TorrentsServed, StreamKept
<1>16. Adding'
  <2> SUFFICES ASSUME NEW w \in Viewer, viewer'[w].pc \in {"add", "init"}
               PROVE  handles[viewer'[w].hash] = NoHandle
    BY <1>9 DEF Adding
  <2> QED
    BY <1>3, <1>4 DEF TorrentIInv, Adding
<1>17. AsAsked'
  <2> SUFFICES ASSUME NEW w \in Viewer, viewer'[w].pc = "init"
               PROVE  engine'[viewer'[w].hash].file = viewer'[w].file
    BY DEF AsAsked
  <2>1. w # v => viewer[w].hash \in Hash \ {h}
    BY <1>4, <1>11, ViewerOf DEF TorrentIInv
  <2> QED
    BY <2>1, <1>4, <1>8 DEF TorrentIInv, AsAsked
<1>18. Awaited' /\ (prunes \subseteq Pruning)'
  BY <1>2, <1>4, <1>9, AwaitedStays
<1>19. Spared'
  BY <1>9 DEF TorrentIInv, Spared
<1> QED
  BY <1>10, <1>12, <1>13, <1>14, <1>15, <1>16, <1>17, <1>18, <1>19
     DEF TorrentIInv, TorrentsServed

LEMMA InitializedKept ==
  ASSUME TorrentIInv, NEW v \in Viewer, Initialized(v)
  PROVE  TorrentIInv'
<1>1. PICK h, f : h = viewer[v].hash /\ f = viewer[v].file
  OBVIOUS
<1>2. viewer[v] # Free /\ viewer[v].pc = "init" /\ h \in Hash /\ f \in TorrentFile
  BY <1>1, ViewerOf DEF TorrentIInv, Initialized, At
<1>3. engine[h].file = f /\ engine[h].laid
  BY <1>1, <1>2 DEF TorrentIInv, AsAsked, Initialized
<1>4. /\ CallOf(v, viewer'[v]) /\ viewer'[v].pc = "answer"
      /\ viewer' \in [Viewer -> ViewerSet]
      /\ \A w \in Viewer \ {v} : viewer'[w] = viewer[w]
  BY <1>2, Moved DEF Initialized, TorrentIInv, Steps
<1>5. PICK new : new = [file |-> f, live |-> TRUE]
  OBVIOUS
<1>6. new \in [file : TorrentFile \cup {Nothing}, live : BOOLEAN] /\ new.file = f
  BY <1>2, <1>5
<1>7. handles' = [handles EXCEPT ![h] = new]
  BY <1>1, <1>5 DEF Initialized
<1>8. /\ handles'[h] = new
      /\ \A g \in Hash \ {h} : handles'[g] = handles[g]
      /\ handles' \in [Hash -> [file : TorrentFile \cup {Nothing}, live : BOOLEAN]]
  BY <1>2, <1>6, <1>7 DEF TorrentIInv, TorrentTypeOK
<1>9. UNCHANGED <<offer, engine, dirs, disk, rows, prunes>>
  BY DEF Initialized, files
<1>10. pruned \subseteq pruned' /\ ((\E p \in prunes : h \in ToSet(p.plan)) => h \in pruned')
  BY <1>1 DEF Initialized
<1>11. \A w \in Viewer \ {v} : viewer[w].hash # h
  BY <1>1, <1>2, Alone
<1>12. TorrentTypeOK'
  BY <1>4, <1>8, <1>9 DEF TorrentIInv, TorrentTypeOK, ViewerSet
<1>13. OneCall'
  BY <1>4, OneCallKept DEF TorrentIInv, TorrentsServed
<1>14. HandleLive'
  BY <1>3, <1>6, <1>8, <1>9 DEF TorrentIInv, TorrentsServed, HandleLive
<1>15. StreamKept'
  BY <1>9, <1>10 DEF TorrentIInv, TorrentsServed, StreamKept
<1>16. Adding'
  <2> SUFFICES ASSUME NEW w \in Viewer, viewer'[w].pc \in {"add", "init"}
               PROVE  handles'[viewer'[w].hash] = NoHandle
    BY DEF Adding
  <2>1. w # v /\ viewer'[w] = viewer[w]
    BY <1>4
  <2>2. viewer[w].hash \in Hash \ {h}
    BY <2>1, <1>11, ViewerOf DEF TorrentIInv
  <2> QED
    BY <2>1, <2>2, <1>8 DEF TorrentIInv, Adding
<1>17. AsAsked'
  BY <1>4, <1>9 DEF TorrentIInv, AsAsked
<1>18. Awaited' /\ (prunes \subseteq Pruning)'
  BY <1>2, <1>4, <1>9, AwaitedStays
<1>19. Spared'
  <2> SUFFICES ASSUME NEW p \in prunes, NEW g \in ToSet(p.plan), handles'[g] # NoHandle
               PROVE  g \in pruned'
    BY <1>9 DEF Spared
  <2>1. g \in Hash
    BY DEF TorrentIInv, Pruning, ToSet
  <2> QED
    BY <2>1, <1>8, <1>10 DEF TorrentIInv, Spared
<1>20. DirsRight'
  BY <1>9 DEF TorrentIInv, DirsRight
<1> QED
  BY <1>12, <1>13, <1>14, <1>15, <1>16, <1>17, <1>18, <1>19, <1>20
     DEF TorrentIInv, TorrentsServed

LEMMA PlanSpares ==
  ASSUME TorrentIInv, NEW v, NEW stale, NEW stuck, NEW plan \in Plans(Doomed(v, stale, stuck))
  PROVE  plan \in Seq(Hash) /\ \A h \in ToSet(plan) : handles[h] = NoHandle
<1>1. PICK doomed : doomed = Doomed(v, stale, stuck)
  OBVIOUS
<1>2. doomed \subseteq ToSet(dirs) \ InUse
  BY <1>1 DEF Doomed
<1>3. doomed \subseteq Hash
  BY <1>2 DEF TorrentIInv, DirsRight, ToSet
<1>4. IsFiniteSet(doomed)
  BY <1>3, TorrentAssumption, FS_Subset
<1>5. plan \in SetToSeqs(doomed)
  BY <1>1 DEF Plans
<1>6. plan \in Seq(doomed)
  BY <1>4, <1>5, ListedOnce
<1>7. plan \in Seq(Hash) /\ \A h \in ToSet(plan) : h \in doomed
  BY <1>3, <1>6 DEF ToSet
<1> QED
  BY <1>2, <1>3, <1>7 DEF InUse

LEMMA StartPruneKept ==
  ASSUME TorrentIInv, NEW v \in Viewer, StartPrune(v)
  PROVE  TorrentIInv'
<1>1. viewer[v] # Free /\ viewer[v].pc = "room"
  BY ViewerOf DEF TorrentIInv, StartPrune, At
<1>2. /\ CallOf(v, viewer'[v]) /\ viewer'[v].pc = "pruning"
      /\ viewer' \in [Viewer -> ViewerSet]
      /\ \A w \in Viewer \ {v} : viewer'[w] = viewer[w]
  BY <1>1, Moved DEF StartPrune, TorrentIInv, Steps
<1>3. PICK plan : /\ plan \in Seq(Hash) /\ \A h \in ToSet(plan) : handles[h] = NoHandle
                  /\ prunes' = prunes \cup {[of |-> v, plan |-> plan]}
  BY PlanSpares DEF StartPrune
<1>4. PICK new : new = [of |-> v, plan |-> plan]
  OBVIOUS
<1>5. new.of = v /\ new.plan = plan /\ new \in Pruning /\ prunes' = prunes \cup {new}
  BY <1>3, <1>4 DEF Pruning
<1>6. UNCHANGED <<offer, handles, engine, disk, dirs, rows, pruned>>
  BY DEF StartPrune, torrents, files, history
<1>7. TorrentTypeOK' /\ DirsRight'
  BY <1>2, <1>6 DEF TorrentIInv, TorrentTypeOK, ViewerSet, DirsRight
<1>8. OneCall'
  BY <1>2, OneCallKept DEF TorrentIInv, TorrentsServed
<1>9. HandleLive' /\ StreamKept'
  BY <1>6 DEF TorrentIInv, TorrentsServed, HandleLive, StreamKept
<1>10. Adding' /\ AsAsked'
  BY <1>2, <1>6 DEF TorrentIInv, Adding, AsAsked
<1>11. (prunes \subseteq Pruning)'
  BY <1>5 DEF TorrentIInv
<1>12. \A p \in prunes : p.of # v
  BY <1>1, TorrentAssumption DEF TorrentIInv, Awaited
<1>13. Awaited'
  <2> SUFFICES ASSUME NEW p \in prunes', p.of # Nothing
               PROVE  viewer'[p.of].pc = "pruning" /\ \A q \in prunes' : q.of = p.of => q = p
    BY DEF Awaited
  <2>1. CASE p = new
    BY <2>1, <1>2, <1>5, <1>12
  <2>2. CASE p \in prunes
    <3>1. viewer[p.of].pc = "pruning" /\ p.of \in Viewer \ {v}
      BY <2>2, <1>12 DEF TorrentIInv, Awaited, Pruning
    <3> QED
      BY <2>2, <3>1, <1>2, <1>5 DEF TorrentIInv, Awaited
  <2> QED
    BY <2>1, <2>2, <1>5
<1>14. Spared'
  BY <1>3, <1>5, <1>6 DEF TorrentIInv, Spared
<1> QED
  BY <1>7, <1>8, <1>9, <1>10, <1>11, <1>13, <1>14 DEF TorrentIInv, TorrentsServed

LEMMA PruneDirKept ==
  ASSUME TorrentIInv, NEW p \in prunes, PruneDir(p)
  PROVE  TorrentIInv'
<1>1. PICK h : h = Head(p.plan)
  OBVIOUS
<1>2. p.plan \in Seq(Hash) /\ p.plan # << >> /\ p.of \in Viewer \cup {Nothing}
  BY DEF PruneDir, TorrentIInv, Pruning
<1>3. h \in Hash /\ h \in ToSet(p.plan)
  BY <1>1, <1>2 DEF ToSet
<1>4. PICK rest : rest = Tail(p.plan)
  OBVIOUS
<1>5. rest \in Seq(Hash) /\ ToSet(rest) \subseteq ToSet(p.plan)
  BY <1>2, <1>4 DEF ToSet
<1>6. PICK new : new = [p EXCEPT !.plan = rest]
  OBVIOUS
<1>7. p \in Pruning
  BY DEF TorrentIInv
<1>8. new \in Pruning /\ new.of = p.of /\ new.plan = rest
  BY <1>5, <1>6, <1>7 DEF Pruning
<1>9. prunes' = (prunes \ {p}) \cup {new}
  BY <1>4, <1>6 DEF PruneDir
<1>10. disk' = [disk EXCEPT ![h] = {}] /\ dirs' = RemoveFirst(dirs, h)
  BY <1>1 DEF PruneDir
<1>11. pruned \subseteq pruned'
       /\ (engine[h] # Unmanaged /\ handles[h] = NoHandle => h \in pruned')
  BY <1>1 DEF PruneDir
<1>12. UNCHANGED <<offer, viewer, handles, engine, rows>>
  BY DEF PruneDir, torrents
<1>13. DirsRight'
  BY <1>3, <1>10, DirsRemoved DEF TorrentIInv
<1>14. disk' \in [Hash -> SUBSET (Kind \X TorrentFile)]
       /\ \A g \in Hash \ {h} : disk'[g] = disk[g]
  BY <1>3, <1>10 DEF TorrentIInv, TorrentTypeOK
<1>15. TorrentTypeOK'
  BY <1>12, <1>13, <1>14 DEF TorrentIInv, TorrentTypeOK, DirsRight, ToSet
<1>16. OneCall' /\ HandleLive' /\ Adding' /\ AsAsked'
  BY <1>12 DEF TorrentIInv, TorrentsServed, OneCall, HandleLive, Adding, AsAsked
<1>17. StreamKept'
  <2> SUFFICES ASSUME NEW g \in Hash, engine[g].laid, g \notin pruned'
               PROVE  <<"torrent", engine[g].file>> \in disk'[g]
    BY <1>12 DEF StreamKept
  <2>1. g # h
    <3> SUFFICES ASSUME g = h PROVE FALSE
      OBVIOUS
    <3>1. engine[h] # Unmanaged
      BY DEF Unmanaged
    <3>2. handles[h] # NoHandle
      BY <3>1, <1>11
    <3> QED
      BY <3>2, <1>3, <1>11 DEF TorrentIInv, Spared
  <2> QED
    BY <2>1, <1>11, <1>14 DEF TorrentIInv, TorrentsServed, StreamKept
<1>18. (prunes \subseteq Pruning)'
  BY <1>8, <1>9 DEF TorrentIInv
<1>19. Awaited'
  <2> SUFFICES ASSUME NEW q \in prunes', q.of # Nothing
               PROVE  viewer[q.of].pc = "pruning" /\ \A r \in prunes' : r.of = q.of => r = q
    BY <1>12 DEF Awaited
  <2>1. CASE q = new
    BY <2>1, <1>8, <1>9 DEF TorrentIInv, Awaited
  <2>2. CASE q \in prunes \ {p}
    <3>1. q.of # new.of
      BY <2>2, <1>8 DEF TorrentIInv, Awaited
    <3> QED
      BY <2>2, <3>1, <1>9 DEF TorrentIInv, Awaited
  <2> QED
    BY <2>1, <2>2, <1>9
<1>20. Spared'
  <2> SUFFICES ASSUME NEW q \in prunes', NEW g \in ToSet(q.plan), handles[g] # NoHandle
               PROVE  g \in pruned'
    BY <1>12 DEF Spared
  <2>1. \E r \in prunes : g \in ToSet(r.plan)
    BY <1>5, <1>8, <1>9
  <2> QED
    BY <2>1, <1>11 DEF TorrentIInv, Spared
<1> QED
  BY <1>13, <1>15, <1>16, <1>17, <1>18, <1>19, <1>20 DEF TorrentIInv, TorrentsServed

LEMMA EndPruneKept ==
  ASSUME TorrentIInv, NEW p \in prunes, EndPrune(p)
  PROVE  TorrentIInv'
<1>1. UNCHANGED <<offer, handles, engine, disk, dirs, rows, pruned>> /\ prunes' = prunes \ {p}
  BY DEF EndPrune, torrents, files
<1>2. \/ p.of = Nothing /\ UNCHANGED viewer
      \/ p.of \in Viewer /\ viewer[p.of] # Free /\ Onward(p.of)
  <2>1. p.of # Nothing => p.of \in Viewer /\ viewer[p.of].pc = "pruning"
    BY DEF TorrentIInv, Pruning, Awaited
  <2>2. p.of # Nothing => viewer[p.of] # Free
    BY <2>1, ViewerOf DEF TorrentIInv
  <2>3. CASE p.of # Nothing /\ MoveTo(p.of, "handle")
    BY <2>1, <2>2, <2>3, Moved DEF Onward, TorrentIInv, Steps
  <2>4. CASE p.of # Nothing /\ Leave(p.of)
    BY <2>1, <2>2, <2>4, Left DEF Onward, TorrentIInv, Free
  <2>5. CASE p.of = Nothing /\ UNCHANGED viewer
    BY <2>5
  <2> QED
    BY <2>1, <2>2, <2>3, <2>4, <2>5 DEF EndPrune
<1>3. TorrentTypeOK' /\ DirsRight'
  BY <1>1, <1>2 DEF TorrentIInv, TorrentTypeOK, ViewerSet, DirsRight, Onward
<1>4. OneCall'
  <2>1. CASE UNCHANGED viewer
    BY <2>1 DEF TorrentIInv, TorrentsServed, OneCall
  <2>2. CASE p.of \in Viewer /\ Onward(p.of)
    BY <2>2, OneCallKept DEF TorrentIInv, TorrentsServed, Onward
  <2> QED
    BY <1>2, <2>1, <2>2
<1>5. HandleLive' /\ StreamKept'
  BY <1>1 DEF TorrentIInv, TorrentsServed, HandleLive, StreamKept
<1>6. Adding' /\ AsAsked'
  BY <1>1, <1>2 DEF TorrentIInv, Adding, AsAsked, Onward
<1>7. (prunes \subseteq Pruning)' /\ Spared'
  BY <1>1 DEF TorrentIInv, Spared
<1>8. Awaited'
  <2> SUFFICES ASSUME NEW q \in prunes', q.of # Nothing
               PROVE  viewer'[q.of].pc = "pruning" /\ \A r \in prunes' : r.of = q.of => r = q
    BY DEF Awaited
  <2>1. q \in prunes /\ q # p
    BY <1>1
  <2>2. q.of # p.of /\ q.of \in Viewer /\ viewer[q.of].pc = "pruning"
    BY <2>1 DEF TorrentIInv, Awaited, Pruning
  <2>3. viewer'[q.of] = viewer[q.of]
    BY <2>2, <1>2 DEF Onward
  <2> QED
    BY <2>1, <2>2, <2>3, <1>1 DEF TorrentIInv, Awaited
<1> QED
  BY <1>3, <1>4, <1>5, <1>6, <1>7, <1>8 DEF TorrentIInv, TorrentsServed

\* What an abandoned call leaves: the table and the engine as they were, or
\* the torrent deleted and its handle still there.
EngineLeft(h) ==
  /\ handles' \in [Hash -> [file : TorrentFile \cup {Nothing}, live : BOOLEAN]]
  /\ engine' \in [Hash -> [file : TorrentFile \cup {Nothing}, laid : BOOLEAN]]
  /\ \A g \in Hash : /\ handles[g] = NoHandle => handles'[g] = NoHandle
                     /\ handles'[g] = handles[g] \/ ~handles'[g].live
                     /\ engine'[g] = engine[g] \/ ~engine'[g].laid
  /\ \A g \in Hash \ {h} : engine'[g] = engine[g] /\ handles'[g] = handles[g]
  /\ engine'[h] = engine[h] \/ ~handles'[h].live

LEMMA EngineLeaves ==
  ASSUME TorrentIInv, NEW h \in Hash, UNCHANGED torrents \/ EngineDeletes(h)
  PROVE  EngineLeft(h)
<1>1. CASE UNCHANGED torrents
  BY <1>1 DEF torrents, EngineLeft, TorrentIInv, TorrentTypeOK
<1>2. CASE EngineDeletes(h)
  <2>1. PICK old : old = handles[h]
    OBVIOUS
  <2>2. old \in [file : TorrentFile \cup {Nothing}, live : BOOLEAN]
    BY <2>1 DEF TorrentIInv, TorrentTypeOK
  <2>3. PICK new : new = [old EXCEPT !.live = FALSE]
    OBVIOUS
  <2>4. /\ new \in [file : TorrentFile \cup {Nothing}, live : BOOLEAN]
        /\ new.file = old.file /\ ~new.live
    BY <2>2, <2>3
  <2>5. handles' = [handles EXCEPT ![h] = new]
    BY <1>2, <2>1, <2>3 DEF EngineDeletes
  <2>6. /\ handles' \in [Hash -> [file : TorrentFile \cup {Nothing}, live : BOOLEAN]]
        /\ handles'[h] = new /\ \A g \in Hash \ {h} : handles'[g] = handles[g]
    BY <2>4, <2>5 DEF TorrentIInv, TorrentTypeOK
  <2>7. old = NoHandle => new = NoHandle
    <3> SUFFICES ASSUME old = NoHandle PROVE new = NoHandle
      OBVIOUS
    <3>1. new.file = Nothing /\ new.live = FALSE
      BY <2>3 DEF NoHandle
    <3> QED
      BY <2>4, <3>1 DEF NoHandle
  <2>8. engine' = [engine EXCEPT ![h] = Unmanaged]
        /\ Unmanaged \in [file : TorrentFile \cup {Nothing}, laid : BOOLEAN] /\ ~Unmanaged.laid
    BY <1>2 DEF EngineDeletes, Unmanaged
  <2>9. /\ engine' \in [Hash -> [file : TorrentFile \cup {Nothing}, laid : BOOLEAN]]
         /\ engine'[h] = Unmanaged /\ \A g \in Hash \ {h} : engine'[g] = engine[g]
    BY <2>8 DEF TorrentIInv, TorrentTypeOK
  <2> QED
    BY <2>1, <2>4, <2>6, <2>7, <2>8, <2>9 DEF EngineLeft
<1> QED
  BY <1>1, <1>2

LEMMA OrphansOf ==
  ASSUME TorrentIInv, NEW v \in Viewer, prunes' = Orphaned(v)
  PROVE  /\ prunes' \subseteq Pruning
         /\ \A p \in prunes' : p.of # Nothing => p.of # v /\ p \in prunes
         /\ \A p \in prunes' : \E q \in prunes : p.plan = q.plan
<1> SUFFICES ASSUME NEW p \in prunes'
             PROVE  /\ p \in Pruning
                    /\ p.of # Nothing => p.of # v /\ p \in prunes
                    /\ \E q \in prunes : p.plan = q.plan
  OBVIOUS
<1>1. PICK q \in prunes : p = IF q.of = v THEN [q EXCEPT !.of = Nothing] ELSE q
  BY DEF Orphaned
<1>2. q \in Pruning
  BY DEF TorrentIInv
<1>3. CASE q.of = v
  BY <1>1, <1>2, <1>3 DEF Pruning
<1>4. CASE q.of # v
  BY <1>1, <1>2, <1>4
<1> QED
  BY <1>3, <1>4

LEMMA AbandonKept ==
  ASSUME TorrentIInv, NEW v \in Viewer, Abandon(v)
  PROVE  TorrentIInv'
<1>1. PICK h : h = viewer[v].hash
  OBVIOUS
<1>2. viewer[v] # Free /\ h \in Hash
  BY <1>1, ViewerOf DEF TorrentIInv, Abandon
<1>3. /\ CallOf(v, viewer'[v]) /\ viewer'[v] = Free
      /\ viewer' \in [Viewer -> ViewerSet]
      /\ \A w \in Viewer \ {v} : viewer'[w] = viewer[w]
  BY <1>2, Left DEF Abandon, TorrentIInv
<1>4. EngineLeft(h)
  BY <1>1, <1>2, EngineLeaves DEF Abandon
<1>5. UNCHANGED <<offer, disk, dirs, rows, pruned>> /\ prunes' = Orphaned(v)
  BY DEF Abandon, files, history
<1>6. \A w \in Viewer \ {v} : viewer[w].hash # h
  BY <1>1, <1>2, Alone
<1>7. TorrentTypeOK' /\ DirsRight'
  BY <1>3, <1>4, <1>5 DEF TorrentIInv, TorrentTypeOK, ViewerSet, DirsRight, EngineLeft
<1>8. OneCall'
  BY <1>3, OneCallKept DEF TorrentIInv, TorrentsServed
<1>9. HandleLive'
  <2> SUFFICES ASSUME NEW g \in Hash, handles'[g].live
               PROVE  engine'[g].file = handles'[g].file /\ engine'[g].laid
    BY DEF HandleLive
  <2>1. handles'[g] = handles[g] /\ engine'[g] = engine[g]
    BY <1>4 DEF EngineLeft
  <2> QED
    BY <2>1 DEF TorrentIInv, TorrentsServed, HandleLive
<1>10. StreamKept'
  BY <1>4, <1>5 DEF TorrentIInv, TorrentsServed, StreamKept, EngineLeft
<1>11. Adding' /\ AsAsked'
  <2> SUFFICES ASSUME NEW w \in Viewer, viewer'[w].pc \in {"add", "init"}
               PROVE  /\ handles'[viewer'[w].hash] = NoHandle
                      /\ viewer'[w].pc = "init" =>
                           engine'[viewer'[w].hash].file = viewer'[w].file
    BY DEF Adding, AsAsked
  <2>1. w # v /\ viewer'[w] = viewer[w]
    BY <1>3 DEF Free
  <2>2. viewer[w].hash \in Hash \ {h}
    BY <2>1, <1>6, ViewerOf DEF TorrentIInv
  <2> QED
    BY <2>1, <2>2, <1>4 DEF TorrentIInv, Adding, AsAsked, EngineLeft
<1>12. (prunes \subseteq Pruning)'
  BY <1>5, OrphansOf
<1>13. Awaited'
  <2> SUFFICES ASSUME NEW p \in prunes', p.of # Nothing
               PROVE  viewer'[p.of].pc = "pruning" /\ \A q \in prunes' : q.of = p.of => q = p
    BY DEF Awaited
  <2>1. p \in prunes /\ p.of # v
    BY <1>5, OrphansOf
  <2>2. viewer[p.of].pc = "pruning" /\ p.of \in Viewer \ {v}
    BY <2>1 DEF TorrentIInv, Awaited, Pruning
  <2>3. ASSUME NEW q \in prunes', q.of = p.of PROVE q = p
    <3>1. q \in prunes
      BY <2>3, <1>5, OrphansOf
    <3> QED
      BY <3>1, <2>1, <2>3 DEF TorrentIInv, Awaited
  <2> QED
    BY <2>2, <2>3, <1>3
<1>14. Spared'
  <2> SUFFICES ASSUME NEW p \in prunes', NEW g \in ToSet(p.plan), handles'[g] # NoHandle
               PROVE  g \in pruned
    BY <1>5 DEF Spared
  <2>1. PICK q \in prunes : p.plan = q.plan
    BY <1>5, OrphansOf
  <2>2. g \in Hash
    BY <2>1 DEF TorrentIInv, Pruning, ToSet
  <2> QED
    BY <2>1, <2>2, <1>4 DEF TorrentIInv, Spared, EngineLeft
<1> QED
  BY <1>7, <1>8, <1>9, <1>10, <1>11, <1>12, <1>13, <1>14 DEF TorrentIInv, TorrentsServed

LEMMA RestartKept ==
  ASSUME TorrentIInv, RestartTorrents
  PROVE  TorrentIInv'
<1>1. /\ viewer' = [v \in Viewer |-> Free]
      /\ handles' = [h \in Hash |-> NoHandle] /\ engine' = [h \in Hash |-> Unmanaged]
      /\ prunes' = {} /\ UNCHANGED <<offer, disk, dirs, rows, pruned>>
  BY DEF RestartTorrents, files, history
<1>2. TorrentTypeOK' /\ DirsRight'
  BY <1>1 DEF TorrentIInv, TorrentTypeOK, DirsRight, NoHandle, Unmanaged
<1>3. TorrentsServed'
  BY <1>1 DEF TorrentsServed, OneCall, HandleLive, StreamKept, NoHandle, Unmanaged
<1>4. Adding' /\ AsAsked' /\ Awaited' /\ Spared' /\ (prunes \subseteq Pruning)'
  BY <1>1 DEF Adding, AsAsked, Awaited, Spared, Free
<1> QED
  BY <1>2, <1>3, <1>4 DEF TorrentIInv

LEMMA TorrentIInvNext == TorrentIInv /\ [TorrentNext]_torrentVars => TorrentIInv'
<1> SUFFICES ASSUME TorrentIInv, [TorrentNext]_torrentVars PROVE TorrentIInv'
  OBVIOUS
<1>1. ASSUME NEW v \in Viewer, NEW e \in offer,
             Resolve(v, e[1], e[2]) \/ Stream(v, e[1], e[2])
      PROVE  TorrentIInv'
  BY <1>1, ResolveKept, StreamKeeps
<1>2. ASSUME NEW v \in Viewer, StartPrune(v) PROVE TorrentIInv'
  BY <1>2, StartPruneKept
<1>3. ASSUME NEW v \in Viewer, HandleReady(v) \/ HandleOther(v) PROVE TorrentIInv'
  BY <1>3, HandleFoundKept
<1>4. ASSUME NEW v \in Viewer, DeleteOld(v) PROVE TorrentIInv'
  BY <1>4, DeleteOldKept
<1>5. ASSUME NEW v \in Viewer, AddTorrent(v) PROVE TorrentIInv'
  BY <1>5, AddTorrentKept
<1>6. ASSUME NEW v \in Viewer, Initialized(v) PROVE TorrentIInv'
  BY <1>6, InitializedKept
<1>7. ASSUME NEW v \in Viewer, Answer(v) PROVE TorrentIInv'
  BY <1>7, AnswerKept
<1>8. ASSUME NEW v \in Viewer, Abandon(v) PROVE TorrentIInv'
  BY <1>8, AbandonKept
<1>9. ASSUME NEW p \in prunes, PruneDir(p) \/ EndPrune(p) PROVE TorrentIInv'
  BY <1>9, PruneDirKept, EndPruneKept
<1>10. ASSUME NEW h \in Hash, LayOut(h) PROVE TorrentIInv'
  BY <1>10, LayOutKept
<1>11. ASSUME NEW e \in offer, StreamCopy(e[1], e[2]) \/ Expire(e) PROVE TorrentIInv'
  BY <1>11, StreamCopyKept, ExpireKept
<1>12. CASE RestartTorrents
  BY <1>12, RestartKept
<1>13. CASE UNCHANGED torrentVars
  <2>1. UNCHANGED <<offer, viewer, torrents, files, rows, prunes, pruned>>
    BY <1>13 DEF torrentVars, torrents, files
  <2>2. DirsRight' /\ rows' \subseteq Hash \X TorrentFile
    BY <2>1 DEF TorrentIInv, TorrentTypeOK, DirsRight, files
  <2> QED
    BY <2>1, <2>2, QuietKept DEF files
<1> QED
  BY <1>1, <1>2, <1>3, <1>4, <1>5, <1>6, <1>7, <1>8, <1>9, <1>10, <1>11, <1>12, <1>13
     DEF TorrentNext

(***************************************************************************)
(* QuotaHeld.  Unless bytes came unseen, the directories can be given      *)
(* sizes (Covers) that fit in the cache and are enough for what each holds *)
(* and for the one file that may come to it: the engine's, if it is not    *)
(* laid out yet, or that of a call that was let in (Due).  When such a     *)
(* file comes, nothing else is in the directory (Clean).                   *)
(***************************************************************************)
DueBy(v) ==
  IF viewer[v].op = "resolve" /\ viewer[v].pc \in {"handle", "delete", "add"}
  THEN {<<viewer[v].hash, viewer[v].file>>} ELSE {}
Due(h) ==
  {f \in TorrentFile : \/ Unwritten(h) /\ engine[h].file = f
                       \/ \E v \in Viewer : <<h, f>> \in DueBy(v)}
Covers(c) ==
  /\ c \in [Hash -> Nat] /\ SumFunctionOnSet(c, Hash) <= MaxBytes
  /\ \A h \in Hash : BytesOf(h) <= c[h] /\ \A f \in Due(h) : Length[f] <= c[h]
Reserved == \E c : Covers(c)
Clean ==
  \A h \in Hash : Unwritten(h) => disk[h] \subseteq {<<"torrent", engine[h].file>>}
QuotaIInv == ~unseen => Reserved /\ Clean

LEMMA FilesWeigh ==
  /\ \A S \in SUBSET (Kind \X TorrentFile) : Weighs(FileSize, S)
  /\ \A k \in Kind, f \in TorrentFile : FileSize[<<k, f>>] = Length[f]
  /\ \A f \in TorrentFile : Length[f] \in Nat
<1>1. IsFiniteSet(Kind)
  <2>1. IsFiniteSet({"torrent"}) /\ IsFiniteSet({"copy"})
    BY FS_Singleton
  <2>2. IsFiniteSet({"torrent"} \cup {"copy"})
    BY <2>1, FS_Union
  <2>3. Kind = {"torrent"} \cup {"copy"}
    BY DEF Kind
  <2> QED
    BY <2>2, <2>3
<1>2. IsFiniteSet(Kind \X TorrentFile)
  BY <1>1, TorrentAssumption, FS_Product
<1>3. \A f \in TorrentFile : Length[f] \in Nat
  BY TorrentAssumption
<1>4. ASSUME NEW S \in SUBSET (Kind \X TorrentFile) PROVE Weighs(FileSize, S)
  <2>1. IsFiniteSet(S)
    BY <1>2, FS_Subset
  <2> QED
    BY <2>1, <1>3 DEF Weighs, FileSize
<1> QED
  BY <1>3, <1>4 DEF FileSize

LEMMA BytesTyped ==
  ASSUME NEW S \in SUBSET (Kind \X TorrentFile)
  PROVE  /\ SumFunctionOnSet(FileSize, S) \in Nat
         /\ \A R \in SUBSET S : SumFunctionOnSet(FileSize, R) <= SumFunctionOnSet(FileSize, S)
         /\ \A k \in Kind, f \in TorrentFile :
              S = {<<k, f>>} => SumFunctionOnSet(FileSize, S) = Length[f]
<1>1. Weighs(FileSize, S)
  BY FilesWeigh
<1>2. ASSUME NEW R \in SUBSET S
      PROVE  SumFunctionOnSet(FileSize, R) <= SumFunctionOnSet(FileSize, S)
  <2>1. Weighs(FileSize, R) /\ \A x \in R : FileSize[x] <= FileSize[x]
    BY FilesWeigh DEF Weighs
  <2> QED
    BY <1>1, <2>1, SumMonotonic
<1>3. ASSUME NEW k \in Kind, NEW f \in TorrentFile, S = {<<k, f>>}
      PROVE  SumFunctionOnSet(FileSize, S) = Length[f]
  <2>1. PICK x : x = <<k, f>> /\ x \in S /\ S \ {x} = {}
    BY <1>3
  <2>2. SumFunctionOnSet(FileSize, S) = FileSize[x] + SumFunctionOnSet(FileSize, S \ {x})
    BY <1>1, <2>1, SumWithout
  <2>3. SumFunctionOnSet(FileSize, S \ {x}) = 0
    BY <2>1, SumEmpty
  <2> QED
    BY <2>1, <2>2, <2>3, FilesWeigh
<1> QED
  BY <1>1, <1>2, <1>3, SumType

Sizes == [h \in Hash |-> BytesOf(h)]

LEMMA SizesTyped ==
  ASSUME TorrentTypeOK
  PROVE  Sizes \in [Hash -> Nat] /\ BytesUsed = SumFunctionOnSet(Sizes, Hash)
         /\ \A h \in Hash : Sizes[h] = BytesOf(h)
<1>1. \A h \in Hash : BytesOf(h) \in Nat
  BY BytesTyped DEF TorrentTypeOK, BytesOf
<1> QED
  BY <1>1 DEF Sizes, BytesUsed, BytesIn

LEMMA HashesWeigh == ASSUME NEW c \in [Hash -> Nat], NEW S \in SUBSET Hash PROVE Weighs(c, S)
  BY TorrentAssumption, FS_Subset DEF Weighs

LEMMA CoveredHeld == ASSUME TorrentTypeOK, Reserved PROVE BytesUsed <= MaxBytes
<1>1. PICK c : Covers(c)
  BY DEF Reserved
<1>2. PICK sizes : sizes = Sizes
  OBVIOUS
<1>3. sizes \in [Hash -> Nat] /\ BytesUsed = SumFunctionOnSet(sizes, Hash)
      /\ \A h \in Hash : sizes[h] <= c[h]
  BY <1>1, <1>2, SizesTyped DEF Covers
<1>4. Weighs(sizes, Hash) /\ Weighs(c, Hash)
  BY <1>1, <1>3, HashesWeigh DEF Covers
<1>5. SumFunctionOnSet(sizes, Hash) <= SumFunctionOnSet(c, Hash)
  BY <1>3, <1>4, SumMonotonic
<1>6. SumFunctionOnSet(sizes, Hash) \in Nat /\ SumFunctionOnSet(c, Hash) \in Nat
  BY <1>4, SumType
<1> QED
  BY <1>1, <1>3, <1>5, <1>6, TorrentAssumption DEF Covers

LEMMA QuotaIInvInit == TorrentIInv /\ TorrentInit => QuotaIInv
<1> SUFFICES ASSUME TorrentIInv, TorrentInit PROVE Reserved /\ Clean
  BY DEF QuotaIInv
<1>1. Clean
  BY DEF Clean, TorrentInit, Unwritten
<1>2. \A h \in Hash : Due(h) = {}
  BY DEF Due, DueBy, TorrentInit, Unwritten, Free
<1>3. PICK sizes : sizes = Sizes
  OBVIOUS
<1>4. sizes \in [Hash -> Nat] /\ SumFunctionOnSet(sizes, Hash) <= MaxBytes
      /\ \A h \in Hash : sizes[h] = BytesOf(h)
  BY <1>3, SizesTyped DEF TorrentIInv, TorrentInit
<1>5. \A h \in Hash : BytesOf(h) <= sizes[h]
  BY <1>4
<1>6. Covers(sizes)
  BY <1>2, <1>4, <1>5 DEF Covers
<1> QED
  BY <1>1, <1>6 DEF Reserved

\* Most steps add nothing and let nothing more in.
Lighter ==
  /\ ~unseen
  /\ \A h \in Hash : disk'[h] \subseteq disk[h]
  /\ \A h \in Hash : Unwritten(h)' => Unwritten(h) /\ engine'[h].file = engine[h].file
  /\ \A v \in Viewer : DueBy(v)' \subseteq DueBy(v)

LEMMA LighterKept ==
  ASSUME TorrentIInv, TorrentIInv', QuotaIInv, ~unseen' => Lighter
  PROVE  QuotaIInv'
<1> SUFFICES ASSUME ~unseen' PROVE Reserved' /\ Clean'
  BY DEF QuotaIInv
<1>1. Lighter /\ Reserved /\ Clean
  BY DEF QuotaIInv, Lighter
<1>2. Clean'
  BY <1>1 DEF Lighter, Clean
<1>3. PICK c : Covers(c)
  BY <1>1 DEF Reserved
<1>4. ASSUME NEW h \in Hash PROVE BytesOf(h)' <= c[h]
  <2>1. PICK old, new : old = disk[h] /\ new = disk'[h]
    OBVIOUS
  <2>2. old \in SUBSET (Kind \X TorrentFile) /\ new \in SUBSET old
    BY <1>1, <2>1 DEF Lighter, TorrentIInv, TorrentTypeOK
  <2>3. SumFunctionOnSet(FileSize, new) <= SumFunctionOnSet(FileSize, old)
        /\ SumFunctionOnSet(FileSize, old) \in Nat /\ SumFunctionOnSet(FileSize, new) \in Nat
    BY <2>2, BytesTyped
  <2>4. SumFunctionOnSet(FileSize, old) <= c[h] /\ c[h] \in Nat
    BY <1>3, <2>1 DEF Covers, BytesOf
  <2>5. SumFunctionOnSet(FileSize, new) <= c[h]
    BY <2>3, <2>4
  <2> QED
    BY <2>1, <2>5 DEF BytesOf
<1>5. \A h \in Hash : Due(h)' \subseteq Due(h)
  BY <1>1 DEF Lighter, Due
<1>6. \A h \in Hash : \A f \in Due(h)' : Length[f] <= c[h]
  BY <1>3, <1>5 DEF Covers
<1>7. Covers(c)'
  BY <1>3, <1>4, <1>6 DEF Covers
<1> QED
  BY <1>2, <1>7 DEF Reserved

\* The engine keeps its files, or they are no longer its own.
EngineEases ==
  \A h \in Hash : engine'[h] = engine[h] \/ engine'[h] = Unmanaged
CallsEase(v) ==
  /\ \A w \in Viewer \ {v} : viewer'[w] = viewer[w]
  /\ DueBy(v)' \subseteq DueBy(v)

LEMMA EasesKept ==
  ASSUME TorrentIInv, TorrentIInv', QuotaIInv, NEW v \in Viewer, EngineEases, CallsEase(v),
         ~unseen' => ~unseen, \A h \in Hash : disk'[h] \subseteq disk[h]
  PROVE  QuotaIInv'
<1>1. \A h \in Hash : Unwritten(h)' => Unwritten(h) /\ engine'[h].file = engine[h].file
  BY DEF EngineEases, Unwritten
<1>2. \A w \in Viewer : DueBy(w)' \subseteq DueBy(w)
  BY DEF CallsEase, DueBy
<1> QED
  BY <1>1, <1>2, LighterKept DEF Lighter

LEMMA QuotaCall ==
  ASSUME TorrentIInv, TorrentIInv', QuotaIInv, NEW v \in Viewer,
         \/ \E e \in offer : Resolve(v, e[1], e[2]) \/ Stream(v, e[1], e[2])
         \/ StartPrune(v) \/ HandleReady(v) \/ HandleOther(v) \/ DeleteOld(v)
         \/ Initialized(v) \/ Answer(v) \/ Abandon(v)
  PROVE  QuotaIInv'
<1>1. UNCHANGED <<disk, unseen>>
  BY DEF Resolve, Stream, StartPrune, HandleReady, HandleOther, DeleteOld, Initialized,
         Answer, Abandon, files, history
<1>2. EngineEases
  <2>1. CASE UNCHANGED engine
    BY <2>1 DEF EngineEases
  <2>2. CASE \E h \in Hash : engine' = [engine EXCEPT ![h] = Unmanaged]
    BY <2>2 DEF EngineEases, TorrentIInv, TorrentTypeOK
  <2>3. DeleteOld(v) \/ Abandon(v) => viewer[v].hash \in Hash
    BY ViewerOf DEF TorrentIInv, DeleteOld, Abandon, At
  <2> QED
    BY <2>1, <2>2, <2>3
       DEF Resolve, Stream, StartPrune, HandleReady, HandleOther, DeleteOld, Initialized,
           Answer, Abandon, torrents, EngineDeletes
<1>3. CallsEase(v)
  <2>1. CASE \E e \in offer : Resolve(v, e[1], e[2]) \/ Stream(v, e[1], e[2])
    <3>1. PICK x : /\ viewer' = [viewer EXCEPT ![v] = x]
                   /\ x.op # "resolve" \/ x.pc \notin {"handle", "delete", "add"}
      <4>1. PICK e \in offer, pc \in {"room", "handle"}, op \in {"resolve", "stream"} :
              /\ Enter(v, pc, op, e[1], e[2])
              /\ op # "resolve" \/ pc \notin {"handle", "delete", "add"}
        BY <2>1 DEF Resolve, Stream
      <4>2. PICK x : x = [pc |-> pc, op |-> op, hash |-> e[1], file |-> e[2]]
        OBVIOUS
      <4>3. x.op = op /\ x.pc = pc
        BY <4>2
      <4> QED
        BY <4>1, <4>2, <4>3 DEF Enter
    <3> QED
      BY <3>1 DEF CallsEase, DueBy, TorrentIInv, TorrentTypeOK
  <2>2. CASE Answer(v) \/ Abandon(v)
    <3>1. viewer[v] # Free
      BY <2>2, ViewerOf DEF TorrentIInv, Answer, Abandon, At
    <3>2. viewer'[v] = Free /\ \A w \in Viewer \ {v} : viewer'[w] = viewer[w]
      BY <2>2, <3>1, Left DEF Answer, Abandon, TorrentIInv
    <3> QED
      BY <3>2 DEF CallsEase, DueBy, Free
  <2>3. CASE StartPrune(v) \/ HandleReady(v) \/ HandleOther(v) \/ DeleteOld(v) \/ Initialized(v)
    <3>1. PICK pc \in Steps :
            /\ MoveTo(v, pc) /\ viewer[v].pc # "idle"
            /\ \/ pc \notin {"handle", "delete", "add"}
               \/ viewer[v].pc \in {"handle", "delete", "add"}
      BY <2>3 DEF StartPrune, HandleReady, HandleOther, DeleteOld, Initialized, At, Steps
    <3>2. viewer[v] # Free
      BY <3>1, ViewerOf DEF TorrentIInv
    <3>3. /\ viewer'[v].pc = pc /\ viewer'[v].hash = viewer[v].hash
          /\ viewer'[v].file = viewer[v].file /\ viewer'[v].op = viewer[v].op
          /\ \A w \in Viewer \ {v} : viewer'[w] = viewer[w]
      BY <3>1, <3>2, Moved DEF TorrentIInv
    <3> QED
      BY <3>1, <3>3 DEF CallsEase, DueBy
  <2> QED
    BY <2>1, <2>2, <2>3
<1> QED
  BY <1>1, <1>2, <1>3, EasesKept

LEMMA QuotaElse ==
  ASSUME TorrentIInv, TorrentIInv', QuotaIInv,
         \/ \E p \in prunes : PruneDir(p)
         \/ \E e \in offer : StreamCopy(e[1], e[2]) \/ Expire(e)
         \/ RestartTorrents
         \/ UNCHANGED torrentVars
  PROVE  QuotaIInv'
<1>1. unseen' = unseen
  BY DEF PruneDir, StreamCopy, Expire, RestartTorrents, torrentVars, history
<1>2. \A h \in Hash : disk'[h] \subseteq disk[h]
  BY DEF PruneDir, StreamCopy, Expire, RestartTorrents, torrentVars, files,
         TorrentIInv, TorrentTypeOK
<1>3. \A h \in Hash : Unwritten(h)' => Unwritten(h) /\ engine'[h].file = engine[h].file
  <2>1. engine' = engine \/ \A h \in Hash : engine'[h] = Unmanaged
    BY DEF PruneDir, StreamCopy, Expire, RestartTorrents, torrentVars, torrents
  <2> QED
    BY <2>1 DEF Unwritten
<1>4. \A v \in Viewer : DueBy(v)' \subseteq DueBy(v)
  <2>1. viewer' = viewer \/ \A v \in Viewer : viewer'[v] = Free
    BY DEF PruneDir, StreamCopy, Expire, RestartTorrents, torrentVars
  <2> QED
    BY <2>1 DEF DueBy, Free
<1> QED
  BY <1>1, <1>2, <1>3, <1>4, LighterKept DEF Lighter

LEMMA QuotaAdd ==
  ASSUME TorrentIInv, TorrentIInv', QuotaIInv, NEW v \in Viewer, AddTorrent(v)
  PROVE  QuotaIInv'
<1> SUFFICES ASSUME ~unseen' PROVE Reserved' /\ Clean'
  BY DEF QuotaIInv
<1>1. ~unseen /\ ~Unchecked(v)
  BY DEF AddTorrent
<1>2. Reserved /\ Clean
  BY <1>1 DEF QuotaIInv
<1>3. PICK h, f : h = viewer[v].hash /\ f = viewer[v].file
  OBVIOUS
<1>4. /\ viewer[v] # Free /\ viewer[v].pc \in {"handle", "add"}
      /\ h \in Hash /\ f \in TorrentFile
  BY <1>3, ViewerOf DEF TorrentIInv, AddTorrent, At
<1>5. /\ disk[h] \subseteq {<<"torrent", f>>}
      /\ viewer[v].op = "stream" => <<"torrent", f>> \in disk[h]
  BY <1>1, <1>3 DEF Unchecked
<1>6. /\ viewer'[v].pc = "init" /\ \A w \in Viewer \ {v} : viewer'[w] = viewer[w]
  BY <1>3, <1>4, Moved DEF AddTorrent, TorrentIInv, Steps
<1>7. PICK new : new = [file |-> f, laid |-> FALSE]
  OBVIOUS
<1>8. new.file = f
  BY <1>7
<1>9. engine' = IF engine[h].file = f THEN engine ELSE [engine EXCEPT ![h] = new]
  BY <1>3, <1>7 DEF AddTorrent
<1>10. /\ engine'[h].file = f
       /\ \A g \in Hash \ {h} : engine'[g] = engine[g]
  BY <1>4, <1>8, <1>9 DEF TorrentIInv, TorrentTypeOK
<1>11. UNCHANGED disk
  BY DEF AddTorrent
<1>12. Clean'
  BY <1>2, <1>4, <1>5, <1>10, <1>11 DEF Clean, Unwritten
<1>13. PICK c : Covers(c)
  BY <1>2 DEF Reserved
<1>14. Length[f] <= c[h]
  <2>1. CASE viewer[v].op = "stream"
    <3>1. disk[h] \in SUBSET (Kind \X TorrentFile) /\ disk[h] = {<<"torrent", f>>}
      BY <2>1, <1>4, <1>5 DEF TorrentIInv, TorrentTypeOK
    <3>2. BytesOf(h) = Length[f]
      BY <3>1, <1>4, BytesTyped DEF BytesOf, Kind
    <3> QED
      BY <3>2, <1>4, <1>13 DEF Covers
  <2>2. CASE viewer[v].op = "resolve"
    <3>1. f \in Due(h)
      BY <2>2, <1>3, <1>4 DEF Due, DueBy
    <3> QED
      BY <3>1, <1>4, <1>13 DEF Covers
  <2>3. viewer[v].op \in {"stream", "resolve"}
    BY <1>4, ViewerOf DEF TorrentIInv, ViewerSet
  <2> QED
    BY <2>1, <2>2, <2>3
<1>15. \A w \in Viewer : DueBy(w)' \subseteq DueBy(w)
  BY <1>6 DEF DueBy
<1>16. ASSUME NEW g \in Hash, NEW e \in Due(g)' PROVE Length[e] <= c[g]
  <2>1. CASE e \in Due(g)
    BY <2>1, <1>13 DEF Covers
  <2>2. CASE e \notin Due(g)
    <3>1. Unwritten(g)' /\ engine'[g].file = e /\ ~(Unwritten(g) /\ engine[g].file = e)
      BY <2>2, <1>15 DEF Due
    <3>2. g = h /\ e = f
      BY <3>1, <1>10 DEF Unwritten
    <3> QED
      BY <3>2, <1>14
  <2> QED
    BY <2>1, <2>2
<1>17. Covers(c)'
  BY <1>11, <1>13, <1>16 DEF Covers, BytesOf
<1> QED
  BY <1>12, <1>17 DEF Reserved

LEMMA QuotaLayOut ==
  ASSUME TorrentIInv, TorrentIInv', QuotaIInv, NEW h \in Hash, LayOut(h)
  PROVE  QuotaIInv'
<1> SUFFICES ASSUME ~unseen' PROVE Reserved' /\ Clean'
  BY DEF QuotaIInv
<1>1. Reserved /\ Clean
  BY DEF QuotaIInv, LayOut, history
<1>2. PICK old : old = engine[h]
  OBVIOUS
<1>3. old \in [file : TorrentFile \cup {Nothing}, laid : BOOLEAN]
  BY <1>2 DEF TorrentIInv, TorrentTypeOK
<1>4. old.file \in TorrentFile /\ Unwritten(h)
  BY <1>2, <1>3 DEF LayOut, Unwritten, Unmanaged
<1>5. PICK new : new = [old EXCEPT !.laid = TRUE]
  OBVIOUS
<1>6. new.laid
  BY <1>3, <1>5
<1>7. engine'[h] = new /\ \A g \in Hash \ {h} : engine'[g] = engine[g]
  BY <1>2, <1>5 DEF LayOut, TorrentIInv, TorrentTypeOK
<1>8. /\ disk'[h] = {<<"torrent", old.file>>}
      /\ \A g \in Hash \ {h} : disk'[g] = disk[g]
  BY <1>1, <1>2, <1>4 DEF LayOut, Clean, TorrentIInv, TorrentTypeOK
<1>9. Clean'
  BY <1>1, <1>6, <1>7, <1>8 DEF Clean, Unwritten
<1>10. PICK c : Covers(c)
  BY <1>1 DEF Reserved
<1>11. ASSUME NEW g \in Hash PROVE BytesOf(g)' <= c[g]
  <2>1. CASE g = h
    <3>1. PICK there : there = disk'[h]
      OBVIOUS
    <3>2. there = {<<"torrent", old.file>>} /\ there \in SUBSET (Kind \X TorrentFile)
      BY <3>1, <1>4, <1>8 DEF Kind
    <3>3. SumFunctionOnSet(FileSize, there) = Length[old.file]
      BY <3>2, <1>4, BytesTyped DEF Kind
    <3>4. old.file \in Due(h)
      BY <1>2, <1>4 DEF Due
    <3>5. Length[old.file] <= c[h]
      BY <3>4, <1>10 DEF Covers
    <3> QED
      BY <2>1, <3>1, <3>3, <3>5 DEF BytesOf
  <2>2. CASE g # h
    BY <2>2, <1>8, <1>10 DEF Covers, BytesOf
  <2> QED
    BY <2>1, <2>2
<1>12. \A g \in Hash : Due(g)' \subseteq Due(g)
  BY <1>6, <1>7 DEF Due, DueBy, Unwritten, LayOut
<1>13. \A g \in Hash : \A f \in Due(g)' : Length[f] <= c[g]
  BY <1>10, <1>12 DEF Covers
<1>14. Covers(c)'
  BY <1>10, <1>11, <1>13 DEF Covers
<1> QED
  BY <1>9, <1>14 DEF Reserved

LEMMA QuotaEndPrune ==
  ASSUME TorrentIInv, TorrentIInv', QuotaIInv, NEW p \in prunes, EndPrune(p)
  PROVE  QuotaIInv'
<1> SUFFICES ASSUME ~unseen' PROVE Reserved' /\ Clean'
  BY DEF QuotaIInv
<1>1. /\ UNCHANGED <<engine, disk>> /\ ~unseen
      /\ p.of # Nothing => \A h \in Hash : Coming(h) => h = viewer[p.of].hash
  BY DEF EndPrune, torrents, files
<1>2. Reserved /\ Clean
  BY <1>1 DEF QuotaIInv
<1>3. Clean'
  BY <1>1, <1>2 DEF Clean, Unwritten
<1>4. PICK c : Covers(c)
  BY <1>2 DEF Reserved
<1>5. p.of # Nothing => p.of \in Viewer /\ viewer[p.of].pc = "pruning"
  BY DEF TorrentIInv, Pruning, Awaited
<1>6. CASE p.of # Nothing /\ HasRoom(p.of) /\ MoveTo(p.of, "handle")
  <2>1. PICK v, h, f : v = p.of /\ h = viewer[v].hash /\ f = viewer[v].file
    OBVIOUS
  <2>2. /\ v \in Viewer /\ viewer[v] # Free /\ viewer[v].pc = "pruning"
        /\ h \in Hash /\ f \in TorrentFile
    BY <1>5, <1>6, <2>1, ViewerOf DEF TorrentIInv
  <2>3. /\ viewer'[v].hash = h /\ viewer'[v].file = f
        /\ \A w \in Viewer \ {v} : viewer'[w] = viewer[w]
    BY <1>6, <2>1, <2>2, Moved DEF TorrentIInv, Steps
  <2>4. \A g \in Hash : Due(g)' \subseteq Due(g) \cup (IF g = h THEN {f} ELSE {})
    BY <1>1, <2>3 DEF Due, DueBy, Unwritten
  <2>5. CASE Length[f] <= c[h]
    <3>1. \A g \in Hash : \A e \in Due(g)' : Length[e] <= c[g]
      BY <1>4, <2>4, <2>5 DEF Covers
    <3>2. Covers(c)'
      BY <1>1, <1>4, <3>1 DEF Covers, BytesOf
    <3> QED
      BY <1>3, <3>2 DEF Reserved
  <2>6. CASE ~(Length[f] <= c[h])
    <3>1. PICK sizes : sizes = Sizes
      OBVIOUS
    <3>2. PICK d : d = [g \in Hash |-> IF g = h THEN Length[f] ELSE sizes[g]]
      OBVIOUS
    <3>3. /\ sizes \in [Hash -> Nat] /\ BytesUsed = SumFunctionOnSet(sizes, Hash)
          /\ \A g \in Hash : sizes[g] = BytesOf(g)
      BY <3>1, SizesTyped DEF TorrentIInv
    <3>4. Length[f] \in Nat /\ c \in [Hash -> Nat] /\ Length[f] > c[h]
      BY <2>2, <2>6, <1>4, FilesWeigh DEF Covers
    <3>5. d \in [Hash -> Nat] /\ d[h] = Length[f] /\ \A g \in Hash \ {h} : d[g] = sizes[g]
      BY <2>2, <3>2, <3>3, <3>4
    <3>6. PICK rest : rest = Hash \ {h}
      OBVIOUS
    <3>7. /\ SumFunctionOnSet(d, Hash) = Length[f] + SumFunctionOnSet(d, rest)
          /\ SumFunctionOnSet(sizes, Hash) = sizes[h] + SumFunctionOnSet(sizes, rest)
      BY <2>2, <3>3, <3>5, <3>6, HashesWeigh, SumWithout
    <3>8. SumFunctionOnSet(d, rest) <= SumFunctionOnSet(sizes, rest)
      <4>1. Weighs(d, rest) /\ Weighs(sizes, rest) /\ \A x \in rest : d[x] <= sizes[x]
        BY <3>3, <3>5, <3>6, HashesWeigh
      <4> QED
        BY <4>1, SumMonotonic
    <3>9. SumFunctionOnSet(d, rest) \in Nat /\ SumFunctionOnSet(sizes, rest) \in Nat
      BY <3>3, <3>5, <3>6, HashesWeigh, SumType
    <3>10. BytesUsed - sizes[h] + Length[f] <= MaxBytes
      BY <1>6, <2>1, <2>2, <3>3 DEF HasRoom
    <3>11. SumFunctionOnSet(d, Hash) <= MaxBytes
      BY <2>2, <3>3, <3>4, <3>7, <3>8, <3>9, <3>10, TorrentAssumption
    <3>12. ASSUME NEW g \in Hash PROVE BytesOf(g) <= d[g]
      <4>1. CASE g = h
        BY <4>1, <1>4, <3>3, <3>4, <3>5 DEF Covers
      <4>2. CASE g # h
        BY <4>2, <3>3, <3>5
      <4> QED
        BY <4>1, <4>2
    <3>13. ASSUME NEW g \in Hash, NEW e \in Due(g)' PROVE Length[e] <= d[g]
      <4>1. CASE g = h
        <5>1. CASE e = f
          BY <4>1, <5>1, <3>4, <3>5
        <5>2. CASE e \in Due(h)
          <6>1. Length[e] <= c[h] /\ Length[e] \in Nat
            BY <5>2, <1>4, <2>2, FilesWeigh DEF Covers, Due
          <6> QED
            BY <4>1, <6>1, <2>2, <3>4, <3>5
        <5> QED
          BY <4>1, <5>1, <5>2, <2>4
      <4>2. CASE g # h
        <5>1. Due(g) = {}
          <6>1. ~Coming(g)
            BY <4>2, <1>1, <1>6, <2>1
          <6> QED
            BY <6>1 DEF Due, DueBy, Coming
        <5> QED
          BY <4>2, <5>1, <2>4
      <4> QED
        BY <4>1, <4>2
    <3>14. Covers(d)'
      BY <1>1, <3>5, <3>11, <3>12, <3>13 DEF Covers, BytesOf
    <3> QED
      BY <1>3, <3>14 DEF Reserved
  <2> QED
    BY <2>5, <2>6
<1>7. CASE \/ p.of = Nothing /\ UNCHANGED viewer
           \/ p.of # Nothing /\ Leave(p.of)
  <2>1. \A w \in Viewer : viewer'[w] = viewer[w] \/ viewer'[w] = Free
    BY <1>5, <1>7 DEF Leave, TorrentIInv, TorrentTypeOK
  <2>2. \A w \in Viewer : DueBy(w)' \subseteq DueBy(w)
    BY <2>1 DEF DueBy, Free
  <2> QED
    BY <1>1, <2>2, LighterKept DEF Lighter, QuotaIInv, Unwritten
<1> QED
  BY <1>6, <1>7 DEF EndPrune

LEMMA QuotaIInvNext ==
  TorrentIInv /\ TorrentIInv' /\ QuotaIInv /\ [TorrentNext]_torrentVars => QuotaIInv'
<1> SUFFICES ASSUME TorrentIInv, TorrentIInv', QuotaIInv, [TorrentNext]_torrentVars
             PROVE  QuotaIInv'
  OBVIOUS
<1>1. ASSUME NEW v \in Viewer,
             \/ \E e \in offer : Resolve(v, e[1], e[2]) \/ Stream(v, e[1], e[2])
             \/ StartPrune(v) \/ HandleReady(v) \/ HandleOther(v) \/ DeleteOld(v)
             \/ Initialized(v) \/ Answer(v) \/ Abandon(v)
      PROVE  QuotaIInv'
  BY <1>1, QuotaCall
<1>2. ASSUME NEW v \in Viewer, AddTorrent(v) PROVE QuotaIInv'
  BY <1>2, QuotaAdd
<1>3. ASSUME NEW p \in prunes, EndPrune(p) PROVE QuotaIInv'
  BY <1>3, QuotaEndPrune
<1>4. ASSUME NEW h \in Hash, LayOut(h) PROVE QuotaIInv'
  BY <1>4, QuotaLayOut
<1>5. CASE \/ \E p \in prunes : PruneDir(p)
           \/ \E e \in offer : StreamCopy(e[1], e[2]) \/ Expire(e)
           \/ RestartTorrents
           \/ UNCHANGED torrentVars
  BY <1>5, QuotaElse
<1> QED
  BY <1>1, <1>2, <1>3, <1>4, <1>5 DEF TorrentNext

(***************************************************************************)
(* TorrentSafe: for every number of calls, torrents, files and prunings,   *)
(* one call works on a torrent, a torrent in the table is the engine's,    *)
(* with that file, pruning leaves the file under a stream, apart from a    *)
(* torrent that came into use after the pruning had looked, and the        *)
(* directories stay within LOCAL_TORRENT_MAX_BYTES unless bytes came that  *)
(* the room check does not count.                                          *)
(***************************************************************************)
THEOREM TorrentSafe == TorrentSpec => []TorrentInv
<1>1. TorrentInit => TorrentIInv /\ QuotaIInv
  BY TorrentIInvInit, QuotaIInvInit
<1>2. TorrentIInv /\ QuotaIInv /\ [TorrentNext]_torrentVars => (TorrentIInv /\ QuotaIInv)'
  BY TorrentIInvNext, QuotaIInvNext
<1>3. TorrentIInv /\ QuotaIInv => TorrentInv
  <2> SUFFICES ASSUME TorrentIInv, QuotaIInv PROVE QuotaHeld
    BY DEF TorrentInv, TorrentIInv, TorrentsServed
  <2> QED
    BY CoveredHeld DEF QuotaIInv, QuotaHeld, TorrentIInv
<1> QED
  BY <1>1, <1>2, <1>3, PTL DEF TorrentSpec
-----------------------------------------------------------------------------
(***************************************************************************)
(* DiscoverySound.  First what TopCandidates makes of a list.              *)
(***************************************************************************)
FoundStreams == Seq(FoundStream)

LEMMA FitsFacts ==
  ASSUME NEW streams \in FoundStreams
  PROVE  /\ Fits(streams) \in FoundStreams
         /\ HashesIn(Fits(streams)) \subseteq HashesIn(streams)
<1>1. PICK S : S = {stream \in ToSet(streams) : stream.fits}
  OBVIOUS
<1>2. Fits(streams) = Select(streams, S)
  BY <1>1 DEF Fits
<1>3. Fits(streams) \in FoundStreams /\ ToSet(Fits(streams)) \subseteq ToSet(streams)
  BY <1>2, SelectFacts DEF FoundStreams
<1> QED
  BY <1>3 DEF HashesIn

LEMMA TopFacts ==
  ASSUME NEW streams \in FoundStreams, NEW pick, NEW limit \in Nat \ {0}
  PROVE  /\ TopCandidates(streams, pick, limit) \in FoundStreams
         /\ TopCandidates(streams, pick, limit) = << >> <=> Fits(streams) = << >>
         /\ HashesIn(TopCandidates(streams, pick, limit)) \subseteq HashesIn(Fits(streams))
         /\ pick \in HashesIn(Fits(streams)) =>
              /\ TopCandidates(streams, pick, limit) # << >>
              /\ Head(TopCandidates(streams, pick, limit)).hash = pick
<1>1. PICK fitting : fitting = Fits(streams)
  OBVIOUS
<1>2. PICK picked : picked = {stream \in ToSet(fitting) : stream.hash = pick}
  OBVIOUS
<1>3. PICK a, b : a = Select(fitting, picked)
                  /\ b = Select(fitting, ToSet(fitting) \ picked)
  OBVIOUS
<1>4. fitting \in FoundStreams
  BY <1>1, FitsFacts
<1>5. /\ a \in FoundStreams /\ ToSet(a) = ToSet(fitting) \cap picked
      /\ b \in FoundStreams /\ ToSet(b) = ToSet(fitting) \cap (ToSet(fitting) \ picked)
  BY <1>3, <1>4, SelectFacts DEF FoundStreams
<1>6. PICK list : list = a \o b
  OBVIOUS
<1>7. PICK n : n = IF Len(list) < limit THEN Len(list) ELSE limit
  OBVIOUS
<1>8. PICK top : top = SubSeq(list, 1, n)
  OBVIOUS
<1>9. TopCandidates(streams, pick, limit) = top
  BY <1>1, <1>2, <1>3, <1>6, <1>7, <1>8 DEF TopCandidates
<1>10. /\ list \in FoundStreams /\ Len(list) = Len(a) + Len(b)
       /\ \A i \in 1 .. Len(a) : list[i] = a[i]
       /\ \A i \in 1 .. Len(b) : list[Len(a) + i] = b[i]
  BY <1>5, <1>6, ConcatProperties DEF FoundStreams
<1>11. n \in 0 .. Len(list) /\ Len(list) \in Nat /\ (list # << >> => n >= 1)
  BY <1>7, <1>10 DEF FoundStreams
<1>12. top \in FoundStreams /\ Len(top) = n /\ \A i \in 1 .. n : top[i] = list[i]
  BY <1>8, <1>10, <1>11 DEF FoundStreams
<1>13. \A i \in 1 .. Len(list) : list[i] \in ToSet(fitting)
  <2>1. \A i \in 1 .. Len(a) : a[i] \in ToSet(fitting)
    BY <1>5, InList DEF FoundStreams
  <2>2. \A i \in 1 .. Len(b) : b[i] \in ToSet(fitting)
    BY <1>5, InList DEF FoundStreams
  <2>3. Len(a) \in Nat /\ Len(b) \in Nat
    BY <1>5 DEF FoundStreams
  <2> TAKE i \in 1 .. Len(list)
  <2>4. CASE i \in 1 .. Len(a)
    BY <1>10, <2>1, <2>4
  <2>5. CASE i \notin 1 .. Len(a)
    <3>1. i - Len(a) \in 1 .. Len(b) /\ Len(a) + (i - Len(a)) = i
      BY <1>10, <2>3, <2>5
    <3> QED
      BY <1>10, <2>2, <3>1
  <2> QED
    BY <2>4, <2>5
<1>14. HashesIn(top) \subseteq HashesIn(fitting)
  <2>1. ToSet(top) \subseteq ToSet(fitting)
    <3>1. ToSet(top) = {top[i] : i \in 1 .. n}
      BY <1>12, InList DEF FoundStreams
    <3>2. \A i \in 1 .. n : i \in 1 .. Len(list)
      BY <1>11
    <3> QED
      BY <1>12, <1>13, <3>1, <3>2
  <2> QED
    BY <2>1 DEF HashesIn
<1>15. top = << >> <=> fitting = << >>
  <2>1. top = << >> <=> list = << >>
    BY <1>10, <1>11, <1>12 DEF FoundStreams
  <2>2. fitting # << >> => list # << >>
    <3> SUFFICES ASSUME fitting # << >> PROVE list # << >>
      OBVIOUS
    <3>1. fitting[1] \in ToSet(fitting)
      BY <1>4, InList DEF FoundStreams
    <3>2. fitting[1] \in ToSet(a) \/ fitting[1] \in ToSet(b)
      BY <1>5, <3>1
    <3>3. a # << >> \/ b # << >>
      BY <1>5, <3>2, InList DEF FoundStreams
    <3>4. Len(a) \in Nat /\ Len(b) \in Nat /\ (a # << >> => Len(a) >= 1)
          /\ (b # << >> => Len(b) >= 1)
      BY <1>5, InList DEF FoundStreams
    <3> QED
      BY <1>10, <3>3, <3>4
  <2>3. list # << >> => fitting # << >>
    <3> SUFFICES ASSUME list # << >> PROVE fitting # << >>
      OBVIOUS
    <3>1. 1 \in 1 .. Len(list)
      BY <1>10, <1>11
    <3>2. list[1] \in ToSet(fitting)
      BY <1>13, <3>1
    <3> QED
      BY <1>4, <3>2, InList DEF FoundStreams
  <2> QED
    BY <2>1, <2>2, <2>3
<1>16. ASSUME pick \in HashesIn(fitting) PROVE top # << >> /\ Head(top).hash = pick
  <2>1. PICK stream \in ToSet(fitting) : stream.hash = pick
    BY <1>16 DEF HashesIn
  <2>2. stream \in ToSet(a)
    BY <1>2, <1>5, <2>1
  <2>3. a # << >> /\ a[1] \in ToSet(a) /\ Len(a) >= 1 /\ Len(a) \in Nat
    BY <1>5, <2>2, InList DEF FoundStreams
  <2>4. a[1].hash = pick
    BY <1>2, <1>5, <2>3
  <2>5. list[1] = a[1] /\ list # << >>
    BY <1>5, <1>10, <2>3 DEF FoundStreams
  <2>6. top[1] = list[1] /\ top # << >>
    BY <1>11, <1>12, <2>5 DEF FoundStreams
  <2>7. Head(top) = top[1]
    BY <1>12, <2>6 DEF FoundStreams
  <2> QED
    BY <2>4, <2>5, <2>6, <2>7
<1> QED
  BY <1>1, <1>9, <1>12, <1>14, <1>15, <1>16

LEMMA FitsEmpty == Fits(<< >>) = << >> /\ HashesIn(<< >>) = {} /\ << >> \in FoundStreams
<1>1. << >> \in FoundStreams
  BY DEF FoundStreams
<1>2. HashesIn(<< >>) = {}
  BY DEF HashesIn, ToSet
<1>3. Fits(<< >>) \in FoundStreams /\ HashesIn(Fits(<< >>)) \subseteq HashesIn(<< >>)
  BY <1>1, FitsFacts
<1>4. ToSet(Fits(<< >>)) = {}
  BY <1>2, <1>3 DEF HashesIn
<1> QED
  BY <1>1, <1>2, <1>3, <1>4, InList DEF FoundStreams

(***************************************************************************)
(* What is known of a request by itself (Sensible): where it stands in the *)
(* order of the indexes, and what it has found and tried so far.           *)
(***************************************************************************)
Keeping == [answer : FoundStreams \cup {Unreadable}, at : Int]
Reasons == {"torrentio", "torznab", "nothing", "candidates", "permit", "debrid"}
Requests ==
  [pc : {"rest", "look", "ask", "try", "shown", "played", "refused"},
   does : {"list", "resolve"}, pick : Torrents \cup {Anything}, embeds : BOOLEAN,
   stage : SeekStages, index : Index, old : Keeping,
   found : FoundStreams, byId : FoundStreams \cup {Failed}, why : SUBSET Reasons,
   tried : Seq(FoundStreams), shown : FoundStreams, after : BOOLEAN,
   asked : [Index -> Nat]]

Tops(r) == TopCandidates(r.found, r.pick, TryLimit)
Tried(r) == Fits(r.found) # << >> => Tops(r) \in ToSet(r.tried)
Used(r) ==
  LET fits == Fits(r.found) # << >>
      lost == Missing(r.found, r.pick) /\ "torznab" \in r.why
  IN IF r.does = "list" THEN ~r.embeds /\ (fits => lost)
     ELSE fits => lost \/ Tops(r) \in ToSet(r.tried)

\* A request that waits for an index.
Waits(r) ==
  /\ r.index = "torrentio" <=> r.stage = "first"
  /\ r.does = "list" => r.stage \in {"first", "fill", "instead"}
  /\ r.does = "resolve" => r.stage \in {"first", "pin", "last"}
  /\ r.stage \in {"first", "instead"} => r.found = << >>
  /\ r.stage = "fill" => Fits(r.found) = << >> \/ Missing(r.found, r.pick)
  /\ r.stage = "pin" => Missing(r.found, r.pick)
  /\ r.stage = "last" => Tried(r)
  /\ r.stage # "last" => r.tried = << >>
  /\ Len(r.tried) <= 2
  /\ r.index = "search" => r.byId \in {Failed, << >>}

\* One that tries what it has found.
Tries(r) ==
  /\ r.does = "resolve" /\ r.stage \in {"first", "pin", "last"}
  /\ r.stage # "pin" => Tried(r)
  /\ Len(r.tried) <= CASE r.stage = "pin" -> 1 [] r.stage = "first" -> 2 [] r.stage = "last" -> 3

Sensible(r) ==
  /\ r.pc = "rest" => r = NotSeeking
  /\ r.pc \in {"look", "ask"} => Waits(r)
  /\ r.pc = "try" => Tries(r)
  /\ r.pc = "refused" => Used(r)
  /\ r.after => r.does = "resolve" /\ r.pick \in Torrents
  /\ Len(r.tried) <= 3

LEMMA NotSeekingFacts ==
  /\ NotSeeking \in Requests
  /\ NotSeeking.pc = "rest" /\ NotSeeking.after = FALSE /\ NotSeeking.tried = << >>
  /\ NotSeeking.found = << >> /\ NotSeeking.asked = [i \in Index |-> 0]
  /\ NotSeeking.stage = "first" /\ NotSeeking.index = "torrentio"
  /\ NothingKept \in Keeping /\ << >> \in FoundStreams
<1>1. << >> \in FoundStreams /\ << >> \in Seq(FoundStreams)
  BY DEF FoundStreams
<1>2. NothingKept \in Keeping
  BY <1>1 DEF NothingKept, Keeping
<1>3. [i \in Index |-> 0] \in [Index -> Nat]
  OBVIOUS
<1>4. NotSeeking \in Requests
  BY <1>1, <1>2, <1>3, DiscoveryAssumption DEF NotSeeking, Requests, SeekStages
<1> QED
  BY <1>1, <1>2, <1>4 DEF NotSeeking

LEMMA GoAskFacts ==
  ASSUME NEW r \in Requests, NEW stage \in SeekStages, NEW i \in Index
  PROVE  /\ GoAsk(r, stage, i) \in Requests
         /\ GoAsk(r, stage, i).pc = "look" /\ GoAsk(r, stage, i).stage = stage
         /\ GoAsk(r, stage, i).index = i
         /\ GoAsk(r, stage, i).does = r.does /\ GoAsk(r, stage, i).pick = r.pick
         /\ GoAsk(r, stage, i).embeds = r.embeds /\ GoAsk(r, stage, i).found = r.found
         /\ GoAsk(r, stage, i).byId = r.byId /\ GoAsk(r, stage, i).why = r.why
         /\ GoAsk(r, stage, i).tried = r.tried /\ GoAsk(r, stage, i).after = r.after
         /\ GoAsk(r, stage, i).asked = r.asked
  BY NotSeekingFacts DEF GoAsk, Requests

LEMMA GoTorznabFacts ==
  ASSUME NEW r \in Requests, NEW stage \in SeekStages
  PROVE  /\ GoTorznab(r, stage) \in Requests
         /\ GoTorznab(r, stage).pc = "look" /\ GoTorznab(r, stage).stage = stage
         /\ GoTorznab(r, stage).index = "torznab"
         /\ GoTorznab(r, stage).does = r.does /\ GoTorznab(r, stage).pick = r.pick
         /\ GoTorznab(r, stage).embeds = r.embeds /\ GoTorznab(r, stage).found = r.found
         /\ GoTorznab(r, stage).why = r.why
         /\ GoTorznab(r, stage).tried = r.tried /\ GoTorznab(r, stage).after = r.after
         /\ GoTorznab(r, stage).asked = r.asked
<1>1. PICK q : q = [r EXCEPT !.byId = << >>]
  OBVIOUS
<1>2. /\ q \in Requests /\ q.does = r.does /\ q.pick = r.pick /\ q.embeds = r.embeds
      /\ q.found = r.found /\ q.why = r.why /\ q.tried = r.tried /\ q.after = r.after
      /\ q.asked = r.asked
  BY <1>1, NotSeekingFacts DEF Requests
<1>3. "torznab" \in Index /\ GoTorznab(r, stage) = GoAsk(q, stage, "torznab")
  BY <1>1, DiscoveryAssumption DEF GoTorznab
<1> QED
  BY <1>2, <1>3, GoAskFacts

LEMMA ShowFacts ==
  ASSUME NEW r \in Requests, NEW sources \in FoundStreams
  PROVE  /\ Show(r, sources) \in Requests
         /\ Show(r, sources).pc = "shown" /\ Show(r, sources).shown = sources
         /\ Show(r, sources).after = FALSE /\ Show(r, sources).tried = << >>
         /\ Show(r, sources).asked = r.asked
  BY NotSeekingFacts DEF Show, Requests

LEMMA RefuseFacts ==
  ASSUME NEW r \in Requests, NEW why \in Reasons
  PROVE  /\ Refuse(r, why) \in Requests
         /\ Refuse(r, why).pc = "refused" /\ Refuse(r, why).why = r.why \cup {why}
         /\ Refuse(r, why).does = r.does /\ Refuse(r, why).pick = r.pick
         /\ Refuse(r, why).embeds = r.embeds /\ Refuse(r, why).found = r.found
         /\ Refuse(r, why).tried = r.tried /\ Refuse(r, why).after = r.after
         /\ Refuse(r, why).asked = r.asked
  BY DEF Refuse, Requests

LEMMA TryFacts ==
  ASSUME NEW r \in Requests, NEW streams \in FoundStreams
  PROVE  /\ Try(r, streams) \in Requests
         /\ Try(r, streams).pc = "try" /\ Try(r, streams).stage = r.stage
         /\ Try(r, streams).does = r.does /\ Try(r, streams).pick = r.pick
         /\ Try(r, streams).found = r.found /\ Try(r, streams).why = r.why
         /\ Try(r, streams).after = r.after /\ Try(r, streams).asked = r.asked
         /\ Try(r, streams).tried = Append(r.tried, TopCandidates(streams, r.pick, TryLimit))
         /\ Len(Try(r, streams).tried) = Len(r.tried) + 1 /\ Len(r.tried) \in Nat
         /\ ToSet(Try(r, streams).tried)
              = ToSet(r.tried) \cup {TopCandidates(streams, r.pick, TryLimit)}
         /\ Try(r, streams).tried # << >>
         /\ Head(Try(r, streams).tried)
              = IF r.tried = << >> THEN TopCandidates(streams, r.pick, TryLimit)
                ELSE Head(r.tried)
<1>1. PICK top : top = TopCandidates(streams, r.pick, TryLimit)
  OBVIOUS
<1>2. PICK tried : tried = r.tried
  OBVIOUS
<1>3. tried \in Seq(FoundStreams) /\ top \in FoundStreams
  BY <1>1, <1>2, TopFacts, DiscoveryAssumption DEF Requests
<1>4. PICK new : new = Append(tried, top)
  OBVIOUS
<1>5. /\ new \in Seq(FoundStreams) /\ Len(new) = Len(tried) + 1 /\ Len(tried) \in Nat
      /\ new[Len(tried) + 1] = top /\ \A i \in 1 .. Len(tried) : new[i] = tried[i]
      /\ new # << >>
  BY <1>3, <1>4
<1>6. ToSet(new) = ToSet(tried) \cup {top}
  <2>1. ToSet(new) = {new[i] : i \in 1 .. Len(new)} /\ ToSet(tried) = {tried[i] : i \in 1 .. Len(tried)}
    BY <1>3, <1>5, InList
  <2> QED
    BY <1>5, <2>1
<1>7. Head(new) = IF tried = << >> THEN top ELSE Head(tried)
  BY <1>3, <1>4, <1>5
<1>8. PICK q : q = Try(r, streams)
  OBVIOUS
<1>9. q = [r EXCEPT !.pc = "try", !.old = NothingKept, !.tried = new]
  BY <1>1, <1>2, <1>4, <1>8 DEF Try, Requests
<1>10. q \in Requests
  BY <1>5, <1>9, NotSeekingFacts DEF Requests
<1>11. /\ q.pc = "try" /\ q.stage = r.stage /\ q.does = r.does /\ q.pick = r.pick
       /\ q.found = r.found /\ q.why = r.why /\ q.after = r.after /\ q.asked = r.asked
       /\ q.tried = new
  BY <1>9 DEF Requests
<1> QED
  BY <1>1, <1>2, <1>4, <1>5, <1>6, <1>7, <1>8, <1>10, <1>11

(***************************************************************************)
(* What is known of it while nothing has moved: what it has heard is what  *)
(* is kept, k, and still new enough at hour h to be used unasked.          *)
(***************************************************************************)
Keepings == [Index -> Keeping]
Heard(k, i, h) == k[i] # NothingKept /\ h < k[i].at + FreshFor[i]
Said(k, i) == IF k[i].answer = Unreadable THEN Failed ELSE k[i].answer

\* What Torznab comes to, and that a request will hear just this.
ByTorznab(k) ==
  IF Said(k, "torznab") \notin {Failed, << >>} THEN Said(k, "torznab")
  ELSE IF Said(k, "search") # << >> THEN Said(k, "search") ELSE Said(k, "torznab")
TorznabHeard(k, h) ==
  /\ Heard(k, "torznab", h)
  /\ Said(k, "torznab") \in {Failed, << >>} => Heard(k, "search", h)

\* A torrent that a resolve will find.
AtTorrentio(p, k, h) ==
  /\ Heard(k, "torrentio", h) /\ Said(k, "torrentio") # Failed
  /\ p \in HashesIn(Fits(Said(k, "torrentio")))
AtTorznab(p, k, h) ==
  /\ Heard(k, "torrentio", h) /\ TorznabHeard(k, h)
  /\ ByTorznab(k) # Failed /\ p \in HashesIn(Fits(ByTorznab(k)))
Playable(p, k, h) == AtTorrentio(p, k, h) \/ AtTorznab(p, k, h)

\* The picked torrent was the first to be tried, or does not fit.
PickedFirst(r) ==
  \/ r.pick \in HashesIn(r.found) \ HashesIn(Fits(r.found))
  \/ r.tried # << >> /\ Head(Head(r.tried)).hash = r.pick

SparedBy(r, k, h) ==
  \A i \in Index :
    /\ r.asked[i] <= 1
    /\ r.asked[i] = 1 => Heard(k, i, h) \/ (r.pc = "ask" /\ r.index = i)
Learnt(r, k, h) ==
  r.pc \in {"look", "ask", "try"} =>
    /\ r.index # "torrentio" \/ r.pc = "try" =>
         /\ Heard(k, "torrentio", h)
         /\ r.found = IF Said(k, "torrentio") = Failed THEN << >> ELSE Said(k, "torrentio")
    /\ r.index = "search" /\ r.pc # "try" =>
         /\ Heard(k, "torznab", h) /\ Said(k, "torznab") = r.byId
OffersIn(r, k, h) ==
  r.pc = "shown" => \A p \in HashesIn(r.shown) : Playable(p, k, h)
WillPlay(r, k, h) ==
  r.after =>
    /\ r.pc \in {"look", "ask"} =>
         /\ r.stage = "first" => Playable(r.pick, k, h)
         /\ r.stage = "pin" => AtTorznab(r.pick, k, h)
         /\ r.stage = "last" =>
              PickedFirst(r) \/ (r.tried = << >> /\ AtTorznab(r.pick, k, h))
    /\ r.pc \in {"try", "played"} => PickedFirst(r)
    /\ r.pc = "refused" => PickedFirst(r) \/ "permit" \in r.why
\* What it waits for is not there yet.
Unheard(r, k, h) == r.pc = "ask" => ~Heard(k, r.index, h)

Follows(r, k, h) ==
  /\ SparedBy(r, k, h) /\ Learnt(r, k, h) /\ OffersIn(r, k, h) /\ WillPlay(r, k, h)

LEMMA SaidFacts ==
  ASSUME NEW k \in Keepings
  PROVE  /\ Failed \notin FoundStreams /\ Failed # << >>
         /\ \A i \in Index : Said(k, i) \in FoundStreams \cup {Failed}
         /\ ByTorznab(k) \in FoundStreams \cup {Failed}
<1>1. Failed \notin FoundStreams
  <2> SUFFICES ASSUME Failed \in FoundStreams PROVE FALSE
    OBVIOUS
  <2>1. Failed[1] \in FoundStream /\ Failed[1].hash = Anything
    BY DEF Failed, FoundStreams
  <2> QED
    BY <2>1, DiscoveryAssumption DEF FoundStream
<1>2. Failed # << >>
  BY DEF Failed
<1>3. \A i \in Index : Said(k, i) \in FoundStreams \cup {Failed}
  BY DEF Said, Keepings, Keeping
<1>4. ByTorznab(k) \in FoundStreams \cup {Failed}
  BY <1>3, DiscoveryAssumption DEF ByTorznab
<1> QED
  BY <1>1, <1>2, <1>3, <1>4

\* The request goes its way well.
Well(q, k, h, heard) == q \in Requests /\ Sensible(q) /\ (heard => Follows(q, k, h))

LEMMA TriedLast ==
  ASSUME NEW r \in Requests, Tried(r), NEW streams \in FoundStreams
  PROVE  Tried(Try(r, streams))
<1>1. PICK q : q = Try(r, streams)
  OBVIOUS
<1>2. q.found = r.found /\ q.pick = r.pick /\ ToSet(r.tried) \subseteq ToSet(q.tried)
  BY <1>1, TryFacts
<1> QED
  BY <1>1, <1>2 DEF Tried, Tops

LEMMA PickedStays ==
  ASSUME NEW r \in Requests, PickedFirst(r), NEW streams \in FoundStreams
  PROVE  PickedFirst(Try(r, streams))
<1>1. PICK q : q = Try(r, streams)
  OBVIOUS
<1>2. /\ q.found = r.found /\ q.pick = r.pick /\ q.tried # << >>
      /\ r.tried # << >> => Head(q.tried) = Head(r.tried)
  BY <1>1, TryFacts
<1> QED
  BY <1>1, <1>2 DEF PickedFirst

LEMMA PickTried ==
  ASSUME NEW r \in Requests, NEW streams \in FoundStreams, r.tried = << >>,
         r.pick \in HashesIn(Fits(streams))
  PROVE  PickedFirst(Try(r, streams))
<1>1. PICK q : q = Try(r, streams)
  OBVIOUS
<1>2. PICK top : top = TopCandidates(streams, r.pick, TryLimit)
  OBVIOUS
<1>3. Head(top).hash = r.pick
  BY <1>2, TopFacts, DiscoveryAssumption
<1>4. q.tried # << >> /\ Head(q.tried) = top /\ q.pick = r.pick
  BY <1>1, <1>2, TryFacts
<1> QED
  BY <1>1, <1>3, <1>4 DEF PickedFirst

LEMMA HeldSpared ==
  ASSUME NEW r, NEW q, NEW k, NEW h, SparedBy(r, k, h), q.asked = r.asked,
         Heard(k, r.index, h)
  PROVE  SparedBy(q, k, h)
  BY DEF SparedBy

(***************************************************************************)
(* TryFound, for a request with the permit that tries what it has found,   *)
(* or goes to Torznab at last.                                             *)
(***************************************************************************)
LEMMA TryFoundWell ==
  ASSUME NEW r \in Requests, NEW k \in Keepings, NEW h \in Int, NEW heard \in BOOLEAN,
         r.pc \in {"look", "ask", "try"}, r.does = "resolve",
         r.after => r.pick \in Torrents, Len(r.tried) <= 1,
         heard => SparedBy(TryFound(r), k, h),
         heard => Heard(k, "torrentio", h)
                  /\ r.found = IF Said(k, "torrentio") = Failed THEN << >>
                               ELSE Said(k, "torrentio"),
         heard /\ r.after =>
           PickedFirst(r) \/ (r.tried = << >> /\ r.pick \in HashesIn(r.found))
  PROVE  Well(TryFound(r), k, h, heard)
<1>1. r.found \in FoundStreams /\ TryLimit \in Nat \ {0}
  BY DiscoveryAssumption DEF Requests
<1>2. Tops(r) = << >> <=> Fits(r.found) = << >>
  BY <1>1, TopFacts DEF Tops
<1>3. CASE Tops(r) # << >>
  <2>1. PICK m : m = [r EXCEPT !.stage = "first"]
    OBVIOUS
  <2>2. /\ m \in Requests /\ m.found = r.found /\ m.pick = r.pick /\ m.tried = r.tried
        /\ m.does = r.does /\ m.after = r.after /\ m.stage = "first" /\ m.asked = r.asked
    BY <2>1 DEF Requests, SeekStages
  <2>3. PICK q : q = Try(m, r.found)
    OBVIOUS
  <2>4. TryFound(r) = q
    BY <1>3, <2>1, <2>3 DEF TryFound, Tops
  <2>5. /\ q \in Requests /\ q.pc = "try" /\ q.stage = "first" /\ q.does = "resolve"
        /\ q.after = r.after /\ q.pick = r.pick /\ q.found = r.found
        /\ Len(q.tried) = Len(r.tried) + 1 /\ Len(r.tried) \in Nat
        /\ ToSet(q.tried) = ToSet(r.tried) \cup {Tops(r)}
    BY <1>1, <2>2, <2>3, TryFacts, ZenonT(40) DEF Tops
  <2>6. Tries(q)
    BY <2>5 DEF Tries, Tried, Tops
  <2>7. Sensible(q)
    BY <2>5, <2>6 DEF Sensible
  <2>8. ASSUME heard PROVE Follows(q, k, h)
    <3>1. q.after => PickedFirst(q)
      <4> SUFFICES ASSUME q.after PROVE PickedFirst(q)
        OBVIOUS
      <4>1. CASE PickedFirst(r)
        <5>1. PickedFirst(m)
          BY <2>2, <4>1 DEF PickedFirst
        <5> QED
          BY <1>1, <2>2, <2>3, <5>1, PickedStays
      <4>2. CASE r.tried = << >> /\ r.pick \in HashesIn(Fits(r.found))
        BY <1>1, <2>2, <2>3, <4>2, PickTried
      <4>3. CASE r.pick \in HashesIn(r.found) \ HashesIn(Fits(r.found))
        BY <2>5, <4>3 DEF PickedFirst
      <4> QED
        BY <2>5, <2>8, <4>1, <4>2, <4>3
    <3> QED
      BY <2>4, <2>5, <2>8, <3>1 DEF Follows, Learnt, OffersIn, WillPlay
  <2> QED
    BY <2>4, <2>5, <2>7, <2>8 DEF Well
<1>4. CASE Tops(r) = << >>
  <2>1. PICK q : q = GoTorznab(r, "last")
    OBVIOUS
  <2>2. TryFound(r) = q
    BY <1>4, <2>1 DEF TryFound, Tops
  <2>3. /\ q \in Requests /\ q.pc = "look" /\ q.stage = "last" /\ q.index = "torznab"
        /\ q.does = "resolve" /\ q.pick = r.pick /\ q.found = r.found
        /\ q.tried = r.tried /\ q.after = r.after
    BY <2>1, GoTorznabFacts DEF SeekStages
  <2>4. Waits(q)
    BY <1>2, <1>4, <2>3 DEF Waits, Tried
  <2>5. Len(r.tried) \in Nat
    BY DEF Requests
  <2>6. Sensible(q)
    BY <2>3, <2>4, <2>5 DEF Sensible
  <2>7. ASSUME heard PROVE Follows(q, k, h)
    <3>1. Fits(r.found) = << >> /\ HashesIn(<< >>) = {}
      BY <1>2, <1>4 DEF HashesIn, ToSet
    <3>2. q.after => PickedFirst(q)
      BY <2>3, <2>7, <3>1 DEF PickedFirst
    <3> QED
      BY <2>2, <2>3, <2>7, <3>2 DEF Follows, Learnt, OffersIn, WillPlay
  <2> QED
    BY <2>2, <2>3, <2>6, <2>7 DEF Well
<1> QED
  BY <1>3, <1>4

(***************************************************************************)
(* What Torrentio says, to a list and to a resolve.                        *)
(***************************************************************************)
LEMMA ListTorrentioWell ==
  ASSUME NEW r \in Requests, NEW k \in Keepings, NEW h \in Int, NEW heard \in BOOLEAN,
         NEW streams \in FoundStreams \cup {Failed},
         r.pc \in {"look", "ask"}, r.index = "torrentio", Waits(r), r.does = "list",
         ~r.after, heard => SparedBy(ListTorrentio(r, streams), k, h),
         heard => Heard(k, "torrentio", h) /\ Said(k, "torrentio") = streams
  PROVE  Well(ListTorrentio(r, streams), k, h, heard)
<1>1. r.stage = "first" /\ r.found = << >> /\ r.tried = << >>
  BY DEF Waits
<1>2. ListLimit \in Nat \ {0} /\ Failed \notin FoundStreams /\ Len(<< >>) = 0
  BY DiscoveryAssumption, SaidFacts
<1>3. CASE streams = Failed
  <2>1. PICK m : m = [r EXCEPT !.why = @ \cup {"torrentio"}]
    OBVIOUS
  <2>2. /\ m \in Requests /\ m.does = r.does /\ m.found = r.found /\ m.tried = r.tried
        /\ m.after = r.after
    BY <2>1 DEF Requests, Reasons
  <2>3. PICK q : q = GoTorznab(m, "instead")
    OBVIOUS
  <2>4. ListTorrentio(r, streams) = q
    BY <1>3, <2>1, <2>3 DEF ListTorrentio
  <2>5. /\ q \in Requests /\ q.pc = "look" /\ q.stage = "instead" /\ q.index = "torznab"
        /\ q.does = "list" /\ q.found = << >> /\ q.tried = << >> /\ ~q.after
    BY <1>1, <2>2, <2>3, GoTorznabFacts DEF SeekStages
  <2>6. Sensible(q)
    BY <1>2, <2>5 DEF Sensible, Waits
  <2>7. heard => Follows(q, k, h)
    BY <1>3, <2>4, <2>5 DEF Follows, Learnt, OffersIn, WillPlay
  <2> QED
    BY <2>4, <2>5, <2>6, <2>7 DEF Well
<1>4. CASE streams # Failed
  <2>0. streams \in FoundStreams
    BY <1>4
  <2>1. PICK m : m = [r EXCEPT !.found = streams]
    OBVIOUS
  <2>2. /\ m \in Requests /\ m.does = r.does /\ m.found = streams /\ m.tried = r.tried
        /\ m.after = r.after /\ m.pick = r.pick
    BY <2>0, <2>1 DEF Requests
  <2>3. PICK sources : sources = TopCandidates(streams, r.pick, ListLimit)
    OBVIOUS
  <2>4. /\ sources \in FoundStreams /\ (sources = << >> <=> Fits(streams) = << >>)
        /\ HashesIn(sources) \subseteq HashesIn(Fits(streams))
    BY <1>2, <2>0, <2>3, TopFacts
  <2>5. CASE sources = << >> \/ Missing(streams, r.pick)
    <3>1. PICK q : q = GoTorznab(m, "fill")
      OBVIOUS
    <3>2. ListTorrentio(r, streams) = q
      BY <1>4, <2>1, <2>3, <2>5, <3>1 DEF ListTorrentio
    <3>3. /\ q \in Requests /\ q.pc = "look" /\ q.stage = "fill" /\ q.index = "torznab"
          /\ q.does = "list" /\ q.found = streams /\ q.tried = << >> /\ ~q.after
          /\ q.pick = r.pick
      BY <1>1, <2>2, <3>1, GoTorznabFacts DEF SeekStages
    <3>4. Sensible(q)
      BY <1>2, <2>4, <2>5, <3>3 DEF Sensible, Waits
    <3>5. heard => Follows(q, k, h)
      BY <1>4, <3>2, <3>3 DEF Follows, Learnt, OffersIn, WillPlay
    <3> QED
      BY <3>2, <3>3, <3>4, <3>5 DEF Well
  <2>6. CASE ~(sources = << >> \/ Missing(streams, r.pick))
    <3>1. PICK q : q = Show(m, sources)
      OBVIOUS
    <3>2. ListTorrentio(r, streams) = q
      BY <1>4, <2>1, <2>3, <2>6, <3>1 DEF ListTorrentio
    <3>3. /\ q \in Requests /\ q.pc = "shown" /\ q.shown = sources /\ ~q.after
          /\ q.tried = << >>
      BY <2>2, <2>4, <3>1, ShowFacts
    <3>4. Sensible(q)
      BY <1>2, <3>3 DEF Sensible
    <3>5. heard => Follows(q, k, h)
      BY <1>4, <2>4, <3>2, <3>3
         DEF Follows, Learnt, OffersIn, WillPlay, Playable, AtTorrentio
    <3> QED
      BY <3>2, <3>3, <3>4, <3>5 DEF Well
  <2> QED
    BY <2>5, <2>6
<1> QED
  BY <1>3, <1>4

LEMMA ResolveTorrentioWell ==
  ASSUME NEW r \in Requests, NEW k \in Keepings, NEW h \in Int, NEW heard \in BOOLEAN,
         NEW streams \in FoundStreams \cup {Failed},
         r.pc \in {"look", "ask"}, r.index = "torrentio", Waits(r), r.does = "resolve",
         r.after => r.pick \in Torrents,
         heard => SparedBy(ResolveTorrentio(r, streams), k, h),
         heard => Heard(k, "torrentio", h) /\ Said(k, "torrentio") = streams,
         heard /\ r.after => Playable(r.pick, k, h)
  PROVE  Well(ResolveTorrentio(r, streams), k, h, heard)
<1>1. r.stage = "first" /\ r.found = << >> /\ r.tried = << >>
  BY DEF Waits
<1>2. Failed \notin FoundStreams /\ Len(<< >>) = 0
  BY SaidFacts
<1>3. CASE streams = Failed
  <2>1. PICK m : m = [r EXCEPT !.why = @ \cup {"torrentio"}]
    OBVIOUS
  <2>2. /\ m \in Requests /\ m.does = r.does /\ m.found = r.found /\ m.tried = r.tried
        /\ m.after = r.after /\ m.pick = r.pick
    BY <2>1 DEF Requests, Reasons
  <2>3. PICK q : q = GoTorznab(m, "last")
    OBVIOUS
  <2>4. ResolveTorrentio(r, streams) = q
    BY <1>3, <2>1, <2>3 DEF ResolveTorrentio
  <2>5. /\ q \in Requests /\ q.pc = "look" /\ q.stage = "last" /\ q.index = "torznab"
        /\ q.does = "resolve" /\ q.found = << >> /\ q.tried = << >> /\ q.after = r.after
        /\ q.pick = r.pick
    BY <1>1, <2>2, <2>3, GoTorznabFacts DEF SeekStages
  <2>6. Fits(<< >>) = << >>
    BY FitsEmpty
  <2>7. Sensible(q)
    BY <1>2, <2>5, <2>6 DEF Sensible, Waits, Tried
  <2>8. ASSUME heard PROVE Follows(q, k, h)
    <3>1. q.after => AtTorznab(q.pick, k, h)
      BY <1>3, <2>5, <2>8 DEF Playable, AtTorrentio
    <3> QED
      BY <1>3, <2>4, <2>5, <2>8, <3>1 DEF Follows, Learnt, OffersIn, WillPlay
  <2> QED
    BY <2>4, <2>5, <2>7, <2>8 DEF Well
<1>4. CASE streams # Failed
  <2>0. streams \in FoundStreams
    BY <1>4
  <2>1. PICK m : m = [r EXCEPT !.found = streams]
    OBVIOUS
  <2>2. /\ m \in Requests /\ m.does = r.does /\ m.found = streams /\ m.tried = r.tried
        /\ m.after = r.after /\ m.pick = r.pick /\ m.pc = r.pc
    BY <2>0, <2>1 DEF Requests
  <2>3. CASE Missing(streams, r.pick)
    <3>1. PICK q : q = GoTorznab(m, "pin")
      OBVIOUS
    <3>2. ResolveTorrentio(r, streams) = q
      BY <1>4, <2>1, <2>3, <3>1 DEF ResolveTorrentio
    <3>3. /\ q \in Requests /\ q.pc = "look" /\ q.stage = "pin" /\ q.index = "torznab"
          /\ q.does = "resolve" /\ q.found = streams /\ q.tried = << >> /\ q.after = r.after
          /\ q.pick = r.pick
      BY <1>1, <2>2, <3>1, GoTorznabFacts DEF SeekStages
    <3>4. Sensible(q)
      BY <1>2, <2>3, <3>3 DEF Sensible, Waits
    <3>5. ASSUME heard PROVE Follows(q, k, h)
      <4>1. r.pick \notin HashesIn(Fits(streams))
        BY <2>0, <2>3, FitsFacts DEF Missing
      <4>2. q.after => AtTorznab(q.pick, k, h)
        BY <3>3, <3>5, <4>1 DEF Playable, AtTorrentio
      <4> QED
        BY <1>4, <3>2, <3>3, <3>5, <4>2 DEF Follows, Learnt, OffersIn, WillPlay
    <3> QED
      BY <3>2, <3>3, <3>4, <3>5 DEF Well
  <2>4. CASE ~Missing(streams, r.pick)
    <3>1. ResolveTorrentio(r, streams) = TryFound(m)
      BY <1>4, <2>1, <2>4 DEF ResolveTorrentio
    <3>2. m.after => m.pick \in HashesIn(m.found)
      BY <2>2, <2>4, DiscoveryAssumption DEF Missing
    <3>3. Len(m.tried) <= 1 /\ m.tried = << >>
      BY <1>1, <1>2, <2>2
    <3>4. heard => Heard(k, "torrentio", h)
            /\ m.found = IF Said(k, "torrentio") = Failed THEN << >> ELSE Said(k, "torrentio")
      BY <1>4, <2>2
    <3>5. heard => SparedBy(TryFound(m), k, h)
      BY <3>1
    <3> QED
      BY <2>2, <3>1, <3>2, <3>3, <3>4, <3>5, TryFoundWell
  <2> QED
    BY <2>3, <2>4
<1> QED
  BY <1>3, <1>4

(***************************************************************************)
(* What Torznab comes to.                                                  *)
(***************************************************************************)
LEMMA ListTorznabWell ==
  ASSUME NEW r \in Requests, NEW k \in Keepings, NEW h \in Int, NEW heard \in BOOLEAN,
         NEW streams \in FoundStreams \cup {Failed},
         r.pc \in {"look", "ask"}, r.index # "torrentio", Waits(r), r.does = "list",
         ~r.after, heard => SparedBy(ListTorznab(r, streams), k, h),
         heard => Learnt(r, k, h) /\ TorznabHeard(k, h) /\ ByTorznab(k) = streams
  PROVE  Well(ListTorznab(r, streams), k, h, heard)
<1>1. /\ r.tried = << >> /\ r.stage \in {"fill", "instead"}
      /\ r.stage = "instead" => r.found = << >>
      /\ r.stage = "fill" => Fits(r.found) = << >> \/ Missing(r.found, r.pick)
  BY DEF Waits, SeekStages, Requests
<1>2. /\ ListLimit \in Nat \ {0} /\ Failed \notin FoundStreams /\ Len(<< >>) = 0
      /\ << >> \in FoundStreams /\ r.found \in FoundStreams
  BY DiscoveryAssumption, SaidFacts, NotSeekingFacts DEF Requests
<1>3. Fits(<< >>) = << >>
  BY FitsEmpty
<1>4. PICK found : found = IF streams = Failed THEN << >> ELSE streams
  OBVIOUS
<1>5. PICK sources, before : sources = TopCandidates(found, r.pick, ListLimit)
                             /\ before = TopCandidates(r.found, r.pick, ListLimit)
  OBVIOUS
<1>6. /\ sources \in FoundStreams /\ HashesIn(sources) \subseteq HashesIn(Fits(found))
      /\ before \in FoundStreams /\ HashesIn(before) \subseteq HashesIn(Fits(r.found))
      /\ found \in FoundStreams
  BY <1>2, <1>4, <1>5, TopFacts
<1>7. HashesIn(Fits(<< >>)) = {}
  BY <1>3 DEF HashesIn, ToSet
<1>8. ASSUME NEW why \in Reasons, ~r.embeds,
             r.found = << >> \/ why = "torznab",
             ListTorznab(r, streams) = Refuse(r, why)
      PROVE  Well(ListTorznab(r, streams), k, h, heard)
  <2>1. PICK q : q = Refuse(r, why)
    OBVIOUS
  <2>2. /\ q \in Requests /\ q.pc = "refused" /\ q.why = r.why \cup {why} /\ q.does = "list"
        /\ q.pick = r.pick /\ ~q.embeds /\ q.found = r.found /\ q.tried = << >> /\ ~q.after
    BY <1>1, <1>8, <2>1, RefuseFacts
  <2>3. Used(q)
    BY <1>1, <1>3, <1>8, <2>2 DEF Used
  <2>4. Sensible(q)
    BY <1>2, <2>2, <2>3 DEF Sensible
  <2>5. heard => Follows(q, k, h)
    BY <1>8, <2>1, <2>2 DEF Follows, Learnt, OffersIn, WillPlay
  <2> QED
    BY <1>8, <2>1, <2>2, <2>4, <2>5 DEF Well
<1>9. ASSUME NEW list \in {sources, before}, ListTorznab(r, streams) = Show(r, list)
      PROVE  Well(ListTorznab(r, streams), k, h, heard)
  <2>1. PICK q : q = Show(r, list)
    OBVIOUS
  <2>2. /\ q \in Requests /\ q.pc = "shown" /\ q.shown = list /\ ~q.after
        /\ q.tried = << >>
    BY <1>6, <2>1, ShowFacts
  <2>3. Sensible(q)
    BY <1>2, <2>2 DEF Sensible
  <2>4. ASSUME heard, NEW p \in HashesIn(list) PROVE Playable(p, k, h)
    <3>1. Heard(k, "torrentio", h)
      BY <2>4 DEF Learnt
    <3>2. CASE list = sources
      <4>1. p \in HashesIn(Fits(found)) /\ streams # Failed
        BY <1>4, <1>6, <1>7, <2>4, <3>2
      <4> QED
        BY <1>4, <2>4, <3>1, <4>1 DEF Playable, AtTorznab
    <3>3. CASE list = before
      <4>1. p \in HashesIn(Fits(r.found)) /\ r.found # << >>
        BY <1>6, <1>7, <2>4, <3>3
      <4>2. Said(k, "torrentio") # Failed /\ r.found = Said(k, "torrentio")
        BY <2>4, <4>1 DEF Learnt
      <4> QED
        BY <3>1, <4>1, <4>2 DEF Playable, AtTorrentio
    <3> QED
      BY <3>2, <3>3
  <2>5. heard => Follows(q, k, h)
    BY <1>9, <2>1, <2>2, <2>4 DEF Follows, Learnt, OffersIn, WillPlay
  <2> QED
    BY <1>9, <2>1, <2>2, <2>3, <2>5 DEF Well
<1>10. CASE streams = Failed /\ ~r.embeds
  <2>1. ListTorznab(r, streams) = Refuse(r, "torznab")
    BY <1>10 DEF ListTorznab
  <2> QED
    BY <1>8, <1>10, <2>1 DEF Reasons
<1>11. CASE ~(streams = Failed /\ ~r.embeds) /\ r.stage = "instead" /\ sources = << >> /\ ~r.embeds
  <2>1. ListTorznab(r, streams) = Refuse(r, "nothing")
    BY <1>4, <1>5, <1>11 DEF ListTorznab
  <2> QED
    BY <1>1, <1>8, <1>11, <2>1 DEF Reasons
<1>12. CASE /\ ~(streams = Failed /\ ~r.embeds)
            /\ ~(r.stage = "instead" /\ sources = << >> /\ ~r.embeds)
  <2>1. ListTorznab(r, streams) = Show(r, sources) \/ ListTorznab(r, streams) = Show(r, before)
    BY <1>4, <1>5, <1>12 DEF ListTorznab
  <2> QED
    BY <1>9, <2>1
<1> QED
  BY <1>10, <1>11, <1>12

LEMMA ResolveTorznabWell ==
  ASSUME NEW r \in Requests, NEW k \in Keepings, NEW h \in Int, NEW heard \in BOOLEAN,
         NEW streams \in FoundStreams \cup {Failed},
         r.pc \in {"look", "ask"}, r.index # "torrentio", Waits(r), r.does = "resolve",
         r.after => r.pick \in Torrents,
         heard => SparedBy(ResolveTorznab(r, streams), k, h),
         heard => Learnt(r, k, h) /\ WillPlay(r, k, h)
                  /\ TorznabHeard(k, h) /\ ByTorznab(k) = streams
  PROVE  Well(ResolveTorznab(r, streams), k, h, heard)
<1>1. /\ r.stage \in {"pin", "last"} /\ Len(r.tried) <= 2 /\ Len(r.tried) \in Nat
      /\ r.stage = "pin" => Missing(r.found, r.pick) /\ r.tried = << >>
      /\ r.stage = "last" => Tried(r)
  BY DEF Waits, SeekStages, Requests
<1>2. /\ TryLimit \in Nat \ {0} /\ Failed \notin FoundStreams /\ Len(<< >>) = 0
  BY DiscoveryAssumption, SaidFacts
<1>3. ASSUME heard, r.after, ~PickedFirst(r)
      PROVE  /\ r.tried = << >> /\ streams \in FoundStreams
             /\ r.pick \in HashesIn(Fits(streams))
             /\ r.pick \in HashesIn(streams) /\ Fits(streams) # << >>
  <2>1. r.tried = << >> /\ AtTorznab(r.pick, k, h)
    BY <1>1, <1>3 DEF WillPlay
  <2>2. streams \in FoundStreams /\ r.pick \in HashesIn(Fits(streams))
    BY <1>3, <2>1 DEF AtTorznab
  <2>3. r.pick \in HashesIn(streams)
    BY <2>2, FitsFacts
  <2>4. Fits(streams) # << >>
    BY <2>2 DEF HashesIn, ToSet
  <2> QED
    BY <2>1, <2>2, <2>3, <2>4
<1>4. ASSUME NEW why \in Reasons, r.stage = "last" \/ why = "torznab",
             heard /\ r.after => PickedFirst(r),
             ResolveTorznab(r, streams) = Refuse(r, why)
      PROVE  Well(ResolveTorznab(r, streams), k, h, heard)
  <2>1. PICK q : q = Refuse(r, why)
    OBVIOUS
  <2>2. /\ q \in Requests /\ q.pc = "refused" /\ q.why = r.why \cup {why}
        /\ q.does = "resolve" /\ q.pick = r.pick /\ q.found = r.found
        /\ q.tried = r.tried /\ q.after = r.after
    BY <2>1, RefuseFacts
  <2>3. Used(q)
    BY <1>1, <1>4, <2>2 DEF Used, Tried, Tops
  <2>4. Sensible(q)
    BY <1>1, <2>2, <2>3 DEF Sensible
  <2>5. heard /\ q.after => PickedFirst(q)
    BY <1>4, <2>2 DEF PickedFirst
  <2>6. heard => Follows(q, k, h)
    BY <1>4, <2>1, <2>2, <2>5 DEF Follows, Learnt, OffersIn, WillPlay
  <2> QED
    BY <1>4, <2>1, <2>2, <2>4, <2>6 DEF Well
<1>5. ASSUME streams \in FoundStreams, ResolveTorznab(r, streams) = Try(r, streams)
      PROVE  Well(ResolveTorznab(r, streams), k, h, heard)
  <2>1. PICK q : q = Try(r, streams)
    OBVIOUS
  <2>2. /\ q \in Requests /\ q.pc = "try" /\ q.stage = r.stage /\ q.does = "resolve"
        /\ q.after = r.after /\ q.pick = r.pick /\ q.found = r.found
        /\ Len(q.tried) = Len(r.tried) + 1
    BY <1>5, <2>1, TryFacts
  <2>3. r.stage = "last" => Tried(q)
    BY <1>1, <1>5, <2>1, TriedLast
  <2>4. Tries(q)
    BY <1>1, <1>2, <2>2, <2>3 DEF Tries
  <2>5. Sensible(q)
    BY <1>1, <2>2, <2>4 DEF Sensible
  <2>6. ASSUME heard, q.after PROVE PickedFirst(q)
    <3>1. CASE PickedFirst(r)
      BY <1>5, <2>1, <3>1, PickedStays
    <3>2. CASE ~PickedFirst(r)
      BY <1>3, <1>5, <2>1, <2>2, <2>6, <3>2, PickTried
    <3> QED
      BY <3>1, <3>2
  <2>7. heard => Follows(q, k, h)
    BY <1>5, <2>1, <2>2, <2>6 DEF Follows, Learnt, OffersIn, WillPlay
  <2> QED
    BY <1>5, <2>1, <2>2, <2>5, <2>7 DEF Well
<1>6. CASE streams = Failed
  <2>1. ResolveTorznab(r, streams) = Refuse(r, "torznab")
    BY <1>6 DEF ResolveTorznab
  <2>2. heard /\ r.after => PickedFirst(r)
    BY <1>2, <1>3, <1>6
  <2> QED
    BY <1>4, <2>1, <2>2 DEF Reasons
<1>7. CASE streams # Failed /\ r.stage = "pin" /\ Missing(streams, r.pick)
  <2>1. ResolveTorznab(r, streams) = TryFound(r)
    BY <1>7 DEF ResolveTorznab
  <2>2. heard /\ r.after => PickedFirst(r)
    BY <1>3, <1>7 DEF Missing
  <2>3. Len(r.tried) <= 1
    BY <1>1, <1>2, <1>7
  <2>4. heard => Heard(k, "torrentio", h)
          /\ r.found = IF Said(k, "torrentio") = Failed THEN << >> ELSE Said(k, "torrentio")
    BY DEF Learnt
  <2>5. heard => SparedBy(TryFound(r), k, h)
    BY <2>1
  <2> QED
    BY <2>1, <2>2, <2>3, <2>4, <2>5, TryFoundWell
<1>8. CASE streams # Failed /\ r.stage = "pin" /\ ~Missing(streams, r.pick)
  <2>1. ResolveTorznab(r, streams) = Try(r, streams)
    BY <1>8 DEF ResolveTorznab
  <2> QED
    BY <1>5, <1>8, <2>1
<1>9. CASE streams # Failed /\ r.stage = "last" /\ TopCandidates(streams, r.pick, TryLimit) = << >>
  <2>1. ResolveTorznab(r, streams) = Refuse(r, "nothing")
    BY <1>9 DEF ResolveTorznab
  <2>2. Fits(streams) = << >>
    BY <1>2, <1>9, TopFacts
  <2>3. heard /\ r.after => PickedFirst(r)
    BY <1>3, <2>2
  <2> QED
    BY <1>4, <1>9, <2>1, <2>3 DEF Reasons
<1>10. CASE streams # Failed /\ r.stage = "last" /\ TopCandidates(streams, r.pick, TryLimit) # << >>
  <2>1. ResolveTorznab(r, streams) = Try(r, streams)
    BY <1>10 DEF ResolveTorznab
  <2> QED
    BY <1>5, <1>10, <2>1
<1> QED
  BY <1>1, <1>6, <1>7, <1>8, <1>9, <1>10

\* An answer does not change how often the indexes were asked, and asks none.
Answered(q, r) == q.asked = r.asked /\ q.pc # "ask"

LEMMA TryFoundAnswered == ASSUME NEW m \in Requests PROVE Answered(TryFound(m), m)
<1>1. PICK n : n = [m EXCEPT !.stage = "first"]
  OBVIOUS
<1>2. n \in Requests /\ n.asked = m.asked /\ m.found \in FoundStreams
  BY <1>1 DEF Requests, SeekStages
<1>3. Try(n, m.found).asked = m.asked /\ Try(n, m.found).pc = "try"
  BY <1>2, TryFacts
<1>4. GoTorznab(m, "last").asked = m.asked /\ GoTorznab(m, "last").pc = "look"
  BY GoTorznabFacts DEF SeekStages
<1> QED
  BY <1>1, <1>3, <1>4 DEF TryFound, Answered

LEMMA AnsweredBy ==
  ASSUME NEW r \in Requests, NEW streams \in FoundStreams \cup {Failed}
  PROVE  /\ Answered(ListTorrentio(r, streams), r)
         /\ Answered(ListTorznab(r, streams), r)
         /\ Answered(ResolveTorrentio(r, streams), r)
         /\ Answered(ResolveTorznab(r, streams), r)
<1>1. \A list : Answered(Show(r, list), r)
  BY DEF Show, NotSeeking, Answered
<1>2. \A why : Answered(Refuse(r, why), r)
  BY DEF Refuse, Requests, Answered
<1>3. CASE streams = Failed
  <2>1. PICK m : m = [r EXCEPT !.why = @ \cup {"torrentio"}]
    OBVIOUS
  <2>2. m \in Requests /\ m.asked = r.asked
    BY <2>1 DEF Requests, Reasons
  <2>3. Answered(GoTorznab(m, "instead"), r) /\ Answered(GoTorznab(m, "last"), r)
    BY <2>2, GoTorznabFacts DEF SeekStages, Answered
  <2>4. ListTorrentio(r, streams) = GoTorznab(m, "instead")
    BY <1>3, <2>1 DEF ListTorrentio
  <2>5. ResolveTorrentio(r, streams) = GoTorznab(m, "last")
    BY <1>3, <2>1 DEF ResolveTorrentio
  <2>6. ResolveTorznab(r, streams) = Refuse(r, "torznab")
    BY <1>3 DEF ResolveTorznab
  <2>7. Answered(ListTorznab(r, streams), r)
    BY <1>1, <1>2 DEF ListTorznab
  <2> QED
    BY <1>2, <2>3, <2>4, <2>5, <2>6, <2>7
<1>4. CASE streams # Failed
  <2>0. streams \in FoundStreams
    BY <1>4
  <2>1. PICK n : n = [r EXCEPT !.found = streams]
    OBVIOUS
  <2>2. n \in Requests /\ n.asked = r.asked
    BY <2>0, <2>1 DEF Requests
  <2>3. \A list : Answered(Show(n, list), r)
    BY <2>2 DEF Show, NotSeeking, Answered
  <2>4. Answered(GoTorznab(n, "fill"), r) /\ Answered(GoTorznab(n, "pin"), r)
    BY <2>2, GoTorznabFacts DEF SeekStages, Answered
  <2>5. Answered(TryFound(n), r) /\ Answered(TryFound(r), r)
    BY <2>2, TryFoundAnswered DEF Answered
  <2>6. Answered(Try(r, streams), r)
    BY <2>0, TryFacts DEF Answered
  <2>7. Answered(ListTorrentio(r, streams), r)
    BY <1>4, <2>1, <2>3, <2>4 DEF ListTorrentio
  <2>8. Answered(ResolveTorrentio(r, streams), r)
    BY <1>4, <2>1, <2>4, <2>5 DEF ResolveTorrentio
  <2>9. Answered(ListTorznab(r, streams), r)
    BY <1>1, <1>2, <1>4 DEF ListTorznab
  <2>10. Answered(ResolveTorznab(r, streams), r)
    BY <1>2, <1>4, <2>5, <2>6 DEF ResolveTorznab
  <2> QED
    BY <2>7, <2>8, <2>9, <2>10
<1> QED
  BY <1>3, <1>4

LEMMA ReceivePc ==
  ASSUME NEW r \in Requests, NEW answer \in FoundStreams \cup {Unreadable}
  PROVE  Receive(r, answer).pc # "ask"
<1>1. PICK streams : streams = IF answer = Unreadable THEN Failed ELSE answer
  OBVIOUS
<1>2. /\ streams \in FoundStreams \cup {Failed} /\ r.byId \in FoundStreams \cup {Failed}
      /\ r.index \in {"torrentio", "torznab", "search"} /\ "search" \in Index
  BY <1>1, DiscoveryAssumption DEF Requests
<1>3. PICK m : m = [r EXCEPT !.byId = streams]
  OBVIOUS
<1>4. m \in Requests /\ r.stage \in SeekStages
  BY <1>2, <1>3 DEF Requests
<1>5. GoAsk(m, r.stage, "search").pc = "look"
  BY <1>2, <1>4, GoAskFacts
<1>6. \A list \in {streams, r.byId} :
        ListTorznab(r, list).pc # "ask" /\ ResolveTorznab(r, list).pc # "ask"
  BY <1>2, AnsweredBy DEF Answered
<1>7. ListTorrentio(r, streams).pc # "ask" /\ ResolveTorrentio(r, streams).pc # "ask"
  BY <1>2, AnsweredBy DEF Answered
<1>8. CASE r.index = "torrentio"
  BY <1>1, <1>7, <1>8 DEF Receive
<1>9. CASE r.index # "torrentio"
  <2>1. Receive(r, answer) = Torznab(r, streams)
    BY <1>1, <1>9 DEF Receive
  <2>2. CASE r.index = "torznab" /\ streams \notin {Failed, << >>}
    BY <1>6, <2>1, <2>2 DEF Torznab
  <2>3. CASE r.index = "torznab" /\ streams \in {Failed, << >>}
    BY <1>3, <1>5, <2>1, <2>3 DEF Torznab
  <2>4. CASE r.index = "search" /\ streams = << >>
    BY <1>6, <2>1, <2>4 DEF Torznab
  <2>5. CASE r.index = "search" /\ streams # << >>
    BY <1>6, <2>1, <2>5 DEF Torznab
  <2> QED
    BY <1>2, <1>9, <2>2, <2>3, <2>4, <2>5
<1> QED
  BY <1>8, <1>9

(***************************************************************************)
(* An answer, or none: what a request makes of it.                         *)
(***************************************************************************)
LEMMA ReceiveWell ==
  ASSUME NEW r \in Requests, NEW k \in Keepings, NEW h \in Int, NEW heard \in BOOLEAN,
         NEW answer \in FoundStreams \cup {Unreadable},
         r.pc \in {"look", "ask"}, Sensible(r),
         heard => Follows(r, k, h) /\ Heard(k, r.index, h) /\ k[r.index].answer = answer
  PROVE  Well(Receive(r, answer), k, h, heard)
<1>1. PICK streams : streams = IF answer = Unreadable THEN Failed ELSE answer
  OBVIOUS
<1>2. /\ streams \in FoundStreams \cup {Failed} /\ Waits(r) /\ r.does \in {"list", "resolve"}
      /\ r.index \in {"torrentio", "torznab", "search"}
      /\ r.after => r.does = "resolve" /\ r.pick \in Torrents
  BY <1>1, DiscoveryAssumption DEF Sensible, Requests
<1>3. heard => Said(k, r.index) = streams
  BY <1>1 DEF Said
<1>4. ASSUME NEW q, q.asked = r.asked PROVE heard => SparedBy(q, k, h)
  BY <1>4, HeldSpared DEF Follows
<1>5. CASE r.index = "torrentio" /\ r.does = "list"
  <2>1. Receive(r, answer) = ListTorrentio(r, streams)
    BY <1>1, <1>5 DEF Receive
  <2>2. heard => SparedBy(ListTorrentio(r, streams), k, h)
    BY <1>2, <1>4, AnsweredBy DEF Answered
  <2>3. heard => Heard(k, "torrentio", h) /\ Said(k, "torrentio") = streams
    BY <1>3, <1>5
  <2>4. ~r.after
    BY <1>2, <1>5
  <2> QED
    BY <1>2, <1>5, <2>1, <2>2, <2>3, <2>4, ListTorrentioWell
<1>6. CASE r.index = "torrentio" /\ r.does = "resolve"
  <2>1. Receive(r, answer) = ResolveTorrentio(r, streams)
    BY <1>1, <1>6 DEF Receive
  <2>2. heard => SparedBy(ResolveTorrentio(r, streams), k, h)
    BY <1>2, <1>4, AnsweredBy DEF Answered
  <2>3. heard => Heard(k, "torrentio", h) /\ Said(k, "torrentio") = streams
    BY <1>3, <1>6
  <2>4. heard /\ r.after => Playable(r.pick, k, h)
    BY <1>2, <1>6 DEF Waits, Follows, WillPlay
  <2>5. r.after => r.pick \in Torrents
    BY <1>2
  <2> QED
    BY <1>2, <1>6, <2>1, <2>2, <2>3, <2>4, <2>5, ResolveTorrentioWell
<1>7. ASSUME NEW result \in FoundStreams \cup {Failed},
             r.index # "torrentio",
             heard => TorznabHeard(k, h) /\ ByTorznab(k) = result,
             Torznab(r, streams) = IF r.does = "list" THEN ListTorznab(r, result)
                                   ELSE ResolveTorznab(r, result)
      PROVE  Well(Receive(r, answer), k, h, heard)
  <2>1. Receive(r, answer) = Torznab(r, streams)
    BY <1>1, <1>7 DEF Receive
  <2>2. CASE r.does = "list"
    <3>1. Receive(r, answer) = ListTorznab(r, result)
      BY <1>7, <2>1, <2>2
    <3>2. heard => SparedBy(ListTorznab(r, result), k, h)
      BY <1>4, AnsweredBy DEF Answered
    <3>3. heard => Learnt(r, k, h) /\ TorznabHeard(k, h) /\ ByTorznab(k) = result
      BY <1>7 DEF Follows
    <3>4. ~r.after
      BY <1>2, <2>2
    <3> QED
      BY <1>2, <1>7, <2>2, <3>1, <3>2, <3>3, <3>4, ListTorznabWell
  <2>3. CASE r.does = "resolve"
    <3>1. Receive(r, answer) = ResolveTorznab(r, result)
      BY <1>7, <2>1, <2>3
    <3>2. heard => SparedBy(ResolveTorznab(r, result), k, h)
      BY <1>4, AnsweredBy DEF Answered
    <3>3. heard => Learnt(r, k, h) /\ WillPlay(r, k, h)
                   /\ TorznabHeard(k, h) /\ ByTorznab(k) = result
      BY <1>7 DEF Follows
    <3>4. r.after => r.pick \in Torrents
      BY <1>2
    <3> QED
      BY <1>2, <1>7, <2>3, <3>1, <3>2, <3>3, <3>4, ResolveTorznabWell
  <2> QED
    BY <1>2, <2>2, <2>3
<1>8. CASE r.index = "torznab" /\ streams \notin {Failed, << >>}
  <2>1. heard => TorznabHeard(k, h) /\ ByTorznab(k) = streams
    BY <1>3, <1>8 DEF TorznabHeard, ByTorznab
  <2>2. Torznab(r, streams) = IF r.does = "list" THEN ListTorznab(r, streams)
                              ELSE ResolveTorznab(r, streams)
    BY <1>8 DEF Torznab
  <2> QED
    BY <1>2, <1>7, <1>8, <2>1, <2>2
<1>9. CASE r.index = "search" /\ streams = << >>
  <2>1. r.byId \in {Failed, << >>}
    BY <1>2, <1>9 DEF Waits
  <2>2. heard => TorznabHeard(k, h) /\ ByTorznab(k) = r.byId
    BY <1>3, <1>9, <2>1 DEF TorznabHeard, ByTorznab, Follows, Learnt
  <2>3. Torznab(r, streams) = IF r.does = "list" THEN ListTorznab(r, r.byId)
                              ELSE ResolveTorznab(r, r.byId)
    BY <1>9 DEF Torznab
  <2>4. r.byId \in FoundStreams \cup {Failed}
    BY DEF Requests
  <2> QED
    BY <1>7, <1>9, <2>2, <2>3, <2>4
<1>10. CASE r.index = "search" /\ streams # << >>
  <2>1. r.byId \in {Failed, << >>}
    BY <1>2, <1>10 DEF Waits
  <2>2. heard => TorznabHeard(k, h) /\ ByTorznab(k) = streams
    BY <1>3, <1>10, <2>1 DEF TorznabHeard, ByTorznab, Follows, Learnt
  <2>3. Torznab(r, streams) = IF r.does = "list" THEN ListTorznab(r, streams)
                              ELSE ResolveTorznab(r, streams)
    BY <1>10 DEF Torznab
  <2> QED
    BY <1>2, <1>7, <1>10, <2>2, <2>3
<1>11. CASE r.index = "torznab" /\ streams \in {Failed, << >>}
  <2>1. PICK m : m = [r EXCEPT !.byId = streams]
    OBVIOUS
  <2>2. /\ m \in Requests /\ m.does = r.does /\ m.found = r.found /\ m.tried = r.tried
        /\ m.after = r.after /\ m.pick = r.pick /\ m.asked = r.asked /\ m.byId = streams
        /\ m.stage = r.stage
    BY <1>2, <2>1 DEF Requests
  <2>3. PICK q : q = GoAsk(m, r.stage, "search")
    OBVIOUS
  <2>4. Receive(r, answer) = q
    BY <1>1, <1>11, <2>1, <2>3 DEF Receive, Torznab
  <2>5. /\ q \in Requests /\ q.pc = "look" /\ q.stage = r.stage /\ q.index = "search"
        /\ q.does = r.does /\ q.found = r.found /\ q.tried = r.tried /\ q.after = r.after
        /\ q.pick = r.pick /\ q.asked = r.asked /\ q.byId = streams
    <3>1. r.stage \in SeekStages /\ "search" \in Index
      BY DiscoveryAssumption DEF Requests
    <3> QED
      BY <2>2, <2>3, <3>1, GoAskFacts
  <2>6. Waits(q)
    BY <1>2, <1>11, <2>5 DEF Waits, Tried, Tops
  <2>7. Sensible(q)
    BY <1>2, <2>5, <2>6 DEF Sensible
  <2>8. ASSUME heard PROVE Follows(q, k, h)
    <3>1. Learnt(q, k, h)
      BY <1>3, <1>11, <2>5, <2>8 DEF Follows, Learnt
    <3>2. WillPlay(q, k, h)
      BY <2>5, <2>8 DEF Follows, WillPlay, PickedFirst
    <3>3. SparedBy(q, k, h)
      BY <1>4, <2>5, <2>8
    <3>4. OffersIn(q, k, h)
      BY <2>5 DEF OffersIn
    <3> QED
      BY <3>1, <3>2, <3>3, <3>4 DEF Follows
  <2> QED
    BY <2>4, <2>5, <2>7, <2>8 DEF Well
<1> QED
  BY <1>2, <1>5, <1>6, <1>8, <1>9, <1>10, <1>11

-----------------------------------------------------------------------------
(***************************************************************************)
(* The invariant: every request goes its way well, by itself and, while    *)
(* nothing has moved, by what is kept.                                     *)
(***************************************************************************)
SeekPcs == {"look", "ask", "try"}
DiscoveryIInv ==
  /\ hour \in 0 .. LastHour /\ moved \in [Seeker -> BOOLEAN]
  /\ kept \in Keepings /\ \A i \in Index : kept[i].at \in -1 .. hour
  /\ seeker \in [Seeker -> Requests]
  /\ \A s \in Seeker : Sensible(seeker[s])
  /\ \A s \in Seeker : ~moved[s] =>
       Follows(seeker[s], kept, hour) /\ Unheard(seeker[s], kept, hour)
  /\ Cardinality(Seeking) <= SeekPermits

LEMMA RestFollows ==
  ASSUME NEW k, NEW h
  PROVE  Follows(NotSeeking, k, h) /\ Unheard(NotSeeking, k, h) /\ Sensible(NotSeeking)
<1>1. SparedBy(NotSeeking, k, h)
  BY NotSeekingFacts DEF SparedBy
<1>2. Len(<< >>) <= 3
  OBVIOUS
<1> QED
  BY <1>1, <1>2, NotSeekingFacts
     DEF Follows, Learnt, OffersIn, WillPlay, Unheard, Sensible

\* What was heard is still there.
Keeps(k, k2, h) == \A i \in Index : Heard(k, i, h) => k2[i] = k[i]

LEMMA FollowsOn ==
  ASSUME NEW r, NEW k, NEW k2, NEW h, Follows(r, k, h), Keeps(k, k2, h)
  PROVE  Follows(r, k2, h)
<1>1. \A i \in Index : Heard(k, i, h) => Heard(k2, i, h) /\ Said(k2, i) = Said(k, i)
  BY DEF Keeps, Heard, Said
<1>2. {"torrentio", "torznab", "search"} = Index
  BY DiscoveryAssumption
<1>3. TorznabHeard(k, h) => TorznabHeard(k2, h) /\ ByTorznab(k2) = ByTorznab(k)
  BY <1>1, <1>2 DEF TorznabHeard, ByTorznab
<1>4. \A p : AtTorznab(p, k, h) => AtTorznab(p, k2, h)
  BY <1>1, <1>2, <1>3 DEF AtTorznab
<1>5. \A p : AtTorrentio(p, k, h) => AtTorrentio(p, k2, h)
  BY <1>1, <1>2 DEF AtTorrentio
<1>6. \A p : Playable(p, k, h) => Playable(p, k2, h)
  BY <1>4, <1>5 DEF Playable
<1>7. SparedBy(r, k2, h)
  BY <1>1 DEF Follows, SparedBy
<1>8. Learnt(r, k2, h)
  BY <1>1, <1>2 DEF Follows, Learnt
<1>9. OffersIn(r, k2, h)
  BY <1>6 DEF Follows, OffersIn
<1>10. WillPlay(r, k2, h)
  BY <1>4, <1>6 DEF Follows, WillPlay
<1> QED
  BY <1>7, <1>8, <1>9, <1>10 DEF Follows

\* Nobody else is told more than is so: the others are at rest, know that it has
\* moved, or have heard nothing of what changes.
Steady(k, k2, h, s, all, m, m2) ==
  \A t \in Seeker \ {s} : ~m2[t] =>
    all[t].pc = "rest"
    \/ (~m[t] /\ \A i \in Index : k2[i] # k[i] => ~Heard(k, i, h) /\ ~Heard(k2, i, h))
Moves(s, q) == seeker' = [seeker EXCEPT ![s] = q]

LEMMA OneMoves ==
  ASSUME DiscoveryIInv, NEW s \in Seeker, NEW q, Moves(s, q),
         NEW k2 \in Keepings, kept' = k2, \A i \in Index : k2[i].at \in -1 .. hour,
         UNCHANGED hour, NEW m2 \in [Seeker -> BOOLEAN], moved' = m2,
         Steady(kept, k2, hour, s, seeker, moved, m2),
         Well(q, k2, hour, ~m2[s]), ~m2[s] => Unheard(q, k2, hour),
         q.pc \in SeekPcs => seeker[s].pc \in SeekPcs \/ Cardinality(Seeking) < SeekPermits
  PROVE  DiscoveryIInv'
<1>1. PICK k, h, all, m, new :
        k = kept /\ h = hour /\ all = seeker /\ m = moved /\ new = [all EXCEPT ![s] = q]
  OBVIOUS
<1>2. seeker' = new /\ kept' = k2 /\ hour' = h /\ moved' = m2
  BY <1>1 DEF Moves
<1>3. all \in [Seeker -> Requests] /\ q \in Requests /\ Sensible(q)
  BY <1>1 DEF DiscoveryIInv, Well
<1>4. new \in [Seeker -> Requests] /\ new[s] = q /\ \A t \in Seeker \ {s} : new[t] = all[t]
  BY <1>1, <1>3
<1>5. \A t \in Seeker : Sensible(new[t])
  BY <1>1, <1>3, <1>4 DEF DiscoveryIInv
<1>6. ASSUME NEW t \in Seeker, ~m2[t]
      PROVE  Follows(new[t], k2, h) /\ Unheard(new[t], k2, h)
  <2>1. CASE t = s
    BY <1>1, <1>4, <1>6, <2>1 DEF Well
  <2>2. CASE t # s /\ all[t].pc = "rest"
    <3>1. new[t] = NotSeeking
      BY <1>1, <1>4, <2>2 DEF DiscoveryIInv, Sensible
    <3> QED
      BY <3>1, RestFollows
  <2>3. CASE t # s /\ all[t].pc # "rest"
    <3>1. ~m[t] /\ \A i \in Index : k2[i] # k[i] => ~Heard(k, i, h) /\ ~Heard(k2, i, h)
      BY <1>1, <1>6, <2>3 DEF Steady
    <3>2. Follows(all[t], k, h) /\ Unheard(all[t], k, h)
      BY <1>1, <3>1 DEF DiscoveryIInv
    <3>3. Keeps(k, k2, h)
      BY <3>1 DEF Keeps
    <3>4. Follows(all[t], k2, h)
      BY <3>2, <3>3, FollowsOn
    <3>5. Unheard(all[t], k2, h)
      <4>1. all[t].index \in Index
        BY <1>3 DEF Requests
      <4>2. ASSUME all[t].pc = "ask", Heard(k2, all[t].index, h) PROVE FALSE
        <5>1. k2[all[t].index] = k[all[t].index]
          BY <3>1, <4>1, <4>2
        <5> QED
          BY <3>2, <4>2, <5>1 DEF Unheard, Heard
      <4> QED
        BY <4>2 DEF Unheard
    <3> QED
      BY <1>4, <2>3, <3>4, <3>5
  <2> QED
    BY <2>1, <2>2, <2>3
<1>7. (Cardinality(Seeking) <= SeekPermits)'
  <2>1. PICK A, B : A = {t \in Seeker : all[t].pc \in SeekPcs}
                    /\ B = {t \in Seeker : new[t].pc \in SeekPcs}
    OBVIOUS
  <2>2. Seeking = A /\ Seeking' = B
    BY <1>1, <1>2, <2>1 DEF Seeking, SeekPcs
  <2>3. IsFiniteSet(A) /\ IsFiniteSet(B) /\ Cardinality(A) \in Nat /\ Cardinality(B) \in Nat
    BY <2>1, DiscoveryAssumption, FS_Subset, FS_CardinalityType
  <2>4. Cardinality(A) <= SeekPermits /\ SeekPermits \in Nat
    BY <2>2, DiscoveryAssumption DEF DiscoveryIInv
  <2>5. CASE B \subseteq A
    <3>1. Cardinality(B) <= Cardinality(A)
      BY <2>3, <2>5, FS_Subset
    <3> QED
      BY <2>2, <2>3, <2>4, <3>1
  <2>6. CASE ~(B \subseteq A)
    <3>1. B \subseteq A \cup {s} /\ q.pc \in SeekPcs /\ all[s].pc \notin SeekPcs
      BY <1>4, <2>1, <2>6
    <3>2. Cardinality(A) < SeekPermits
      BY <1>1, <2>2, <3>1
    <3>3. IsFiniteSet(A \cup {s}) /\ Cardinality(A \cup {s}) <= Cardinality(A) + 1
          /\ Cardinality(A \cup {s}) \in Nat
      <4>1. PICK C : C = A \cup {s}
        OBVIOUS
      <4>2. IsFiniteSet(C) /\ (Cardinality(C) = Cardinality(A) \/ Cardinality(C) = Cardinality(A) + 1)
        BY <2>3, <4>1, FS_AddElement
      <4>3. Cardinality(C) \in Nat
        BY <4>2, FS_CardinalityType
      <4> QED
        BY <2>3, <4>1, <4>2, <4>3
    <3>4. Cardinality(B) <= Cardinality(A \cup {s})
      BY <3>1, <3>3, FS_Subset
    <3> QED
      BY <2>2, <2>3, <2>4, <3>2, <3>3, <3>4
  <2> QED
    BY <2>5, <2>6
<1>8. \A i \in Index : k2[i].at \in -1 .. h
  BY <1>1
<1>9. h \in 0 .. LastHour
  BY <1>1 DEF DiscoveryIInv
<1> QED
  BY <1>2, <1>4, <1>5, <1>6, <1>7, <1>8, <1>9 DEF DiscoveryIInv

\* Everyone who is not at rest is told that it has moved.
LEMMA AllMoved ==
  ASSUME DiscoveryIInv, UNCHANGED seeker, MovedFor(Seeker),
         NEW k2 \in Keepings, kept' = k2,
         NEW h2 \in 0 .. LastHour, hour' = h2, \A i \in Index : k2[i].at \in -1 .. h2
  PROVE  DiscoveryIInv'
<1>1. PICK m2 : m2 = [t \in Seeker |-> moved[t] \/ seeker[t].pc # "rest"]
  OBVIOUS
<1>2. moved' = m2 /\ m2 \in [Seeker -> BOOLEAN]
  <2>1. moved' = m2
    BY <1>1 DEF MovedFor
  <2>2. moved \in [Seeker -> BOOLEAN]
    BY DEF DiscoveryIInv
  <2> QED
    BY <1>1, <2>1, <2>2
<1>3. PICK all : all = seeker
  OBVIOUS
<1>4. ASSUME NEW t \in Seeker, ~m2[t] PROVE Follows(all[t], k2, h2) /\ Unheard(all[t], k2, h2)
  <2>1. all[t] = NotSeeking
    BY <1>1, <1>3, <1>4 DEF DiscoveryIInv, Sensible
  <2> QED
    BY <2>1, RestFollows
<1>5. seeker' = all /\ all \in [Seeker -> Requests] /\ \A t \in Seeker : Sensible(all[t])
  BY <1>3 DEF DiscoveryIInv
<1>6. (Cardinality(Seeking) <= SeekPermits)'
  <2>1. Seeking' = Seeking
    BY DEF Seeking
  <2> QED
    BY <2>1 DEF DiscoveryIInv
<1> QED
  BY <1>2, <1>4, <1>5, <1>6 DEF DiscoveryIInv

-----------------------------------------------------------------------------
(***************************************************************************)
(* The actions.                                                            *)
(***************************************************************************)
LEMMA DiscoveryIInvInit == DiscoveryInit => DiscoveryIInv
<1> SUFFICES ASSUME DiscoveryInit PROVE DiscoveryIInv
  OBVIOUS
<1>1. seeker = [s \in Seeker |-> NotSeeking] /\ hour = 0 /\ moved = [s \in Seeker |-> FALSE]
      /\ kept = [i \in Index |-> NothingKept]
  BY DEF DiscoveryInit
<1>2. \A s \in Seeker : Follows(NotSeeking, kept, hour) /\ Unheard(NotSeeking, kept, hour)
        /\ Sensible(NotSeeking)
  BY RestFollows
<1>3. kept \in Keepings /\ \A i \in Index : kept[i].at \in -1 .. hour
  BY <1>1, NotSeekingFacts DEF Keepings, NothingKept
<1>4. Cardinality(Seeking) <= SeekPermits
  <2>1. Seeking = {}
    BY <1>1, NotSeekingFacts DEF Seeking
  <2> QED
    BY <2>1, FS_EmptySet, DiscoveryAssumption
<1>5. seeker \in [Seeker -> Requests] /\ moved \in [Seeker -> BOOLEAN] /\ hour \in 0 .. LastHour
  BY <1>1, NotSeekingFacts, DiscoveryAssumption
<1> QED
  BY <1>1, <1>2, <1>3, <1>4, <1>5 DEF DiscoveryIInv

\* A step that changes nothing of what is kept and tells nobody.
LEMMA OneMovesAlone ==
  ASSUME DiscoveryIInv, NEW s \in Seeker, NEW q, Moves(s, q),
         UNCHANGED <<hour, kept, moved>>,
         Well(q, kept, hour, ~moved[s]), q.pc # "ask",
         q.pc \in SeekPcs => seeker[s].pc \in SeekPcs \/ Cardinality(Seeking) < SeekPermits
  PROVE  DiscoveryIInv'
<1>1. PICK k2, m2 : k2 = kept /\ m2 = moved
  OBVIOUS
<1>2. k2 \in Keepings /\ m2 \in [Seeker -> BOOLEAN] /\ \A i \in Index : k2[i].at \in -1 .. hour
  BY <1>1 DEF DiscoveryIInv
<1>3. Steady(kept, k2, hour, s, seeker, moved, m2)
  BY <1>1 DEF Steady
<1>4. Well(q, k2, hour, ~m2[s]) /\ Unheard(q, k2, hour)
  BY <1>1 DEF Unheard
<1>5. kept' = k2 /\ moved' = m2 /\ hour' = hour
  BY <1>1
<1> QED
  BY <1>2, <1>3, <1>4, <1>5, OneMoves

\* A request that starts, or comes back with a torrent that is picked.
Fresh(r) ==
  /\ r \in Requests /\ r.found = << >> /\ r.tried = << >>
  /\ r.after => r.does = "resolve" /\ r.pick \in Torrents
NothingAsked(r, k, h) == \A i \in Index : r.asked[i] <= 1 /\ (r.asked[i] = 1 => Heard(k, i, h))

LEMMA BeginWell ==
  ASSUME NEW r, Fresh(r), NEW k, NEW h, NEW heard \in BOOLEAN,
         heard => NothingAsked(r, k, h),
         heard /\ r.after => Playable(r.pick, k, h)
  PROVE  /\ Well(Begin(r), k, h, heard) /\ Begin(r).pc # "ask"
         /\ Begin(r).pc \in SeekPcs => Cardinality(Seeking) < SeekPermits
<1>1. r \in Requests /\ Len(<< >>) = 0 /\ << >> \in FoundStreams
  BY FitsEmpty DEF Fresh
<1>2. CASE Cardinality(Seeking) < SeekPermits
  <2>1. PICK q : q = GoAsk(r, "first", "torrentio")
    OBVIOUS
  <2>2. Begin(r) = q
    BY <1>2, <2>1 DEF Begin
  <2>3. /\ q \in Requests /\ q.pc = "look" /\ q.stage = "first" /\ q.index = "torrentio"
        /\ q.does = r.does /\ q.pick = r.pick /\ q.found = << >> /\ q.tried = << >>
        /\ q.after = r.after /\ q.asked = r.asked
    BY <1>1, <2>1, GoAskFacts, DiscoveryAssumption DEF SeekStages, Fresh
  <2>4. Sensible(q)
    BY <1>1, <2>3 DEF Sensible, Waits, Fresh
  <2>5. heard => Follows(q, k, h)
    BY <2>3 DEF Follows, SparedBy, Learnt, OffersIn, WillPlay, NothingAsked
  <2> QED
    BY <1>2, <2>2, <2>3, <2>4, <2>5 DEF Well
<1>3. CASE ~(Cardinality(Seeking) < SeekPermits) /\ r.does = "list" /\ r.embeds
  <2>1. PICK q : q = Show(r, << >>)
    OBVIOUS
  <2>2. Begin(r) = q
    BY <1>3, <2>1 DEF Begin
  <2>3. /\ q \in Requests /\ q.pc = "shown" /\ q.shown = << >> /\ ~q.after /\ q.tried = << >>
        /\ q.asked = r.asked
    BY <1>1, <2>1, ShowFacts
  <2>4. Sensible(q)
    BY <1>1, <2>3 DEF Sensible
  <2>5. heard => Follows(q, k, h)
    BY <2>3, FitsEmpty DEF Follows, SparedBy, Learnt, OffersIn, WillPlay, NothingAsked
  <2> QED
    BY <2>2, <2>3, <2>4, <2>5 DEF Well, SeekPcs
<1>4. CASE ~(Cardinality(Seeking) < SeekPermits) /\ ~(r.does = "list" /\ r.embeds)
  <2>1. PICK q : q = Refuse(r, "permit")
    OBVIOUS
  <2>2. Begin(r) = q
    BY <1>4, <2>1 DEF Begin
  <2>3. /\ q \in Requests /\ q.pc = "refused" /\ "permit" \in q.why /\ q.does = r.does
        /\ q.embeds = r.embeds /\ q.found = << >> /\ q.tried = << >> /\ q.after = r.after
        /\ q.pick = r.pick /\ q.asked = r.asked
    BY <1>1, <2>1, RefuseFacts DEF Reasons, Fresh
  <2>4. Sensible(q)
    BY <1>1, <1>4, <2>3, FitsEmpty DEF Sensible, Used, Fresh
  <2>5. heard => Follows(q, k, h)
    BY <2>3 DEF Follows, SparedBy, Learnt, OffersIn, WillPlay, NothingAsked
  <2> QED
    BY <2>2, <2>3, <2>4, <2>5 DEF Well, SeekPcs
<1> QED
  BY <1>2, <1>3, <1>4

LEMMA AskSourcesKeeps ==
  ASSUME DiscoveryIInv, NEW s \in Seeker, AskSources(s) PROVE DiscoveryIInv'
<1>1. PICK does \in {"list", "resolve"}, pick \in Torrents \cup {Anything},
           embeds \in BOOLEAN, debrid \in BOOLEAN :
        LET r == [NotSeeking EXCEPT !.does = does, !.pick = pick, !.embeds = embeds] IN
        /\ embeds => does = "list"
        /\ seeker' = [seeker EXCEPT
                       ![s] = CASE debrid -> Begin(r)
                                [] ~debrid /\ does = "list" -> Show(r, << >>)
                                [] ~debrid /\ does = "resolve" -> Refuse(r, "debrid")]
  BY DEF AskSources
<1>2. PICK r : r = [NotSeeking EXCEPT !.does = does, !.pick = pick, !.embeds = embeds]
  OBVIOUS
<1>3. /\ r \in Requests /\ r.does = does /\ r.pick = pick /\ r.embeds = embeds
      /\ r.found = << >> /\ r.tried = << >> /\ r.after = FALSE
      /\ r.asked = [i \in Index |-> 0]
  <2>1. r \in Requests
    BY <1>2, NotSeekingFacts DEF Requests
  <2> QED
    BY <1>2, <2>1, NotSeekingFacts DEF NotSeeking
<1>4. Fresh(r) /\ NothingAsked(r, kept, hour)
  BY <1>3 DEF Fresh, NothingAsked
<1>5. PICK q : q = CASE debrid -> Begin(r)
                     [] ~debrid /\ does = "list" -> Show(r, << >>)
                     [] ~debrid /\ does = "resolve" -> Refuse(r, "debrid")
  OBVIOUS
<1>6. Moves(s, q)
  BY <1>1, <1>2, <1>5 DEF Moves
<1>7. UNCHANGED <<hour, kept, moved>> /\ seeker[s].pc = "rest"
  BY DEF AskSources
<1>8. PICK heard : heard = ~moved[s]
  OBVIOUS
<1>9. heard \in BOOLEAN
  BY <1>8
<1>10. /\ Well(q, kept, hour, heard) /\ q.pc # "ask"
       /\ q.pc \in SeekPcs => Cardinality(Seeking) < SeekPermits
  <2>1. CASE debrid
    <3>1. q = Begin(r)
      BY <1>5, <2>1
    <3> QED
      BY <1>3, <1>4, <1>9, <3>1, BeginWell
  <2>2. CASE ~debrid /\ does = "list"
    <3>1. q = Show(r, << >>)
      BY <1>5, <2>2
    <3>2. /\ q \in Requests /\ q.pc = "shown" /\ q.shown = << >> /\ ~q.after
          /\ q.tried = << >> /\ q.asked = r.asked
      BY <1>3, <3>1, ShowFacts, FitsEmpty
    <3>3. Sensible(q) /\ Follows(q, kept, hour)
      BY <1>4, <3>2, FitsEmpty
         DEF Sensible, Follows, SparedBy, Learnt, OffersIn, WillPlay, NothingAsked
    <3> QED
      BY <3>2, <3>3 DEF Well, SeekPcs
  <2>3. CASE ~debrid /\ does = "resolve"
    <3>1. q = Refuse(r, "debrid")
      BY <1>5, <2>3
    <3>2. /\ q \in Requests /\ q.pc = "refused" /\ q.does = "resolve" /\ q.found = << >>
          /\ q.tried = << >> /\ ~q.after /\ q.asked = r.asked
      BY <1>3, <2>3, <3>1, RefuseFacts DEF Reasons
    <3>3. Sensible(q) /\ Follows(q, kept, hour)
      BY <1>4, <3>2, FitsEmpty
         DEF Sensible, Used, Follows, SparedBy, Learnt, OffersIn, WillPlay, NothingAsked
    <3> QED
      BY <3>2, <3>3 DEF Well, SeekPcs
  <2> QED
    BY <2>1, <2>2, <2>3
<1>11. Well(q, kept, hour, ~moved[s])
  BY <1>8, <1>10
<1> QED
  BY <1>6, <1>7, <1>10, <1>11, OneMovesAlone

LEMMA PickShownKeeps ==
  ASSUME DiscoveryIInv, NEW s \in Seeker, PickShown(s) PROVE DiscoveryIInv'
<1>1. PICK pick \in HashesIn(seeker[s].shown) :
        seeker' = [seeker EXCEPT
                    ![s] = Begin([NotSeeking EXCEPT
                                    !.does = "resolve", !.pick = pick,
                                    !.after = TRUE, !.asked = seeker[s].asked])]
  BY DEF PickShown
<1>2. PICK old : old = seeker[s]
  OBVIOUS
<1>3. PICK r : r = [NotSeeking EXCEPT !.does = "resolve", !.pick = pick,
                                      !.after = TRUE, !.asked = old.asked]
  OBVIOUS
<1>4. old \in Requests /\ old.pc = "shown" /\ pick \in HashesIn(old.shown)
      /\ UNCHANGED <<hour, kept, moved>>
  BY <1>2 DEF DiscoveryIInv, PickShown
<1>5. pick \in Torrents
  <2>1. old.shown \in FoundStreams
    BY <1>4 DEF Requests
  <2>2. ToSet(old.shown) \subseteq FoundStream
    BY <2>1, InList DEF FoundStreams
  <2> QED
    BY <1>4, <2>2 DEF HashesIn, FoundStream
<1>6. /\ r \in Requests /\ r.does = "resolve" /\ r.pick = pick /\ r.found = << >>
      /\ r.tried = << >> /\ r.after = TRUE /\ r.asked = old.asked
  <2>1. old.asked \in [Index -> Nat]
    BY <1>4 DEF Requests
  <2>2. r \in Requests
    BY <1>3, <1>5, <2>1, NotSeekingFacts DEF Requests
  <2> QED
    BY <1>3, <2>2, NotSeekingFacts DEF NotSeeking
<1>7. Fresh(r)
  BY <1>5, <1>6 DEF Fresh
<1>8. PICK heard : heard = ~moved[s]
  OBVIOUS
<1>9. ASSUME heard PROVE NothingAsked(r, kept, hour) /\ Playable(r.pick, kept, hour)
  <2>1. Follows(old, kept, hour)
    BY <1>2, <1>8, <1>9 DEF DiscoveryIInv
  <2>2. NothingAsked(r, kept, hour)
    BY <1>4, <1>6, <2>1 DEF Follows, SparedBy, NothingAsked
  <2>3. Playable(r.pick, kept, hour)
    BY <1>4, <1>6, <2>1 DEF Follows, OffersIn
  <2> QED
    BY <2>2, <2>3
<1>10. heard \in BOOLEAN
  BY <1>8
<1>11. PICK q : q = Begin(r)
  OBVIOUS
<1>12. /\ Well(q, kept, hour, heard) /\ q.pc # "ask"
       /\ q.pc \in SeekPcs => Cardinality(Seeking) < SeekPermits
  BY <1>7, <1>9, <1>10, <1>11, BeginWell
<1>13. Moves(s, q) /\ Well(q, kept, hour, ~moved[s])
  BY <1>1, <1>2, <1>3, <1>8, <1>11, <1>12 DEF Moves
<1> QED
  BY <1>4, <1>12, <1>13, OneMovesAlone

LEMMA SeekerHas ==
  ASSUME DiscoveryIInv, NEW s \in Seeker
  PROVE  /\ seeker[s] \in Requests /\ Sensible(seeker[s]) /\ seeker[s].index \in Index
         /\ ~moved[s] => Follows(seeker[s], kept, hour) /\ Unheard(seeker[s], kept, hour)
         /\ hour \in Int /\ kept \in Keepings /\ moved \in [Seeker -> BOOLEAN]
         /\ \A i \in Index : kept[i].at \in -1 .. hour
<1>1. seeker[s] \in Requests /\ Sensible(seeker[s])
  BY DEF DiscoveryIInv
<1>2. seeker[s].index \in Index
  BY <1>1 DEF Requests
<1>3. hour \in Int
  BY DiscoveryAssumption DEF DiscoveryIInv
<1> QED
  BY <1>1, <1>2, <1>3 DEF DiscoveryIInv

LEMMA LookKeptKeeps ==
  ASSUME DiscoveryIInv, NEW s \in Seeker, LookKept(s) PROVE DiscoveryIInv'
<1>1. PICK r, i, k, h, heard :
        r = seeker[s] /\ i = r.index /\ k = kept /\ h = hour /\ heard = ~moved[s]
  OBVIOUS
<1>2. /\ r \in Requests /\ Sensible(r) /\ i \in Index /\ r.pc = "look"
      /\ heard => Follows(r, k, h)
      /\ h \in Int /\ k \in Keepings /\ moved \in [Seeker -> BOOLEAN] /\ heard \in BOOLEAN
      /\ \A j \in Index : k[j].at \in -1 .. h
  BY <1>1, SeekerHas DEF LookKept
<1>3. UNCHANGED <<hour, moved>>
  BY DEF LookKept
<1>4. PICK k2 : k2 = IF Expired(i) THEN [k EXCEPT ![i] = NothingKept] ELSE k
  OBVIOUS
<1>5. kept' = k2
  BY <1>1, <1>4 DEF LookKept
<1>6. PICK q : q = IF UsedUnasked(i) THEN Receive(r, k[i].answer)
                   ELSE [r EXCEPT !.pc = "ask", !.old = k2[i], !.asked[i] = r.asked[i] + 1]
  OBVIOUS
<1>7. Moves(s, q)
  <2>1. seeker' = [seeker EXCEPT
                     ![s] = IF UsedUnasked(seeker[s].index)
                            THEN Receive(seeker[s], kept[seeker[s].index].answer)
                            ELSE [seeker[s] EXCEPT !.pc = "ask", !.old = kept'[seeker[s].index],
                                    !.asked[seeker[s].index] = seeker[s].asked[seeker[s].index] + 1]]
    BY DEF LookKept
  <2>2. q = IF UsedUnasked(r.index) THEN Receive(r, k[r.index].answer)
            ELSE [r EXCEPT !.pc = "ask", !.old = k2[r.index],
                           !.asked[r.index] = r.asked[r.index] + 1]
    BY <1>1, <1>6
  <2>3. seeker' = [seeker EXCEPT ![s] = q]
    BY <1>1, <1>5, <2>1, <2>2
  <2> QED
    BY <2>3 DEF Moves
<1>8. k2 \in Keepings /\ \A j \in Index : k2[j].at \in -1 .. h
  <2>1. CASE Expired(i)
    <3>1. k2 = [k EXCEPT ![i] = NothingKept]
      BY <1>4, <2>1
    <3>2. \A j \in Index : k2[j] = IF j = i THEN NothingKept ELSE k[j]
      BY <1>2, <3>1 DEF Keepings
    <3>3. NothingKept \in Keeping /\ NothingKept.at = -1 /\ 0 <= h
      BY <1>1, NotSeekingFacts DEF NothingKept, DiscoveryIInv
    <3>4. k2 \in Keepings
      BY <1>2, <3>1, <3>3 DEF Keepings
    <3> QED
      BY <1>2, <3>2, <3>3, <3>4
  <2>2. CASE ~Expired(i)
    BY <1>2, <1>4, <2>2
  <2> QED
    BY <2>1, <2>2
<1>9. /\ \A j \in Index : k2[j] # k[j] => ~Heard(k, j, h) /\ ~Heard(k2, j, h)
      /\ Heard(k, i, h) <=> UsedUnasked(i)
      /\ UsedUnasked(i) => k2 = k
      /\ ~UsedUnasked(i) => ~Heard(k2, i, h)
  <2>1. Heard(k, i, h) <=> UsedUnasked(i)
    BY <1>1 DEF Heard, UsedUnasked
  <2>2. k[i].at \in Int /\ FreshFor[i] \in Nat /\ KeptFor[i] \in Nat /\ FreshFor[i] <= KeptFor[i]
    BY <1>2, DiscoveryAssumption, SMTT(30)
  <2>3. Expired(i) => ~UsedUnasked(i)
    BY <1>1, <1>2, <2>2 DEF Expired, UsedUnasked
  <2>4. Expired(i) => k2[i] = NothingKept /\ \A j \in Index : j # i => k2[j] = k[j]
    BY <1>2, <1>4 DEF Keepings
  <2> QED
    BY <1>4, <2>1, <2>3, <2>4 DEF Heard
<1>10. PICK m2 : m2 = moved
  OBVIOUS
<1>11. Steady(kept, k2, hour, s, seeker, moved, m2)
  BY <1>1, <1>9, <1>10 DEF Steady
<1>12. CASE UsedUnasked(i)
  <2>1. q = Receive(r, k[i].answer) /\ k2 = k /\ Heard(k, i, h)
    BY <1>6, <1>9, <1>12
  <2>2. k[i].answer \in FoundStreams \cup {Unreadable}
    BY <1>2 DEF Keepings, Keeping
  <2>3. Well(q, k, h, heard)
    BY <1>1, <1>2, <2>1, <2>2, ReceiveWell
  <2>4. q.pc # "ask"
    <3>1. Receive(r, k[i].answer).pc # "ask"
      BY <1>2, <2>2, ReceivePc
    <3> QED
      BY <2>1, <3>1
  <2>5. Well(q, k2, hour, ~m2[s]) /\ Unheard(q, k2, hour)
    BY <1>1, <1>10, <2>1, <2>3, <2>4 DEF Unheard
  <2>6. seeker[s].pc \in SeekPcs
    BY <1>1, <1>2 DEF SeekPcs
  <2>7. \A j \in Index : k2[j].at \in -1 .. hour
    BY <1>1, <1>8
  <2>8. moved' = m2 /\ m2 \in [Seeker -> BOOLEAN]
    BY <1>2, <1>3, <1>10
  <2> QED
    BY <1>3, <1>5, <1>7, <1>8, <1>11, <2>5, <2>6, <2>7, <2>8, OneMoves
<1>13. CASE ~UsedUnasked(i)
  <2>1. q = [r EXCEPT !.pc = "ask", !.old = k2[i], !.asked[i] = r.asked[i] + 1]
    BY <1>6, <1>13
  <2>2. r.asked \in [Index -> Nat] /\ k2[i] \in Keeping
    BY <1>2, <1>8 DEF Requests, Keepings
  <2>3. PICK asked : asked = [r.asked EXCEPT ![i] = r.asked[i] + 1]
    OBVIOUS
  <2>4. asked \in [Index -> Nat]
        /\ \A j \in Index : asked[j] = IF j = i THEN r.asked[i] + 1 ELSE r.asked[j]
    BY <1>2, <2>2, <2>3
  <2>5. q = [r EXCEPT !.pc = "ask", !.old = k2[i], !.asked = asked]
    BY <1>2, <2>1, <2>3 DEF Requests
  <2>6. q \in Requests
    BY <1>2, <2>2, <2>4, <2>5 DEF Requests
  <2>7. /\ q.pc = "ask" /\ q.does = r.does /\ q.pick = r.pick /\ q.stage = r.stage
        /\ q.index = r.index /\ q.found = r.found /\ q.byId = r.byId /\ q.tried = r.tried
        /\ q.after = r.after /\ q.asked = asked /\ q.why = r.why
    BY <1>2, <2>5 DEF Requests
  <2>8. Sensible(q)
    <3>1. Waits(q)
      BY <1>2, <2>7 DEF Sensible, Waits, Tried, Tops
    <3> QED
      BY <1>2, <2>7, <3>1 DEF Sensible
  <2>9. ASSUME heard PROVE Follows(q, k2, h)
    <3>1. Keeps(k, k2, h)
      BY <1>9 DEF Keeps
    <3>2. Follows(r, k2, h)
      BY <1>2, <2>9, <3>1, FollowsOn
    <3>3. r.asked[i] # 1 /\ r.asked[i] <= 1 /\ r.asked[i] \in Nat
      BY <1>1, <1>2, <1>9, <1>13, <2>2, <3>2 DEF Follows, SparedBy
    <3>4. SparedBy(q, k2, h)
      BY <1>1, <1>2, <2>4, <2>7, <3>2, <3>3 DEF Follows, SparedBy
    <3>5. Learnt(q, k2, h)
      BY <1>2, <2>7, <3>2 DEF Follows, Learnt
    <3>6. WillPlay(q, k2, h)
      BY <1>2, <2>7, <3>2 DEF Follows, WillPlay, PickedFirst
    <3>7. OffersIn(q, k2, h)
      BY <2>7 DEF OffersIn
    <3> QED
      BY <3>4, <3>5, <3>6, <3>7 DEF Follows
  <2>10. Unheard(q, k2, h)
    BY <1>1, <1>9, <1>13, <2>7 DEF Unheard
  <2>11. Well(q, k2, hour, ~m2[s]) /\ Unheard(q, k2, hour)
    BY <1>1, <1>10, <2>6, <2>8, <2>9, <2>10 DEF Well
  <2>12. seeker[s].pc \in SeekPcs
    BY <1>1, <1>2 DEF SeekPcs
  <2>13. \A j \in Index : k2[j].at \in -1 .. hour
    BY <1>1, <1>8
  <2>14. moved' = m2 /\ m2 \in [Seeker -> BOOLEAN]
    BY <1>2, <1>3, <1>10
  <2> QED
    BY <1>3, <1>5, <1>7, <1>8, <1>11, <2>11, <2>12, <2>13, <2>14, OneMoves
<1> QED
  BY <1>12, <1>13

\* Those who are told.
LEMMA MovedIs ==
  ASSUME DiscoveryIInv, NEW S \in SUBSET Seeker, MovedFor(S)
  PROVE  \E m2 \in [Seeker -> BOOLEAN] :
           /\ moved' = m2
           /\ \A t \in Seeker : m2[t] = (moved[t] \/ (t \in S /\ seeker[t].pc # "rest"))
<1>1. PICK m2 : m2 = [t \in Seeker |-> moved[t] \/ (t \in S /\ seeker[t].pc # "rest")]
  OBVIOUS
<1>2. moved' = m2
  BY <1>1 DEF MovedFor
<1>3. \A t \in Seeker : moved[t] \in BOOLEAN
  BY DEF DiscoveryIInv
<1>4. m2 \in [Seeker -> BOOLEAN]
  BY <1>1, <1>3
<1>5. \A t \in Seeker : m2[t] = (moved[t] \/ (t \in S /\ seeker[t].pc # "rest"))
  BY <1>1
<1> QED
  BY <1>2, <1>4, <1>5

LEMMA IndexAnswersKeeps ==
  ASSUME DiscoveryIInv, NEW s \in Seeker, IndexAnswers(s) PROVE DiscoveryIInv'
<1>1. PICK r, i, k, h : r = seeker[s] /\ i = r.index /\ k = kept /\ h = hour
  OBVIOUS
<1>2. /\ r \in Requests /\ Sensible(r) /\ i \in Index /\ r.pc = "ask"
      /\ ~moved[s] => Follows(r, k, h) /\ Unheard(r, k, h)
      /\ h \in Int /\ k \in Keepings
      /\ \A j \in Index : k[j].at \in -1 .. h
  BY <1>1, SeekerHas DEF IndexAnswers
<1>3. PICK answer \in Answers[i] :
        /\ kept' = Keep(i, answer)
        /\ seeker' = [seeker EXCEPT ![s] = Receive(@, answer)]
  BY <1>1 DEF IndexAnswers
<1>4. UNCHANGED hour /\ MovedFor(Seeker \ {s})
  BY DEF IndexAnswers
<1>5. PICK new, k2 : new = [answer |-> answer, at |-> h] /\ k2 = [k EXCEPT ![i] = new]
  OBVIOUS
<1>6. kept' = k2
  BY <1>1, <1>3, <1>5 DEF Keep
<1>7. answer \in FoundStreams \cup {Unreadable} /\ new \in Keeping
      /\ new.at = h /\ new.answer = answer /\ h >= 0
  <2>1. answer \in FoundStreams \cup {Unreadable}
    BY <1>2, <1>3, DiscoveryAssumption DEF FoundStreams
  <2>2. h >= 0
    BY <1>1 DEF DiscoveryIInv
  <2> QED
    BY <1>2, <1>5, <2>1, <2>2 DEF Keeping
<1>8. k2 \in Keepings /\ k2[i] = new /\ \A j \in Index : j # i => k2[j] = k[j]
  BY <1>2, <1>5, <1>7 DEF Keepings
<1>9. \A j \in Index : k2[j].at \in -1 .. hour
  BY <1>1, <1>2, <1>7, <1>8
<1>10. Heard(k2, i, h)
  <2>1. new # NothingKept
    BY <1>7 DEF NothingKept
  <2>2. FreshFor[i] \in Nat \ {0}
    BY <1>2, DiscoveryAssumption
  <2> QED
    BY <1>2, <1>7, <1>8, <2>1, <2>2 DEF Heard
<1>11. PICK m2 \in [Seeker -> BOOLEAN] :
         /\ moved' = m2
         /\ \A t \in Seeker : m2[t] = (moved[t] \/ (t \in Seeker \ {s} /\ seeker[t].pc # "rest"))
  BY <1>4, MovedIs
<1>12. Steady(kept, k2, hour, s, seeker, moved, m2)
  BY <1>11 DEF Steady
<1>13. PICK heard : heard = ~m2[s]
  OBVIOUS
<1>14. heard \in BOOLEAN /\ (heard => ~moved[s])
  BY <1>11, <1>13
<1>15. heard => Follows(r, k2, h)
  <2>1. ASSUME heard PROVE Keeps(k, k2, h)
    BY <1>1, <1>2, <1>8, <1>14, <2>1 DEF Unheard, Keeps
  <2> QED
    BY <1>2, <1>14, <2>1, FollowsOn
<1>16. PICK q : q = Receive(r, answer)
  OBVIOUS
<1>17. Well(q, k2, h, heard)
  BY <1>1, <1>2, <1>7, <1>8, <1>10, <1>14, <1>15, <1>16, ReceiveWell
<1>18. q.pc # "ask"
  <2>1. Receive(r, answer).pc # "ask"
    BY <1>2, <1>7, ReceivePc
  <2> QED
    BY <1>16, <2>1
<1>19. Moves(s, q)
  BY <1>1, <1>3, <1>16 DEF Moves
<1>20. Well(q, k2, hour, ~m2[s]) /\ Unheard(q, k2, hour) /\ seeker[s].pc \in SeekPcs
  BY <1>1, <1>2, <1>13, <1>17, <1>18 DEF Unheard, SeekPcs
<1> QED
  BY <1>4, <1>6, <1>8, <1>9, <1>11, <1>12, <1>19, <1>20, OneMoves

\* A request that is told itself that it has moved.
LEMMA ToldSelf ==
  ASSUME DiscoveryIInv, NEW s \in Seeker, seeker[s].pc = "ask",
         NEW answer \in FoundStreams \cup {Unreadable},
         NEW q, q = Receive(seeker[s], answer), Moves(s, q),
         MovedFor({s}), UNCHANGED <<hour, kept>>
  PROVE  DiscoveryIInv'
<1>1. PICK r, k, h : r = seeker[s] /\ k = kept /\ h = hour
  OBVIOUS
<1>2. /\ r \in Requests /\ Sensible(r) /\ h \in Int /\ k \in Keepings /\ r.pc = "ask"
      /\ \A j \in Index : k[j].at \in -1 .. hour
  BY <1>1, SeekerHas
<1>3. PICK m2 \in [Seeker -> BOOLEAN] :
         /\ moved' = m2
         /\ \A t \in Seeker : m2[t] = (moved[t] \/ (t \in {s} /\ seeker[t].pc # "rest"))
  BY MovedIs
<1>4. m2[s] = TRUE
  BY <1>3
<1>5. Well(q, k, h, FALSE)
  BY <1>1, <1>2, ReceiveWell
<1>6. Well(q, k, hour, ~m2[s])
  BY <1>4, <1>5 DEF Well
<1>7. Steady(kept, k, hour, s, seeker, moved, m2)
  BY <1>1, <1>3 DEF Steady
<1>8. seeker[s].pc \in SeekPcs /\ kept' = k /\ UNCHANGED hour
  BY <1>1 DEF SeekPcs
<1> QED
  BY <1>2, <1>3, <1>4, <1>6, <1>7, <1>8, OneMoves

LEMMA IndexFailsKeeps ==
  ASSUME DiscoveryIInv, NEW s \in Seeker, IndexFails(s) PROVE DiscoveryIInv'
<1>1. PICK r : r = seeker[s]
  OBVIOUS
<1>2. PICK good : good = (r.old # NothingKept /\ hour < r.old.at + KeptFor[r.index])
  OBVIOUS
<1>3. PICK answer : answer = IF good THEN r.old.answer ELSE Unreadable
  OBVIOUS
<1>4. r \in Requests /\ r.pc = "ask"
  BY <1>1, SeekerHas DEF IndexFails
<1>5. answer \in FoundStreams \cup {Unreadable}
  BY <1>3, <1>4 DEF Requests, Keeping
<1>6. PICK q : q = Receive(r, answer)
  OBVIOUS
<1>7. seeker' = [seeker EXCEPT ![s] = Receive(@, answer)]
  BY <1>1, <1>2, <1>3 DEF IndexFails
<1>8. Moves(s, q) /\ MovedFor({s}) /\ UNCHANGED <<hour, kept>>
  BY <1>1, <1>6, <1>7 DEF Moves, IndexFails
<1> QED
  BY <1>1, <1>4, <1>5, <1>6, <1>8, ToldSelf

LEMMA BodyFailsKeeps ==
  ASSUME DiscoveryIInv, NEW s \in Seeker, BodyFails(s) PROVE DiscoveryIInv'
<1>1. PICK q : q = Receive(seeker[s], Unreadable)
  OBVIOUS
<1>2. /\ Moves(s, q) /\ MovedFor({s}) /\ UNCHANGED <<hour, kept>> /\ seeker[s].pc = "ask"
  BY <1>1 DEF Moves, BodyFails
<1> QED
  BY <1>1, <1>2, ToldSelf

LEMMA CandidateWorksKeeps ==
  ASSUME DiscoveryIInv, NEW s \in Seeker, CandidateWorks(s) PROVE DiscoveryIInv'
<1>1. PICK r, q : r = seeker[s] /\ q = [r EXCEPT !.pc = "played"]
  OBVIOUS
<1>2. /\ r \in Requests /\ Sensible(r) /\ r.pc = "try" /\ UNCHANGED <<hour, kept, moved>>
      /\ ~moved[s] => Follows(r, kept, hour)
  BY <1>1, SeekerHas DEF CandidateWorks
<1>3. /\ q \in Requests /\ q.pc = "played" /\ q.does = r.does /\ q.pick = r.pick
      /\ q.found = r.found /\ q.tried = r.tried /\ q.after = r.after /\ q.asked = r.asked
  BY <1>1, <1>2 DEF Requests
<1>4. Sensible(q)
  BY <1>2, <1>3 DEF Sensible
<1>5. ~moved[s] => Follows(q, kept, hour)
  BY <1>2, <1>3 DEF Follows, SparedBy, Learnt, OffersIn, WillPlay, PickedFirst
<1>6. Well(q, kept, hour, ~moved[s]) /\ q.pc # "ask" /\ q.pc \notin SeekPcs
  BY <1>3, <1>4, <1>5 DEF Well, SeekPcs
<1>7. Moves(s, q)
  BY <1>1 DEF CandidateWorks, Moves
<1> QED
  BY <1>2, <1>6, <1>7, OneMovesAlone

LEMMA CandidatesFailKeeps ==
  ASSUME DiscoveryIInv, NEW s \in Seeker, CandidatesFail(s) PROVE DiscoveryIInv'
<1>1. PICK r, k, h, heard : r = seeker[s] /\ k = kept /\ h = hour /\ heard = ~moved[s]
  OBVIOUS
<1>2. /\ r \in Requests /\ Sensible(r) /\ r.pc = "try" /\ UNCHANGED <<hour, kept, moved>>
      /\ heard => Follows(r, k, h)
      /\ h \in Int /\ k \in Keepings /\ heard \in BOOLEAN
  BY <1>1, SeekerHas DEF CandidatesFail
<1>3. Tries(r) /\ (r.after => r.pick \in Torrents) /\ Len(r.tried) \in Nat
  BY <1>2 DEF Sensible, Requests
<1>4. PICK q : q = CASE r.stage = "pin" -> TryFound(r)
                     [] r.stage = "first" -> GoTorznab(r, "last")
                     [] r.stage = "last" -> Refuse(r, "candidates")
  OBVIOUS
<1>5. Moves(s, q)
  BY <1>1, <1>4 DEF CandidatesFail, Moves
<1>6. heard => /\ \A i \in Index : r.asked[i] <= 1 /\ (r.asked[i] = 1 => Heard(k, i, h))
               /\ Heard(k, "torrentio", h)
               /\ r.found = IF Said(k, "torrentio") = Failed THEN << >> ELSE Said(k, "torrentio")
               /\ r.after => PickedFirst(r)
  BY <1>2 DEF Follows, SparedBy, Learnt, WillPlay
<1>7. ASSUME NEW p, p.asked = r.asked PROVE heard => SparedBy(p, k, h)
  BY <1>6, <1>7 DEF SparedBy
<1>8. CASE r.stage = "pin"
  <2>1. q = TryFound(r)
    BY <1>4, <1>8
  <2>2. heard => SparedBy(TryFound(r), k, h)
    BY <1>2, <1>7, TryFoundAnswered DEF Answered
  <2>3. Len(r.tried) <= 1 /\ r.does = "resolve"
    BY <1>3, <1>8 DEF Tries
  <2>4. heard => Heard(k, "torrentio", h)
          /\ r.found = IF Said(k, "torrentio") = Failed THEN << >> ELSE Said(k, "torrentio")
    BY <1>6
  <2>5. heard /\ r.after =>
           PickedFirst(r) \/ (r.tried = << >> /\ r.pick \in HashesIn(r.found))
    BY <1>6
  <2>6. Well(q, k, h, heard)
    BY <1>2, <1>3, <2>1, <2>2, <2>3, <2>4, <2>5, TryFoundWell
  <2>7. q.pc # "ask"
    <3>1. TryFound(r).pc # "ask"
      BY <1>2, TryFoundAnswered DEF Answered
    <3> QED
      BY <2>1, <3>1
  <2>8. Well(q, kept, hour, ~moved[s]) /\ seeker[s].pc \in SeekPcs
    BY <1>1, <1>2, <2>6 DEF SeekPcs
  <2> QED
    BY <1>2, <1>5, <2>7, <2>8, OneMovesAlone
<1>9. CASE r.stage = "first"
  <2>1. q = GoTorznab(r, "last")
    BY <1>4, <1>9
  <2>2. /\ q \in Requests /\ q.pc = "look" /\ q.stage = "last" /\ q.index = "torznab"
        /\ q.does = r.does /\ q.pick = r.pick /\ q.found = r.found
        /\ q.tried = r.tried /\ q.after = r.after /\ q.asked = r.asked
    BY <1>2, <2>1, GoTorznabFacts DEF SeekStages
  <2>3. Waits(q)
    BY <1>3, <1>9, <2>2 DEF Tries, Waits, Tried, Tops
  <2>4. Sensible(q)
    BY <1>2, <2>2, <2>3 DEF Sensible
  <2>5. heard => Follows(q, k, h)
    BY <1>6, <1>7, <2>2 DEF Follows, Learnt, OffersIn, WillPlay, PickedFirst
  <2>6. Well(q, kept, hour, ~moved[s]) /\ seeker[s].pc \in SeekPcs /\ q.pc # "ask"
    BY <1>1, <1>2, <2>2, <2>4, <2>5 DEF Well, SeekPcs
  <2> QED
    BY <1>2, <1>5, <2>6, OneMovesAlone
<1>10. CASE r.stage = "last"
  <2>1. q = Refuse(r, "candidates")
    BY <1>4, <1>10
  <2>2. /\ q \in Requests /\ q.pc = "refused" /\ q.does = r.does /\ q.pick = r.pick
        /\ q.found = r.found /\ q.tried = r.tried /\ q.after = r.after /\ q.asked = r.asked
    BY <1>2, <2>1, RefuseFacts DEF Reasons
  <2>3. Used(q)
    BY <1>3, <1>10, <2>2 DEF Tries, Tried, Used, Tops
  <2>4. Sensible(q)
    BY <1>2, <2>2, <2>3 DEF Sensible
  <2>5. heard => Follows(q, k, h)
    BY <1>6, <1>7, <2>2 DEF Follows, Learnt, OffersIn, WillPlay, PickedFirst
  <2>6. Well(q, kept, hour, ~moved[s]) /\ q.pc \notin SeekPcs /\ q.pc # "ask"
    BY <1>1, <2>2, <2>4, <2>5 DEF Well, SeekPcs
  <2> QED
    BY <1>2, <1>5, <2>6, OneMovesAlone
<1> QED
  BY <1>3, <1>8, <1>9, <1>10 DEF Tries

LEMMA SeekerLeavesKeeps ==
  ASSUME DiscoveryIInv, NEW s \in Seeker, SeekerLeaves(s) PROVE DiscoveryIInv'
<1>1. PICK k2, m2 : k2 = kept /\ m2 = [moved EXCEPT ![s] = FALSE]
  OBVIOUS
<1>2. /\ k2 \in Keepings /\ moved \in [Seeker -> BOOLEAN]
      /\ \A i \in Index : k2[i].at \in -1 .. hour
  BY <1>1, SeekerHas
<1>3. m2 \in [Seeker -> BOOLEAN] /\ \A t \in Seeker \ {s} : m2[t] = moved[t]
  BY <1>1, <1>2
<1>4. moved' = m2 /\ kept' = k2 /\ UNCHANGED hour /\ Moves(s, NotSeeking)
  BY <1>1 DEF SeekerLeaves, Moves
<1>5. Steady(kept, k2, hour, s, seeker, moved, m2)
  BY <1>1, <1>3 DEF Steady
<1>6. Well(NotSeeking, k2, hour, ~m2[s]) /\ Unheard(NotSeeking, k2, hour)
  BY RestFollows, NotSeekingFacts DEF Well
<1>7. NotSeeking.pc \notin SeekPcs
  BY NotSeekingFacts DEF SeekPcs
<1> QED
  BY <1>2, <1>3, <1>4, <1>5, <1>6, <1>7, OneMoves

LEMMA RowGoesKeeps ==
  ASSUME DiscoveryIInv, NEW i \in Index, RowGoes(i) PROVE DiscoveryIInv'
<1>1. PICK k, k2, h : k = kept /\ h = hour /\ k2 = [k EXCEPT ![i] = NothingKept]
  OBVIOUS
<1>2. k \in Keepings /\ h \in 0 .. LastHour /\ \A j \in Index : k[j].at \in -1 .. h
  BY <1>1 DEF DiscoveryIInv
<1>3. kept' = k2 /\ hour' = h /\ UNCHANGED seeker /\ MovedFor(Seeker)
  BY <1>1 DEF RowGoes
<1>4. NothingKept \in Keeping /\ NothingKept.at = -1
  BY NotSeekingFacts DEF NothingKept
<1>5. k2 \in Keepings
  BY <1>1, <1>2, <1>4 DEF Keepings
<1>6. \A j \in Index : k2[j] = IF j = i THEN NothingKept ELSE k[j]
  BY <1>1, <1>2 DEF Keepings
<1>7. \A j \in Index : k2[j].at \in -1 .. h
  BY <1>2, <1>4, <1>6
<1> QED
  BY <1>2, <1>3, <1>5, <1>7, AllMoved

LEMMA HourPassesKeeps ==
  ASSUME DiscoveryIInv, HourPasses PROVE DiscoveryIInv'
<1>1. PICK k2, h, h2 : k2 = kept /\ h = hour /\ h2 = h + 1
  OBVIOUS
<1>2. h \in 0 .. LastHour /\ LastHour \in Nat /\ h < LastHour /\ k2 \in Keepings
      /\ \A j \in Index : k2[j].at \in -1 .. h
  BY <1>1, DiscoveryAssumption DEF DiscoveryIInv, HourPasses
<1>3. kept' = k2 /\ hour' = h2 /\ UNCHANGED seeker /\ MovedFor(Seeker)
  BY <1>1 DEF HourPasses
<1>4. h2 \in 0 .. LastHour /\ \A j \in Index : k2[j].at \in -1 .. h2
  BY <1>1, <1>2
<1> QED
  BY <1>2, <1>3, <1>4, AllMoved

LEMMA DiscoveryIInvNext ==
  DiscoveryIInv /\ [DiscoveryNext]_discoveryVars => DiscoveryIInv'
<1> SUFFICES ASSUME DiscoveryIInv, [DiscoveryNext]_discoveryVars PROVE DiscoveryIInv'
  OBVIOUS
<1>1. CASE UNCHANGED discoveryVars
  <2>1. Seeking' = Seeking
    BY <1>1 DEF discoveryVars, Seeking
  <2> QED
    BY <1>1, <2>1 DEF discoveryVars, DiscoveryIInv
<1>2. CASE DiscoveryNext
  BY <1>2, AskSourcesKeeps, PickShownKeeps, LookKeptKeeps, IndexAnswersKeeps,
     IndexFailsKeeps, BodyFailsKeeps, CandidateWorksKeeps, CandidatesFailKeeps,
     SeekerLeavesKeeps, RowGoesKeeps, HourPassesKeeps
     DEF DiscoveryNext
<1> QED
  BY <1>1, <1>2

LEMMA DiscoveryIInvSound == DiscoveryIInv => DiscoverySound
<1> SUFFICES ASSUME DiscoveryIInv PROVE DiscoverySound
  OBVIOUS
<1>1. \A s \in Seeker :
        /\ seeker[s] \in Requests /\ Sensible(seeker[s])
        /\ ~moved[s] => Follows(seeker[s], kept, hour)
  BY DEF DiscoveryIInv
<1>2. DiscoveryTypeOK
  <2>1. kept = [i \in Index |-> kept[i]] /\ seeker = [s \in Seeker |-> seeker[s]]
    BY DEF DiscoveryIInv, Keepings
  <2>2. \A s \in Seeker :
          /\ seeker[s].pc \in {"rest", "look", "ask", "try", "shown", "played", "refused"}
          /\ seeker[s].stage \in SeekStages /\ seeker[s].index \in Index
    BY <1>1 DEF Requests
  <2> QED
    BY <2>1, <2>2 DEF DiscoveryTypeOK, DiscoveryIInv
<1>3. PickedTried
  <2> SUFFICES ASSUME NEW s \in Seeker, seeker[s].after, ~moved[s],
                      seeker[s].pc \in {"try", "played", "refused"}, "permit" \notin seeker[s].why
               PROVE  PickedFirst(seeker[s])
    BY DEF PickedTried, PickedFirst
  <2> QED
    BY <1>1 DEF Follows, WillPlay
<1>4. FoundUsed
  BY <1>1 DEF FoundUsed, Sensible, Used, Tops
<1>5. AskedOnce
  BY <1>1 DEF AskedOnce, Follows, SparedBy
<1>6. TriesBounded
  BY <1>1 DEF TriesBounded, Sensible
<1> QED
  BY <1>2, <1>3, <1>4, <1>5, <1>6 DEF DiscoverySound, DiscoveryIInv

(***************************************************************************)
(* DiscoverySafe: for any number of requests, torrents, answers of the     *)
(* indexes and hours, a torrent that list_sources shows is the first that  *)
(* a resolve tries, what Torrentio has found is tried or shown, an index   *)
(* is asked once, and external resolves stay within their permits.         *)
(***************************************************************************)
THEOREM DiscoverySafe == DiscoverySpec => []DiscoverySound
<1> QED
  BY DiscoveryIInvInit, DiscoveryIInvNext, DiscoveryIInvSound, PTL DEF DiscoverySpec

-----------------------------------------------------------------------------
(***************************************************************************)
(* PickSound.  Lists of streams: of a list t out of s we know what is in   *)
(* it, that it is empty only if s is, and what comes first.                *)
(***************************************************************************)
Streams == Seq(Found)
HasSome(t, s) == (t = << >>) <=> (s = << >>)
StartsAs(t, s) == s # << >> => t # << >> /\ t[1] = s[1]

LEMMA Joined ==
  ASSUME NEW a \in Streams, NEW b \in Streams
  PROVE  /\ a \o b \in Streams /\ ToSet(a \o b) = ToSet(a) \cup ToSet(b)
         /\ StartsAs(a \o b, a)
         /\ a \o b = << >> <=> a = << >> /\ b = << >>
<1>1. PICK c : c = a \o b
  OBVIOUS
<1>2. /\ c \in Streams /\ Len(c) = Len(a) + Len(b)
      /\ \A i \in 1 .. Len(a) : c[i] = a[i]
      /\ \A i \in 1 .. Len(b) : c[Len(a) + i] = b[i]
  BY <1>1, ConcatProperties DEF Streams
<1>3. /\ Len(a) \in Nat /\ Len(b) \in Nat /\ ToSet(a) = {a[i] : i \in 1 .. Len(a)}
      /\ ToSet(b) = {b[i] : i \in 1 .. Len(b)} /\ ToSet(c) = {c[i] : i \in 1 .. Len(c)}
  BY <1>2, InList DEF Streams
<1>4. ToSet(a) \subseteq ToSet(c)
  BY <1>2, <1>3
<1>5. ToSet(b) \subseteq ToSet(c)
  <2> SUFFICES ASSUME NEW i \in 1 .. Len(b) PROVE b[i] \in ToSet(c)
    BY <1>3
  <2>1. Len(a) + i \in 1 .. Len(c)
    BY <1>2, <1>3
  <2> QED
    BY <1>2, <1>3, <2>1
<1>6. ToSet(c) \subseteq ToSet(a) \cup ToSet(b)
  <2> SUFFICES ASSUME NEW i \in 1 .. Len(c) PROVE c[i] \in ToSet(a) \cup ToSet(b)
    BY <1>3
  <2>1. CASE i \in 1 .. Len(a)
    BY <1>2, <1>3, <2>1
  <2>2. CASE i \notin 1 .. Len(a)
    <3>1. i - Len(a) \in 1 .. Len(b) /\ Len(a) + (i - Len(a)) = i
      BY <1>2, <1>3, <2>2
    <3> QED
      BY <1>2, <1>3, <3>1
  <2> QED
    BY <2>1, <2>2
<1>7. StartsAs(c, a)
  <2> SUFFICES ASSUME a # << >> PROVE c # << >> /\ c[1] = a[1]
    BY DEF StartsAs
  <2>1. Len(a) >= 1
    BY InList DEF Streams
  <2> QED
    BY <1>2, <1>3, <2>1
<1>8. a = << >> => c = b
  BY <1>1 DEF Streams
<1>9. c = << >> <=> a = << >> /\ b = << >>
  <2>1. Len(<< >>) = 0
    OBVIOUS
  <2>2. (a # << >> => Len(a) >= 1) /\ (b # << >> => Len(b) >= 1)
    BY InList DEF Streams
  <2> QED
    BY <1>2, <1>3, <1>8, <2>1, <2>2
<1> QED
  BY <1>1, <1>2, <1>4, <1>5, <1>6, <1>7, <1>8, <1>9

LEMMA SelectedOf ==
  ASSUME NEW s \in Streams, NEW S
  PROVE  /\ Select(s, S) \in Streams /\ ToSet(Select(s, S)) = ToSet(s) \cap S
         /\ Select(s, S) = << >> <=> ToSet(s) \cap S = {}
<1>1. PICK t : t = Select(s, S)
  OBVIOUS
<1>2. t \in Streams /\ ToSet(t) = ToSet(s) \cap S
  BY <1>1, SelectFacts DEF Streams
<1>3. t = << >> <=> ToSet(t) = {}
  <2>1. t = << >> => ToSet(t) = {}
    BY DEF ToSet
  <2> QED
    BY <1>2, <2>1, InList DEF Streams
<1> QED
  BY <1>1, <1>2, <1>3

\* Take, for a list that is not longer than it can be.
LEMMA TakeFacts ==
  ASSUME wish \in Wish, NEW s \in Streams
  PROVE  /\ Take(s) \in Streams /\ Len(Take(s)) <= wish.limit /\ Len(Take(s)) <= Len(s)
         /\ ToSet(Take(s)) \subseteq ToSet(s)
         /\ HasSome(Take(s), s) /\ StartsAs(Take(s), s)
<1>1. PICK n : n = IF Len(s) < wish.limit THEN Len(s) ELSE wish.limit
  OBVIOUS
<1>2. PICK t : t = SubSeq(s, 1, n)
  OBVIOUS
<1>3. wish.limit \in Nat /\ wish.limit # 0 /\ Len(s) \in Nat
  <2>1. wish.limit \in Limits
    BY DEF Wish
  <2>2. wish.limit \in Nat \ {0}
    BY <2>1, RankingAssumption
  <2> QED
    BY <2>2 DEF Streams
<1>4. n \in 0 .. Len(s) /\ n <= wish.limit /\ (s # << >> => n >= 1)
  BY <1>1, <1>3 DEF Streams
<1>5. t \in Streams /\ Len(t) = n /\ \A i \in 1 .. n : t[i] = s[i]
  BY <1>2, <1>4 DEF Streams
<1>6. Take(s) = t
  BY <1>1, <1>2 DEF Take
<1>7. ToSet(t) \subseteq ToSet(s)
  <2>1. ToSet(t) = {t[i] : i \in 1 .. n} /\ ToSet(s) = {s[i] : i \in 1 .. Len(s)}
    BY <1>5, InList DEF Streams
  <2> QED
    BY <1>4, <1>5, <2>1
<1>8. StartsAs(t, s)
  BY <1>4, <1>5 DEF StartsAs, Streams
<1>9. HasSome(t, s)
  <2>1. s = << >> => t = << >>
    BY <1>4, <1>5 DEF Streams
  <2> QED
    BY <1>8, <2>1 DEF HasSome, StartsAs
<1> QED
  BY <1>3, <1>4, <1>5, <1>6, <1>7, <1>8, <1>9

\* Of a torrent the first stream is kept.
LEMMA UniqueFacts ==
  ASSUME NEW s \in Streams
  PROVE  /\ Unique(s) \in Streams /\ ToSet(Unique(s)) \subseteq ToSet(s)
         /\ HashesOf(Unique(s)) = HashesOf(s) /\ Len(Unique(s)) <= Len(s)
         /\ HasSome(Unique(s), s) /\ StartsAs(Unique(s), s)
<1>1. PICK N \in Nat : N = Len(s) /\ DOMAIN s = 1 .. N
  BY DEF Streams
<1>2. PICK all : all = [i \in DOMAIN s |-> i]
  OBVIOUS
<1>3. PICK S : S = {i \in DOMAIN s : \A j \in 1 .. i - 1 : s[j].hash # s[i].hash}
  OBVIOUS
<1>4. PICK firsts : firsts = Select(all, S)
  OBVIOUS
<1>5. PICK t : t = [n \in DOMAIN firsts |-> s[firsts[n]]]
  OBVIOUS
<1>6. Unique(s) = t
  BY <1>2, <1>3, <1>4, <1>5 DEF Unique
<1>7. all \in Seq(1 .. N) /\ Len(all) = N /\ \A i \in 1 .. N : all[i] = i
  BY <1>1, <1>2
<1>8. ToSet(all) = 1 .. N
  BY <1>1, <1>2 DEF ToSet
<1>9. /\ firsts \in Seq(1 .. N) /\ Len(firsts) <= N /\ ToSet(firsts) = S
      /\ all # << >> /\ all[1] \in S => firsts # << >> /\ firsts[1] = all[1]
  <2>1. (1 .. N) \cap S = S
    BY <1>1, <1>3
  <2>2. PICK A : A = 1 .. N
    OBVIOUS
  <2>3. all \in Seq(A)
    BY <1>7, <2>2
  <2>4. /\ Select(all, S) \in Seq(A) /\ Len(Select(all, S)) <= Len(all)
        /\ ToSet(Select(all, S)) = ToSet(all) \cap S
        /\ all # << >> /\ all[1] \in S => Select(all, S) # << >> /\ Select(all, S)[1] = all[1]
    BY <2>3, SelectFacts
  <2>5. ToSet(firsts) = S
    BY <1>4, <1>8, <2>1, <2>4
  <2>6. firsts \in Seq(1 .. N) /\ Len(firsts) <= N
    BY <1>4, <1>7, <2>2, <2>4
  <2> QED
    BY <1>4, <2>4, <2>5, <2>6
<1>10. DOMAIN firsts = 1 .. Len(firsts) /\ Len(firsts) \in Nat
       /\ \A n \in 1 .. Len(firsts) : firsts[n] \in 1 .. N
  BY <1>9
<1>11. \A i \in 1 .. N : s[i] \in Found
  BY <1>1 DEF Streams
<1>12. t \in Streams /\ Len(t) = Len(firsts)
  BY <1>5, <1>10, <1>11 DEF Streams
<1>13. \A n \in 1 .. Len(firsts) : t[n] = s[firsts[n]]
  BY <1>5, <1>10
<1>14. ToSet(t) \subseteq ToSet(s)
  <2>1. ToSet(t) = {t[n] : n \in 1 .. Len(firsts)} /\ ToSet(s) = {s[i] : i \in 1 .. N}
    BY <1>1, <1>12, InList DEF Streams
  <2> QED
    BY <1>10, <1>13, <2>1
<1>15. StartsAs(t, s)
  <2> SUFFICES ASSUME s # << >> PROVE t # << >> /\ t[1] = s[1]
    BY DEF StartsAs
  <2>1. N >= 1
    BY <1>1, InList DEF Streams
  <2>2. 1 \in S /\ all[1] = 1 /\ all # << >>
    BY <1>1, <1>3, <1>7, <2>1
  <2>3. firsts # << >> /\ firsts[1] = 1
    BY <1>9, <2>2
  <2>4. Len(firsts) >= 1
    BY <1>9, <2>3
  <2> QED
    BY <1>10, <1>12, <1>13, <2>3, <2>4
<1>16. HasSome(t, s)
  <2>1. s = << >> => t = << >>
    BY <1>1, <1>9, <1>10, <1>12 DEF Streams
  <2> QED
    BY <1>15, <2>1 DEF HasSome, StartsAs
<1>17. HashesOf(t) \subseteq HashesOf(s)
  BY <1>1, <1>10, <1>12, <1>13 DEF HashesOf, Streams
<1>18. HashesOf(s) \subseteq HashesOf(t)
  <2> SUFFICES ASSUME NEW i \in 1 .. N PROVE s[i].hash \in HashesOf(t)
    BY <1>1 DEF HashesOf
  <2>1. PICK Y : Y = {j \in 1 .. N : s[j].hash = s[i].hash}
    OBVIOUS
  <2>2. Y \subseteq Nat /\ Y # {}
    BY <2>1
  <2>3. PICK k \in Y : \A j \in Y : ~(<<j, k>> \in OpToRel(<, Nat))
    BY <2>2, NatLessThanWellFounded, WFMin
  <2>4. \A j \in Y : ~(j < k)
    BY <2>2, <2>3 DEF OpToRel
  <2>k. k \in 1 .. N /\ s[k].hash = s[i].hash
    BY <2>1, <2>3
  <2>5. k \in S
    <3>1. \A j \in 1 .. k - 1 : j \in 1 .. N /\ j < k
      BY <1>1, <2>k
    <3>2. \A j \in 1 .. k - 1 : s[j].hash # s[k].hash
      BY <2>1, <2>4, <2>k, <3>1
    <3> QED
      BY <1>1, <1>3, <2>k, <3>2
  <2>6. PICK n \in 1 .. Len(firsts) : firsts[n] = k
    BY <1>9, <1>10, <2>5 DEF ToSet
  <2>7. t[n].hash = s[i].hash
    BY <1>13, <2>k, <2>6
  <2>8. n \in DOMAIN t
    BY <1>12 DEF Streams
  <2> QED
    BY <2>7, <2>8 DEF HashesOf
<1> QED
  BY <1>1, <1>6, <1>9, <1>12, <1>14, <1>15, <1>16, <1>17, <1>18

\* Of nothing worse is in t than what s has.
NoneWorse(t, s) ==
  \A i \in 1 .. 3 :
    (\E x \in s : x.height \in Acceptable[i]) => \A x \in t : x.height \in Acceptable[i]

\* What the filters leave of the pool.
LEMMA QualityFacts ==
  ASSUME pool \in Streams, wish \in Wish
  PROVE  /\ OfQuality \in Streams /\ HasSome(OfQuality, pool)
         /\ wish.height # 0 => NoneWorse(ToSet(OfQuality), ToSet(pool))
<1>1. PICK q : q = OfQuality
  OBVIOUS
<1>2. PICK E, B, H : /\ E = {s \in Found : s.height = wish.height}
                     /\ B = {s \in Found : s.height \in 1 .. wish.height}
                     /\ H = {s \in Found : s.height > wish.height}
  OBVIOUS
<1>4. PICK e, b, h : e = Select(pool, E) /\ b = Select(pool, B) /\ h = Select(pool, H)
  OBVIOUS
<1>5. q = IF wish.height = 0 THEN pool
          ELSE IF e # << >> THEN e ELSE IF b # << >> THEN b
          ELSE IF h # << >> THEN h ELSE pool
  BY <1>1, <1>2, <1>4 DEF OfQuality
<1>6. /\ e \in Streams /\ ToSet(e) = ToSet(pool) \cap E /\ (e = << >> <=> ToSet(pool) \cap E = {})
      /\ b \in Streams /\ ToSet(b) = ToSet(pool) \cap B /\ (b = << >> <=> ToSet(pool) \cap B = {})
      /\ h \in Streams /\ ToSet(h) = ToSet(pool) \cap H /\ (h = << >> <=> ToSet(pool) \cap H = {})
  BY <1>4, SelectedOf
<1>7. ToSet(pool) \subseteq Found /\ (ToSet(pool) # {} => pool # << >>)
  BY InList DEF Streams
<1>8. q \in Streams
  BY <1>5, <1>6
<1>9. q = << >> <=> pool = << >>
  <2>1. pool = << >> => ToSet(pool) = {}
    BY DEF ToSet
  <2> QED
    BY <1>5, <1>6, <2>1
<1>10. ASSUME wish.height # 0 PROVE NoneWorse(ToSet(q), ToSet(pool))
  <2>1. wish.height \in Nat /\ wish.height # 0 /\ Heights \subseteq Nat
    BY <1>10, RankingAssumption DEF Wish
  <2>2. \A s \in ToSet(pool) : s \in Found /\ s.height \in Heights /\ s.height \in Nat
    BY <1>7, <2>1 DEF Found
  <2>3. /\ Acceptable[1] = {wish.height} /\ Acceptable[2] = 1 .. wish.height
        /\ Acceptable[3] = Heights \ {0}
    BY DEF Acceptable
  <2>4. q = IF e # << >> THEN e ELSE IF b # << >> THEN b ELSE IF h # << >> THEN h ELSE pool
    BY <1>5, <1>10
  <2>5. \A s \in ToSet(e) : s \in ToSet(pool) /\ s.height = wish.height
    BY <1>2, <1>6
  <2>6. \A s \in ToSet(b) : s \in ToSet(pool) /\ s.height \in 1 .. wish.height
    BY <1>2, <1>6
  <2>7. \A s \in ToSet(h) : s \in ToSet(pool) /\ s.height > wish.height
    BY <1>2, <1>6
  <2>8. ASSUME NEW x \in ToSet(pool), x.height = wish.height
        PROVE  \A s \in ToSet(q) : s.height = wish.height
    <3>1. e # << >>
      BY <1>2, <1>6, <2>2, <2>8
    <3> QED
      BY <2>4, <2>5, <3>1
  <2>9. ASSUME NEW x \in ToSet(pool), x.height \in 1 .. wish.height
        PROVE  \A s \in ToSet(q) : s.height \in 1 .. wish.height
    <3>1. b # << >>
      BY <1>2, <1>6, <2>2, <2>9
    <3>2. CASE e # << >>
      BY <2>1, <2>4, <2>5, <3>2
    <3> QED
      BY <2>4, <2>6, <3>1, <3>2
  <2>10. ASSUME NEW x \in ToSet(pool), x.height \in Heights \ {0}
         PROVE  \A s \in ToSet(q) : s.height \in Heights \ {0}
    <3>1. CASE e # << >> \/ b # << >>
      <4>1. \A s \in ToSet(q) : s \in ToSet(pool) /\ s.height \in 1 .. wish.height
        BY <2>1, <2>4, <2>5, <2>6, <3>1
      <4> QED
        BY <2>2, <4>1
    <3>2. CASE e = << >> /\ b = << >>
      <4>1. x.height # wish.height /\ x.height \notin 1 .. wish.height
        BY <1>2, <1>6, <2>2, <3>2
      <4>2. x.height > wish.height
        BY <2>1, <2>2, <2>10, <4>1
      <4>3. h # << >>
        BY <1>2, <1>6, <2>2, <4>2
      <4> QED
        BY <2>1, <2>2, <2>4, <2>7, <3>2, <4>3
    <3> QED
      BY <3>1, <3>2
  <2> QED
    <3> SUFFICES ASSUME NEW i \in 1 .. 3, NEW x \in ToSet(pool), x.height \in Acceptable[i]
                 PROVE  \A s \in ToSet(q) : s.height \in Acceptable[i]
      BY DEF NoneWorse
    <3>1. i = 1 \/ i = 2 \/ i = 3
      OBVIOUS
    <3> QED
      BY <2>3, <2>8, <2>9, <2>10, <3>1
<1> QED
  BY <1>1, <1>8, <1>9, <1>10 DEF HasSome

\* The default MP4s are healthy MP4s of that quality.
Mp4s == {s \in Found : s.mp4 /\ Healthy(s)}

LEMMA DefaultFacts ==
  ASSUME OfQuality \in Streams
  PROVE  DefaultMp4s \in Streams /\ ToSet(DefaultMp4s) \subseteq ToSet(OfQuality) \cap Mp4s
<1>1. PICK good : good = Select(OfQuality, Mp4s)
  OBVIOUS
<1>2. good \in Streams /\ ToSet(good) = ToSet(OfQuality) \cap Mp4s
  BY <1>1, SelectedOf
<1>3. PICK A : A = ToSet(good)
  OBVIOUS
<1>4. A \subseteq Found /\ good \in Seq(A)
  <2>1. A \subseteq Found
    BY <1>2, <1>3, InList DEF Streams
  <2>2. \A i \in 1 .. Len(good) : good[i] \in A
    BY <1>2, <1>3, InList DEF Streams
  <2> QED
    BY <1>2, <2>1, <2>2 DEF Streams
<1>5. PICK before : before = {p \in A \X A : p[1].height > p[2].height}
  OBVIOUS
<1>6. Orders(before, A)
  <2>1. \A x \in A : x.height \in Nat
    BY <1>4, RankingAssumption DEF Found
  <2>2. \A x, y \in A : <<x, y>> \in before <=> x.height > y.height
    BY <1>5
  <2> QED
    BY <2>1, <2>2 DEF Orders
<1>7. DefaultMp4s = Sorted(good, before)
  BY <1>1, <1>3, <1>5 DEF DefaultMp4s, Mp4s
<1>8. PICK d : d = DefaultMp4s
  OBVIOUS
<1>9. d \in Seq(A) /\ ToSet(d) \subseteq A
  BY <1>3, <1>4, <1>6, <1>7, <1>8, SortedFacts
<1>10. d \in Streams
  BY <1>4, <1>9 DEF Streams
<1> QED
  BY <1>2, <1>3, <1>8, <1>9, <1>10

\* What is left of the pinned torrent comes first.
LEMMA PrioritizedFacts ==
  ASSUME OfQuality \in Streams, wish \in Wish
  PROVE  /\ Prioritized \in Streams /\ Len(Prioritized) <= wish.limit
         /\ HasSome(Prioritized, OfQuality) /\ ToSet(Prioritized) \subseteq ToSet(OfQuality)
         /\ wish.pinned \in HashesOf(OfQuality) => Prioritized[1].hash = wish.pinned
<1>1. PICK q : q = OfQuality
  OBVIOUS
<1>2. PICK base : base = Unique(Take(q))
  OBVIOUS
<1>3. PICK is : is = {s \in Found : s.hash = wish.pinned}
  OBVIOUS
<1>4. PICK left, own, rest, head :
        /\ left = Select(Unique(q), is) /\ own = Select(base, is) /\ rest = Select(base, Found \ is)
        /\ head = Select(IF own # << >> THEN base ELSE left, is)
  OBVIOUS
<1>5. q \in Streams
  BY <1>1
<1>6. /\ Take(q) \in Streams /\ Len(Take(q)) <= wish.limit
      /\ ToSet(Take(q)) \subseteq ToSet(q) /\ HasSome(Take(q), q)
  BY <1>5, TakeFacts
<1>7. base \in Streams /\ ToSet(base) \subseteq ToSet(q) /\ HasSome(base, q)
  BY <1>2, <1>6, UniqueFacts DEF HasSome
<1>8. /\ Unique(q) \in Streams /\ ToSet(Unique(q)) \subseteq ToSet(q)
      /\ HashesOf(Unique(q)) = HashesOf(q)
  BY <1>5, UniqueFacts
<1>9. left \in Streams /\ ToSet(left) = ToSet(Unique(q)) \cap is
  BY <1>4, <1>8, SelectedOf
<1>10. own \in Streams /\ ToSet(own) = ToSet(base) \cap is /\ (own = << >> <=> ToSet(base) \cap is = {})
  BY <1>4, <1>7, SelectedOf
<1>11. /\ rest \in Streams /\ ToSet(rest) = ToSet(base) \cap (Found \ is)
       /\ (rest = << >> <=> ToSet(base) \cap (Found \ is) = {})
  BY <1>4, <1>7, SelectedOf
<1>12. PICK x : x = IF own # << >> THEN base ELSE left
  OBVIOUS
<1>13. x \in Streams /\ ToSet(x) \subseteq ToSet(q)
  BY <1>7, <1>8, <1>9, <1>12
<1>14. /\ head \in Streams /\ ToSet(head) = ToSet(x) \cap is
       /\ (head = << >> <=> ToSet(x) \cap is = {})
  BY <1>4, <1>12, <1>13, SelectedOf
<1>15. PICK both : both = head \o rest
  OBVIOUS
<1>16. /\ both \in Streams /\ ToSet(both) = ToSet(head) \cup ToSet(rest) /\ StartsAs(both, head)
       /\ both = << >> <=> head = << >> /\ rest = << >>
  BY <1>11, <1>14, <1>15, Joined
<1>17. /\ Take(both) \in Streams /\ Len(Take(both)) <= wish.limit
       /\ ToSet(Take(both)) \subseteq ToSet(both) /\ HasSome(Take(both), both)
       /\ StartsAs(Take(both), both)
  BY <1>16, TakeFacts
<1>18. Prioritized = IF wish.pinned = NoTorrent THEN Take(q) ELSE Take(both)
  BY <1>1, <1>2, <1>3, <1>4, <1>15 DEF Prioritized
<1>19. HasSome(both, q)
  <2>1. CASE q = << >>
    <3>1. ToSet(q) = {}
      BY <2>1 DEF ToSet
    <3> QED
      BY <2>1, <1>7, <1>11, <1>13, <1>14, <1>16, <3>1 DEF HasSome
  <2>2. CASE q # << >>
    <3>1. base # << >>
      BY <1>7, <2>2 DEF HasSome
    <3>2. base[1] \in ToSet(base) /\ base[1] \in Found
      BY <1>7, <3>1, InList DEF Streams
    <3>3. CASE base[1] \in is
      <4>1. own # << >>
        BY <1>10, <3>2, <3>3
      <4>2. head # << >>
        BY <1>12, <1>14, <3>2, <3>3, <4>1
      <4> QED
        BY <1>16, <2>2, <4>2 DEF HasSome
    <3>4. CASE base[1] \notin is
      <4>1. rest # << >>
        BY <1>11, <3>2, <3>4
      <4> QED
        BY <1>16, <2>2, <4>1 DEF HasSome
    <3> QED
      BY <3>3, <3>4
  <2> QED
    BY <2>1, <2>2
<1>20. ASSUME wish.pinned \in HashesOf(q)
       PROVE  head # << >> /\ head[1].hash = wish.pinned
  <2>1. PICK u : u = Unique(q)
    OBVIOUS
  <2>2. PICK i \in DOMAIN u : u[i].hash = wish.pinned
    BY <1>8, <1>20, <2>1 DEF HashesOf
  <2>3. u[i] \in ToSet(u) /\ ToSet(u) \subseteq Found
    BY <1>8, <2>1, <2>2, InList DEF ToSet, Streams
  <2>4. u[i] \in is
    BY <1>3, <2>2, <2>3
  <2>5. head # << >>
    <3>1. CASE own # << >>
      BY <1>10, <1>12, <1>14, <3>1
    <3>2. CASE own = << >>
      <4>1. u[i] \in ToSet(left)
        BY <1>9, <2>1, <2>3, <2>4
      <4> QED
        BY <1>12, <1>14, <2>4, <3>2, <4>1
    <3> QED
      BY <3>1, <3>2
  <2>6. head[1] \in ToSet(head)
    BY <1>14, <2>5, InList DEF Streams
  <2> QED
    BY <1>3, <1>14, <2>5, <2>6
<1>21. Prioritized \in Streams /\ Len(Prioritized) <= wish.limit
  BY <1>6, <1>17, <1>18
<1>22. ToSet(Prioritized) \subseteq ToSet(q)
  BY <1>6, <1>7, <1>11, <1>13, <1>14, <1>16, <1>17, <1>18
<1>23. HasSome(Prioritized, q)
  BY <1>6, <1>17, <1>18, <1>19 DEF HasSome
<1>24. ASSUME wish.pinned \in HashesOf(q) PROVE Prioritized[1].hash = wish.pinned
  <2>1. wish.pinned \in Torrent
    <3>1. PICK i \in DOMAIN q : q[i].hash = wish.pinned
      BY <1>24 DEF HashesOf
    <3>2. q[i] \in Found
      BY <1>5, <3>1 DEF Streams
    <3> QED
      BY <3>1, <3>2 DEF Found
  <2>2. wish.pinned # NoTorrent
    BY <2>1, RankingAssumption
  <2>3. both # << >> /\ both[1] = head[1] /\ head[1].hash = wish.pinned
    BY <1>16, <1>20, <1>24 DEF StartsAs
  <2>4. Take(both)[1] = both[1]
    BY <1>17, <2>3 DEF StartsAs
  <2>5. Prioritized = Take(both)
    BY <1>18, <2>2
  <2> QED
    BY <2>3, <2>4, <2>5
<1> QED
  BY <1>1, <1>21, <1>22, <1>23, <1>24

\* An MP4 may take the last one's place.
LEMMA WithMp4Facts ==
  ASSUME NEW list \in Streams, DefaultMp4s \in Streams, ToSet(DefaultMp4s) \subseteq Mp4s
  PROVE  /\ WithMp4(list) \in Streams /\ Len(WithMp4(list)) = Len(list)
         /\ HasSome(WithMp4(list), list)
         /\ ToSet(WithMp4(list)) \subseteq ToSet(list) \cup ToSet(DefaultMp4s)
         /\ list # << >> => \/ WithMp4(list)[1] = list[1]
                            \/ WithMp4(list)[1].mp4 /\ Len(list) = 1
<1>1. PICK d : d = DefaultMp4s
  OBVIOUS
<1>2. PICK n \in Nat : n = Len(list) /\ DOMAIN list = 1 .. n
  BY DEF Streams
<1>3. PICK w : w = WithMp4(list)
  OBVIOUS
<1>4. CASE w = list
  BY <1>3, <1>4 DEF HasSome
<1>5. CASE w # list
  <2>1. list # << >> /\ d # << >> /\ w = [list EXCEPT ![Len(list)] = Head(d)]
    BY <1>1, <1>3, <1>5 DEF WithMp4
  <2>2. n >= 1
    BY <1>2, <2>1, InList DEF Streams
  <2>3. PICK e : e = Head(d)
    OBVIOUS
  <2>4. e = d[1] /\ e \in ToSet(d) /\ e \in Found /\ e.mp4
    <3>1. d \in Seq(Found) /\ d # << >>
      BY <1>1, <2>1 DEF Streams
    <3>2. Head(d) = d[1]
      BY <3>1
    <3>3. d[1] \in ToSet(d) /\ ToSet(d) \subseteq Found
      BY <3>1, InList
    <3> QED
      BY <1>1, <2>3, <3>2, <3>3 DEF Mp4s
  <2>5. w = [i \in 1 .. n |-> IF i = n THEN e ELSE list[i]]
    BY <1>2, <2>1, <2>3
  <2>6. \A i \in 1 .. n : list[i] \in Found
    BY <1>2 DEF Streams
  <2>7. w \in Streams /\ Len(w) = n
    BY <2>4, <2>5, <2>6 DEF Streams
  <2>8. w # << >>
    BY <2>2, <2>7
  <2>9. ToSet(w) \subseteq ToSet(list) \cup ToSet(d)
    <3>1. ToSet(w) = {w[i] : i \in 1 .. n} /\ ToSet(list) = {list[i] : i \in 1 .. n}
      BY <1>2, <2>7, InList DEF Streams
    <3> QED
      BY <2>4, <2>5, <3>1
  <2>10. w[1] = list[1] \/ (w[1].mp4 /\ n = 1)
    BY <2>2, <2>4, <2>5
  <2> QED
    BY <1>1, <1>2, <1>3, <2>1, <2>7, <2>8, <2>9, <2>10 DEF HasSome
<1> QED
  BY <1>4, <1>5

\* And the MP4s come first.
LEMMA Mp4FirstFacts ==
  ASSUME NEW list \in Streams, wish \in Wish, Len(list) <= wish.limit,
         DefaultMp4s \in Streams, ToSet(DefaultMp4s) \subseteq Mp4s
  PROVE  /\ Mp4First(list) \in Streams /\ Len(Mp4First(list)) <= wish.limit
         /\ HasSome(Mp4First(list), list)
         /\ ToSet(Mp4First(list)) \subseteq ToSet(list) \cup ToSet(DefaultMp4s)
         /\ wish.pinned # NoTorrent => Mp4First(list) = list
         /\ wish.pinned = NoTorrent /\ list # << >> /\ DefaultMp4s # << >> =>
              Mp4First(list)[1] \in Mp4s
<1>1. PICK d : d = DefaultMp4s
  OBVIOUS
<1>2. CASE wish.pinned # NoTorrent \/ list = << >>
  BY <1>2 DEF Mp4First, HasSome
<1>3. CASE ~(wish.pinned # NoTorrent \/ list = << >>) /\ d = << >>
  <2>1. PICK S, T : S = {s \in Found : s.mp4} /\ T = {s \in Found : ~s.mp4}
    OBVIOUS
  <2>2. PICK a, b, c : a = Select(list, S) /\ b = Select(list, T) /\ c = a \o b
    OBVIOUS
  <2>3. Mp4First(list) = c
    BY <1>1, <1>3, <2>1, <2>2 DEF Mp4First, Mp4ToFront
  <2>4. /\ a \in Streams /\ b \in Streams /\ ToSet(a) = ToSet(list) \cap S
        /\ ToSet(b) = ToSet(list) \cap T
    BY <2>2, SelectedOf
  <2>5. c \in Streams /\ ToSet(c) = ToSet(a) \cup ToSet(b)
    BY <2>2, <2>4, Joined
  <2>6. \A s \in Found : s \in S <=> s \notin T
    BY <2>1
  <2>7. Len(a) + Len(b) = Len(list)
    BY <2>2, <2>6, SelectSplits DEF Streams
  <2>8. Len(c) = Len(a) + Len(b)
    BY <2>2, <2>4, ConcatProperties DEF Streams
  <2>9. c # << >>
    <3>1. Len(list) >= 1
      BY <1>3, InList DEF Streams
    <3>2. Len(<< >>) = 0
      OBVIOUS
    <3> QED
      BY <2>7, <2>8, <3>1, <3>2
  <2> QED
    BY <1>1, <1>3, <2>3, <2>4, <2>5, <2>7, <2>8, <2>9 DEF HasSome
<1>4. CASE ~(wish.pinned # NoTorrent \/ list = << >>) /\ d # << >>
  <2>1. PICK j, u, t : j = d \o list /\ u = Unique(j) /\ t = Take(u)
    OBVIOUS
  <2>2. Mp4First(list) = t
    BY <1>1, <1>4, <2>1 DEF Mp4First
  <2>3. /\ j \in Streams /\ ToSet(j) = ToSet(d) \cup ToSet(list) /\ StartsAs(j, d)
    BY <1>1, <2>1, Joined
  <2>4. u \in Streams /\ ToSet(u) \subseteq ToSet(j) /\ StartsAs(u, j)
    BY <2>1, <2>3, UniqueFacts
  <2>5. /\ t \in Streams /\ Len(t) <= wish.limit /\ ToSet(t) \subseteq ToSet(u)
        /\ StartsAs(t, u)
    BY <2>1, <2>4, TakeFacts
  <2>6. t # << >> /\ t[1] = d[1]
    BY <1>4, <2>3, <2>4, <2>5 DEF StartsAs
  <2>7. d[1] \in Mp4s
    BY <1>1, <1>4, InList DEF Streams
  <2> QED
    BY <1>1, <1>4, <2>2, <2>3, <2>4, <2>5, <2>6, <2>7 DEF HasSome
<1> QED
  BY <1>2, <1>3, <1>4

\* In every state, whatever the pool and the wish.
LEMMA RankedSound ==
  ASSUME pool \in Streams, wish \in Wish
  PROVE  Sound(Ranked)
<1>1. PICK q, d, p, w : q = OfQuality /\ d = DefaultMp4s /\ p = Prioritized /\ w = WithMp4(p)
  OBVIOUS
<1>2. PICK r : r = Ranked
  OBVIOUS
<1>3. PICK f : f = Mp4First(w)
  OBVIOUS
<1>4. r = IF wish.mp4 THEN f ELSE p
  BY <1>1, <1>2, <1>3 DEF Ranked
<1>5. /\ q \in Streams /\ HasSome(q, pool)
      /\ wish.height # 0 => NoneWorse(ToSet(q), ToSet(pool))
  BY <1>1, QualityFacts
<1>6. d \in Streams /\ ToSet(d) \subseteq ToSet(q) /\ ToSet(d) \subseteq Mp4s
  BY <1>1, <1>5, DefaultFacts
<1>7. /\ p \in Streams /\ Len(p) <= wish.limit
      /\ HasSome(p, q) /\ ToSet(p) \subseteq ToSet(q)
      /\ wish.pinned \in HashesOf(q) => p[1].hash = wish.pinned
  BY <1>1, <1>5, PrioritizedFacts
<1>8. /\ w \in Streams /\ Len(w) = Len(p) /\ HasSome(w, p)
      /\ ToSet(w) \subseteq ToSet(p) \cup ToSet(d)
      /\ p # << >> => w[1] = p[1] \/ (w[1].mp4 /\ Len(p) = 1)
  BY <1>1, <1>6, <1>7, WithMp4Facts
<1>9. /\ f \in Streams /\ Len(f) <= wish.limit /\ HasSome(f, w)
      /\ ToSet(f) \subseteq ToSet(w) \cup ToSet(d)
      /\ wish.pinned # NoTorrent => f = w
      /\ wish.pinned = NoTorrent /\ w # << >> /\ d # << >> => f[1] \in Mp4s
  BY <1>1, <1>3, <1>6, <1>7, <1>8, Mp4FirstFacts
<1>10. r \in Streams /\ Len(r) <= wish.limit
  BY <1>4, <1>7, <1>9
<1>11. r = << >> <=> pool = << >>
  BY <1>4, <1>5, <1>7, <1>8, <1>9 DEF HasSome
<1>12. ToSet(r) \subseteq ToSet(q)
  BY <1>4, <1>6, <1>7, <1>8, <1>9
<1>13. Range(pool) = ToSet(pool) /\ Range(r) = ToSet(r)
  BY DEF Range, ToSet
<1>14. r # << >> => Head(r) = r[1]
  BY <1>10 DEF Streams
<1>15. wish.height # 0 =>
         \A i \in 1 .. 3 :
           (\E s \in Range(pool) : s.height \in Acceptable[i]) =>
             \A s \in Range(r) : s.height \in Acceptable[i]
  BY <1>5, <1>12, <1>13 DEF NoneWorse
<1>16. ASSUME wish.pinned \in HashesOf(q)
       PROVE  Head(r).hash = wish.pinned \/ (wish.mp4 /\ Head(r).mp4 /\ Len(r) = 1)
  <2>1. wish.pinned # NoTorrent /\ q # << >>
    <3>1. PICK i \in DOMAIN q : q[i].hash = wish.pinned
      BY <1>16 DEF HashesOf
    <3>2. q[i] \in Found /\ q # << >>
      BY <1>5, <3>1 DEF Streams
    <3>3. wish.pinned \in Torrent
      BY <3>1, <3>2 DEF Found
    <3> QED
      BY <3>2, <3>3, RankingAssumption
  <2>2. p # << >> /\ r # << >> /\ Head(r) = r[1]
    BY <1>5, <1>7, <1>11, <1>14, <2>1 DEF HasSome
  <2>3. f = w /\ p[1].hash = wish.pinned
    BY <1>7, <1>9, <1>16, <2>1
  <2>4. CASE wish.mp4
    BY <1>4, <1>8, <2>2, <2>3, <2>4
  <2>5. CASE ~wish.mp4
    BY <1>4, <2>2, <2>3, <2>5
  <2> QED
    BY <2>4, <2>5
<1>17. ASSUME wish.pinned = NoTorrent, wish.mp4, d # << >>
       PROVE  Head(r).mp4 /\ Healthy(Head(r))
  <2>1. q # << >>
    <3>1. d[1] \in ToSet(q)
      BY <1>6, <1>17, InList DEF Streams
    <3> QED
      BY <3>1 DEF ToSet
  <2>2. w # << >> /\ r # << >> /\ Head(r) = r[1]
    BY <1>5, <1>7, <1>8, <1>11, <1>14, <2>1 DEF HasSome
  <2>3. r[1] \in Mp4s
    BY <1>4, <1>9, <1>17, <2>2
  <2> QED
    BY <2>2, <2>3 DEF Mp4s
<1> QED
  BY <1>1, <1>2, <1>10, <1>11, <1>15, <1>16, <1>17 DEF Sound

(***************************************************************************)
(* The pool is a list of what was found, of at most MaxPool streams.       *)
(***************************************************************************)
RankIInv == pool \in Streams /\ Len(pool) <= MaxPool /\ wish \in Wish

LEMMA RankInvInit == RankInit => RankIInv
<1> SUFFICES ASSUME RankInit PROVE RankIInv
  OBVIOUS
<1>1. << >> \in Streams /\ Len(<< >>) = 0
  BY DEF Streams
<1> QED
  BY <1>1, RankingAssumption DEF RankInit, RankIInv

LEMMA RankInvStep == RankIInv /\ [RankNext]_rankVars => RankIInv'
<1> SUFFICES ASSUME RankIInv, [RankNext]_rankVars PROVE RankIInv'
  OBVIOUS
<1>1. CASE UNCHANGED rankVars
  BY <1>1 DEF RankIInv, rankVars
<1>2. ASSUME NEW s \in Found, Discover(s) PROVE RankIInv'
  <2>1. pool \in Streams /\ Len(pool) < MaxPool /\ pool' = Append(pool, s) /\ wish' = wish
    BY <1>2 DEF RankIInv, Discover
  <2>2. PICK a, b : a = pool /\ b = Append(a, s)
    OBVIOUS
  <2>3. b \in Streams /\ Len(b) = Len(a) + 1 /\ Len(a) \in Nat
    BY <2>1, <2>2, AppendProperties DEF Streams
  <2>4. pool' = b
    BY <2>1, <2>2
  <2>5. Len(b) <= MaxPool
    BY <2>1, <2>2, <2>3, RankingAssumption
  <2>6. wish' \in Wish
    BY <2>1 DEF RankIInv
  <2> QED
    BY <2>3, <2>4, <2>5, <2>6 DEF RankIInv
<1> QED
  BY <1>1, <1>2 DEF RankNext

LEMMA RankInvSound == RankIInv => PickSound
<1> SUFFICES ASSUME RankIInv PROVE PickSound
  OBVIOUS
<1>1. Sound(Ranked)
  BY RankedSound DEF RankIInv
<1>2. Range(pool) \subseteq Found
  BY InList DEF RankIInv, Streams, Range, ToSet
<1> QED
  BY <1>1, <1>2 DEF RankIInv, PickSound, RankTypeOK

\* PickSound: whatever was found and whatever is asked for,
\* select_top_movie_candidates and select_top_episode_candidates try something
\* if there is anything, never more than the limit, of the wanted resolution
\* if that exists, the pinned torrent first and otherwise a healthy MP4.
THEOREM RankSafe == RankSpec => []PickSound
<1>1. RankSpec => []RankIInv
  BY RankInvInit, RankInvStep, PTL DEF RankSpec
<1> QED
  BY <1>1, RankInvSound, PTL
===============================================================================
