------------------------- MODULE EmbedResolveProofs -------------------------
(***************************************************************************)
(* Proofs about EmbedResolve, for any titles, lock keys, requests, number  *)
(* of providers and of permits.  EmbedInv is inductive.  The locks and     *)
(* the history of a refresh concern one request at a time, so a step of r  *)
(* is shown to keep RequestInv(r), and Others carries RequestInv over to   *)
(* everybody else: all they see of the step is the cache.                  *)
(***************************************************************************)
EXTENDS EmbedResolve, FiniteSetTheorems, TLAPS

\* The permit and its counters, which the other variables do not depend on.
Counted ==
  /\ free \in Nat
  /\ ext \in [active : Int, started : Nat, completed : Nat, failed : Nat]

Counters == <<free, ext>>

LEMMA CountersStep ==
  ASSUME Counted,
         \/ TakePermit
         \/ DropPermit(TRUE) \/ DropPermit(FALSE)
         \/ UNCHANGED Counters
  PROVE  Counted'
<1> DEFINE C == [active : Int, started : Nat, completed : Nat, failed : Nat]
<1>c. ext \in C /\ free \in Nat
  BY DEF Counted
<1>n. /\ ext.active + 1 \in Int /\ ext.active - 1 \in Int
      /\ ext.started + 1 \in Nat /\ ext.completed + 1 \in Nat
      /\ ext.failed + 1 \in Nat
  BY <1>c
<1>1. CASE TakePermit
  <2>1. ext' = [ext EXCEPT !.active = ext.active + 1, !.started = ext.started + 1]
    BY <1>1 DEF TakePermit
  <2>2. ext' \in C
    BY <2>1, <1>c, <1>n
  <2>3. free' \in Nat
    BY <1>1, <1>c DEF TakePermit
  <2> QED
    BY <2>2, <2>3 DEF Counted
<1>2. CASE DropPermit(TRUE)
  <2>1. ext' = [ext EXCEPT !.active = ext.active - 1,
                           !.completed = ext.completed + 1,
                           !.failed = ext.failed]
    BY <1>2 DEF DropPermit
  <2>2. ext' \in C
    BY <2>1, <1>c, <1>n
  <2>3. free' \in Nat
    BY <1>2, <1>c DEF DropPermit
  <2> QED
    BY <2>2, <2>3 DEF Counted
<1>3. CASE DropPermit(FALSE)
  <2>1. ext' = [ext EXCEPT !.active = ext.active - 1,
                           !.completed = ext.completed,
                           !.failed = ext.failed + 1]
    BY <1>3 DEF DropPermit
  <2>2. ext' \in C
    BY <2>1, <1>c, <1>n
  <2>3. free' \in Nat
    BY <1>3, <1>c DEF DropPermit
  <2> QED
    BY <2>2, <2>3 DEF Counted
<1>4. CASE UNCHANGED Counters
  BY <1>4 DEF Counted, Counters
<1> QED
  BY <1>1, <1>2, <1>3, <1>4

\* TypeOK without the counters.
Typed ==
  /\ req \in [Request -> RequestRecord]
  /\ lock \in [LockKey -> Request \cup {None}]
  /\ cache \in [Title -> EntryRecord]
  /\ current \in [Title -> Nat]
  /\ stores \in Nat

LEMMA TypeSplit == TypeOK <=> Typed /\ Counted
  BY DEF TypeOK, Typed, Counted

(***************************************************************************)
(* What a step may do to the entry of t, as a refresh sees it that has     *)
(* evicted before: keep it, take it away, or store a new one under a lock  *)
(* key other than k.                                                       *)
(***************************************************************************)
EntryStep(t, k) ==
  Kept(cache', t) =>
    \/ /\ Kept(cache, t)
       /\ cache'[t].at = cache[t].at /\ cache'[t].by = cache[t].by
    \/ cache'[t].at > stores /\ cache'[t].by # k

\* A step that is not one of s keeps RequestInv(s).
LEMMA Others ==
  ASSUME Typed, stores' \in Nat, stores <= stores',
         NEW s \in Request, RequestInv(s), req'[s] = req[s],
         \A k \in LockKey : lock'[k] = s <=> lock[k] = s,
         \A t \in Title : cache'[t] \in EntryRecord,
         req[s].pc \in Inside => EntryStep(T(s), req[s].key)
  PROVE  RequestInv(s)'
<1> USE EmbedAssumption
<1>t. req[s] \in RequestRecord
  BY DEF Typed
<1>m. req[s].mark \in Nat
  BY <1>t DEF RequestRecord
<1>1. LockHeld(s)'
  BY DEF RequestInv, LockHeld
<1>2. RequestOK(s)'
  BY <1>m DEF RequestInv, RequestOK, Typed
<1>3. RaceComplete(s)'
  BY DEF RequestInv, RaceComplete, Launched, Field, Pins
<1>4. SinceEvicted(s)'
  <2> SUFFICES ASSUME Refreshing(s)', Kept(cache', T(s)')
               PROVE  /\ cache'[T(s)].at > req[s].mark
                      /\ cache'[T(s)].by # req[s].key
    BY DEF SinceEvicted, T
  <2>1. Refreshing(s) /\ req[s].pc \in Inside /\ T(s)' = T(s)
    BY DEF Refreshing, Inside, Phase, T
  <2>2. T(s) \in Title
    BY <2>1 DEF RequestInv, RequestOK, T
  <2>3. EntryStep(T(s), req[s].key)
    BY <2>1
  <2>4. CASE /\ Kept(cache, T(s))
             /\ cache'[T(s)].at = cache[T(s)].at
             /\ cache'[T(s)].by = cache[T(s)].by
    BY <2>1, <2>4 DEF RequestInv, SinceEvicted
  <2>5. CASE cache'[T(s)].at > stores /\ cache'[T(s)].by # req[s].key
    <3>1. req[s].mark <= stores
      BY DEF RequestInv, RequestOK
    <3>2. cache'[T(s)].at \in Nat
      BY <2>2 DEF EntryRecord
    <3> QED
      BY <2>5, <3>1, <3>2, <1>m DEF Typed
  <2> QED
    BY <2>1, <2>3, <2>4, <2>5 DEF EntryStep
<1>5. Guarded(s)'
  BY DEF RequestInv, Guarded
<1> QED
  BY <1>1, <1>2, <1>3, <1>4, <1>5 DEF RequestInv

LEMMA SameEntry ==
  ASSUME UNCHANGED cache, NEW t, NEW k
  PROVE  EntryStep(t, k)
  BY DEF EntryStep, Kept

\* A step of r: what remains to be shown is RequestInv(r)'.
LEMMA StepOf ==
  ASSUME EmbedInv, Counted', NEW r \in Request, Typed', stores <= stores',
         \A s \in Request \ {r} : req'[s] = req[s],
         \A s \in Request \ {r}, k \in LockKey : lock'[k] = s <=> lock[k] = s,
         \A s \in Request \ {r} :
           req[s].pc \in Inside => EntryStep(T(s), req[s].key),
         RequestInv(r)'
  PROVE  EmbedInv'
<1>1. Typed /\ stores' \in Nat /\ \A t \in Title : cache'[t] \in EntryRecord
  BY TypeSplit DEF EmbedInv, Typed
<1>2. ASSUME NEW s \in Request, s # r
      PROVE  RequestInv(s)'
  <2>1. RequestInv(s) /\ req'[s] = req[s]
    BY <1>2 DEF EmbedInv
  <2>2. \A k \in LockKey : lock'[k] = s <=> lock[k] = s
    BY <1>2
  <2>3. req[s].pc \in Inside => EntryStep(T(s), req[s].key)
    BY <1>2
  <2> QED
    BY <1>1, <2>1, <2>2, <2>3, Others
<1>3. TypeOK'
  BY TypeSplit DEF TypeOK, Typed, Counted
<1> QED
  BY <1>2, <1>3 DEF EmbedInv

\* What EmbedInv says of the request at hand.
LEMMA At ==
  ASSUME EmbedInv, NEW r \in Request
  PROVE  /\ Typed /\ Counted /\ RequestInv(r) /\ req[r] \in RequestRecord
         /\ req[r].pc \in Inside => T(r) \in Title
<1>1. Typed /\ Counted /\ RequestInv(r)
  BY TypeSplit DEF EmbedInv
<1>2. req[r] \in RequestRecord
  BY <1>1 DEF Typed
<1>3. req[r].pc \in Inside => T(r) \in Title
  BY <1>1, EmbedAssumption DEF RequestInv, RequestOK, T
<1> QED
  BY <1>1, <1>2, <1>3

LEMMA PcType ==
  ASSUME NEW q \in RequestRecord, NEW p \in Phase
  PROVE  [q EXCEPT !.pc = p] \in RequestRecord
  BY DEF RequestRecord

(***************************************************************************)
(* Walk: a step that does no more to these variables than move r on, and   *)
(* neither into the race nor back to the cache.                            *)
(***************************************************************************)
LEMMA Walk ==
  ASSUME EmbedInv, Counted', NEW r \in Request,
         NEW p \in Inside \ {"race", "lost"},
         req[r].pc \in Inside \ {"tracks"},
         p \in Early => req[r].pc \in Early,
         p \in {"look", "permit", "build"} =>
           req[r].pc \in {"look", "permit"} \/ ~req[r].refresh,
         Goto(r, p), UNCHANGED <<lock, cache, current, stores>>
  PROVE  EmbedInv'
<1> USE EmbedAssumption
<1>1. /\ Typed /\ Counted /\ RequestInv(r) /\ req[r] \in RequestRecord
      /\ T(r) \in Title
  BY At
<1>p. p \in Phase
  BY DEF Inside
<1>2. req'[r] = [req[r] EXCEPT !.pc = p]
  BY <1>1 DEF Goto, Typed
<1>3. \A s \in Request \ {r} : req'[s] = req[s]
  BY <1>1 DEF Goto, Typed
<1>4. req'[r] \in RequestRecord
  BY <1>1, <1>2, <1>p, PcType
<1>5. req' \in [Request -> RequestRecord]
  BY <1>1, <1>4, <1>p, PcType DEF Goto, Typed
<1>6. Typed'
  BY <1>1, <1>5 DEF Typed
<1>7. /\ req'[r].pc = p /\ req'[r].key = req[r].key
      /\ req'[r].refresh = req[r].refresh /\ req'[r].rd = req[r].rd
      /\ req'[r].flying = req[r].flying /\ req'[r].failed = req[r].failed
      /\ req'[r].hit = req[r].hit /\ req'[r].mark = req[r].mark
  BY <1>1, <1>2 DEF RequestRecord
<1>8. LockHeld(r)'
  BY <1>1, <1>7 DEF RequestInv, LockHeld
<1>9. req[r].hit = NoEntry
  BY <1>1 DEF RequestInv, RequestOK
<1>10. RequestOK(r)' /\ Guarded(r)'
  BY <1>1, <1>7, <1>9 DEF RequestInv, RequestOK, Guarded
<1>11. RaceComplete(r)'
  BY <1>1, <1>7 DEF RequestInv, RaceComplete, Launched
<1>12. SinceEvicted(r)'
  BY <1>1, <1>7 DEF RequestInv, SinceEvicted, Refreshing, Kept, T
<1>13. RequestInv(r)'
  BY <1>8, <1>10, <1>11, <1>12 DEF RequestInv
<1>14. stores <= stores'
  BY <1>1 DEF Typed
<1> QED
  BY <1>3, <1>6, <1>13, <1>14, SameEntry, StepOf

\* The request ends, whatever it was at.
LEMMA Ended ==
  ASSUME EmbedInv, Counted', NEW r \in Request, Ends(r),
         UNCHANGED <<cache, current, stores>>
  PROVE  EmbedInv'
<1> USE EmbedAssumption
<1>1. Typed /\ Counted /\ RequestInv(r) /\ req[r] \in RequestRecord
  BY At
<1> DEFINE D == [Blank EXCEPT !.pc = "done"]
<1>2. /\ D.pc = "done" /\ D.hit = NoEntry /\ D.refresh = FALSE /\ D.mark = 0
      /\ D \in RequestRecord
  BY DEF Blank, NoEntry, RequestRecord, EntryRecord, Phase
<1>3. req' = [req EXCEPT ![r] = D]
  BY DEF Ends
<1> HIDE DEF D
<1>4. req'[r] = D /\ \A s \in Request \ {r} : req'[s] = req[s]
  BY <1>1, <1>3 DEF Typed
<1>5. req' \in [Request -> RequestRecord]
  BY <1>1, <1>2, <1>3 DEF Typed
<1>6. lock' \in [LockKey -> Request \cup {None}]
  BY <1>1 DEF Ends, Typed
<1>7. \A k \in LockKey : /\ lock'[k] # r
                         /\ \A s \in Request \ {r} : lock'[k] = s <=> lock[k] = s
  BY <1>1 DEF Ends, Typed
<1>8. Typed'
  BY <1>1, <1>5, <1>6 DEF Typed
<1>9. LockHeld(r)'
  BY <1>2, <1>4, <1>7 DEF LockHeld, Inside
<1>10. RequestOK(r)' /\ RaceComplete(r)' /\ SinceEvicted(r)' /\ Guarded(r)'
  BY <1>1, <1>2, <1>4
  DEF RequestOK, RaceComplete, SinceEvicted, Refreshing, Guarded, Inside, Early, Typed
<1>11. RequestInv(r)'
  BY <1>9, <1>10 DEF RequestInv
<1>12. stores <= stores'
  BY <1>1 DEF Typed
<1> QED
  BY <1>4, <1>7, <1>8, <1>11, <1>12, SameEntry, StepOf

(***************************************************************************)
(* The race.                                                               *)
(***************************************************************************)
LEMMA SameInterval ==
  ASSUME NEW n \in Nat, NEW c \in Nat \ {0}, 1..n = 1..(c - 1)
  PROVE  c = n + 1
<1>1. n <= c - 1
  <2>1. CASE n = 0
    BY <2>1
  <2>2. CASE n # 0
    <3>1. n \in 1..n
      BY <2>2
    <3> QED
      BY <3>1
  <2> QED
    BY <2>1, <2>2
<1>2. c - 1 <= n
  <2>1. CASE c = 1
    BY <2>1
  <2>2. CASE c # 1
    <3>1. c - 1 \in 1..(c - 1)
      BY <2>2
    <3> QED
      BY <3>1
  <2> QED
    BY <2>1, <2>2
<1> QED
  BY <1>1, <1>2

\* The field of a race is an initial interval of the candidates.
LEMMA FieldInterval ==
  ASSUME NEW r
  PROVE  \E m \in Nat \ {0} : Field(r) = 1..m /\ Field(r) \subseteq 1..Candidates
<1>1. Candidates \in Nat \ {0} /\ 1..1 \subseteq 1..Candidates
  BY EmbedAssumption
<1>2. CASE Pins(r)
  <2>1. Field(r) = 1..1
    BY <1>2 DEF Field
  <2> QED
    BY <1>1, <2>1
<1>3. CASE ~Pins(r)
  <2>1. Field(r) = 1..Candidates
    BY <1>3 DEF Field
  <2> QED
    BY <1>1, <2>1
<1> QED
  BY <1>2, <1>3

\* Whoever is launched next comes right after those launched so far.
LEMMA NextUpOne ==
  ASSUME NEW r, NEW n \in Field(r), Launched(r) = 1..n
  PROVE  \/ NextUp(r) = {n + 1} /\ n + 1 \in Field(r)
         \/ NextUp(r) = {} /\ Field(r) = 1..n
<1> PICK m \in Nat \ {0} : Field(r) = 1..m
  BY FieldInterval
<1>1. n \in Nat /\ n >= 1 /\ n <= m
  OBVIOUS
<1>2. ASSUME NEW c \in Field(r), 1..n = 1..(c - 1)
      PROVE  c = n + 1
  <2>1. c \in Nat \ {0}
    OBVIOUS
  <2> QED
    BY <1>1, <1>2, <2>1, SameInterval
<1>3. CASE n + 1 <= m
  <2>1. n + 1 \in Field(r) /\ (n + 1) - 1 = n
    BY <1>1, <1>3
  <2>2. 1..n = 1..((n + 1) - 1)
    BY <2>1
  <2>3. NextUp(r) = {n + 1}
    BY <1>2, <2>1, <2>2 DEF NextUp
  <2> QED
    BY <2>1, <2>3
<1>4. CASE ~(n + 1 <= m)
  <2>1. n = m
    BY <1>1, <1>4
  <2>2. n + 1 \notin Field(r)
    BY <1>1, <2>1
  <2>3. NextUp(r) = {}
    BY <1>2, <2>2 DEF NextUp
  <2> QED
    BY <2>1, <2>3
<1> QED
  BY <1>3, <1>4

\* A step of the race changes the attempts of r and where r is.
LEMMA RaceStep ==
  ASSUME EmbedInv, NEW r \in Request, NEW q \in RequestRecord,
         req' = [req EXCEPT ![r] = q],
         UNCHANGED <<lock, cache, free, ext, current, stores>>,
         req[r].pc \in {"build", "race"}, q.pc \in {"race", "won", "lost"},
         q.key = req[r].key, q.rd = req[r].rd, q.refresh = req[r].refresh,
         q.hit = req[r].hit, q.mark = req[r].mark,
         q.pc = "race" =>
           /\ q.flying # {} /\ q.flying \cap q.failed = {}
           /\ \E n \in Field(r) : q.flying \cup q.failed = 1..n,
         q.pc = "lost" => q.failed = Field(r)
  PROVE  EmbedInv'
<1> USE EmbedAssumption
<1>1. Typed /\ Counted /\ RequestInv(r) /\ req[r] \in RequestRecord
  BY At
<1>2. req'[r] = q /\ \A s \in Request \ {r} : req'[s] = req[s]
  BY <1>1 DEF Typed
<1>3. req' \in [Request -> RequestRecord]
  BY <1>1 DEF Typed
<1>4. Typed' /\ Counted' /\ stores <= stores'
  BY <1>1, <1>3 DEF Typed, Counted
<1>5. LockHeld(r)'
  BY <1>1, <1>2 DEF RequestInv, LockHeld, Inside, Phase
<1>6. RequestOK(r)' /\ Guarded(r)'
  BY <1>1, <1>2 DEF RequestInv, RequestOK, Guarded, Inside, Phase
<1>7. Field(r)' = Field(r)
  BY <1>2 DEF Field, Pins
<1>8. RaceComplete(r)'
  BY <1>2, <1>7 DEF RaceComplete, Launched, Early
<1>9. SinceEvicted(r)'
  BY <1>2 DEF SinceEvicted, Refreshing
<1>10. RequestInv(r)'
  BY <1>5, <1>6, <1>8, <1>9 DEF RequestInv
<1> QED
  BY <1>2, <1>4, <1>10, SameEntry, StepOf

LEMMA RacerType ==
  ASSUME NEW q \in RequestRecord, NEW f \in SUBSET (1..Candidates),
         NEW g \in SUBSET (1..Candidates), NEW p \in Phase
  PROVE  [q EXCEPT !.pc = p, !.flying = f, !.failed = g] \in RequestRecord
  BY DEF RequestRecord

LEMMA StartParts ==
  ASSUME EmbedInv, NEW r \in Request, StartRace(r)
  PROVE  EmbedInv'
<1> DEFINE q == [req[r] EXCEPT !.pc = "race", !.flying = {1}, !.failed = {}]
<1>1. Typed /\ RequestInv(r) /\ req[r] \in RequestRecord
  BY At
<1>2. req[r].failed = {}
  BY <1>1 DEF RequestInv, RaceComplete, Launched, Early, StartRace, In
<1>3. req' = [req EXCEPT ![r] = q]
  <2>1. [req[r] EXCEPT !.pc = "race", !.flying = {1}] = q
    BY <1>1, <1>2 DEF RequestRecord
  <2> QED
    BY <1>1, <2>1 DEF StartRace, Typed
<1>4. 1 \in Field(r) /\ {1} \subseteq 1..Candidates /\ {1} = 1..1
  <2>1. {1} = 1..1
    OBVIOUS
  <2> QED
    BY <2>1, EmbedAssumption DEF Field
<1>p. "race" \in Phase
  BY DEF Phase
<1>q. q \in RequestRecord
  BY <1>1, <1>4, <1>p, RacerType
<1>5. /\ q \in RequestRecord
      /\ q.pc = "race" /\ q.flying = {1} /\ q.failed = {}
      /\ q.key = req[r].key /\ q.rd = req[r].rd /\ q.refresh = req[r].refresh
      /\ q.hit = req[r].hit /\ q.mark = req[r].mark
  BY <1>1, <1>q DEF RequestRecord
<1>6. /\ req[r].pc = "build"
      /\ UNCHANGED <<lock, cache, free, ext, current, stores>>
  BY DEF StartRace, In
<1> HIDE DEF q
<1>7. q.flying \cup q.failed = 1..1
  BY <1>4, <1>5
<1> QED
  BY <1>3, <1>4, <1>5, <1>6, <1>7, RaceStep

LEMMA HedgeParts ==
  ASSUME EmbedInv, NEW r \in Request, Hedge(r)
  PROVE  EmbedInv'
<1> DEFINE f == req[r].flying \cup NextUp(r)
           q == [req[r] EXCEPT !.pc = "race", !.flying = f,
                               !.failed = req[r].failed]
<1>1. Typed /\ RequestInv(r) /\ req[r] \in RequestRecord
  BY At
<1>2. /\ req[r].pc = "race" /\ NextUp(r) # {}
      /\ UNCHANGED <<lock, cache, free, ext, current, stores>>
      /\ req' = [req EXCEPT ![r].flying = f]
  BY <1>1 DEF Hedge, In, Typed
<1>3. req' = [req EXCEPT ![r] = q]
  <2>1. [req[r] EXCEPT !.flying = f] = q
    BY <1>1, <1>2 DEF RequestRecord
  <2> QED
    BY <1>1, <1>2, <2>1 DEF Typed
<1>4. /\ req[r].flying # {} /\ req[r].flying \cap req[r].failed = {}
      /\ \E n \in Field(r) : Launched(r) = 1..n
  BY <1>1, <1>2 DEF RequestInv, RaceComplete
<1> PICK n \in Field(r) : Launched(r) = 1..n
  BY <1>4
<1>5. NextUp(r) = {n + 1} /\ n + 1 \in Field(r)
  BY <1>2, NextUpOne
<1>6. n \in Nat /\ 1..n \cup {n + 1} = 1..(n + 1) /\ n + 1 \notin 1..n
  BY FieldInterval
<1>7. f \cup req[r].failed = 1..(n + 1) /\ f \cap req[r].failed = {} /\ f # {}
  BY <1>4, <1>5, <1>6 DEF Launched
<1>8. f \in SUBSET (1..Candidates) /\ req[r].failed \in SUBSET (1..Candidates)
  BY <1>1, <1>5, FieldInterval DEF RequestRecord
<1>p. "race" \in Phase
  BY DEF Phase
<1>q. q \in RequestRecord
  BY <1>1, <1>8, <1>p, RacerType
<1>9. /\ q \in RequestRecord
      /\ q.pc = "race" /\ q.flying = f /\ q.failed = req[r].failed
      /\ q.key = req[r].key /\ q.rd = req[r].rd /\ q.refresh = req[r].refresh
      /\ q.hit = req[r].hit /\ q.mark = req[r].mark
  BY <1>1, <1>q DEF RequestRecord
<1> HIDE DEF q, f
<1>10. /\ q.flying # {} /\ q.flying \cap q.failed = {}
       /\ \E m \in Field(r) : q.flying \cup q.failed = 1..m
  BY <1>5, <1>7, <1>9
<1> QED
  BY <1>2, <1>3, <1>9, <1>10, RaceStep

LEMMA WinsParts ==
  ASSUME EmbedInv, NEW r \in Request, NEW c, AttemptWins(r, c)
  PROVE  EmbedInv'
<1> DEFINE q == [req[r] EXCEPT !.pc = "won", !.got = current[T(r)],
                               !.flying = {}, !.failed = {}]
<1>1. Typed /\ RequestInv(r) /\ req[r] \in RequestRecord
  BY At
<1>2. /\ req[r].pc = "race"
      /\ UNCHANGED <<lock, cache, free, ext, current, stores>>
      /\ req' = [req EXCEPT ![r] = q]
  BY <1>1 DEF AttemptWins, In, Typed
<1>3. current[T(r)] \in Nat
  <2>1. T(r) \in Title
    BY <1>2, At DEF Inside, Phase
  <2> QED
    BY <1>1, <2>1 DEF Typed
<1>4. /\ q \in RequestRecord
      /\ q.pc = "won"
      /\ q.key = req[r].key /\ q.rd = req[r].rd /\ q.refresh = req[r].refresh
      /\ q.hit = req[r].hit /\ q.mark = req[r].mark
  BY <1>1, <1>3 DEF RequestRecord, Phase
<1> HIDE DEF q
<1> QED
  BY <1>2, <1>4, RaceStep

LEMMA FailsParts ==
  ASSUME EmbedInv, NEW r \in Request, NEW c \in 1..Candidates,
         AttemptFails(r, c)
  PROVE  EmbedInv'
<1> DEFINE f == (req[r].flying \ {c}) \cup NextUp(r)
           g == req[r].failed \cup {c}
           p == IF f = {} THEN "lost" ELSE "race"
           q == [req[r] EXCEPT !.pc = p, !.flying = f, !.failed = g]
<1>1. Typed /\ RequestInv(r) /\ req[r] \in RequestRecord
  BY At
<1>2. /\ req[r].pc = "race" /\ c \in req[r].flying
      /\ UNCHANGED <<lock, cache, free, ext, current, stores>>
  BY DEF AttemptFails, In
<1>3. req' = [req EXCEPT ![r] = q]
  <2>1. req' = [req EXCEPT ![r].flying = f, ![r].failed = g, ![r].pc = p]
    BY <1>1 DEF AttemptFails
  <2>2. [req[r] EXCEPT !.flying = f, !.failed = g, !.pc = p] = q
    BY <1>1 DEF RequestRecord
  <2> HIDE DEF q, p, f, g
  <2> QED
    BY <1>1, <2>1, <2>2 DEF Typed
<1>4. /\ req[r].flying \cap req[r].failed = {}
      /\ \E n \in Field(r) : Launched(r) = 1..n
  BY <1>1, <1>2 DEF RequestInv, RaceComplete
<1> PICK n \in Field(r) : Launched(r) = 1..n
  BY <1>4
<1>5. n \in Nat /\ 1..n \cup {n + 1} = 1..(n + 1) /\ n + 1 \notin 1..n
  BY FieldInterval
<1>6. \/ NextUp(r) = {n + 1} /\ n + 1 \in Field(r)
      \/ NextUp(r) = {} /\ Field(r) = 1..n
  BY NextUpOne
<1>7. NextUp(r) \cap Launched(r) = {}
  BY <1>5, <1>6
<1>8. f \cap g = {} /\ f \cup g = Launched(r) \cup NextUp(r)
  BY <1>2, <1>4, <1>7 DEF Launched
<1>9. \E m \in Field(r) : f \cup g = 1..m
  BY <1>5, <1>6, <1>8
<1>10. f = {} => g = Field(r)
  BY <1>6, <1>8
<1>11. f \in SUBSET (1..Candidates) /\ g \in SUBSET (1..Candidates)
  BY <1>1, <1>6, FieldInterval DEF RequestRecord
<1>12. p \in Phase /\ p \in {"race", "lost"} /\ (p = "lost" <=> f = {})
  BY DEF Phase
<1> HIDE DEF f, g, p
<1>13. q \in RequestRecord
  BY <1>1, <1>11, <1>12, RacerType
<1>14. /\ q.pc = p /\ q.flying = f /\ q.failed = g
       /\ q.key = req[r].key /\ q.rd = req[r].rd
       /\ q.refresh = req[r].refresh
       /\ q.hit = req[r].hit /\ q.mark = req[r].mark
  BY <1>1 DEF RequestRecord
<1> HIDE DEF q
<1>15. q.pc = "race" =>
         /\ q.flying # {} /\ q.flying \cap q.failed = {}
         /\ \E m \in Field(r) : q.flying \cup q.failed = 1..m
  BY <1>8, <1>9, <1>12, <1>14
<1>16. q.pc = "lost" => q.failed = Field(r)
  BY <1>10, <1>12, <1>14
<1> QED
  BY <1>2, <1>3, <1>12, <1>13, <1>14, <1>15, <1>16, RaceStep

(***************************************************************************)
(* Arrival and the lock.                                                   *)
(***************************************************************************)
LEMMA ArriveParts ==
  ASSUME EmbedInv, NEW r \in Request, NEW k \in LockKey,
         NEW rd \in BOOLEAN, NEW refresh \in BOOLEAN,
         Arrive(r, k, rd, refresh)
  PROVE  EmbedInv'
<1> USE EmbedAssumption
<1> DEFINE q == [Blank EXCEPT !.pc = "lock", !.key = k, !.rd = rd,
                              !.refresh = refresh]
<1>1. Typed /\ Counted /\ RequestInv(r)
  BY At
<1>2. /\ q.pc = "lock" /\ q.key = k /\ q.flying = {} /\ q.failed = {}
      /\ q.hit = NoEntry /\ q.mark = 0
      /\ q \in RequestRecord
  BY DEF Blank, NoEntry, RequestRecord, EntryRecord, Phase
<1>3. /\ req[r].pc = "idle" /\ req' = [req EXCEPT ![r] = q]
      /\ UNCHANGED <<lock, cache, free, ext, current, stores>>
  BY DEF Arrive, In
<1> HIDE DEF q
<1>4. req'[r] = q /\ \A s \in Request \ {r} : req'[s] = req[s]
  BY <1>1, <1>3 DEF Typed
<1>5. Typed' /\ Counted' /\ stores <= stores'
  BY <1>1, <1>2, <1>3 DEF Typed, Counted
<1>6. LockHeld(r)'
  BY <1>1, <1>2, <1>3, <1>4 DEF RequestInv, LockHeld, Inside
<1>7. RequestOK(r)' /\ SinceEvicted(r)' /\ Guarded(r)'
  BY <1>2, <1>4, <1>5 DEF RequestOK, SinceEvicted, Refreshing, Guarded, Typed
<1>8. RaceComplete(r)'
  BY <1>2, <1>4 DEF RaceComplete, Launched
<1>9. RequestInv(r)'
  BY <1>6, <1>7, <1>8 DEF RequestInv
<1> QED
  BY <1>3, <1>4, <1>5, <1>9, SameEntry, StepOf

LEMMA EnterParts ==
  ASSUME EmbedInv, NEW r \in Request, Enter(r)
  PROVE  EmbedInv'
<1> USE EmbedAssumption
<1> DEFINE k == req[r].key
<1>1. Typed /\ Counted /\ RequestInv(r) /\ req[r] \in RequestRecord
  BY At
<1>2. /\ req[r].pc = "lock" /\ lock[k] = None
      /\ lock' = [lock EXCEPT ![k] = r]
      /\ req' = [req EXCEPT ![r].pc = "meta"]
      /\ UNCHANGED <<cache, free, ext, current, stores>>
  BY DEF Enter, In, Goto
<1>3. k \in LockKey
  BY <1>1, <1>2 DEF RequestInv, RequestOK
<1>4. req'[r] = [req[r] EXCEPT !.pc = "meta"]
      /\ \A s \in Request \ {r} : req'[s] = req[s]
  BY <1>1, <1>2 DEF Typed
<1>m. "meta" \in Phase
  BY DEF Phase
<1>5. Typed' /\ Counted' /\ stores <= stores'
  <2>1. req' \in [Request -> RequestRecord]
    BY <1>1, <1>2, <1>m, PcType DEF Typed
  <2>2. lock' \in [LockKey -> Request \cup {None}]
    BY <1>1, <1>2, <1>3 DEF Typed
  <2> QED
    BY <1>1, <1>2, <2>1, <2>2 DEF Typed, Counted
<1>6. /\ req'[r].pc = "meta" /\ req'[r].key = k
      /\ req'[r].refresh = req[r].refresh /\ req'[r].hit = req[r].hit
      /\ req'[r].flying = req[r].flying /\ req'[r].failed = req[r].failed
      /\ req'[r].mark = req[r].mark
  BY <1>1, <1>4 DEF RequestRecord
<1>7. \A s \in Request \ {r}, l \in LockKey : lock'[l] = s <=> lock[l] = s
  BY <1>1, <1>2, <1>3 DEF Typed
<1>8. LockHeld(r)'
  <2>1. \A l \in LockKey : lock[l] # r
    BY <1>1, <1>2 DEF RequestInv, LockHeld, Inside
  <2>2. \A l \in LockKey : lock'[l] = r <=> l = k
    BY <1>1, <1>2, <1>3, <2>1 DEF Typed
  <2> QED
    BY <1>6, <2>2 DEF LockHeld, Inside, Phase
<1>9. RequestOK(r)' /\ SinceEvicted(r)' /\ Guarded(r)'
  BY <1>1, <1>2, <1>3, <1>6
  DEF RequestInv, RequestOK, SinceEvicted, Refreshing, Guarded
<1>10. RaceComplete(r)'
  BY <1>1, <1>2, <1>6 DEF RequestInv, RaceComplete, Launched, Early
<1>11. RequestInv(r)'
  BY <1>8, <1>9, <1>10 DEF RequestInv
<1> QED
  BY <1>2, <1>4, <1>5, <1>7, <1>11, SameEntry, StepOf

(***************************************************************************)
(* The cache.                                                              *)
(***************************************************************************)
LEMMA NoEntryType == NoEntry \in EntryRecord /\ NoEntry.by = None
  BY DEF NoEntry, EntryRecord

\* A cache in which every entry is gone, or as it was, or (at t) e.
Derived(c, t, e) ==
  /\ c \in [Title -> EntryRecord]
  /\ \A u \in Title : Kept(c, u) => c[u] = cache[u] \/ (u = t /\ c[u] = e)

LEMMA SweptDerived ==
  ASSUME NEW c, NEW t, NEW e, Derived(c, t, e)
  PROVE  Derived(Swept(c), t, e)
  BY NoEntryType DEF Derived, Swept, Kept

LEMMA StoredDerived ==
  ASSUME Typed, NEW t \in Title, NEW e \in EntryRecord
  PROVE  Derived(Stored(t, e), t, e)
<1> DEFINE grown == [cache EXCEPT ![t] = e]
           none == [u \in Title |-> NoEntry]
<1>1. Derived(grown, t, e)
  <2>1. grown \in [Title -> EntryRecord]
    BY DEF Typed
  <2>2. \A u \in Title : grown[u] = cache[u] \/ (u = t /\ grown[u] = e)
    BY DEF Typed
  <2> QED
    BY <2>1, <2>2 DEF Derived
<1>2. Derived(Swept(grown), t, e)
  BY <1>1, SweptDerived
<1>3. Derived(none, t, e)
  BY NoEntryType DEF Derived, Kept
<1>4. Stored(t, e) \in {grown, Swept(grown), none}
  BY DEF Stored
<1> QED
  BY <1>1, <1>2, <1>3, <1>4

\* What a request that has evicted makes of such a cache.
LEMMA DerivedEntry ==
  ASSUME NEW t, NEW e, Derived(cache', t, e), NEW u \in Title, NEW k,
         u = t => e.at > stores /\ e.by # k
  PROVE  EntryStep(u, k)
<1> SUFFICES ASSUME Kept(cache', u)
             PROVE  \/ /\ Kept(cache, u)
                       /\ cache'[u].at = cache[u].at /\ cache'[u].by = cache[u].by
                    \/ cache'[u].at > stores /\ cache'[u].by # k
  BY DEF EntryStep
<1>1. cache'[u] = cache[u] \/ (u = t /\ cache'[u] = e)
  BY DEF Derived
<1> QED
  BY <1>1 DEF Kept

\* The environment: entries expire or are swept, upstreams move.
LEMMA Environment ==
  ASSUME EmbedInv, UNCHANGED <<req, lock, free, ext, stores>>,
         current' \in [Title -> Nat], cache' \in [Title -> EntryRecord],
         \A t \in Title : Kept(cache', t) =>
           /\ Kept(cache, t)
           /\ cache'[t].at = cache[t].at /\ cache'[t].by = cache[t].by
  PROVE  EmbedInv'
<1>1. Typed /\ Counted
  BY TypeSplit DEF EmbedInv
<1>2. Typed' /\ Counted' /\ stores' \in Nat /\ stores <= stores'
  BY <1>1 DEF Typed, Counted
<1>3. \A t \in Title : cache'[t] \in EntryRecord
  OBVIOUS
<1>4. ASSUME NEW s \in Request
      PROVE  RequestInv(s)'
  <2>1. RequestInv(s) /\ (req[s].pc \in Inside => T(s) \in Title)
    BY At
  <2>2. req[s].pc \in Inside => EntryStep(T(s), req[s].key)
    BY <2>1 DEF EntryStep
  <2> QED
    BY <1>1, <1>2, <1>3, <2>1, <2>2, Others
<1>5. TypeOK'
  BY <1>2 DEF TypeOK, Typed, Counted
<1> QED
  BY <1>4, <1>5 DEF EmbedInv

LEMMA EnvironmentParts ==
  ASSUME EmbedInv,
         \/ \E t \in Title : Expire(t) \/ Move(t)
         \/ Prune
  PROVE  EmbedInv'
<1>1. Typed
  BY TypeSplit DEF EmbedInv
<1>2. ASSUME NEW t \in Title, Expire(t)
      PROVE  EmbedInv'
  <2>1. [cache[t] EXCEPT !.fresh = FALSE] \in EntryRecord
    BY <1>1 DEF Typed, EntryRecord
  <2>2. cache' = [cache EXCEPT ![t] = [cache[t] EXCEPT !.fresh = FALSE]]
    BY <1>1, <1>2 DEF Expire, Typed
  <2>3. cache' \in [Title -> EntryRecord]
    BY <1>1, <2>1, <2>2 DEF Typed
  <2>4. \A u \in Title : cache'[u].at = cache[u].at /\ cache'[u].by = cache[u].by
    BY <1>1, <2>2 DEF Typed, EntryRecord
  <2>5. /\ UNCHANGED <<req, lock, free, ext, stores>>
        /\ current' \in [Title -> Nat]
    BY <1>1, <1>2 DEF Expire, Typed
  <2> QED
    BY <2>3, <2>4, <2>5, Environment DEF Kept
<1>3. ASSUME NEW t \in Title, Move(t)
      PROVE  EmbedInv'
  <2>1. /\ UNCHANGED <<req, lock, cache, free, ext, stores>>
        /\ current' \in [Title -> Nat] /\ cache' \in [Title -> EntryRecord]
    BY <1>1, <1>3 DEF Move, Typed
  <2> QED
    BY <2>1, Environment DEF Kept
<1>4. CASE Prune
  <2>1. Derived(cache, None, NoEntry)
    <3>1. cache \in [Title -> EntryRecord]
      BY <1>1 DEF Typed
    <3> QED
      BY <3>1 DEF Derived
  <2>2. cache' = Swept(cache)
    BY <1>4 DEF Prune
  <2>3. \A u \in Title : Swept(cache)[u] \in {cache[u], NoEntry}
    BY DEF Swept
  <2>4. cache' \in [Title -> EntryRecord]
    BY <2>1, <2>2, SweptDerived DEF Derived
  <2>5. \A u \in Title : Kept(cache', u) => cache'[u] = cache[u]
    BY <2>2, <2>3, NoEntryType DEF Kept
  <2>6. /\ UNCHANGED <<req, lock, free, ext, stores>>
        /\ current' \in [Title -> Nat]
    BY <1>1, <1>4 DEF Prune, Typed
  <2> QED
    BY <2>4, <2>5, <2>6, Environment DEF Kept
<1> QED
  BY <1>2, <1>3, <1>4

\* r is answered from the cache: if it evicted, SinceEvicted tells of the entry.
LEMMA Served ==
  ASSUME EmbedInv, Counted', NEW r \in Request, req[r].pc \in {"look", "build"},
         ServeHit(r), UNCHANGED <<lock, cache, current, stores>>
  PROVE  EmbedInv'
<1> USE EmbedAssumption
<1> DEFINE e == cache[T(r)]
           q == [req[r] EXCEPT !.pc = "tracks", !.hit = e]
<1>1. /\ Typed /\ RequestInv(r) /\ req[r] \in RequestRecord
      /\ T(r) \in Title /\ req[r].pc \in Inside
  BY At DEF Inside, Phase
<1>2. e \in EntryRecord /\ Kept(cache, T(r))
  BY <1>1 DEF Typed, ServeHit, Hit, Kept
<1>3. req' = [req EXCEPT ![r] = q]
  BY <1>1 DEF ServeHit, Typed
<1>4. /\ q \in RequestRecord /\ q.pc = "tracks" /\ q.hit = e
      /\ q.key = req[r].key /\ q.refresh = req[r].refresh
      /\ q.mark = req[r].mark
  BY <1>1, <1>2 DEF RequestRecord, Phase
<1> HIDE DEF q
<1>5. req'[r] = q /\ \A s \in Request \ {r} : req'[s] = req[s]
  BY <1>1, <1>3 DEF Typed
<1>6. req' \in [Request -> RequestRecord]
  BY <1>1, <1>3, <1>4 DEF Typed
<1>7. Typed' /\ stores <= stores'
  BY <1>1, <1>6 DEF Typed
<1>8. LockHeld(r)'
  BY <1>1, <1>4, <1>5 DEF RequestInv, LockHeld, Inside, Phase
<1>9. RequestOK(r)'
  BY <1>1, <1>4, <1>5 DEF RequestInv, RequestOK
<1>10. Guarded(r)'
  BY <1>1, <1>2, <1>4, <1>5 DEF RequestInv, SinceEvicted, Refreshing, Guarded
<1>11. RaceComplete(r)' /\ SinceEvicted(r)'
  BY <1>4, <1>5 DEF RaceComplete, SinceEvicted, Refreshing, Early
<1>12. RequestInv(r)'
  BY <1>8, <1>9, <1>10, <1>11 DEF RequestInv
<1> QED
  BY <1>5, <1>7, <1>12, SameEntry, StepOf

LEMMA PrepareParts ==
  ASSUME EmbedInv, NEW r \in Request, Prepare(r)
  PROVE  EmbedInv'
<1> USE EmbedAssumption
<1> DEFINE t == T(r)
           p == IF Pins(r) THEN "permit" ELSE IF Defaults(r) THEN "look" ELSE "reuse"
           q == [req[r] EXCEPT !.pc = p, !.mark = stores, !.moved = current[t]]
<1>1. /\ Typed /\ Counted /\ RequestInv(r) /\ req[r] \in RequestRecord
      /\ req[r].pc = "meta" /\ req[r].pc \in Inside /\ t \in Title
  BY At DEF Prepare, In, Inside, Phase
<1>2. p \in {"permit", "look", "reuse"} /\ p \in Phase
  BY DEF Phase
<1>3. Counted'
  BY <1>1 DEF Prepare, Counted
<1>4. CASE ~req[r].refresh
  <2>1. Goto(r, p) /\ UNCHANGED <<lock, cache, current, stores>>
    BY <1>4 DEF Prepare
  <2>2. p \in Inside \ {"race", "lost"} /\ req[r].pc \in Inside \ {"tracks"}
        /\ req[r].pc \in Early
    BY <1>1, <1>2 DEF Inside, Early
  <2> HIDE DEF p
  <2> QED
    BY <1>3, <1>4, <2>1, <2>2, Walk
<1>5. CASE req[r].refresh
  <2>1. /\ cache' = [cache EXCEPT ![t] = NoEntry]
        /\ req' = [req EXCEPT ![r] = q]
        /\ UNCHANGED <<lock, current, stores>>
    BY <1>1, <1>5 DEF Prepare, Typed
  <2>2. current[t] \in Nat /\ stores \in Nat
    BY <1>1 DEF Typed
  <2> HIDE DEF p
  <2>3. /\ q \in RequestRecord /\ q.pc = p /\ q.key = req[r].key
        /\ q.refresh = req[r].refresh /\ q.hit = req[r].hit
        /\ q.mark = stores
        /\ q.flying = req[r].flying /\ q.failed = req[r].failed
    BY <1>1, <1>2, <2>2 DEF RequestRecord
  <2> HIDE DEF q, t
  <2>4. req'[r] = q /\ \A s \in Request \ {r} : req'[s] = req[s]
    BY <1>1, <2>1 DEF Typed
  <2>5. req' \in [Request -> RequestRecord] /\ cache' \in [Title -> EntryRecord]
    BY <1>1, <2>1, <2>3, NoEntryType DEF Typed
  <2>6. Typed' /\ stores <= stores'
    BY <1>1, <2>1, <2>2, <2>5 DEF Typed
  <2>7. \A u \in Title : cache'[u] \in {cache[u], NoEntry}
    BY <1>1, <2>1 DEF Typed
  <2>8. \A s \in Request \ {r} :
          req[s].pc \in Inside => EntryStep(T(s), req[s].key)
    BY <2>7, At, NoEntryType DEF EntryStep, Kept
  <2>9. LockHeld(r)'
    BY <1>1, <1>2, <2>1, <2>3, <2>4 DEF RequestInv, LockHeld, Inside
  <2>10. RequestOK(r)' /\ Guarded(r)'
    BY <1>1, <2>1, <2>2, <2>3, <2>4 DEF RequestInv, RequestOK, Guarded
  <2>11. RaceComplete(r)'
    BY <1>1, <1>2, <2>3, <2>4 DEF RequestInv, RaceComplete, Launched, Early
  <2>12. ~Kept(cache', t)
    BY <1>1, <2>1, NoEntryType DEF Kept, Typed
  <2>13. SinceEvicted(r)'
    <3>1. T(r)' = t
      BY <2>3, <2>4 DEF T, t
    <3>2. ~Kept(cache', T(r)')
      BY <2>12, <3>1
    <3> QED
      BY <3>2 DEF SinceEvicted
  <2>14. RequestInv(r)'
    BY <2>9, <2>10, <2>11, <2>13 DEF RequestInv
  <2>15. \A s \in Request \ {r}, k \in LockKey : lock'[k] = s <=> lock[k] = s
    BY <2>1
  <2> QED
    BY <1>3, <2>4, <2>6, <2>8, <2>14, <2>15, StepOf
<1> QED
  BY <1>1, <1>4, <1>5 DEF RequestRecord

\* The winner stores its URL: nobody else with its lock key has evicted.
LEMMA PublishParts ==
  ASSUME EmbedInv, NEW r \in Request, PublishWin(r)
  PROVE  EmbedInv'
<1> USE EmbedAssumption
<1> DEFINE t == T(r)
           e == [url |-> req[r].got, fresh |-> TRUE, by |-> req[r].key,
                 at |-> stores + 1]
<1>1. /\ Typed /\ Counted /\ RequestInv(r) /\ req[r] \in RequestRecord
      /\ req[r].pc = "won" /\ req[r].pc \in Inside /\ t \in Title
  BY At DEF PublishWin, In, Inside, Phase
<1>2. Counted'
  BY <1>1, CountersStep DEF PublishWin
<1>3. Goto(r, "tracks") /\ UNCHANGED <<lock, current>>
  BY DEF PublishWin
<1>i. "tracks" \in Inside \ {"race", "lost"} /\ "tracks" \notin Early
  BY DEF Inside, Early, Phase
<1>4. CASE ~Defaults(r)
  <2>1. UNCHANGED <<cache, stores>>
    BY <1>4 DEF PublishWin
  <2> QED
    BY <1>1, <1>2, <1>3, <1>i, <2>1, Walk
<1>5. CASE Defaults(r)
  <2>1. stores' = stores + 1 /\ cache' = Stored(t, e)
    BY <1>5 DEF PublishWin
  <2>2. req[r].key \in LockKey /\ req[r].got \in Nat /\ stores \in Nat
    BY <1>1 DEF RequestInv, RequestOK, RequestRecord, Typed
  <2>3. e \in EntryRecord /\ e.at = stores + 1 /\ e.by = req[r].key
    BY <2>2 DEF EntryRecord
  <2> HIDE DEF e
  <2>4. Derived(cache', t, e)
    BY <1>1, <2>1, <2>3, StoredDerived
  <2>5. req'[r] = [req[r] EXCEPT !.pc = "tracks"]
        /\ \A s \in Request \ {r} : req'[s] = req[s]
    BY <1>1, <1>3 DEF Goto, Typed
  <2>6. /\ req'[r].pc = "tracks" /\ req'[r].key = req[r].key
        /\ req'[r].hit = req[r].hit /\ req'[r].mark = req[r].mark
        /\ req'[r] \in RequestRecord /\ req[r].mark \in Nat
    BY <1>1, <2>5 DEF RequestRecord, Phase
  <2>7. req' \in [Request -> RequestRecord]
    BY <1>1, <1>3, <2>6, <2>5 DEF Goto, Typed
  <2>8. Typed' /\ stores <= stores'
    BY <1>1, <1>3, <2>1, <2>2, <2>4, <2>7 DEF Typed, Derived
  <2>9. ASSUME NEW s \in Request \ {r}, req[s].pc \in Inside
        PROVE  EntryStep(T(s), req[s].key)
    <3>1. RequestInv(s) /\ T(s) \in Title
      BY <2>9, At
    <3>2. req[s].key # req[r].key
      BY <1>1, <2>2, <2>9, <3>1 DEF RequestInv, LockHeld
    <3>3. e.at > stores
      BY <2>2, <2>3
    <3> QED
      BY <2>3, <2>4, <3>1, <3>2, <3>3, DerivedEntry
  <2>10. LockHeld(r)'
    BY <1>1, <1>3, <1>i, <2>6 DEF RequestInv, LockHeld
  <2>11. req[r].hit = NoEntry
    BY <1>1 DEF RequestInv, RequestOK
  <2>12. RequestOK(r)' /\ Guarded(r)'
    BY <1>1, <2>1, <2>2, <2>6, <2>11 DEF RequestInv, RequestOK, Guarded
  <2>13. RaceComplete(r)' /\ SinceEvicted(r)'
    BY <1>i, <2>6 DEF RaceComplete, SinceEvicted, Refreshing
  <2>14. RequestInv(r)'
    BY <2>10, <2>12, <2>13 DEF RequestInv
  <2>15. \A s \in Request \ {r}, k \in LockKey : lock'[k] = s <=> lock[k] = s
    BY <1>3
  <2> QED
    BY <1>2, <2>5, <2>8, <2>9, <2>14, <2>15, StepOf
<1> QED
  BY <1>4, <1>5

(***************************************************************************)
(* The steps that are a walk or an end.                                    *)
(***************************************************************************)
LEMMA Walks ==
  \A p \in {"build", "permit", "reuse", "torrentPermit", "torrent", "tracks"} :
    p \in Inside \ {"race", "lost"}
  BY DEF Inside, Phase

LEMMA FallBackParts ==
  ASSUME EmbedInv, Counted', NEW r \in Request, req[r].pc \in {"permit", "lost"},
         FallBack(r), UNCHANGED <<cache, current, stores>>
  PROVE  EmbedInv'
<1>1. CASE req[r].rd
  <2>1. Goto(r, "reuse") /\ UNCHANGED lock
    BY <1>1 DEF FallBack
  <2>2. req[r].pc \in Inside \ {"tracks"} /\ "reuse" \notin Early
    BY DEF Inside, Phase, Early
  <2> QED
    BY <2>1, <2>2, Walks, Walk
<1>2. CASE ~req[r].rd
  BY <1>2, Ended DEF FallBack
<1> QED
  BY <1>1, <1>2

LEMMA EmbedParts ==
  ASSUME EmbedInv, NEW r \in Request, Embed(r)
  PROVE  EmbedInv'
<1>1. Counted
  BY At
<1>2. CASE AcquirePermit(r)
  <2>1. Counted' /\ req[r].pc = "permit" /\ Goto(r, "build")
        /\ UNCHANGED <<lock, cache, current, stores>>
    BY <1>1, <1>2, CountersStep DEF AcquirePermit, In
  <2>2. req[r].pc \in Inside \ {"tracks"} /\ req[r].pc \in Early
    BY <2>1 DEF Inside, Phase, Early
  <2> QED
    BY <2>1, <2>2, Walks, Walk
<1>3. CASE RejectPermit(r)
  <2>1. Counted' /\ req[r].pc = "permit" /\ UNCHANGED <<cache, current, stores>>
    BY <1>1, <1>3 DEF RejectPermit, In, Counted
  <2>2. Ends(r) \/ FallBack(r)
    BY <1>3 DEF RejectPermit
  <2> QED
    BY <2>1, <2>2, Ended, FallBackParts
<1>4. CASE BuildFromCache(r)
  <2>1. Counted' /\ req[r].pc = "build" /\ ServeHit(r)
        /\ UNCHANGED <<lock, cache, current, stores>>
    BY <1>1, <1>4, CountersStep DEF BuildFromCache, In
  <2> QED
    BY <2>1, Served
<1>5. CASE StartRace(r)
  BY <1>5, StartParts
<1>6. CASE Attempt(r)
  BY <1>6, WinsParts, FailsParts DEF Attempt
<1>7. CASE Hedge(r)
  BY <1>7, HedgeParts
<1>8. CASE PublishWin(r)
  BY <1>8, PublishParts
<1>9. CASE GiveUpEmbeds(r)
  <2>1. Counted' /\ req[r].pc = "lost" /\ UNCHANGED <<cache, current, stores>>
    BY <1>1, <1>9, CountersStep DEF GiveUpEmbeds, In
  <2>2. Ends(r) \/ FallBack(r)
    BY <1>9 DEF GiveUpEmbeds
  <2> QED
    BY <2>1, <2>2, Ended, FallBackParts
<1> QED
  BY <1>2, <1>3, <1>4, <1>5, <1>6, <1>7, <1>8, <1>9 DEF Embed

LEMMA TorrentParts ==
  ASSUME EmbedInv, NEW r \in Request, Torrent(r)
  PROVE  EmbedInv'
<1>1. Counted
  BY At
<1>2. /\ req[r].pc \in Inside \ {"tracks"}
      /\ \A p \in {"tracks", "torrentPermit", "torrent"} : p \notin Early
  BY DEF Torrent, ReuseSession, AcquireTorrentPermit, RejectTorrentPermit,
         TryTorrents, In, Inside, Phase, Early
<1>3. UNCHANGED <<cache, current, stores>> /\ Counted'
  <2>1. \/ TakePermit \/ DropPermit(TRUE) \/ DropPermit(FALSE)
        \/ UNCHANGED Counters
    BY DEF Torrent, ReuseSession, AcquireTorrentPermit, RejectTorrentPermit,
           TryTorrents, Counters
  <2>2. UNCHANGED <<cache, current, stores>>
    BY DEF Torrent, ReuseSession, AcquireTorrentPermit, RejectTorrentPermit,
           TryTorrents
  <2> QED
    BY <1>1, <2>1, <2>2, CountersStep
<1>4. \/ Ends(r)
      \/ \E p \in {"tracks", "torrentPermit", "torrent"} :
           Goto(r, p) /\ UNCHANGED lock
  BY DEF Torrent, ReuseSession, AcquireTorrentPermit, RejectTorrentPermit,
         TryTorrents
<1>5. ASSUME NEW p \in {"tracks", "torrentPermit", "torrent"}, Goto(r, p),
             UNCHANGED lock
      PROVE  EmbedInv'
  <2>1. p \in Inside \ {"race", "lost"} /\ p \notin Early
        /\ p \notin {"look", "permit", "build"}
    BY <1>2, Walks
  <2> QED
    BY <1>2, <1>3, <1>5, <2>1, Walk
<1> QED
  BY <1>3, <1>4, <1>5, Ended

LEMMA LookParts ==
  ASSUME EmbedInv, NEW r \in Request, Look(r)
  PROVE  EmbedInv'
<1>1. /\ Counted' /\ req[r].pc = "look"
      /\ UNCHANGED <<lock, cache, current, stores>>
  BY At DEF Look, In, Counted
<1>2. CASE ServeHit(r)
  BY <1>1, <1>2, Served
<1>3. CASE Goto(r, "permit")
  <2>1. req[r].pc \in Inside \ {"tracks"} /\ req[r].pc \in Early
    BY <1>1 DEF Inside, Phase, Early
  <2> QED
    BY <1>1, <1>3, <2>1, Walks, Walk
<1> QED
  BY <1>2, <1>3 DEF Look

LEMMA EndParts ==
  ASSUME EmbedInv, NEW r \in Request,
         MetadataFails(r) \/ Answer(r) \/ Abandon(r)
  PROVE  EmbedInv'
<1>1. Ends(r) /\ UNCHANGED <<cache, current, stores>>
  BY DEF MetadataFails, Answer, Abandon
<1>2. DropPermit(FALSE) \/ UNCHANGED Counters
  BY DEF MetadataFails, Answer, Abandon, Counters
<1> QED
  BY <1>1, <1>2, At, CountersStep, Ended

(***************************************************************************)
(* The theorems.                                                           *)
(***************************************************************************)
LEMMA InitInv == Init => EmbedInv
<1> SUFFICES ASSUME Init
             PROVE  EmbedInv
  OBVIOUS
<1> USE EmbedAssumption
<1>1. /\ Blank \in RequestRecord /\ NoEntry \in EntryRecord
      /\ Blank.pc = "idle" /\ Blank.hit = NoEntry /\ Blank.mark = 0
      /\ Blank.refresh = FALSE
  BY DEF Blank, RequestRecord, NoEntry, EntryRecord, Phase
<1>2. TypeOK
  BY <1>1 DEF Init, TypeOK
<1>3. ASSUME NEW r \in Request
      PROVE  RequestInv(r)
  <2>1. req[r] = Blank /\ stores = 0 /\ \A k \in LockKey : lock[k] = None
    BY DEF Init
  <2>2. LockHeld(r) /\ RequestOK(r)
    BY <1>1, <2>1 DEF LockHeld, RequestOK, Inside
  <2>3. RaceComplete(r) /\ SinceEvicted(r) /\ Guarded(r)
    BY <1>1, <2>1 DEF RaceComplete, SinceEvicted, Refreshing, Guarded, Early
  <2> QED
    BY <2>2, <2>3 DEF RequestInv
<1> QED
  BY <1>2, <1>3 DEF EmbedInv

LEMMA StutterInv == EmbedInv /\ UNCHANGED vars => EmbedInv'
<1> SUFFICES ASSUME EmbedInv, UNCHANGED vars
             PROVE  EmbedInv'
  OBVIOUS
<1>1. UNCHANGED <<req, lock, cache, free, ext, current, stores>>
  BY DEF vars
<1>2. current' \in [Title -> Nat] /\ cache' \in [Title -> EntryRecord]
  BY <1>1, TypeSplit DEF EmbedInv, Typed
<1> QED
  BY <1>1, <1>2, Environment DEF Kept

LEMMA NextInv == EmbedInv /\ Next => EmbedInv'
<1> SUFFICES ASSUME EmbedInv, Next
             PROVE  EmbedInv'
  OBVIOUS
<1>1. ASSUME NEW r \in Request, RequestStep(r)
      PROVE  EmbedInv'
  BY <1>1, EnterParts, EndParts, PrepareParts, LookParts, EmbedParts,
     TorrentParts DEF RequestStep
<1>2. ASSUME NEW r \in Request, NEW k \in LockKey,
             NEW rd \in BOOLEAN, NEW refresh \in BOOLEAN,
             Arrive(r, k, rd, refresh)
      PROVE  EmbedInv'
  BY <1>2, ArriveParts
<1>3. ASSUME NEW r \in Request, Abandon(r)
      PROVE  EmbedInv'
  BY <1>3, EndParts
<1>4. ASSUME \/ \E t \in Title : Expire(t) \/ Move(t)
             \/ Prune
      PROVE  EmbedInv'
  BY <1>4, EnvironmentParts
<1> QED
  BY <1>1, <1>2, <1>3, <1>4 DEF Next

(***************************************************************************)
(* EmbedInvariant: in every state a request past the lock holds its key's  *)
(* lock, a race misses no candidate, and what a refreshing request finds   *)
(* in the cache was stored since it evicted, under another lock key.       *)
(***************************************************************************)
THEOREM EmbedInvariant == Spec => []EmbedInv
<1>1. EmbedInv /\ [Next]_vars => EmbedInv'
  BY NextInv, StutterInv
<1> QED
  BY InitInv, <1>1, PTL DEF Spec

(***************************************************************************)
(* RefreshSafe: a refresh is never answered with an entry from before its  *)
(* eviction, nor with one stored under its own lock key: resolve_movie and *)
(* resolve_tv hold the lock from before the eviction until the answer.     *)
(***************************************************************************)
THEOREM RefreshSafe == Spec => []RefreshGuarded
<1>1. EmbedInv => RefreshGuarded
  BY DEF EmbedInv, RequestInv, RefreshGuarded
<1> QED
  BY <1>1, EmbedInvariant, PTL

(***************************************************************************)
(* OneFlight: two requests with one lock key never resolve it at the same  *)
(* time, for any number of permits.                                        *)
(***************************************************************************)
THEOREM OneFlight == Spec => []SingleFlight
<1>1. EmbedInv => SingleFlight
  <2> SUFFICES ASSUME EmbedInv, NEW r \in Request, NEW s \in Request,
                      Resolving(r), Resolving(s), req[r].key = req[s].key
               PROVE  r = s
    BY DEF SingleFlight
  <2>1. RequestInv(r) /\ RequestInv(s)
    BY DEF EmbedInv
  <2>2. req[r].pc \in Inside /\ req[s].pc \in Inside
    BY DEF Resolving, Inside, Phase
  <2>3. req[r].key \in LockKey
    BY <2>1, <2>2 DEF RequestInv, RequestOK
  <2>4. lock[req[r].key] = r /\ lock[req[r].key] = s
    BY <2>1, <2>2, <2>3 DEF RequestInv, LockHeld
  <2> QED
    BY <2>4
<1> QED
  BY <1>1, EmbedInvariant, PTL
-----------------------------------------------------------------------------
(***************************************************************************)
(* The permits.  A step of r takes one for it, gives its own back, or      *)
(* neither; which of these, the phases before and after it tell.           *)
(***************************************************************************)
Holders == {r \in Request : Holds(r)}
Alone(r) == \A s \in Request \ {r} : req'[s] = req[s]
PermitStep(r) ==
  \/ TakePermit /\ ~Holds(r) /\ Holds(r)'
  \/ (DropPermit(TRUE) \/ DropPermit(FALSE)) /\ Holds(r) /\ ~Holds(r)'
  \/ UNCHANGED Counters /\ (Holds(r)' <=> Holds(r))

LEMMA PermitSteps ==
  ASSUME req \in [Request -> RequestRecord], NEW r \in Request,
         \/ \E k \in LockKey, rd, refresh \in BOOLEAN : Arrive(r, k, rd, refresh)
         \/ RequestStep(r) \/ Abandon(r)
  PROVE  PermitStep(r) /\ Alone(r)
<1> DEFINE Fine == PermitStep(r) /\ Alone(r)
<1> USE DEF PermitStep, Alone, Counters, Holds, Holding, In, Goto
<1>0. req[r] \in RequestRecord
  OBVIOUS
<1>a. ASSUME NEW p, Goto(r, p) PROVE req'[r].pc = p /\ Alone(r)
  BY <1>0, <1>a DEF RequestRecord
<1>b. ASSUME Ends(r) PROVE req'[r].pc = "done" /\ Alone(r)
  BY <1>b DEF Ends, Blank
<1>c. ASSUME ServeHit(r) PROVE req'[r].pc = "tracks" /\ Alone(r)
  BY <1>0, <1>c DEF ServeHit, RequestRecord
<1>d. ASSUME FallBack(r) PROVE req'[r].pc \in {"reuse", "done"} /\ Alone(r)
  BY <1>a, <1>b, <1>d DEF FallBack
<1>1. ASSUME NEW k \in LockKey, NEW rd \in BOOLEAN, NEW refresh \in BOOLEAN,
             Arrive(r, k, rd, refresh)
      PROVE  Fine
  BY <1>1 DEF Arrive, Blank
<1>2. CASE Enter(r)
  BY <1>2, <1>a DEF Enter
<1>3. CASE MetadataFails(r)
  BY <1>3, <1>b DEF MetadataFails
<1>4. CASE Prepare(r)
  BY <1>0, <1>4 DEF Prepare, RequestRecord
<1>5. CASE Look(r)
  BY <1>5, <1>a, <1>c DEF Look
<1>6. CASE AcquirePermit(r)
  BY <1>6, <1>a DEF AcquirePermit
<1>7. CASE RejectPermit(r)
  BY <1>7, <1>b, <1>d DEF RejectPermit
<1>8. CASE BuildFromCache(r)
  BY <1>8, <1>c DEF BuildFromCache
<1>9. CASE StartRace(r)
  BY <1>0, <1>9 DEF StartRace, RequestRecord
<1>10. ASSUME NEW c \in 1..Candidates, AttemptWins(r, c) PROVE Fine
  BY <1>0, <1>10 DEF AttemptWins, RequestRecord
<1>11. ASSUME NEW c \in 1..Candidates, AttemptFails(r, c) PROVE Fine
  BY <1>0, <1>11 DEF AttemptFails, RequestRecord
<1>12. CASE Hedge(r)
  BY <1>0, <1>12 DEF Hedge, RequestRecord
<1>13. CASE PublishWin(r)
  <2>1. req[r].pc = "won" /\ DropPermit(TRUE) /\ Goto(r, "tracks")
    BY <1>13 DEF PublishWin
  <2>2. req'[r].pc = "tracks" /\ Alone(r)
    BY <2>1, <1>a
  <2>3. QED
    BY <2>1, <2>2, Zenon
<1>14. CASE GiveUpEmbeds(r)
  BY <1>14, <1>b, <1>d DEF GiveUpEmbeds
<1>15. CASE ReuseSession(r)
  BY <1>15, <1>a, <1>b DEF ReuseSession
<1>16. CASE AcquireTorrentPermit(r)
  BY <1>16, <1>a DEF AcquireTorrentPermit
<1>17. CASE RejectTorrentPermit(r)
  BY <1>17, <1>b DEF RejectTorrentPermit
<1>18. CASE TryTorrents(r)
  <2>1. req[r].pc = "torrent"
    BY <1>18 DEF TryTorrents
  <2>2. CASE DropPermit(TRUE) /\ Goto(r, "tracks")
    <3>1. req'[r].pc = "tracks" /\ Alone(r)
      BY <2>2, <1>a
    <3>2. QED
      BY <2>1, <2>2, <3>1, Zenon
  <2>3. CASE DropPermit(FALSE) /\ Ends(r)
    BY <1>b, <2>1, <2>3
  <2>4. QED
    BY <1>18, <2>2, <2>3 DEF TryTorrents
<1>19. CASE Answer(r)
  BY <1>19, <1>b DEF Answer
<1>20. CASE Abandon(r)
  BY <1>20, <1>b DEF Abandon
<1> HIDE DEF PermitStep, Alone, Counters, Holds, Holding, In, Goto
<1>21. CASE Embed(r)
  BY <1>21, <1>6, <1>7, <1>8, <1>9, <1>10, <1>11, <1>12, <1>13, <1>14 DEF Embed, Attempt
<1>22. CASE Torrent(r)
  BY <1>22, <1>15, <1>16, <1>17, <1>18 DEF Torrent
<1>23. QED
  BY <1>1, <1>2, <1>3, <1>4, <1>5, <1>19, <1>20, <1>21, <1>22 DEF RequestStep

LEMMA PermitCount ==
  ASSUME ExternalAccounted, Counted, NEW r \in Request, PermitStep(r), Alone(r)
  PROVE  ExternalAccounted'
<1>1. IsFiniteSet(Holders) /\ Cardinality(Holders) \in Nat
  BY EmbedAssumption, FS_Subset, FS_CardinalityType DEF Holders
<1>2. \A s \in Request \ {r} : Holds(s)' <=> Holds(s)
  BY DEF Alone, Holds
<1>3. free \in Nat /\ ext \in [active : Int, started : Nat, completed : Nat, failed : Nat]
  BY DEF Counted
<1>4. /\ free + Cardinality(Holders) = MaxConcurrent /\ ext.active = MaxConcurrent - free
      /\ ext.started = ext.active + ext.completed + ext.failed
  BY DEF ExternalAccounted, Holders
<1>5. ASSUME free' + Cardinality(Holders') = MaxConcurrent,
             ext'.active = MaxConcurrent - free',
             ext'.started = ext'.active + ext'.completed + ext'.failed
      PROVE  ExternalAccounted'
  BY <1>5 DEF ExternalAccounted, Holders
<1>6. CASE TakePermit /\ ~Holds(r) /\ Holds(r)'
  <2>1. Holders' = Holders \cup {r} /\ r \notin Holders
    BY <1>2, <1>6 DEF Holders
  <2>2. Cardinality(Holders') = Cardinality(Holders) + 1
    BY <1>1, <2>1, FS_AddElement
  <2>3. free' = free - 1 /\ ext' = [ext EXCEPT !.active = ext.active + 1, !.started = ext.started + 1]
    BY <1>6 DEF TakePermit
  <2>4. QED
    BY <1>1, <1>3, <1>4, <1>5, <2>2, <2>3, EmbedAssumption
<1>7. CASE (DropPermit(TRUE) \/ DropPermit(FALSE)) /\ Holds(r) /\ ~Holds(r)'
  <2>1. Holders' = Holders \ {r} /\ r \in Holders
    BY <1>2, <1>7 DEF Holders
  <2>2. Cardinality(Holders') = Cardinality(Holders) - 1
    BY <1>1, <2>1, FS_RemoveElement
  <2>3. free' = free + 1
    BY <1>7 DEF DropPermit
  <2>4. /\ ext'.active = ext.active - 1 /\ ext'.started = ext.started
        /\ \/ ext'.completed = ext.completed + 1 /\ ext'.failed = ext.failed
           \/ ext'.completed = ext.completed /\ ext'.failed = ext.failed + 1
    <3>1. CASE DropPermit(TRUE)
      BY <1>3, <3>1 DEF DropPermit
    <3>2. CASE DropPermit(FALSE)
      BY <1>3, <3>2 DEF DropPermit
    <3>3. QED
      BY <1>7, <3>1, <3>2
  <2>5. PICK h, a, s, c, f : /\ h = Cardinality(Holders) /\ a = ext.active /\ s = ext.started
                             /\ c = ext.completed /\ f = ext.failed
    OBVIOUS
  <2>6. h \in Nat /\ a \in Int /\ s \in Nat /\ c \in Nat /\ f \in Nat
    BY <1>1, <1>3, <2>5
  <2>7. free' + Cardinality(Holders') = MaxConcurrent /\ ext'.active = MaxConcurrent - free'
    BY <1>3, <1>4, <2>2, <2>3, <2>4, <2>5, <2>6, EmbedAssumption
  <2>8. ext'.started = ext'.active + ext'.completed + ext'.failed
    BY <1>4, <2>4, <2>5, <2>6
  <2>9. QED
    BY <1>5, <2>7, <2>8
<1>8. CASE UNCHANGED Counters /\ (Holds(r)' <=> Holds(r))
  <2>1. Holders' = Holders
    BY <1>2, <1>8 DEF Holders
  <2>2. QED
    BY <1>4, <1>5, <1>8, <2>1 DEF Counters
<1>9. QED
  BY <1>6, <1>7, <1>8 DEF PermitStep

(***************************************************************************)
(* PermitsAccounted: for any number of requests and permits, no request    *)
(* holds two, none is lost, and the counters of ResolverStats add up       *)
(* (resolver.rs, ResolverExternalGuard).                                   *)
(***************************************************************************)
THEOREM PermitsAccounted == Spec => []ExternalAccounted
<1>1. Init => ExternalAccounted
  <2> SUFFICES ASSUME Init PROVE ExternalAccounted
    OBVIOUS
  <2>1. {r \in Request : Holds(r)} = {}
    BY DEF Init, Holds, Holding, Blank
  <2>2. Cardinality({r \in Request : Holds(r)}) = 0
    BY <2>1, FS_EmptySet
  <2>3. free = MaxConcurrent /\ ext.active = 0 /\ ext.started = 0 /\ ext.completed = 0
        /\ ext.failed = 0
    BY DEF Init
  <2>4. QED
    BY <2>2, <2>3, EmbedAssumption DEF ExternalAccounted
<1>2. EmbedInv /\ ExternalAccounted /\ [Next]_vars => ExternalAccounted'
  <2> SUFFICES ASSUME EmbedInv, ExternalAccounted, [Next]_vars PROVE ExternalAccounted'
    OBVIOUS
  <2>1. Counted /\ req \in [Request -> RequestRecord]
    BY TypeSplit DEF EmbedInv, Typed
  <2>2. ASSUME NEW r \in Request,
               \/ \E k \in LockKey, rd, refresh \in BOOLEAN : Arrive(r, k, rd, refresh)
               \/ RequestStep(r) \/ Abandon(r)
        PROVE  ExternalAccounted'
    BY <2>1, <2>2, PermitSteps, PermitCount
  <2>3. ASSUME UNCHANGED <<req, free, ext>> PROVE ExternalAccounted'
    BY <2>3 DEF ExternalAccounted, Holds
  <2>4. QED
    BY <2>2, <2>3 DEF Next, Expire, Move, Prune, vars
<1>3. QED
  BY <1>1, <1>2, EmbedInvariant, PTL DEF Spec
=============================================================================
