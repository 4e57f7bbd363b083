--------------------------- MODULE CatalogProofs ----------------------------
(***************************************************************************)
(* What is known of the titles, and of the matches.  Of the library of the *)
(* owner, that uploads only add to it, for any number of uploads and edit  *)
(* dialogs: the lock is held from the read to the rename, so what was read *)
(* still is the file.  Of what TMDB says, that it is not used for too long *)
(* and that readers do not go back in time, for any pages and requests.    *)
(* Of the streams of a match, that one request at a time looks behind an   *)
(* address, that what is kept of it is true of its page and that answers   *)
(* are in the order of the request, for any pages, requests and limits.    *)
(* Of the schedules of a sport, that what a request is told is recent, and *)
(* that it fails only if nothing can be told, for any providers, listings  *)
(* and limits.                                                             *)
(***************************************************************************)
EXTENDS LocalLibrary, TmdbCache, SportsStreams, SportsSchedule, DataLemmas,
        FiniteSetTheorems, SequenceTheorems, TLAPS

LEMMA LibraryInvInit == Init => LibraryInv
<1> SUFFICES ASSUME Init PROVE LibraryInv
  OBVIOUS
<1>1. TypeOK
  BY DEF Init, TypeOK, Call, Library
<1>2. LockHeld
  BY LibraryAssumption DEF Init, LockHeld, Call
<1>3. ReadCurrent
  BY DEF Init, ReadCurrent, Call
<1>4. LateLeft
  BY DEF Init, LateLeft
<1>5. QED
  BY <1>1, <1>2, <1>3, <1>4 DEF LibraryInv

LEMMA LibraryInvNext == LibraryInv /\ [Next]_vars => LibraryInv'
<1> SUFFICES ASSUME LibraryInv, [Next]_vars PROVE LibraryInv'
  OBVIOUS
<1> USE LibraryAssumption
    DEF LibraryInv, TypeOK, LockHeld, ReadCurrent, LateLeft, Call, Library
<1>1. ASSUME NEW e \in Editor, Load(e) PROVE LibraryInv'
  BY <1>1 DEF Load, Goto
<1>2. ASSUME NEW e \in Editor, Put(e) PROVE LibraryInv'
  BY <1>2 DEF Put, Goto
<1>3. ASSUME NEW u \in Upload, AddMovie(u) PROVE LibraryInv'
  BY <1>3 DEF AddMovie, Goto
<1>4. ASSUME NEW u \in Upload, ReadLibrary(u) PROVE LibraryInv'
  BY <1>4 DEF ReadLibrary, Goto
<1>5. ASSUME NEW c \in Call, LockLibrary(c) PROVE LibraryInv'
  BY <1>5 DEF LockLibrary, Goto
<1>6. ASSUME NEW c \in Call, RenameLibrary(c) PROVE LibraryInv'
  <2>1. /\ call[c].pc = "rename" /\ lock = c
        /\ file' = call[c].library /\ lock' = None
        /\ call' = [call EXCEPT ![c] = [pc |-> "done", library |-> {}]]
        /\ late' = late /\ left' = left
    BY <1>6 DEF RenameLibrary, Return, Goto
  <2>2. TypeOK'
    BY <2>1
  <2>3. LockHeld'
    BY <2>1
  <2>4. ReadCurrent'
    BY <2>1
  <2>5. QED
    BY <2>1, <2>2, <2>3, <2>4
<1>7. ASSUME NEW c \in Call, GiveUp(c) PROVE LibraryInv'
  BY <1>7 DEF GiveUp, Return, Goto
<1>8. ASSUME NEW c \in Call, LeaveRename(c) PROVE LibraryInv'
  BY <1>8 DEF LeaveRename, Return, Goto
<1>9. ASSUME NEW entries \in late, LateRename(entries) PROVE LibraryInv'
  BY <1>9 DEF LateRename
<1>10. CASE Restart
  BY <1>10 DEF Restart
<1>11. CASE UNCHANGED vars
  BY <1>11 DEF vars
<1> HIDE DEF LibraryInv, TypeOK, LockHeld, ReadCurrent, LateLeft, Call, Library
<1>12. QED
  BY <1>1, <1>2, <1>3, <1>4, <1>5, <1>6, <1>7, <1>8, <1>9, <1>10, <1>11
     DEF Next

(***************************************************************************)
(* LOCAL_LIBRARY_LOCK keeps what an upload has read current until it is    *)
(* renamed over the file.                                                  *)
(***************************************************************************)
THEOREM LibraryInvariant == Spec => []LibraryInv
BY LibraryInvInit, LibraryInvNext, PTL DEF Spec

LEMMA StepAdds ==
  ASSUME LibraryInv, [Next]_vars
  PROVE  \/ file' = file \/ left
         \/ \E e \in Editor : Saves(e)
         \/ \E u \in Upload : file' = file \cup {u}
<1> DEFINE Adds == \/ file' = file \/ left
                   \/ \E e \in Editor : Saves(e)
                   \/ \E u \in Upload : file' = file \cup {u}
<1>1. ASSUME NEW u \in Upload, RenameLibrary(u) PROVE Adds
  BY <1>1 DEF RenameLibrary, LibraryInv, ReadCurrent
<1>2. ASSUME NEW e \in Editor, RenameLibrary(e) PROVE Adds
  BY <1>2 DEF RenameLibrary, Return, Goto, Saves, LibraryInv, TypeOK, Call
<1>3. ASSUME NEW entries \in late, LateRename(entries) PROVE Adds
  BY <1>3 DEF LibraryInv, LateLeft
<1>4. CASE \/ UNCHANGED file
           \/ \E c \in Call : RenameLibrary(c)
           \/ \E entries \in late : LateRename(entries)
  BY <1>1, <1>2, <1>3, <1>4 DEF Call
<1>5. QED
  BY <1>4 DEF Next, vars, Load, Put, AddMovie, ReadLibrary, LockLibrary,
     GiveUp, LeaveRename, Restart

(***************************************************************************)
(* The property of every step, for any number of uploads and dialogs: no   *)
(* upload, whatever it runs beside, takes another's entry away.            *)
(***************************************************************************)
THEOREM UploadsOnlyAdd == Spec => UploadsAdd
<1>1. LibraryInv /\ [Next]_vars =>
        [\/ file' = file \/ left
         \/ \E e \in Editor : Saves(e)
         \/ \E u \in Upload : file' = file \cup {u}]_vars
  BY StepAdds
<1>2. QED
  BY <1>1, LibraryInvariant, PTL DEF Spec, UploadsAdd
-----------------------------------------------------------------------------
(***************************************************************************)
(* TmdbSound.  Of a request: RecordRight, what it has in hand is good for  *)
(* its time, and not older than what had been told when it came.  Of a     *)
(* page that nobody raced for: PageInv, the memory, the table and the rows *)
(* that are being brought back say the same, nobody has been told or reads *)
(* anything newer, and while one has a new answer to store there is no     *)
(* row.                                                                    *)
(***************************************************************************)
ReaderPc == {"absent", "memory", "touch", "lengthen", "forget", "table", "delete",
             "revive", "insert", "ask", "keep", "store", "answered", "failed"}
Holding == {"touch", "lengthen", "revive", "insert", "keep", "store"}
CopyType == [from : Int, expires : Int, used : Int]
ReaderSet ==
  [pc : ReaderPc, left : Seq(Page), warm : BOOLEAN, extend : Int, copy : CopyType,
   since : Int, began : [Page -> Int] \cup {<< >>}, got : Seq(Page \X Int)]
ReadersTyped == reader \in [Reader -> ReaderSet]

Active(rec) == rec.pc \notin {"absent", "answered", "failed"}
Reading(rec, p) == rec.pc \in {"touch", "lengthen"} /\ Head(rec.left) = p
Carrying(rec, p) == rec.pc \in {"revive", "insert"} /\ Head(rec.left) = p
HasFetched(rec, p) == rec.pc \in {"keep", "store"} /\ Head(rec.left) = p

\* The time for which an answer of p is good, given on the day from.
Until(p, from) == (IF p \in Sliding THEN asked[p] ELSE from) + Ttl[p] + 1
Fits(p, from, expires) == expires >= -1 /\ expires <= Until(p, from)

CopyGood(p, copy) == copy # NoCopy => copy.from >= 0 /\ Fits(p, copy.from, copy.expires)
CopiesGood == \A p \in Page : CopyGood(p, memory[p]) /\ CopyGood(p, table[p])

OnItsPage(rec) ==
  /\ rec.left # << >>
  /\ rec.since <= day /\ rec.since >= day - 1 /\ rec.since <= asked[Head(rec.left)]
  /\ rec.since >= 0
  /\ rec.extend = IF Head(rec.left) \in Sliding
                  THEN rec.since + Ttl[Head(rec.left)] ELSE -1
  /\ rec.pc \in {"lengthen", "revive"} => Head(rec.left) \in Sliding
  /\ rec.began \in [Page -> Int]
InHand(rec) ==
  /\ rec.copy.from <= day
  /\ rec.pc \in Holding => rec.copy.from >= 0
  /\ rec.pc \in Holding \ {"keep"} => Fits(Head(rec.left), rec.copy.from, rec.copy.expires)
  /\ rec.pc \in {"keep", "store"} => rec.copy.from >= rec.since
Forward(rec) ==
  /\ \A p \in Page : rec.began[p] <= told[p]
  /\ rec.pc \in Holding /\ Head(rec.left) \notin raced =>
       rec.copy.from >= rec.began[Head(rec.left)]
GotForward(rec) ==
  \A i \in DOMAIN rec.got :
    rec.got[i][1] \notin raced => rec.got[i][2] >= rec.began[rec.got[i][1]]
RecordRight(rec) ==
  /\ Active(rec) => OnItsPage(rec) /\ InHand(rec) /\ Forward(rec)
  /\ GotForward(rec)
ReadersRight == \A r \in Reader : RecordRight(reader[r])

Newest(p, from) ==
  /\ told[p] <= from
  /\ \A r \in Reader : Reading(reader[r], p) => reader[r].copy.from <= from
Agrees(p, from) ==
  /\ memory[p] # NoCopy => memory[p].from = from
  /\ table[p] # NoCopy => table[p].from = from
PageInv(p) ==
  /\ memory[p] # NoCopy => Newest(p, memory[p].from)
  /\ table[p] # NoCopy => Newest(p, table[p].from) /\ Agrees(p, table[p].from)
  /\ \A r \in Reader : Carrying(reader[r], p) =>
       /\ Newest(p, reader[r].copy.from) /\ Agrees(p, reader[r].copy.from)
       /\ \A q \in Reader : Carrying(reader[q], p) =>
            reader[q].copy.from = reader[r].copy.from
  /\ \A r \in Reader : HasFetched(reader[r], p) =>
       /\ Newest(p, reader[r].copy.from) /\ table[p] = NoCopy
       /\ \A q \in Reader \ {r} : ~Carrying(reader[q], p) /\ ~HasFetched(reader[q], p)
       /\ memory[p] # NoCopy => memory[p].from <= reader[r].copy.from
       /\ memory[p] # NoCopy /\ reader[r].pc = "store" =>
            memory[p].from = reader[r].copy.from
PagesRight == \A p \in Page \ raced : PageInv(p)

TmdbIInv == TmdbTypeOK /\ ReadersTyped /\ CopiesGood /\ ReadersRight /\ PagesRight

LEMMA NoCopyType == NoCopy \in CopyType
  BY DEF NoCopy, CopyType

LEMMA TmdbSoundFromInv == TmdbIInv => TmdbSound
<1> SUFFICES ASSUME TmdbIInv PROVE TmdbSound
  OBVIOUS
<1>0. TmdbTypeOK /\ ReadersTyped /\ CopiesGood /\ ReadersRight /\ PagesRight
  BY DEF TmdbIInv
<1>1. CopiesEnd
  <2> SUFFICES ASSUME NEW p \in Page, NEW copy \in Copies(p)
               PROVE copy.expires <= Until(p, copy.from)
    BY DEF CopiesEnd, Until
  <2>1. CopyGood(p, copy) /\ copy # NoCopy
    BY <1>0 DEF CopiesGood, Copies
  <2> QED
    BY <2>1 DEF CopyGood, Fits
<1>2. ReadsForward
  BY <1>0 DEF ReadsForward, ReadersRight, RecordRight, GotForward
<1>3. RowsFollow
  <2> SUFFICES ASSUME NEW p \in Page \ raced, memory[p] # NoCopy, table[p] # NoCopy
               PROVE table[p].from <= memory[p].from
    BY DEF RowsFollow
  <2>1. memory[p].from = table[p].from
    BY <1>0 DEF PagesRight, PageInv, Agrees
  <2>2. table[p].from \in Int
    BY <1>0 DEF TmdbTypeOK, CopySet
  <2> QED
    BY <2>1, <2>2
<1> QED
  BY <1>0, <1>1, <1>2, <1>3 DEF TmdbSound

LEMMA AbsentType == Absent \in ReaderSet /\ \A rec : rec = Absent => RecordRight(rec)
<1>1. << >> \in Seq(Page) /\ << >> \in Seq(Page \X Int)
  OBVIOUS
<1>2. Absent \in ReaderSet
  BY <1>1, NoCopyType DEF Absent, ReaderSet, ReaderPc
<1>3. DOMAIN Absent.got = {}
  BY DEF Absent
<1> QED
  BY <1>2, <1>3 DEF Absent, RecordRight, Active, GotForward

LEMMA TmdbIInvInit == TmdbInit => TmdbIInv
<1> SUFFICES ASSUME TmdbInit PROVE TmdbIInv
  OBVIOUS
<1>1. TmdbTypeOK
  BY TmdbAssumption DEF TmdbInit, TmdbTypeOK, CopySet, NoCopy, Absent
<1>2. ReadersTyped /\ ReadersRight
  BY AbsentType DEF TmdbInit, ReadersTyped, ReadersRight
<1>3. CopiesGood
  BY DEF TmdbInit, CopiesGood, CopyGood
<1>4. PagesRight
  BY DEF TmdbInit, PagesRight, PageInv, Carrying, HasFetched, Absent
<1> QED
  BY <1>1, <1>2, <1>3, <1>4 DEF TmdbIInv
-----------------------------------------------------------------------------
(***************************************************************************)
(* What a request holds stays right while others act: the day is the same, *)
(* and pages are only asked for later, told newer and raced for.           *)
(***************************************************************************)
Onwards ==
  /\ day' = day /\ raced \subseteq raced' /\ asked' \in [Page -> Int]
  /\ told' \in [Page -> Int]
  /\ \A p \in Page : asked[p] <= asked'[p] /\ told[p] <= told'[p]

LEMMA Day == TmdbTypeOK => day \in Int /\ day >= 0
  BY DEF TmdbTypeOK

LEMMA OfPage ==
  ASSUME TmdbTypeOK, NEW p \in Page
  PROVE  /\ Ttl[p] \in Int /\ Ttl[p] > 0
         /\ asked[p] \in Int /\ asked[p] <= day /\ asked[p] >= -1
         /\ told[p] \in Int /\ told[p] <= day /\ told[p] >= -1
         /\ memory[p] \in CopyType /\ memory[p].from \in Int /\ memory[p].expires \in Int
         /\ memory[p].from <= day
         /\ table[p] \in CopyType /\ table[p].from \in Int /\ table[p].expires \in Int
         /\ table[p].from <= day
<1>1. memory[p] \in CopySet /\ table[p] \in CopySet
      /\ asked[p] \in -1 .. day /\ told[p] \in -1 .. day /\ day \in Int
  BY DEF TmdbTypeOK
<1>2. Ttl[p] \in Nat \ {0}
  BY TmdbAssumption
<1>3. \A copy \in CopySet : copy \in CopyType /\ copy.from \in Int /\ copy.expires \in Int
                            /\ copy.from <= day
  BY <1>1 DEF CopySet, CopyType
<1> QED
  BY <1>1, <1>2, <1>3

LEMMA Fields ==
  ASSUME NEW rec \in ReaderSet
  PROVE  /\ rec.copy \in CopyType /\ rec.copy.from \in Int /\ rec.copy.expires \in Int
         /\ rec.since \in Int /\ rec.extend \in Int /\ rec.left \in Seq(Page)
         /\ rec.got \in Seq(Page \X Int) /\ rec.pc \in ReaderPc
         /\ rec.left # << >> => Head(rec.left) \in Page
  BY DEF ReaderSet, CopyType

LEMMA UntilInt ==
  ASSUME TmdbTypeOK, NEW p \in Page, NEW from \in Int
  PROVE  Until(p, from) \in Int
  BY OfPage DEF Until

LEMMA UntilLater ==
  ASSUME TmdbTypeOK, Onwards, NEW p \in Page, NEW from \in Int
  PROVE  Until(p, from)' \in Int /\ Until(p, from) <= Until(p, from)'
<1>1. asked[p] \in Int /\ asked'[p] \in Int /\ asked[p] <= asked'[p] /\ Ttl[p] \in Int
  BY OfPage DEF Onwards
<1> QED
  BY <1>1 DEF Until

LEMMA Stays ==
  ASSUME Onwards, TmdbTypeOK, NEW rec \in ReaderSet, RecordRight(rec)
  PROVE  RecordRight(rec)'
<1>1. GotForward(rec)'
  BY DEF Onwards, RecordRight, GotForward
<1>2. SUFFICES ASSUME Active(rec)
               PROVE  (OnItsPage(rec) /\ InHand(rec) /\ Forward(rec))'
  BY <1>1 DEF RecordRight, Active
<1>3. OnItsPage(rec) /\ InHand(rec) /\ Forward(rec)
  BY <1>2 DEF RecordRight
<1> DEFINE p == Head(rec.left)
<1>4. p \in Page
  BY <1>3, Fields DEF OnItsPage
<1>5. OnItsPage(rec)'
  <2>1. asked[p] \in Int /\ asked'[p] \in Int /\ asked[p] <= asked'[p] /\ day' = day
    BY <1>4, OfPage DEF Onwards
  <2>2. rec.since \in Int /\ day \in Int
    BY Fields, Day
  <2> QED
    BY <1>3, <2>1, <2>2 DEF OnItsPage
<1>6. InHand(rec)'
  <2>1. /\ Until(p, rec.copy.from) <= Until(p, rec.copy.from)'
        /\ Until(p, rec.copy.from) \in Int /\ Until(p, rec.copy.from)' \in Int
        /\ rec.copy.from \in Int /\ rec.copy.expires \in Int
    BY <1>4, Fields, UntilLater, UntilInt
  <2>2. Fits(p, rec.copy.from, rec.copy.expires) => Fits(p, rec.copy.from, rec.copy.expires)'
    BY <2>1 DEF Fits
  <2> QED
    BY <1>3, <2>2 DEF InHand, Onwards
<1>7. Forward(rec)'
  <2> SUFFICES ASSUME NEW q \in Page PROVE rec.began[q] <= told'[q]
    BY <1>3 DEF Forward, Onwards
  <2>1. rec.began[q] \in Int /\ rec.began[q] <= told[q]
    BY <1>3 DEF OnItsPage, Forward
  <2>2. told[q] \in Int /\ told'[q] \in Int /\ told[q] <= told'[q]
    BY OfPage DEF Onwards
  <2> QED
    BY <2>1, <2>2
<1> QED
  BY <1>5, <1>6, <1>7
-----------------------------------------------------------------------------
\* cache_extension_expires_at leaves a time the page may have.
LEMMA ExtensionFits ==
  ASSUME TmdbTypeOK, NEW r \in Reader, reader[r] \in ReaderSet, OnItsPage(reader[r]),
         NEW from \in Int, NEW expires \in Int,
         Fits(PageOf(r), from, expires)
  PROVE  /\ Extension(r, expires) \in Int
         /\ Fits(PageOf(r), from, Extension(r, expires))
         /\ Extension(r, expires) # expires => PageOf(r) \in Sliding
<1> DEFINE p == PageOf(r)
<1> DEFINE extend == reader[r].extend
<1>1. p \in Page /\ p = Head(reader[r].left) /\ extend \in Int /\ reader[r].since \in Int
  BY Fields DEF PageOf, OnItsPage
<1>2. /\ Ttl[p] \in Int /\ Ttl[p] > 0 /\ asked[p] \in Int
      /\ reader[r].since <= asked[p] /\ reader[r].since >= 0
      /\ extend = IF p \in Sliding THEN reader[r].since + Ttl[p] ELSE -1
  BY <1>1, OfPage DEF OnItsPage
<1>3. MinDelta \in Int /\ MinDelta > 0
  BY TmdbAssumption
<1>4. CASE extend - expires >= MinDelta
  <2>1. Extension(r, expires) = extend
    BY <1>4 DEF Extension
  <2>2. expires >= -1
    BY DEF Fits
  <2>3. p \in Sliding
    BY <1>1, <1>2, <1>3, <1>4, <2>2
  <2>4. extend >= -1 /\ extend <= Until(p, from)
    BY <1>1, <1>2, <2>3 DEF Until
  <2> QED
    BY <1>1, <2>1, <2>3, <2>4 DEF Fits
<1>5. CASE ~(extend - expires >= MinDelta)
  BY <1>5 DEF Extension
<1> QED
  BY <1>4, <1>5

LEMMA LookingRight ==
  ASSUME TmdbTypeOK, NEW rec \in ReaderSet, NEW rest \in Seq(Page), rest # << >>,
         rec.began \in [Page -> Int], \A p \in Page : rec.began[p] <= told'[p],
         GotForward(rec)', day' = day, asked'[Head(rest)] = day,
         NEW x, x = Looking(rec, rest)
  PROVE  x \in ReaderSet /\ RecordRight(x)'
<1>1. Head(rest) \in Page
  OBVIOUS
<1>2. /\ x = [rec EXCEPT !.pc = "memory", !.left = rest, !.copy = NoCopy, !.since = day,
                         !.extend = x.extend]
      /\ x.extend = IF Head(rest) \in Sliding THEN day + Ttl[Head(rest)] ELSE -1
  BY DEF Looking, ReaderSet
<1>3. x.extend \in Int /\ day \in Int /\ day >= 0
  BY <1>1, <1>2, Day, OfPage
<1>4. x \in ReaderSet
  BY <1>2, <1>3, NoCopyType DEF ReaderSet, ReaderPc
<1>5. /\ x.pc = "memory" /\ x.left = rest /\ x.copy = NoCopy /\ x.since = day
      /\ x.began = rec.began /\ x.got = rec.got
  BY <1>2 DEF ReaderSet
<1>6. OnItsPage(x)'
  BY <1>2, <1>3, <1>5 DEF OnItsPage
<1>7. InHand(x)'
  BY <1>3, <1>5 DEF InHand, Holding, NoCopy
<1>8. Forward(x)' /\ GotForward(x)'
  BY <1>5 DEF Forward, GotForward, Holding
<1> QED
  BY <1>4, <1>6, <1>7, <1>8 DEF RecordRight

\* A request that ends has nothing in hand.
LEMMA EndRight ==
  ASSUME NEW rec \in ReaderSet, GotForward(rec)', NEW x, NEW pc \in {"answered", "failed"},
         NEW rest \in Seq(Page), x = [rec EXCEPT !.pc = pc, !.left = rest]
  PROVE  x \in ReaderSet /\ RecordRight(x)'
<1>1. x \in ReaderSet
  BY DEF ReaderSet, ReaderPc
<1>2. x.pc \in {"answered", "failed"} /\ x.got = rec.got /\ x.began = rec.began
  BY DEF ReaderSet
<1> QED
  BY <1>1, <1>2 DEF RecordRight, Active, GotForward

LEMMA TellRight ==
  ASSUME TmdbTypeOK, ReadersTyped, NEW r \in Reader, RecordRight(reader[r]),
         reader[r].pc \in Holding, day' = day, raced' = raced,
         Tell(r, reader[r].copy.from)
  PROVE  /\ Onwards /\ asked' \in [Page -> -1 .. day] /\ told' \in [Page -> -1 .. day]
         /\ reader' = [reader EXCEPT ![r] = reader'[r]]
         /\ reader'[r] \in ReaderSet /\ RecordRight(reader[r])'
         /\ reader'[r].pc \notin Holding
         /\ told' = [told EXCEPT ![PageOf(r)] = Later(@, reader[r].copy.from)]
<1>0. PICK old : old = reader[r]
  OBVIOUS
<1> DEFINE p == Head(old.left)
<1> DEFINE from == old.copy.from
<1> DEFINE rec == [old EXCEPT !.got = Append(@, <<p, from>>)]
<1> DEFINE rest == Tail(old.left)
<1>1. old \in ReaderSet
  BY <1>0 DEF ReadersTyped
<1>2. OnItsPage(old) /\ InHand(old) /\ Forward(old) /\ GotForward(old)
  BY <1>0 DEF RecordRight, Active, Holding
<1>3. /\ p \in Page /\ p = PageOf(r) /\ from \in Int /\ from <= day /\ from >= 0
      /\ old.left \in Seq(Page) /\ old.left # << >> /\ old.began \in [Page -> Int]
      /\ p \notin raced => from >= old.began[p]
  BY <1>0, <1>1, <1>2, Fields DEF OnItsPage, InHand, Forward, PageOf, Holding
<1>4. rest \in Seq(Page)
  BY <1>3
<1>5. /\ rec \in ReaderSet /\ rec.left = old.left /\ rec.began = old.began
      /\ rec.got = Append(old.got, <<p, from>>)
  <2>1. Append(old.got, <<p, from>>) \in Seq(Page \X Int)
    BY <1>1, <1>3, Fields
  <2> HIDE DEF p, from
  <2> QED
    BY <1>1, <2>1 DEF ReaderSet
<1>6. GotForward(rec)'
  <2> SUFFICES ASSUME NEW i \in DOMAIN rec.got, rec.got[i][1] \notin raced
               PROVE  rec.got[i][2] >= rec.began[rec.got[i][1]]
    BY DEF GotForward
  <2>1. old.got \in Seq(Page \X Int)
    BY <1>1, Fields
  <2>2. CASE i = Len(old.got) + 1
    <3>1. rec.got[i] = <<p, from>>
      BY <1>5, <2>1, <2>2
    <3> QED
      BY <3>1, <1>3, <1>5
  <2>3. CASE i # Len(old.got) + 1
    <3>1. i \in DOMAIN old.got /\ rec.got[i] = old.got[i]
      BY <1>5, <2>1, <2>3
    <3> QED
      BY <3>1, <1>2, <1>5 DEF GotForward
  <2> QED
    BY <2>2, <2>3
<1>7. /\ reader' = [reader EXCEPT
                      ![r] = IF rest = << >> THEN [rec EXCEPT !.pc = "answered", !.left = rest]
                             ELSE Looking(rec, rest)]
      /\ told' = [told EXCEPT ![p] = Later(@, from)]
      /\ asked' = IF rest = << >> THEN asked ELSE [asked EXCEPT ![Head(rest)] = day]
  <2>1. /\ reader' = [reader EXCEPT
                        ![r] = IF rest = << >>
                               THEN [rec EXCEPT !.pc = "answered", !.left = rest]
                               ELSE Looking(rec, rest)]
        /\ asked' = IF rest = << >> THEN asked ELSE [asked EXCEPT ![Head(rest)] = day]
    <3>1. rec = [reader[r] EXCEPT !.got = Append(@, <<PageOf(r), reader[r].copy.from>>)]
          /\ rest = Tail(rec.left)
      BY <1>0, <1>3, <1>5
    <3> HIDE DEF rec, rest
    <3> QED
      BY <3>1 DEF Tell
  <2> QED
    BY <2>1, <1>0, <1>3 DEF Tell
<1>8. told \in [Page -> -1 .. day] /\ asked \in [Page -> -1 .. day] /\ day \in Int /\ day >= 0
  BY DEF TmdbTypeOK
<1>9. /\ told' \in [Page -> -1 .. day]
      /\ \A q \in Page : told[q] <= told'[q]
  <2>1. Later(told[p], from) \in -1 .. day /\ told[p] <= Later(told[p], from)
    <3>1. from \in Int /\ from <= day /\ from >= 0
      BY <1>3
    <3>2. told[p] \in -1 .. day /\ day \in Int
      BY <1>3, <1>8
    <3> HIDE DEF p, from
    <3> QED
      BY <3>1, <3>2 DEF Later
  <2>2. told' = [told EXCEPT ![p] = Later(told[p], from)]
    BY <1>3, <1>7, <1>8
  <2> HIDE DEF p, from
  <2> QED
    BY <1>3, <1>8, <2>1, <2>2, SMTT(30)
<1>10. /\ asked' \in [Page -> -1 .. day]
       /\ \A q \in Page : asked[q] <= asked'[q]
  <2>1. CASE rest = << >>
    BY <2>1, <1>7, <1>8
  <2>2. CASE rest # << >>
    <3>1. Head(rest) \in Page
      BY <1>4, <2>2
    <3> QED
      BY <3>1, <2>2, <1>7, <1>8
  <2> QED
    BY <2>1, <2>2
<1>11. Onwards
  BY <1>8, <1>9, <1>10 DEF Onwards
<1>12. PICK x : x = reader'[r]
  OBVIOUS
<1>13. x = IF rest = << >> THEN [rec EXCEPT !.pc = "answered", !.left = rest]
           ELSE Looking(rec, rest)
  BY <1>7, <1>12 DEF ReadersTyped
<1>14. \A q \in Page : rec.began[q] <= told'[q]
  <2> SUFFICES ASSUME NEW q \in Page PROVE rec.began[q] <= told'[q]
    OBVIOUS
  <2>1. rec.began[q] \in Int /\ rec.began[q] <= told[q]
    BY <1>2, <1>3, <1>5 DEF Forward
  <2>2. told[q] \in Int /\ told'[q] \in Int /\ told[q] <= told'[q]
    BY <1>8, <1>9
  <2> QED
    BY <2>1, <2>2
<1>15. x \in ReaderSet /\ RecordRight(x)' /\ x.pc \notin Holding
  <2>1. CASE rest = << >>
    <3>1. x = [rec EXCEPT !.pc = "answered", !.left = rest]
      BY <1>13, <2>1
    <3>2. x.pc = "answered"
      BY <3>1, <1>5 DEF ReaderSet
    <3> HIDE DEF rec, rest
    <3> QED
      BY <3>1, <3>2, <1>4, <1>5, <1>6, EndRight DEF Holding
  <2>2. CASE rest # << >>
    <3>1. x = Looking(rec, rest)
      BY <1>13, <2>2
    <3>2. asked'[Head(rest)] = day
      <4>1. Head(rest) \in Page
        BY <1>4, <2>2
      <4> QED
        BY <4>1, <1>7, <1>8, <2>2
    <3>3. x.pc = "memory"
      BY <3>1, <1>5 DEF ReaderSet, Looking
    <3>4. rec.began \in [Page -> Int]
      BY <1>3, <1>5
    <3> HIDE DEF rec, rest
    <3> QED
      BY <3>1, <3>2, <3>3, <3>4, <2>2, <1>4, <1>5, <1>6, <1>14, LookingRight DEF Holding
  <2> QED
    BY <2>1, <2>2
<1>16. reader' = [reader EXCEPT ![r] = x]
  BY <1>7, <1>12, <1>13
<1> QED
  BY <1>0, <1>3, <1>7, <1>9, <1>10, <1>11, <1>12, <1>15, <1>16

LEMMA MissRight ==
  ASSUME TmdbTypeOK, ReadersTyped, NEW r \in Reader, RecordRight(reader[r]),
         Active(reader[r]), day' = day, raced' = raced, Miss(r)
  PROVE  /\ Onwards /\ asked' \in [Page -> -1 .. day]
         /\ reader' = [reader EXCEPT ![r] = reader'[r]]
         /\ reader'[r] \in ReaderSet /\ RecordRight(reader[r])'
         /\ reader'[r].pc \notin Holding
<1>0. PICK old : old = reader[r]
  OBVIOUS
<1> DEFINE rest == Tail(old.left)
<1> DEFINE goes == old.warm /\ old.got # << >> /\ rest # << >>
<1>1. old \in ReaderSet
  BY <1>0 DEF ReadersTyped
<1>2. OnItsPage(old) /\ Forward(old) /\ GotForward(old)
  BY <1>0 DEF RecordRight
<1>3. old.left \in Seq(Page) /\ old.left # << >> /\ old.began \in [Page -> Int]
  BY <1>1, <1>2, Fields DEF OnItsPage
<1>4. rest \in Seq(Page)
  BY <1>3
<1>5. /\ reader' = [reader EXCEPT ![r] = IF goes THEN Looking(old, rest)
                                         ELSE [old EXCEPT !.pc = "failed"]]
      /\ asked' = IF goes THEN [asked EXCEPT ![Head(rest)] = day] ELSE asked
      /\ told' = told
  BY <1>0 DEF Miss
<1>6. told \in [Page -> -1 .. day] /\ asked \in [Page -> -1 .. day] /\ day \in Int /\ day >= 0
  BY DEF TmdbTypeOK
<1>7. /\ asked' \in [Page -> -1 .. day]
      /\ \A q \in Page : asked[q] <= asked'[q]
  <2>1. CASE ~goes
    BY <2>1, <1>5, <1>6
  <2>2. CASE goes
    <3>1. Head(rest) \in Page
      BY <1>4, <2>2
    <3> QED
      BY <3>1, <2>2, <1>5, <1>6
  <2> QED
    BY <2>1, <2>2
<1>8. Onwards
  BY <1>5, <1>6, <1>7 DEF Onwards
<1>9. GotForward(old)'
  BY <1>2 DEF GotForward
<1>10. PICK x : x = reader'[r]
  OBVIOUS
<1>11. x = IF goes THEN Looking(old, rest) ELSE [old EXCEPT !.pc = "failed"]
  BY <1>5, <1>10 DEF ReadersTyped
<1>12. x \in ReaderSet /\ RecordRight(x)' /\ x.pc \notin Holding
  <2>1. CASE ~goes
    <3>1. x = [old EXCEPT !.pc = "failed", !.left = old.left]
      BY <1>1, <1>11, <2>1 DEF ReaderSet
    <3>2. x.pc = "failed"
      BY <3>1, <1>1 DEF ReaderSet
    <3> QED
      BY <3>1, <3>2, <1>1, <1>3, <1>9, EndRight DEF Holding
  <2>2. CASE goes
    <3>1. x = Looking(old, rest) /\ rest # << >>
      BY <1>11, <2>2
    <3>2. asked'[Head(rest)] = day
      <4>1. Head(rest) \in Page
        BY <1>4, <2>2
      <4> QED
        BY <4>1, <1>5, <1>6, <2>2
    <3>3. x.pc = "memory"
      BY <3>1, <1>1 DEF ReaderSet, Looking
    <3>4. \A q \in Page : old.began[q] <= told'[q]
      BY <1>2, <1>5 DEF Forward
    <3> HIDE DEF rest
    <3> QED
      BY <3>1, <3>2, <3>3, <3>4, <1>1, <1>3, <1>4, <1>6, <1>9, LookingRight DEF Holding
  <2> QED
    BY <2>1, <2>2
<1>13. reader' = [reader EXCEPT ![r] = x]
  BY <1>5, <1>10, <1>11
<1> QED
  BY <1>7, <1>8, <1>10, <1>12, <1>13
-----------------------------------------------------------------------------
Basics == TmdbTypeOK /\ ReadersTyped /\ CopiesGood /\ ReadersRight

\* A copy that is there after a step was there before, or is good.
MemoryKept ==
  \A p \in Page : memory'[p] \in {memory[p], NoCopy} \/ CopyGood(p, memory[p])'
TableKept ==
  \A p \in Page : table'[p] \in {table[p], NoCopy} \/ CopyGood(p, table[p])'
TimesTyped == asked' \in [Page -> -1 .. day] /\ told' \in [Page -> -1 .. day]

LEMMA CopyStays ==
  ASSUME Onwards, TmdbTypeOK, NEW p \in Page, NEW copy \in CopyType, CopyGood(p, copy)
  PROVE  CopyGood(p, copy)'
<1>1. copy.from \in Int /\ copy.expires \in Int
  BY DEF CopyType
<1>2. /\ Until(p, copy.from) \in Int /\ Until(p, copy.from)' \in Int
      /\ Until(p, copy.from) <= Until(p, copy.from)'
  BY <1>1, UntilInt, UntilLater
<1> QED
  BY <1>1, <1>2 DEF CopyGood, Fits

LEMMA CopiesStay ==
  ASSUME Onwards, TmdbTypeOK, CopiesGood, MemoryKept, TableKept
  PROVE  CopiesGood'
<1> SUFFICES ASSUME NEW p \in Page
             PROVE  CopyGood(p, memory[p])' /\ CopyGood(p, table[p])'
  BY DEF CopiesGood
<1>1. PICK old : old = memory[p]
  OBVIOUS
<1>2. PICK row : row = table[p]
  OBVIOUS
<1>3. /\ old \in CopyType /\ row \in CopyType
      /\ CopyGood(p, old) /\ CopyGood(p, row)
  BY <1>1, <1>2, OfPage DEF CopiesGood
<1>4. CopyGood(p, old)' /\ CopyGood(p, row)'
  BY <1>3, CopyStays
<1>5. CopyGood(p, memory[p])'
  <2>1. memory'[p] \in {old, NoCopy} \/ CopyGood(p, memory[p])'
    BY <1>1 DEF MemoryKept
  <2> QED
    BY <2>1, <1>4 DEF CopyGood
<1>6. CopyGood(p, table[p])'
  <2>1. table'[p] \in {row, NoCopy} \/ CopyGood(p, table[p])'
    BY <1>2 DEF TableKept
  <2> QED
    BY <2>1, <1>4 DEF CopyGood
<1> QED
  BY <1>5, <1>6

LEMMA ReadersStay ==
  ASSUME Onwards, TmdbTypeOK, ReadersTyped, ReadersRight, NEW r \in Reader,
         reader' = [reader EXCEPT ![r] = reader'[r]], reader'[r] \in ReaderSet,
         RecordRight(reader[r])'
  PROVE  ReadersTyped' /\ ReadersRight'
<1>1. ReadersTyped'
  BY DEF ReadersTyped
<1>2. ReadersRight'
  <2> SUFFICES ASSUME NEW q \in Reader, q # r PROVE RecordRight(reader[q])'
    BY DEF ReadersRight
  <2>1. PICK rec : rec = reader[q]
    OBVIOUS
  <2>2. rec \in ReaderSet /\ RecordRight(rec)
    BY <2>1 DEF ReadersTyped, ReadersRight
  <2>3. RecordRight(rec)' /\ reader'[q] = rec
    BY <2>1, <2>2, Stays DEF ReadersTyped
  <2> QED
    BY <2>3
<1> QED
  BY <1>1, <1>2

LEMMA TypesStay ==
  ASSUME TmdbTypeOK, Onwards, TimesTyped, raced' \subseteq Page, ReadersTyped',
         memory' \in [Page -> CopySet], table' \in [Page -> CopySet]
  PROVE  TmdbTypeOK'
<1>1. day' = day /\ CopySet' = CopySet
  BY DEF Onwards, CopySet
<1>2. reader' = [r \in Reader |-> reader'[r]]
  BY DEF ReadersTyped
<1>3. \A r \in Reader : reader'[r].pc \in ReaderPc
  BY Fields DEF ReadersTyped
<1>4. day \in 0 .. LastDay
  BY DEF TmdbTypeOK
<1> QED
  BY <1>1, <1>2, <1>3, <1>4 DEF TmdbTypeOK, TimesTyped, ReaderPc

\* A step of a request keeps what does not concern pages.
LEMMA BasicsKept ==
  ASSUME Basics, Onwards, TimesTyped, raced' \subseteq Page, NEW r \in Reader,
         reader' = [reader EXCEPT ![r] = reader'[r]], reader'[r] \in ReaderSet,
         RecordRight(reader[r])',
         memory' \in [Page -> CopySet], table' \in [Page -> CopySet],
         MemoryKept, TableKept
  PROVE  Basics'
<1>1. TmdbTypeOK /\ ReadersTyped /\ CopiesGood /\ ReadersRight
  BY DEF Basics
<1>2. ReadersTyped' /\ ReadersRight'
  BY <1>1, ReadersStay
<1>3. TmdbTypeOK'
  BY <1>1, <1>2, TypesStay
<1>4. CopiesGood'
  BY <1>1, CopiesStay
<1> QED
  BY <1>2, <1>3, <1>4 DEF Basics

LEMMA StoresKept ==
  ASSUME TmdbTypeOK
  PROVE  /\ memory' = memory => memory' \in [Page -> CopySet] /\ MemoryKept
         /\ table' = table => table' \in [Page -> CopySet] /\ TableKept
         /\ raced' = raced => raced' \subseteq Page
         /\ day' = day /\ asked' = asked /\ told' = told /\ raced \subseteq raced' =>
              Onwards /\ TimesTyped
<1>1. day' = day /\ asked' = asked /\ told' = told /\ raced \subseteq raced' =>
        Onwards /\ TimesTyped
  <2>1. \A p \in Page : asked[p] <= asked[p] /\ told[p] <= told[p]
    BY OfPage
  <2> QED
    BY <2>1 DEF Onwards, TimesTyped, TmdbTypeOK
<1> QED
  BY <1>1 DEF TmdbTypeOK, MemoryKept, TableKept
-----------------------------------------------------------------------------
LEMMA StepRight ==
  ASSUME TmdbTypeOK, ReadersTyped, NEW r \in Reader, RecordRight(reader[r]),
         Active(reader[r]), day' = day, raced' = raced, NEW pc \in ReaderPc, Step(r, pc),
         pc \notin {"keep", "store"},
         pc \in Holding => reader[r].pc \in Holding \ {"keep"},
         pc \in {"lengthen", "revive"} => PageOf(r) \in Sliding
  PROVE  /\ Onwards /\ TimesTyped
         /\ reader' = [reader EXCEPT ![r] = reader'[r]]
         /\ reader'[r] \in ReaderSet /\ RecordRight(reader[r])'
         /\ reader'[r] = [reader[r] EXCEPT !.pc = pc]
<1>0. PICK old : old = reader[r]
  OBVIOUS
<1>1. PICK x : x = reader'[r]
  OBVIOUS
<1>2. old \in ReaderSet /\ RecordRight(old) /\ Active(old)
  BY <1>0 DEF ReadersTyped
<1>3. reader' = [reader EXCEPT ![r] = x] /\ x = [old EXCEPT !.pc = pc]
  BY <1>0, <1>1 DEF Step, ReadersTyped
<1>4. /\ x \in ReaderSet /\ x.pc = pc /\ x.left = old.left /\ x.copy = old.copy
      /\ x.since = old.since /\ x.began = old.began /\ x.got = old.got
      /\ x.extend = old.extend
  BY <1>2, <1>3 DEF ReaderSet
<1>5. Onwards /\ TimesTyped
  BY StoresKept DEF Step
<1>6. RecordRight(old)'
  BY <1>2, <1>5, Stays
<1>7. (OnItsPage(old) /\ InHand(old) /\ Forward(old) /\ GotForward(old))'
  BY <1>2, <1>6 DEF RecordRight, Active
<1>8. OnItsPage(x)'
  BY <1>0, <1>4, <1>7 DEF OnItsPage, PageOf
<1>9. InHand(x)' /\ Forward(x)' /\ GotForward(x)'
  BY <1>0, <1>4, <1>7 DEF InHand, Forward, GotForward
<1>10. RecordRight(x)'
  BY <1>8, <1>9 DEF RecordRight
<1> QED
  BY <1>0, <1>1, <1>3, <1>4, <1>5, <1>10

\* A copy that a request may take in hand.
Takeable(r, pc, copy) ==
  /\ copy.from >= 0 /\ copy.from <= day /\ Fits(PageOf(r), copy.from, copy.expires)
  /\ pc = "revive" => PageOf(r) \in Sliding
  /\ PageOf(r) \notin raced => told[PageOf(r)] <= copy.from

Takes(r, pc, copy) ==
  /\ day' = day /\ raced' = raced /\ asked' = asked /\ told' = told
  /\ reader' = [reader EXCEPT ![r].pc = pc, ![r].copy = copy]

LEMMA TakeRight ==
  ASSUME TmdbTypeOK, ReadersTyped, NEW r \in Reader, RecordRight(reader[r]),
         Active(reader[r]), NEW pc \in {"touch", "forget", "revive", "insert"},
         NEW copy \in CopyType, Takeable(r, pc, copy), Takes(r, pc, copy)
  PROVE  /\ Onwards /\ TimesTyped
         /\ reader' = [reader EXCEPT ![r] = reader'[r]]
         /\ reader'[r] \in ReaderSet /\ RecordRight(reader[r])'
<1> USE DEF Takeable, Takes
<1>0. PICK old : old = reader[r]
  OBVIOUS
<1>1. PICK x : x = [old EXCEPT !.pc = pc, !.copy = copy]
  OBVIOUS
<1>2. old \in ReaderSet /\ RecordRight(old) /\ Active(old)
  BY <1>0 DEF ReadersTyped
<1>3. reader' = [reader EXCEPT ![r] = x] /\ reader'[r] = x
  BY <1>0, <1>1 DEF ReadersTyped
<1>4. /\ x \in ReaderSet /\ x.pc = pc /\ x.left = old.left /\ x.copy = copy
      /\ x.since = old.since /\ x.began = old.began /\ x.got = old.got
      /\ x.extend = old.extend
  BY <1>1, <1>2 DEF ReaderSet, ReaderPc
<1>5. Onwards /\ TimesTyped
  BY StoresKept
<1>6. RecordRight(old)'
  BY <1>2, <1>5, Stays
<1>7. (OnItsPage(old) /\ Forward(old) /\ GotForward(old))' /\ OnItsPage(old) /\ Forward(old)
  BY <1>2, <1>6 DEF RecordRight, Active
<1>8. OnItsPage(x)'
  BY <1>0, <1>4, <1>7 DEF OnItsPage, PageOf
<1>9. PICK p \in Page : p = Head(old.left)
  BY <1>2, <1>7, Fields DEF OnItsPage
<1>10. Fits(p, copy.from, copy.expires)'
  BY <1>0, <1>9 DEF Fits, PageOf, Until
<1>11. InHand(x)'
  BY <1>4, <1>9, <1>10 DEF InHand
<1>12. Forward(x)' /\ GotForward(x)'
  <2>1. old.began[p] \in Int /\ old.began[p] <= told[p] /\ told[p] \in Int
        /\ copy.from \in Int
    BY <1>7, <1>9, OfPage DEF OnItsPage, Forward, CopyType
  <2>2. p \notin raced => old.began[p] <= copy.from
    BY <1>0, <1>9, <2>1 DEF PageOf
  <2> QED
    BY <1>4, <1>7, <1>9, <2>1, <2>2 DEF Forward, GotForward
<1>13. RecordRight(x)'
  BY <1>8, <1>11, <1>12 DEF RecordRight
<1> QED
  BY <1>0, <1>1, <1>3, <1>4, <1>5, <1>13
-----------------------------------------------------------------------------
(***************************************************************************)
(* What leaves PageInv of a page as it is: requests take in hand what the  *)
(* memory or the table has, copies go or come from the table's, and told   *)
(* is what one had in hand.                                                *)
(***************************************************************************)
InHandOf(q, p) == Reading(reader[q], p) \/ Carrying(reader[q], p)
News(x, old, p) ==
  /\ Reading(x, p) => \/ Reading(old, p) /\ x.copy.from = old.copy.from
                      \/ memory[p] # NoCopy /\ x.copy.from = memory[p].from
  /\ Carrying(x, p) => \/ Carrying(old, p) /\ x.copy.from = old.copy.from
                       \/ table[p] # NoCopy /\ x.copy.from = table[p].from
  /\ HasFetched(x, p) => HasFetched(old, p) /\ x.copy.from = old.copy.from /\ x.pc = old.pc
QuietReaders(p) == \A q \in Reader : News(reader'[q], reader[q], p)
QuietMemory(p) ==
  \/ memory'[p] = NoCopy
  \/ memory[p] # NoCopy /\ memory'[p].from = memory[p].from
  \/ \E q \in Reader : Carrying(reader[q], p) /\ memory'[p].from = reader[q].copy.from
QuietTable(p) ==
  \/ table'[p] = NoCopy
  \/ table[p] # NoCopy /\ table'[p].from = table[p].from
QuietTold(p) ==
  \/ told'[p] = told[p]
  \/ \E q \in Reader : InHandOf(q, p) /\ told'[p] = Later(told[p], reader[q].copy.from)
Quiet(p) == QuietReaders(p) /\ QuietMemory(p) /\ QuietTable(p) /\ QuietTold(p)

\* Nothing newer than X has been told or can be.
Ahead(p, X) ==
  /\ told[p] <= X
  /\ \A q \in Reader : InHandOf(q, p) => reader[q].copy.from <= X
  /\ memory[p] # NoCopy => memory[p].from <= X

LEMMA AheadOfAll ==
  ASSUME TmdbTypeOK, ReadersTyped, NEW p \in Page, PageInv(p)
  PROVE  /\ memory[p] # NoCopy => Ahead(p, memory[p].from)
         /\ table[p] # NoCopy => Ahead(p, table[p].from)
         /\ \A r \in Reader : Carrying(reader[r], p) \/ HasFetched(reader[r], p) =>
              Ahead(p, reader[r].copy.from)
<1>1. memory[p].from \in Int /\ table[p].from \in Int /\ told[p] \in Int
  BY OfPage
<1>2. \A r \in Reader : reader[r].copy.from \in Int
  BY Fields DEF ReadersTyped
<1>3. memory[p] # NoCopy => Ahead(p, memory[p].from)
  BY <1>1, <1>2 DEF PageInv, Ahead, Newest, Agrees, InHandOf
<1>4. table[p] # NoCopy => Ahead(p, table[p].from)
  BY <1>1, <1>2 DEF PageInv, Ahead, Newest, Agrees, InHandOf
<1>5. ASSUME NEW r \in Reader, Carrying(reader[r], p)
      PROVE  Ahead(p, reader[r].copy.from)
  BY <1>1, <1>2, <1>5 DEF PageInv, Ahead, Newest, Agrees, InHandOf
<1>6. ASSUME NEW r \in Reader, HasFetched(reader[r], p)
      PROVE  Ahead(p, reader[r].copy.from)
  <2>1. ~Carrying(reader[r], p)
    BY <1>6 DEF HasFetched, Carrying
  <2> QED
    BY <1>1, <1>2, <1>6, <2>1 DEF PageInv, Ahead, Newest, InHandOf
<1> QED
  BY <1>3, <1>4, <1>5, <1>6

LEMMA AheadKept ==
  ASSUME TmdbTypeOK, ReadersTyped, NEW p \in Page, NEW X \in Int, Ahead(p, X), Quiet(p)
  PROVE  Newest(p, X)'
<1>1. told[p] \in Int /\ \A r \in Reader : reader[r].copy.from \in Int
  BY OfPage, Fields DEF ReadersTyped
<1>2. told'[p] <= X
  <2>1. CASE told'[p] = told[p]
    BY <2>1 DEF Ahead
  <2>2. ASSUME NEW q \in Reader, InHandOf(q, p),
               told'[p] = Later(told[p], reader[q].copy.from)
        PROVE  told'[p] <= X
    BY <1>1, <2>2 DEF Ahead, Later
  <2> QED
    BY <2>1, <2>2 DEF Quiet, QuietTold
<1>3. ASSUME NEW q \in Reader, Reading(reader'[q], p)
      PROVE  reader'[q].copy.from <= X
  BY <1>1, <1>3 DEF Quiet, QuietReaders, News, Ahead, InHandOf
<1> QED
  BY <1>2, <1>3 DEF Newest, Reading

\* What the table has, and what is brought back from it.
Rows(p, X) ==
  \/ table[p] # NoCopy /\ table[p].from = X
  \/ \E r \in Reader : Carrying(reader[r], p) /\ reader[r].copy.from = X

LEMMA RowsAgree ==
  ASSUME NEW p \in Page, PageInv(p), NEW X \in Int, Rows(p, X), Quiet(p)
  PROVE  /\ Agrees(p, X)'
         /\ \A q \in Reader : Carrying(reader'[q], p) => reader'[q].copy.from = X
<1>1. /\ memory[p] # NoCopy => memory[p].from = X
      /\ table[p] # NoCopy => table[p].from = X
      /\ \A q \in Reader : Carrying(reader[q], p) => reader[q].copy.from = X
  BY DEF PageInv, Agrees, Rows
<1>2. Agrees(p, X)'
  BY <1>1 DEF Agrees, Quiet, QuietMemory, QuietTable
<1> QED
  BY <1>1, <1>2 DEF Quiet, QuietReaders, News

LEMMA AheadOfReader ==
  ASSUME TmdbTypeOK, ReadersTyped, NEW p \in Page, PageInv(p), NEW r \in Reader,
         Carrying(reader[r], p) \/ HasFetched(reader[r], p)
  PROVE  Ahead(p, reader[r].copy.from)
  BY AheadOfAll

LEMMA PageKept ==
  ASSUME TmdbTypeOK, ReadersTyped, NEW p \in Page, PageInv(p), Quiet(p)
  PROVE  PageInv(p)'
<1>1. memory[p].from \in Int /\ table[p].from \in Int
      /\ \A r \in Reader : reader[r].copy.from \in Int
  BY OfPage, Fields DEF ReadersTyped
<1>2. ASSUME memory'[p] # NoCopy PROVE Newest(p, memory[p].from)'
  <2>1. PICK X : X = memory'[p].from
    OBVIOUS
  <2>2. CASE memory[p] # NoCopy /\ memory'[p].from = memory[p].from
    <3>1. X \in Int /\ Ahead(p, X)
      BY <1>1, <2>1, <2>2, AheadOfAll
    <3> QED
      BY <3>1, <2>1, AheadKept
  <2>3. ASSUME NEW q \in Reader, Carrying(reader[q], p),
               memory'[p].from = reader[q].copy.from
        PROVE  Newest(p, memory[p].from)'
    <3>1. X \in Int /\ Ahead(p, X)
      BY <1>1, <2>1, <2>3, AheadOfReader
    <3> QED
      BY <3>1, <2>1, AheadKept
  <2> QED
    BY <1>2, <2>2, <2>3 DEF Quiet, QuietMemory
<1>3. ASSUME table'[p] # NoCopy
      PROVE  Newest(p, table[p].from)' /\ Agrees(p, table[p].from)'
  <2>1. PICK X : X = table'[p].from
    OBVIOUS
  <2>2. table[p] # NoCopy /\ X = table[p].from
    BY <1>3, <2>1 DEF Quiet, QuietTable
  <2>3. X \in Int /\ Ahead(p, X) /\ Rows(p, X)
    BY <1>1, <2>2, AheadOfAll DEF Rows
  <2> QED
    BY <2>1, <2>3, AheadKept, RowsAgree
<1>4. ASSUME NEW r \in Reader, Carrying(reader'[r], p)
      PROVE  /\ Newest(p, reader[r].copy.from)' /\ Agrees(p, reader[r].copy.from)'
             /\ \A q \in Reader : Carrying(reader'[q], p) =>
                  reader'[q].copy.from = reader'[r].copy.from
  <2>1. PICK X : X = reader'[r].copy.from
    OBVIOUS
  <2>2. News(reader'[r], reader[r], p)
    BY DEF Quiet, QuietReaders
  <2>3. X \in Int /\ Ahead(p, X) /\ Rows(p, X)
    <3>1. CASE Carrying(reader[r], p) /\ X = reader[r].copy.from
      BY <1>1, <3>1, AheadOfReader DEF Rows
    <3>2. CASE table[p] # NoCopy /\ X = table[p].from
      BY <1>1, <3>2, AheadOfAll DEF Rows
    <3> QED
      BY <1>4, <2>1, <2>2, <3>1, <3>2 DEF News
  <2> QED
    BY <2>1, <2>3, AheadKept, RowsAgree
<1>5. ASSUME NEW r \in Reader, HasFetched(reader'[r], p)
      PROVE  /\ Newest(p, reader[r].copy.from)' /\ table'[p] = NoCopy
             /\ \A q \in Reader \ {r} : ~Carrying(reader'[q], p) /\ ~HasFetched(reader'[q], p)
             /\ memory'[p] # NoCopy => memory'[p].from <= reader'[r].copy.from
             /\ memory'[p] # NoCopy /\ reader'[r].pc = "store" =>
                  memory'[p].from = reader'[r].copy.from
  <2>1. PICK X : X = reader'[r].copy.from
    OBVIOUS
  <2>2. HasFetched(reader[r], p) /\ X = reader[r].copy.from /\ reader'[r].pc = reader[r].pc
    BY <1>5, <2>1 DEF Quiet, QuietReaders, News
  <2>3. X \in Int /\ Ahead(p, X)
    BY <1>1, <2>2, AheadOfReader
  <2>4. /\ table[p] = NoCopy
        /\ \A q \in Reader \ {r} : ~Carrying(reader[q], p) /\ ~HasFetched(reader[q], p)
        /\ memory[p] # NoCopy => memory[p].from <= X
        /\ memory[p] # NoCopy /\ reader[r].pc = "store" => memory[p].from = X
    BY <2>2 DEF PageInv
  <2>5. ~Carrying(reader[r], p)
    BY <2>2 DEF HasFetched, Carrying
  <2>6. \A q \in Reader : ~Carrying(reader[q], p)
    BY <2>4, <2>5
  <2>7. table'[p] = NoCopy
    BY <2>4 DEF Quiet, QuietTable
  <2>8. \A q \in Reader \ {r} : ~Carrying(reader'[q], p) /\ ~HasFetched(reader'[q], p)
    BY <2>4 DEF Quiet, QuietReaders, News
  <2>9. memory'[p] # NoCopy => memory[p] # NoCopy /\ memory'[p].from = memory[p].from
    BY <2>6 DEF Quiet, QuietMemory
  <2>10. Newest(p, X)'
    BY <2>3, AheadKept
  <2> QED
    BY <2>1, <2>2, <2>4, <2>7, <2>8, <2>9, <2>10
<1> QED
  BY <1>2, <1>3, <1>4, <1>5 DEF PageInv, Carrying, HasFetched
-----------------------------------------------------------------------------
AllQuiet == \A p \in Page \ raced' : Quiet(p)

LEMMA OneReader ==
  ASSUME ReadersTyped, NEW r \in Reader, reader' = [reader EXCEPT ![r] = reader'[r]],
         NEW p, News(reader'[r], reader[r], p)
  PROVE  QuietReaders(p)
<1> SUFFICES ASSUME NEW q \in Reader, q # r PROVE News(reader'[q], reader[q], p)
  BY DEF QuietReaders
<1>1. reader'[q] = reader[q]
  BY DEF ReadersTyped
<1> QED
  BY <1>1 DEF News

LEMMA NothingNew ==
  ASSUME NEW x, x.pc \notin Holding, NEW old, NEW p
  PROVE  News(x, old, p)
  BY DEF News, Holding, Reading, Carrying, HasFetched

LEMMA StoresQuiet ==
  ASSUME NEW p \in Page
  PROVE  /\ memory' = memory => QuietMemory(p)
         /\ table' = table => QuietTable(p)
         /\ told' = told => QuietTold(p)
  BY DEF QuietMemory, QuietTable, QuietTold

LEMMA InvKept ==
  ASSUME TmdbIInv, Basics', raced \subseteq raced', AllQuiet
  PROVE  TmdbIInv'
<1>1. PagesRight'
  <2> SUFFICES ASSUME NEW p \in Page, p \notin raced' PROVE PageInv(p)'
    BY DEF PagesRight
  <2>1. TmdbTypeOK /\ ReadersTyped /\ PageInv(p) /\ Quiet(p)
    BY DEF TmdbIInv, PagesRight, AllQuiet
  <2> QED
    BY <2>1, PageKept
<1> QED
  BY <1>1 DEF TmdbIInv, Basics

LEMMA InvBasics == TmdbIInv => /\ Basics /\ TmdbTypeOK /\ ReadersTyped /\ CopiesGood
                               /\ ReadersRight /\ PagesRight
  BY DEF TmdbIInv, Basics

\* A request in hand has a page.
LEMMA AtPage ==
  ASSUME TmdbIInv, NEW r \in Reader
  PROVE  /\ RecordRight(reader[r]) /\ reader[r] \in ReaderSet
         /\ Active(reader[r]) =>
              /\ PageOf(r) \in Page
              /\ OnItsPage(reader[r]) /\ InHand(reader[r]) /\ Forward(reader[r])
<1>1. RecordRight(reader[r]) /\ reader[r] \in ReaderSet
  BY DEF TmdbIInv, ReadersRight, ReadersTyped
<1>2. ASSUME Active(reader[r])
      PROVE  OnItsPage(reader[r]) /\ InHand(reader[r]) /\ Forward(reader[r])
  BY <1>1, <1>2 DEF RecordRight
<1>3. Active(reader[r]) => PageOf(r) \in Page
  BY <1>1, <1>2, Fields DEF OnItsPage, PageOf
<1> QED
  BY <1>1, <1>2, <1>3

LEMMA AskPageKeeps == ASSUME TmdbIInv, NEW r \in Reader, AskPage(r) PROVE TmdbIInv'
<1>1. Basics /\ TmdbTypeOK /\ ReadersTyped
  BY InvBasics
<1>2. PICK want \in Wants :
        /\ reader' = [reader EXCEPT
                        ![r] = Looking([Absent EXCEPT !.warm = want.warm, !.began = told],
                                       want.pages)]
        /\ asked' = [asked EXCEPT ![Head(want.pages)] = day]
  BY DEF AskPage
<1>3. day' = day /\ memory' = memory /\ table' = table /\ told' = told /\ raced' = raced
  BY DEF AskPage
<1>4. want.pages \in Seq(Page) /\ want.pages # << >> /\ want.warm \in BOOLEAN
  BY TmdbAssumption
<1>5. Head(want.pages) \in Page
  BY <1>4
<1>6. told \in [Page -> -1 .. day] /\ asked \in [Page -> -1 .. day] /\ day \in Int /\ day >= 0
  BY <1>1 DEF TmdbTypeOK
<1>7. PICK rec : rec = [Absent EXCEPT !.warm = want.warm, !.began = told]
  OBVIOUS
<1>8. rec \in ReaderSet /\ rec.began = told /\ rec.got = << >>
  <2>1. Absent \in ReaderSet /\ told \in [Page -> Int]
    BY <1>6, AbsentType
  <2> QED
    BY <1>4, <1>7, <2>1 DEF ReaderSet, Absent
<1>9. PICK x : x = Looking(rec, want.pages)
  OBVIOUS
<1>10. reader' = [reader EXCEPT ![r] = x] /\ reader'[r] = x
  BY <1>1, <1>2, <1>7, <1>9 DEF ReadersTyped
<1>11. asked' \in [Page -> -1 .. day] /\ asked'[Head(want.pages)] = day
       /\ \A p \in Page : asked[p] <= asked'[p]
  BY <1>2, <1>5, <1>6
<1>12. Onwards /\ TimesTyped
  BY <1>3, <1>6, <1>11 DEF Onwards, TimesTyped
<1>13. x \in ReaderSet /\ RecordRight(x)'
  <2>1. rec.began \in [Page -> Int] /\ \A p \in Page : rec.began[p] <= told'[p]
    BY <1>3, <1>6, <1>8
  <2>2. GotForward(rec)'
    BY <1>8 DEF GotForward
  <2> QED
    BY <1>1, <1>3, <1>4, <1>8, <1>9, <1>11, <2>1, <2>2, LookingRight
<1>14. x.pc \notin Holding
  BY <1>8, <1>9 DEF Looking, ReaderSet, Holding
<1>15. Basics'
  BY <1>1, <1>3, <1>10, <1>12, <1>13, StoresKept, BasicsKept
<1>16. AllQuiet
  <2> SUFFICES ASSUME NEW p \in Page PROVE Quiet(p)
    BY DEF AllQuiet
  <2> QED
    BY <1>1, <1>3, <1>10, <1>14, NothingNew, OneReader, StoresQuiet DEF Quiet
<1> QED
  BY <1>3, <1>15, <1>16, InvKept

RequestMoves(r) ==
  /\ Onwards /\ TimesTyped
  /\ reader' = [reader EXCEPT ![r] = reader'[r]]
  /\ reader'[r] \in ReaderSet /\ RecordRight(reader[r])'
StoresFine ==
  /\ memory' \in [Page -> CopySet] /\ MemoryKept
  /\ table' \in [Page -> CopySet] /\ TableKept
QuietAt(r, p) ==
  News(reader'[r], reader[r], p) /\ QuietMemory(p) /\ QuietTable(p) /\ QuietTold(p)
ActQuiet(r) == \A p \in Page \ raced : QuietAt(r, p)

LEMMA BasicsAct ==
  ASSUME TmdbIInv, NEW r \in Reader, RequestMoves(r), StoresFine, raced' \subseteq Page
  PROVE  Basics'
<1>1. Basics
  BY InvBasics
<1> QED
  BY <1>1, BasicsKept DEF RequestMoves, StoresFine

LEMMA ActKeeps ==
  ASSUME TmdbIInv, NEW r \in Reader, RequestMoves(r), StoresFine, raced' = raced,
         ActQuiet(r)
  PROVE  TmdbIInv'
<1>1. raced \subseteq Page /\ ReadersTyped
  BY InvBasics DEF TmdbTypeOK
<1>2. Basics'
  BY <1>1, BasicsAct
<1>3. AllQuiet
  <2> SUFFICES ASSUME NEW p \in Page, p \notin raced PROVE Quiet(p)
    BY DEF AllQuiet
  <2>1. QuietAt(r, p)
    BY DEF ActQuiet
  <2>2. QuietReaders(p)
    BY <2>1, <1>1, OneReader DEF QuietAt, RequestMoves
  <2> QED
    BY <2>1, <2>2 DEF Quiet, QuietAt
<1> QED
  BY <1>2, <1>3, InvKept

\* A request that goes on with what it has, or with nothing.
GoesOn(x, old) ==
  \/ x.pc \notin Holding
  \/ /\ x.left = old.left /\ x.copy = old.copy
     /\ \/ x.pc = "lengthen" /\ old.pc = "touch"
        \/ x.pc = "insert" /\ old.pc = "revive"

LEMMA GoesOnQuiet ==
  ASSUME NEW x, NEW old, GoesOn(x, old), NEW p
  PROVE  News(x, old, p)
<1>1. CASE x.pc \notin Holding
  BY <1>1, NothingNew
<1>2. CASE x.pc \in Holding
  BY <1>2 DEF GoesOn, News, Reading, Carrying, HasFetched
<1> QED
  BY <1>1, <1>2

\* A request marks where it is, and the stores lose at most a copy.
LEMMA StepKeeps ==
  ASSUME TmdbIInv, NEW r \in Reader, Active(reader[r]), day' = day, raced' = raced,
         NEW pc \in ReaderPc, Step(r, pc),
         \/ pc \notin Holding
         \/ /\ pc = "lengthen" /\ reader[r].pc = "touch" /\ PageOf(r) \in Sliding
         \/ /\ pc = "insert" /\ reader[r].pc = "revive",
         StoresFine, \A p \in Page : QuietMemory(p) /\ QuietTable(p)
  PROVE  TmdbIInv'
<1>1. TmdbTypeOK /\ ReadersTyped /\ RecordRight(reader[r]) /\ reader[r] \in ReaderSet
  BY InvBasics, AtPage
<1>2. /\ pc \notin {"keep", "store"}
      /\ pc \in Holding => reader[r].pc \in Holding \ {"keep"}
      /\ pc \in {"lengthen", "revive"} => PageOf(r) \in Sliding
  BY DEF Holding
<1>3. RequestMoves(r) /\ reader'[r] = [reader[r] EXCEPT !.pc = pc]
  BY <1>1, <1>2, StepRight DEF RequestMoves
<1>4. GoesOn(reader'[r], reader[r])
  BY <1>1, <1>3 DEF GoesOn, ReaderSet
<1>5. told' = told
  BY DEF Step
<1>6. ActQuiet(r)
  BY <1>4, <1>5, GoesOnQuiet DEF ActQuiet, QuietAt, QuietTold
<1> QED
  BY <1>3, <1>6, ActKeeps

\* A copy leaves.
LEMMA MemoryLoses ==
  ASSUME TmdbTypeOK, NEW p \in Page, memory' = [memory EXCEPT ![p] = NoCopy]
  PROVE  memory' \in [Page -> CopySet] /\ MemoryKept /\ \A q \in Page : QuietMemory(q)
<1>1. memory \in [Page -> CopySet] /\ NoCopy \in CopySet
  BY DEF TmdbTypeOK, CopySet, NoCopy
<1>2. \A q \in Page : memory'[q] \in {memory[q], NoCopy}
  BY <1>1
<1> QED
  BY <1>1, <1>2 DEF MemoryKept, QuietMemory

LEMMA TableLoses ==
  ASSUME TmdbTypeOK, NEW p \in Page, table' = [table EXCEPT ![p] = NoCopy]
  PROVE  table' \in [Page -> CopySet] /\ TableKept /\ \A q \in Page : QuietTable(q)
<1>1. table \in [Page -> CopySet] /\ NoCopy \in CopySet
  BY DEF TmdbTypeOK, CopySet, NoCopy
<1>2. \A q \in Page : table'[q] \in {table[q], NoCopy}
  BY <1>1
<1> QED
  BY <1>1, <1>2 DEF TableKept, QuietTable

LEMMA MemorySame ==
  ASSUME TmdbTypeOK, memory' = memory
  PROVE  memory' \in [Page -> CopySet] /\ MemoryKept /\ \A q \in Page : QuietMemory(q)
  BY DEF TmdbTypeOK, MemoryKept, QuietMemory

LEMMA TableSame ==
  ASSUME TmdbTypeOK, table' = table
  PROVE  table' \in [Page -> CopySet] /\ TableKept /\ \A q \in Page : QuietTable(q)
  BY DEF TmdbTypeOK, TableKept, QuietTable

LEMMA ForgetCopyKeeps == ASSUME TmdbIInv, NEW r \in Reader, ForgetCopy(r) PROVE TmdbIInv'
<1>1. Active(reader[r]) /\ Step(r, "table") /\ day' = day /\ raced' = raced
      /\ table' = table /\ memory' = [memory EXCEPT ![PageOf(r)] = NoCopy]
  BY DEF ForgetCopy, Active
<1>2. TmdbTypeOK /\ PageOf(r) \in Page
  BY <1>1, AtPage, InvBasics
<1>3. StoresFine /\ \A p \in Page : QuietMemory(p) /\ QuietTable(p)
  BY <1>1, <1>2, MemoryLoses, TableSame DEF StoresFine
<1>4. "table" \in ReaderPc /\ "table" \notin Holding
  BY DEF ReaderPc, Holding
<1> QED
  BY <1>1, <1>3, <1>4, StepKeeps

LEMMA DeleteRowKeeps == ASSUME TmdbIInv, NEW r \in Reader, DeleteRow(r) PROVE TmdbIInv'
<1>1. Active(reader[r]) /\ Step(r, "ask") /\ day' = day /\ raced' = raced
      /\ memory' = memory /\ table' = [table EXCEPT ![PageOf(r)] = NoCopy]
  BY DEF DeleteRow, Active
<1>2. TmdbTypeOK /\ PageOf(r) \in Page
  BY <1>1, AtPage, InvBasics
<1>3. StoresFine /\ \A p \in Page : QuietMemory(p) /\ QuietTable(p)
  BY <1>1, <1>2, MemorySame, TableLoses DEF StoresFine
<1>4. "ask" \in ReaderPc /\ "ask" \notin Holding
  BY DEF ReaderPc, Holding
<1> QED
  BY <1>1, <1>3, <1>4, StepKeeps

LEMMA PageFailsKeeps == ASSUME TmdbIInv, NEW r \in Reader, PageFails(r) PROVE TmdbIInv'
<1>1. Active(reader[r]) /\ Miss(r) /\ day' = day /\ raced' = raced
      /\ memory' = memory /\ table' = table /\ told' = told
  BY DEF PageFails, Active, Miss
<1>2. TmdbTypeOK /\ ReadersTyped /\ RecordRight(reader[r])
  BY AtPage, InvBasics
<1>3. StoresFine /\ \A p \in Page : QuietMemory(p) /\ QuietTable(p) /\ QuietTold(p)
  BY <1>1, <1>2, MemorySame, TableSame DEF StoresFine, QuietTold
<1>4. RequestMoves(r) /\ reader'[r].pc \notin Holding
  <2>1. TimesTyped
    <3>1. asked' \in [Page -> -1 .. day] /\ told \in [Page -> -1 .. day]
      BY <1>1, <1>2, MissRight DEF TmdbTypeOK
    <3> QED
      BY <3>1, <1>1 DEF TimesTyped
  <2> QED
    BY <2>1, <1>1, <1>2, MissRight DEF RequestMoves
<1>5. ActQuiet(r)
  BY <1>3, <1>4, NothingNew DEF ActQuiet, QuietAt
<1> QED
  BY <1>1, <1>3, <1>4, <1>5, ActKeeps

LEMMA ReaderLeavesKeeps ==
  ASSUME TmdbIInv, NEW r \in Reader, ReaderLeaves(r) PROVE TmdbIInv'
<1>1. /\ reader' = [reader EXCEPT ![r] = Absent] /\ day' = day /\ raced' = raced
      /\ memory' = memory /\ table' = table /\ told' = told /\ asked' = asked
  BY DEF ReaderLeaves
<1>2. TmdbTypeOK /\ ReadersTyped
  BY InvBasics
<1>3. StoresFine /\ \A p \in Page : QuietMemory(p) /\ QuietTable(p) /\ QuietTold(p)
  BY <1>1, <1>2, MemorySame, TableSame DEF StoresFine, QuietTold
<1>4. reader'[r] = Absent
  BY <1>1, <1>2 DEF ReadersTyped
<1>5. Absent.pc \notin Holding
  BY DEF Absent, Holding
<1>6. RecordRight(reader[r])'
  BY <1>4 DEF Absent, RecordRight, Active, GotForward
<1>7. RequestMoves(r)
  BY <1>1, <1>2, <1>4, <1>6, AbsentType, StoresKept DEF RequestMoves
<1>8. ActQuiet(r)
  BY <1>3, <1>4, <1>5, NothingNew DEF ActQuiet, QuietAt
<1> QED
  BY <1>1, <1>3, <1>7, <1>8, ActKeeps
-----------------------------------------------------------------------------
\* The time of a copy of a sliding page does not depend on its age.
LEMMA SlidingFits ==
  ASSUME NEW p \in Sliding, NEW a, NEW b, NEW expires, Fits(p, a, expires)
  PROVE  Fits(p, b, expires)
  BY DEF Fits, Until

\* A good copy that takes the place of another of its age.
LEMMA Replaced ==
  ASSUME TmdbTypeOK, Onwards, NEW p \in Page, NEW copy \in CopySet, copy.from >= 0,
         Fits(p, copy.from, copy.expires)
  PROVE  /\ copy \in CopyType /\ copy # NoCopy /\ CopyGood(p, copy)'
         /\ memory' = [memory EXCEPT ![p] = copy] =>
              memory' \in [Page -> CopySet] /\ MemoryKept
         /\ table' = [table EXCEPT ![p] = copy] =>
              table' \in [Page -> CopySet] /\ TableKept
<1>1. copy \in CopyType /\ copy # NoCopy
  BY DEF CopySet, CopyType, NoCopy, TmdbTypeOK
<1>2. CopyGood(p, copy)'
  BY <1>1, CopyStays DEF CopyGood
<1>3. ASSUME memory' = [memory EXCEPT ![p] = copy]
      PROVE  memory' \in [Page -> CopySet] /\ MemoryKept
  <2>1. memory \in [Page -> CopySet]
    BY DEF TmdbTypeOK
  <2>2. memory'[p] = copy /\ \A q \in Page \ {p} : memory'[q] = memory[q]
    BY <1>3, <2>1
  <2>3. CopyGood(p, memory[p])'
    BY <1>2, <2>2
  <2> QED
    BY <1>3, <2>1, <2>2, <2>3 DEF MemoryKept
<1>4. ASSUME table' = [table EXCEPT ![p] = copy]
      PROVE  table' \in [Page -> CopySet] /\ TableKept
  <2>1. table \in [Page -> CopySet]
    BY DEF TmdbTypeOK
  <2>2. table'[p] = copy /\ \A q \in Page \ {p} : table'[q] = table[q]
    BY <1>4, <2>1
  <2>3. CopyGood(p, table[p])'
    BY <1>2, <2>2
  <2> QED
    BY <1>4, <2>1, <2>2, <2>3 DEF TableKept
<1> QED
  BY <1>1, <1>2, <1>3, <1>4

LEMMA TellKeeps ==
  ASSUME TmdbIInv, NEW r \in Reader, reader[r].pc \in {"touch", "lengthen", "insert"},
         day' = day, raced' = raced, Tell(r, reader[r].copy.from), StoresFine,
         \A p \in Page : QuietMemory(p) /\ QuietTable(p)
  PROVE  TmdbIInv'
<1>1. TmdbTypeOK /\ ReadersTyped /\ RecordRight(reader[r]) /\ reader[r].pc \in Holding
      /\ Active(reader[r])
  BY AtPage, InvBasics DEF Holding, Active
<1>2. /\ RequestMoves(r) /\ reader'[r].pc \notin Holding
      /\ told' = [told EXCEPT ![PageOf(r)] = Later(@, reader[r].copy.from)]
  BY <1>1, TellRight DEF RequestMoves, TimesTyped
<1>3. \A p \in Page : QuietTold(p)
  <2> SUFFICES ASSUME NEW p \in Page PROVE QuietTold(p)
    OBVIOUS
  <2>1. told \in [Page -> -1 .. day]
    BY <1>1 DEF TmdbTypeOK
  <2>2. CASE p = PageOf(r)
    <3>1. InHandOf(r, p)
      BY <2>2 DEF InHandOf, Reading, Carrying, PageOf
    <3>2. told'[p] = Later(told[p], reader[r].copy.from)
      BY <1>2, <2>1, <2>2
    <3> QED
      BY <3>1, <3>2 DEF QuietTold
  <2>3. CASE p # PageOf(r)
    BY <1>2, <2>1, <2>3 DEF QuietTold
  <2> QED
    BY <2>2, <2>3
<1>4. ActQuiet(r)
  BY <1>2, <1>3, NothingNew DEF ActQuiet, QuietAt
<1> QED
  BY <1>2, <1>4, ActKeeps

\* The row is lengthened, if there is one.
LEMMA RowLengthened ==
  ASSUME TmdbIInv, NEW r \in Reader, reader[r].pc \in {"lengthen", "revive"}, Onwards,
         table' = Lengthened(r)
  PROVE  table' \in [Page -> CopySet] /\ TableKept /\ \A q \in Page : QuietTable(q)
<1>1. Active(reader[r])
  BY DEF Active
<1>2. PICK p : p = PageOf(r)
  OBVIOUS
<1>3. /\ TmdbTypeOK /\ CopiesGood /\ p \in Page /\ p \in Sliding
      /\ OnItsPage(reader[r]) /\ InHand(reader[r]) /\ reader[r] \in ReaderSet
  BY <1>1, <1>2, AtPage, InvBasics DEF OnItsPage, PageOf
<1>4. PICK e : e = Extension(r, reader[r].copy.expires)
  OBVIOUS
<1>5. e \in Int /\ Fits(p, reader[r].copy.from, e)
  <2>1. Fits(p, reader[r].copy.from, reader[r].copy.expires)
    BY <1>2, <1>3 DEF InHand, PageOf, Holding
  <2>2. reader[r].copy.from \in Int /\ reader[r].copy.expires \in Int
    BY <1>3, Fields
  <2> QED
    BY <1>2, <1>3, <1>4, <2>1, <2>2, ExtensionFits
<1>6. table \in [Page -> CopySet]
  BY <1>3 DEF TmdbTypeOK
<1>7. CASE table[p] = NoCopy
  <2>1. table' = table
    <3>1. table' = [table EXCEPT ![p] = [NoCopy EXCEPT !.expires = @]]
      BY <1>2, <1>6, <1>7 DEF Lengthened
    <3>2. [NoCopy EXCEPT !.expires = @] = NoCopy
      BY DEF NoCopy
    <3> QED
      BY <3>1, <3>2, <1>6, <1>7
  <2> QED
    BY <2>1, <1>3, TableSame
<1>8. CASE table[p] # NoCopy
  <2>1. PICK row : row = table[p]
    OBVIOUS
  <2>2. PICK new : new = [row EXCEPT !.expires = Later(row.expires, e)]
    OBVIOUS
  <2>3. table' = [table EXCEPT ![p] = new]
    BY <1>2, <1>4, <1>6, <1>8, <2>1, <2>2 DEF Lengthened
  <2>4. row \in CopySet /\ row.from >= 0 /\ Fits(p, row.from, row.expires)
    BY <1>3, <1>6, <1>8, <2>1 DEF CopiesGood, CopyGood
  <2>5. Fits(p, row.from, e)
    BY <1>3, <1>5, SlidingFits
  <2>6. /\ Later(row.expires, e) \in {-1} \cup Nat
        /\ Fits(p, row.from, Later(row.expires, e))
    BY <1>5, <2>4, <2>5 DEF CopySet, Fits, Later
  <2>7. new \in CopySet /\ new.from = row.from /\ new.expires = Later(row.expires, e)
    BY <2>2, <2>4, <2>6 DEF CopySet
  <2>8. table' \in [Page -> CopySet] /\ TableKept
    BY <1>3, <2>3, <2>4, <2>6, <2>7, Replaced
  <2>9. \A q \in Page : QuietTable(q)
    BY <1>6, <1>8, <2>1, <2>3, <2>7 DEF QuietTable
  <2> QED
    BY <2>8, <2>9
<1> QED
  BY <1>7, <1>8

LEMMA ReviveRowKeeps == ASSUME TmdbIInv, NEW r \in Reader, ReviveRow(r) PROVE TmdbIInv'
<1>1. /\ Active(reader[r]) /\ reader[r].pc = "revive" /\ Step(r, "insert") /\ day' = day
      /\ raced' = raced /\ memory' = memory /\ table' = Lengthened(r)
      /\ told' = told /\ asked' = asked
  BY DEF ReviveRow, Active, Step
<1>2. TmdbTypeOK
  BY InvBasics
<1>3. Onwards
  BY <1>1, <1>2, StoresKept
<1>4. StoresFine /\ \A p \in Page : QuietMemory(p) /\ QuietTable(p)
  BY <1>1, <1>2, <1>3, MemorySame, RowLengthened DEF StoresFine
<1>5. "insert" \in ReaderPc
  BY DEF ReaderPc
<1> QED
  BY <1>1, <1>4, <1>5, StepKeeps

LEMMA LengthenRowKeeps ==
  ASSUME TmdbIInv, NEW r \in Reader, LengthenRow(r) PROVE TmdbIInv'
<1>1. /\ reader[r].pc = "lengthen" /\ day' = day /\ raced' = raced /\ memory' = memory
      /\ table' = Lengthened(r) /\ Tell(r, reader[r].copy.from)
  BY DEF LengthenRow
<1>2. TmdbTypeOK /\ ReadersTyped /\ RecordRight(reader[r]) /\ reader[r].pc \in Holding
  BY <1>1, AtPage, InvBasics DEF Holding
<1>3. Onwards
  BY <1>1, <1>2, TellRight
<1>4. StoresFine /\ \A p \in Page : QuietMemory(p) /\ QuietTable(p)
  BY <1>1, <1>2, <1>3, MemorySame, RowLengthened DEF StoresFine
<1> QED
  BY <1>1, <1>4, TellKeeps

LEMMA TouchCopyKeeps == ASSUME TmdbIInv, NEW r \in Reader, TouchCopy(r) PROVE TmdbIInv'
<1>0. PICK p : p = PageOf(r)
  OBVIOUS
<1>1. PICK e : e = Extension(r, reader[r].copy.expires)
  OBVIOUS
<1> DEFINE longer == e # reader[r].copy.expires
<1>2. /\ reader[r].pc = "touch" /\ day' = day /\ raced' = raced /\ table' = table
      /\ memory' = IF memory[p] = NoCopy THEN memory
                   ELSE [memory EXCEPT ![p].used = day,
                                       ![p].expires = IF longer THEN e ELSE @]
      /\ IF longer THEN Step(r, "lengthen") ELSE Tell(r, reader[r].copy.from)
  BY <1>0, <1>1 DEF TouchCopy
<1>3. Active(reader[r]) /\ reader[r].pc \in Holding
  BY <1>2 DEF Active, Holding
<1>4. /\ TmdbTypeOK /\ ReadersTyped /\ CopiesGood /\ p \in Page /\ RecordRight(reader[r])
      /\ OnItsPage(reader[r]) /\ InHand(reader[r]) /\ reader[r] \in ReaderSet
  BY <1>0, <1>3, AtPage, InvBasics
<1>5. e \in Int /\ Fits(p, reader[r].copy.from, e) /\ (longer => p \in Sliding)
  <2>1. Fits(p, reader[r].copy.from, reader[r].copy.expires)
    BY <1>0, <1>2, <1>4 DEF InHand, PageOf, Holding
  <2>2. reader[r].copy.from \in Int /\ reader[r].copy.expires \in Int
    BY <1>4, Fields
  <2> QED
    BY <1>0, <1>1, <1>4, <2>1, <2>2, ExtensionFits
<1>6. Onwards
  <2>1. CASE longer
    BY <2>1, <1>2, <1>4, StoresKept DEF Step
  <2>2. CASE ~longer
    BY <2>2, <1>2, <1>3, <1>4, TellRight
  <2> QED
    BY <2>1, <2>2
<1>7. memory' \in [Page -> CopySet] /\ MemoryKept /\ \A q \in Page : QuietMemory(q)
  <2>1. CASE memory[p] = NoCopy
    BY <2>1, <1>2, <1>4, MemorySame
  <2>2. CASE memory[p] # NoCopy
    <3>1. PICK old : old = memory[p]
      OBVIOUS
    <3>2. PICK f : f = IF longer THEN e ELSE old.expires
      OBVIOUS
    <3>3. PICK new : new = [old EXCEPT !.used = day, !.expires = f]
      OBVIOUS
    <3>4. memory \in [Page -> CopySet] /\ day \in Int /\ day >= 0
      BY <1>4 DEF TmdbTypeOK
    <3>5. memory' = [memory EXCEPT ![p] = new]
      BY <1>2, <1>4, <2>2, <3>1, <3>2, <3>3, <3>4
    <3>6. old \in CopySet /\ old.from >= 0 /\ Fits(p, old.from, old.expires)
      BY <1>4, <2>2, <3>1, <3>4 DEF CopiesGood, CopyGood
    <3>7. Fits(p, old.from, f) /\ f \in {-1} \cup Nat
      <4>1. CASE longer
        <5>1. Fits(p, old.from, e)
          BY <4>1, <1>5, SlidingFits
        <5> QED
          BY <4>1, <5>1, <1>5, <3>2 DEF Fits
      <4>2. CASE ~longer
        BY <4>2, <3>2, <3>6 DEF CopySet
      <4> QED
        BY <4>1, <4>2
    <3>8. new \in CopySet /\ new.from = old.from /\ new.expires = f
      <4>1. day \in -1 .. day
        BY <3>4
      <4>2. old = [from |-> old.from, expires |-> old.expires, used |-> old.used]
            /\ old.from \in -1 .. day
        BY <3>6 DEF CopySet
      <4>3. new = [from |-> old.from, expires |-> f, used |-> day]
        BY <3>3, <4>2
      <4> QED
        BY <4>1, <4>2, <4>3, <3>7 DEF CopySet
    <3>9. memory' \in [Page -> CopySet] /\ MemoryKept
      BY <1>4, <1>6, <3>5, <3>6, <3>7, <3>8, Replaced
    <3>10. \A q \in Page : QuietMemory(q)
      BY <2>2, <3>1, <3>4, <3>5, <3>8 DEF QuietMemory
    <3> QED
      BY <3>9, <3>10
  <2> QED
    BY <2>1, <2>2
<1>8. StoresFine /\ \A q \in Page : QuietMemory(q) /\ QuietTable(q)
  BY <1>2, <1>4, <1>7, TableSame DEF StoresFine
<1>9. CASE longer
  <2>1. "lengthen" \in ReaderPc
    BY DEF ReaderPc
  <2> QED
    BY <1>0, <1>2, <1>3, <1>5, <1>8, <1>9, <2>1, StepKeeps
<1>10. CASE ~longer
  BY <1>2, <1>8, <1>10, TellKeeps
<1> QED
  BY <1>9, <1>10
-----------------------------------------------------------------------------
LEMMA TakeKeeps ==
  ASSUME TmdbIInv, NEW r \in Reader, Active(reader[r]), day' = day, raced' = raced,
         asked' = asked, told' = told, memory' = memory, table' = table,
         NEW pc, NEW copy, copy # NoCopy,
         \/ pc \in {"touch", "forget"} /\ copy = memory[PageOf(r)]
         \/ pc \in {"revive", "insert"} /\ copy = table[PageOf(r)],
         pc = "revive" => PageOf(r) \in Sliding,
         reader' = [reader EXCEPT ![r].pc = pc, ![r].copy = copy]
  PROVE  TmdbIInv'
<1>1. PICK p : p = PageOf(r)
  OBVIOUS
<1>2. /\ TmdbTypeOK /\ ReadersTyped /\ CopiesGood /\ PagesRight /\ p \in Page
      /\ RecordRight(reader[r]) /\ reader[r] \in ReaderSet
  BY <1>1, AtPage, InvBasics
<1>3. /\ copy \in CopyType /\ copy.from >= 0 /\ copy.from <= day
      /\ Fits(p, copy.from, copy.expires)
  BY <1>1, <1>2, OfPage DEF CopiesGood, CopyGood
<1>4. p \notin raced => told[p] <= copy.from
  BY <1>1, <1>2 DEF PagesRight, PageInv, Newest
<1>5. RequestMoves(r) /\ reader'[r] = [reader[r] EXCEPT !.pc = pc, !.copy = copy]
  <2>1. pc \in {"touch", "forget", "revive", "insert"}
    OBVIOUS
  <2>2. Takeable(r, pc, copy)
    BY <1>1, <1>3, <1>4 DEF Takeable
  <2>3. Takes(r, pc, copy)
    BY DEF Takes
  <2>4. reader'[r] = [reader[r] EXCEPT !.pc = pc, !.copy = copy]
    BY <1>2 DEF ReadersTyped
  <2>5. RequestMoves(r)
    BY <1>2, <1>3, <2>1, <2>2, <2>3, TakeRight DEF RequestMoves
  <2> QED
    BY <2>4, <2>5
<1>6. StoresFine /\ \A q \in Page : QuietMemory(q) /\ QuietTable(q) /\ QuietTold(q)
  BY <1>2, MemorySame, TableSame DEF StoresFine, QuietTold
<1>7. reader'[r].pc = pc /\ reader'[r].copy = copy /\ reader'[r].left = reader[r].left
  <2>1. PICK old \in ReaderSet : old = reader[r]
    BY <1>2
  <2>2. [old EXCEPT !.pc = pc, !.copy = copy].pc = pc
        /\ [old EXCEPT !.pc = pc, !.copy = copy].copy = copy
        /\ [old EXCEPT !.pc = pc, !.copy = copy].left = old.left
    BY DEF ReaderSet
  <2> QED
    BY <1>5, <2>1, <2>2
<1>8. ASSUME NEW q PROVE News(reader'[r], reader[r], q)
  <2>1. Head(reader'[r].left) = q => q = p
    BY <1>1, <1>7 DEF PageOf
  <2> QED
    BY <1>1, <1>7, <2>1 DEF News, Reading, Carrying, HasFetched
<1>9. ActQuiet(r)
  BY <1>6, <1>8 DEF ActQuiet, QuietAt
<1> QED
  BY <1>5, <1>6, <1>9, ActKeeps

LEMMA LookInMemoryKeeps ==
  ASSUME TmdbIInv, NEW r \in Reader, LookInMemory(r) PROVE TmdbIInv'
<1>1. /\ Active(reader[r]) /\ day' = day /\ raced' = raced /\ memory' = memory
      /\ table' = table /\ told' = told /\ asked' = asked
  BY DEF LookInMemory, Active, Step
<1>2. CASE memory[PageOf(r)] = NoCopy
  <2>1. Step(r, "table") /\ "table" \in ReaderPc /\ "table" \notin Holding
    BY <1>2 DEF LookInMemory, ReaderPc, Holding
  <2>2. StoresFine /\ \A p \in Page : QuietMemory(p) /\ QuietTable(p)
    BY <1>1, InvBasics, MemorySame, TableSame DEF StoresFine
  <2> QED
    BY <1>1, <2>1, <2>2, StepKeeps
<1>3. CASE memory[PageOf(r)] # NoCopy
  <2>1. PICK copy : copy = memory[PageOf(r)]
    OBVIOUS
  <2>2. PICK pc \in {"touch", "forget"} :
          reader' = [reader EXCEPT ![r].pc = pc, ![r].copy = copy]
    <3>1. PICK pc : pc = IF GoodCopy(copy) THEN "touch" ELSE "forget"
      OBVIOUS
    <3> QED
      BY <3>1, <1>3, <2>1 DEF LookInMemory
  <2> QED
    BY <1>1, <1>3, <2>1, <2>2, TakeKeeps
<1> QED
  BY <1>2, <1>3

LEMMA LookInTableKeeps ==
  ASSUME TmdbIInv, NEW r \in Reader, LookInTable(r) PROVE TmdbIInv'
<1>1. /\ Active(reader[r]) /\ day' = day /\ raced' = raced /\ memory' = memory
      /\ table' = table /\ told' = told /\ asked' = asked
  BY DEF LookInTable, Active, Step
<1>2. CASE ~GoodCopy(table[PageOf(r)])
  <2>1. PICK pc \in {"ask", "delete"} : Step(r, pc)
    BY <1>2 DEF LookInTable, GoodCopy
  <2>2. pc \in ReaderPc /\ pc \notin Holding
    BY DEF ReaderPc, Holding
  <2>3. StoresFine /\ \A p \in Page : QuietMemory(p) /\ QuietTable(p)
    BY <1>1, InvBasics, MemorySame, TableSame DEF StoresFine
  <2> QED
    BY <1>1, <2>1, <2>2, <2>3, StepKeeps
<1>3. CASE GoodCopy(table[PageOf(r)])
  <2>1. PICK copy : copy = table[PageOf(r)]
    OBVIOUS
  <2>2. copy # NoCopy
    BY <1>3, <2>1 DEF GoodCopy
  <2>3. PICK pc : pc = IF Extension(r, copy.expires) # copy.expires
                       THEN "revive" ELSE "insert"
    OBVIOUS
  <2>4. reader' = [reader EXCEPT ![r].pc = pc, ![r].copy = copy]
    <3>1. reader' = [reader EXCEPT ![r].copy = copy, ![r].pc = pc]
      BY <1>3, <2>1, <2>2, <2>3 DEF LookInTable
    <3>2. reader[r] \in ReaderSet /\ ReadersTyped
      BY InvBasics, AtPage
    <3>3. [reader[r] EXCEPT !.copy = copy, !.pc = pc]
          = [reader[r] EXCEPT !.pc = pc, !.copy = copy]
      BY <3>2 DEF ReaderSet
    <3> QED
      BY <3>1, <3>2, <3>3 DEF ReadersTyped
  <2>5. pc = "revive" => PageOf(r) \in Sliding
    <3>1. /\ TmdbTypeOK /\ CopiesGood /\ PageOf(r) \in Page
          /\ OnItsPage(reader[r]) /\ reader[r] \in ReaderSet
      BY <1>1, InvBasics, AtPage
    <3>2. Fits(PageOf(r), copy.from, copy.expires)
      BY <2>1, <2>2, <3>1 DEF CopiesGood, CopyGood
    <3>3. copy.from \in Int /\ copy.expires \in Int
      BY <2>1, <3>1, OfPage
    <3> QED
      BY <2>3, <3>1, <3>2, <3>3, ExtensionFits
  <2>6. pc \in {"revive", "insert"}
    BY <2>3
  <2> QED
    BY <1>1, <2>1, <2>2, <2>4, <2>5, <2>6, TakeKeeps
<1> QED
  BY <1>2, <1>3

\* An answer is put into the memory, and others may leave it.
LEMMA Inserted ==
  ASSUME TmdbTypeOK, Onwards, NEW p \in Page, NEW from \in 0 .. day, NEW expires \in Int,
         Fits(p, from, expires), InsertCopy(p, from, expires)
  PROVE  /\ memory' \in [Page -> CopySet] /\ MemoryKept
         /\ \A q \in Page \ {p} : memory'[q] \in {memory[q], NoCopy}
         /\ memory'[p] # NoCopy => memory'[p].from = from
<1>1. PICK copy : copy = [from |-> from, expires |-> expires, used |-> day]
  OBVIOUS
<1>2. day \in Int /\ day >= 0 /\ memory \in [Page -> CopySet]
  BY DEF TmdbTypeOK
<1>3. copy \in CopySet /\ copy.from = from /\ copy.expires = expires
  BY <1>1, <1>2 DEF CopySet, Fits
<1>4. PICK copies : copies = [memory EXCEPT ![p] = copy]
  OBVIOUS
<1>5. memory' = Trimmed(copies)
  BY <1>1, <1>4 DEF InsertCopy
<1>6. copies \in [Page -> CopySet] /\ copies[p] = copy
      /\ \A q \in Page \ {p} : copies[q] = memory[q]
  BY <1>2, <1>3, <1>4
<1>7. NoCopy \in CopySet
  BY <1>2 DEF NoCopy, CopySet
<1>8. memory' \in [Page -> CopySet] /\ \A q \in Page : memory'[q] \in {copies[q], NoCopy}
  BY <1>5, <1>6, <1>7 DEF Trimmed
<1>9. CopyGood(p, copy)'
  BY <1>3, Replaced
<1>10. CopyGood(p, memory[p])'
  BY <1>6, <1>8, <1>9 DEF CopyGood
<1>11. MemoryKept
  BY <1>6, <1>8, <1>10 DEF MemoryKept
<1> QED
  BY <1>3, <1>6, <1>8, <1>11

LEMMA InsertRowKeeps == ASSUME TmdbIInv, NEW r \in Reader, InsertRow(r) PROVE TmdbIInv'
<1>0. PICK p : p = PageOf(r)
  OBVIOUS
<1>1. PICK from : from = reader[r].copy.from
  OBVIOUS
<1>2. PICK e : e = Extension(r, reader[r].copy.expires)
  OBVIOUS
<1>3. /\ reader[r].pc = "insert" /\ day' = day /\ raced' = raced /\ table' = table
      /\ InsertCopy(p, from, e) /\ Tell(r, reader[r].copy.from)
  BY <1>0, <1>1, <1>2 DEF InsertRow
<1>4. Active(reader[r]) /\ reader[r].pc \in Holding
  BY <1>3 DEF Active, Holding
<1>5. /\ TmdbTypeOK /\ ReadersTyped /\ p \in Page /\ RecordRight(reader[r])
      /\ OnItsPage(reader[r]) /\ InHand(reader[r]) /\ reader[r] \in ReaderSet
  BY <1>0, <1>4, AtPage, InvBasics
<1>6. Onwards
  BY <1>3, <1>4, <1>5, TellRight
<1>7. from \in 0 .. day /\ e \in Int /\ Fits(p, from, e)
  <2>1. Fits(p, from, reader[r].copy.expires) /\ from >= 0 /\ from <= day
    BY <1>0, <1>1, <1>3, <1>5 DEF InHand, PageOf, Holding
  <2>2. reader[r].copy.from \in Int /\ reader[r].copy.expires \in Int /\ day \in Int
    BY <1>5, Fields, Day
  <2> QED
    BY <1>0, <1>1, <1>2, <1>5, <2>1, <2>2, ExtensionFits
<1>8. /\ memory' \in [Page -> CopySet] /\ MemoryKept
      /\ \A q \in Page \ {p} : memory'[q] \in {memory[q], NoCopy}
      /\ memory'[p] # NoCopy => memory'[p].from = from
  BY <1>3, <1>5, <1>6, <1>7, Inserted
<1>9. \A q \in Page : QuietMemory(q)
  <2>1. Carrying(reader[r], p)
    BY <1>0, <1>3 DEF Carrying, PageOf
  <2> SUFFICES ASSUME NEW q \in Page PROVE QuietMemory(q)
    OBVIOUS
  <2>2. CASE q = p
    BY <1>1, <1>8, <2>1, <2>2 DEF QuietMemory
  <2>3. CASE q # p
    BY <1>8, <2>3 DEF QuietMemory
  <2> QED
    BY <2>2, <2>3
<1>10. StoresFine /\ \A q \in Page : QuietMemory(q) /\ QuietTable(q)
  BY <1>3, <1>5, <1>8, <1>9, TableSame DEF StoresFine
<1> QED
  BY <1>3, <1>10, TellKeeps
-----------------------------------------------------------------------------
\* The pages of which nothing new is heard keep PageInv; the other has it.
QuietBut(P) == \A p \in (Page \ raced') \ {P} : Quiet(p)
Settled(P) == P \notin raced' => PageInv(P)'

LEMMA InvMoved ==
  ASSUME TmdbIInv, Basics', raced \subseteq raced', NEW P \in Page, QuietBut(P), Settled(P)
  PROVE  TmdbIInv'
<1>1. PagesRight'
  <2> SUFFICES ASSUME NEW p \in Page, p \notin raced' PROVE PageInv(p)'
    BY DEF PagesRight
  <2>1. CASE p = P
    <3>1. PageInv(P)'
      BY <2>1 DEF Settled
    <3> QED
      BY <2>1, <3>1
  <2>2. CASE p # P
    <3>1. TmdbTypeOK /\ ReadersTyped /\ PageInv(p) /\ Quiet(p)
      BY <2>2 DEF TmdbIInv, PagesRight, QuietBut
    <3> QED
      BY <3>1, PageKept
  <2> QED
    BY <2>1, <2>2
<1> QED
  BY <1>1 DEF TmdbIInv, Basics

\* A request has something in hand of its own page only.
LEMMA Elsewhere ==
  ASSUME ReadersTyped, NEW r \in Reader, reader' = [reader EXCEPT ![r] = reader'[r]],
         NEW P, Head(reader'[r].left) = P, NEW p, p # P
  PROVE  QuietReaders(p)
<1>1. News(reader'[r], reader[r], p)
  BY DEF News, Reading, Carrying, HasFetched
<1> QED
  BY <1>1, OneReader

\* What TMDB has given, in the hand of the request.
Given(rec, p, pc, copy) ==
  /\ copy.from >= 0 /\ copy.from <= day /\ copy.from >= rec.since
  /\ copy.from >= rec.began[p] \/ p \in raced
  /\ pc = "store" => Fits(p, copy.from, copy.expires)

Handed(rec, pc, copy) == [rec EXCEPT !.pc = pc, !.copy = copy]

LEMMA GivenRight ==
  ASSUME TmdbTypeOK, Onwards, NEW old \in ReaderSet, RecordRight(old), Active(old),
         NEW p \in Page, p = Head(old.left), NEW pc \in {"keep", "store"},
         NEW copy \in CopyType, Given(old, p, pc, copy), asked' = asked,
         NEW x, x = Handed(old, pc, copy)
  PROVE  /\ x \in ReaderSet /\ RecordRight(x)'
         /\ x.pc = pc /\ x.left = old.left /\ x.copy = copy
<1>1. /\ x \in ReaderSet /\ x.pc = pc /\ x.left = old.left /\ x.copy = copy
      /\ x.since = old.since /\ x.began = old.began /\ x.got = old.got
      /\ x.extend = old.extend
  BY DEF ReaderSet, ReaderPc, Handed
<1>2. RecordRight(old)'
  BY Stays
<1>3. (OnItsPage(old) /\ Forward(old) /\ GotForward(old))'
  BY <1>2 DEF RecordRight, Active
<1>4. OnItsPage(x)'
  BY <1>1, <1>3 DEF OnItsPage
<1>5. Fits(p, copy.from, copy.expires)' <=> Fits(p, copy.from, copy.expires)
  BY DEF Fits, Until
<1>6. InHand(x)'
  BY <1>1, <1>5 DEF InHand, Given, Onwards
<1>7. Forward(x)' /\ GotForward(x)'
  BY <1>1, <1>3 DEF Forward, GotForward, Given, Onwards
<1> QED
  BY <1>1, <1>4, <1>6, <1>7 DEF RecordRight
-----------------------------------------------------------------------------
LEMMA TmdbAnswersKeeps == ASSUME TmdbIInv, NEW r \in Reader, TmdbAnswers(r) PROVE TmdbIInv'
<1>0. PICK p : p = PageOf(r)
  OBVIOUS
<1>1. PICK old : old = reader[r]
  OBVIOUS
<1>2. /\ reader[r].pc = "ask" /\ Active(reader[r]) /\ day' = day /\ memory' = memory
      /\ table' = table /\ asked' = asked /\ told' = told
  BY DEF TmdbAnswers, Active
<1>3. /\ TmdbTypeOK /\ ReadersTyped /\ Basics /\ p \in Page /\ p = Head(old.left)
      /\ RecordRight(old) /\ OnItsPage(old) /\ Forward(old) /\ old \in ReaderSet
      /\ Active(old)
  BY <1>0, <1>1, <1>2, AtPage, InvBasics DEF PageOf
<1>4. PICK copy : copy = [old.copy EXCEPT !.from = day]
  OBVIOUS
<1>5. PICK x : x = Handed(old, "keep", copy)
  OBVIOUS
<1>6. day \in Int /\ day >= 0
  BY <1>3, Day
<1>7. copy \in CopyType /\ copy.from = day
  <2>1. old.copy \in CopyType
    BY <1>3, Fields
  <2> QED
    BY <1>4, <1>6, <2>1 DEF CopyType
<1>8. reader' = [reader EXCEPT ![r] = x] /\ reader'[r] = x
  <2>1. reader' = [reader EXCEPT ![r] = [@ EXCEPT !.pc = "keep", !.copy.from = day]]
    BY DEF TmdbAnswers
  <2>2. x = [old EXCEPT !.pc = "keep", !.copy.from = day]
    BY <1>3, <1>4, <1>5 DEF ReaderSet, Handed
  <2> QED
    BY <1>1, <1>3, <2>1, <2>2 DEF ReadersTyped
<1>9. raced \subseteq raced' /\ raced' \subseteq Page
  BY <1>0, <1>3 DEF TmdbAnswers, TmdbTypeOK
<1>10. Onwards /\ TimesTyped
  BY <1>2, <1>3, <1>9, StoresKept
<1>11. Given(old, p, "keep", copy)
  <2>1. old.began[p] \in Int /\ old.began[p] <= told[p] /\ told[p] <= day /\ told[p] \in Int
    BY <1>3, OfPage DEF OnItsPage, Forward
  <2> QED
    BY <1>3, <1>6, <1>7, <2>1 DEF Given, OnItsPage
<1>12. x \in ReaderSet /\ RecordRight(x)' /\ x.pc = "keep" /\ x.left = old.left
       /\ x.copy = copy
  BY <1>2, <1>3, <1>5, <1>7, <1>10, <1>11, GivenRight
<1>13. Basics'
  BY <1>2, <1>3, <1>8, <1>9, <1>10, <1>12, StoresKept, BasicsKept
<1>14. QuietBut(p)
  <2> SUFFICES ASSUME NEW q \in Page, q # p PROVE Quiet(q)
    BY DEF QuietBut
  <2>1. QuietReaders(q)
    BY <1>3, <1>8, <1>12, Elsewhere
  <2> QED
    BY <1>2, <2>1, StoresQuiet DEF Quiet
<1>15. Settled(p)
  <2> SUFFICES ASSUME p \notin raced' PROVE PageInv(p)'
    BY DEF Settled
  <2>1. /\ p \notin raced /\ table[p] = NoCopy
        /\ \A q \in Reader \ {r} : ~Bringing(q, p)
    BY <1>0 DEF TmdbAnswers
  <2>2. \A q \in Reader \ {r} : reader'[q] = reader[q]
    BY <1>3, <1>8 DEF ReadersTyped
  <2>3. PageInv(p)
    BY <1>3, <2>1 DEF TmdbIInv, PagesRight
  <2>4. \A q \in Reader : ~Carrying(reader'[q], p)
    BY <1>8, <1>12, <2>1, <2>2 DEF Carrying, Bringing, PageOf
  <2>5. \A q \in Reader \ {r} : ~HasFetched(reader'[q], p)
    BY <2>1, <2>2 DEF HasFetched, Bringing, PageOf
  <2>6. \A q \in Reader : Reading(reader'[q], p) => q # r /\ Reading(reader[q], p)
    BY <1>8, <1>12, <2>2 DEF Reading
  <2>7. memory[p] # NoCopy => Newest(p, memory[p].from)'
    BY <1>2, <2>2, <2>3, <2>6 DEF PageInv, Newest
  <2>8. Newest(p, day)'
    <3>1. told[p] <= day
      BY <1>3, OfPage
    <3>2. ASSUME NEW q \in Reader, Reading(reader[q], p) PROVE reader[q].copy.from <= day
      BY <3>2, AtPage DEF Reading, Active, InHand
    <3> QED
      BY <1>2, <2>2, <2>6, <3>1, <3>2 DEF Newest
  <2>9. memory[p] # NoCopy => memory[p].from <= day
    BY <1>3, OfPage
  <2> QED
    BY <1>2, <1>7, <1>8, <1>12, <2>1, <2>4, <2>5, <2>7, <2>8, <2>9 DEF PageInv
<1> QED
  BY <1>3, <1>9, <1>13, <1>14, <1>15, InvMoved

LEMMA KeepAnswerKeeps == ASSUME TmdbIInv, NEW r \in Reader, KeepAnswer(r) PROVE TmdbIInv'
<1>0. PICK p : p = PageOf(r)
  OBVIOUS
<1>1. PICK old : old = reader[r]
  OBVIOUS
<1>2. PICK e : e = day + Ttl[p]
  OBVIOUS
<1>3. PICK from : from = old.copy.from
  OBVIOUS
<1>4. /\ reader[r].pc = "keep" /\ Active(reader[r]) /\ day' = day /\ raced' = raced
      /\ table' = table /\ asked' = asked /\ told' = told
      /\ InsertCopy(p, from, e)
  BY <1>0, <1>1, <1>2, <1>3 DEF KeepAnswer, Active
<1>5. /\ TmdbTypeOK /\ ReadersTyped /\ Basics /\ p \in Page /\ p = Head(old.left)
      /\ RecordRight(old) /\ OnItsPage(old) /\ InHand(old) /\ Forward(old)
      /\ old \in ReaderSet /\ Active(old)
  BY <1>0, <1>1, <1>4, AtPage, InvBasics DEF PageOf
<1>6. /\ day \in Int /\ day >= 0 /\ Ttl[p] \in Int /\ Ttl[p] > 0 /\ e \in Int
      /\ asked[p] \in Int /\ old.since \in Int /\ from \in Int
  BY <1>2, <1>3, <1>5, Day, OfPage, Fields
<1>7. /\ from >= 0 /\ from <= day /\ from >= old.since
      /\ old.since >= day - 1 /\ old.since <= asked[p]
      /\ from >= old.began[p] \/ p \in raced
  BY <1>1, <1>3, <1>4, <1>5 DEF OnItsPage, InHand, Forward, Holding
<1>8. Fits(p, from, e)
  BY <1>2, <1>6, <1>7 DEF Fits, Until
<1>9. PICK copy : copy = [old.copy EXCEPT !.expires = e]
  OBVIOUS
<1>10. copy \in CopyType /\ copy.from = from /\ copy.expires = e
  <2>1. old.copy \in CopyType
    BY <1>5, Fields
  <2> QED
    BY <1>3, <1>6, <1>9, <2>1 DEF CopyType
<1>11. PICK x : x = Handed(old, "store", copy)
  OBVIOUS
<1>12. reader' = [reader EXCEPT ![r] = x] /\ reader'[r] = x
  <2>1. reader' = [reader EXCEPT ![r] = [@ EXCEPT !.pc = "store", !.copy.expires = e]]
    BY <1>0, <1>2 DEF KeepAnswer
  <2>2. x = [old EXCEPT !.pc = "store", !.copy.expires = e]
    BY <1>5, <1>9, <1>11 DEF ReaderSet, Handed
  <2> QED
    BY <1>1, <1>5, <2>1, <2>2 DEF ReadersTyped
<1>13. Onwards /\ TimesTyped /\ raced \subseteq raced' /\ raced' \subseteq Page
  BY <1>4, <1>5, StoresKept DEF TmdbTypeOK
<1>14. Given(old, p, "store", copy)
  BY <1>7, <1>8, <1>10 DEF Given
<1>15. x \in ReaderSet /\ RecordRight(x)' /\ x.pc = "store" /\ x.left = old.left
       /\ x.copy = copy
  BY <1>4, <1>5, <1>10, <1>11, <1>13, <1>14, GivenRight
<1>16. /\ memory' \in [Page -> CopySet] /\ MemoryKept
       /\ \A q \in Page \ {p} : memory'[q] \in {memory[q], NoCopy}
       /\ memory'[p] # NoCopy => memory'[p].from = from
  <2>1. from \in 0 .. day
    BY <1>6, <1>7
  <2> QED
    BY <1>4, <1>5, <1>6, <1>8, <1>13, <2>1, Inserted
<1>17. Basics'
  BY <1>4, <1>5, <1>12, <1>13, <1>15, <1>16, StoresKept, BasicsKept
<1>18. QuietBut(p)
  <2> SUFFICES ASSUME NEW q \in Page, q # p PROVE Quiet(q)
    BY DEF QuietBut
  <2>1. QuietReaders(q)
    BY <1>5, <1>12, <1>15, Elsewhere
  <2>2. QuietMemory(q)
    BY <1>16 DEF QuietMemory
  <2> QED
    BY <1>4, <2>1, <2>2, StoresQuiet DEF Quiet
<1>19. Settled(p)
  <2> SUFFICES ASSUME p \notin raced PROVE PageInv(p)'
    BY <1>4 DEF Settled
  <2>1. PageInv(p) /\ HasFetched(reader[r], p)
    BY <1>1, <1>4, <1>5 DEF TmdbIInv, PagesRight, HasFetched
  <2>2. /\ Newest(p, from) /\ table[p] = NoCopy
        /\ \A q \in Reader \ {r} : ~Carrying(reader[q], p) /\ ~HasFetched(reader[q], p)
    BY <1>1, <1>3, <2>1 DEF PageInv
  <2>3. \A q \in Reader \ {r} : reader'[q] = reader[q]
    BY <1>5, <1>12 DEF ReadersTyped
  <2>4. \A q \in Reader : ~Carrying(reader'[q], p)
    BY <1>12, <1>15, <2>2, <2>3 DEF Carrying
  <2>5. \A q \in Reader \ {r} : ~HasFetched(reader'[q], p)
    BY <2>2, <2>3
  <2>6. \A q \in Reader : Reading(reader'[q], p) => q # r
    BY <1>12, <1>15 DEF Reading
  <2>7. Newest(p, from)'
    BY <1>4, <2>2, <2>3, <2>6 DEF Newest
  <2> QED
    BY <1>4, <1>6, <1>10, <1>12, <1>15, <1>16, <2>2, <2>4, <2>5, <2>7 DEF PageInv
<1> QED
  BY <1>5, <1>13, <1>17, <1>18, <1>19, InvMoved

LEMMA StoreRowKeeps == ASSUME TmdbIInv, NEW r \in Reader, StoreRow(r) PROVE TmdbIInv'
<1>0. PICK p : p = PageOf(r)
  OBVIOUS
<1>1. PICK copy : copy = reader[r].copy
  OBVIOUS
<1>2. PICK row : row = [copy EXCEPT !.used = -1]
  OBVIOUS
<1>3. /\ reader[r].pc = "store" /\ day' = day /\ raced' = raced /\ memory' = memory
      /\ table' = [table EXCEPT ![p] = row] /\ Tell(r, reader[r].copy.from)
  BY <1>0, <1>1, <1>2 DEF StoreRow
<1>4. Active(reader[r]) /\ reader[r].pc \in Holding
  BY <1>3 DEF Active, Holding
<1>5. /\ TmdbTypeOK /\ ReadersTyped /\ Basics /\ p \in Page /\ RecordRight(reader[r])
      /\ OnItsPage(reader[r]) /\ InHand(reader[r]) /\ reader[r] \in ReaderSet
  BY <1>0, <1>4, AtPage, InvBasics
<1>6. copy \in CopyType /\ copy.from \in Int /\ copy.expires \in Int /\ day \in Int /\ day >= 0
  BY <1>1, <1>5, Fields, Day
<1>7. copy.from >= 0 /\ copy.from <= day /\ Fits(p, copy.from, copy.expires)
  BY <1>0, <1>1, <1>3, <1>5 DEF InHand, Holding, PageOf
<1>8. /\ Onwards /\ TimesTyped
      /\ reader' = [reader EXCEPT ![r] = reader'[r]]
      /\ reader'[r] \in ReaderSet /\ RecordRight(reader[r])'
      /\ reader'[r].pc \notin Holding
      /\ told' = [told EXCEPT ![p] = Later(@, copy.from)]
  BY <1>0, <1>1, <1>3, <1>4, <1>5, TellRight DEF TimesTyped
<1>9. row \in CopySet /\ row.from = copy.from /\ row.expires = copy.expires
  <2>1. row = [from |-> copy.from, expires |-> copy.expires, used |-> -1]
    BY <1>2, <1>6 DEF CopyType
  <2> QED
    BY <1>6, <1>7, <2>1 DEF CopySet, Fits
<1>10. row # NoCopy /\ table' \in [Page -> CopySet] /\ TableKept
  BY <1>3, <1>5, <1>7, <1>8, <1>9, Replaced
<1>11. raced \subseteq raced' /\ raced' \subseteq Page
  BY <1>3, <1>5 DEF TmdbTypeOK
<1>12. Basics'
  BY <1>3, <1>5, <1>8, <1>10, <1>11, StoresKept, BasicsKept
<1>13. told \in [Page -> -1 .. day] /\ table \in [Page -> CopySet]
  BY <1>5 DEF TmdbTypeOK
<1>14. QuietBut(p)
  <2> SUFFICES ASSUME NEW q \in Page, q # p PROVE Quiet(q)
    BY DEF QuietBut
  <2>1. QuietReaders(q)
    BY <1>5, <1>8, NothingNew, OneReader
  <2>2. QuietTable(q) /\ QuietTold(q)
    BY <1>3, <1>8, <1>13 DEF QuietTable, QuietTold
  <2> QED
    BY <1>3, <2>1, <2>2, StoresQuiet DEF Quiet
<1>15. Settled(p)
  <2> SUFFICES ASSUME p \notin raced PROVE PageInv(p)'
    BY <1>3 DEF Settled
  <2>1. PageInv(p) /\ HasFetched(reader[r], p)
    BY <1>0, <1>3, <1>5 DEF TmdbIInv, PagesRight, HasFetched, PageOf
  <2>2. /\ Newest(p, copy.from)
        /\ \A q \in Reader \ {r} : ~Carrying(reader[q], p) /\ ~HasFetched(reader[q], p)
        /\ memory[p] # NoCopy => memory[p].from = copy.from
    BY <1>1, <1>3, <2>1 DEF PageInv
  <2>3. \A q \in Reader \ {r} : reader'[q] = reader[q]
    BY <1>5, <1>8 DEF ReadersTyped
  <2>4. \A q \in Reader : ~Carrying(reader'[q], p) /\ ~HasFetched(reader'[q], p)
    BY <1>8, <2>2, <2>3 DEF Carrying, HasFetched, Holding
  <2>5. \A q \in Reader : Reading(reader'[q], p) => q # r
    BY <1>8 DEF Reading, Holding
  <2>6. told'[p] = copy.from
    <3>1. told[p] <= copy.from /\ told[p] \in Int
      BY <1>5, <2>2, OfPage DEF Newest
    <3> QED
      BY <1>5, <1>6, <1>8, <1>13, <3>1 DEF Later
  <2>7. Newest(p, copy.from)'
    BY <1>6, <2>2, <2>3, <2>5, <2>6 DEF Newest
  <2>8. table'[p] = row
    BY <1>3, <1>5, <1>13
  <2> QED
    BY <1>3, <1>9, <2>2, <2>4, <2>7, <2>8 DEF PageInv, Agrees
<1> QED
  BY <1>5, <1>11, <1>12, <1>14, <1>15, InvMoved
-----------------------------------------------------------------------------
LEMMA RowIsSweptKeeps == ASSUME TmdbIInv, NEW p \in Page, RowIsSwept(p) PROVE TmdbIInv'
<1>1. /\ table' = [table EXCEPT ![p] = NoCopy] /\ day' = day /\ memory' = memory
      /\ reader' = reader /\ asked' = asked /\ told' = told /\ raced' = raced
  BY DEF RowIsSwept
<1>2. TmdbTypeOK /\ ReadersTyped /\ CopiesGood /\ ReadersRight
  BY InvBasics
<1>3. Onwards /\ TimesTyped /\ raced \subseteq raced' /\ raced' \subseteq Page
  BY <1>1, <1>2, StoresKept DEF TmdbTypeOK
<1>4. table' \in [Page -> CopySet] /\ TableKept /\ \A q \in Page : QuietTable(q)
  BY <1>1, <1>2, TableLoses
<1>5. memory' \in [Page -> CopySet] /\ MemoryKept /\ \A q \in Page : QuietMemory(q)
  BY <1>1, <1>2, MemorySame
<1>6. ReadersTyped' /\ ReadersRight'
  <2>1. ReadersTyped'
    BY <1>1, <1>2 DEF ReadersTyped
  <2>2. ASSUME NEW q \in Reader PROVE RecordRight(reader[q])'
    <3>1. PICK rec : rec = reader[q]
      OBVIOUS
    <3>2. rec \in ReaderSet /\ RecordRight(rec)
      BY <1>2, <3>1 DEF ReadersTyped, ReadersRight
    <3>3. RecordRight(rec)' /\ reader'[q] = rec
      BY <1>1, <1>2, <1>3, <3>1, <3>2, Stays
    <3> QED
      BY <3>3
  <2> QED
    BY <2>1, <2>2 DEF ReadersRight
<1>7. Basics'
  <2>1. TmdbTypeOK'
    BY <1>2, <1>3, <1>4, <1>5, <1>6, TypesStay
  <2>2. CopiesGood'
    BY <1>2, <1>3, <1>4, <1>5, CopiesStay
  <2> QED
    BY <1>6, <2>1, <2>2 DEF Basics
<1>8. AllQuiet
  <2> SUFFICES ASSUME NEW q \in Page PROVE Quiet(q)
    BY DEF AllQuiet
  <2>1. QuietReaders(q)
    BY <1>1 DEF QuietReaders, News
  <2> QED
    BY <1>1, <1>4, <1>5, <2>1, StoresQuiet DEF Quiet
<1> QED
  BY <1>3, <1>7, <1>8, InvKept

LEMMA ServerRestartsKeeps == ASSUME TmdbIInv, ServerRestarts PROVE TmdbIInv'
<1>1. /\ memory' = [p \in Page |-> NoCopy] /\ reader' = [r \in Reader |-> Absent]
      /\ day' = day /\ table' = table /\ asked' = asked /\ told' = told /\ raced' = raced
  BY DEF ServerRestarts
<1>2. TmdbTypeOK /\ CopiesGood
  BY InvBasics
<1>3. Onwards /\ TimesTyped /\ raced \subseteq raced' /\ raced' \subseteq Page
  BY <1>1, <1>2, StoresKept DEF TmdbTypeOK
<1>4. table' \in [Page -> CopySet] /\ TableKept /\ \A q \in Page : QuietTable(q)
  BY <1>1, <1>2, TableSame
<1>5. memory' \in [Page -> CopySet] /\ MemoryKept /\ \A q \in Page : QuietMemory(q)
  BY <1>1, <1>2 DEF TmdbTypeOK, CopySet, NoCopy, MemoryKept, QuietMemory
<1>6. ReadersTyped' /\ ReadersRight'
  <2>1. ReadersTyped'
    BY <1>1, AbsentType DEF ReadersTyped
  <2>2. ASSUME NEW q \in Reader PROVE RecordRight(reader[q])'
    BY <1>1 DEF Absent, RecordRight, Active, GotForward
  <2> QED
    BY <2>1, <2>2 DEF ReadersRight
<1>7. Basics'
  <2>1. TmdbTypeOK'
    BY <1>2, <1>3, <1>4, <1>5, <1>6, TypesStay
  <2>2. CopiesGood'
    BY <1>2, <1>3, <1>4, <1>5, CopiesStay
  <2> QED
    BY <1>6, <2>1, <2>2 DEF Basics
<1>8. AllQuiet
  <2> SUFFICES ASSUME NEW q \in Page PROVE Quiet(q)
    BY DEF AllQuiet
  <2>1. Absent.pc \notin Holding
    BY DEF Absent, Holding
  <2>2. QuietReaders(q)
    BY <1>1, <2>1, NothingNew DEF QuietReaders
  <2> QED
    BY <1>1, <1>4, <1>5, <2>2, StoresQuiet DEF Quiet
<1> QED
  BY <1>3, <1>7, <1>8, InvKept

LEMMA DayPassesKeeps == ASSUME TmdbIInv, DayPasses PROVE TmdbIInv'
<1>1. /\ day < LastDay /\ day' = day + 1 /\ memory' = memory /\ table' = table
      /\ reader' = reader /\ asked' = asked /\ told' = told /\ raced' = raced
      /\ \A r \in Reader : Active(reader[r]) => reader[r].since = day
  BY DEF DayPasses, Active
<1>2. TmdbTypeOK /\ ReadersTyped /\ CopiesGood /\ ReadersRight
  BY InvBasics
<1>3. day \in Int /\ day >= 0 /\ LastDay \in Int
  BY <1>2, Day, TmdbAssumption
<1>4. TmdbTypeOK'
  <2>1. \A copy \in CopySet : copy \in CopySet'
    BY <1>1, <1>3 DEF CopySet
  <2>2. day' \in 0 .. LastDay /\ \A n \in -1 .. day : n \in -1 .. day'
    BY <1>1, <1>3
  <2>3. /\ memory' \in [Page -> CopySet'] /\ table' \in [Page -> CopySet']
        /\ asked' \in [Page -> -1 .. day'] /\ told' \in [Page -> -1 .. day']
    BY <1>1, <1>2, <2>1, <2>2 DEF TmdbTypeOK
  <2> QED
    BY <1>1, <1>2, <2>2, <2>3 DEF TmdbTypeOK
<1>5. ReadersTyped' /\ ReadersRight'
  <2>1. ReadersTyped'
    BY <1>1, <1>2 DEF ReadersTyped
  <2>2. ASSUME NEW q \in Reader PROVE RecordRight(reader[q])'
    <3>1. PICK rec : rec = reader[q]
      OBVIOUS
    <3>2. /\ rec \in ReaderSet /\ RecordRight(rec) /\ reader'[q] = rec
          /\ Active(rec) => rec.since = day
      BY <1>1, <1>2, <3>1 DEF ReadersTyped, ReadersRight
    <3>3. rec.copy.from \in Int
      BY <3>2, Fields
    <3>4. GotForward(rec)'
      BY <1>1, <3>2 DEF RecordRight, GotForward
    <3>5. ASSUME Active(rec) PROVE OnItsPage(rec)' /\ InHand(rec)' /\ Forward(rec)'
      <4>1. OnItsPage(rec) /\ InHand(rec) /\ Forward(rec) /\ rec.since = day
        BY <3>2, <3>5 DEF RecordRight
      <4>2. OnItsPage(rec)'
        BY <1>1, <1>3, <4>1 DEF OnItsPage
      <4>3. InHand(rec)'
        BY <1>1, <1>3, <3>3, <4>1 DEF InHand, Fits, Until
      <4>4. Forward(rec)'
        BY <1>1, <4>1 DEF Forward
      <4> QED
        BY <4>2, <4>3, <4>4
    <3>6. RecordRight(rec)'
      BY <3>4, <3>5 DEF RecordRight, Active
    <3> QED
      BY <3>2, <3>6
  <2> QED
    BY <2>1, <2>2 DEF ReadersRight
<1>6. CopiesGood'
  BY <1>1, <1>2 DEF CopiesGood, CopyGood, Fits, Until
<1>7. AllQuiet
  BY <1>1, StoresQuiet DEF AllQuiet, Quiet, QuietReaders, News
<1> QED
  BY <1>1, <1>4, <1>5, <1>6, <1>7, InvKept DEF Basics
-----------------------------------------------------------------------------
LEMMA TmdbIInvNext == TmdbIInv /\ [TmdbNext]_tmdbVars => TmdbIInv'
<1> SUFFICES ASSUME TmdbIInv, [TmdbNext]_tmdbVars PROVE TmdbIInv'
  OBVIOUS
<1>1. ASSUME NEW r \in Reader,
             \/ AskPage(r) \/ LookInMemory(r) \/ TouchCopy(r) \/ LengthenRow(r)
             \/ ForgetCopy(r) \/ LookInTable(r) \/ DeleteRow(r) \/ ReviveRow(r)
             \/ InsertRow(r) \/ TmdbAnswers(r) \/ KeepAnswer(r) \/ StoreRow(r)
             \/ PageFails(r) \/ ReaderLeaves(r)
      PROVE  TmdbIInv'
  BY <1>1, AskPageKeeps, LookInMemoryKeeps, TouchCopyKeeps, LengthenRowKeeps,
     ForgetCopyKeeps, LookInTableKeeps, DeleteRowKeeps, ReviveRowKeeps, InsertRowKeeps,
     TmdbAnswersKeeps, KeepAnswerKeeps, StoreRowKeeps, PageFailsKeeps, ReaderLeavesKeeps
<1>2. ASSUME NEW p \in Page, RowIsSwept(p) PROVE TmdbIInv'
  BY <1>2, RowIsSweptKeeps
<1>3. CASE ServerRestarts
  BY <1>3, ServerRestartsKeeps
<1>4. CASE DayPasses
  BY <1>4, DayPassesKeeps
<1>5. CASE UNCHANGED tmdbVars
  BY <1>5, SMTT(30) DEF tmdbVars, TmdbIInv, TmdbTypeOK, CopySet, ReadersTyped, CopiesGood, CopyGood,
     Fits, Until, ReadersRight, RecordRight, OnItsPage, InHand, Forward, GotForward,
     PagesRight, PageInv, Newest, Agrees
<1> QED
  BY <1>1, <1>2, <1>3, <1>4, <1>5 DEF TmdbNext

\* For any pages, requests and times: what TMDB said is not used for too
\* long, readers do not go back in time, and the table follows the memory,
\* but for the pages that TMDB gave to two requests at once.
THEOREM TmdbSafe == TmdbSpec => []TmdbSound
<1>1. TmdbInit => TmdbIInv
  BY TmdbIInvInit
<1>2. TmdbIInv /\ [TmdbNext]_tmdbVars => TmdbIInv'
  BY TmdbIInvNext
<1>3. TmdbIInv => TmdbSound
  BY TmdbSoundFromInv
<1> QED
  BY <1>1, <1>2, <1>3, PTL DEF TmdbSpec
-----------------------------------------------------------------------------
(***************************************************************************)
(* StreamsHonest.  First what is found behind an address.                  *)
(***************************************************************************)
Embeds == Seq(Embed)
Held == Listed({<< >>})

LEMMA HeldEmbeds == /\ Held \subseteq Embed /\ Seq(Held) \subseteq Embeds
                    /\ << >> \in Embeds
                    /\ \A e \in Embed : e.holds \in Seq(Held) /\ e.no \in Nat \ {0}
                                        /\ e.hd \in BOOLEAN
<1>1. {<< >>} \subseteq Seq(Listed({<< >>}))
  OBVIOUS
<1>2. Held \subseteq Embed
  BY <1>1 DEF Held, Embed, Listed
<1>3. Seq(Held) \subseteq Embeds
  BY <1>2 DEF Embeds
<1>4. \A e \in Embed : e.holds \in Seq(Held) /\ e.no \in Nat \ {0} /\ e.hd \in BOOLEAN
  BY DEF Embed, Held, Listed
<1>5. << >> \in Embeds
  BY DEF Embeds
<1> QED
  BY <1>2, <1>3, <1>4, <1>5

LEMMA SiteFacts ==
  ASSUME NEW items \in Embeds, NEW sites
  PROVE  OfSite(items, sites) \in Embeds /\ DirectOf(items) \in Embeds
<1>1. \A s : OfSite(items, s) \in Embeds
  BY SelectFacts DEF OfSite, Embeds
<1>2. DirectOf(items) \in Embeds
  BY <1>1, HeldEmbeds, PushFacts DEF DirectOf, Embeds
<1> QED
  BY <1>1, <1>2

LEMMA HeldFacts ==
  ASSUME NEW list \in Embeds, NEW held \in Embeds
  PROVE  PushHeld(list, held) \in Embeds
<1>1. PICK first : first = [i \in DOMAIN held \cap {1} |-> held[i]]
  OBVIOUS
<1>2. first \in Embeds
  <2>1. DOMAIN held = 1 .. Len(held) /\ Len(held) \in Nat /\ \A i \in 1 .. Len(held) : held[i] \in Embed
    BY DEF Embeds
  <2>2. CASE Len(held) = 0
    <3>1. DOMAIN first = 1 .. 0
      BY <1>1, <2>1, <2>2
    <3> QED
      BY <1>1, <2>1, <3>1 DEF Embeds
  <2>3. CASE Len(held) # 0
    <3>1. DOMAIN first = 1 .. 1 /\ first[1] \in Embed
      BY <1>1, <2>1, <2>3
    <3>2. first = [i \in 1 .. 1 |-> first[i]]
      BY <1>1, <3>1
    <3> QED
      BY <3>1, <3>2 DEF Embeds
  <2> QED
    BY <2>2, <2>3
<1>3. \A m : PushNew(list, held, m) \in Embeds /\ PushNew(list, first, m) \in Embeds
  BY <1>2, PushFacts DEF Embeds
<1> QED
  BY <1>1, <1>3 DEF PushHeld

Gathers(items, f) ==
  f = [n \in 0 .. Len(items) |->
        IF n = 0 THEN [list |-> << >>, enough |-> FALSE]
        ELSE LET list == f[n - 1].list
                 more == PushHeld(list, DirectOf(items[n].holds))
             IN CASE f[n - 1].enough -> f[n - 1]
                  [] ~f[n - 1].enough /\ items[n].site \in Direct ->
                       [list |-> PushNew(list, <<items[n]>>, Len(list) + 1),
                        enough |-> FALSE]
                  [] ~f[n - 1].enough /\ items[n].site = "wrapper" ->
                       [list |-> more, enough |-> Len(more) >= MaxCandidates]
                  [] OTHER -> f[n - 1]]

\* One step of it.
Gather(got, e) ==
  LET list == got.list
      more == PushHeld(list, DirectOf(e.holds))
  IN CASE got.enough -> got
       [] ~got.enough /\ e.site \in Direct ->
            [list |-> PushNew(list, <<e>>, Len(list) + 1), enough |-> FALSE]
       [] ~got.enough /\ e.site = "wrapper" ->
            [list |-> more, enough |-> Len(more) >= MaxCandidates]
       [] OTHER -> got
GotSet == [list : Embeds, enough : BOOLEAN]

LEMMA GatherFacts ==
  ASSUME NEW got \in GotSet, NEW e \in Embed
  PROVE  Gather(got, e) \in GotSet
<1>1. PICK list, more : list = got.list /\ more = PushHeld(list, DirectOf(e.holds))
  OBVIOUS
<1>2. list \in Embeds
  BY <1>1 DEF GotSet
<1>3. more \in Embeds
  <2>1. e.holds \in Embeds
    BY HeldEmbeds
  <2> QED
    BY <1>1, <1>2, <2>1, SiteFacts, HeldFacts
<1>4. PushNew(list, <<e>>, Len(list) + 1) \in Embeds
  <2>1. <<e>> \in Seq(Embed)
    OBVIOUS
  <2> QED
    BY <1>2, <2>1, PushFacts DEF Embeds
<1>5. [list |-> PushNew(list, <<e>>, Len(list) + 1), enough |-> FALSE] \in GotSet
  BY <1>4 DEF GotSet
<1>6. (Len(more) >= MaxCandidates) \in BOOLEAN
  OBVIOUS
<1>7. [list |-> more, enough |-> Len(more) >= MaxCandidates] \in GotSet
  BY <1>3, <1>6 DEF GotSet
<1>8. CASE got.enough
  BY <1>8 DEF Gather
<1>9. CASE ~got.enough /\ e.site \in Direct
  BY <1>1, <1>5, <1>9 DEF Gather, Direct
<1>10. CASE ~got.enough /\ e.site = "wrapper" /\ e.site \notin Direct
  BY <1>1, <1>7, <1>10 DEF Gather
<1>11. CASE ~got.enough /\ e.site # "wrapper" /\ e.site \notin Direct
  BY <1>11 DEF Gather
<1> QED
  BY <1>8, <1>9, <1>10, <1>11

LEMMA NtvsFacts ==
  ASSUME NEW items \in Embeds
  PROVE  NtvsCandidates(items) \in Embeds
<1>1. PICK n \in Nat : n = Len(items)
  BY DEF Embeds
<1>2. PICK base : base = [list |-> << >>, enough |-> FALSE]
  OBVIOUS
<1>3. base \in GotSet
  BY <1>2, HeldEmbeds DEF GotSet
<1>4. \A k \in 1 .. n : items[k] \in Embed
  BY <1>1 DEF Embeds
<1>5. PICK step : step = [p \in (1 .. n) \X GotSet |-> Gather(p[2], items[p[1]])]
  OBVIOUS
<1>6. StepsIn(step, n, GotSet)
  BY <1>4, <1>5, GatherFacts DEF StepsIn
<1>7. PICK f \in [0 .. n -> GotSet] : Recurs(f, base, step, n)
  BY <1>3, <1>6, RecursionExists
<1>8. Gathers(items, f)
  <2>1. ASSUME NEW k \in 1 .. n PROVE f[k] = Gather(f[k - 1], items[k])
    <3>1. <<k, f[k - 1]>> \in (1 .. n) \X GotSet
      BY <1>7
    <3>2. f[k] = step[<<k, f[k - 1]>>]
      BY <1>7 DEF Recurs
    <3> QED
      BY <1>5, <3>1, <3>2
  <2>2. f[0] = base
    BY <1>7 DEF Recurs
  <2>3. DOMAIN f = 0 .. n /\ f = [k \in DOMAIN f |-> f[k]]
    BY <1>7
  <2>4. ASSUME NEW k \in 0 .. n PROVE f[k] = IF k = 0 THEN base ELSE Gather(f[k - 1], items[k])
    <3>1. CASE k = 0
      BY <2>2, <3>1
    <3>2. CASE k # 0
      <4>1. k \in 1 .. n
        BY <3>2
      <4> QED
        BY <2>1, <3>2, <4>1
    <3> QED
      BY <3>1, <3>2
  <2>5. f = [k \in 0 .. n |-> IF k = 0 THEN base ELSE Gather(f[k - 1], items[k])]
    BY <2>3, <2>4
  <2> QED
    BY <1>1, <1>2, <2>5 DEF Gathers, Gather
<1>9. PICK g : g = CHOOSE h : Gathers(items, h)
  OBVIOUS
<1>10. Gathers(items, g) /\ NtvsCandidates(items) = g[n].list
  <2>1. Gathers(items, g)
    BY <1>8, <1>9
  <2>2. NtvsCandidates(items) = g[Len(items)].list
    BY <1>9 DEF Gathers, NtvsCandidates
  <2> QED
    BY <1>1, <2>1, <2>2
<1>11. g = [k \in 0 .. n |-> IF k = 0 THEN base ELSE Gather(g[k - 1], items[k])]
  BY <1>1, <1>2, <1>10 DEF Gathers, Gather
<1>12. PICK Y : Y = {k \in 0 .. n : g[k] \in GotSet}
  OBVIOUS
<1>13. Climbs(Y, n)
  <2>1. 0 \in Y
    BY <1>3, <1>11, <1>12
  <2>2. ASSUME NEW k \in 1 .. n, k - 1 \in Y PROVE k \in Y
    <3>1. g[k - 1] \in GotSet /\ k \in 0 .. n /\ k # 0
      BY <1>12, <2>2
    <3>2. g[k] = Gather(g[k - 1], items[k])
      BY <1>11, <3>1
    <3> QED
      BY <1>4, <1>12, <3>1, <3>2, GatherFacts
  <2> QED
    BY <2>1, <2>2 DEF Climbs
<1>14. g[n] \in GotSet
  BY <1>12, <1>13, UpTo
<1> QED
  BY <1>10, <1>14 DEF GotSet

LEMMA BestFacts ==
  ASSUME NEW embeds \in Embeds
  PROVE  /\ BestFirst(embeds) \in Embeds
         /\ \A m, n \in 1 .. Len(BestFirst(embeds)) :
              m < n /\ BestFirst(embeds)[n].hd => BestFirst(embeds)[m].hd
<1>1. PICK A : A = ToSet(embeds)
  OBVIOUS
<1>2. A \subseteq Embed /\ embeds \in Seq(A)
  <2>1. \A i \in 1 .. Len(embeds) : embeds[i] \in A
    BY <1>1, InList DEF Embeds
  <2> QED
    BY <1>1, <2>1, InList DEF Embeds
<1>3. PICK before : before = {p \in A \X A : \/ p[1].hd /\ ~p[2].hd
                                             \/ p[1].hd = p[2].hd /\ p[1].no < p[2].no}
  OBVIOUS
<1>4. \A x, y \in A : <<x, y>> \in before <=> \/ x.hd /\ ~y.hd
                                              \/ x.hd = y.hd /\ x.no < y.no
  BY <1>3
<1>5. \A x \in A : x.hd \in BOOLEAN /\ x.no \in Nat
  BY <1>2, HeldEmbeds
<1>6. Orders(before, A)
  <2>1. ASSUME NEW x \in A, NEW y \in A, <<x, y>> \in before PROVE <<y, x>> \notin before
    BY <1>4, <1>5, <2>1
  <2>2. ASSUME NEW x \in A, NEW y \in A, NEW z \in A, <<x, z>> \in before
        PROVE  <<x, y>> \in before \/ <<y, z>> \in before
    BY <1>4, <1>5, <2>2
  <2> QED
    BY <2>1, <2>2 DEF Orders
<1>7. PICK s : s = BestFirst(embeds)
  OBVIOUS
<1>8. s = Sorted(embeds, before)
  BY <1>1, <1>3, <1>7 DEF BestFirst
<1>9. /\ s \in Seq(A) /\ Len(s) = Len(embeds)
      /\ \A m, n \in 1 .. Len(embeds) : m < n => <<s[n], s[m]>> \notin before
  BY <1>2, <1>6, <1>8, SortedFacts
<1>10. ASSUME NEW m \in 1 .. Len(s), NEW n \in 1 .. Len(s), m < n, s[n].hd PROVE s[m].hd
  <2>1. s[n] \in A /\ s[m] \in A
    BY <1>9
  <2>2. <<s[n], s[m]>> \notin before
    BY <1>9, <1>10
  <2> QED
    BY <1>4, <1>5, <1>10, <2>1, <2>2
<1>11. s \in Embeds
  BY <1>2, <1>9 DEF Embeds
<1> QED
  BY <1>7, <1>10, <1>11

\* An embed that plays, and of Streamed's one that is as good as any.
Playing(a, n) == \E e \in ToSet(EmbedsOf(a)) : e.no = n /\ Plays(e)
Best(a, n) ==
  \E e \in ToSet(EmbedsOf(a)) :
    /\ e.no = n /\ Plays(e)
    /\ PageAt[a].provider = "streamed" =>
         \A f \in ToSet(EmbedsOf(a)) : Plays(f) /\ f.hd => e.hd
Blamable(a) == a \in Flaky \/ Verified(a) = 0

LEMMA VerifiedFacts ==
  ASSUME NEW a \in Address
  PROVE  Verified(a) \in Nat /\ (Verified(a) # 0 => Best(a, Verified(a)))
<1>1. PICK items : items = PageAt[a].items
  OBVIOUS
<1>2. items \in Embeds
  BY <1>1, StreamsAssumption DEF Embeds
<1>3. PICK list : list = EmbedsOf(a)
  OBVIOUS
<1>4. list = CASE PageAt[a].provider = "streamed" -> BestFirst(OfSite(items, {"embed"}))
               [] PageAt[a].provider = "ntvs" -> NtvsCandidates(items)
               [] OTHER -> items
  BY <1>1, <1>3 DEF EmbedsOf
<1>5. list \in Embeds
  <2>1. BestFirst(OfSite(items, {"embed"})) \in Embeds /\ NtvsCandidates(items) \in Embeds
    BY <1>2, SiteFacts, BestFacts, NtvsFacts
  <2>2. CASE PageAt[a].provider = "streamed"
    BY <1>4, <2>1, <2>2
  <2>3. CASE PageAt[a].provider = "ntvs"
    BY <1>4, <2>1, <2>3
  <2>4. CASE PageAt[a].provider # "streamed" /\ PageAt[a].provider # "ntvs"
    BY <1>2, <1>4, <2>4
  <2> QED
    BY <2>2, <2>3, <2>4
<1>6. PageAt[a].provider = "streamed" =>
        \A m, n \in 1 .. Len(list) : m < n /\ list[n].hd => list[m].hd
  <2> SUFFICES ASSUME PageAt[a].provider = "streamed"
               PROVE  \A m, n \in 1 .. Len(list) : m < n /\ list[n].hd => list[m].hd
    OBVIOUS
  <2>1. list = BestFirst(OfSite(items, {"embed"}))
    BY <1>4
  <2> QED
    BY <1>2, <2>1, SiteFacts, BestFacts
<1>7. PICK S : S = {e \in ToSet(list) : Plays(e)}
  OBVIOUS
<1>8. PICK playing : playing = Select(list, S)
  OBVIOUS
<1>9. Verified(a) = IF playing = << >> THEN 0 ELSE Head(playing).no
  BY <1>3, <1>7, <1>8 DEF Verified
<1>10. CASE playing = << >>
  BY <1>9, <1>10
<1>11. CASE playing # << >>
  <2>1. PICK i \in 1 .. Len(list) : /\ playing[1] = list[i] /\ list[i] \in S
                                    /\ \A j \in 1 .. Len(list) : list[j] \in S => i <= j
    BY <1>5, <1>8, <1>11, SelectFirst DEF Embeds
  <2>2. playing \in Embeds
    BY <1>5, <1>8, SelectFacts DEF Embeds
  <2>3. Head(playing) = playing[1]
    BY <1>11, <2>2 DEF Embeds
  <2>4. PICK e : e = list[i]
    OBVIOUS
  <2>5. /\ ToSet(list) = {list[j] : j \in 1 .. Len(list)} /\ Len(list) \in Nat
        /\ ToSet(list) \subseteq Embed
    BY <1>5, InList DEF Embeds
  <2>6. e \in ToSet(list) /\ Plays(e) /\ e \in Embed /\ Verified(a) = e.no
    BY <1>7, <1>9, <1>11, <2>1, <2>3, <2>4, <2>5
  <2>7. e.no \in Nat
    BY <2>6, HeldEmbeds
  <2>8. ASSUME PageAt[a].provider = "streamed",
               NEW f \in ToSet(list), Plays(f), f.hd
        PROVE  e.hd
    <3>1. PICK k \in 1 .. Len(list) : list[k] = f
      BY <2>5
    <3>2. i <= k
      BY <1>7, <2>1, <2>8, <3>1
    <3>3. CASE i = k
      BY <2>4, <2>8, <3>1, <3>3
    <3>4. CASE i # k
      BY <1>6, <2>1, <2>4, <2>8, <3>1, <3>2, <3>4
    <3> QED
      BY <3>3, <3>4
  <2>9. Best(a, e.no)
    BY <1>3, <2>6, <2>8 DEF Best
  <2> QED
    BY <2>6, <2>7, <2>9
<1> QED
  BY <1>10, <1>11

\* What can come of an attempt.
LEMMA ResolvedFacts ==
  ASSUME NEW a \in Address
  PROVE  /\ 0 \in Resolved(a) => Blamable(a)
         /\ \A n \in Resolved(a) \ {0} : n \in Nat /\ Best(a, n) /\ Playing(a, n)
<1>1. \A n : Best(a, n) => Playing(a, n)
  BY DEF Best, Playing
<1>2. 0 \in Resolved(a) => Blamable(a)
  BY DEF Resolved, Blamable
<1>3. ASSUME NEW n \in Resolved(a) \ {0} PROVE n \in Nat /\ Best(a, n)
  <2>1. n = Verified(a)
    BY <1>3 DEF Resolved
  <2> QED
    BY <1>3, <2>1, VerifiedFacts
<1> QED
  BY <1>1, <1>2, <1>3

LEMMA ReplacedIn ==
  ASSUME NEW A, NEW s \in Seq(A), NEW x \in A, NEW i
  PROVE  [s EXCEPT ![i] = x] \in Seq(A)
<1>1. PICK n \in Nat : n = Len(s) /\ DOMAIN s = 1 .. n
  OBVIOUS
<1>2. PICK t : t = [s EXCEPT ![i] = x]
  OBVIOUS
<1>3. t \in [1 .. n -> A]
  <2>1. t = [j \in 1 .. n |-> IF j = i THEN x ELSE s[j]]
    BY <1>1, <1>2
  <2>2. \A j \in 1 .. n : s[j] \in A
    BY <1>1
  <2> QED
    BY <2>1, <2>2
<1> QED
  BY <1>1, <1>2, <1>3

(***************************************************************************)
(* The requests, whatever the caches hold.                                 *)
(***************************************************************************)
Asking == [pc : {"away", "busy", "answered", "refused"}, list : Seq(Address),
           width : {1, PreflightMax}, at : Seq(Stages), busy : BOOLEAN,
           index : Nat, embed : Nat]
Shaped(r) == r \in Asking /\ DOMAIN r.at = DOMAIN r.list /\ OnceEach(r.list)

FailedBefore(r, i) == \A j \in 1 .. i - 1 : r.at[j] = "failed"
Sane(r) ==
  /\ \A i \in DOMAIN r.list : r.at[i] = "failed" => r.busy \/ Blamable(r.list[i])
  /\ r.pc = "refused" => r.busy \/ \A i \in DOMAIN r.list : r.at[i] = "failed"
  /\ r.pc = "busy" /\ r.width = 1 =>
       \A i \in DOMAIN r.list : r.at[i] \in {"wait", "queue", "resolve"} => FailedBefore(r, i)
  /\ r.pc = "answered" =>
       /\ r.index \in DOMAIN r.list /\ Playing(r.list[r.index], r.embed)
       /\ r.width = 1 => FailedBefore(r, r.index)

LockedBy(r, a) ==
  /\ r.pc = "busy"
  /\ \E i \in DOMAIN r.list : r.list[i] = a /\ r.at[i] \in {"queue", "resolve"}
ResolvingOf(r) == {i \in DOMAIN r.list : r.pc = "busy" /\ r.at[i] = "resolve"}
SlotsOf(W) == {p \in Watcher \X Nat : p[2] \in ResolvingOf(W[p[1]])}

Apart(W) == \A v, w \in Watcher : \A a \in Address :
              LockedBy(W[v], a) /\ LockedBy(W[w], a) => v = w
Permitted(W) == IsFiniteSet(SlotsOf(W)) /\ Cardinality(SlotsOf(W)) <= StreamPermits
WatchersInv(W) ==
  /\ W = [w \in Watcher |-> W[w]]
  /\ \A w \in Watcher : Shaped(W[w]) /\ Sane(W[w])
  /\ Apart(W) /\ Permitted(W)

Becomes(V, W, w, r) == V = [v \in Watcher |-> IF v = w THEN r ELSE W[v]]
\* What it locks now nobody did.
LocksAnew(r, W, w) ==
  \A a \in Address : LockedBy(r, a) /\ ~LockedBy(W[w], a) =>
    \A v \in Watcher : ~LockedBy(W[v], a)
TakesOne(r, W, w) ==
  \/ ResolvingOf(r) \subseteq ResolvingOf(W[w])
  \/ /\ \E i \in Nat : ResolvingOf(r) \subseteq ResolvingOf(W[w]) \cup {i}
     /\ Cardinality(SlotsOf(W)) < StreamPermits

LEMMA WatcherStep ==
  ASSUME NEW W, WatchersInv(W), NEW w \in Watcher, NEW r, Shaped(r), Sane(r),
         LocksAnew(r, W, w), TakesOne(r, W, w), NEW V, Becomes(V, W, w, r)
  PROVE  WatchersInv(V)
<1>1. V[w] = r /\ \A v \in Watcher : v # w => V[v] = W[v]
  BY DEF Becomes
<1>2. V = [v \in Watcher |-> V[v]]
  BY DEF Becomes
<1>3. \A v \in Watcher : Shaped(V[v]) /\ Sane(V[v])
  BY <1>1 DEF WatchersInv
<1>4. Apart(V)
  <2> SUFFICES ASSUME NEW u \in Watcher, NEW v \in Watcher, NEW a \in Address,
                      LockedBy(V[u], a), LockedBy(V[v], a)
               PROVE  u = v
    BY DEF Apart
  <2>1. Apart(W)
    BY DEF WatchersInv
  <2>2. CASE LockedBy(W[w], a) \/ ~LockedBy(r, a)
    <3>1. LockedBy(W[u], a) /\ LockedBy(W[v], a)
      BY <1>1, <2>2
    <3> QED
      BY <2>1, <3>1 DEF Apart
  <2>3. CASE ~LockedBy(W[w], a) /\ LockedBy(r, a)
    <3>1. \A x \in Watcher : ~LockedBy(W[x], a)
      BY <2>3 DEF LocksAnew
    <3> QED
      BY <1>1, <3>1
  <2> QED
    BY <2>2, <2>3
<1>5. Permitted(V)
  <2>1. PICK A, B : A = SlotsOf(W) /\ B = SlotsOf(V)
    OBVIOUS
  <2>2. IsFiniteSet(A) /\ Cardinality(A) <= StreamPermits /\ Cardinality(A) \in Nat
    BY <2>1, FS_CardinalityType DEF WatchersInv, Permitted
  <2>3. StreamPermits \in Nat
    BY StreamsAssumption
  <2>4. \A v \in Watcher, i \in Nat : <<v, i>> \in A <=> i \in ResolvingOf(W[v])
    BY <2>1 DEF SlotsOf
  <2>5. \A p \in B : \E v \in Watcher, i \in Nat : p = <<v, i>> /\ i \in ResolvingOf(V[v])
    BY <2>1 DEF SlotsOf
  <2>6. CASE ResolvingOf(r) \subseteq ResolvingOf(W[w])
    <3>1. B \subseteq A
      <4> SUFFICES ASSUME NEW p \in B PROVE p \in A
        OBVIOUS
      <4>1. PICK v \in Watcher, i \in Nat : p = <<v, i>> /\ i \in ResolvingOf(V[v])
        BY <2>5
      <4>2. i \in ResolvingOf(W[v])
        BY <1>1, <2>6, <4>1
      <4> QED
        BY <2>4, <4>1, <4>2
    <3>2. IsFiniteSet(B) /\ Cardinality(B) <= Cardinality(A)
      BY <2>2, <3>1, FS_Subset
    <3>3. Cardinality(B) \in Nat
      BY <3>2, FS_CardinalityType
    <3> QED
      BY <2>1, <2>2, <2>3, <3>2, <3>3 DEF Permitted
  <2>7. CASE /\ \E i \in Nat : ResolvingOf(r) \subseteq ResolvingOf(W[w]) \cup {i}
             /\ Cardinality(SlotsOf(W)) < StreamPermits
    <3>1. PICK k \in Nat : ResolvingOf(r) \subseteq ResolvingOf(W[w]) \cup {k}
      BY <2>7
    <3>2. PICK x : x = <<w, k>>
      OBVIOUS
    <3>3. PICK C : C = A \cup {x}
      OBVIOUS
    <3>4. B \subseteq C
      <4> SUFFICES ASSUME NEW p \in B PROVE p \in C
        OBVIOUS
      <4>1. PICK v \in Watcher, i \in Nat : p = <<v, i>> /\ i \in ResolvingOf(V[v])
        BY <2>5
      <4>2. i \in ResolvingOf(W[v]) \/ (v = w /\ i = k)
        BY <1>1, <3>1, <4>1
      <4> QED
        BY <2>4, <3>2, <3>3, <4>1, <4>2
    <3>5. IsFiniteSet(C) /\ (Cardinality(C) = Cardinality(A) \/ Cardinality(C) = Cardinality(A) + 1)
      BY <2>2, <3>3, FS_AddElement
    <3>6. IsFiniteSet(B) /\ Cardinality(B) <= Cardinality(C)
      BY <3>4, <3>5, FS_Subset
    <3>7. Cardinality(B) \in Nat /\ Cardinality(C) \in Nat
      BY <3>5, <3>6, FS_CardinalityType
    <3>8. Cardinality(A) < StreamPermits
      BY <2>1, <2>7
    <3>9. Cardinality(B) <= StreamPermits
      BY <2>2, <2>3, <3>5, <3>6, <3>7, <3>8
    <3> QED
      BY <2>1, <3>6, <3>9 DEF Permitted
  <2> QED
    BY <2>6, <2>7 DEF TakesOne
<1> QED
  BY <1>2, <1>3, <1>4, <1>5 DEF WatchersInv

\* How a request changes: it is answered, an attempt fails or moves on.
AnswerOf(r, i, n) == [r EXCEPT !.pc = "answered", !.index = i, !.embed = n]
FailOf(r, i, b) ==
  [r EXCEPT !.at = [r.at EXCEPT ![i] = "failed"], !.busy = r.busy \/ b,
            !.pc = IF \A j \in DOMAIN r.at : [r.at EXCEPT ![i] = "failed"][j] = "failed"
                   THEN "refused" ELSE r.pc]
MoveOf(r, i, stage) == [r EXCEPT !.at = [r.at EXCEPT ![i] = stage]]

LEMMA AnswerFacts ==
  ASSUME NEW r, Shaped(r), Sane(r), NEW i \in DOMAIN r.list, NEW n \in Nat,
         Playing(r.list[i], n), r.width = 1 => FailedBefore(r, i)
  PROVE  /\ Shaped(AnswerOf(r, i, n)) /\ Sane(AnswerOf(r, i, n))
         /\ \A a : ~LockedBy(AnswerOf(r, i, n), a)
         /\ ResolvingOf(AnswerOf(r, i, n)) = {}
<1>1. PICK s : s = AnswerOf(r, i, n)
  OBVIOUS
<1>2. /\ s.pc = "answered" /\ s.index = i /\ s.embed = n /\ s.list = r.list
      /\ s.width = r.width /\ s.at = r.at /\ s.busy = r.busy
  BY <1>1 DEF AnswerOf, Shaped, Asking
<1>3. i \in Nat
  BY DEF Shaped, Asking
<1>4. s \in Asking
  BY <1>1, <1>3 DEF AnswerOf, Shaped, Asking
<1>5. Shaped(s)
  BY <1>2, <1>4 DEF Shaped
<1>6. Sane(s)
  BY <1>2 DEF Sane, FailedBefore
<1> QED
  BY <1>1, <1>2, <1>5, <1>6 DEF LockedBy, ResolvingOf

LEMMA FailFacts ==
  ASSUME NEW r, Shaped(r), Sane(r), r.pc = "busy", NEW i \in DOMAIN r.list,
         NEW b \in BOOLEAN, b \/ Blamable(r.list[i])
  PROVE  /\ Shaped(FailOf(r, i, b)) /\ Sane(FailOf(r, i, b))
         /\ \A a : LockedBy(FailOf(r, i, b), a) => LockedBy(r, a)
         /\ ResolvingOf(FailOf(r, i, b)) \subseteq ResolvingOf(r)
<1>1. PICK s : s = FailOf(r, i, b)
  OBVIOUS
<1>2. PICK at : at = [r.at EXCEPT ![i] = "failed"]
  OBVIOUS
<1>3. /\ s.list = r.list /\ s.width = r.width /\ s.at = at /\ s.busy = (r.busy \/ b)
      /\ s.index = r.index /\ s.embed = r.embed
      /\ s.pc = IF \A j \in DOMAIN r.at : at[j] = "failed" THEN "refused" ELSE r.pc
  BY <1>1, <1>2 DEF FailOf, Shaped, Asking
<1>4. DOMAIN at = DOMAIN r.list /\ at[i] = "failed" /\ \A j \in DOMAIN r.list : j # i => at[j] = r.at[j]
  BY <1>2 DEF Shaped
<1>5. at \in Seq(Stages)
  <2>1. r.at \in Seq(Stages) /\ "failed" \in Stages
    BY DEF Shaped, Asking, Stages
  <2> QED
    BY <1>2, <2>1, ReplacedIn
<1>6. s \in Asking
  <2>1. s.pc \in {"away", "busy", "answered", "refused"} /\ s.busy \in BOOLEAN
    BY <1>3 DEF Shaped, Asking
  <2>2. s = [pc |-> s.pc, list |-> r.list, width |-> r.width, at |-> at, busy |-> s.busy,
             index |-> r.index, embed |-> r.embed]
    BY <1>1, <1>2, <1>3 DEF FailOf, Shaped, Asking
  <2> QED
    BY <1>5, <2>1, <2>2 DEF Shaped, Asking
<1>7. Shaped(s)
  BY <1>3, <1>4, <1>6 DEF Shaped
<1>8. \A j \in DOMAIN r.list : at[j] # "failed" => at[j] = r.at[j]
  BY <1>4
<1>9. \A j \in DOMAIN r.list : r.at[j] = "failed" => at[j] = "failed"
  BY <1>4
<1>10. Sane(s)
  <2>1. \A j \in DOMAIN s.list : s.at[j] = "failed" => s.busy \/ Blamable(s.list[j])
    BY <1>3, <1>4 DEF Sane
  <2>2. s.pc = "refused" => \A j \in DOMAIN s.list : s.at[j] = "failed"
    BY <1>3, <1>4 DEF Shaped
  <2>3. ASSUME s.pc = "busy", s.width = 1, NEW k \in DOMAIN s.list,
               s.at[k] \in {"wait", "queue", "resolve"}
        PROVE  FailedBefore(s, k)
    <3>1. r.at[k] \in {"wait", "queue", "resolve"} /\ k \in DOMAIN r.list
      BY <1>3, <1>8, <2>3
    <3>2. FailedBefore(r, k)
      BY <1>3, <2>3, <3>1 DEF Sane
    <3>3. \A j \in 1 .. k - 1 : j \in DOMAIN r.list
      BY <3>1 DEF Shaped, Asking
    <3> QED
      BY <1>3, <1>9, <3>2, <3>3 DEF FailedBefore
  <2>4. s.pc # "answered"
    BY <1>3
  <2> QED
    BY <2>1, <2>2, <2>3, <2>4 DEF Sane
<1>11. \A a : LockedBy(s, a) => LockedBy(r, a)
  BY <1>3, <1>8 DEF LockedBy
<1>12. ResolvingOf(s) \subseteq ResolvingOf(r)
  BY <1>3, <1>8 DEF ResolvingOf
<1> QED
  BY <1>1, <1>7, <1>10, <1>11, <1>12

LEMMA MoveFacts ==
  ASSUME NEW r, Shaped(r), Sane(r), r.pc = "busy", NEW i \in DOMAIN r.list,
         r.at[i] # "failed", r.width = 1 => FailedBefore(r, i),
         NEW stage \in {"wait", "queue", "resolve"}
  PROVE  /\ Shaped(MoveOf(r, i, stage)) /\ Sane(MoveOf(r, i, stage))
         /\ \A a : LockedBy(MoveOf(r, i, stage), a) =>
              LockedBy(r, a) \/ (stage # "wait" /\ a = r.list[i])
         /\ ResolvingOf(MoveOf(r, i, stage)) \subseteq
              ResolvingOf(r) \cup (IF stage = "resolve" THEN {i} ELSE {})
<1>1. PICK s : s = MoveOf(r, i, stage)
  OBVIOUS
<1>2. PICK at : at = [r.at EXCEPT ![i] = stage]
  OBVIOUS
<1>3. /\ s.list = r.list /\ s.width = r.width /\ s.at = at /\ s.busy = r.busy
      /\ s.index = r.index /\ s.embed = r.embed /\ s.pc = "busy"
  BY <1>1, <1>2 DEF MoveOf, Shaped, Asking
<1>4. DOMAIN at = DOMAIN r.list /\ at[i] = stage /\ \A j \in DOMAIN r.list : j # i => at[j] = r.at[j]
  BY <1>2 DEF Shaped
<1>5. at \in Seq(Stages)
  <2>1. r.at \in Seq(Stages) /\ stage \in Stages
    BY DEF Shaped, Asking, Stages
  <2> QED
    BY <1>2, <2>1, ReplacedIn
<1>6. s \in Asking
  BY <1>1, <1>2, <1>5 DEF MoveOf, Shaped, Asking
<1>7. Shaped(s)
  BY <1>3, <1>4, <1>6 DEF Shaped
<1>8. Sane(s)
  <2>1. \A j \in DOMAIN s.list : s.at[j] = "failed" => s.busy \/ Blamable(s.list[j])
    BY <1>3, <1>4 DEF Sane
  <2>2. ASSUME s.width = 1, NEW k \in DOMAIN s.list, s.at[k] \in {"wait", "queue", "resolve"}
        PROVE  FailedBefore(s, k)
    <3>1. k \in DOMAIN r.list /\ r.width = 1
      BY <1>3, <2>2
    <3>2. FailedBefore(r, k)
      <4>1. CASE k = i
        BY <3>1, <4>1
      <4>2. CASE k # i
        BY <1>3, <1>4, <2>2, <3>1, <4>2 DEF Sane
      <4> QED
        BY <4>1, <4>2
    <3>3. \A j \in 1 .. k - 1 : j \in DOMAIN r.list
      BY <3>1 DEF Shaped, Asking
    <3>4. \A j \in 1 .. k - 1 : j # i
      BY <3>2 DEF FailedBefore
    <3> QED
      BY <1>3, <1>4, <3>2, <3>3, <3>4 DEF FailedBefore
  <2> QED
    BY <1>3, <2>1, <2>2 DEF Sane
<1>9. \A a : LockedBy(s, a) => LockedBy(r, a) \/ (stage # "wait" /\ a = r.list[i])
  <2> SUFFICES ASSUME NEW a, LockedBy(s, a), a # r.list[i] \/ stage = "wait"
               PROVE  LockedBy(r, a)
    OBVIOUS
  <2>1. PICK k \in DOMAIN r.list : r.list[k] = a /\ at[k] \in {"queue", "resolve"}
    BY <1>3 DEF LockedBy
  <2>2. k # i
    BY <1>4, <2>1
  <2> QED
    BY <1>4, <2>1, <2>2 DEF LockedBy
<1>10. ResolvingOf(s) \subseteq ResolvingOf(r) \cup (IF stage = "resolve" THEN {i} ELSE {})
  BY <1>3, <1>4 DEF ResolvingOf
<1> QED
  BY <1>1, <1>7, <1>8, <1>9, <1>10

(***************************************************************************)
(* The caches.                                                             *)
(***************************************************************************)
IsFresh(e, t) == e # NoStream /\ t <= e.at + StreamTtl
IsRefused(f, t) == f # -1 /\ t <= f + FailureTtl
OpenAt(S, F, t, a) == ~IsFresh(S[a], t) /\ ~IsRefused(F[a], t)
Entries(t) == [embed : Nat, index : Nat, at : -1 .. t]

CachesInv(S, F, t) ==
  /\ t \in 0 .. LastTick /\ S \in [Address -> Entries(t)] /\ F \in [Address -> -1 .. t]
  /\ \A a \in Address :
       /\ ~(IsFresh(S[a], t) /\ IsRefused(F[a], t))
       /\ F[a] # -1 => Blamable(a)
       /\ S[a] # NoStream => Best(a, S[a].embed)

\* Nothing is known of an address that is being resolved.
OpenInv(W, S, F, t) ==
  \A w \in Watcher : \A a \in Address : LockedBy(W[w], a) => OpenAt(S, F, t, a)

MapsTo(f, X) == f \in [Address -> X]

LEMMA TrimFacts ==
  ASSUME NEW X, NEW kept, MapsTo(kept, X), NEW gone, gone \in X, NEW age, NEW K,
         K \in Trim(kept, age, gone)
  PROVE  MapsTo(K, X) /\ \A b \in Address : K[b] = kept[b] \/ K[b] = gone
<1>1. K = kept \/ \E a \in Address : K = [kept EXCEPT ![a] = gone]
  BY DEF Trim
<1>2. CASE K = kept
  BY <1>2
<1>3. ASSUME NEW a \in Address, K = [kept EXCEPT ![a] = gone]
      PROVE  MapsTo(K, X) /\ \A b \in Address : K[b] = kept[b] \/ K[b] = gone
  BY <1>3 DEF MapsTo
<1> QED
  BY <1>1, <1>2, <1>3

LEMMA NoStreamEntry == ASSUME NEW t \in Nat PROVE NoStream \in Entries(t) /\ -1 \in -1 .. t
BY DEF NoStream, Entries

\* What the stream cache is once a verified stream has been inserted.
Inserts(kept, S, a, n, i, t) == kept = [S EXCEPT ![a] = [embed |-> n, index |-> i, at |-> t]]

\* A stream is kept.
LEMMA StreamKept ==
  ASSUME NEW S, NEW F, NEW t, CachesInv(S, F, t), NEW a \in Address,
         ~IsRefused(F[a], t), NEW n \in Nat, Best(a, n), NEW i \in Nat,
         NEW kept, Inserts(kept, S, a, n, i, t),
         NEW age, NEW K, K \in Trim(kept, age, NoStream)
  PROVE  /\ CachesInv(K, F, t)
         /\ \A b \in Address : b # a /\ OpenAt(S, F, t, b) => OpenAt(K, F, t, b)
<1>1. PICK e : e = [embed |-> n, index |-> i, at |-> t]
  OBVIOUS
<1>2. t \in Nat /\ S \in [Address -> Entries(t)] /\ t \in 0 .. LastTick
  BY StreamsAssumption DEF CachesInv
<1>3. e \in Entries(t) /\ NoStream \in Entries(t)
  BY <1>1, <1>2, NoStreamEntry DEF Entries
<1>4. kept = [S EXCEPT ![a] = e]
  BY <1>1 DEF Inserts
<1>5. kept \in [Address -> Entries(t)]
  BY <1>2, <1>3, <1>4
<1>6. /\ K \in [Address -> Entries(t)]
      /\ \A b \in Address : K[b] = kept[b] \/ K[b] = NoStream
  <2>1. PICK X, m, g : X = Entries(t) /\ m = kept /\ g = NoStream
    OBVIOUS
  <2>2. MapsTo(m, X) /\ g \in X /\ K \in Trim(m, age, g)
    BY <1>3, <1>5, <2>1 DEF MapsTo
  <2>3. MapsTo(K, X) /\ \A b \in Address : K[b] = m[b] \/ K[b] = g
    BY <2>2, TrimFacts
  <2> QED
    BY <2>1, <2>3 DEF MapsTo
<1>7. kept[a] = e /\ \A b \in Address : b # a => kept[b] = S[b]
  BY <1>2, <1>4
<1>8. ~IsFresh(NoStream, t)
  BY DEF IsFresh
<1>9. ASSUME NEW b \in Address
      PROVE  /\ ~(IsFresh(K[b], t) /\ IsRefused(F[b], t))
             /\ F[b] # -1 => Blamable(b)
             /\ K[b] # NoStream => Best(b, K[b].embed)
  <2>1. CASE K[b] = NoStream
    BY <1>8, <2>1 DEF CachesInv
  <2>2. CASE K[b] # NoStream /\ b = a
    <3>1. K[b] = e /\ e.embed = n
      BY <1>1, <1>6, <1>7, <2>2
    <3> QED
      BY <2>2, <3>1 DEF CachesInv
  <2>3. CASE K[b] # NoStream /\ b # a
    <3>1. K[b] = S[b]
      BY <1>6, <1>7, <2>3
    <3> QED
      BY <3>1 DEF CachesInv
  <2> QED
    BY <2>1, <2>2, <2>3
<1>10. CachesInv(K, F, t)
  BY <1>2, <1>6, <1>9 DEF CachesInv
<1>11. ASSUME NEW b \in Address, b # a, OpenAt(S, F, t, b) PROVE OpenAt(K, F, t, b)
  <2>1. K[b] = S[b] \/ K[b] = NoStream
    BY <1>6, <1>7, <1>11
  <2> QED
    BY <1>8, <1>11, <2>1 DEF OpenAt
<1> QED
  BY <1>10, <1>11

\* A failure is kept.
LEMMA FailureKept ==
  ASSUME NEW S, NEW F, NEW t, CachesInv(S, F, t), NEW a \in Address,
         ~IsFresh(S[a], t), Blamable(a),
         NEW kept, kept = [F EXCEPT ![a] = t], NEW K, K \in Trim(kept, kept, -1)
  PROVE  /\ CachesInv(S, K, t)
         /\ \A b \in Address : b # a /\ OpenAt(S, F, t, b) => OpenAt(S, K, t, b)
<1>1. t \in Nat /\ F \in [Address -> -1 .. t] /\ S \in [Address -> Entries(t)] /\ t \in 0 .. LastTick
  BY StreamsAssumption DEF CachesInv
<1>2. kept \in [Address -> -1 .. t]
  BY <1>1
<1>3. PICK X : X = -1 .. t
  OBVIOUS
<1>4. /\ K \in [Address -> X]
      /\ \A b \in Address : K[b] = kept[b] \/ K[b] = -1
  <2>1. PICK g, m : g = -1 /\ m = kept
    OBVIOUS
  <2>2. MapsTo(m, X) /\ g \in X /\ K \in Trim(m, m, g)
    BY <1>1, <1>2, <1>3, <2>1 DEF MapsTo
  <2>3. MapsTo(K, X) /\ \A b \in Address : K[b] = m[b] \/ K[b] = g
    BY <2>2, TrimFacts
  <2> QED
    BY <2>1, <2>3 DEF MapsTo
<1>5. \A b \in Address : b # a => kept[b] = F[b]
  BY <1>1
<1>6. ~IsRefused(-1, t)
  BY DEF IsRefused
<1>7. ASSUME NEW b \in Address
      PROVE  /\ ~(IsFresh(S[b], t) /\ IsRefused(K[b], t))
             /\ K[b] # -1 => Blamable(b)
             /\ S[b] # NoStream => Best(b, S[b].embed)
  <2>1. CASE K[b] = -1
    BY <1>6, <2>1 DEF CachesInv
  <2>2. CASE K[b] # -1 /\ b = a
    BY <2>2 DEF CachesInv
  <2>3. CASE K[b] # -1 /\ b # a
    <3>1. K[b] = F[b]
      BY <1>4, <1>5, <2>3
    <3> QED
      BY <3>1 DEF CachesInv
  <2> QED
    BY <2>1, <2>2, <2>3
<1>8. CachesInv(S, K, t)
  BY <1>1, <1>3, <1>4, <1>7 DEF CachesInv
<1>9. ASSUME NEW b \in Address, b # a, OpenAt(S, F, t, b) PROVE OpenAt(S, K, t, b)
  <2>1. K[b] = F[b] \/ K[b] = -1
    BY <1>4, <1>5, <1>9
  <2> QED
    BY <1>6, <1>9, <2>1 DEF OpenAt
<1> QED
  BY <1>8, <1>9

\* Entries go, and time passes.
LEMMA CachesFade ==
  ASSUME NEW S, NEW F, NEW t, CachesInv(S, F, t), NEW u, u = t \/ u = t + 1, u \in 0 .. LastTick,
         NEW K, NEW G, DOMAIN K = Address, DOMAIN G = Address,
         K = [a \in Address |-> K[a]], G = [a \in Address |-> G[a]],
         \A a \in Address : (K[a] = S[a] \/ K[a] = NoStream) /\ (G[a] = F[a] \/ G[a] = -1)
  PROVE  /\ CachesInv(K, G, u)
         /\ \A b \in Address : OpenAt(S, F, t, b) => OpenAt(K, G, u, b)
<1>1. t \in Nat /\ u \in Nat /\ t <= u /\ StreamTtl \in Nat /\ FailureTtl \in Nat
  BY StreamsAssumption DEF CachesInv
<1>2. \A a \in Address : S[a] \in Entries(t) /\ F[a] \in -1 .. t
  BY DEF CachesInv
<1>3. Entries(t) \subseteq Entries(u) /\ (-1 .. t) \subseteq (-1 .. u) /\ NoStream \in Entries(u)
        /\ -1 \in -1 .. u
  BY <1>1, NoStreamEntry DEF Entries
<1>4. \A a \in Address : K[a] \in Entries(u) /\ G[a] \in -1 .. u
  BY <1>2, <1>3
<1>5. K \in [Address -> Entries(u)] /\ G \in [Address -> -1 .. u]
  BY <1>4
<1>6. ASSUME NEW a \in Address
      PROVE  /\ IsFresh(K[a], u) => IsFresh(S[a], t)
             /\ IsRefused(G[a], u) => IsRefused(F[a], t)
  <2>1. IsFresh(S[a], u) => IsFresh(S[a], t)
    <3>1. S[a].at \in Int
      BY <1>2 DEF Entries
    <3> QED
      BY <1>1, <3>1 DEF IsFresh
  <2>2. IsRefused(F[a], u) => IsRefused(F[a], t)
    <3>1. F[a] \in Int
      BY <1>1, <1>2
    <3> QED
      BY <1>1, <3>1 DEF IsRefused
  <2>3. ~IsFresh(NoStream, u) /\ ~IsRefused(-1, u)
    BY DEF IsFresh, IsRefused
  <2> QED
    BY <2>1, <2>2, <2>3
<1>7. CachesInv(K, G, u)
  <2>1. ASSUME NEW a \in Address
        PROVE  /\ ~(IsFresh(K[a], u) /\ IsRefused(G[a], u))
               /\ G[a] # -1 => Blamable(a)
               /\ K[a] # NoStream => Best(a, K[a].embed)
    BY <1>6 DEF CachesInv
  <2> QED
    BY <1>5, <2>1 DEF CachesInv
<1> QED
  BY <1>6, <1>7 DEF OpenAt

(***************************************************************************)
(* The inductive invariant: what holds of the requests, of the caches, and *)
(* of both.                                                                *)
(***************************************************************************)
StreamsIInv ==
  /\ WatchersInv(watcher) /\ CachesInv(stream, failure, tick)
  /\ OpenInv(watcher, stream, failure, tick)

LEMMA WatcherMoves ==
  ASSUME NEW W, NEW S, NEW F, NEW t, WatchersInv(W), OpenInv(W, S, F, t),
         NEW w \in Watcher, NEW r, Shaped(r), Sane(r),
         LocksAnew(r, W, w), TakesOne(r, W, w), NEW V, Becomes(V, W, w, r),
         \A a \in Address : LockedBy(r, a) => LockedBy(W[w], a) \/ OpenAt(S, F, t, a)
  PROVE  WatchersInv(V) /\ OpenInv(V, S, F, t)
<1>1. WatchersInv(V)
  BY WatcherStep
<1>2. V[w] = r /\ \A v \in Watcher : v # w => V[v] = W[v]
  BY DEF Becomes
<1>3. OpenInv(V, S, F, t)
  BY <1>2 DEF OpenInv
<1> QED
  BY <1>1, <1>3

\* What becomes of a request that locks less than before.
LEMMA WatcherRests ==
  ASSUME NEW W, NEW w, NEW r, \A a : LockedBy(r, a) => LockedBy(W[w], a),
         ResolvingOf(r) \subseteq ResolvingOf(W[w])
  PROVE  LocksAnew(r, W, w) /\ TakesOne(r, W, w)
BY DEF LocksAnew, TakesOne

LEMMA WatcherFacts ==
  ASSUME StreamsIInv, NEW w \in Watcher, NEW i \in DOMAIN watcher[w].list
  PROVE  /\ Shaped(watcher[w]) /\ Sane(watcher[w]) /\ i \in Nat \ {0}
         /\ watcher[w].list[i] \in Address
<1>1. PICK r : r = watcher[w]
  OBVIOUS
<1>2. Shaped(r) /\ Sane(r)
  BY <1>1 DEF StreamsIInv, WatchersInv
<1>3. r.list \in Seq(Address) /\ i \in DOMAIN r.list
  BY <1>1, <1>2 DEF Shaped, Asking
<1>4. i \in Nat \ {0} /\ r.list[i] \in Address
  BY <1>3
<1> QED
  BY <1>1, <1>2, <1>4

LEMMA LockFacts ==
  ASSUME StreamsIInv, NEW a, ~AddressLocked(a)
  PROVE  \A v \in Watcher : ~LockedBy(watcher[v], a)
BY DEF AddressLocked, Attempting, At, LockedBy

LEMMA SlotFacts ==
  ASSUME StreamsIInv
  PROVE  Resolving = SlotsOf(watcher)
<1>1. ASSUME NEW w \in Watcher PROVE DOMAIN watcher[w].list \subseteq Nat
  BY <1>1, WatcherFacts
<1>2. Resolving \subseteq SlotsOf(watcher)
  BY <1>1 DEF Resolving, At, SlotsOf, ResolvingOf
<1>3. SlotsOf(watcher) \subseteq Resolving
  <2> SUFFICES ASSUME NEW p \in SlotsOf(watcher) PROVE p \in Resolving
    OBVIOUS
  <2>1. PICK w \in Watcher, i \in Nat : p = <<w, i>> /\ i \in ResolvingOf(watcher[w])
    BY DEF SlotsOf
  <2>2. i \in {j \in DOMAIN watcher[w].list : At(w, j, "resolve")}
    BY <2>1 DEF ResolvingOf, At
  <2> QED
    BY <2>1, <2>2 DEF Resolving
<1> QED
  BY <1>2, <1>3

\* The three ways a request goes on, from the state that it is in.
LEMMA AnswerBecomes ==
  ASSUME StreamsIInv, NEW w \in Watcher, NEW i, NEW n, AnswerStream(w, i, n),
         NEW W, W = watcher, NEW V, V = watcher'
  PROVE  Becomes(V, W, w, AnswerOf(W[w], i, n))
<1>1. W = [v \in Watcher |-> W[v]]
  BY DEF StreamsIInv, WatchersInv
<1>2. V = [W EXCEPT ![w].pc = "answered", ![w].index = i, ![w].embed = n]
  BY DEF AnswerStream
<1> QED
  BY <1>1, <1>2 DEF Becomes, AnswerOf

LEMMA FailBecomes ==
  ASSUME StreamsIInv, NEW w \in Watcher, NEW i, NEW b, FailAttempt(w, i, b),
         NEW W, W = watcher, NEW V, V = watcher'
  PROVE  Becomes(V, W, w, FailOf(W[w], i, b))
<1>1. W = [v \in Watcher |-> W[v]] /\ Shaped(W[w])
  BY DEF StreamsIInv, WatchersInv
<1>2. PICK at : at = [W[w].at EXCEPT ![i] = "failed"]
  OBVIOUS
<1>3. DOMAIN at = DOMAIN W[w].at
  BY <1>2
<1>4. V = [W EXCEPT ![w].at = at, ![w].busy = W[w].busy \/ b,
             ![w].pc = IF \A j \in DOMAIN at : at[j] = "failed" THEN "refused" ELSE W[w].pc]
  BY <1>1, <1>2 DEF FailAttempt, Shaped, Asking
<1>5. FailOf(W[w], i, b) = [W[w] EXCEPT !.at = at, !.busy = W[w].busy \/ b,
             !.pc = IF \A j \in DOMAIN at : at[j] = "failed" THEN "refused" ELSE W[w].pc]
  BY <1>2, <1>3 DEF FailOf
<1> QED
  BY <1>1, <1>4, <1>5 DEF Becomes

LEMMA MoveBecomes ==
  ASSUME StreamsIInv, NEW w \in Watcher, NEW i, NEW stage,
         watcher' = [watcher EXCEPT ![w].at[i] = stage],
         NEW W, W = watcher, NEW V, V = watcher'
  PROVE  Becomes(V, W, w, MoveOf(W[w], i, stage))
<1>1. W = [v \in Watcher |-> W[v]] /\ Shaped(W[w])
  BY DEF StreamsIInv, WatchersInv
<1>2. V = [W EXCEPT ![w] = [W[w] EXCEPT !.at = [W[w].at EXCEPT ![i] = stage]]]
  BY <1>1
<1> QED
  BY <1>1, <1>2 DEF Becomes, MoveOf

LEMMA ConsultStep ==
  ASSUME StreamsIInv, NEW w \in Watcher, NEW i \in DOMAIN watcher[w].list,
         watcher[w].pc = "busy", watcher[w].at[i] # "failed",
         watcher[w].width = 1 => FailedBefore(watcher[w], i),
         NEW next \in {"wait", "queue"},
         next = "queue" => ~AddressLocked(watcher[w].list[i]),
         Consult(w, i, next)
  PROVE  StreamsIInv'
<1>1. PICK W, S, F, t : W = watcher /\ S = stream /\ F = failure /\ t = tick
  OBVIOUS
<1>2. PICK V : V = watcher'
  OBVIOUS
<1>3. PICK r, a : r = W[w] /\ a = r.list[i]
  OBVIOUS
<1>4. S = stream' /\ F = failure' /\ t = tick'
  BY <1>1 DEF Consult
<1>5. WatchersInv(W) /\ CachesInv(S, F, t) /\ OpenInv(W, S, F, t)
  BY <1>1 DEF StreamsIInv
<1>6. Shaped(r) /\ Sane(r) /\ i \in Nat \ {0} /\ a \in Address /\ i \in DOMAIN r.list
  BY <1>1, <1>3, WatcherFacts
<1>7. /\ r.pc = "busy" /\ r.at[i] # "failed" /\ (r.width = 1 => FailedBefore(r, i))
  BY <1>1, <1>3
<1>8. SUFFICES WatchersInv(V) /\ OpenInv(V, S, F, t)
  BY <1>2, <1>4, <1>5 DEF StreamsIInv
<1>9. CASE FreshStream(a) /\ AnswerStream(w, i, S[a].embed)
  <2>1. PICK n : n = S[a].embed
    OBVIOUS
  <2>2. n \in Nat /\ Best(a, n)
    BY <1>1, <1>5, <1>6, <1>9, <2>1 DEF CachesInv, Entries, FreshStream
  <2>3. Playing(a, n)
    BY <2>2 DEF Best, Playing
  <2>4. PICK s : s = AnswerOf(r, i, n)
    OBVIOUS
  <2>5. Shaped(s) /\ Sane(s) /\ (\A b : ~LockedBy(s, b)) /\ ResolvingOf(s) = {}
    BY <1>3, <1>6, <1>7, <2>2, <2>3, <2>4, AnswerFacts
  <2>6. Becomes(V, W, w, s)
    BY <1>1, <1>2, <1>3, <1>9, <2>1, <2>4, AnswerBecomes
  <2>7. LocksAnew(s, W, w) /\ TakesOne(s, W, w)
    BY <2>5, WatcherRests
  <2> QED
    BY <1>5, <2>5, <2>6, <2>7, WatcherMoves
<1>10. CASE FreshFailure(a) /\ FailAttempt(w, i, FALSE)
  <2>1. Blamable(a)
    BY <1>1, <1>5, <1>6, <1>10 DEF CachesInv, FreshFailure
  <2>2. PICK s : s = FailOf(r, i, FALSE)
    OBVIOUS
  <2>3. /\ Shaped(s) /\ Sane(s) /\ (\A b : LockedBy(s, b) => LockedBy(r, b))
        /\ ResolvingOf(s) \subseteq ResolvingOf(r)
    BY <1>3, <1>6, <1>7, <2>1, <2>2, FailFacts
  <2>4. Becomes(V, W, w, s)
    BY <1>1, <1>2, <1>3, <1>10, <2>2, FailBecomes
  <2>5. LocksAnew(s, W, w) /\ TakesOne(s, W, w)
    BY <1>3, <2>3, WatcherRests
  <2> QED
    BY <1>3, <1>5, <2>3, <2>4, <2>5, WatcherMoves
<1>11. CASE /\ ~FreshStream(a) /\ ~FreshFailure(a)
            /\ watcher' = [watcher EXCEPT ![w].at[i] = next]
  <2>1. OpenAt(S, F, t, a)
    BY <1>1, <1>11 DEF OpenAt, IsFresh, IsRefused, FreshStream, FreshFailure
  <2>2. PICK s : s = MoveOf(r, i, next)
    OBVIOUS
  <2>3. /\ Shaped(s) /\ Sane(s)
        /\ \A b : LockedBy(s, b) => LockedBy(r, b) \/ (next # "wait" /\ b = a)
        /\ ResolvingOf(s) \subseteq ResolvingOf(r)
    <3>1. next \in {"wait", "queue", "resolve"} /\ next # "resolve"
      OBVIOUS
    <3>2. /\ Shaped(s) /\ Sane(s)
          /\ \A b : LockedBy(s, b) => LockedBy(r, b) \/ (next # "wait" /\ b = r.list[i])
          /\ ResolvingOf(s) \subseteq
               ResolvingOf(r) \cup (IF next = "resolve" THEN {i} ELSE {})
      BY <1>6, <1>7, <2>2, <3>1, MoveFacts
    <3> QED
      BY <1>3, <3>1, <3>2
  <2>4. Becomes(V, W, w, s)
    BY <1>1, <1>2, <1>3, <1>11, <2>2, MoveBecomes
  <2>5. LocksAnew(s, W, w)
    <3> SUFFICES ASSUME NEW b \in Address, LockedBy(s, b), ~LockedBy(W[w], b), NEW v \in Watcher
                 PROVE  ~LockedBy(W[v], b)
      BY DEF LocksAnew
    <3>1. next = "queue" /\ b = a
      BY <1>3, <2>3
    <3>2. ~AddressLocked(a)
      BY <1>1, <1>3, <3>1
    <3> QED
      BY <1>1, <3>1, <3>2, LockFacts
  <2>6. TakesOne(s, W, w)
    BY <1>3, <2>3 DEF TakesOne
  <2>7. \A b \in Address : LockedBy(s, b) => LockedBy(W[w], b) \/ OpenAt(S, F, t, b)
    BY <1>3, <2>1, <2>3
  <2> QED
    BY <1>5, <2>3, <2>4, <2>5, <2>6, <2>7, WatcherMoves
<1>12. a = watcher[w].list[i] /\ S[a].embed = stream[watcher[w].list[i]].embed
  BY <1>1, <1>3
<1> QED
  BY <1>9, <1>10, <1>11, <1>12 DEF Consult

LEMMA CandidateFacts ==
  ASSUME NEW q \in Queries
  PROVE  CandidatesOf(q.urls) \in Seq(Address) /\ OnceEach(CandidatesOf(q.urls))
<1>1. PICK A, list : A = ToSet(q.urls) /\ list = Select(q.urls, Address)
  OBVIOUS
<1>2. q.urls \in Seq(A)
  BY <1>1, StreamsAssumption
<1>3. list \in Seq(A) /\ ToSet(list) \subseteq Address
  BY <1>1, <1>2, SelectFacts
<1>4. list \in Seq(Address)
  <2>1. \A i \in 1 .. Len(list) : list[i] \in Address
    BY <1>3, InList
  <2> QED
    BY <1>3, <2>1
<1>5. << >> \in Seq(Address) /\ OnceEach(<< >>)
  BY DEF OnceEach
<1>6. CandidatesOf(q.urls) = PushNew(<< >>, list, MaxCandidates)
  BY <1>1 DEF CandidatesOf
<1> QED
  BY <1>4, <1>5, <1>6, PushFacts

\* A request that begins, is over or is refused locks nothing.
LEMMA QuietStep ==
  ASSUME StreamsIInv, NEW w \in Watcher, NEW s, Shaped(s), Sane(s),
         \A a : ~LockedBy(s, a), ResolvingOf(s) = {},
         watcher' = [watcher EXCEPT ![w] = s], UNCHANGED <<tick, stream, failure>>
  PROVE  StreamsIInv'
<1>1. PICK W, S, F, t : W = watcher /\ S = stream /\ F = failure /\ t = tick
  OBVIOUS
<1>2. PICK V : V = watcher'
  OBVIOUS
<1>3. WatchersInv(W) /\ CachesInv(S, F, t) /\ OpenInv(W, S, F, t)
  BY <1>1 DEF StreamsIInv
<1>4. Becomes(V, W, w, s)
  BY <1>1, <1>2, <1>3 DEF Becomes, WatchersInv
<1>5. LocksAnew(s, W, w) /\ TakesOne(s, W, w)
  BY WatcherRests
<1>6. WatchersInv(V) /\ OpenInv(V, S, F, t)
  BY <1>3, <1>4, <1>5, WatcherMoves
<1> QED
  BY <1>1, <1>2, <1>3, <1>6 DEF StreamsIInv

LEMMA AskStep ==
  ASSUME StreamsIInv, NEW w \in Watcher, AskStream(w)
  PROVE  StreamsIInv'
<1>1. PICK r : r = watcher[w]
  OBVIOUS
<1>2. Shaped(r) /\ Sane(r) /\ r.pc = "away"
  BY <1>1 DEF StreamsIInv, WatchersInv, AskStream
<1>3. PICK q \in Queries :
        IF ~Readable(q.urls)
        THEN watcher' = [watcher EXCEPT ![w].pc = "refused", ![w].busy = TRUE]
        ELSE watcher' = [watcher EXCEPT
               ![w] = [Away EXCEPT
                         !.pc = "busy", !.list = CandidatesOf(q.urls),
                         !.width = IF q.preflight THEN PreflightMax ELSE 1,
                         !.at = [i \in DOMAIN CandidatesOf(q.urls) |-> "idle"]]]
  BY DEF AskStream
<1>4. UNCHANGED <<tick, stream, failure>>
  BY DEF AskStream
<1>5. CASE ~Readable(q.urls)
  <2>1. PICK s : s = [r EXCEPT !.pc = "refused", !.busy = TRUE]
    OBVIOUS
  <2>2. /\ s.pc = "refused" /\ s.busy = TRUE /\ s.list = r.list /\ s.at = r.at
        /\ s \in Asking
    BY <1>2, <2>1 DEF Shaped, Asking
  <2>3. Shaped(s) /\ Sane(s) /\ (\A a : ~LockedBy(s, a)) /\ ResolvingOf(s) = {}
    BY <1>2, <2>2 DEF Shaped, Sane, LockedBy, ResolvingOf
  <2>4. watcher = [v \in Watcher |-> watcher[v]]
    BY DEF StreamsIInv, WatchersInv
  <2>5. watcher' = [watcher EXCEPT ![w] = s]
    BY <1>1, <1>3, <1>5, <2>1, <2>4
  <2> QED
    BY <1>4, <2>3, <2>5, QuietStep
<1>6. CASE Readable(q.urls)
  <2>1. PICK list : list = CandidatesOf(q.urls)
    OBVIOUS
  <2>2. list \in Seq(Address) /\ OnceEach(list)
    BY <2>1, CandidateFacts
  <2>3. PICK at : at = [i \in DOMAIN list |-> "idle"]
    OBVIOUS
  <2>4. at \in Seq(Stages) /\ DOMAIN at = DOMAIN list /\ \A i \in DOMAIN list : at[i] = "idle"
    BY <2>2, <2>3 DEF Stages
  <2>5. PICK x \in {1, PreflightMax} : x = IF q.preflight THEN PreflightMax ELSE 1
    OBVIOUS
  <2>6. PICK s : s = [Away EXCEPT !.pc = "busy", !.list = list, !.width = x, !.at = at]
    OBVIOUS
  <2>7. s = [pc |-> "busy", list |-> list, width |-> x, at |-> at, busy |-> FALSE,
             index |-> 0, embed |-> 0]
    BY <2>6 DEF Away
  <2>8. s \in Asking /\ s.pc = "busy" /\ s.list = list /\ s.at = at
    BY <2>2, <2>4, <2>7 DEF Asking
  <2>9. Shaped(s) /\ Sane(s) /\ (\A a : ~LockedBy(s, a)) /\ ResolvingOf(s) = {}
    BY <2>2, <2>4, <2>8 DEF Shaped, Sane, LockedBy, ResolvingOf
  <2>10. watcher' = [watcher EXCEPT ![w] = s]
    BY <1>3, <1>6, <2>1, <2>3, <2>5, <2>6
  <2> QED
    BY <1>4, <2>9, <2>10, QuietStep
<1> QED
  BY <1>5, <1>6

LEMMA AwayFacts == Shaped(Away) /\ Sane(Away) /\ (\A a : ~LockedBy(Away, a)) /\ ResolvingOf(Away) = {}
<1>1. << >> \in Seq(Address) /\ << >> \in Seq(Stages) /\ OnceEach(<< >>) /\ DOMAIN << >> = {}
  BY DEF OnceEach
<1>2. Away \in Asking /\ Away.pc = "away" /\ Away.list = << >> /\ Away.at = << >>
  BY <1>1 DEF Away, Asking
<1> QED
  BY <1>1, <1>2 DEF Shaped, Sane, LockedBy, ResolvingOf

LEMMA LaunchStep ==
  ASSUME StreamsIInv, NEW w \in Watcher, NEW i \in DOMAIN watcher[w].list, Launch(w, i)
  PROVE  StreamsIInv'
<1>1. PICK r : r = watcher[w]
  OBVIOUS
<1>2. Shaped(r) /\ r.pc = "busy" /\ r.at[i] = "idle" /\ i \in DOMAIN r.list
  BY <1>1, WatcherFacts DEF Launch, At
<1>3. PICK n \in Nat : DOMAIN r.list = 1 .. n
  BY <1>2 DEF Shaped, Asking
<1>4. ASSUME r.width = 1 PROVE FailedBefore(r, i)
  <2>1. PICK active : active = {j \in DOMAIN r.list : r.at[j] \notin {"idle", "failed"}}
    OBVIOUS
  <2>2. Cardinality(active) < 1
    BY <1>1, <1>4, <2>1 DEF Launch
  <2>3. active \in SUBSET (1 .. n)
    BY <1>3, <2>1
  <2>4. IsFiniteSet(active)
    <3>1. PICK I : I = 1 .. n
      OBVIOUS
    <3>2. IsFiniteSet(I)
      BY <3>1, FS_Interval
    <3> QED
      BY <2>3, <3>1, <3>2, FS_Subset
  <2>5. active = {}
    BY <2>2, <2>4, FS_CardinalityType, FS_EmptySet
  <2>6. \A j \in 1 .. i - 1 : j \in DOMAIN r.list /\ r.at[j] # "idle"
    <3>1. \A j \in 1 .. i - 1 : j \in DOMAIN r.list /\ ~At(w, j, "idle")
      BY <1>2, <1>3 DEF Launch
    <3> QED
      BY <1>1, <1>2, <3>1 DEF At
  <2> QED
    BY <2>1, <2>5, <2>6 DEF FailedBefore
<1>5. Consult(w, i, "wait")
  BY DEF Launch
<1>6. "wait" \in {"wait", "queue"} /\ "wait" # "queue"
  OBVIOUS
<1> QED
  BY <1>1, <1>2, <1>4, <1>5, <1>6, ConsultStep

LEMMA LockStep ==
  ASSUME StreamsIInv, NEW w \in Watcher, NEW i \in DOMAIN watcher[w].list, LockAddress(w, i)
  PROVE  StreamsIInv'
<1>1. PICK r : r = watcher[w]
  OBVIOUS
<1>2. Shaped(r) /\ Sane(r) /\ r.pc = "busy" /\ r.at[i] = "wait" /\ i \in DOMAIN r.list
  BY <1>1, WatcherFacts DEF LockAddress, At
<1>3. r.width = 1 => FailedBefore(r, i)
  BY <1>2 DEF Sane
<1>4. Consult(w, i, "queue") /\ ~AddressLocked(watcher[w].list[i])
  BY DEF LockAddress
<1>5. "queue" \in {"wait", "queue"} /\ r.at[i] # "failed"
  BY <1>2
<1> QED
  BY <1>1, <1>2, <1>3, <1>4, <1>5, ConsultStep

LEMMA PermitStep ==
  ASSUME StreamsIInv, NEW w \in Watcher, NEW i \in DOMAIN watcher[w].list, TakePermit(w, i)
  PROVE  StreamsIInv'
<1>1. PICK W, S, F, t : W = watcher /\ S = stream /\ F = failure /\ t = tick
  OBVIOUS
<1>2. PICK V : V = watcher'
  OBVIOUS
<1>3. PICK r, a : r = W[w] /\ a = r.list[i]
  OBVIOUS
<1>4. WatchersInv(W) /\ CachesInv(S, F, t) /\ OpenInv(W, S, F, t)
  BY <1>1 DEF StreamsIInv
<1>5. /\ Shaped(r) /\ Sane(r) /\ r.pc = "busy" /\ r.at[i] = "queue" /\ i \in DOMAIN r.list
      /\ i \in Nat \ {0} /\ a \in Address
  BY <1>1, <1>3, WatcherFacts DEF TakePermit, At
<1>6. r.width = 1 => FailedBefore(r, i)
  BY <1>5 DEF Sane
<1>7. PICK s : s = MoveOf(r, i, "resolve")
  OBVIOUS
<1>8. /\ Shaped(s) /\ Sane(s)
      /\ \A b : LockedBy(s, b) => LockedBy(r, b) \/ b = a
      /\ ResolvingOf(s) \subseteq ResolvingOf(r) \cup {i}
  <2>1. "resolve" \in {"wait", "queue", "resolve"} /\ r.at[i] # "failed"
    BY <1>5
  <2> QED
    BY <1>3, <1>5, <1>6, <1>7, <2>1, MoveFacts
<1>9. LockedBy(r, a)
  BY <1>3, <1>5 DEF LockedBy
<1>10. Becomes(V, W, w, s)
  BY <1>1, <1>2, <1>3, <1>7, MoveBecomes DEF TakePermit
<1>11. LocksAnew(s, W, w) /\ \A b \in Address : LockedBy(s, b) => LockedBy(W[w], b)
  BY <1>3, <1>8, <1>9 DEF LocksAnew
<1>12. Cardinality(SlotsOf(W)) < StreamPermits
  BY <1>1, SlotFacts DEF TakePermit
<1>13. TakesOne(s, W, w)
  BY <1>3, <1>5, <1>8, <1>12 DEF TakesOne
<1>14. WatchersInv(V) /\ OpenInv(V, S, F, t)
  BY <1>4, <1>8, <1>10, <1>11, <1>13, WatcherMoves
<1> QED
  BY <1>1, <1>2, <1>4, <1>14 DEF StreamsIInv, TakePermit

LEMMA TimeoutStep ==
  ASSUME StreamsIInv, NEW w \in Watcher, NEW i \in DOMAIN watcher[w].list, PermitTimeout(w, i)
  PROVE  StreamsIInv'
<1>1. PICK W, S, F, t : W = watcher /\ S = stream /\ F = failure /\ t = tick
  OBVIOUS
<1>2. PICK V : V = watcher'
  OBVIOUS
<1>3. PICK r : r = W[w]
  OBVIOUS
<1>4. WatchersInv(W) /\ CachesInv(S, F, t) /\ OpenInv(W, S, F, t)
  BY <1>1 DEF StreamsIInv
<1>5. Shaped(r) /\ Sane(r) /\ r.pc = "busy" /\ i \in DOMAIN r.list
  BY <1>1, <1>3, WatcherFacts DEF PermitTimeout, At
<1>6. PICK s : s = FailOf(r, i, TRUE)
  OBVIOUS
<1>7. /\ Shaped(s) /\ Sane(s) /\ (\A b : LockedBy(s, b) => LockedBy(r, b))
      /\ ResolvingOf(s) \subseteq ResolvingOf(r)
  BY <1>5, <1>6, FailFacts
<1>8. Becomes(V, W, w, s)
  BY <1>1, <1>2, <1>3, <1>6, FailBecomes DEF PermitTimeout
<1>9. LocksAnew(s, W, w) /\ TakesOne(s, W, w)
  BY <1>3, <1>7, WatcherRests
<1>10. WatchersInv(V) /\ OpenInv(V, S, F, t)
  BY <1>3, <1>4, <1>7, <1>8, <1>9, WatcherMoves
<1> QED
  BY <1>1, <1>2, <1>4, <1>10 DEF StreamsIInv, PermitTimeout

\* An attempt that is at work has its address to itself.
LEMMA AtWork ==
  ASSUME StreamsIInv, NEW w \in Watcher, NEW i \in DOMAIN watcher[w].list,
         At(w, i, "resolve"), NEW W, W = watcher, NEW a, a = W[w].list[i]
  PROVE  /\ a \in Address /\ LockedBy(W[w], a) /\ OpenAt(stream, failure, tick, a)
         /\ \A v \in Watcher : LockedBy(W[v], a) => v = w
<1>1. W[w].pc = "busy" /\ i \in DOMAIN W[w].list /\ W[w].at[i] = "resolve"
  BY DEF At
<1>2. a \in Address
  BY WatcherFacts
<1>3. LockedBy(W[w], a)
  BY <1>1 DEF LockedBy
<1>4. OpenAt(stream, failure, tick, a)
  BY <1>2, <1>3 DEF StreamsIInv, OpenInv
<1>5. ASSUME NEW v \in Watcher, LockedBy(W[v], a) PROVE v = w
  BY <1>2, <1>3, <1>5 DEF StreamsIInv, WatchersInv, Apart
<1> QED
  BY <1>2, <1>3, <1>4, <1>5

LEMMA WorksStep ==
  ASSUME StreamsIInv, NEW w \in Watcher, NEW i \in DOMAIN watcher[w].list, ResolveWorks(w, i)
  PROVE  StreamsIInv'
<1>1. PICK W, S, F, t : W = watcher /\ S = stream /\ F = failure /\ t = tick
  OBVIOUS
<1>2. PICK V, K : V = watcher' /\ K = stream'
  OBVIOUS
<1>3. PICK r, a : r = W[w] /\ a = r.list[i]
  OBVIOUS
<1>4. WatchersInv(W) /\ CachesInv(S, F, t) /\ OpenInv(W, S, F, t)
  BY <1>1 DEF StreamsIInv
<1>5. /\ Shaped(r) /\ Sane(r) /\ r.pc = "busy" /\ r.at[i] = "resolve" /\ i \in DOMAIN r.list
      /\ i \in Nat \ {0} /\ a \in Address
  BY <1>1, <1>3, WatcherFacts DEF ResolveWorks, At
<1>6. /\ OpenAt(S, F, t, a) /\ LockedBy(W[w], a)
      /\ \A v \in Watcher : LockedBy(W[v], a) => v = w
  BY <1>1, <1>3, AtWork DEF ResolveWorks
<1>7. PICK n \in Resolved(a) \ {0} :
        /\ InsertStream(a, [embed |-> n, index |-> i, at |-> t]) /\ AnswerStream(w, i, n)
  BY <1>1, <1>3 DEF ResolveWorks
<1>8. n \in Nat /\ Best(a, n) /\ Playing(a, n)
  BY <1>5, ResolvedFacts
<1>9. r.width = 1 => FailedBefore(r, i)
  BY <1>5 DEF Sane
<1>10. PICK s : s = AnswerOf(r, i, n)
  OBVIOUS
<1>11. Shaped(s) /\ Sane(s) /\ (\A b : ~LockedBy(s, b)) /\ ResolvingOf(s) = {}
  BY <1>3, <1>5, <1>8, <1>9, <1>10, AnswerFacts
<1>12. Becomes(V, W, w, s)
  BY <1>1, <1>2, <1>3, <1>7, <1>10, AnswerBecomes
<1>13. LocksAnew(s, W, w) /\ TakesOne(s, W, w)
  BY <1>11, WatcherRests
<1>14. WatchersInv(V)
  BY <1>4, <1>11, <1>12, <1>13, WatcherStep
<1>15. PICK kept : Inserts(kept, S, a, n, i, t)
  BY DEF Inserts
<1>16. K \in Trim(kept, [b \in Address |-> kept[b].at], NoStream)
  BY <1>1, <1>2, <1>7, <1>15 DEF InsertStream, Inserts
<1>17. PICK age : K \in Trim(kept, age, NoStream)
  BY <1>16
<1>18. /\ CachesInv(K, F, t)
       /\ \A b \in Address : b # a /\ OpenAt(S, F, t, b) => OpenAt(K, F, t, b)
  <2>1. ~IsRefused(F[a], t)
    BY <1>6 DEF OpenAt
  <2> QED
    BY <1>4, <1>5, <1>8, <1>15, <1>17, <2>1, StreamKept
<1>19. OpenInv(V, K, F, t)
  <2> SUFFICES ASSUME NEW v \in Watcher, NEW b \in Address, LockedBy(V[v], b)
               PROVE  OpenAt(K, F, t, b)
    BY DEF OpenInv
  <2>1. V[w] = s /\ \A u \in Watcher : u # w => V[u] = W[u]
    BY <1>12 DEF Becomes
  <2>2. v # w /\ LockedBy(W[v], b)
    BY <1>11, <2>1
  <2>3. b # a
    BY <1>6, <2>2
  <2>4. OpenAt(S, F, t, b)
    BY <1>4, <2>2 DEF OpenInv
  <2> QED
    BY <1>18, <2>3, <2>4
<1> QED
  BY <1>1, <1>2, <1>14, <1>18, <1>19 DEF StreamsIInv, ResolveWorks

LEMMA FailsStep ==
  ASSUME StreamsIInv, NEW w \in Watcher, NEW i \in DOMAIN watcher[w].list, ResolveFails(w, i)
  PROVE  StreamsIInv'
<1>1. PICK W, S, F, t : W = watcher /\ S = stream /\ F = failure /\ t = tick
  OBVIOUS
<1>2. PICK V, K : V = watcher' /\ K = failure'
  OBVIOUS
<1>3. PICK r, a : r = W[w] /\ a = r.list[i]
  OBVIOUS
<1>4. WatchersInv(W) /\ CachesInv(S, F, t) /\ OpenInv(W, S, F, t)
  BY <1>1 DEF StreamsIInv
<1>5. /\ Shaped(r) /\ Sane(r) /\ r.pc = "busy" /\ r.at[i] = "resolve" /\ i \in DOMAIN r.list
      /\ i \in Nat \ {0} /\ a \in Address
  BY <1>1, <1>3, WatcherFacts DEF ResolveFails, At
<1>6. /\ OpenAt(S, F, t, a) /\ LockedBy(W[w], a)
      /\ \A v \in Watcher : LockedBy(W[v], a) => v = w
  BY <1>1, <1>3, AtWork DEF ResolveFails
<1>7. Blamable(a)
  <2>1. 0 \in Resolved(a)
    BY <1>1, <1>3 DEF ResolveFails
  <2> QED
    BY <1>5, <2>1, ResolvedFacts
<1>8. PICK s : s = FailOf(r, i, FALSE)
  OBVIOUS
<1>9. /\ Shaped(s) /\ Sane(s) /\ (\A b : LockedBy(s, b) => LockedBy(r, b))
      /\ ResolvingOf(s) \subseteq ResolvingOf(r)
  BY <1>3, <1>5, <1>7, <1>8, FailFacts
<1>10. Becomes(V, W, w, s)
  BY <1>1, <1>2, <1>3, <1>8, FailBecomes DEF ResolveFails
<1>11. LocksAnew(s, W, w) /\ TakesOne(s, W, w)
  BY <1>3, <1>9, WatcherRests
<1>12. WatchersInv(V)
  BY <1>4, <1>9, <1>10, <1>11, WatcherStep
<1>13. PICK kept : kept = [F EXCEPT ![a] = t]
  OBVIOUS
<1>14. K \in Trim(kept, kept, -1)
  BY <1>1, <1>2, <1>3, <1>13 DEF ResolveFails, InsertFailure
<1>15. /\ CachesInv(S, K, t)
       /\ \A b \in Address : b # a /\ OpenAt(S, F, t, b) => OpenAt(S, K, t, b)
  <2>1. ~IsFresh(S[a], t)
    BY <1>6 DEF OpenAt
  <2> QED
    BY <1>4, <1>5, <1>7, <1>13, <1>14, <2>1, FailureKept
<1>16. ~LockedBy(s, a)
  <2>1. PICK at : at = [r.at EXCEPT ![i] = "failed"]
    OBVIOUS
  <2>2. s.list = r.list /\ s.at = at
    BY <1>5, <1>8, <2>1 DEF FailOf, Shaped, Asking
  <2>3. \A j \in DOMAIN r.list : r.list[j] = a => j = i
    BY <1>3, <1>5 DEF Shaped, OnceEach
  <2>4. at[i] = "failed"
    BY <1>5, <2>1 DEF Shaped
  <2> QED
    BY <2>2, <2>3, <2>4 DEF LockedBy
<1>17. OpenInv(V, S, K, t)
  <2> SUFFICES ASSUME NEW v \in Watcher, NEW b \in Address, LockedBy(V[v], b)
               PROVE  OpenAt(S, K, t, b)
    BY DEF OpenInv
  <2>1. V[w] = s /\ \A u \in Watcher : u # w => V[u] = W[u]
    BY <1>10 DEF Becomes
  <2>2. LockedBy(W[v], b)
    BY <1>3, <1>9, <2>1
  <2>3. b # a
    BY <1>6, <1>16, <2>1, <2>2
  <2>4. OpenAt(S, F, t, b)
    BY <1>4, <2>2 DEF OpenInv
  <2> QED
    BY <1>15, <2>3, <2>4
<1> QED
  BY <1>1, <1>2, <1>12, <1>15, <1>17 DEF StreamsIInv, ResolveFails

LEMMA FadeStep ==
  ASSUME StreamsIInv, watcher' = watcher, tick' = tick \/ tick' = tick + 1, tick' \in 0 .. LastTick,
         stream' = [a \in Address |-> stream'[a]], failure' = [a \in Address |-> failure'[a]],
         \A a \in Address : /\ stream'[a] = stream[a] \/ stream'[a] = NoStream
                            /\ failure'[a] = failure[a] \/ failure'[a] = -1
  PROVE  StreamsIInv'
<1>1. PICK W, S, F, t : W = watcher /\ S = stream /\ F = failure /\ t = tick
  OBVIOUS
<1>2. PICK K, G, u : K = stream' /\ G = failure' /\ u = tick'
  OBVIOUS
<1>3. WatchersInv(W) /\ CachesInv(S, F, t) /\ OpenInv(W, S, F, t)
  BY <1>1 DEF StreamsIInv
<1>4. DOMAIN K = Address /\ DOMAIN G = Address
  BY <1>2
<1>5. CachesInv(K, G, u) /\ \A b \in Address : OpenAt(S, F, t, b) => OpenAt(K, G, u, b)
  BY <1>1, <1>2, <1>3, <1>4, CachesFade
<1>6. OpenInv(W, K, G, u)
  BY <1>3, <1>5 DEF OpenInv
<1> QED
  BY <1>1, <1>2, <1>3, <1>5, <1>6 DEF StreamsIInv

LEMMA StreamsInvInit == StreamsInit => StreamsIInv
<1> SUFFICES ASSUME StreamsInit PROVE StreamsIInv
  OBVIOUS
<1>1. PICK W, S, F, t : W = watcher /\ S = stream /\ F = failure /\ t = tick
  OBVIOUS
<1>2. W = [w \in Watcher |-> Away] /\ S = [a \in Address |-> NoStream] /\ F = [a \in Address |-> -1]
      /\ t = 0
  BY <1>1 DEF StreamsInit
<1>3. SlotsOf(W) = {}
  BY <1>2, AwayFacts DEF SlotsOf
<1>4. StreamPermits \in Nat /\ LastTick \in Nat
  BY StreamsAssumption
<1>5. Permitted(W)
  BY <1>3, <1>4, FS_EmptySet DEF Permitted
<1>6. WatchersInv(W)
  BY <1>2, <1>5, AwayFacts DEF WatchersInv, Apart
<1>7. S \in [Address -> Entries(t)] /\ F \in [Address -> -1 .. t] /\ t \in 0 .. LastTick
  BY <1>2, <1>4, NoStreamEntry
<1>8. CachesInv(S, F, t)
  BY <1>2, <1>7 DEF CachesInv, IsFresh, IsRefused
<1>9. OpenInv(W, S, F, t)
  BY <1>2, AwayFacts DEF OpenInv
<1> QED
  BY <1>1, <1>6, <1>8, <1>9 DEF StreamsIInv

LEMMA StreamsInvStep == StreamsIInv /\ [StreamsNext]_sportsVars => StreamsIInv'
<1> SUFFICES ASSUME StreamsIInv, [StreamsNext]_sportsVars PROVE StreamsIInv'
  OBVIOUS
<1>1. /\ stream \in [Address -> Entries(tick)] /\ failure \in [Address -> -1 .. tick]
      /\ tick \in 0 .. LastTick
  BY DEF StreamsIInv, CachesInv
<1>2. CASE UNCHANGED sportsVars
  BY <1>2 DEF sportsVars, StreamsIInv
<1>3. ASSUME NEW w \in Watcher, AskStream(w) PROVE StreamsIInv'
  BY <1>3, AskStep
<1>4. ASSUME NEW w \in Watcher, WatcherLeaves(w) PROVE StreamsIInv'
  BY <1>4, AwayFacts, QuietStep DEF WatcherLeaves
<1>5. ASSUME NEW w \in Watcher, NEW i \in DOMAIN watcher[w].list,
             \/ Launch(w, i) \/ LockAddress(w, i) \/ TakePermit(w, i)
             \/ PermitTimeout(w, i) \/ ResolveWorks(w, i) \/ ResolveFails(w, i)
      PROVE  StreamsIInv'
  BY <1>5, LaunchStep, LockStep, PermitStep, TimeoutStep, WorksStep, FailsStep
<1>6. ASSUME NEW a \in Address, PruneAddress(a) PROVE StreamsIInv'
  <2>1. watcher' = watcher /\ tick' = tick
    BY <1>6 DEF PruneAddress
  <2>2. \/ stream' = [stream EXCEPT ![a] = NoStream] /\ failure' = failure
        \/ failure' = [failure EXCEPT ![a] = -1] /\ stream' = stream
    BY <1>6 DEF PruneAddress
  <2>3. stream' = [b \in Address |-> stream'[b]] /\ failure' = [b \in Address |-> failure'[b]]
    BY <1>1, <2>2
  <2>4. \A b \in Address : /\ stream'[b] = stream[b] \/ stream'[b] = NoStream
                           /\ failure'[b] = failure[b] \/ failure'[b] = -1
    BY <1>1, <2>2
  <2> QED
    BY <1>1, <2>1, <2>3, <2>4, FadeStep
<1>7. ASSUME TickPasses PROVE StreamsIInv'
  <2>1. /\ watcher' = watcher /\ stream' = stream /\ failure' = failure
        /\ tick' = tick + 1 /\ tick < LastTick
    BY <1>7 DEF TickPasses
  <2>2. tick' \in 0 .. LastTick
    BY <1>1, <2>1, StreamsAssumption
  <2>3. stream' = [b \in Address |-> stream'[b]] /\ failure' = [b \in Address |-> failure'[b]]
    BY <1>1, <2>1
  <2> QED
    BY <2>1, <2>2, <2>3, FadeStep
<1> QED
  BY <1>2, <1>3, <1>4, <1>5, <1>6, <1>7 DEF StreamsNext

LEMMA StreamsInvHonest == StreamsIInv => StreamsHonest
<1> SUFFICES ASSUME StreamsIInv PROVE StreamsHonest
  OBVIOUS
<1>1. WatchersInv(watcher) /\ CachesInv(stream, failure, tick)
  BY DEF StreamsIInv
<1>2. StreamsTypeOK
  <2>1. /\ tick \in 0 .. LastTick /\ stream \in [Address -> [embed : Nat, index : Nat, at : -1 .. tick]]
        /\ failure \in [Address -> -1 .. tick]
    BY <1>1 DEF CachesInv, Entries
  <2>2. ASSUME NEW w \in Watcher
        PROVE  /\ watcher[w].pc \in {"away", "busy", "answered", "refused"}
               /\ \A i \in DOMAIN watcher[w].list : watcher[w].at[i] \in Stages
    <3>1. PICK r : r = watcher[w]
      OBVIOUS
    <3>2. r \in Asking /\ DOMAIN r.at = DOMAIN r.list
      BY <1>1, <3>1 DEF WatchersInv, Shaped
    <3>3. r.at \in Seq(Stages)
      BY <3>2 DEF Asking
    <3>4. \A i \in DOMAIN r.at : r.at[i] \in Stages
      BY <3>3
    <3> QED
      BY <3>1, <3>2, <3>4 DEF Asking
  <2>3. watcher = [w \in Watcher |-> watcher[w]]
    BY <1>1 DEF WatchersInv
  <2> QED
    BY <2>1, <2>2, <2>3 DEF StreamsTypeOK
<1>3. ResolversKept
  <2>1. Cardinality(Resolving) <= StreamPermits
    BY <1>1, SlotFacts DEF WatchersInv, Permitted
  <2>2. ASSUME NEW a \in Address PROVE Cardinality(Attempting(a, {"queue", "resolve"})) <= 1
    <3>1. PICK A : A = Attempting(a, {"queue", "resolve"})
      OBVIOUS
    <3>2. \A w \in A : w \in Watcher /\ LockedBy(watcher[w], a)
      BY <3>1 DEF Attempting, At, LockedBy
    <3>3. \A v, w \in A : v = w
      BY <1>1, <3>2 DEF WatchersInv, Apart
    <3>4. CASE A = {}
      BY <3>1, <3>4, FS_EmptySet
    <3>5. CASE A # {}
      <4>1. PICK w : A = {w}
        BY <3>3, <3>5
      <4>2. PICK c : c = Cardinality(A)
        OBVIOUS
      <4>3. c = 1
        BY <4>1, <4>2, FS_Singleton
      <4>4. c <= 1
        BY <4>3
      <4> QED
        BY <3>1, <4>2, <4>4
    <3> QED
      BY <3>4, <3>5
  <2> QED
    BY <2>1, <2>2 DEF ResolversKept
<1>4. VerdictsApart
  BY <1>1 DEF CachesInv, IsFresh, IsRefused, VerdictsApart, FreshStream, FreshFailure
<1>5. VerdictsTrue
  <2> SUFFICES ASSUME NEW a \in Address
               PROVE  /\ failure[a] # -1 => Blamable(a)
                      /\ stream[a] # NoStream => Best(a, stream[a].embed)
    BY DEF VerdictsTrue, Blamable, Best
  <2> QED
    BY <1>1 DEF CachesInv
<1>6. AnswersOwn
  <2> SUFFICES ASSUME NEW w \in Watcher, NEW r, r = watcher[w]
               PROVE  /\ r.pc = "answered" =>
                           /\ Playing(r.list[r.index], r.embed)
                           /\ r.width = 1 => \A j \in 1 .. r.index - 1 : r.at[j] = "failed"
                      /\ r.pc = "refused" /\ ~r.busy =>
                           \A a \in ToSet(r.list) : Blamable(a)
    BY DEF AnswersOwn, Playing, Blamable
  <2>1. Shaped(r) /\ Sane(r)
    BY <1>1 DEF WatchersInv
  <2>2. ASSUME r.pc = "refused", ~r.busy, NEW a \in ToSet(r.list) PROVE Blamable(a)
    <3>1. PICK i \in DOMAIN r.list : r.list[i] = a
      BY <2>2 DEF ToSet
    <3> QED
      BY <2>1, <2>2, <3>1 DEF Sane
  <2> QED
    BY <2>1, <2>2 DEF Sane, FailedBefore
<1> QED
  BY <1>2, <1>3, <1>4, <1>5, <1>6 DEF StreamsHonest

\* StreamsHonest: for any number of requests, addresses and pages, one attempt
\* at a time resolves an address (SportsStreamResolveCache::lock_for), within
\* the permits; what the caches hold of it is one verdict and true of its page;
\* an answer is a stream of the request's own list, in its order.
THEOREM StreamsSafe == StreamsSpec => []StreamsHonest
<1>1. StreamsSpec => []StreamsIInv
  BY StreamsInvInit, StreamsInvStep, PTL DEF StreamsSpec
<1> QED
  BY <1>1, StreamsInvHonest, PTL
-----------------------------------------------------------------------------
(***************************************************************************)
(* ScheduleHonest.  First what a provider's answer is made into: a match   *)
(* of MatchesAt(p, t) is one that p may show at t.                         *)
(***************************************************************************)
Streams == {"best", "plain", "void", "page"}
ShownMatch == [start : Int, end : Int, streams : Seq(Streams)]
MatchesAt(p, t) ==
  {m \in ShownMatch : /\ m.end > t /\ m.end >= m.start + ShortLength
                      /\ m.streams = << >> => p = "streamed"
                      /\ m.streams # << >> => m.streams[1] # "page"}

LEMMA SourceFacts ==
  ASSUME NEW s \in Seq(Sources)
  PROVE  /\ Addressed(s) \in Seq(Sources \ {"blank"})
         /\ ByPriority(Addressed(s)) \in Seq(Sources \ {"blank"})
         /\ Addressed(s) # << >> => ByPriority(Addressed(s)) # << >>
<1>1. PICK a : a = Addressed(s)
  OBVIOUS
<1>2. a \in Seq(Sources) /\ ToSet(a) = ToSet(s) \cap (Sources \ {"blank"})
  BY <1>1, SelectFacts DEF Addressed
<1>3. ASSUME NEW c \in Seq(Sources), ToSet(c) \subseteq Sources \ {"blank"}
      PROVE  c \in Seq(Sources \ {"blank"})
  <2>1. \A i \in 1 .. Len(c) : c[i] \in Sources \ {"blank"}
    BY <1>3, InList
  <2> QED
    BY <1>3, <2>1
<1>4. a \in Seq(Sources \ {"blank"})
  BY <1>2, <1>3
<1>5. PICK b, o : b = Select(a, {"best"}) /\ o = Select(a, Sources \ {"best"})
  OBVIOUS
<1>6. PICK X : X = Sources \ {"blank"}
  OBVIOUS
<1>7. /\ b \in Seq(X) /\ ToSet(b) = ToSet(a) \cap {"best"}
      /\ o \in Seq(X) /\ ToSet(o) = ToSet(a) \cap (Sources \ {"best"})
  BY <1>4, <1>5, <1>6, SelectFacts
<1>8. b \o o \in Seq(X)
  BY <1>7
<1>9. a # << >> => b \o o # << >>
  <2> SUFFICES ASSUME a # << >> PROVE b \o o # << >>
    OBVIOUS
  <2>1. a[1] \in ToSet(a) /\ ToSet(a) \subseteq Sources
    BY <1>2, InList
  <2>2. ToSet(b) # {} \/ ToSet(o) # {}
    BY <1>7, <2>1
  <2>3. b # << >> \/ o # << >>
    BY <1>7, <2>2, InList
  <2> QED
    BY <1>7, <2>3
<1> QED
  BY <1>1, <1>4, <1>5, <1>6, <1>8, <1>9 DEF ByPriority

\* The first of a list that has no page is not the page.
LEMMA NoPage ==
  ASSUME NEW s \in Seq(Sources \ {"blank"})
  PROVE  /\ s \in Seq(Streams)
         /\ s # << >> => s[1] # "page"
         /\ s \o <<"page">> \in Seq(Streams)
         /\ s # << >> => (s \o <<"page">>)[1] # "page"
         /\ \A n \in Nat \ {0} : /\ SubSeq(s, 1, n) \in Seq(Streams) \/ n > Len(s)
                                 /\ s # << >> => SubSeq(s, 1, n)[1] # "page"
                                 /\ s # << >> => SubSeq(s, 1, n) # << >>
<1>1. \A i \in 1 .. Len(s) : s[i] \in Streams /\ s[i] # "page"
  BY DEF Sources, Streams
<1>2. s \in Seq(Streams)
  BY <1>1
<1>3. s # << >> => Len(s) >= 1
  OBVIOUS
<1>4. s \o <<"page">> \in Seq(Streams)
  BY <1>2 DEF Streams
<1>5. s # << >> => (s \o <<"page">>)[1] # "page"
  BY <1>1, <1>3
<1>6. ASSUME NEW n \in Nat \ {0}
      PROVE  /\ SubSeq(s, 1, n) \in Seq(Streams) \/ n > Len(s)
             /\ s # << >> => SubSeq(s, 1, n)[1] # "page"
             /\ s # << >> => SubSeq(s, 1, n) # << >>
  <2>1. n <= Len(s) => SubSeq(s, 1, n) \in Seq(Streams)
    BY <1>2
  <2>2. s # << >> => SubSeq(s, 1, n) # << >> /\ SubSeq(s, 1, n)[1] = s[1]
    BY <1>3
  <2> QED
    BY <1>1, <1>3, <2>1, <2>2
<1> QED
  BY <1>1, <1>2, <1>3, <1>4, <1>5, <1>6

LEMMA MatchFacts ==
  ASSUME NEW m \in Match
  PROVE  /\ m.start \in Int /\ m.sources \in Seq(Sources)
         /\ m.length \in Nat /\ (m.length = 0 \/ m.length >= ShortLength)
         /\ m.paged \in BOOLEAN
         /\ DefaultLength \in Nat /\ ShortLength \in Nat /\ DefaultLength >= ShortLength
BY ScheduleAssumption DEF Match

LEMMA FilterFacts ==
  ASSUME NEW matches \in Seq(Match), NEW t, NEW answered
  PROVE  FilterEmptyLive(matches, t, answered) \in Seq(Match)
<1>1. PICK out : out = FilterEmptyLive(matches, t, answered)
  OBVIOUS
<1>2. PICK n \in Nat : n = Len(matches) /\ DOMAIN matches = 1 .. n
  OBVIOUS
<1>3. ASSUME NEW i \in 1 .. n
      PROVE  [matches[i] EXCEPT !.sources = Select(@, Sources \ {"void"})] \in Match
  <2>1. PICK m \in Match : m = matches[i]
    BY <1>2
  <2>2. PICK s \in Seq(Sources) : s = Select(m.sources, Sources \ {"void"})
    BY MatchFacts, SelectFacts
  <2>3. [m EXCEPT !.sources = s] \in Match
    BY DEF Match
  <2> QED
    BY <2>1, <2>2, <2>3
<1>4. \A i \in 1 .. n : out[i] \in Match
  <2> SUFFICES ASSUME NEW i \in 1 .. n PROVE out[i] \in Match
    OBVIOUS
  <2>1. PICK m : m = matches[i]
    OBVIOUS
  <2>2. PICK e : e = [m EXCEPT !.sources = Select(@, Sources \ {"void"})]
    OBVIOUS
  <2>3. m \in Match /\ e \in Match
    <3>1. matches[i] \in Match
      BY <1>2
    <3>2. [matches[i] EXCEPT !.sources = Select(@, Sources \ {"void"})] \in Match
      BY <1>3
    <3> QED
      BY <2>1, <2>2, <3>1, <3>2
  <2>4. out[i] = IF answered /\ Live(m, t) THEN e ELSE m
    BY <1>1, <1>2, <2>1, <2>2 DEF FilterEmptyLive
  <2> QED
    BY <2>3, <2>4
<1>5. out = [i \in 1 .. n |-> out[i]]
  BY <1>1, <1>2 DEF FilterEmptyLive
<1> QED
  BY <1>1, <1>2, <1>4, <1>5

LEMMA NormalizeFacts ==
  ASSUME NEW m \in Match, NEW t \in Int
  PROVE  /\ m.start + DefaultLength > t => NormalizeStreamed(m) \in MatchesAt("streamed", t)
         /\ NormalizeMatchstream(m).end > t /\ Addressed(m.sources) # << >> =>
              NormalizeMatchstream(m) \in MatchesAt("matchstream", t)
         /\ m.start + DefaultLength > t /\ Addressed(m.sources) # << >> =>
              NormalizeNtvs(m) \in MatchesAt("ntvs", t)
         /\ m.start + DefaultLength > t /\ NormalizeCdnlivetv(m).streams # << >> =>
              NormalizeCdnlivetv(m) \in MatchesAt("cdnlivetv", t)
<1>1. PICK a \in Seq(Sources \ {"blank"}) : a = Addressed(m.sources)
  BY MatchFacts, SourceFacts
<1>2. PICK b \in Seq(Sources \ {"blank"}) : b = ByPriority(a) /\ (a # << >> => b # << >>)
  BY <1>1, MatchFacts, SourceFacts
<1>3. PICK d \in Int : d = m.start + DefaultLength /\ d >= m.start + ShortLength /\ m.start \in Int
  BY MatchFacts
<1>4. /\ a \in Seq(Streams) /\ (a # << >> => a[1] # "page")
      /\ b \in Seq(Streams) /\ (b # << >> => b[1] # "page")
      /\ b \o <<"page">> \in Seq(Streams) /\ (b # << >> => (b \o <<"page">>)[1] # "page")
  BY NoPage
<1>5. d > t => NormalizeStreamed(m) \in MatchesAt("streamed", t)
  BY <1>1, <1>2, <1>3, <1>4 DEF NormalizeStreamed, MatchesAt, ShownMatch
<1>6. NormalizeMatchstream(m).end > t /\ a # << >> =>
        NormalizeMatchstream(m) \in MatchesAt("matchstream", t)
  <2>1. PICK e : e = m.start + (IF m.length > 0 THEN m.length ELSE DefaultLength)
    OBVIOUS
  <2>2. e \in Int /\ e >= m.start + ShortLength
    <3>1. PICK x, y : x = m.start /\ y = m.length
      OBVIOUS
    <3>2. x \in Int /\ y \in Nat /\ (y = 0 \/ y >= ShortLength) /\ ShortLength \in Nat
      BY <3>1, MatchFacts
    <3>3. d \in Int /\ d = x + DefaultLength /\ d >= x + ShortLength
      BY <1>3, <3>1
    <3>4. e = IF y > 0 THEN x + y ELSE d
      BY <2>1, <3>1, <3>3
    <3>5. e \in Int /\ e >= x + ShortLength
      BY ONLY <3>2, <3>3, <3>4
    <3> QED
      BY ONLY <3>1, <3>5
  <2>3. NormalizeMatchstream(m) = [start |-> m.start, end |-> e, streams |-> a]
    BY <1>1, <2>1 DEF NormalizeMatchstream
  <2> QED
    BY <1>3, <1>4, <2>2, <2>3 DEF MatchesAt, ShownMatch
<1>7. d > t /\ a # << >> => NormalizeNtvs(m) \in MatchesAt("ntvs", t)
  <2> SUFFICES ASSUME d > t, a # << >> PROVE NormalizeNtvs(m) \in MatchesAt("ntvs", t)
    OBVIOUS
  <2>1. PICK s : s = b \o (IF m.paged THEN <<"page">> ELSE << >>)
    OBVIOUS
  <2>2. s = b \/ s = b \o <<"page">>
    BY <2>1
  <2>3. s \in Seq(Streams) /\ s # << >> /\ s[1] # "page"
    BY <1>2, <1>4, <2>2
  <2>4. NormalizeNtvs(m) = [start |-> m.start, end |-> d, streams |-> s]
    BY <1>1, <1>2, <1>3, <2>1 DEF NormalizeNtvs
  <2> QED
    BY <1>3, <2>3, <2>4 DEF MatchesAt, ShownMatch
<1>8. d > t /\ NormalizeCdnlivetv(m).streams # << >> =>
        NormalizeCdnlivetv(m) \in MatchesAt("cdnlivetv", t)
  <2>1. PICK k : k = IF Len(b) < MaxFeeds THEN Len(b) ELSE MaxFeeds
    OBVIOUS
  <2>2. PICK s : s = SubSeq(b, 1, k)
    OBVIOUS
  <2>3. NormalizeCdnlivetv(m) = [start |-> m.start, end |-> d, streams |-> s]
    BY <1>1, <1>2, <1>3, <2>1, <2>2 DEF NormalizeCdnlivetv
  <2>4. k \in Nat /\ k <= Len(b) /\ MaxFeeds \in Nat \ {0}
    BY <2>1, ScheduleAssumption
  <2> SUFFICES ASSUME d > t, s # << >> PROVE NormalizeCdnlivetv(m) \in MatchesAt("cdnlivetv", t)
    BY <2>3
  <2>5. k # 0 /\ b # << >>
    BY <2>1, <2>2, <2>4
  <2>6. s \in Seq(Streams) /\ s[1] # "page"
    BY <2>2, <2>4, <2>5, NoPage
  <2> QED
    BY <1>3, <2>3, <2>6 DEF MatchesAt, ShownMatch
<1> QED
  BY <1>1, <1>3, <1>5, <1>6, <1>7, <1>8

\* Whatever the provider lists, what is made of it may be shown.
LEMMA FetchedFacts ==
  ASSUME NEW p \in Provider, NEW matches \in Seq(Match), moment \in Nat,
         NEW list \in Fetched(p, matches)
  PROVE  list \in Seq(MatchesAt(p, moment))
<1>1. PICK t \in Nat : t = moment
  OBVIOUS
<1>2. ASSUME NEW ms \in Seq(Match), NEW S
      PROVE  \E kept \in Seq(Match), n \in Nat :
               /\ kept = Select(ms, S) /\ DOMAIN kept = 1 .. n
               /\ \A i \in 1 .. n : kept[i] \in Match /\ kept[i] \in S
  <2>1. PICK kept \in Seq(Match) : kept = Select(ms, S) /\ ToSet(kept) = ToSet(ms) \cap S
    BY SelectFacts
  <2>2. \A i \in 1 .. Len(kept) : kept[i] \in S
    BY <2>1, InList
  <2> QED
    BY <2>1, <2>2
<1>3. ASSUME NEW ms \in Seq(Match) PROVE BuildStreamed(ms, t) \in Seq(MatchesAt("streamed", t))
  <2>1. PICK S : S = {m \in ToSet(ms) : /\ m.titled /\ m.sources # << >>
                                        /\ m.start + DefaultLength > t}
    OBVIOUS
  <2>2. PICK kept \in Seq(Match), n \in Nat :
          /\ kept = Select(ms, S) /\ DOMAIN kept = 1 .. n
          /\ \A i \in 1 .. n : kept[i] \in Match /\ kept[i] \in S
    BY <1>2
  <2>3. \A i \in 1 .. n : NormalizeStreamed(kept[i]) \in MatchesAt("streamed", t)
    BY <2>1, <2>2, NormalizeFacts
  <2>4. BuildStreamed(ms, t) = [i \in 1 .. n |-> NormalizeStreamed(kept[i])]
    BY <2>1, <2>2 DEF BuildStreamed
  <2> QED
    BY <2>3, <2>4
<1>4. BuildMatchstream(matches, t) \in Seq(MatchesAt("matchstream", t))
  <2>1. PICK S : S = {m \in ToSet(matches) : /\ Addressed(m.sources) # << >>
                                             /\ NormalizeMatchstream(m).end > t}
    OBVIOUS
  <2>2. PICK kept \in Seq(Match), n \in Nat :
          /\ kept = Select(matches, S) /\ DOMAIN kept = 1 .. n
          /\ \A i \in 1 .. n : kept[i] \in Match /\ kept[i] \in S
    BY <1>2
  <2>3. \A i \in 1 .. n : NormalizeMatchstream(kept[i]) \in MatchesAt("matchstream", t)
    BY <2>1, <2>2, NormalizeFacts
  <2>4. BuildMatchstream(matches, t) = [i \in 1 .. n |-> NormalizeMatchstream(kept[i])]
    BY <2>1, <2>2 DEF BuildMatchstream
  <2> QED
    BY <2>3, <2>4
<1>5. BuildNtvs(matches, t) \in Seq(MatchesAt("ntvs", t))
  <2>1. PICK S : S = {m \in ToSet(matches) :
                        /\ m.titled /\ m.ours /\ Addressed(m.sources) # << >>
                        /\ m.start + DefaultLength > t}
    OBVIOUS
  <2>2. PICK kept \in Seq(Match), n \in Nat :
          /\ kept = Select(matches, S) /\ DOMAIN kept = 1 .. n
          /\ \A i \in 1 .. n : kept[i] \in Match /\ kept[i] \in S
    BY <1>2
  <2>3. \A i \in 1 .. n : NormalizeNtvs(kept[i]) \in MatchesAt("ntvs", t)
    BY <2>1, <2>2, NormalizeFacts
  <2>4. BuildNtvs(matches, t) = [i \in 1 .. n |-> NormalizeNtvs(kept[i])]
    BY <2>1, <2>2 DEF BuildNtvs
  <2> QED
    BY <2>3, <2>4
<1>6. BuildCdnlivetv(matches, t) \in Seq(MatchesAt("cdnlivetv", t))
  <2>1. PICK S : S = {m \in ToSet(matches) :
                        /\ m.titled /\ m.ours /\ m.start + DefaultLength > t
                        /\ NormalizeCdnlivetv(m).streams # << >>}
    OBVIOUS
  <2>2. PICK kept \in Seq(Match), n \in Nat :
          /\ kept = Select(matches, S) /\ DOMAIN kept = 1 .. n
          /\ \A i \in 1 .. n : kept[i] \in Match /\ kept[i] \in S
    BY <1>2
  <2>3. \A i \in 1 .. n : NormalizeCdnlivetv(kept[i]) \in MatchesAt("cdnlivetv", t)
    BY <2>1, <2>2, NormalizeFacts
  <2>4. BuildCdnlivetv(matches, t) = [i \in 1 .. n |-> NormalizeCdnlivetv(kept[i])]
    BY <2>1, <2>2 DEF BuildCdnlivetv
  <2> QED
    BY <2>3, <2>4
<1>7. CASE p = "streamed"
  <2>1. PICK answered \in BOOLEAN : list = BuildStreamed(FilterEmptyLive(matches, t, answered), t)
    BY <1>1, <1>7 DEF Fetched
  <2> QED
    BY <1>1, <1>3, <1>7, <2>1, FilterFacts
<1>8. CASE p = "matchstream"
  <2>1. list = BuildMatchstream(matches, t)
    BY <1>1, <1>8 DEF Fetched
  <2> QED
    BY <1>1, <1>4, <1>8, <2>1
<1>9. CASE p = "ntvs"
  <2>1. list = BuildNtvs(matches, t)
    BY <1>1, <1>9 DEF Fetched
  <2> QED
    BY <1>1, <1>5, <1>9, <2>1
<1>10. CASE p = "cdnlivetv"
  <2>1. list = BuildCdnlivetv(matches, t)
    BY <1>1, <1>10 DEF Fetched
  <2> QED
    BY <1>1, <1>6, <1>10, <2>1
<1> QED
  BY <1>7, <1>8, <1>9, <1>10, ScheduleAssumption

(***************************************************************************)
(* How long a schedule is good for: of what it lists, a match that is on   *)
(* at t was told of lately, and one that is over has ended lately.         *)
(***************************************************************************)
LEMMA TtlFacts ==
  ASSUME NEW p, NEW from \in Int, NEW list \in Seq(MatchesAt(p, from))
  PROVE  /\ FreshTtl(list, from) \in Nat /\ FreshTtl(list, from) <= FutureTtl
         /\ \A t \in Int, m \in ToSet(list) :
              from <= t /\ t <= from + FreshTtl(list, from) =>
                /\ m.start <= t => t - from <= NearTtl
                /\ m.end <= t => t - m.end <= LiveTtl
<1>1. /\ LiveTtl \in Nat /\ NearTtl \in Nat /\ EmptyTtl \in Nat /\ FutureTtl \in Nat
      /\ NearWindow \in Nat /\ ShortLength \in Nat
      /\ 0 < LiveTtl /\ LiveTtl <= NearTtl /\ NearTtl <= EmptyTtl /\ EmptyTtl <= FutureTtl
      /\ FutureTtl <= NearWindow /\ NearTtl <= ShortLength
  BY ScheduleAssumption
<1>2. PICK M : M = ToSet(list)
  OBVIOUS
<1>3. ASSUME NEW m \in M
      PROVE  m.start \in Int /\ m.end \in Int /\ m.end > from /\ m.end >= m.start + ShortLength
  <2>1. m \in MatchesAt(p, from)
    BY <1>2, <1>3, InList
  <2> QED
    BY <2>1 DEF MatchesAt, ShownMatch
<1>4. PICK ttl : ttl = FreshTtl(list, from)
  OBVIOUS
<1>5. M = {list[i] : i \in DOMAIN list}
  BY <1>2 DEF ToSet
<1>6. \/ ttl = EmptyTtl /\ M = {}
      \/ ttl = LiveTtl
      \/ /\ ttl = NearTtl
         /\ \A m \in M : ~(m.start <= from /\ from < m.end)
      \/ /\ ttl = FutureTtl
         /\ \A m \in M : /\ ~(m.start <= from /\ from < m.end)
                         /\ ~(from < m.start /\ m.start - from <= NearWindow)
  <2>1. CASE list = << >>
    BY <1>4, <1>5, <2>1 DEF FreshTtl
  <2>2. CASE /\ list # << >>
             /\ \A i \in DOMAIN list :
                  /\ ~(list[i].start <= from /\ from < list[i].end)
                  /\ ~(from < list[i].start /\ list[i].start - from <= NearWindow)
    <3>1. ttl = FutureTtl
      BY <1>4, <2>2 DEF FreshTtl
    <3> QED
      BY <1>5, <2>2, <3>1
  <2>3. CASE list # << >> /\ \E i \in DOMAIN list : list[i].start <= from /\ from < list[i].end
    BY <1>4, <2>3 DEF FreshTtl
  <2>4. CASE /\ list # << >>
             /\ ~\E i \in DOMAIN list : list[i].start <= from /\ from < list[i].end
             /\ \E i \in DOMAIN list : from < list[i].start /\ list[i].start - from <= NearWindow
    <3>1. ttl = NearTtl
      BY <1>4, <2>4 DEF FreshTtl
    <3> QED
      BY <1>5, <2>4, <3>1
  <2> QED
    BY <2>1, <2>2, <2>3, <2>4
<1>7. ttl \in Nat /\ ttl <= FutureTtl
  BY <1>1, <1>6
<1>8. ASSUME NEW t \in Int, NEW m \in M, from <= t, t <= from + ttl
      PROVE  /\ m.start <= t => t - from <= NearTtl
             /\ m.end <= t => t - m.end <= LiveTtl
  <2>1. PICK s \in Int, e \in Int : s = m.start /\ e = m.end /\ e > from /\ e >= s + ShortLength
    BY <1>3
  <2>2. CASE ttl = LiveTtl
    BY <1>1, <1>8, <2>1, <2>2
  <2>3. CASE ttl = NearTtl /\ ~(s <= from /\ from < e)
    <3>1. t - from <= NearTtl
      BY <1>1, <1>8, <2>3
    <3>2. s > from /\ e > from + NearTtl /\ e > t
      BY <1>1, <1>8, <2>1, <2>3
    <3> QED
      BY <2>1, <3>1, <3>2
  <2>4. CASE ttl = FutureTtl /\ ~(s <= from /\ from < e) /\ ~(from < s /\ s - from <= NearWindow)
    <3>1. s > from + NearWindow
      BY <1>1, <2>1, <2>4
    <3>2. t <= from + NearWindow
      BY <1>1, <1>8, <2>4
    <3>3. s > t /\ e > t
      BY <1>1, <1>8, <2>1, <3>1, <3>2
    <3> QED
      BY <2>1, <3>3
  <2> QED
    BY <1>6, <2>1, <2>2, <2>3, <2>4
<1> QED
  BY <1>2, <1>4, <1>7, <1>8

(***************************************************************************)
(* The inductive invariant, of a moment t, the schedules S and requests F: *)
(* what is kept was told at some time before and is due by what it lists,  *)
(* and a request has passed over a provider only if nothing of it could be *)
(* used, which stays so unless another request fetches it.                 *)
(***************************************************************************)
FanSet ==
  [pc : {"home", "look", "wait", "fetch", "hit", "miss", "stale", "error"},
   left : Seq(Provider), all : SUBSET Provider, began : Nat]
EntrySet == [matches : Seq(ShownMatch), fetched : Int, due : Int]
NewEntry(list, t) == [matches |-> list, fetched |-> t, due |-> t + FreshTtl(list, t)]
Told(how) == [Home EXCEPT !.pc = how]

EntryRight(e, p, t) ==
  e # NoSchedule =>
    /\ e.fetched \in 0 .. t /\ e.matches \in Seq(MatchesAt(p, e.fetched))
    /\ e.due = e.fetched + FreshTtl(e.matches, e.fetched)
UsableIn(e, t) == e # NoSchedule /\ t <= e.fetched + StaleTtl
Seeking(r) == r.pc \in {"look", "wait", "fetch"}
FanRight(r, S, t) ==
  /\ r \in FanSet /\ r.began <= t /\ ToSet(r.left) \subseteq r.all
  /\ Seeking(r) =>
       /\ r.left # << >>
       /\ \A p \in r.all : \/ p \in ToSet(r.left)
                           \/ ~UsableIn(S[p], t) \/ S[p].fetched >= r.began
SchedulesInv(t, S, F) ==
  /\ t \in 0 .. LastMoment /\ S \in [Provider -> EntrySet] /\ F \in [Fan -> FanSet]
  /\ \A p \in Provider : EntryRight(S[p], p, t)
  /\ \A f \in Fan : FanRight(F[f], S, t)
ScheduleIInv == ways \in Ways /\ SchedulesInv(moment, schedule, fan)

LEMMA ScheduleConstants ==
  /\ LastMoment \in Nat /\ StaleTtl \in Nat /\ FutureTtl \in Nat /\ NearTtl \in Nat
  /\ LiveTtl \in Nat
  /\ \A w \in Ways : \A chain \in w :
       chain \in Seq(Provider) /\ chain # << >> /\ ToSet(chain) \subseteq Provider
<1>1. ASSUME NEW w \in Ways, NEW chain \in w
      PROVE  chain \in Seq(Provider) /\ chain # << >> /\ ToSet(chain) \subseteq Provider
  <2>1. chain \in Seq(Provider) /\ chain # << >>
    BY ScheduleAssumption
  <2> QED
    BY <2>1, InList
<1> QED
  BY <1>1, ScheduleAssumption

LEMMA ToldFacts ==
  ASSUME NEW how \in {"home", "hit", "miss", "stale", "error"}, NEW S, NEW t \in Nat
  PROVE  Told(how) \in FanSet /\ Told(how).pc = how /\ FanRight(Told(how), S, t)
<1>1. Told(how) = [pc |-> how, left |-> << >>, all |-> {}, began |-> 0]
  <2>1. PICK h : h = Home
    OBVIOUS
  <2>2. h = [pc |-> "home", left |-> << >>, all |-> {}, began |-> 0]
    BY <2>1 DEF Home
  <2>3. Told(how) = [h EXCEPT !.pc = how]
    BY <2>1 DEF Told
  <2> QED
    BY <2>2, <2>3
<1>2. PICK r : r = Told(how)
  OBVIOUS
<1>3. r \in FanSet /\ r.pc = how /\ r.began = 0 /\ r.left = << >>
  BY <1>1, <1>2 DEF FanSet
<1>4. ToSet(r.left) = {}
  BY <1>3 DEF ToSet
<1> QED
  BY <1>2, <1>3, <1>4 DEF FanRight, Seeking

\* Time passes, and another request may fetch a schedule.
Advances(S, t, V, u) == /\ t \in Nat /\ u \in Nat /\ t <= u
                     /\ \A p \in Provider : V[p] = S[p] \/ V[p].fetched = u

LEMMA FanStays ==
  ASSUME NEW S \in [Provider -> EntrySet], NEW t, NEW V, NEW u, Advances(S, t, V, u),
         NEW r, FanRight(r, S, t)
  PROVE  FanRight(r, V, u)
<1>1. t \in Nat /\ u \in Nat /\ t <= u
  BY DEF Advances
<1>2. r \in FanSet /\ r.began \in Nat /\ r.began <= t /\ r.all \subseteq Provider
  BY DEF FanRight, FanSet
<1>3. ASSUME NEW p \in r.all, ~UsableIn(S[p], t) \/ S[p].fetched >= r.began
      PROVE  ~UsableIn(V[p], u) \/ V[p].fetched >= r.began
  <2>1. S[p].fetched \in Int /\ p \in Provider /\ StaleTtl \in Nat
    BY <1>2, ScheduleConstants DEF EntrySet
  <2>2. CASE V[p] = S[p]
    BY <1>1, <1>3, <2>1, <2>2 DEF UsableIn
  <2>3. CASE V[p].fetched = u
    BY <1>1, <1>2, <2>3
  <2> QED
    BY <2>1, <2>2, <2>3 DEF Advances
<1> QED
  BY <1>1, <1>2, <1>3 DEF FanRight

LEMMA EntryStays ==
  ASSUME NEW e \in EntrySet, NEW p, NEW t \in Nat, NEW u \in Nat, t <= u, EntryRight(e, p, t)
  PROVE  EntryRight(e, p, u)
BY DEF EntryRight

LEMMA EntryMade ==
  ASSUME NEW p, NEW t \in Nat, NEW list \in Seq(MatchesAt(p, t))
  PROVE  NewEntry(list, t) \in EntrySet /\ EntryRight(NewEntry(list, t), p, t)
<1>1. FreshTtl(list, t) \in Nat
  BY TtlFacts
<1>2. list \in Seq(ShownMatch)
  BY DEF MatchesAt
<1> QED
  BY <1>1, <1>2 DEF NewEntry, EntrySet, EntryRight

LEMMA TailFacts ==
  ASSUME NEW A, NEW s \in Seq(A), s # << >>
  PROVE  /\ Head(s) = s[1] /\ Head(s) \in ToSet(s) /\ Head(s) \in A
         /\ Len(s) > 1 => /\ Tail(s) \in Seq(A) /\ Tail(s) # << >>
                          /\ ToSet(Tail(s)) \subseteq ToSet(s)
                          /\ \A p \in ToSet(s) : p = Head(s) \/ p \in ToSet(Tail(s))
         /\ ~(Len(s) > 1) => ToSet(s) = {Head(s)}
<1>1. Len(s) \in Nat /\ Len(s) >= 1 /\ Head(s) = s[1] /\ s[1] \in A
  OBVIOUS
<1>2. ToSet(s) = {s[i] : i \in 1 .. Len(s)}
  BY InList
<1>3. ASSUME Len(s) > 1
      PROVE  /\ Tail(s) \in Seq(A) /\ Tail(s) # << >>
             /\ ToSet(Tail(s)) \subseteq ToSet(s)
             /\ \A p \in ToSet(s) : p = Head(s) \/ p \in ToSet(Tail(s))
  <2>1. PICK u : u = Tail(s)
    OBVIOUS
  <2>2. u \in Seq(A) /\ u # << >> /\ Len(u) = Len(s) - 1
    BY <1>3, <2>1
  <2>3. \A i \in 1 .. Len(u) : u[i] = s[i + 1]
    BY <1>3, <2>1
  <2>4. ToSet(u) = {u[i] : i \in 1 .. Len(u)}
    BY <2>2, InList
  <2>5. ToSet(u) \subseteq ToSet(s)
    BY <1>1, <1>2, <2>2, <2>3, <2>4
  <2>6. ASSUME NEW p \in ToSet(s), p # s[1] PROVE p \in ToSet(u)
    <3>1. PICK i \in 1 .. Len(s) : p = s[i]
      BY <1>2, <2>6
    <3>2. i - 1 \in 1 .. Len(u) /\ u[i - 1] = s[i]
      BY <1>1, <2>2, <2>3, <2>6, <3>1
    <3> QED
      BY <2>4, <3>1, <3>2
  <2> QED
    BY <1>1, <2>1, <2>2, <2>5, <2>6
<1>4. ~(Len(s) > 1) => ToSet(s) = {Head(s)}
  <2>1. PICK n \in Nat : n = Len(s) /\ n >= 1
    BY <1>1
  <2>2. ~(n > 1) => 1 .. n = {1}
    BY <2>1
  <2> QED
    BY <1>1, <1>2, <2>1, <2>2
<1> QED
  BY <1>1, <1>2, <1>3, <1>4

(***************************************************************************)
(* What a handler makes of a request r for p, and of the schedules.        *)
(***************************************************************************)
Outcome(n, V, r, S, t, p) ==
  \/ V = S /\ (n = [r EXCEPT !.pc = "wait"] \/ n = [r EXCEPT !.pc = "fetch"])
  \/ V = S /\ n = Told("hit") /\ S[p] # NoSchedule /\ t <= S[p].due
  \/ n = Told("miss") /\ \E list \in Seq(MatchesAt(p, t)) : V = [S EXCEPT ![p] = NewEntry(list, t)]
  \/ V = S /\ n = Told("stale")
  \/ V = S /\ ~UsableIn(S[p], t) /\ Len(r.left) > 1
     /\ n = [r EXCEPT !.pc = "look", !.left = Tail(r.left)]
  \/ V = S /\ ~UsableIn(S[p], t) /\ ~(Len(r.left) > 1) /\ n = Told("error")

LEMMA ServeCases ==
  ASSUME NEW S, NEW F, NEW t, S = schedule, F = fan, t = moment, SchedulesInv(t, S, F),
         NEW f \in Fan, NEW p, Serve(f, p)
  PROVE  /\ p \in Provider /\ Head(F[f].left) = p /\ Seeking(F[f])
         /\ moment' = t /\ ways' = ways
         /\ \E n : fan' = [F EXCEPT ![f] = n] /\ Outcome(n, schedule', F[f], S, t, p)
<1>1. PICK r : r = F[f]
  OBVIOUS
<1>2. t \in Nat /\ r \in FanSet /\ FanRight(r, S, t) /\ r = fan[f]
  BY <1>1 DEF SchedulesInv, ScheduleAssumption
<1>3. /\ Seeking(r) /\ Head(r.left) = p /\ moment' = t /\ ways' = ways
  BY <1>2 DEF Serve, LookUp, LockSchedule, FetchWorks, FetchFails, Seeking
<1>4. p \in Provider
  <2>1. r.left \in Seq(Provider) /\ r.left # << >>
    BY <1>2, <1>3 DEF FanRight, FanSet
  <2> QED
    BY <1>3, <2>1, TailFacts
<1>5. ASSUME NEW how, TellFan(f, how) PROVE fan' = [F EXCEPT ![f] = Told(how)]
  BY <1>5 DEF TellFan, Told
<1>6. ASSUME NEW pc, fan' = [fan EXCEPT ![f].pc = pc]
      PROVE  fan' = [F EXCEPT ![f] = [r EXCEPT !.pc = pc]]
  BY <1>1, <1>6
<1>7. ASSUME AskNext(f), ~UsableIn(S[p], t), schedule' = S
      PROVE  \E n : fan' = [F EXCEPT ![f] = n] /\ Outcome(n, schedule', r, S, t, p)
  <2>1. CASE Len(r.left) > 1
    <3>1. fan' = [fan EXCEPT ![f].pc = "look", ![f].left = Tail(@)]
      BY <1>2, <1>7, <2>1 DEF AskNext
    <3>2. F \in [Fan -> FanSet]
      BY DEF SchedulesInv
    <3>3. fan' = [F EXCEPT ![f] = [r EXCEPT !.pc = "look", !.left = Tail(r.left)]]
      BY <1>1, <3>1, <3>2 DEF FanSet
    <3> QED
      BY <1>7, <2>1, <3>3 DEF Outcome
  <2>2. CASE ~(Len(r.left) > 1)
    <3>1. fan' = [F EXCEPT ![f] = Told("error")]
      BY <1>2, <1>5, <1>7, <2>2 DEF AskNext
    <3> QED
      BY <1>7, <2>2, <3>1 DEF Outcome
  <2> QED
    BY <2>1, <2>2
<1>8. \E n : fan' = [F EXCEPT ![f] = n] /\ Outcome(n, schedule', r, S, t, p)
  <2>1. CASE LookUp(f, p)
    <3>1. schedule' = S
      BY <2>1 DEF LookUp
    <3>2. CASE FreshSchedule(p)
      BY <1>5, <2>1, <3>1, <3>2 DEF LookUp, FreshSchedule, Outcome
    <3>3. CASE ~FreshSchedule(p)
      BY <1>6, <2>1, <3>1, <3>3 DEF LookUp, Outcome
    <3> QED
      BY <3>2, <3>3
  <2>2. CASE LockSchedule(f, p)
    <3>1. schedule' = S
      BY <2>2 DEF LockSchedule
    <3>2. CASE FreshSchedule(p)
      BY <1>5, <2>2, <3>1, <3>2 DEF LockSchedule, FreshSchedule, Outcome
    <3>3. CASE ~FreshSchedule(p)
      BY <1>6, <2>2, <3>1, <3>3 DEF LockSchedule, Outcome
    <3> QED
      BY <3>2, <3>3
  <2>3. CASE FetchWorks(f, p)
    <3>0. PICK listing \in Listings : \E matches \in Fetched(p, listing) :
            schedule' = [schedule EXCEPT
                           ![p] = [matches |-> matches, fetched |-> moment,
                                   due |-> moment + FreshTtl(matches, moment)]]
      BY <2>3 DEF FetchWorks
    <3>1. PICK matches \in Fetched(p, listing) :
            schedule' = [schedule EXCEPT
                           ![p] = [matches |-> matches, fetched |-> moment,
                                   due |-> moment + FreshTtl(matches, moment)]]
      BY <3>0
    <3>2. matches \in Seq(MatchesAt(p, t))
      BY <1>2, <1>4, FetchedFacts, ScheduleAssumption
    <3>3. schedule' = [S EXCEPT ![p] = NewEntry(matches, t)]
      BY <3>1 DEF NewEntry
    <3>4. fan' = [F EXCEPT ![f] = Told("miss")]
      BY <1>5, <2>3 DEF FetchWorks
    <3> QED
      BY <3>2, <3>3, <3>4 DEF Outcome
  <2>4. CASE FetchFails(f, p)
    <3>1. schedule' = S
      BY <2>4 DEF FetchFails
    <3>2. Usable(p) <=> UsableIn(S[p], t)
      BY DEF Usable, UsableIn
    <3>3. CASE Usable(p)
      BY <1>5, <2>4, <3>1, <3>3 DEF FetchFails, Outcome
    <3>4. CASE ~Usable(p)
      BY <1>7, <2>4, <3>1, <3>2, <3>4 DEF FetchFails
    <3> QED
      BY <3>3, <3>4
  <2> QED
    BY <2>1, <2>2, <2>3, <2>4 DEF Serve
<1> QED
  BY <1>1, <1>3, <1>4, <1>8

\* A request's new record, and what it leaves of the others.
LEMMA FanSteps ==
  ASSUME NEW t, NEW S, NEW F, SchedulesInv(t, S, F), NEW f \in Fan, NEW n,
         NEW V, NEW u, FanRight(n, V, u), Advances(S, t, V, u), u \in 0 .. LastMoment,
         V \in [Provider -> EntrySet], \A p \in Provider : EntryRight(V[p], p, u),
         NEW G, G = [F EXCEPT ![f] = n]
  PROVE  SchedulesInv(u, V, G)
<1>1. F \in [Fan -> FanSet] /\ S \in [Provider -> EntrySet]
  BY DEF SchedulesInv
<1>2. n \in FanSet
  BY DEF FanRight
<1>3. G \in [Fan -> FanSet]
  BY <1>1, <1>2
<1>4. ASSUME NEW g \in Fan PROVE FanRight(G[g], V, u)
  <2>1. CASE g = f
    BY <1>1, <2>1
  <2>2. CASE g # f
    <3>1. G[g] = F[g] /\ FanRight(F[g], S, t)
      BY <1>1, <2>2 DEF SchedulesInv
    <3> QED
      BY <1>1, <3>1, FanStays
  <2> QED
    BY <2>1, <2>2
<1> QED
  BY <1>3, <1>4 DEF SchedulesInv

LEMMA OutcomeRight ==
  ASSUME NEW t, NEW S, NEW F, SchedulesInv(t, S, F), NEW f \in Fan, NEW p \in Provider,
         Seeking(F[f]), Head(F[f].left) = p, NEW n, NEW V, Outcome(n, V, F[f], S, t, p)
  PROVE  /\ FanRight(n, V, t) /\ Advances(S, t, V, t) /\ V \in [Provider -> EntrySet]
         /\ \A q \in Provider : EntryRight(V[q], q, t)
<1>1. PICK r : r = F[f]
  OBVIOUS
<1>2. /\ t \in Nat /\ r \in FanSet /\ FanRight(r, S, t) /\ Seeking(r) /\ Head(r.left) = p
      /\ S \in [Provider -> EntrySet] /\ \A q \in Provider : EntryRight(S[q], q, t)
      /\ r.left \in Seq(Provider) /\ r.left # << >>
  BY <1>1 DEF SchedulesInv, FanRight, FanSet
<1>3. CASE n = Told("miss") /\ \E list \in Seq(MatchesAt(p, t)) : V = [S EXCEPT ![p] = NewEntry(list, t)]
  <2>1. PICK list \in Seq(MatchesAt(p, t)) : V = [S EXCEPT ![p] = NewEntry(list, t)]
    BY <1>3
  <2>2. PICK e : e = NewEntry(list, t)
    OBVIOUS
  <2>3. e \in EntrySet /\ EntryRight(e, p, t) /\ e.fetched = t
    BY <1>2, <2>2, EntryMade DEF NewEntry
  <2>4. V \in [Provider -> EntrySet] /\ V[p] = e /\ \A q \in Provider : q # p => V[q] = S[q]
    BY <1>2, <2>1, <2>2, <2>3
  <2>5. FanRight(n, V, t)
    BY <1>2, <1>3, ToldFacts
  <2> QED
    BY <1>2, <2>3, <2>4, <2>5 DEF Advances
<1>4. ASSUME V = S PROVE Advances(S, t, V, t)
  BY <1>2, <1>4 DEF Advances
<1>5. CASE V = S /\ n \in {Told("hit"), Told("stale"), Told("error")}
  BY <1>2, <1>4, <1>5, ToldFacts
<1>6. CASE V = S /\ (n = [r EXCEPT !.pc = "wait"] \/ n = [r EXCEPT !.pc = "fetch"])
  <2>1. n \in FanSet /\ n.left = r.left /\ n.all = r.all /\ n.began = r.began
    BY <1>2, <1>6 DEF FanSet
  <2>2. FanRight(n, V, t)
    BY <1>2, <1>6, <2>1 DEF FanRight
  <2> QED
    BY <1>2, <1>4, <1>6, <2>2
<1>7. CASE /\ V = S /\ ~UsableIn(S[p], t) /\ Len(r.left) > 1
           /\ n = [r EXCEPT !.pc = "look", !.left = Tail(r.left)]
  <2>1. PICK l : l = Tail(r.left)
    OBVIOUS
  <2>2. /\ l \in Seq(Provider) /\ l # << >> /\ ToSet(l) \subseteq ToSet(r.left)
        /\ \A q \in ToSet(r.left) : q = p \/ q \in ToSet(l)
    BY <1>2, <1>7, <2>1, TailFacts
  <2>3. /\ n \in FanSet /\ n.left = l /\ n.all = r.all /\ n.began = r.began /\ n.pc = "look"
    BY <1>2, <1>7, <2>1, <2>2 DEF FanSet
  <2>4. FanRight(n, V, t)
    BY <1>2, <1>7, <2>2, <2>3 DEF FanRight
  <2> QED
    BY <1>2, <1>4, <1>7, <2>4
<1> QED
  BY <1>1, <1>3, <1>5, <1>6, <1>7 DEF Outcome

LEMMA ScheduleInvInit == ScheduleInit => ScheduleIInv
<1> SUFFICES ASSUME ScheduleInit PROVE ScheduleIInv
  OBVIOUS
<1>1. PICK S, F : S = schedule /\ F = fan
  OBVIOUS
<1>2. /\ S = [p \in Provider |-> NoSchedule] /\ F = [f \in Fan |-> Home]
      /\ moment = 0 /\ ways \in Ways
  BY <1>1 DEF ScheduleInit
<1>3. NoSchedule \in EntrySet
  BY DEF NoSchedule, EntrySet
<1>4. Told("home") = Home
  BY DEF Told, Home
<1>5. Home \in FanSet /\ FanRight(Home, S, 0)
  BY <1>4, ToldFacts
<1>6. \A p \in Provider : EntryRight(S[p], p, 0)
  BY <1>2 DEF EntryRight
<1>7. SchedulesInv(0, S, F)
  BY <1>2, <1>3, <1>5, <1>6, ScheduleConstants DEF SchedulesInv
<1> QED
  BY <1>1, <1>2, <1>7 DEF ScheduleIInv

LEMMA ScheduleInvStep == ScheduleIInv /\ [ScheduleNext]_scheduleVars => ScheduleIInv'
<1> SUFFICES ASSUME ScheduleIInv, [ScheduleNext]_scheduleVars PROVE ScheduleIInv'
  OBVIOUS
<1>1. PICK S, F, t : S = schedule /\ F = fan /\ t = moment
  OBVIOUS
<1>2. PICK V, G, u : V = schedule' /\ G = fan' /\ u = moment'
  OBVIOUS
<1>3. /\ SchedulesInv(t, S, F) /\ t \in Nat /\ t \in 0 .. LastMoment /\ ways \in Ways
      /\ S \in [Provider -> EntrySet] /\ F \in [Fan -> FanSet]
      /\ \A p \in Provider : EntryRight(S[p], p, t)
      /\ \A f \in Fan : FanRight(F[f], S, t)
  BY <1>1 DEF ScheduleIInv, SchedulesInv
<1>4. SchedulesInv(u, V, G) /\ ways' \in Ways => ScheduleIInv'
  BY <1>2 DEF ScheduleIInv
<1>5. Advances(S, t, S, t)
  BY <1>3 DEF Advances
<1>6. ASSUME NEW f \in Fan, AskSchedule(f) PROVE ScheduleIInv'
  <2>1. PICK chain \in ways :
          fan' = [fan EXCEPT ![f] = [pc |-> "look", left |-> chain,
                                     all |-> ToSet(chain), began |-> moment]]
    BY <1>6 DEF AskSchedule
  <2>2. PICK n : n = [pc |-> "look", left |-> chain, all |-> ToSet(chain), began |-> t]
    OBVIOUS
  <2>3. chain \in Seq(Provider) /\ chain # << >> /\ ToSet(chain) \subseteq Provider
    BY <1>3, ScheduleConstants
  <2>4. FanRight(n, S, t)
    BY <1>3, <2>2, <2>3 DEF FanRight, FanSet
  <2>5. G = [F EXCEPT ![f] = n] /\ V = S /\ u = t /\ ways' = ways
    BY <1>1, <1>2, <1>6, <2>1, <2>2 DEF AskSchedule
  <2> QED
    BY <1>3, <1>4, <1>5, <2>4, <2>5, FanSteps
<1>7. ASSUME NEW f \in Fan, FanLeaves(f) PROVE ScheduleIInv'
  <2>1. Told("home") = Home
    BY DEF Told, Home
  <2>2. FanRight(Home, S, t)
    BY <1>3, <2>1, ToldFacts
  <2>3. G = [F EXCEPT ![f] = Home] /\ V = S /\ u = t /\ ways' = ways
    BY <1>1, <1>2, <1>7 DEF FanLeaves
  <2> QED
    BY <1>3, <1>4, <1>5, <2>2, <2>3, FanSteps
<1>8. ASSUME NEW f \in Fan, NEW p, Serve(f, p) PROVE ScheduleIInv'
  <2>1. /\ p \in Provider /\ Head(F[f].left) = p /\ Seeking(F[f])
        /\ u = t /\ ways' = ways
        /\ \E n : G = [F EXCEPT ![f] = n] /\ Outcome(n, V, F[f], S, t, p)
    BY <1>1, <1>2, <1>3, <1>8, ServeCases
  <2>2. PICK n : G = [F EXCEPT ![f] = n] /\ Outcome(n, V, F[f], S, t, p)
    BY <2>1
  <2>3. /\ FanRight(n, V, t) /\ Advances(S, t, V, t) /\ V \in [Provider -> EntrySet]
        /\ \A q \in Provider : EntryRight(V[q], q, t)
    BY <1>3, <2>1, <2>2, OutcomeRight, ZenonT(40)
  <2> QED
    BY <1>3, <1>4, <2>1, <2>2, <2>3, FanSteps
<1>9. CASE MomentPasses
  <2>1. G = F /\ V = S /\ u = t + 1 /\ ways' = ways /\ t < LastMoment
    BY <1>1, <1>2, <1>9 DEF MomentPasses
  <2>2. u \in 0 .. LastMoment /\ u \in Nat /\ t <= u
    BY <1>3, <2>1, ScheduleConstants
  <2>3. Advances(S, t, V, u)
    BY <1>3, <2>1, <2>2 DEF Advances
  <2>4. \A f \in Fan : FanRight(G[f], V, u)
    BY <1>3, <2>1, <2>3, FanStays
  <2>5. \A p \in Provider : EntryRight(V[p], p, u)
    BY <1>3, <2>1, <2>2, EntryStays
  <2>6. SchedulesInv(u, V, G)
    BY <1>3, <2>1, <2>2, <2>4, <2>5 DEF SchedulesInv
  <2> QED
    BY <1>3, <1>4, <2>1, <2>6
<1>10. CASE UNCHANGED scheduleVars
  BY <1>10 DEF scheduleVars, ScheduleIInv
<1> QED
  BY <1>6, <1>7, <1>8, <1>9, <1>10 DEF ScheduleNext, StreamedSchedule,
     MatchstreamSchedule, NtvsSchedule, CdnlivetvSchedule

LEMMA ScheduleInvShown == ScheduleIInv => ScheduleTypeOK /\ PlayableFirst
<1> SUFFICES ASSUME ScheduleIInv PROVE ScheduleTypeOK /\ PlayableFirst
  OBVIOUS
<1>1. PICK S, F, t : S = schedule /\ F = fan /\ t = moment
  OBVIOUS
<1>2. /\ t \in 0 .. LastMoment /\ ways \in Ways /\ t \in Nat
      /\ S \in [Provider -> EntrySet] /\ F \in [Fan -> FanSet]
      /\ \A p \in Provider : EntryRight(S[p], p, t)
      /\ \A f \in Fan : FanRight(F[f], S, t)
  BY <1>1 DEF ScheduleIInv, SchedulesInv
<1>3. ASSUME NEW p \in Provider
      PROVE  /\ S[p].due \in S[p].fetched .. S[p].fetched + FutureTtl
             /\ \A m \in ToSet(S[p].matches) :
                  /\ ToSet(m.streams) \subseteq Shown
                  /\ m.streams = << >> => p = "streamed"
                  /\ m.streams # << >> => Head(m.streams) # "page"
  <2>1. PICK e \in EntrySet : e = S[p] /\ EntryRight(e, p, t)
    BY <1>2
  <2>2. CASE e = NoSchedule
    <3>1. e.due = -1 /\ e.fetched = -1 /\ e.matches = << >>
      BY <2>2 DEF NoSchedule
    <3>2. ToSet(e.matches) = {}
      BY <3>1 DEF ToSet
    <3>3. -1 \in -1 .. -1 + FutureTtl
      BY ScheduleConstants
    <3> QED
      BY <2>1, <3>1, <3>2, <3>3
  <2>3. CASE e # NoSchedule
    <3>0. PICK from \in Nat : from = e.fetched
      BY <1>2, <2>1, <2>3 DEF EntryRight
    <3>1. PICK list \in Seq(MatchesAt(p, from)) :
            from = e.fetched /\ list = e.matches /\ e.due = from + FreshTtl(list, from)
      BY <2>1, <2>3, <3>0 DEF EntryRight
    <3>2. FreshTtl(list, from) \in Nat /\ FreshTtl(list, from) <= FutureTtl
      BY TtlFacts
    <3>3. e.due \in e.fetched .. e.fetched + FutureTtl
      BY <3>1, <3>2, ScheduleConstants
    <3>4. ASSUME NEW m \in ToSet(list)
          PROVE  /\ ToSet(m.streams) \subseteq Shown
                 /\ m.streams = << >> => p = "streamed"
                 /\ m.streams # << >> => Head(m.streams) # "page"
      <4>1. m \in MatchesAt(p, from)
        BY InList
      <4>2. PICK s \in Seq(Streams) : /\ s = m.streams /\ (s = << >> => p = "streamed")
                                      /\ (s # << >> => s[1] # "page")
        BY <4>1 DEF MatchesAt, ShownMatch
      <4>3. ToSet(s) \subseteq Shown
        BY InList DEF Streams, Shown
      <4> QED
        BY <4>2, <4>3
    <3> QED
      BY <2>1, <3>1, <3>3, <3>4
  <2> QED
    BY <2>2, <2>3
<1>4. \A f \in Fan : /\ F[f].pc \in {"home", "look", "wait", "fetch",
                                     "hit", "miss", "stale", "error"}
                     /\ ToSet(F[f].left) \subseteq F[f].all
  BY <1>2 DEF FanRight, FanSet
<1>5. S = [p \in Provider |-> S[p]] /\ F = [f \in Fan |-> F[f]]
  BY <1>2
<1>6. ScheduleTypeOK
  BY <1>1, <1>2, <1>3, <1>4, <1>5 DEF ScheduleTypeOK
<1>7. PlayableFirst
  BY <1>1, <1>3 DEF PlayableFirst
<1> QED
  BY <1>6, <1>7

\* Of the record of a handler's step, what the answer is taken from.
LEMMA OutcomeHonest ==
  ASSUME NEW t, NEW S, NEW F, SchedulesInv(t, S, F), NEW f \in Fan, NEW p \in Provider,
         Seeking(F[f]), Head(F[f].left) = p, NEW n, NEW V, Outcome(n, V, F[f], S, t, p)
  PROVE  /\ n.pc \in {"hit", "miss"} =>
              \A m \in ToSet(V[p].matches) :
                /\ m.start <= t => t - V[p].fetched <= NearTtl
                /\ m.end <= t => t - m.end <= LiveTtl
         /\ n.pc = "error" =>
              \A q \in F[f].all : ~UsableIn(S[q], t) \/ S[q].fetched >= F[f].began
<1>1. PICK r : r = F[f]
  OBVIOUS
<1>2. /\ t \in Nat /\ r \in FanSet /\ FanRight(r, S, t) /\ Seeking(r) /\ Head(r.left) = p
      /\ S \in [Provider -> EntrySet] /\ EntryRight(S[p], p, t)
      /\ r.left \in Seq(Provider) /\ r.left # << >>
  BY <1>1 DEF SchedulesInv, FanRight, FanSet
<1>3. ASSUME NEW from \in Nat, from <= t, NEW list \in Seq(MatchesAt(p, from)),
             t <= from + FreshTtl(list, from)
      PROVE  \A m \in ToSet(list) : /\ m.start <= t => t - from <= NearTtl
                                    /\ m.end <= t => t - m.end <= LiveTtl
  <2>1. \A u \in Int, m \in ToSet(list) :
          from <= u /\ u <= from + FreshTtl(list, from) =>
            /\ m.start <= u => u - from <= NearTtl
            /\ m.end <= u => u - m.end <= LiveTtl
    <3>1. from \in Int
      BY <1>3
    <3> QED
      BY <3>1, <1>3, TtlFacts
  <2> QED
    BY <1>2, <1>3, <2>1, SMTT(30)
<1>4. CASE n = Told("miss") /\ \E list \in Seq(MatchesAt(p, t)) : V = [S EXCEPT ![p] = NewEntry(list, t)]
  <2>1. PICK list \in Seq(MatchesAt(p, t)) : V = [S EXCEPT ![p] = NewEntry(list, t)]
    BY <1>4
  <2>2. V[p].fetched = t /\ V[p].matches = list
    BY <1>2, <2>1 DEF NewEntry
  <2>3. FreshTtl(list, t) \in Nat
    BY <1>2, TtlFacts
  <2>4. t <= t + FreshTtl(list, t)
    BY <1>2, <2>3
  <2>5. n.pc # "error"
    BY <1>2, <1>4, ToldFacts
  <2> QED
    BY <1>2, <1>3, <2>2, <2>4, <2>5
<1>5. CASE V = S /\ n = Told("hit") /\ S[p] # NoSchedule /\ t <= S[p].due
  <2>0. PICK from \in Nat : from = S[p].fetched /\ from <= t
    BY <1>2, <1>5 DEF EntryRight
  <2>1. PICK list \in Seq(MatchesAt(p, from)) :
          list = S[p].matches /\ S[p].due = from + FreshTtl(list, from)
    BY <1>2, <1>5, <2>0 DEF EntryRight
  <2>2. n.pc # "error"
    BY <1>2, <1>5, ToldFacts
  <2> QED
    BY <1>3, <1>5, <2>0, <2>1, <2>2
<1>6. CASE V = S /\ n = Told("stale")
  BY <1>2, <1>6, ToldFacts
<1>7. CASE V = S /\ ~UsableIn(S[p], t) /\ ~(Len(r.left) > 1) /\ n = Told("error")
  <2>1. ToSet(r.left) = {p}
    BY <1>2, <1>7, TailFacts
  <2>2. n.pc = "error"
    BY <1>2, <1>7, ToldFacts
  <2> QED
    BY <1>1, <1>2, <1>7, <2>1, <2>2 DEF FanRight
<1>8. CASE \/ n = [r EXCEPT !.pc = "wait"] \/ n = [r EXCEPT !.pc = "fetch"]
           \/ n = [r EXCEPT !.pc = "look", !.left = Tail(r.left)]
  <2>1. n.pc \in {"wait", "fetch", "look"}
    BY <1>2, <1>8 DEF FanSet
  <2> QED
    BY <2>1
<1> QED
  BY <1>1, <1>4, <1>5, <1>6, <1>7, <1>8 DEF Outcome

LEMMA ScheduleStepHonest ==
  ScheduleIInv /\ [ScheduleNext]_scheduleVars =>
    [\A f \in Fan : LiveIsRecent(f) /\ ErrorIsLast(f)]_scheduleVars
<1> SUFFICES ASSUME ScheduleIInv, ScheduleNext, NEW f \in Fan
             PROVE  LiveIsRecent(f) /\ ErrorIsLast(f)
  OBVIOUS
<1>1. PICK S, F, t : S = schedule /\ F = fan /\ t = moment
  OBVIOUS
<1>2. PICK V, G : V = schedule' /\ G = fan'
  OBVIOUS
<1>3. SchedulesInv(t, S, F) /\ F \in [Fan -> FanSet]
  BY <1>1 DEF ScheduleIInv, SchedulesInv
<1>4. SUFFICES ASSUME F[f].pc \in {"look", "wait", "fetch"}, G[f].pc \notin {"home", F[f].pc},
                      G[f].pc \in {"hit", "miss", "error"}
               PROVE  LiveIsRecent(f) /\ ErrorIsLast(f)
  BY <1>1, <1>2 DEF LiveIsRecent, ErrorIsLast, Answered
<1>5. PICK p : Serve(f, p)
  <2>1. ASSUME NEW g \in Fan, AskSchedule(g) \/ FanLeaves(g) PROVE FALSE
    <3>1. PICK n : G = [F EXCEPT ![g] = n] /\ n.pc \in {"home", "look"}
      <4>1. CASE AskSchedule(g)
        BY <1>1, <1>2, <4>1 DEF AskSchedule
      <4>2. CASE FanLeaves(g)
        <5>1. Home.pc = "home"
          BY DEF Home
        <5> QED
          BY <1>1, <1>2, <4>2, <5>1 DEF FanLeaves
      <4> QED
        BY <2>1, <4>1, <4>2
    <3> QED
      BY <1>3, <1>4, <3>1
  <2>2. ASSUME NEW g \in Fan, g # f, NEW p, Serve(g, p) PROVE FALSE
    <3>1. PICK n : G = [F EXCEPT ![g] = n]
      BY <1>1, <1>2, <1>3, <2>2, ServeCases
    <3> QED
      BY <1>3, <1>4, <2>2, <3>1
  <2>3. ~MomentPasses
    BY <1>1, <1>2, <1>4 DEF MomentPasses
  <2> QED
    BY <2>1, <2>2, <2>3 DEF ScheduleNext, StreamedSchedule, MatchstreamSchedule,
       NtvsSchedule, CdnlivetvSchedule
<1>6. /\ p \in Provider /\ Head(F[f].left) = p /\ Seeking(F[f])
      /\ \E n : G = [F EXCEPT ![f] = n] /\ Outcome(n, V, F[f], S, t, p)
  BY <1>1, <1>2, <1>3, <1>5, ServeCases
<1>7. PICK n : G[f] = n /\ Outcome(n, V, F[f], S, t, p)
  BY <1>3, <1>6
<1>8. p \in Provider /\ Seeking(F[f]) /\ Head(F[f].left) = p
  BY <1>6
<1>9. /\ n.pc \in {"hit", "miss"} =>
           \A m \in ToSet(V[p].matches) :
             /\ m.start <= t => t - V[p].fetched <= NearTtl
             /\ m.end <= t => t - m.end <= LiveTtl
      /\ n.pc = "error" =>
           \A q \in F[f].all : ~UsableIn(S[q], t) \/ S[q].fetched >= F[f].began
  BY <1>3, <1>7, <1>8, OutcomeHonest
<1>10. LiveIsRecent(f)
  BY <1>1, <1>2, <1>7, <1>8, <1>9 DEF LiveIsRecent
<1>11. ErrorIsLast(f)
  BY <1>1, <1>2, <1>7, <1>9 DEF ErrorIsLast, Usable, UsableIn
<1> QED
  BY <1>10, <1>11

\* ScheduleHonest, for any providers, listings and limits: what a schedule is
\* kept for (sports_schedule_fresh_ttl_ms) keeps its matches recent, and the
\* handlers end in an error only if no provider asked has anything to show.
THEOREM ScheduleSafe == ScheduleSpec => ScheduleHonest
<1>1. ScheduleSpec => []ScheduleIInv
  BY ScheduleInvInit, ScheduleInvStep, PTL DEF ScheduleSpec
<1>2. ScheduleSpec => [](ScheduleTypeOK /\ PlayableFirst)
  BY <1>1, ScheduleInvShown, PTL
<1>3. ScheduleSpec => [][\A f \in Fan : LiveIsRecent(f) /\ ErrorIsLast(f)]_scheduleVars
  BY <1>1, ScheduleStepHonest, PTL DEF ScheduleSpec
<1> QED
  BY <1>2, <1>3 DEF ScheduleHonest
=============================================================================
