---------------------------- MODULE ServerProofs ----------------------------
(***************************************************************************)
(* Parts of the server that share no state, each for constants of any      *)
(* size: the table of locks, the response streams, the home page's         *)
(* payload, the start with two databases, what is kept of a user's         *)
(* watching, the proxy of live playlists, and the tracks and subtitles of  *)
(* a file.                                                                 *)
(***************************************************************************)
EXTENDS KeyLockTable, MediaStream, HomeBootstrap, StartupSplit, WatchHistory,
        LiveProxy, MediaTracks, DataLemmas, FiniteSetTheorems, SequenceTheorems, TLAPS

Kind == {"remux", "export"}
Counter == Outcome \cup {"started", "active", "rejected"}

(***************************************************************************)
(* StreamInv needs to know of a body that is not over that no end of it is *)
(* noted, and of one whose output came to its end that all of the output   *)
(* was passed on and none is still to come: then an ffmpeg that did well   *)
(* leaves no short body behind.                                            *)
(***************************************************************************)
Ongoing == \A c \in Client : pump[c].pc # "end" => pump[c].end = "none"
Drained ==
  \A c \in Client :
    /\ ffmpeg[c].state = "good" => ffmpeg[c].out = Pieces
    /\ InPump(c, "reap") => pump[c].got = ffmpeg[c].out /\ ffmpeg[c].state # "runs"
StreamIInv == StreamInv /\ Ongoing /\ Drained

\* The requests with a permit, and the short bodies, are finitely many.
LEMMA StreamSetsFinite ==
  /\ \A k \in Kind : IsFiniteSet(OfKind(k)) /\ Cardinality(OfKind(k)) \in Nat
  /\ IsFiniteSet(Short) /\ Cardinality(Short) \in Nat
<1>1. \A k \in Kind : OfKind(k) \subseteq Client
  BY DEF OfKind, Guarded
<1>2. Short \subseteq Client
  BY DEF Short
<1>3. QED
  BY <1>1, <1>2, StreamAssumption, FS_Subset, FS_CardinalityType

\* What the invariant says of the permits and the counters, in one place.
LEMMA StreamNumbers ==
  ASSUME StreamIInv
  PROVE  /\ \A k \in Kind : Permits[k] \in Nat /\ Cardinality(OfKind(k)) <= Permits[k]
         /\ \A m \in Counter : metrics[m] \in Nat
         /\ metrics.active = Cardinality(OfKind("remux"))
         /\ metrics.started = metrics.active + Ended
         /\ Ended \in Nat
         /\ Cardinality(Short) <= metrics.failed + metrics.timed_out
<1>1. \A m \in Counter : metrics[m] \in Nat
  BY DEF StreamIInv, StreamInv, StreamTypeOK, Counts, Counter
<1>2. Ended \in Nat
  BY <1>1 DEF Ended, Counter, Outcome
<1>3. QED
  BY <1>1, <1>2, StreamAssumption DEF StreamIInv, StreamInv, Kind

LEMMA StreamIInvInit == StreamInit => StreamIInv
<1> SUFFICES ASSUME StreamInit PROVE StreamIInv
  OBVIOUS
<1> USE StreamAssumption
<1>1. StreamTypeOK
  BY DEF StreamInit, StreamTypeOK, NoProcess, Outcome, Pumps, Processes, Counts
<1>2. \A k \in Kind : OfKind(k) = {}
  BY DEF StreamInit, OfKind, Guarded
<1>3. Short = {}
  BY DEF StreamInit, Short
<1>4. metrics.active = 0 /\ metrics.started = 0 /\ Ended = 0
      /\ metrics.failed = 0 /\ metrics.timed_out = 0
  BY DEF StreamInit, Ended, Outcome
<1>5. StreamInv
  BY <1>1, <1>2, <1>3, <1>4, FS_EmptySet DEF StreamInv, Kind
<1>6. Ongoing /\ Drained
  BY DEF StreamInit, Ongoing, Drained, InPump, NoProcess
<1>7. QED
  BY <1>5, <1>6 DEF StreamIInv

\* The steps that take or free no permit, end no remux properly and count
\* nothing that is summed: the sets stay what they are.
LEMMA StreamKept ==
  ASSUME StreamIInv, StreamTypeOK', Ongoing', Drained',
         \A k \in Kind : OfKind(k)' = OfKind(k),
         Short' = Short,
         \A m \in Counter \ {"rejected"} : metrics'[m] = metrics[m]
  PROVE  StreamIInv'
BY DEF StreamIInv, StreamInv, Kind, Counter, Outcome, Ended

\* Steps that only move ffmpeg, and steps of a request from one place to
\* another, with or without a permit on both sides.
LEMMA StreamMoves ==
  ASSUME StreamIInv, NEW c \in Client,
         \/ AskStream(c) \/ ExportAnswered(c) \/ Spawned(c) \/ Pull(c)
         \/ ReadPiece(c) \/ ReadEnd(c) \/ TimeUp(c)
         \/ WritePiece(c) \/ CloseOutput(c) \/ FfmpegExits(c) \/ DeadlinePasses(c)
  PROVE  StreamIInv'
<1> USE StreamAssumption
    DEF StreamIInv, StreamInv, StreamTypeOK, Pumps, Processes, Counts, Ongoing,
        Drained, InPump, ToPump
<1>1. /\ pump' \in Pumps
      /\ \A d \in Client \ {c} : pump'[d] = pump[d]
      /\ pump'[c].kind = pump[c].kind
      /\ (c \in Guarded)' <=> c \in Guarded
      /\ pump'[c].end = "clean" => pump'[c] = pump[c] \/ ~Remux(c)
      /\ pump[c].end = "clean" => pump'[c] = pump[c]
  BY DEF AskStream, ExportAnswered, Spawned, Pull, ReadPiece, ReadEnd, TimeUp,
         WritePiece, CloseOutput, FfmpegExits, DeadlinePasses, Guarded, Remux
<1>2. \A k \in Kind : OfKind(k)' = OfKind(k)
  BY <1>1 DEF OfKind, Guarded
<1>3. Short' = Short
  BY <1>1 DEF Short, Remux
<1>4. metrics' = metrics
  BY DEF AskStream, ExportAnswered, Spawned, Pull, ReadPiece, ReadEnd, TimeUp,
         WritePiece, CloseOutput, FfmpegExits, DeadlinePasses
<1>5. /\ ffmpeg' \in Processes
      /\ overdue' \subseteq Client
  BY DEF AskStream, ExportAnswered, Spawned, Pull, ReadPiece, ReadEnd, TimeUp,
         WritePiece, CloseOutput, FfmpegExits, DeadlinePasses
<1>6. Ongoing'
  BY <1>1 DEF AskStream, ExportAnswered, Spawned, Pull, ReadPiece, ReadEnd, TimeUp,
              WritePiece, CloseOutput, FfmpegExits, DeadlinePasses
<1>7. Drained'
  BY <1>1, <1>5 DEF AskStream, ExportAnswered, Spawned, Pull, ReadPiece, ReadEnd,
       TimeUp, WritePiece, CloseOutput, FfmpegExits, DeadlinePasses
<1>8. StreamTypeOK'
  BY <1>1, <1>4, <1>5
<1>9. QED
  BY <1>2, <1>3, <1>4, <1>6, <1>7, <1>8, StreamKept

\* A request that does not get a permit in time, or whose client leaves the
\* queue, ends without one.
LEMMA StreamTurnedAway ==
  ASSUME StreamIInv, NEW c \in Client, InPump(c, "queue"),
         NEW how \in {"error", "gone"},
         pump' = [pump EXCEPT ![c].pc = "end", ![c].end = how],
         \/ UNCHANGED metrics
         \/ metrics' = [metrics EXCEPT !.rejected = @ + 1],
         UNCHANGED <<ffmpeg, overdue>>
  PROVE  StreamIInv'
<1> USE StreamAssumption
    DEF StreamIInv, StreamInv, StreamTypeOK, Pumps, Processes, Counts, Ongoing,
        Drained, InPump
<1>1. StreamTypeOK' /\ Ongoing' /\ Drained'
  BY DEF Outcome
<1>2. \A k \in Kind : OfKind(k)' = OfKind(k)
  BY DEF OfKind, Guarded
<1>3. Short' = Short
  BY DEF Short, Remux
<1>4. \A m \in Counter \ {"rejected"} : metrics'[m] = metrics[m]
  BY DEF Counter, Outcome
<1>5. QED
  BY <1>1, <1>2, <1>3, <1>4, StreamKept

\* A request gets a permit of its kind; the guard of a remux counts it.
LEMMA StreamAdmits ==
  ASSUME StreamIInv, NEW c \in Client, AdmitRemux(c) \/ AdmitExport(c)
  PROVE  StreamIInv'
<1>0. PICK k \in Kind : pump[c].kind = k
  BY DEF Kind, StreamIInv, StreamInv, StreamTypeOK, Pumps, Processes, Counts
<1>1. ~Busy(k) /\ c \notin OfKind(k)
  BY <1>0 DEF AdmitRemux, AdmitExport, Remux, OfKind, Guarded, InPump,
         StreamIInv, StreamInv, StreamTypeOK, Kind
<1>a. /\ pump' = [pump EXCEPT ![c].pc = "spawn"] /\ pump \in Pumps
      /\ pump[c].pc = "queue" /\ UNCHANGED <<ffmpeg, overdue>>
  BY DEF AdmitRemux, AdmitExport, InPump, ToPump, StreamIInv, StreamInv, StreamTypeOK, Pumps, Processes, Counts
<1>b. \A d \in Client : /\ pump'[d].kind = pump[d].kind
                        /\ pump'[d].end = pump[d].end /\ pump'[d].got = pump[d].got
                        /\ pump'[d].pc = IF d = c THEN "spawn" ELSE pump[d].pc
  BY <1>a DEF Pumps
<1>2. OfKind(k)' = OfKind(k) \cup {c} /\ \A l \in Kind \ {k} : OfKind(l)' = OfKind(l)
  BY <1>0, <1>a, <1>b DEF OfKind, Guarded
<1>3. Short' = Short
  BY <1>b DEF Short, Remux
<1>4. StreamTypeOK' /\ Ongoing' /\ Drained'
  <2>1. metrics' \in Counts
    <3>1. metrics \in Counts
      BY DEF StreamIInv, StreamInv, StreamTypeOK, Pumps, Processes, Counts
    <3>2. CASE AdmitRemux(c)
      <4> DEFINE D == Outcome \cup {"started", "active", "rejected"}
      <4>1. metrics' = [metrics EXCEPT !.started = @ + 1, !.active = @ + 1]
        BY <3>2 DEF AdmitRemux
      <4>2. "started" \in D /\ "active" \in D /\ metrics \in [D -> Nat]
        BY <3>1 DEF Counts
      <4> HIDE DEF D
      <4>a. \A m \in D : metrics[m] \in Nat /\ metrics[m] + 1 \in Nat
        BY <4>2
      <4>3. metrics' = [m \in D |-> IF m \in {"started", "active"} THEN metrics[m] + 1
                                    ELSE metrics[m]]
        BY <4>1, <4>2
      <4>4. QED
        BY <4>3, <4>a DEF D, Counts
    <3>3. CASE AdmitExport(c)
      BY <3>1, <3>3 DEF AdmitExport
    <3>4. QED
      BY <3>2, <3>3
  <2>2. pump' \in Pumps
    BY <1>a DEF Pumps
  <2>3. QED
    BY <1>a, <1>b, <2>1, <2>2
       DEF InPump, StreamIInv, StreamInv, StreamTypeOK, Ongoing, Drained
<1>5. Cardinality(OfKind(k)') = Cardinality(OfKind(k)) + 1
  BY <1>1, <1>2, StreamSetsFinite, FS_AddElement
<1>6. Cardinality(OfKind(k)') <= Permits[k]
  BY <1>1, <1>5, StreamNumbers, StreamSetsFinite DEF Busy
<1>7. \A l \in Kind : Cardinality(OfKind(l)') <= Permits[l]
  BY <1>2, <1>6, StreamNumbers
<1>8. CASE AdmitRemux(c)
  <2>1. k = "remux"
    BY <1>0, <1>8 DEF AdmitRemux, Remux
  <2>2. /\ metrics'.active = metrics.active + 1 /\ metrics'.started = metrics.started + 1
        /\ \A m \in Outcome : metrics'[m] = metrics[m]
    BY <1>8 DEF AdmitRemux, Outcome, StreamIInv, StreamInv, StreamTypeOK, Pumps, Processes, Counts
  <2>3. Ended' = Ended
    BY <2>2 DEF Ended, Outcome
  <2>4. metrics'.active = Cardinality(OfKind("remux")')
    BY <1>5, <2>1, <2>2, StreamNumbers
  <2>5. metrics'.started = metrics'.active + Ended'
    BY <2>2, <2>3, StreamNumbers DEF Counter
  <2>6. Cardinality(Short') <= metrics'.failed + metrics'.timed_out
    BY <1>3, <2>2, StreamNumbers DEF Outcome
  <2>7. QED
    BY <1>4, <1>7, <2>4, <2>5, <2>6 DEF StreamIInv, StreamInv, Kind
<1>9. CASE AdmitExport(c)
  <2>1. k = "export" /\ UNCHANGED metrics
    BY <1>0, <1>9 DEF AdmitExport, Remux, Kind
  <2>2. OfKind("remux")' = OfKind("remux") /\ Ended' = Ended
    BY <1>2, <2>1 DEF Kind, Ended
  <2>3. QED
    BY <1>3, <1>4, <1>7, <2>1, <2>2, StreamNumbers DEF StreamIInv, StreamInv, Kind
<1>10. QED
  BY <1>8, <1>9

\* A body is dropped, and its permit with it: the outcome of a remux is
\* counted, and a proper end that is short is counted as a failure.
LEMMA StreamEnds ==
  ASSUME StreamIInv, NEW c \in Guarded, NEW how \in {"clean", "error", "gone"},
         NEW outcome \in Outcome, EndPump(c, how, outcome),
         how = "clean" /\ pump[c].got < Pieces => outcome \in {"failed", "timed_out"}
  PROVE  StreamIInv'
<1>0. PICK k \in Kind : pump[c].kind = k
  BY DEF Kind, StreamIInv, StreamInv, StreamTypeOK, Pumps, Guarded
<1>1. c \in Client /\ c \in OfKind(k) /\ DropBody(c, how)
  BY <1>0 DEF Guarded, OfKind, EndPump, EndRemux, EndExport,
         StreamIInv, StreamInv, StreamTypeOK, Pumps, Processes, Counts
<1>2. OfKind(k)' = OfKind(k) \ {c} /\ \A l \in Kind \ {k} : OfKind(l)' = OfKind(l)
  BY <1>0, <1>1 DEF DropBody, OfKind, Guarded, StreamIInv, StreamInv, StreamTypeOK, Pumps, Processes, Counts
<1>a. pump \in Pumps /\ ffmpeg \in Processes
  BY DEF StreamIInv, StreamInv, StreamTypeOK, Pumps, Processes, Counts
<1>3. pump' \in Pumps /\ ffmpeg' \in Processes /\ overdue' \subseteq Client
  <2>1. pump' \in Pumps
    BY <1>1, <1>a, ZenonT(40) DEF DropBody, Pumps
  <2>2. ffmpeg' \in Processes
    BY <1>1, <1>a, StreamAssumption DEF DropBody, NoProcess, Processes
  <2>3. QED
    BY <1>1, <2>1, <2>2 DEF DropBody, StreamIInv, StreamInv, StreamTypeOK, Pumps, Processes, Counts
<1>4. Ongoing' /\ Drained'
  BY <1>1, <1>a DEF DropBody, NoProcess, Pumps, Processes, StreamIInv, Ongoing,
              Drained, InPump
<1>5. c \notin Short
  BY <1>1 DEF Short, Guarded, StreamIInv, Ongoing
<1>6. \A d \in Client \ {c} : pump'[d] = pump[d]
  BY <1>1 DEF DropBody, StreamIInv, StreamInv, StreamTypeOK, Pumps, Processes, Counts
<1>7. /\ pump'[c].end = how /\ pump'[c].got = pump[c].got /\ pump'[c].kind = pump[c].kind
      /\ pump[c].got \in 0..Pieces
  BY <1>1 DEF DropBody, StreamIInv, StreamInv, StreamTypeOK, Pumps, Processes, Counts
<1>8. Cardinality(OfKind(k)') = Cardinality(OfKind(k)) - 1
  BY <1>1, <1>2, StreamSetsFinite, FS_RemoveElement
<1>9. \A l \in Kind : Cardinality(OfKind(l)') <= Permits[l]
  <2>1. Cardinality(OfKind(k)') <= Permits[k]
    BY <1>1, <1>8, StreamNumbers, StreamSetsFinite
  <2>2. QED
    BY <1>2, <2>1, StreamNumbers
<1>10. CASE EndRemux(c, how, outcome)
  <2>1. k = "remux"
    BY <1>0, <1>10 DEF EndRemux, Remux
  <2>2. Cardinality(OfKind("remux")) # 0
    BY <1>1, <2>1, StreamSetsFinite, FS_EmptySet
  <2>3. metrics.active >= 1
    BY <2>2, StreamNumbers, StreamSetsFinite DEF Kind
  <2>4. metrics' = [metrics EXCEPT !.active = @ - 1, ![outcome] = @ + 1]
        /\ metrics \in Counts
    BY <1>10 DEF EndRemux, StreamIInv, StreamInv, StreamTypeOK, Pumps, Processes, Counts
  <2>5. metrics' \in Counts
    BY <2>3, <2>4 DEF Outcome, Counts
  <2>6. /\ metrics'.active = metrics.active - 1 /\ metrics'.started = metrics.started
        /\ metrics'[outcome] = metrics[outcome] + 1
        /\ \A m \in Outcome \ {outcome} : metrics'[m] = metrics[m]
    BY <2>4 DEF Outcome, Counts
  <2>7. Ended' = Ended + 1
    BY <2>6, StreamNumbers DEF Ended, Outcome, Counter
  <2>8. metrics'.active = Cardinality(OfKind("remux")')
    BY <1>8, <2>1, <2>6, StreamNumbers
  <2>9. metrics'.started = metrics'.active + Ended'
    BY <2>6, <2>7, StreamNumbers DEF Counter
  <2>10. Cardinality(Short') <= metrics'.failed + metrics'.timed_out
    <3>1. CASE how = "clean" /\ pump[c].got < Pieces
      <4>1. Short' = Short \cup {c}
        BY <1>1, <1>6, <1>7, <1>10, <3>1 DEF EndRemux, Short, Remux
      <4>2. Cardinality(Short') = Cardinality(Short) + 1
        BY <1>5, <4>1, StreamSetsFinite, FS_AddElement
      <4>3. metrics'.failed + metrics'.timed_out = metrics.failed + metrics.timed_out + 1
        BY <2>6, <3>1, StreamNumbers DEF Outcome, Counter
      <4>4. QED
        BY <4>2, <4>3, StreamNumbers, StreamSetsFinite DEF Outcome, Counter
    <3>2. CASE ~(how = "clean" /\ pump[c].got < Pieces)
      <4>1. Short' = Short
        BY <1>1, <1>5, <1>6, <1>7, <3>2 DEF Short, Remux
      <4>2. metrics'.failed >= metrics.failed /\ metrics'.timed_out >= metrics.timed_out
        BY <2>6, StreamNumbers DEF Outcome, Counter
      <4>3. QED
        BY <2>5, <4>1, <4>2, StreamNumbers, StreamSetsFinite DEF Outcome, Counter, Counts
    <3>3. QED
      BY <3>1, <3>2
  <2>11. QED
    BY <1>3, <1>4, <1>9, <2>5, <2>8, <2>9, <2>10
       DEF StreamIInv, StreamInv, StreamTypeOK, Kind
<1>11. CASE EndExport(c, how)
  <2>1. k = "export" /\ UNCHANGED metrics
    BY <1>0, <1>1, <1>11 DEF EndExport, Remux, Kind
  <2>2. Short' = Short
    BY <1>0, <1>1, <1>5, <1>6, <1>7, <2>1 DEF Short, Remux
  <2>3. OfKind("remux")' = OfKind("remux") /\ Ended' = Ended
    BY <1>2, <2>1 DEF Kind, Ended
  <2>4. QED
    BY <1>3, <1>4, <1>9, <2>1, <2>2, <2>3, StreamNumbers
       DEF StreamIInv, StreamInv, StreamTypeOK, Kind
<1>12. QED
  BY <1>10, <1>11 DEF EndPump

LEMMA StreamIInvNext == StreamIInv /\ [StreamNext]_streamVars => StreamIInv'
<1> SUFFICES ASSUME StreamIInv, [StreamNext]_streamVars PROVE StreamIInv'
  OBVIOUS
<1>1. ASSUME NEW c \in Client,
             \/ AskStream(c) \/ ExportAnswered(c) \/ SpawnRemux(c) \/ SpawnExport(c)
             \/ Pull(c) \/ ReadPiece(c) \/ ReadEnd(c) \/ TimeUp(c)
             \/ WritePiece(c) \/ CloseOutput(c) \/ FfmpegExits(c) \/ DeadlinePasses(c)
      PROVE  StreamIInv'
  BY <1>1, StreamMoves DEF SpawnRemux, SpawnExport
<1>2. ASSUME NEW c \in Client, AdmitRemux(c) \/ AdmitExport(c) PROVE StreamIInv'
  BY <1>2, StreamAdmits
<1>3. ASSUME NEW c \in Client, QueueTimesOut(c) PROVE StreamIInv'
  <2>1. CASE Remux(c)
    BY <1>3, <2>1, StreamTurnedAway DEF QueueTimesOut
  <2>2. CASE ~Remux(c)
    BY <1>3, <2>2, StreamTurnedAway DEF QueueTimesOut
  <2>3. QED
    BY <2>1, <2>2
<1>4. ASSUME NEW c \in Client, Reap(c) PROVE StreamIInv'
  <2>1. c \in Guarded
    BY <1>4 DEF Reap, InPump, Guarded
  <2>2. ffmpeg[c].state = "good" => ~(pump[c].got < Pieces)
    BY <1>4, StreamAssumption DEF Reap, StreamIInv, Drained
  <2>3. CASE ffmpeg[c].state = "good" /\ EndPump(c, "clean", "completed")
    BY <2>1, <2>2, <2>3, StreamEnds DEF Outcome
  <2>4. CASE ffmpeg[c].state = "bad" /\ EndPump(c, "clean", "failed")
    BY <2>1, <2>4, StreamEnds DEF Outcome
  <2>5. QED
    BY <1>4, <2>3, <2>4 DEF Reap
<1>5. ASSUME NEW c \in Client, SpawnFfmpegFails(c) \/ ReadFails(c) \/ Killed(c)
      PROVE  StreamIInv'
  <2>1. c \in Guarded
    BY <1>5 DEF SpawnFfmpegFails, ReadFails, Killed, InPump, Guarded
  <2>2. CASE SpawnFfmpegFails(c)
    BY <2>1, <2>2, StreamEnds DEF SpawnFfmpegFails, Outcome
  <2>3. CASE ReadFails(c)
    BY <2>1, <2>3, StreamEnds DEF ReadFails, Outcome
  <2>4. CASE Killed(c)
    BY <2>1, <2>4, StreamEnds DEF Killed, Outcome
  <2>5. QED
    BY <1>5, <2>2, <2>3, <2>4
<1>6. ASSUME NEW c \in Client, Disconnect(c) PROVE StreamIInv'
  <2>1. CASE c \in Guarded /\ EndPump(c, "gone", "canceled")
    BY <2>1, StreamEnds DEF Outcome
  <2>2. CASE /\ InPump(c, "queue")
             /\ pump' = [pump EXCEPT ![c].pc = "end", ![c].end = "gone"]
             /\ UNCHANGED <<ffmpeg, overdue, metrics>>
    BY <2>2, StreamTurnedAway
  <2>3. QED
    BY <1>6, <2>1, <2>2 DEF Disconnect
<1>7. CASE UNCHANGED streamVars
  BY <1>7 DEF streamVars, StreamIInv, StreamInv, StreamTypeOK, Ongoing, Drained,
              OfKind, Guarded, Ended, Short, Remux, InPump
<1>8. QED
  BY <1>1, <1>2, <1>3, <1>4, <1>5, <1>6, <1>7 DEF StreamNext, Serve

(***************************************************************************)
(* StreamSafe: however the streams end - by ffmpeg, by the deadline, by an *)
(* error or by the client - the permits of the remuxes and of the exports  *)
(* are never exceeded, every remux that got one is counted exactly once,   *)
(* and only a failed or killed ffmpeg leaves a body that ends short.       *)
(***************************************************************************)
THEOREM StreamSafe == StreamSpec => []StreamInv
<1>1. StreamIInv => StreamInv
  BY DEF StreamIInv
<1>2. QED
  BY <1>1, StreamIInvInit, StreamIInvNext, PTL DEF StreamSpec

(***************************************************************************)
(* RailsKept, the home page.  A payload is in memory when a refresh saves  *)
(* it, and only the refresh that holds the flag runs.  Unless the row was  *)
(* lost: outside a save the payload in memory is the row; what a visitor   *)
(* restores still is the row; and a refresh builds upon all the rails that *)
(* can be seen while it builds.                                            *)
(***************************************************************************)
OneRefresh == /\ ~inFlight => refresh.pc = "none"
              /\ refresh.pc = "persist" => cachedHome # Warming
RowKept == cachedHome # Warming /\ refresh.pc # "persist" => savedHome = cachedHome
RowCurrent ==
  \A v \in Visitor :
    visit[v].pc = "restore" /\ cachedHome = Warming => visit[v].row = savedHome
BuiltUpon == refresh.pc = "build" => KeptRails \subseteq refresh.previous
RowHeld == \A v \in Visitor : visit[v].pc = "restore" => visit[v].row # Warming
HomeIInv ==
  /\ RailsKept /\ OneRefresh /\ RowHeld
  /\ ~blind => RowKept /\ RowCurrent /\ BuiltUpon

LEMMA HomeIInvInit == HomeInit => HomeIInv
<1> SUFFICES ASSUME HomeInit PROVE HomeIInv
  OBVIOUS
<1>1. HomeTypeOK
  BY DEF HomeInit, HomeTypeOK, NoRefresh, NoVisit, Payload
<1>2. OneRefresh /\ RowKept /\ RowCurrent /\ BuiltUpon /\ RowHeld /\ shown = {}
  BY DEF HomeInit, OneRefresh, RowKept, RowCurrent, BuiltUpon, RowHeld, NoRefresh, NoVisit
<1>3. QED
  BY <1>1, <1>2 DEF HomeIInv, RailsKept

LEMMA HomeIInvNext == HomeIInv /\ [HomeNext]_homeVars => HomeIInv'
<1> SUFFICES ASSUME HomeIInv, [HomeNext]_homeVars PROVE HomeIInv'
  OBVIOUS
<1> USE HomeAssumption
    DEF HomeIInv, RailsKept, HomeTypeOK, OneRefresh, RowKept, RowCurrent, BuiltUpon,
        RowHeld, NoRefresh, NoVisit, Payload, KeptRails
<1>1. ASSUME NEW v \in Visitor, VisitCached(v) PROVE HomeIInv'
  BY <1>1 DEF VisitCached, ServeHome, SpawnRefresh
<1>2. ASSUME NEW v \in Visitor, VisitUncached(v) PROVE HomeIInv'
  BY <1>2 DEF VisitUncached
<1>3. ASSUME NEW v \in Visitor, ReadRow(v) PROVE HomeIInv'
  <2>1. CASE /\ savedHome # Warming
             /\ visit' = [visit EXCEPT ![v] = [pc |-> "restore", row |-> savedHome]]
             /\ UNCHANGED <<inFlight, refresh, shown>>
    BY <1>3, <2>1 DEF ReadRow
  <2>2. CASE ServeHome(v, {}) /\ SpawnRefresh(TRUE)
    BY <1>3, <2>2 DEF ReadRow, ServeHome, SpawnRefresh
  <2>3. QED
    BY <1>3, <2>1, <2>2 DEF ReadRow
<1>4. ASSUME NEW v \in Visitor, Restore(v) PROVE HomeIInv'
  BY <1>4 DEF Restore, ServeHome, SpawnRefresh
<1>5. CASE ReadPrevious
  <2>1. KeptRails \in SUBSET Rail
    OBVIOUS
  <2>2. refresh' \in [pc : {"none", "previous", "build", "persist", "clear"},
                     previous : SUBSET Rail]
    BY <1>5, <2>1 DEF ReadPrevious
  <2>3. HomeTypeOK'
    BY <1>5, <2>2 DEF ReadPrevious
  <2>4. refresh'.pc = "build" /\ (~blind' => refresh'.previous = KeptRails)
    BY <1>5 DEF ReadPrevious
  <2>5. QED
    BY <1>5, <2>3, <2>4 DEF ReadPrevious
<1>6. CASE Build
  BY <1>6 DEF Build, Rails
<1>7. CASE BuildFails
  BY <1>7 DEF BuildFails
<1>8. CASE Persist
  BY <1>8 DEF Persist
<1>9. CASE ClearFlag
  BY <1>9 DEF ClearFlag
<1>10. CASE GrowStale
  BY <1>10 DEF GrowStale
<1>11. CASE DeleteRow
  BY <1>11 DEF DeleteRow
<1>12. CASE RestartHome
  BY <1>12 DEF RestartHome
<1>13. CASE RefreshPanics
  BY <1>13 DEF RefreshPanics
<1>14. CASE UNCHANGED homeVars
  BY <1>14 DEF homeVars
<1>15. QED
  BY <1>1, <1>2, <1>3, <1>4, <1>5, <1>6, <1>7, <1>8, <1>9, <1>10, <1>11, <1>12, <1>13, <1>14
     DEF HomeNext, Refreshing

(***************************************************************************)
(* HomeSafe: whatever meets a refresh of the home page - visitors who      *)
(* restore the row, failing fetches, a restart - a rail that a visitor has *)
(* seen stays in the payload, unless the row was lost or not to be read.   *)
(***************************************************************************)
THEOREM HomeSafe == HomeSpec => []RailsKept
<1>1. HomeIInv => RailsKept
  BY DEF HomeIInv
<1>2. QED
  BY <1>1, HomeIInvInit, HomeIInvNext, PTL DEF HomeSpec

(***************************************************************************)
(* AccountsSafe, the start with two databases.  The copy into users.sqlite *)
(* runs only while no account was ever there: a start that makes the file  *)
(* knows so because it looked before it opened anything.                   *)
(***************************************************************************)
CopyFirst ==
  /\ users.file = "none" => moved = {} /\ deleted = {}
  /\ BootAt("users") /\ ~boot.existed => users.file = "none"
  /\ BootAt("migrate") => users.file # "none" /\ moved = {} /\ deleted = {}
SplitIInv == AccountsSafe /\ CopyFirst

LEMMA SplitIInvInit == SplitInit => SplitIInv
<1> SUFFICES ASSUME SplitInit PROVE SplitIInv
  OBVIOUS
<1> USE DEF SplitInit, SplitIInv, AccountsSafe, SplitTypeOK, CopyFirst, Health,
            NoDatabase, NoCache, LegacyAccounts, BootAt
<1>1. CASE cache = NoCache
  BY <1>1
<1>2. ASSUME NEW a \in SUBSET Account, NEW w \in SUBSET Account,
             NEW r \in SUBSET Account, NEW p \in {"old", "kept"},
             cache = [file |-> "good", accounts |-> a, wal |-> w, rows |-> r, prefs |-> p]
      PROVE  SplitIInv
  BY <1>2
<1>3. QED
  BY <1>1, <1>2

LEMMA SplitIInvNext == SplitIInv /\ [SplitNext]_splitVars => SplitIInv'
<1> SUFFICES ASSUME SplitIInv, [SplitNext]_splitVars PROVE SplitIInv'
  OBVIOUS
<1> USE DEF SplitIInv, AccountsSafe, SplitTypeOK, CopyFirst, Health, NoDatabase,
            NoCache, LegacyAccounts, BootAt, GoOn, histVars
<1>1. CASE Start
  BY <1>1 DEF Start
<1>2. CASE InitUsers
  BY <1>2 DEF InitUsers
<1>3. CASE NothingToCopy \/ LegacyUnreadable
  BY <1>3 DEF NothingToCopy, LegacyUnreadable
<1>4. CASE CopyDurableTables
  <2>1. /\ users' = [file |-> users.file, accounts |-> cache.accounts,
                    rows |-> cache.rows \cap cache.accounts]
        /\ moved' = cache.accounts /\ deleted = {}
        /\ UNCHANGED <<cache, aside, gaveUp, walLost, once, deleted>>
        /\ boot' = [pc |-> "cache", existed |-> boot.existed]
    BY <1>4 DEF CopyDurableTables
  <2>2. users.file # "none"
    BY <1>4 DEF CopyDurableTables
  <2>3. QED
    BY <1>4, <2>1, <2>2
<1>5. CASE InitCache
  <2>1. /\ UNCHANGED <<users, aside, gaveUp, walLost, once, moved, deleted>>
        /\ \E p \in {"prefs", "quarantine"} : boot' = [boot EXCEPT !.pc = p]
    BY <1>5 DEF InitCache
  <2> DEFINE Files == [file : Health, accounts : SUBSET Account, wal : SUBSET Account,
                       rows : SUBSET Account, prefs : {"old", "renamed", "kept"}]
  <2>2. cache' \in Files /\ cache'.accounts = cache.accounts
    <3>1. ASSUME NEW log \in {cache.wal, {}},
                 cache' = [cache EXCEPT !.file = IF @ = "none" THEN "good" ELSE @,
                                        !.wal = log]
          PROVE  cache' \in Files /\ cache'.accounts = cache.accounts
      BY <3>1
    <3>2. CASE UNCHANGED cache
      BY <3>2
    <3>3. QED
      BY <1>5, <3>1, <3>2 DEF InitCache
  <2>3. QED
    BY <2>1, <2>2
<1>6. CASE Quarantine
  BY <1>6 DEF Quarantine
<1>7. CASE RenamePrefs \/ CopyPrefs \/ PrefsInForm
  BY <1>7 DEF RenamePrefs, CopyPrefs, PrefsInForm
<1>8. CASE Stop
  BY <1>8 DEF Stop
<1>9. ASSUME NEW a \in Account, Register(a) PROVE SplitIInv'
  BY <1>9 DEF Register
<1>10. ASSUME NEW a \in Account, AddRow(a) PROVE SplitIInv'
  BY <1>10 DEF AddRow
<1>11. ASSUME NEW a \in Account, DeleteUser(a) PROVE SplitIInv'
  <2>1. /\ users'.accounts = users.accounts \ {a} /\ users'.rows = users.rows \ {a}
        /\ users'.file = users.file /\ users.file = "good"
        /\ users' \in [file : Health, accounts : SUBSET Account, rows : SUBSET Account]
    BY <1>11 DEF DeleteUser
  <2>2. QED
    BY <1>11, <2>1 DEF DeleteUser
<1>12. CASE CacheCorrupts \/ UsersCorrupts \/ RestoreUsers
  BY <1>12 DEF CacheCorrupts, UsersCorrupts, RestoreUsers
<1>13. CASE UNCHANGED splitVars
  BY <1>13 DEF splitVars
<1>14. QED
  BY <1>1, <1>2, <1>3, <1>4, <1>5, <1>6, <1>7, <1>8, <1>9, <1>10, <1>11, <1>12, <1>13
     DEF SplitNext

(***************************************************************************)
(* SplitSafe: wherever a start ends and whatever is corrupt, users.sqlite  *)
(* keeps every account until it is deleted, with its rows, and the legacy  *)
(* accounts stay in the cache file or aside, but for the log's.            *)
(***************************************************************************)
THEOREM SplitSafe == SplitSpec => []AccountsSafe
<1>1. SplitIInv => AccountsSafe
  BY DEF SplitIInv
<1>2. QED
  BY <1>1, SplitIInvInit, SplitIInvNext, PTL DEF SplitSpec

(***************************************************************************)
(* HistoryInv, what is kept of a user's watching.  A request about to      *)
(* insert a card, and alone so far, has left no other card of its series;  *)
(* one about to merge, and not overtaken, holds the list that is stored.   *)
(***************************************************************************)
Cleared ==
  \A q \in Request : Working(q, "insert") /\ job[q].alone =>
    \A t \in cards : Series[t] = ShowOf(q) => t = Mine(q)
ListHeld == \A q \in Request : Working(q, "merge") /\ job[q].alone => job[q].held = myList
HistoryIInv == HistoryInv /\ Cleared /\ ListHeld

LEMMA UnusedTyped ==
  /\ [q \in Request |-> Unused] \in HistoryJobs
  /\ Unused.pc = "idle" /\ "idle" \notin Phases
  /\ \A t \in Title, p \in Phases : [Unused EXCEPT !.pc = p, !.title = t] \in HistoryJob
  /\ \A t \in Title, mine \in Lists :
       [Unused EXCEPT !.pc = "clear", !.title = t, !.sync = TRUE, !.mine = mine] \in HistoryJob
<1>1. {} \in Lists /\ Lists \subseteq SUBSET Title
  BY FS_EmptySet, HistoryAssumption DEF Lists
<1>2. QED
  BY <1>1 DEF Unused, Phases, HistoryJob, HistoryJobs

\* A request that is under way is for a title.
LEMMA JobAtWork ==
  ASSUME job \in HistoryJobs, NEW q \in Request, job[q].pc # "idle"
  PROVE  job[q] \in HistoryJob
BY UnusedTyped DEF HistoryJobs

\* What the steps make of a request's record is one.
LEMMA JobTyped ==
  ASSUME NEW j \in HistoryJob
  PROVE  /\ [j EXCEPT !.alone = FALSE] \in HistoryJob
         /\ [j EXCEPT !.pc = "list"] \in HistoryJob
         /\ [j EXCEPT !.pc = "insert", !.alone = TRUE] \in HistoryJob
         /\ \A h \in Lists : [j EXCEPT !.pc = "merge", !.held = h, !.alone = TRUE] \in HistoryJob
<1>1. {"list", "insert", "merge"} \subseteq Phases
  BY DEF Phases
<1>2. [j EXCEPT !.alone = FALSE] \in HistoryJob
  BY DEF HistoryJob
<1>3. [j EXCEPT !.pc = "list"] \in HistoryJob
  BY <1>1 DEF HistoryJob
<1>4. [j EXCEPT !.pc = "insert", !.alone = TRUE] \in HistoryJob
  BY <1>1 DEF HistoryJob
<1>5. ASSUME NEW h \in Lists
      PROVE  [j EXCEPT !.pc = "merge", !.held = h, !.alone = TRUE] \in HistoryJob
  BY <1>1 DEF HistoryJob
<1>6. QED
  BY <1>2, <1>3, <1>4, <1>5

LEMMA HistoryIInvInit == HistoryInit => HistoryIInv
<1> SUFFICES ASSUME HistoryInit PROVE HistoryIInv
  OBVIOUS
<1>1. HistoryTypeOK
  BY UnusedTyped DEF HistoryInit, HistoryTypeOK
<1>2. \A q \in Request : job[q].pc = "idle"
  BY UnusedTyped DEF HistoryInit
<1>3. myList \in Lists
  BY FS_EmptySet, HistoryAssumption DEF HistoryInit, Lists
<1>4. CardsRight /\ ListRight
  BY <1>3 DEF HistoryInit, CardsRight, ListRight
<1>5. Cleared /\ ListHeld
  BY <1>2 DEF Cleared, ListHeld, Working
<1>6. QED
  BY <1>1, <1>4, <1>5 DEF HistoryIInv, HistoryInv

\* Steps that change neither the cards nor where an insertion is.
LEMMA CardsKept ==
  ASSUME HistoryIInv, job' \in HistoryJobs, UNCHANGED cardVars,
         \A t \in progress' : Series[t] \notin removed',
         \A r \in Request :
           /\ job'[r].pc = "insert" <=> job[r].pc = "insert"
           /\ job[r].pc = "insert" => /\ job'[r].title = job[r].title
                                      /\ job'[r].alone => job[r].alone
  PROVE  CardsRight' /\ Cleared'
<1> USE DEF HistoryIInv, HistoryInv, CardsRight, Cleared, Working, Mine, ShowOf,
            SiblingsOf, cardVars
<1>1. \A s \in wanted' : \/ s \in broken' \/ \E t \in cards' : Series[t] = s
                        \/ \E q \in Request : Working(q, "insert")' /\ ShowOf(q)' = s
  OBVIOUS
<1>2. Cleared'
  OBVIOUS
<1>3. QED
  BY <1>1, <1>2

\* Steps that change the list neither stored nor held.
LEMMA ListKept ==
  ASSUME HistoryIInv, job' \in HistoryJobs, UNCHANGED listVars,
         \A r \in Request : job'[r].pc = "merge" /\ job'[r].alone => job'[r].held = myList
  PROVE  ListRight' /\ ListHeld'
BY DEF HistoryIInv, HistoryInv, ListRight, ListHeld, Working, listVars

LEMMA HistoryIInvNext == HistoryIInv /\ [HistoryNext]_historyVars => HistoryIInv'
<1> SUFFICES ASSUME HistoryIInv, [HistoryNext]_historyVars PROVE HistoryIInv'
  OBVIOUS
<1>0. /\ HistoryTypeOK /\ CardsRight /\ ListRight /\ Cleared /\ ListHeld
      /\ job \in HistoryJobs /\ Lists \subseteq SUBSET Title
  BY DEF HistoryIInv, HistoryInv, HistoryTypeOK, Lists
<1>a. \A r \in Request : job[r].pc = "merge" /\ job[r].alone => job[r].held = myList
  BY <1>0 DEF ListHeld, Working
<1> USE <1>0 DEF Working
<1>1. ASSUME NEW t \in Title, PutProgress(t) PROVE HistoryIInv'
  <2>1. HistoryTypeOK' /\ \A u \in progress' : Series[u] \notin removed'
    BY <1>1 DEF PutProgress, Progress, HistoryTypeOK, CardsRight, cardVars, listVars
  <2>2. job' = job /\ UNCHANGED <<cardVars, listVars>>
    BY <1>1 DEF PutProgress
  <2>3. QED
    BY <1>a, <2>1, <2>2, CardsKept, ListKept DEF HistoryIInv, HistoryInv
<1>2. ASSUME NEW t \in Title, DeleteProgress(t) PROVE HistoryIInv'
  <2>1. HistoryTypeOK' /\ \A u \in progress' : Series[u] \notin removed'
    BY <1>2 DEF DeleteProgress, ForgetProgress, SiblingsOf, HistoryTypeOK, CardsRight,
                cardVars, listVars
  <2>2. job' = job /\ UNCHANGED <<cardVars, listVars>>
    BY <1>2 DEF DeleteProgress
  <2>3. QED
    BY <1>a, <2>1, <2>2, CardsKept, ListKept DEF HistoryIInv, HistoryInv
<1>3. ASSUME NEW q \in Request, NEW t \in Title, NEW mine \in Lists, Sync(q, t, mine)
      PROVE  HistoryIInv'
  <2>1. \A u \in progress' : Series[u] \notin removed'
    BY <1>3 DEF Sync, Progress, CardsRight
  <2>2. /\ job' = [job EXCEPT ![q] = [Unused EXCEPT !.pc = "clear", !.title = t,
                                                 !.sync = TRUE, !.mine = mine]]
        /\ job[q].pc = "idle" /\ UNCHANGED <<cardVars, listVars>>
    BY <1>3 DEF Sync
  <2>3. job' \in HistoryJobs /\ job'[q].pc = "clear"
    BY <2>2, UnusedTyped DEF HistoryJobs, Unused
  <2>4. \A r \in Request \ {q} : job'[r] = job[r]
    BY <2>2 DEF HistoryJobs
  <2>5. HistoryTypeOK'
    BY <1>3, <2>2, <2>3 DEF Sync, Progress, HistoryTypeOK, cardVars, listVars
  <2>6. CardsRight' /\ Cleared'
    BY <2>1, <2>2, <2>3, <2>4, CardsKept
  <2>7. ListRight' /\ ListHeld'
    BY <1>a, <2>2, <2>3, <2>4, ListKept
  <2>8. QED
    BY <2>5, <2>6, <2>7 DEF HistoryIInv, HistoryInv
<1>4. ASSUME NEW q \in Request, NEW t \in Title, PutCard(q, t) PROVE HistoryIInv'
  <2>1. /\ job' = [job EXCEPT ![q] = [Unused EXCEPT !.pc = "clear", !.title = t]]
        /\ job[q].pc = "idle" /\ UNCHANGED <<progress, removed, cardVars, listVars>>
    BY <1>4 DEF PutCard
  <2>2. job' \in HistoryJobs /\ job'[q].pc = "clear"
    BY <2>1, UnusedTyped DEF HistoryJobs, Unused, Phases
  <2>3. \A r \in Request \ {q} : job'[r] = job[r]
    BY <2>1 DEF HistoryJobs
  <2>4. HistoryTypeOK'
    BY <2>1, <2>2 DEF HistoryTypeOK, cardVars, listVars
  <2>5. CardsRight' /\ Cleared'
    BY <2>1, <2>2, <2>3, CardsKept DEF CardsRight
  <2>6. ListRight' /\ ListHeld'
    BY <1>a, <2>1, <2>2, <2>3, ListKept
  <2>7. QED
    BY <2>4, <2>5, <2>6 DEF HistoryIInv, HistoryInv
<1>5. ASSUME NEW q \in Request, ClearSiblings(q) PROVE HistoryIInv'
  <2>1. /\ job[q].pc = "clear" /\ cards' = cards \ (SiblingsOf(Mine(q)) \ {Mine(q)})
        /\ job' = [job EXCEPT ![q].pc = "insert", ![q].alone = TRUE]
        /\ UNCHANGED <<progress, removed, wanted, clashed, broken, listVars>>
    BY <1>5 DEF ClearSiblings
  <2>2. job' \in HistoryJobs
    <3>1. [job[q] EXCEPT !.pc = "insert", !.alone = TRUE] \in HistoryJob
      BY <2>1, JobAtWork, JobTyped
    <3>2. job' = [job EXCEPT ![q] = [job[q] EXCEPT !.pc = "insert", !.alone = TRUE]]
      BY <2>1, JobAtWork DEF HistoryJobs, HistoryJob
    <3>3. QED
      BY <3>1, <3>2 DEF HistoryJobs
  <2>3. /\ \A r \in Request \ {q} : job'[r] = job[r]
        /\ job'[q].pc = "insert" /\ job'[q].title = job[q].title
    BY <2>1 DEF HistoryJobs
  <2>4. HistoryTypeOK'
    BY <2>1, <2>2 DEF HistoryTypeOK, listVars
  <2>5. \A t \in cards' : t \in cards /\ (Series[t] = ShowOf(q) => t = Mine(q))
    BY <2>1 DEF SiblingsOf, ShowOf, HistoryTypeOK
  <2>6. \A t \in cards \ cards' : Series[t] = ShowOf(q)
    BY <2>1 DEF SiblingsOf, ShowOf
  <2>7. ShowOf(q)' = ShowOf(q) /\ Mine(q)' = Mine(q)
    BY <2>3 DEF ShowOf, Mine
  <2>8. Cleared'
    BY <2>3, <2>5, <2>7 DEF Cleared, ShowOf, Mine
  <2>9. \A t \in cards' : Series[t] \in clashed' \/ cards' \cap SiblingsOf(t) = {t}
    BY <2>1, <2>5 DEF CardsRight, SiblingsOf, HistoryTypeOK
  <2>10. \A s \in wanted' : \/ s \in broken' \/ \E t \in cards' : Series[t] = s
                           \/ \E r \in Request : Working(r, "insert")' /\ ShowOf(r)' = s
    <3> SUFFICES ASSUME NEW s \in wanted, s \notin broken,
                        ~\E t \in cards' : Series[t] = s
                 PROVE  \E r \in Request : Working(r, "insert")' /\ ShowOf(r)' = s
      BY <2>1
    <3>1. CASE s = ShowOf(q)
      BY <2>3, <2>7, <3>1
    <3>2. CASE s # ShowOf(q)
      <4>1. PICK r \in Request : Working(r, "insert") /\ ShowOf(r) = s
        BY <2>6, <3>2 DEF CardsRight
      <4>2. QED
        BY <2>1, <2>3, <4>1 DEF ShowOf, Mine
    <3>3. QED
      BY <3>1, <3>2
  <2>11. CardsRight'
    BY <2>1, <2>9, <2>10 DEF CardsRight
  <2>12. ListRight' /\ ListHeld'
    BY <1>a, <2>1, <2>2, <2>3, ListKept
  <2>13. QED
    BY <2>4, <2>8, <2>11, <2>12 DEF HistoryIInv, HistoryInv
<1>6. ASSUME NEW q \in Request, InsertCard(q) PROVE HistoryIInv'
  <2>1. /\ job[q].pc = "insert" /\ cards' = cards \cup {Mine(q)}
        /\ wanted' = wanted \cup {ShowOf(q)} /\ broken' = broken \ {ShowOf(q)}
        /\ UNCHANGED <<progress, removed, listVars>>
        /\ Mine(q) \in Title /\ ShowOf(q) = Series[Mine(q)]
    BY <1>6, JobAtWork DEF InsertCard, Mine, ShowOf, HistoryJob
  <2>2. /\ job' \in HistoryJobs /\ job'[q].pc \in {"list", "idle"}
        /\ \A r \in Request \ {q} :
             /\ job'[r].pc = job[r].pc /\ job'[r].title = job[r].title
             /\ job'[r].held = job[r].held /\ (job'[r].alone => job[r].alone)
             /\ job'[r].pc = "insert" /\ job'[r].alone => ShowOf(r) # ShowOf(q)
    <3>1. job' = [r \in Request |->
            IF r = q THEN IF job[q].sync THEN [job[q] EXCEPT !.pc = "list"] ELSE Unused
            ELSE IF job[r].pc = "insert" /\ ShowOf(r) = ShowOf(q)
                 THEN [job[r] EXCEPT !.alone = FALSE]
            ELSE job[r]]
      BY <1>6 DEF InsertCard, Working
    <3>2. \A r \in Request : job[r].pc = "insert" =>
            /\ job[r] \in HistoryJob /\ [job[r] EXCEPT !.alone = FALSE] \in HistoryJob
            /\ [job[r] EXCEPT !.pc = "list"] \in HistoryJob
      BY JobAtWork, JobTyped
    <3>3. job' \in HistoryJobs
      BY <2>1, <3>1, <3>2 DEF HistoryJobs
    <3>4. job'[q].pc \in {"list", "idle"}
      BY <2>1, <3>1, <3>2, UnusedTyped DEF HistoryJob
    <3>5. ASSUME NEW r \in Request \ {q}
          PROVE  /\ job'[r].pc = job[r].pc /\ job'[r].title = job[r].title
                 /\ job'[r].held = job[r].held /\ (job'[r].alone => job[r].alone)
                 /\ job'[r].pc = "insert" /\ job'[r].alone => ShowOf(r) # ShowOf(q)
      <4>1. CASE job[r].pc = "insert" /\ ShowOf(r) = ShowOf(q)
        BY <3>1, <3>2, <4>1 DEF HistoryJob
      <4>2. CASE ~(job[r].pc = "insert" /\ ShowOf(r) = ShowOf(q))
        BY <3>1, <4>2
      <4>3. QED
        BY <4>1, <4>2
    <3>6. QED
      BY <3>3, <3>4, <3>5
  <2>3. HistoryTypeOK'
    BY <2>1, <2>2 DEF HistoryTypeOK, listVars
  <2>4. Cleared'
    BY <2>1, <2>2 DEF Cleared, ShowOf, Mine
  <2>5. \A t \in cards' : Series[t] \in clashed' \/ cards' \cap SiblingsOf(t) = {t}
    <3> SUFFICES ASSUME NEW t \in cards', Series[t] \notin clashed'
                 PROVE  cards' \cap SiblingsOf(t) = {t}
      OBVIOUS
    <3>1. CASE Series[t] = ShowOf(q)
      <4>1. job[q].alone
        BY <1>6, <3>1 DEF InsertCard
      <4>2. \A u \in cards' : Series[u] = ShowOf(q) => u = Mine(q)
        BY <2>1, <4>1 DEF Cleared
      <4>3. QED
        BY <2>1, <3>1, <4>2 DEF SiblingsOf, HistoryTypeOK
    <3>2. CASE Series[t] # ShowOf(q)
      <4>1. t \in cards /\ Series[t] \notin clashed
        BY <1>6, <2>1, <3>2 DEF InsertCard
      <4>2. QED
        BY <2>1, <3>2, <4>1 DEF CardsRight, SiblingsOf
    <3>3. QED
      BY <3>1, <3>2
  <2>6. \A s \in wanted' : \/ s \in broken' \/ \E t \in cards' : Series[t] = s
                          \/ \E r \in Request : Working(r, "insert")' /\ ShowOf(r)' = s
    <3> SUFFICES ASSUME NEW s \in wanted', s \notin broken',
                        ~\E t \in cards' : Series[t] = s
                 PROVE  \E r \in Request : Working(r, "insert")' /\ ShowOf(r)' = s
      OBVIOUS
    <3>1. s # ShowOf(q) /\ s \in wanted /\ s \notin broken
      BY <2>1
    <3>2. PICK r \in Request : Working(r, "insert") /\ ShowOf(r) = s
      BY <2>1, <3>1 DEF CardsRight
    <3>3. QED
      BY <2>2, <3>1, <3>2 DEF ShowOf, Mine
  <2>7. CardsRight'
    BY <2>1, <2>5, <2>6 DEF CardsRight
  <2>8. ListRight' /\ ListHeld'
    BY <1>a, <2>1, <2>2, ListKept
  <2>9. QED
    BY <2>3, <2>4, <2>7, <2>8 DEF HistoryIInv, HistoryInv
<1>7. ASSUME NEW q \in Request, NEW t \in Title, DeleteCard(q, t) PROVE HistoryIInv'
  <2>1. /\ job[q].pc = "idle" /\ cards' = cards \ SiblingsOf(t)
        /\ wanted' = wanted \ {Series[t]} /\ broken' = broken \ {Series[t]}
        /\ job' = [job EXCEPT ![q] = [Unused EXCEPT !.pc = "wipe", !.title = t]]
        /\ UNCHANGED <<progress, removed, clashed, listVars>>
    BY <1>7 DEF DeleteCard
  <2>2. job' \in HistoryJobs /\ job'[q].pc = "wipe"
    BY <2>1, UnusedTyped DEF HistoryJobs, Unused, Phases
  <2>3. \A r \in Request \ {q} : job'[r] = job[r]
    BY <2>1 DEF HistoryJobs
  <2>4. HistoryTypeOK'
    BY <2>1, <2>2 DEF HistoryTypeOK, listVars
  <2>5. Cleared'
    BY <2>1, <2>2, <2>3 DEF Cleared, ShowOf, Mine
  <2>6. \A u \in cards' : Series[u] \in clashed' \/ cards' \cap SiblingsOf(u) = {u}
    BY <2>1 DEF CardsRight, SiblingsOf
  <2>7. \A s \in wanted' : \/ s \in broken' \/ \E u \in cards' : Series[u] = s
                          \/ \E r \in Request : Working(r, "insert")' /\ ShowOf(r)' = s
    <3> SUFFICES ASSUME NEW s \in wanted', s \notin broken',
                        ~\E u \in cards' : Series[u] = s
                 PROVE  \E r \in Request : Working(r, "insert")' /\ ShowOf(r)' = s
      OBVIOUS
    <3>1. s # Series[t] /\ s \in wanted /\ s \notin broken
      BY <2>1
    <3>2. PICK r \in Request : Working(r, "insert") /\ ShowOf(r) = s
      BY <2>1, <3>1 DEF CardsRight, SiblingsOf
    <3>3. QED
      BY <2>1, <2>3, <3>2 DEF ShowOf, Mine
  <2>8. CardsRight'
    BY <2>1, <2>6, <2>7 DEF CardsRight
  <2>9. ListRight' /\ ListHeld'
    BY <1>a, <2>1, <2>2, <2>3, ListKept
  <2>10. QED
    BY <2>4, <2>5, <2>8, <2>9 DEF HistoryIInv, HistoryInv
<1>8. ASSUME NEW q \in Request, WipeProgress(q) PROVE HistoryIInv'
  <2>1. /\ job[q].pc = "wipe" /\ job' = [job EXCEPT ![q] = Unused]
        /\ UNCHANGED <<cardVars, listVars>> /\ Mine(q) \in Title
    BY <1>8, JobAtWork DEF WipeProgress, Mine, HistoryJob
  <2>2. HistoryTypeOK' /\ \A u \in progress' : Series[u] \notin removed'
    BY <1>8, <2>1, UnusedTyped DEF WipeProgress, ForgetProgress, SiblingsOf, HistoryTypeOK,
       CardsRight, HistoryJobs, cardVars, listVars
  <2>3. /\ job' \in HistoryJobs /\ job'[q].pc = "idle"
        /\ \A r \in Request \ {q} : job'[r] = job[r]
    BY <2>1, <2>2, UnusedTyped DEF HistoryTypeOK, HistoryJobs
  <2>4. CardsRight' /\ Cleared'
    BY <2>1, <2>2, <2>3, CardsKept
  <2>5. ListRight' /\ ListHeld'
    BY <1>a, <2>1, <2>3, ListKept
  <2>6. QED
    BY <2>2, <2>4, <2>5 DEF HistoryIInv, HistoryInv
<1>9. ASSUME NEW s \in Lists, PutList(s) PROVE HistoryIInv'
  <2>1. /\ myList' = s /\ listed' = s /\ lapsed' = FALSE /\ job' = Outdated
        /\ UNCHANGED <<progress, removed, cardVars>>
    BY <1>9 DEF PutList
  <2>2. /\ job' \in HistoryJobs
        /\ \A r \in Request : IF job[r].pc = "merge"
                              THEN job'[r].pc = "merge" /\ job'[r].alone = FALSE
                              ELSE job'[r] = job[r]
    <3>1. \A r \in Request : job[r].pc = "merge" =>
            job[r] \in HistoryJob /\ [job[r] EXCEPT !.alone = FALSE] \in HistoryJob
      BY JobAtWork, JobTyped
    <3>2. job' = [r \in Request |-> IF job[r].pc = "merge"
                                   THEN [job[r] EXCEPT !.alone = FALSE] ELSE job[r]]
      BY <2>1 DEF Outdated
    <3>3. QED
      BY <3>1, <3>2 DEF HistoryJobs, HistoryJob
  <2>3. HistoryTypeOK'
    BY <2>1, <2>2 DEF HistoryTypeOK, cardVars
  <2>4. CardsRight' /\ Cleared'
    BY <2>1, <2>2, CardsKept DEF CardsRight
  <2>5. ListRight' /\ ListHeld'
    BY <2>1, <2>2 DEF ListRight, ListHeld
  <2>6. QED
    BY <2>3, <2>4, <2>5 DEF HistoryIInv, HistoryInv
<1>10. ASSUME NEW q \in Request, ReadList(q) PROVE HistoryIInv'
  <2>1. /\ job[q].pc = "list" /\ UNCHANGED <<progress, removed, cardVars, listVars>>
        /\ job' = [job EXCEPT ![q].pc = "merge", ![q].held = myList, ![q].alone = TRUE]
    BY <1>10 DEF ReadList
  <2>2. job' \in HistoryJobs /\ job'[q].pc = "merge" /\ job'[q].held = myList
    <3> DEFINE new == [job[q] EXCEPT !.pc = "merge", !.held = myList, !.alone = TRUE]
    <3>1. job[q] \in HistoryJob
      BY <2>1, JobAtWork
    <3>2. new \in HistoryJob
      BY <3>1, JobTyped DEF ListRight
    <3>3. new.pc = "merge" /\ new.held = myList
      BY <3>1 DEF HistoryJob
    <3>4. job' = [job EXCEPT ![q] = new]
      BY <2>1, <3>1 DEF HistoryJobs, HistoryJob
    <3>5. QED
      BY <3>2, <3>3, <3>4 DEF HistoryJobs
  <2>3. \A r \in Request \ {q} : job'[r] = job[r]
    BY <2>1 DEF HistoryJobs
  <2>4. HistoryTypeOK'
    BY <2>1, <2>2 DEF HistoryTypeOK, cardVars, listVars
  <2>5. CardsRight' /\ Cleared'
    BY <2>1, <2>2, <2>3, CardsKept DEF CardsRight
  <2>6. ListRight' /\ ListHeld'
    BY <1>a, <2>1, <2>2, <2>3, ListKept
  <2>7. QED
    BY <2>4, <2>5, <2>6 DEF HistoryIInv, HistoryInv
<1>11. ASSUME NEW q \in Request, MergeList(q) PROVE HistoryIInv'
  <2>1. PICK new \in SUBSET Title :
          Fits(q, new) /\ myList' = job[q].held \cup new /\ listed' = listed \cup new
    BY <1>11 DEF MergeList
  <2>2. /\ job[q].pc = "merge" /\ lapsed' = (lapsed \/ ~job[q].alone)
        /\ job' = [Outdated EXCEPT ![q] = Unused]
        /\ UNCHANGED <<progress, removed, cardVars>>
    BY <1>11 DEF MergeList
  <2>3. /\ job' \in HistoryJobs /\ job'[q].pc = "idle"
        /\ \A r \in Request \ {q} : IF job[r].pc = "merge"
                                    THEN job'[r].pc = "merge" /\ job'[r].alone = FALSE
                                    ELSE job'[r] = job[r]
    <3>1. \A r \in Request : job[r].pc = "merge" =>
            job[r] \in HistoryJob /\ [job[r] EXCEPT !.alone = FALSE] \in HistoryJob
      BY JobAtWork, JobTyped
    <3>2. job' = [r \in Request |-> IF r = q THEN Unused
                                   ELSE IF job[r].pc = "merge"
                                   THEN [job[r] EXCEPT !.alone = FALSE] ELSE job[r]]
      BY <2>2 DEF Outdated
    <3>3. QED
      BY <3>1, <3>2, UnusedTyped, ZenonT(40) DEF HistoryJobs, HistoryJob
  <2>4. myList' \in Lists
    BY <2>1 DEF Fits
  <2>5. HistoryTypeOK'
    BY <2>1, <2>2, <2>3, <2>4 DEF HistoryTypeOK, cardVars
  <2>6. CardsRight' /\ Cleared'
    BY <2>2, <2>3, CardsKept DEF CardsRight
  <2>7. ~lapsed' => myList' = listed'
    BY <1>a, <2>1, <2>2 DEF ListRight
  <2>8. ListHeld'
    BY <2>3 DEF ListHeld
  <2>9. QED
    BY <2>4, <2>5, <2>6, <2>7, <2>8 DEF HistoryIInv, HistoryInv, ListRight
<1>12. ASSUME NEW q \in Request, EndEarly(q) PROVE HistoryIInv'
  <2>1. /\ job' = [job EXCEPT ![q] = Unused]
        /\ UNCHANGED <<progress, removed, cards, wanted, clashed, listVars>>
        /\ broken' = IF job[q].pc = "insert" /\ cards \cap SiblingsOf(Mine(q)) = {}
                     THEN broken \cup {ShowOf(q)} ELSE broken
    BY <1>12 DEF EndEarly
  <2>2. /\ job' \in HistoryJobs /\ job'[q].pc = "idle"
        /\ \A r \in Request \ {q} : job'[r] = job[r]
    BY <2>1, UnusedTyped DEF HistoryJobs
  <2>3. HistoryTypeOK'
    BY <1>12, <2>1, <2>2, JobAtWork DEF HistoryTypeOK, listVars, ShowOf, Mine, EndEarly,
       HistoryJob
  <2>4. Cleared'
    BY <2>1, <2>2 DEF Cleared, ShowOf, Mine
  <2>5. \A s \in wanted' : \/ s \in broken' \/ \E u \in cards' : Series[u] = s
                          \/ \E r \in Request : Working(r, "insert")' /\ ShowOf(r)' = s
    <3> SUFFICES ASSUME NEW s \in wanted, s \notin broken',
                        ~\E u \in cards : Series[u] = s
                 PROVE  \E r \in Request : Working(r, "insert")' /\ ShowOf(r)' = s
      BY <2>1
    <3>1. PICK r \in Request : Working(r, "insert") /\ ShowOf(r) = s
      BY <2>1 DEF CardsRight
    <3>2. r # q
      BY <2>1, <3>1 DEF SiblingsOf, ShowOf
    <3>3. QED
      BY <2>2, <3>1, <3>2 DEF ShowOf, Mine
  <2>6. CardsRight'
    BY <2>1, <2>5 DEF CardsRight
  <2>7. ListRight' /\ ListHeld'
    BY <1>a, <2>1, <2>2, ListKept
  <2>8. QED
    BY <2>3, <2>4, <2>6, <2>7 DEF HistoryIInv, HistoryInv
<1>13. CASE UNCHANGED historyVars
  BY <1>a, <1>13, CardsKept, ListKept DEF historyVars, cardVars, listVars, HistoryIInv,
     HistoryInv, HistoryTypeOK, CardsRight
<1>14. QED
  BY <1>1, <1>2, <1>3, <1>4, <1>5, <1>6, <1>7, <1>8, <1>9, <1>10, <1>11, <1>12, <1>13
     DEF HistoryNext

(***************************************************************************)
(* HistorySafe: however the requests of a user's devices interleave, and   *)
(* wherever they end, the progress, the cards and the list are right.      *)
(***************************************************************************)
THEOREM HistorySafe == HistorySpec => []HistoryInv
<1>1. HistoryIInv => HistoryInv
  BY DEF HistoryIInv
<1>2. QED
  BY <1>1, HistoryIInvInit, HistoryIInvNext, PTL DEF HistorySpec
-----------------------------------------------------------------------------
(***************************************************************************)
(* The invariant holds initially.                                          *)
(***************************************************************************)
LEMMA LockInvInit == Init => LockInv
BY NoneAssumption
   DEF Init, LockInv, TypeOK, Phase, ArcIsCurrent, OneKeyPerLock,
       OneHolderPerLock

(***************************************************************************)
(* Every step preserves it.                                                *)
(***************************************************************************)
LEMMA LockInvNext == LockInv /\ [Next]_vars => LockInv'
<1> SUFFICES ASSUME LockInv, [Next]_vars PROVE LockInv'
  OBVIOUS
<1> USE NoneAssumption
    DEF LockInv, TypeOK, Phase, ArcIsCurrent, OneKeyPerLock, OneHolderPerLock
<1>1. ASSUME NEW t \in Task, NEW k \in Key, GetLock(t, k) PROVE LockInv'
  BY <1>1 DEF GetLock, Fresh, Shared
<1>2. ASSUME NEW t \in Task, TakeLock(t) PROVE LockInv'
  BY <1>2 DEF TakeLock, Held
<1>3. ASSUME NEW t \in Task, QueueUp(t) PROVE LockInv'
  BY <1>3 DEF QueueUp, Waiters
<1>4. ASSUME NEW t \in Task, DropArc(t) PROVE LockInv'
  BY <1>4 DEF DropArc, Forget
<1>5. ASSUME NEW t \in Task, Unlock(t) PROVE LockInv'
  BY <1>5 DEF Unlock
<1>6. ASSUME NEW t \in Task, NEW u \in Task, HandOver(t, u) PROVE LockInv'
  BY <1>6 DEF HandOver, Waiters
<1>7. ASSUME NEW t \in Task, Abandon(t) PROVE LockInv'
  BY <1>7 DEF Abandon, Forget
<1>8. ASSUME NEW k \in Key, Retain(k) PROVE LockInv'
  BY <1>8 DEF Retain, Shared
<1>9. CASE UNCHANGED vars
  BY <1>9 DEF vars
<1>10. QED
  BY <1>1, <1>2, <1>3, <1>4, <1>5, <1>6, <1>7, <1>8, <1>9
     DEF Next, TaskStep, Release

THEOREM LockInvariant == Spec => []LockInv
BY LockInvInit, LockInvNext, PTL DEF Spec

(***************************************************************************)
(* Two tasks inside the section of one key hold clones of the mutex the    *)
(* table has for that key, hence of one mutex, which has one holder.       *)
(***************************************************************************)
LEMMA ExclusionFromInv == LockInv => MutualExclusion
BY DEF LockInv, ArcIsCurrent, OneHolderPerLock, MutualExclusion

(***************************************************************************)
(* Mutual exclusion per key, whatever the sweep drops and whenever it does *)
(* (streaming.rs, key_lock and prune).                                     *)
(***************************************************************************)
THEOREM Exclusion == Spec => []MutualExclusion
BY LockInvariant, ExclusionFromInv, PTL

(***************************************************************************)
(* Every step of the table is a step of the abstract lock or leaves its    *)
(* owners alone.                                                           *)
(***************************************************************************)
LEMMA StepRefines ==
  LockInv /\ LockInv' /\ [Next]_vars => [Mutex!Next]_Owners
<1> SUFFICES ASSUME LockInv, LockInv', [Next]_vars
             PROVE  [Mutex!Next]_Owners
  OBVIOUS
<1> USE DEF LockInv, TypeOK, Phase
<1>1. ASSUME NEW t \in Task, NEW k \in Key, GetLock(t, k)
      PROVE  Owners' = Owners
  BY <1>1 DEF GetLock, Owners
<1>2. ASSUME NEW t \in Task, TakeLock(t) PROVE Mutex!Enter(want[t], t)
  <2>1. want[t] \in Key /\ want' = want
    BY <1>2 DEF TakeLock, ArcIsCurrent
  <2>2. Owners[want[t]] = {}
    BY <1>2, <2>1 DEF TakeLock, Owners, ArcIsCurrent, Held
  <2>3. \A k \in Key, u \in Task :
          pc'[u] = "held" /\ want'[u] = k
            <=> IF k = want[t] THEN u = t ELSE pc[u] = "held" /\ want[u] = k
    BY <1>2, <2>1, <2>2 DEF TakeLock, Owners
  <2>4. \A k \in Key :
          Owners'[k] = IF k = want[t] THEN {t} ELSE Owners[k]
    BY <2>3 DEF Owners
  <2>5. Owners' = [Owners EXCEPT ![want[t]] = {t}]
    BY <2>1, <2>4 DEF Owners
  <2>6. QED
    BY <2>2, <2>5 DEF Mutex!Enter
<1>3. ASSUME NEW t \in Task, QueueUp(t) PROVE Owners' = Owners
  BY <1>3 DEF QueueUp, Owners
<1>4. ASSUME NEW t \in Task, DropArc(t) PROVE Owners' = Owners
  BY <1>4 DEF DropArc, Forget, Owners
<1>5. ASSUME NEW t \in Task, pc[t] = "held"
      PROVE  want[t] \in Key /\ Owners[want[t]] = {t}
  BY <1>5, ExclusionFromInv DEF Owners, ArcIsCurrent, MutualExclusion
<1>6. ASSUME NEW t \in Task, Unlock(t) PROVE Mutex!Leave(want[t], t)
  <2>1. want[t] \in Key /\ Owners[want[t]] = {t}
    BY <1>5, <1>6 DEF Unlock
  <2>2. \A k \in Key, v \in Task :
          pc'[v] = "held" /\ want'[v] = k
            <=> k # want[t] /\ pc[v] = "held" /\ want[v] = k
    BY <1>6, <2>1 DEF Unlock, Owners
  <2>3. \A k \in Key : Owners'[k] = IF k = want[t] THEN {} ELSE Owners[k]
    BY <2>2 DEF Owners
  <2>4. Owners' = [Owners EXCEPT ![want[t]] = {}]
    <3> DEFINE Left == [Owners EXCEPT ![want[t]] = {}]
    <3>1. /\ DOMAIN Owners' = Key
          /\ Owners' = [k \in Key |-> Owners'[k]]
      BY Zenon DEF Owners
    <3>2. Left = [k \in Key |-> Left[k]]
      BY Zenon DEF Owners
    <3>3. \A k \in Key : Left[k] = IF k = want[t] THEN {} ELSE Owners[k]
      BY <2>1 DEF Owners
    <3>4. \A k \in Key : Left[k] = Owners'[k]
      BY <2>3, <3>3, Zenon
    <3>5. QED
      BY <3>1, <3>2, <3>4, Zenon
  <2>5. QED
    BY <2>1, <2>4 DEF Mutex!Leave
<1>7. ASSUME NEW t \in Task, NEW u \in Task, HandOver(t, u)
      PROVE  Mutex!Pass(want[t], t, u)
  <2>1. want[t] \in Key /\ Owners[want[t]] = {t}
    BY <1>5, <1>7 DEF HandOver
  <2>2. want[u] = want[t]
    BY <1>7, <2>1 DEF HandOver, Waiters, ArcIsCurrent, OneKeyPerLock
  <2>3. \A k \in Key, v \in Task :
          pc'[v] = "held" /\ want'[v] = k
            <=> IF k = want[t] THEN v = u ELSE pc[v] = "held" /\ want[v] = k
    BY <1>7, <2>1, <2>2 DEF HandOver, Waiters, Owners
  <2>4. \A k \in Key :
          Owners'[k] = IF k = want[t] THEN {u} ELSE Owners[k]
    BY <2>3 DEF Owners
  <2>5. Owners' = [Owners EXCEPT ![want[t]] = {u}]
    <3> DEFINE Passed == [Owners EXCEPT ![want[t]] = {u}]
    <3>1. Owners' = [k \in Key |-> Owners'[k]]
      BY Zenon DEF Owners
    <3>2. Passed = [k \in Key |-> Passed[k]]
      BY Zenon DEF Owners
    <3>3. \A k \in Key : Passed[k] = IF k = want[t] THEN {u} ELSE Owners[k]
      BY <2>1 DEF Owners
    <3>4. \A k \in Key : Passed[k] = Owners'[k]
      BY <2>4, <3>3, Zenon
    <3>5. QED
      BY <3>1, <3>2, <3>4, Zenon
  <2>6. QED
    BY <2>1, <2>5 DEF Mutex!Pass
<1>8. ASSUME NEW t \in Task, Abandon(t) PROVE Owners' = Owners
  BY <1>8 DEF Abandon, Forget, Owners
<1>9. ASSUME NEW k \in Key, Retain(k) PROVE Owners' = Owners
  BY <1>9 DEF Retain, Owners
<1>10. CASE UNCHANGED vars
  BY <1>10 DEF vars, Owners
<1>11. \A t \in Task : TakeLock(t) \/ Unlock(t) => want[t] \in Key
  BY DEF TakeLock, Unlock, ArcIsCurrent
<1>12. \A t, u \in Task : HandOver(t, u) => want[t] \in Key
  BY DEF HandOver, ArcIsCurrent
<1>13. QED
  BY <1>1, <1>2, <1>3, <1>4, <1>6, <1>7, <1>8, <1>9, <1>10, <1>11, <1>12
     DEF Next, TaskStep, Release, Mutex!Next

(***************************************************************************)
(* The pruned table of mutexes implements a per-key lock (streaming.rs,    *)
(* key_lock and prune; resolver.rs, prune_idle_resolve_locks).             *)
(***************************************************************************)
THEOREM Refinement == Spec => ImplementsKeyMutex
<1>1. Init => Mutex!Init
  BY DEF Init, Mutex!Init, Owners
<1>2. QED
  BY <1>1, StepRefines, LockInvariant, PTL
     DEF Spec, ImplementsKeyMutex, Mutex!Spec
-----------------------------------------------------------------------------
-----------------------------------------------------------------------------
(***************************************************************************)
(* Lines of playlists.                                                     *)
(***************************************************************************)
OfTag(tag) == [tag : {tag}, value : Int, by : Server]
Keeps(G) ==
  G \in [TypedLine -> TypedLine]
  /\ \A x \in TypedLine : G[x].tag = x.tag /\ G[x].value = x.value

LEMMA TagMember ==
  ASSUME NEW tag, NEW x \in TypedLine
  PROVE  x \in OfTag(tag) <=> x.tag = tag
  BY DEF TypedLine, OfTag

LEMMA OnlyIsSelect == ASSUME NEW s, NEW tag PROVE Only(s, tag) = Select(s, OfTag(tag))
  BY DEF Only, OfTag

LEMMA OnlyFacts ==
  ASSUME NEW s \in Seq(TypedLine), NEW tag
  PROVE  /\ Only(s, tag) \in Seq(TypedLine) /\ Len(Only(s, tag)) \in Nat
         /\ \A i \in 1 .. Len(Only(s, tag)) : Only(s, tag)[i] \in ToSet(s) /\ Only(s, tag)[i].tag = tag
         /\ \A x \in ToSet(s) : x.tag = tag => Len(Only(s, tag)) > 0
         /\ Values(s, tag) = [i \in 1 .. Len(Only(s, tag)) |-> Only(s, tag)[i].value]
         /\ Len(Values(s, tag)) = Len(Only(s, tag))
<1>1. PICK o : o = Only(s, tag)
  OBVIOUS
<1>2. o \in Seq(TypedLine) /\ ToSet(o) = ToSet(s) \cap OfTag(tag)
  BY <1>1, OnlyIsSelect, SelectFacts
<1>3. ToSet(o) = {o[i] : i \in 1 .. Len(o)} /\ Len(o) \in Nat /\ DOMAIN o = 1 .. Len(o)
      /\ (ToSet(o) # {} => o # << >>)
  BY <1>2, InList
<1>4. ASSUME NEW i \in 1 .. Len(o) PROVE o[i] \in ToSet(s) /\ o[i].tag = tag
  <2>1. o[i] \in TypedLine /\ o[i] \in ToSet(s) /\ o[i] \in OfTag(tag)
    BY <1>2, <1>3
  <2> QED
    BY <2>1, TagMember
<1>5. ASSUME NEW x \in ToSet(s), x.tag = tag PROVE Len(o) > 0
  <2>1. x \in TypedLine
    BY InList
  <2>2. x \in ToSet(o)
    BY <1>2, <1>5, <2>1, TagMember
  <2>3. o # << >>
    BY <1>3, <2>2
  <2> QED
    BY <1>2, <2>3
<1>6. PICK v : v = Values(s, tag)
  OBVIOUS
<1>7. v = [i \in 1 .. Len(o) |-> o[i].value]
  BY <1>1, <1>3, <1>6 DEF Values
<1>8. Len(v) = Len(o)
  <2>1. \A i \in 1 .. Len(o) : o[i].value \in Int
    <3>1. \A i \in 1 .. Len(o) : o[i] \in TypedLine
      BY <1>2
    <3> QED
      BY <3>1 DEF TypedLine
  <2>2. v \in Seq(Int)
    BY <1>3, <1>7, <2>1
  <2> QED
    BY <1>3, <1>7, <2>2
<1> QED
  BY <1>1, <1>2, <1>3, <1>4, <1>5, <1>6, <1>7, <1>8

\* The tags and the numbers stay when only the hosts change.
LEMMA HostsChange ==
  ASSUME NEW G, Keeps(G), NEW s \in Seq(TypedLine), NEW tag
  PROVE  /\ Values(Changed(s, G), tag) = Values(s, tag)
         /\ Len(Only(Changed(s, G), tag)) = Len(Only(s, tag))
<1>1. PICK S, o : S = OfTag(tag) /\ o = Only(s, tag)
  OBVIOUS
<1>2. PICK c, d : c = Changed(s, G) /\ d = Only(c, tag)
  OBVIOUS
<1>3. G \in [TypedLine -> TypedLine]
  BY DEF Keeps
<1>4. \A e \in TypedLine : G[e] \in S <=> e \in S
  BY <1>1, <1>3, TagMember DEF Keeps
<1>5. o = Select(s, S) /\ d = Select(c, S)
  BY <1>1, <1>2, OnlyIsSelect
<1>6. d = Changed(o, G)
  BY <1>2, <1>3, <1>4, <1>5, SelectChanged
<1>7. c \in Seq(TypedLine) /\ o \in Seq(TypedLine)
  BY <1>1, <1>2, <1>3, ChangedFacts, OnlyFacts
<1>8. Len(d) = Len(o) /\ \A i \in 1 .. Len(o) : d[i] = G[o[i]]
  BY <1>3, <1>6, <1>7, ChangedFacts
<1>9. /\ Values(s, tag) = [i \in 1 .. Len(o) |-> o[i].value]
      /\ Values(c, tag) = [i \in 1 .. Len(d) |-> d[i].value]
  BY <1>1, <1>2, <1>7, OnlyFacts
<1>10. \A i \in 1 .. Len(o) : d[i].value = o[i].value
  <2>1. \A i \in 1 .. Len(o) : o[i] \in TypedLine
    BY <1>7
  <2> QED
    BY <1>8, <2>1 DEF Keeps
<1>11. [i \in 1 .. Len(o) |-> o[i].value] = [i \in 1 .. Len(d) |-> d[i].value]
  BY <1>8, <1>10
<1> QED
  BY <1>1, <1>2, <1>8, <1>9, <1>11

LEMMA OtherHost ==
  ASSUME NEW x \in TypedLine, NEW w \in Server
  PROVE  /\ [x EXCEPT !.by = w] \in TypedLine
         /\ [x EXCEPT !.by = w].tag = x.tag /\ [x EXCEPT !.by = w].value = x.value
         /\ [x EXCEPT !.by = w].by = w
<1>1. PICK y : y = [x EXCEPT !.by = w]
  OBVIOUS
<1>2. /\ x = [tag |-> x.tag, value |-> x.value, by |-> x.by]
      /\ x.tag \in Tag /\ x.value \in Int
  BY DEF TypedLine
<1>3. y = [tag |-> x.tag, value |-> x.value, by |-> w]
  BY <1>1, <1>2
<1>4. y \in TypedLine
  BY <1>2, <1>3 DEF TypedLine
<1> QED
  BY <1>1, <1>3, <1>4

Proxy(l, direct) == [x \in TypedLine |-> Proxied(x, l, direct)]
ToWorker ==
  [x \in TypedLine |-> IF x.tag \in {"uri", "key"} /\ x.by = "self"
                       THEN [x EXCEPT !.by = "worker"] ELSE x]

LEMMA ProxyKeeps ==
  ASSUME NEW l, NEW direct \in BOOLEAN
  PROVE  /\ Keeps(Proxy(l, direct))
         /\ \A x \in TypedLine : x.by = "upstream" =>
              /\ Proxy(l, direct)[x].by \in {"upstream", "self", "direct"}
              /\ Proxy(l, direct)[x].by = "direct" => direct
              /\ Proxy(l, direct)[x].by = "upstream" => x.tag \notin {"uri", "variant", "key", "iframe"}
<1>1. ASSUME NEW x \in TypedLine
      PROVE  /\ Proxied(x, l, direct) \in TypedLine
             /\ Proxied(x, l, direct).tag = x.tag /\ Proxied(x, l, direct).value = x.value
             /\ x.by = "upstream" =>
                  /\ Proxied(x, l, direct).by \in {"upstream", "self", "direct"}
                  /\ Proxied(x, l, direct).by = "direct" => direct
                  /\ Proxied(x, l, direct).by = "upstream" =>
                       x.tag \notin {"uri", "variant", "key", "iframe"}
  <2>1. PICK w : w = IF direct /\ HostOf[l] = "open" THEN "direct" ELSE "self"
    OBVIOUS
  <2>2. w \in Server /\ w \in {"direct", "self"} /\ (w = "direct" => direct)
    <3>1. "direct" \in Server /\ "self" \in Server /\ "self" # "direct"
      BY DEF Server
    <3>2. CASE direct /\ HostOf[l] = "open"
      BY <2>1, <3>1, <3>2
    <3>3. CASE ~(direct /\ HostOf[l] = "open")
      <4>1. w = "self"
        BY <2>1, <3>3
      <4> QED
        BY <3>1, <4>1
    <3> QED
      BY <3>2, <3>3
  <2>3. PICK y : y = [x EXCEPT !.by = w]
    OBVIOUS
  <2>4. y \in TypedLine /\ y.tag = x.tag /\ y.value = x.value /\ y.by = w
    BY <2>2, <2>3, OtherHost
  <2>5. Proxied(x, l, direct) =
          IF x.tag \in {"uri", "variant", "key", "media", "iframe"} THEN y ELSE x
    BY <2>1, <2>3 DEF Proxied
  <2> QED
    BY <2>2, <2>4, <2>5
<1> QED
  BY <1>1 DEF Proxy, Keeps

LEMMA ToWorkerKeeps ==
  /\ Keeps(ToWorker)
  /\ \A x \in TypedLine : ToWorker[x].by = "worker" \/ ToWorker[x] = x
<1>1. ASSUME NEW x \in TypedLine
      PROVE  /\ [x EXCEPT !.by = "worker"] \in TypedLine
             /\ [x EXCEPT !.by = "worker"].tag = x.tag /\ [x EXCEPT !.by = "worker"].value = x.value
             /\ [x EXCEPT !.by = "worker"].by = "worker"
  <2>1. "worker" \in Server
    BY DEF Server
  <2> QED
    BY <2>1, OtherHost
<1> QED
  BY <1>1 DEF ToWorker, Keeps

\* What is served is what was rewritten, with some lines sent to the worker.
LEMMA Routed ==
  ASSUME NEW lines \in Seq(TypedLine), NEW l, NEW trusted
  PROVE  \/ RouteToWorker(lines, l, trusted) = lines
         \/ /\ trusted /\ HostOf[l] # "curl"
            /\ RouteToWorker(lines, l, trusted) = Changed(lines, ToWorker)
<1>1. DOMAIN lines = 1 .. Len(lines) /\ \A i \in DOMAIN lines : lines[i] \in TypedLine
  OBVIOUS
<1>2. Changed(lines, ToWorker) =
        [i \in DOMAIN lines |->
          IF lines[i].tag \in {"uri", "key"} /\ lines[i].by = "self"
          THEN [lines[i] EXCEPT !.by = "worker"] ELSE lines[i]]
  BY <1>1 DEF Changed, ToWorker
<1> QED
  BY <1>2 DEF RouteToWorker

LEMMA VodChanged ==
  ASSUME NEW lines \in Seq(TypedLine), NEW l, NEW direct
  PROVE  /\ RewriteVod(lines, l, direct) = Changed(lines, Proxy(l, direct))
         /\ [i \in DOMAIN lines |-> Proxied(lines[i], l, direct)] = Changed(lines, Proxy(l, direct))
<1>1. DOMAIN lines = 1 .. Len(lines) /\ \A i \in DOMAIN lines : lines[i] \in TypedLine
  OBVIOUS
<1> QED
  BY <1>1 DEF RewriteVod, Changed, Proxy
-----------------------------------------------------------------------------
(***************************************************************************)
(* Lines of a playlist that are left, with each variant the line before.   *)
(***************************************************************************)
Follow(lines) ==
  \A i \in 1 .. Len(lines) :
    /\ lines[i].tag = "variant" => i > 1 /\ lines[i - 1].tag = "streaminf"
    /\ lines[i].tag = "streaminf" => i < Len(lines) /\ lines[i + 1].tag = "variant"
Paired(lines, K) ==
  /\ K \subseteq 1 .. Len(lines)
  /\ \A i \in 1 .. Len(lines) :
       /\ lines[i].tag = "uri" => i \in K
       /\ lines[i].tag = "variant" => (i \in K <=> i - 1 \in K)
Numbers(k) == [i \in 1 .. k |-> i]

\* Of the first k lines, those that are left.
Thin(lines, K, k, out) ==
  /\ out \in Seq(TypedLine) /\ ToSet(out) = {lines[i] : i \in K \cap 1 .. k}
  /\ Only(out, "uri") = Only(SubSeq(lines, 1, k), "uri")
  /\ \A j \in 1 .. Len(out) : out[j].tag = "variant" => j > 1 /\ out[j - 1].tag = "streaminf"
  /\ Len(Only(out, "streaminf")) =
       Len(Only(out, "variant")) + IF k \in K /\ lines[k].tag = "streaminf" THEN 1 ELSE 0
  /\ k \in K => out # << >> /\ out[Len(out)] = lines[k]

LEMMA OnlyAppend ==
  ASSUME NEW s \in Seq(TypedLine), NEW x \in TypedLine, NEW tag
  PROVE  Only(Append(s, x), tag) = IF x.tag = tag THEN Append(Only(s, tag), x) ELSE Only(s, tag)
<1>1. Select(Append(s, x), OfTag(tag)) =
        IF x \in OfTag(tag) THEN Append(Select(s, OfTag(tag)), x) ELSE Select(s, OfTag(tag))
  BY SelectAppend
<1> QED
  BY <1>1, OnlyIsSelect, TagMember

LEMMA OnlyEmpty == ASSUME NEW tag PROVE Only(<< >>, tag) = << >>
  BY OnlyIsSelect, SelectEmpty

\* What appending does to the last of a list and what is in it.
LEMMA Appended ==
  ASSUME NEW A, NEW s \in Seq(A), NEW e \in A
  PROVE  /\ Append(s, e) \in Seq(A) /\ Len(Append(s, e)) = Len(s) + 1
         /\ Append(s, e)[Len(s) + 1] = e /\ Append(s, e) # << >>
         /\ \A i \in 1 .. Len(s) : Append(s, e)[i] = s[i]
         /\ ToSet(Append(s, e)) = ToSet(s) \cup {e}
<1>1. PICK m : m = Append(s, e)
  OBVIOUS
<1>2. /\ m \in Seq(A) /\ Len(m) = Len(s) + 1 /\ m[Len(s) + 1] = e /\ m # << >>
      /\ \A i \in 1 .. Len(s) : m[i] = s[i]
  BY <1>1
<1>3. ToSet(m) = {m[i] : i \in 1 .. Len(s) + 1} /\ ToSet(s) = {s[i] : i \in 1 .. Len(s)}
      /\ Len(s) \in Nat
  BY <1>2, InList
<1>4. ToSet(m) = ToSet(s) \cup {e}
  <2>1. ASSUME NEW x \in ToSet(m) PROVE x \in ToSet(s) \cup {e}
    <3>1. PICK i \in 1 .. Len(s) + 1 : x = m[i]
      BY <1>3, <2>1
    <3>2. CASE i = Len(s) + 1
      BY <1>2, <3>1, <3>2
    <3>3. CASE i # Len(s) + 1
      <4>1. i \in 1 .. Len(s)
        BY <1>3, <3>3
      <4> QED
        BY <1>2, <1>3, <3>1, <4>1
    <3> QED
      BY <3>2, <3>3
  <2>2. ASSUME NEW x \in ToSet(s) \cup {e} PROVE x \in ToSet(m)
    <3>1. CASE x = e
      <4>1. Len(s) + 1 \in 1 .. Len(s) + 1
        BY <1>3
      <4> QED
        BY <1>2, <1>3, <3>1, <4>1
    <3>2. CASE x \in ToSet(s)
      <4>1. PICK i \in 1 .. Len(s) : x = s[i]
        BY <1>3, <3>2
      <4>2. i \in 1 .. Len(s) + 1
        BY <1>3
      <4> QED
        BY <1>2, <1>3, <4>1, <4>2
    <3> QED
      BY <2>2, <3>1, <3>2
  <2> QED
    BY <2>1, <2>2
<1> QED
  BY <1>1, <1>2, <1>4

LEMMA ThinStep ==
  ASSUME NEW lines \in Seq(TypedLine), Follow(lines), NEW K, Paired(lines, K),
         NEW k \in 1 .. Len(lines), NEW out, Thin(lines, K, k - 1, out)
  PROVE  Thin(lines, K, k, IF k \in K THEN Append(out, lines[k]) ELSE out)
<1>1. PICK e, pre, all : e = lines[k] /\ pre = SubSeq(lines, 1, k - 1) /\ all = SubSeq(lines, 1, k)
  OBVIOUS
<1>2. Len(lines) \in Nat /\ e \in TypedLine /\ pre \in Seq(TypedLine) /\ all = Append(pre, e)
  BY <1>1
<1>3. /\ out \in Seq(TypedLine) /\ ToSet(out) = {lines[i] : i \in K \cap 1 .. k - 1}
      /\ Only(out, "uri") = Only(pre, "uri")
      /\ \A j \in 1 .. Len(out) : out[j].tag = "variant" => j > 1 /\ out[j - 1].tag = "streaminf"
      /\ Len(Only(out, "streaminf")) =
           Len(Only(out, "variant")) + IF k - 1 \in K /\ lines[k - 1].tag = "streaminf" THEN 1 ELSE 0
      /\ k - 1 \in K => out # << >> /\ out[Len(out)] = lines[k - 1]
  BY <1>1 DEF Thin
<1>4. Only(all, "uri") = IF e.tag = "uri" THEN Append(Only(pre, "uri"), e) ELSE Only(pre, "uri")
  BY <1>2, OnlyAppend
<1>5. /\ e.tag = "uri" => k \in K
      /\ e.tag = "variant" => (k \in K <=> k - 1 \in K) /\ k > 1 /\ lines[k - 1].tag = "streaminf"
  BY <1>1 DEF Paired, Follow
<1>6. k - 1 \in K /\ lines[k - 1].tag = "streaminf" => e.tag = "variant" /\ k \in K
  <2>1. ASSUME k - 1 \in K, lines[k - 1].tag = "streaminf" PROVE e.tag = "variant" /\ k \in K
    <3>1. k - 1 \in 1 .. Len(lines)
      BY <2>1 DEF Paired
    <3>2. lines[(k - 1) + 1].tag = "variant" /\ (k - 1) + 1 = k
      BY <2>1, <3>1 DEF Follow
    <3> QED
      BY <1>1, <1>5, <2>1, <3>2
  <2> QED
    BY <2>1
<1>7. CASE k \notin K
  <2>1. K \cap 1 .. k = K \cap 1 .. k - 1
    BY <1>7
  <2>2. Only(out, "uri") = Only(all, "uri")
    BY <1>3, <1>4, <1>5, <1>7
  <2>3. Len(Only(out, "streaminf")) = Len(Only(out, "variant")) + 0
    BY <1>3, <1>6, <1>7
  <2> QED
    BY <1>1, <1>3, <1>7, <2>1, <2>2, <2>3 DEF Thin
<1>8. CASE k \in K
  <2>1. PICK m : m = Append(out, e)
    OBVIOUS
  <2>2. /\ m \in Seq(TypedLine) /\ Len(m) = Len(out) + 1 /\ m[Len(out) + 1] = e /\ m # << >>
        /\ \A i \in 1 .. Len(out) : m[i] = out[i]
        /\ ToSet(m) = ToSet(out) \cup {e} /\ Len(out) \in Nat
    BY <1>2, <1>3, <2>1, Appended, SMTT(30)
  <2>3. ToSet(m) = {lines[i] : i \in K \cap 1 .. k}
    <3>1. K \cap 1 .. k = (K \cap 1 .. k - 1) \cup {k}
      BY <1>8
    <3> QED
      BY <1>1, <1>3, <2>2, <3>1
  <2>4. Only(m, "uri") = Only(all, "uri")
    <3>1. Only(m, "uri") = IF e.tag = "uri" THEN Append(Only(out, "uri"), e) ELSE Only(out, "uri")
      BY <1>2, <1>3, <2>1, OnlyAppend
    <3>2. PICK a, b : a = Only(pre, "uri") /\ b = Append(a, e)
      OBVIOUS
    <3>3. Only(m, "uri") = IF e.tag = "uri" THEN b ELSE a
      BY <1>3, <3>1, <3>2
    <3>4. Only(all, "uri") = IF e.tag = "uri" THEN b ELSE a
      BY <1>4, <3>2
    <3> QED
      BY <3>3, <3>4
  <2>5. ASSUME NEW j \in 1 .. Len(m), m[j].tag = "variant" PROVE j > 1 /\ m[j - 1].tag = "streaminf"
    <3>1. CASE j = Len(out) + 1
      <4>1. /\ e.tag = "variant" /\ k - 1 \in K /\ lines[k - 1].tag = "streaminf"
            /\ out # << >> /\ out[Len(out)] = lines[k - 1]
        BY <1>3, <1>5, <1>8, <2>2, <2>5, <3>1
      <4>2. Len(out) \in 1 .. Len(out) /\ j - 1 = Len(out) /\ j > 1
        <5>1. Len(out) # 0
          BY <1>3, <4>1
        <5> QED
          BY <2>2, <3>1, <5>1
      <4>3. m[Len(out)] = out[Len(out)]
        BY <2>2, <4>2
      <4> QED
        BY <4>1, <4>2, <4>3
    <3>2. CASE j # Len(out) + 1
      <4>1. j \in 1 .. Len(out)
        BY <2>2, <3>2
      <4>2. j > 1 /\ out[j - 1].tag = "streaminf"
        BY <1>3, <2>2, <2>5, <4>1
      <4>3. j - 1 \in 1 .. Len(out)
        BY <4>1, <4>2
      <4> QED
        BY <2>2, <4>2, <4>3
    <3> QED
      BY <3>1, <3>2
  <2>6. Len(Only(m, "streaminf")) =
          Len(Only(m, "variant")) + IF e.tag = "streaminf" THEN 1 ELSE 0
    <3>1. PICK s, v : s = Only(out, "streaminf") /\ v = Only(out, "variant")
      OBVIOUS
    <3>2. s \in Seq(TypedLine) /\ v \in Seq(TypedLine) /\ Len(s) \in Nat /\ Len(v) \in Nat
      BY <1>3, <3>1, OnlyFacts
    <3>3. Len(Only(m, "streaminf")) = IF e.tag = "streaminf" THEN Len(s) + 1 ELSE Len(s)
      <4>1. Only(m, "streaminf") = IF e.tag = "streaminf" THEN Append(s, e) ELSE s
        BY <1>2, <1>3, <2>1, <3>1, OnlyAppend
      <4> QED
        BY <1>2, <3>2, <4>1, Appended
    <3>4. Len(Only(m, "variant")) = IF e.tag = "variant" THEN Len(v) + 1 ELSE Len(v)
      <4>1. Only(m, "variant") = IF e.tag = "variant" THEN Append(v, e) ELSE v
        BY <1>2, <1>3, <2>1, <3>1, OnlyAppend
      <4> QED
        BY <1>2, <3>2, <4>1, Appended
    <3>5. CASE e.tag = "variant"
      <4>1. Len(s) = Len(v) + 1
        BY <1>3, <1>5, <1>8, <3>1, <3>5
      <4> QED
        BY <3>2, <3>3, <3>4, <3>5, <4>1
    <3>6. CASE e.tag # "variant"
      <4>1. Len(s) = Len(v)
        BY <1>3, <1>6, <3>1, <3>2, <3>6
      <4> QED
        BY <3>2, <3>3, <3>4, <3>6, <4>1
    <3> QED
      BY <3>5, <3>6
  <2>7. Thin(lines, K, k, m)
    BY <1>1, <1>8, <2>2, <2>3, <2>4, <2>5, <2>6 DEF Thin
  <2> QED
    BY <1>1, <1>8, <2>1, <2>7
<1> QED
  BY <1>7, <1>8

LEMMA ThinAll ==
  ASSUME NEW lines \in Seq(TypedLine), Follow(lines), NEW K, Paired(lines, K)
  PROVE  Thin(lines, K, Len(lines), Chosen(lines, Select(Numbers(Len(lines)), K)))
<1>1. PICK n \in Nat : n = Len(lines)
  OBVIOUS
<1>2. lines \in [1 .. n -> TypedLine]
  BY <1>1
<1>3. PICK out : out = [k \in 0 .. n |-> Changed(Select(Numbers(k), K), lines)]
  OBVIOUS
<1>4. PICK Y : Y = {k \in 0 .. n : Thin(lines, K, k, out[k])}
  OBVIOUS
<1>5. 0 \in Y
  <2>1. PICK z : z = << >>
    OBVIOUS
  <2>2. Numbers(0) = z /\ z \in Seq(TypedLine) /\ Len(z) = 0 /\ SubSeq(lines, 1, 0) = z
    BY <2>1 DEF Numbers
  <2>3. out[0] = z
    BY <1>3, <2>1, <2>2, SelectEmpty, ChangedEmpty
  <2>4. Only(z, "streaminf") = z /\ Only(z, "variant") = z /\ ToSet(z) = {}
    BY <2>1, OnlyEmpty DEF ToSet
  <2>5. 0 \notin K /\ K \cap 1 .. 0 = {}
    BY DEF Paired
  <2>6. Thin(lines, K, 0, z)
    <3>1. {lines[i] : i \in K \cap 1 .. 0} = {}
      BY <2>5
    <3>2. Only(z, "uri") = Only(SubSeq(lines, 1, 0), "uri")
      BY <2>2
    <3>3. \A j \in 1 .. Len(z) : z[j].tag = "variant" => j > 1 /\ z[j - 1].tag = "streaminf"
      BY <2>2
    <3>4. Len(Only(z, "streaminf")) =
            Len(Only(z, "variant")) + IF 0 \in K /\ lines[0].tag = "streaminf" THEN 1 ELSE 0
      BY <2>2, <2>4, <2>5
    <3> QED
      BY <2>2, <2>4, <2>5, <3>1, <3>2, <3>3, <3>4 DEF Thin
  <2> QED
    BY <1>4, <2>3, <2>6
<1>6. ASSUME NEW k \in 1 .. n, k - 1 \in Y PROVE k \in Y
  <2>1. PICK a, b, u : a = Numbers(k - 1) /\ b = Numbers(k) /\ u = Select(a, K)
    OBVIOUS
  <2>2. a \in Seq(1 .. n) /\ k \in 1 .. n /\ b = Append(a, k)
    <3>1. a \in Seq(1 .. n) /\ Len(a) = k - 1 /\ \A i \in 1 .. k - 1 : a[i] = i
      BY <2>1 DEF Numbers
    <3>2. b \in Seq(1 .. n) /\ Len(b) = k /\ \A i \in 1 .. k : b[i] = i
      BY <2>1 DEF Numbers
    <3>3. PICK c : c = Append(a, k)
      OBVIOUS
    <3>4. c \in Seq(1 .. n) /\ Len(c) = k /\ c[k] = k /\ \A i \in 1 .. k - 1 : c[i] = i
      BY <3>1, <3>3
    <3>5. \A i \in 1 .. k : b[i] = c[i]
      BY <3>2, <3>4
    <3>6. b = c
      BY <3>2, <3>4, <3>5
    <3> QED
      BY <3>1, <3>3, <3>6
  <2>3. Select(b, K) = IF k \in K THEN Append(u, k) ELSE u
    <3>1. Select(Append(a, k), K) = IF k \in K THEN Append(Select(a, K), k) ELSE Select(a, K)
      BY <2>2, SelectAppend
    <3> QED
      BY <2>1, <2>2, <3>1
  <2>4. u \in Seq(1 .. n)
    BY <2>1, <2>2, SelectFacts
  <2>5. Changed(Append(u, k), lines) = Append(Changed(u, lines), lines[k])
    BY <1>2, <2>4, ChangedAppend, ZenonT(40)
  <2>6. out[k] = IF k \in K THEN Append(out[k - 1], lines[k]) ELSE out[k - 1]
    <3>1. k \in 0 .. n /\ k - 1 \in 0 .. n
      BY <1>1
    <3>2. out[k - 1] = Changed(u, lines) /\ out[k] = Changed(Select(b, K), lines)
      BY <1>3, <2>1, <3>1
    <3> QED
      BY <2>3, <2>5, <3>2
  <2>7. Thin(lines, K, k - 1, out[k - 1])
    BY <1>4, <1>6
  <2>8. Thin(lines, K, k, out[k])
    BY <1>1, <2>6, <2>7, ThinStep
  <2> QED
    BY <1>4, <2>8
<1>7. n \in Y
  <2>1. Climbs(Y, n)
    BY <1>5, <1>6 DEF Climbs
  <2> QED
    BY <2>1, UpTo
<1>8. out[n] = Chosen(lines, Select(Numbers(n), K))
  BY <1>1, <1>3 DEF Changed, Chosen
<1> QED
  BY <1>1, <1>4, <1>7, <1>8
-----------------------------------------------------------------------------
(***************************************************************************)
(* What is served of a playlist that stays as it is.                       *)
(***************************************************************************)
Low(lines) ==
  \A x \in ToSet(lines) : x.tag \in {"streaminf", "iframe"} => x.value <= MaxHeight
Left(said, kept) ==
  /\ kept \in Seq(TypedLine) /\ ToSet(kept) \subseteq ToSet(said)
  /\ Values(kept, "uri") = Values(said, "uri")
  /\ \A j \in 1 .. Len(kept) : kept[j].tag = "variant" => j > 1 /\ kept[j - 1].tag = "streaminf"
  /\ "variant" \in Tags(said) => "variant" \in Tags(kept)
  /\ Len(Only(kept, "variant")) = Len(Only(kept, "streaminf"))

LEMMA FixedLines ==
  ASSUME NEW l \in DOMAIN Fixed
  PROVE  /\ Fixed[l] \in Seq(TypedLine) /\ Follow(Fixed[l]) /\ Immutable(Fixed[l])
         /\ \A x \in ToSet(Fixed[l]) : x \in TypedLine /\ x.by = "upstream"
<1>1. /\ Fixed[l] \in Seq(TypedLine) /\ Immutable(Fixed[l])
      /\ \A i \in DOMAIN Fixed[l] :
           /\ Fixed[l][i].by = "upstream"
           /\ Fixed[l][i].tag = "variant" => i > 1 /\ Fixed[l][i - 1].tag = "streaminf"
           /\ Fixed[l][i].tag = "streaminf" =>
                i < Len(Fixed[l]) /\ Fixed[l][i + 1].tag = "variant"
  BY FixedAssumption
<1>2. DOMAIN Fixed[l] = 1 .. Len(Fixed[l]) /\ ToSet(Fixed[l]) = {Fixed[l][i] : i \in 1 .. Len(Fixed[l])}
      /\ ToSet(Fixed[l]) \subseteq TypedLine
  BY <1>1, InList
<1> QED
  BY <1>1, <1>2 DEF Follow

\* What is left by a choice of lines that keeps variants with theirs.
LEMMA LeftByChoice ==
  ASSUME NEW lines \in Seq(TypedLine), Follow(lines), NEW K, Paired(lines, K),
         NEW kept, kept = Chosen(lines, Select(Numbers(Len(lines)), K)),
         "variant" \in Tags(lines) => \E i \in K : lines[i].tag = "variant"
  PROVE  Left(lines, kept) /\ ToSet(kept) = {lines[i] : i \in K}
<1>1. PICK n \in Nat : n = Len(lines)
  OBVIOUS
<1>2. Thin(lines, K, n, kept)
  BY <1>1, ThinAll
<1>3. K \subseteq 1 .. n /\ K \cap 1 .. n = K
  BY <1>1 DEF Paired
<1>4. kept \in Seq(TypedLine) /\ ToSet(kept) = {lines[i] : i \in K}
  BY <1>2, <1>3 DEF Thin
<1>5. ToSet(lines) = {lines[i] : i \in 1 .. n} /\ ToSet(kept) \subseteq ToSet(lines)
  BY <1>1, <1>3, <1>4, InList
<1>6. SubSeq(lines, 1, n) = lines
  BY <1>1
<1>7. Values(kept, "uri") = Values(lines, "uri")
  BY <1>2, <1>6 DEF Thin, Values
<1>8. Len(Only(kept, "variant")) = Len(Only(kept, "streaminf"))
  <2>1. ~(n \in K /\ lines[n].tag = "streaminf")
    <3>1. n \in K => n \in 1 .. Len(lines)
      BY <1>1, <1>3
    <3> QED
      BY <1>1, <3>1 DEF Follow
  <2>2. Len(Only(kept, "streaminf")) = Len(Only(kept, "variant")) + 0
    BY <1>2, <2>1 DEF Thin
  <2>3. Len(Only(kept, "variant")) \in Nat
    BY <1>4, OnlyFacts
  <2> QED
    BY <2>2, <2>3
<1>9. "variant" \in Tags(lines) => "variant" \in Tags(kept)
  BY <1>4 DEF Tags
<1> QED
  BY <1>2, <1>4, <1>5, <1>7, <1>8, <1>9 DEF Left, Thin

LEMMA NumbersAll ==
  ASSUME NEW lines \in Seq(TypedLine)
  PROVE  Chosen(lines, Select(Numbers(Len(lines)), 1 .. Len(lines))) = lines
<1>1. PICK n \in Nat : n = Len(lines)
  OBVIOUS
<1>2. Numbers(n) \in Seq(1 .. n)
  BY DEF Numbers
<1>3. Select(Numbers(n), 1 .. n) = Numbers(n)
  BY <1>2, SelectAll
<1>4. Chosen(lines, Numbers(n)) = [i \in 1 .. n |-> lines[i]]
  BY <1>1 DEF Chosen, Numbers
<1>5. lines = [i \in 1 .. n |-> lines[i]]
  BY <1>1
<1> QED
  BY <1>1, <1>3, <1>4, <1>5

LEMMA LeftWhole ==
  ASSUME NEW lines \in Seq(TypedLine), Follow(lines)
  PROVE  Left(lines, lines)
<1>1. PICK K : K = 1 .. Len(lines)
  OBVIOUS
<1>2. ASSUME NEW i \in 1 .. Len(lines), lines[i].tag = "variant" PROVE i - 1 \in K
  <2>1. i > 1
    BY <1>2 DEF Follow
  <2> QED
    BY <1>1, <2>1
<1>3. Paired(lines, K)
  BY <1>1, <1>2 DEF Paired
<1>4. "variant" \in Tags(lines) => \E i \in K : lines[i].tag = "variant"
  BY <1>1, InList DEF Tags
<1>5. lines = Chosen(lines, Select(Numbers(Len(lines)), K))
  BY <1>1, NumbersAll
<1> QED
  BY <1>3, <1>4, <1>5, LeftByChoice

IsTall(x) == x.tag \in {"streaminf", "iframe"} /\ x.value > MaxHeight
Fit(lines) ==
  {i \in 1 .. Len(lines) :
     ~IsTall(lines[i]) /\ (lines[i].tag = "variant" => ~IsTall(lines[i - 1]))}

LEMMA LeftCapped ==
  ASSUME NEW lines \in Seq(TypedLine), Follow(lines)
  PROVE  Left(lines, Cap(lines)) /\ (Keepable(lines) => Low(Cap(lines)))
<1>1. CASE ~Keepable(lines)
  <2>1. Cap(lines) = lines
    BY <1>1 DEF Cap
  <2> QED
    BY <1>1, <2>1, LeftWhole
<1>2. CASE Keepable(lines)
  <2>1. PICK K, kept : K = Fit(lines) /\ kept = Cap(lines)
    OBVIOUS
  <2>2. DOMAIN lines = 1 .. Len(lines) /\ Len(lines) \in Nat /\ MaxHeight \in Int
        /\ \A i \in 1 .. Len(lines) : lines[i] \in TypedLine
    BY LiveAssumption, SMTT(30)
  <2>3. kept = Chosen(lines, Select(Numbers(Len(lines)), K))
    <3>1. K = {i \in DOMAIN lines : ~IsTall(lines[i])
                  /\ (lines[i].tag = "variant" => ~IsTall(lines[i - 1]))}
      BY <2>1, <2>2 DEF Fit
    <3>2. Numbers(Len(lines)) = [i \in DOMAIN lines |-> i]
      BY <2>2 DEF Numbers
    <3> QED
      BY <1>2, <2>1, <3>1, <3>2 DEF Cap, IsTall
  <2>4. ASSUME NEW i \in 1 .. Len(lines)
        PROVE  /\ lines[i].tag = "uri" => i \in K
               /\ lines[i].tag = "variant" => (i \in K <=> i - 1 \in K)
               /\ lines[i].tag = "variant" => i > 1 /\ i - 1 \in 1 .. Len(lines)
               /\ i \in K <=> ~IsTall(lines[i]) /\ (lines[i].tag = "variant" => ~IsTall(lines[i - 1]))
    <3>1. i \in K <=> ~IsTall(lines[i]) /\ (lines[i].tag = "variant" => ~IsTall(lines[i - 1]))
      BY <2>1 DEF Fit
    <3>2. lines[i].tag = "uri" => i \in K
      BY <3>1 DEF IsTall
    <3>3. ASSUME lines[i].tag = "variant"
          PROVE  (i \in K <=> i - 1 \in K) /\ i > 1 /\ i - 1 \in 1 .. Len(lines)
      <4>1. i > 1 /\ lines[i - 1].tag = "streaminf"
        BY <3>3 DEF Follow
      <4>2. i - 1 \in 1 .. Len(lines)
        BY <4>1
      <4>3. i - 1 \in K <=> ~IsTall(lines[i - 1])
        BY <2>1, <4>1, <4>2 DEF Fit
      <4>4. ~IsTall(lines[i])
        BY <3>3 DEF IsTall
      <4> QED
        BY <3>1, <3>3, <4>1, <4>2, <4>3, <4>4
    <3> QED
      BY <3>1, <3>2, <3>3
  <2>5. Paired(lines, K)
    <3>1. K \subseteq 1 .. Len(lines)
      BY <2>1 DEF Fit
    <3> QED
      BY <2>4, <3>1 DEF Paired
  <2>6. \E i \in K : lines[i].tag = "variant"
    <3>1. PICK x \in ToSet(lines) : x.tag = "streaminf" /\ x.value <= MaxHeight
      BY <1>2 DEF Keepable
    <3>2. PICK i \in 1 .. Len(lines) : x = lines[i]
      BY <3>1, InList
    <3>3. x.value \in Int
      BY <2>2, <3>2 DEF TypedLine
    <3>4. i \in K
      BY <2>2, <2>4, <3>1, <3>2, <3>3 DEF IsTall
    <3>5. i < Len(lines) /\ lines[i + 1].tag = "variant" /\ i + 1 \in 1 .. Len(lines)
      BY <3>1, <3>2 DEF Follow
    <3>6. i + 1 \in K <=> (i + 1) - 1 \in K
      BY <2>4, <3>5
    <3>7. (i + 1) - 1 = i
      OBVIOUS
    <3> QED
      BY <3>4, <3>5, <3>6, <3>7
  <2>7. Left(lines, kept) /\ ToSet(kept) = {lines[i] : i \in K}
    BY <2>3, <2>5, <2>6, LeftByChoice
  <2>8. Low(kept)
    <3> SUFFICES ASSUME NEW x \in ToSet(kept), x.tag \in {"streaminf", "iframe"}
                 PROVE  x.value <= MaxHeight
      BY DEF Low
    <3>1. PICK i \in K : x = lines[i]
      BY <2>7
    <3>2. i \in 1 .. Len(lines)
      BY <2>5 DEF Paired
    <3>3. x.value \in Int
      BY <2>2, <3>1, <3>2 DEF TypedLine
    <3>4. ~IsTall(x)
      BY <2>4, <3>1, <3>2
    <3> QED
      BY <2>2, <3>3, <3>4 DEF IsTall
  <2> QED
    BY <2>1, <2>7, <2>8
<1> QED
  BY <1>1, <1>2
\* The same lines, by hosts that may serve them.
Dressed(kept, out, key) ==
  /\ out \in Seq(TypedLine) /\ Len(out) = Len(kept)
  /\ \A i \in 1 .. Len(kept) : out[i].tag = kept[i].tag /\ out[i].value = kept[i].value
  /\ \A tag \in Tag : Values(out, tag) = Values(kept, tag)
                      /\ Len(Only(out, tag)) = Len(Only(kept, tag))
  /\ \A i \in 1 .. Len(kept) : Serves(out[i], key)

LEMMA DressedByChange ==
  ASSUME NEW kept \in Seq(TypedLine), NEW G, Keeps(G), NEW key,
         \A i \in 1 .. Len(kept) : Serves(G[kept[i]], key)
  PROVE  Dressed(kept, Changed(kept, G), key)
<1>1. PICK out : out = Changed(kept, G)
  OBVIOUS
<1>2. G \in [TypedLine -> TypedLine]
  BY DEF Keeps
<1>3. out \in Seq(TypedLine) /\ Len(out) = Len(kept) /\ \A i \in 1 .. Len(kept) : out[i] = G[kept[i]]
  BY <1>1, <1>2, ChangedFacts
<1>4. \A i \in 1 .. Len(kept) : kept[i] \in TypedLine
  OBVIOUS
<1>5. \A i \in 1 .. Len(kept) : out[i].tag = kept[i].tag /\ out[i].value = kept[i].value
  BY <1>3, <1>4 DEF Keeps
<1>6. \A tag \in Tag : Values(out, tag) = Values(kept, tag)
                      /\ Len(Only(out, tag)) = Len(Only(kept, tag))
  BY <1>1, HostsChange
<1> QED
  BY <1>1, <1>3, <1>5, <1>6 DEF Dressed

LEMMA DressedAgain ==
  ASSUME NEW a \in Seq(TypedLine), NEW b, NEW c, NEW key, Dressed(a, b, key), Dressed(b, c, key)
  PROVE  Dressed(a, c, key)
  BY DEF Dressed

\* What has been rewritten, and then routed, is still the same lines.
LEMMA DressedRouted ==
  ASSUME NEW kept \in Seq(TypedLine), NEW lines, NEW l, NEW trusted, NEW direct,
         Dressed(kept, lines, <<l, trusted, direct>>)
  PROVE  Dressed(kept, RouteToWorker(lines, l, trusted), <<l, trusted, direct>>)
<1>1. PICK key : key = <<l, trusted, direct>>
  OBVIOUS
<1>2. key[1] = l /\ key[2] = trusted /\ key[3] = direct
  BY <1>1
<1>3. lines \in Seq(TypedLine) /\ Len(lines) = Len(kept)
      /\ \A i \in 1 .. Len(kept) : Serves(lines[i], key)
  BY <1>1 DEF Dressed
<1>4. CASE RouteToWorker(lines, l, trusted) = lines
  BY <1>4
<1>5. CASE trusted /\ HostOf[l] # "curl" /\ RouteToWorker(lines, l, trusted) = Changed(lines, ToWorker)
  <2>1. ASSUME NEW i \in 1 .. Len(lines) PROVE Serves(ToWorker[lines[i]], key)
    <3>1. lines[i] \in TypedLine /\ Serves(lines[i], key)
      BY <1>3
    <3>2. CASE ToWorker[lines[i]].by = "worker"
      BY <1>2, <1>5, <3>2 DEF Serves
    <3>3. CASE ToWorker[lines[i]] = lines[i]
      BY <3>1, <3>3
    <3> QED
      BY <3>1, <3>2, <3>3, ToWorkerKeeps
  <2>2. Dressed(lines, Changed(lines, ToWorker), key)
    BY <1>3, <2>1, ToWorkerKeeps, DressedByChange
  <2> QED
    BY <1>1, <1>5, <2>2, DressedAgain
<1> QED
  BY <1>3, <1>4, <1>5, Routed

LEMMA DressedProxied ==
  ASSUME NEW kept \in Seq(TypedLine), \A x \in ToSet(kept) : x.by = "upstream",
         NEW l, NEW trusted, NEW direct \in BOOLEAN
  PROVE  Dressed(kept, Changed(kept, Proxy(l, direct)), <<l, trusted, direct>>)
<1>1. PICK key, G : key = <<l, trusted, direct>> /\ G = Proxy(l, direct)
  OBVIOUS
<1>2. key[1] = l /\ key[2] = trusted /\ key[3] = direct
  BY <1>1
<1>3. ASSUME NEW i \in 1 .. Len(kept) PROVE Serves(G[kept[i]], key)
  <2>1. kept[i] \in TypedLine /\ kept[i].by = "upstream"
    BY InList
  <2>2. /\ G[kept[i]].by \in {"upstream", "self", "direct"}
        /\ G[kept[i]].by = "direct" => direct
        /\ G[kept[i]].by = "upstream" => kept[i].tag \notin {"uri", "variant", "key", "iframe"}
        /\ G[kept[i]].tag = kept[i].tag
    BY <1>1, <2>1, ProxyKeeps DEF Keeps
  <2> QED
    BY <1>2, <2>2 DEF Serves
<1>4. Keeps(G)
  BY <1>1, ProxyKeeps
<1>5. Dressed(kept, Changed(kept, G), key)
  BY <1>3, <1>4, DressedByChange
<1> QED
  BY <1>1, <1>5

(***************************************************************************)
(* The answer to any request for a playlist that stays as it is.           *)
(***************************************************************************)
LEMMA FixedServed ==
  ASSUME NEW l \in DOMAIN Fixed, NEW trusted \in BOOLEAN, NEW direct \in BOOLEAN, NEW lines,
         lines = RouteToWorker(Rewrite(Fixed[l], l, trusted, direct), l, trusted),
         NEW public, public => trusted
  PROVE  /\ lines \in Seq(TypedLine)
         /\ ListFits(ListAnswer(<<l, trusted, direct>>, lines, public, Fixed[l]))
<1>1. PICK key, said, a : key = <<l, trusted, direct>> /\ said = Fixed[l]
                          /\ a = ListAnswer(key, lines, public, said)
  OBVIOUS
<1>2. /\ key[1] = l /\ key[2] = trusted /\ key[3] = direct
      /\ a.key = key /\ a.lines = lines /\ a.public = public /\ a.said = said
  BY <1>1 DEF ListAnswer
<1>3. /\ said \in Seq(TypedLine) /\ Follow(said) /\ Immutable(said)
      /\ \A x \in ToSet(said) : x \in TypedLine /\ x.by = "upstream"
  BY <1>1, FixedLines
<1>4. \E kept : /\ Left(said, kept)
                /\ trusted /\ ~direct /\ Keepable(said) => Low(kept)
                /\ Rewrite(said, l, trusted, direct) = Changed(kept, Proxy(l, direct))
  <2>1. CASE "streaminf" \in Tags(said)
    <3>1. PICK kept : kept = IF trusted /\ ~direct THEN Cap(said) ELSE said
      OBVIOUS
    <3>2. Left(said, kept) /\ (trusted /\ ~direct /\ Keepable(said) => Low(kept))
      BY <1>3, <3>1, LeftCapped, LeftWhole
    <3>3. kept \in Seq(TypedLine)
      BY <3>2 DEF Left
    <3>4. RewriteMaster(said, l, trusted, direct) = [i \in DOMAIN kept |-> Proxied(kept[i], l, direct)]
      BY <3>1 DEF RewriteMaster
    <3>5. Rewrite(said, l, trusted, direct) = RewriteMaster(said, l, trusted, direct)
      BY <2>1 DEF Rewrite
    <3> QED
      BY <3>2, <3>3, <3>4, <3>5, VodChanged
  <2>2. CASE "streaminf" \notin Tags(said)
    <3>1. "extinf" \in Tags(said) /\ "end" \in Tags(said)
      BY <1>3, <2>2 DEF Immutable
    <3>2. Rewrite(said, l, trusted, direct) = RewriteVod(said, l, direct)
      BY <2>2, <3>1 DEF Rewrite
    <3>3. ~Keepable(said)
      BY <2>2 DEF Keepable, Tags
    <3> QED
      BY <1>3, <3>2, <3>3, LeftWhole, VodChanged
  <2> QED
    BY <2>1, <2>2
<1>5. PICK kept : /\ Left(said, kept)
                  /\ trusted /\ ~direct /\ Keepable(said) => Low(kept)
                  /\ Rewrite(said, l, trusted, direct) = Changed(kept, Proxy(l, direct))
  BY <1>4
<1>6. kept \in Seq(TypedLine) /\ ToSet(kept) \subseteq ToSet(said)
  BY <1>5 DEF Left
<1>7. Dressed(kept, lines, key)
  <2>1. Dressed(kept, Changed(kept, Proxy(l, direct)), key)
    BY <1>1, <1>3, <1>6, DressedProxied
  <2>2. lines = RouteToWorker(Changed(kept, Proxy(l, direct)), l, trusted)
    BY <1>1, <1>5
  <2> QED
    BY <1>1, <1>6, <2>1, <2>2, DressedRouted
<1>8. lines \in Seq(TypedLine) /\ DOMAIN lines = 1 .. Len(lines) /\ Len(lines) = Len(kept)
      /\ ToSet(lines) = {lines[i] : i \in 1 .. Len(lines)}
      /\ ToSet(kept) = {kept[i] : i \in 1 .. Len(kept)}
  BY <1>6, <1>7, InList DEF Dressed
<1>9. Values(lines, "uri") = Values(said, "uri")
      /\ Len(Only(lines, "variant")) = Len(Only(lines, "streaminf"))
  <2>1. "uri" \in Tag /\ "variant" \in Tag /\ "streaminf" \in Tag
    BY DEF Tag
  <2> QED
    BY <1>5, <1>7, <2>1 DEF Dressed, Left
<1>10. ASSUME NEW i \in DOMAIN lines, lines[i].tag = "variant"
       PROVE  i > 1 /\ lines[i - 1].tag = "streaminf"
  <2>1. i \in 1 .. Len(kept) /\ kept[i].tag = "variant"
    BY <1>7, <1>8, <1>10 DEF Dressed
  <2>2. i > 1 /\ kept[i - 1].tag = "streaminf"
    BY <1>5, <2>1 DEF Left
  <2>3. i - 1 \in 1 .. Len(kept)
    BY <2>1, <2>2
  <2> QED
    BY <1>7, <2>2, <2>3 DEF Dressed
<1>11. "variant" \in Tags(said) => "variant" \in Tags(lines)
  <2>1. ASSUME "variant" \in Tags(said) PROVE "variant" \in Tags(lines)
    <3>1. "variant" \in Tags(kept)
      BY <1>5, <2>1 DEF Left
    <3>2. PICK i \in 1 .. Len(kept) : kept[i].tag = "variant"
      BY <1>8, <3>1 DEF Tags
    <3>3. lines[i].tag = "variant" /\ lines[i] \in ToSet(lines)
      BY <1>7, <1>8, <3>2 DEF Dressed
    <3> QED
      BY <3>3 DEF Tags
  <2> QED
    BY <2>1
<1>12. ASSUME trusted, ~direct, Keepable(said), NEW x \in ToSet(lines),
              x.tag \in {"streaminf", "iframe"}
       PROVE  x.value <= MaxHeight
  <2>1. PICK i \in 1 .. Len(kept) : x = lines[i]
    BY <1>8
  <2>2. kept[i] \in ToSet(kept) /\ kept[i].tag = x.tag /\ kept[i].value = x.value
    BY <1>7, <1>8, <2>1 DEF Dressed
  <2> QED
    BY <1>5, <1>12, <2>2 DEF Low
<1>13. WholeOrCapped(a)
  BY <1>2, <1>9, <1>10, <1>11, <1>12 DEF WholeOrCapped
<1>14. \A x \in ToSet(a.lines) : Serves(x, a.key)
  BY <1>2, <1>7, <1>8 DEF Dressed
<1>15. a.key[1] # Rolling
  BY <1>2, LiveAssumption
<1>16. a.public => Immutable(a.said) /\ a.key[2]
  BY <1>2, <1>3
<1> QED
  BY <1>1, <1>8, <1>13, <1>14, <1>15, <1>16 DEF ListFits
-----------------------------------------------------------------------------
(***************************************************************************)
(* What is read of a playlist, line by line.                               *)
(***************************************************************************)
Read(h, o, b, g, t, q) ==
  [header |-> h, open |-> o, blocks |-> b, long |-> g, last |-> t, seq |-> q]
Reading ==
  [header : Seq(TypedLine), open : Seq(TypedLine), blocks : Seq(Seq(TypedLine)),
   long : Seq(Int), last : Int, seq : Int]

LEMMA TakeRead ==
  ASSUME NEW h, NEW o, NEW b, NEW g, NEW t, NEW q, NEW x
  PROVE  /\ x.tag = "seq" => TakeLine(Read(h, o, b, g, t, q), x) = Read(h, o, b, g, t, x.value)
         /\ x.tag = "end" => TakeLine(Read(h, o, b, g, t, q), x) = Read(h, o, b, g, t, q)
         /\ x.tag = "uri" => TakeLine(Read(h, o, b, g, t, q), x) =
              Read(h, << >>, Append(b, Append(o, x)), Append(g, t), 0, q)
         /\ x.tag = "extinf" => TakeLine(Read(h, o, b, g, t, q), x) =
              Read(h, Append(o, x), b, g, x.value, q)
         /\ x.tag \notin {"seq", "end", "uri", "extinf"} =>
              TakeLine(Read(h, o, b, g, t, q), x) =
                IF b = << >> /\ x.tag \notin InBlock THEN Read(Append(h, x), o, b, g, t, q)
                ELSE Read(h, Append(o, x), b, g, t, q)
<1>1. PICK s : s = Read(h, o, b, g, t, q)
  OBVIOUS
<1>2. CASE x.tag = "seq"
  <2>1. TakeLine(s, x) = [s EXCEPT !.seq = x.value]
    BY <1>2 DEF TakeLine
  <2> QED
    BY <1>1, <1>2, <2>1 DEF Read
<1>3. CASE x.tag = "end"
  <2>1. TakeLine(s, x) = s
    BY <1>3 DEF TakeLine
  <2> QED
    BY <1>1, <1>3, <2>1
<1>4. CASE x.tag = "uri"
  <2>1. TakeLine(s, x) = [s EXCEPT !.blocks = Append(@, Append(s.open, x)), !.open = << >>,
                                   !.long = Append(@, s.last), !.last = 0]
    BY <1>4 DEF TakeLine
  <2> QED
    BY <1>1, <1>4, <2>1 DEF Read
<1>5. CASE x.tag \notin {"seq", "end", "uri"}
  <2>1. PICK v : v = IF x.tag = "extinf" THEN x.value ELSE s.last
    OBVIOUS
  <2>2. PICK timed : timed = [s EXCEPT !.last = v]
    OBVIOUS
  <2>3. TakeLine(s, x) = IF s.blocks = << >> /\ x.tag \notin InBlock
                         THEN [timed EXCEPT !.header = Append(@, x)]
                         ELSE [timed EXCEPT !.open = Append(@, x)]
    <3>1. [s EXCEPT !.last = IF x.tag = "extinf" THEN x.value ELSE @] = timed
      BY <1>1, <2>1, <2>2 DEF Read
    <3> QED
      BY <1>5, <3>1 DEF TakeLine
  <2>4. timed = Read(h, o, b, g, v, q) /\ s.blocks = b /\ s.last = t
    BY <1>1, <2>2 DEF Read
  <2>5. [timed EXCEPT !.header = Append(@, x)] = Read(Append(h, x), o, b, g, v, q)
    BY <2>4 DEF Read
  <2>6. [timed EXCEPT !.open = Append(@, x)] = Read(h, Append(o, x), b, g, v, q)
    BY <2>4, SMTT(30) DEF Read
  <2>7. TakeLine(s, x) = IF b = << >> /\ x.tag \notin InBlock
                         THEN Read(Append(h, x), o, b, g, v, q)
                         ELSE Read(h, Append(o, x), b, g, v, q)
    BY <2>3, <2>4, <2>5, <2>6
  <2>8. CASE x.tag = "extinf"
    <3>1. x.tag \in InBlock /\ v = x.value
      BY <2>1, <2>8 DEF InBlock
    <3> QED
      BY <1>1, <2>7, <2>8, <3>1
  <2>9. CASE x.tag # "extinf"
    <3>1. v = t
      BY <2>1, <2>4, <2>9
    <3> QED
      BY <1>1, <1>5, <2>7, <2>9, <3>1
  <2> QED
    BY <2>8, <2>9
<1> QED
  BY <1>2, <1>3, <1>4, <1>5

LEMMA TakeKeeps ==
  ASSUME NEW s \in Reading, NEW x \in TypedLine
  PROVE  TakeLine(s, x) \in Reading
<1>1. PICK h, o, b, g, t, q : s = Read(h, o, b, g, t, q)
  <2>1. s = Read(s.header, s.open, s.blocks, s.long, s.last, s.seq)
    BY DEF Reading, Read
  <2> QED
    BY <2>1
<1>2. /\ h \in Seq(TypedLine) /\ o \in Seq(TypedLine) /\ b \in Seq(Seq(TypedLine))
      /\ g \in Seq(Int) /\ t \in Int /\ q \in Int
  BY <1>1 DEF Reading, Read
<1>3. /\ x.value \in Int /\ Append(h, x) \in Seq(TypedLine) /\ Append(o, x) \in Seq(TypedLine)
      /\ Append(g, t) \in Seq(Int)
  BY <1>2 DEF TypedLine
<1>4. Append(b, Append(o, x)) \in Seq(Seq(TypedLine))
  BY <1>2, <1>3
<1>5. PICK z : z = << >>
  OBVIOUS
<1>6. z \in Seq(TypedLine)
  BY <1>5
<1>7. ASSUME NEW h2 \in Seq(TypedLine), NEW o2 \in Seq(TypedLine), NEW b2 \in Seq(Seq(TypedLine)),
             NEW g2 \in Seq(Int), NEW t2 \in Int, NEW q2 \in Int
      PROVE  Read(h2, o2, b2, g2, t2, q2) \in Reading
  BY DEF Read, Reading
<1>8. CASE x.tag = "seq"
  <2>1. TakeLine(s, x) = Read(h, o, b, g, t, x.value)
    BY <1>1, <1>8, TakeRead
  <2> QED
    BY <1>2, <1>3, <1>7, <2>1
<1>9. CASE x.tag = "end"
  <2>1. TakeLine(s, x) = Read(h, o, b, g, t, q)
    BY <1>1, <1>9, TakeRead
  <2> QED
    BY <1>1, <2>1
<1>10. CASE x.tag = "uri"
  <2>1. TakeLine(s, x) = Read(h, z, Append(b, Append(o, x)), Append(g, t), 0, q)
    BY <1>1, <1>5, <1>10, TakeRead
  <2>2. Read(h, z, Append(b, Append(o, x)), Append(g, t), 0, q) \in Reading
    <3>1. PICK b2, g2 : b2 = Append(b, Append(o, x)) /\ g2 = Append(g, t)
      OBVIOUS
    <3>2. b2 \in Seq(Seq(TypedLine)) /\ g2 \in Seq(Int)
      BY <1>3, <1>4, <3>1
    <3>3. Read(h, z, b2, g2, 0, q) \in Reading
      BY <1>2, <1>6, <3>2 DEF Read, Reading
    <3> QED
      BY <3>1, <3>3
  <2> QED
    BY <2>1, <2>2
<1>11. CASE x.tag = "extinf"
  <2>1. TakeLine(s, x) = Read(h, Append(o, x), b, g, x.value, q)
    BY <1>1, <1>11, TakeRead
  <2> QED
    BY <1>2, <1>3, <1>7, <2>1, ZenonT(40)
<1>12. CASE x.tag \notin {"seq", "end", "uri", "extinf"}
  <2>1. TakeLine(s, x) = Read(Append(h, x), o, b, g, t, q)
        \/ TakeLine(s, x) = Read(h, Append(o, x), b, g, t, q)
    BY <1>1, <1>12, TakeRead
  <2>2. Read(Append(h, x), o, b, g, t, q) \in Reading
    BY <1>2, <1>3, <1>7
  <2>3. Read(h, Append(o, x), b, g, t, q) \in Reading
    BY <1>2, <1>3, <1>7
  <2> QED
    BY <2>1, <2>2, <2>3
<1> QED
  BY <1>8, <1>9, <1>10, <1>11, <1>12

\* The function that AllTaken is the end of, and what it is of one line more.
Takes(lines, f) ==
  f = [n \in 0 .. Len(lines) |-> IF n = 0 THEN Unread ELSE TakeLine(f[n - 1], lines[n])]

LEMMA TakenRuns ==
  ASSUME NEW lines \in Seq(TypedLine)
  PROVE  \E f \in [0 .. Len(lines) -> Reading] :
           Takes(lines, f) /\ AllTaken(lines) = f[Len(lines)]
<1>1. PICK n \in Nat : n = Len(lines)
  OBVIOUS
<1>2. PICK step : step = [p \in (1 .. n) \X Reading |-> TakeLine(p[2], lines[p[1]])]
  OBVIOUS
<1>3. StepsIn(step, n, Reading)
  <2>1. \A p \in (1 .. n) \X Reading : TakeLine(p[2], lines[p[1]]) \in Reading
    <3> SUFFICES ASSUME NEW p \in (1 .. n) \X Reading
                 PROVE  TakeLine(p[2], lines[p[1]]) \in Reading
      OBVIOUS
    <3>1. lines[p[1]] \in TypedLine /\ p[2] \in Reading
      BY <1>1
    <3> QED
      BY <3>1, TakeKeeps
  <2> QED
    BY <1>2, <2>1 DEF StepsIn
<1>4. Unread \in Reading
  <2>1. PICK z : z = << >>
    OBVIOUS
  <2>2. z \in Seq(TypedLine) /\ z \in Seq(Seq(TypedLine)) /\ z \in Seq(Int)
    BY <2>1
  <2>3. Unread = [header |-> z, open |-> z, blocks |-> z, long |-> z, last |-> 0, seq |-> 0]
    BY <2>1 DEF Unread
  <2> QED
    BY <2>2, <2>3 DEF Reading
<1>5. PICK f \in [0 .. n -> Reading] : Recurs(f, Unread, step, n)
  BY <1>3, <1>4, RecursionExists
<1>6. Takes(lines, f)
  <2>1. ASSUME NEW k \in 0 .. n
        PROVE  f[k] = IF k = 0 THEN Unread ELSE TakeLine(f[k - 1], lines[k])
    <3>1. CASE k = 0
      BY <1>5, <3>1 DEF Recurs
    <3>2. CASE k # 0
      <4>1. k \in 1 .. n /\ k - 1 \in 0 .. n
        BY <3>2
      <4>2. <<k, f[k - 1]>> \in (1 .. n) \X Reading
        BY <1>5, <4>1
      <4>3. f[k] = step[<<k, f[k - 1]>>]
        BY <1>5, <4>1 DEF Recurs
      <4> QED
        BY <1>2, <3>2, <4>2, <4>3
    <3> QED
      BY <3>1, <3>2
  <2>2. f = [k \in 0 .. n |-> f[k]]
    BY <1>5
  <2>3. f = [k \in 0 .. n |-> IF k = 0 THEN Unread ELSE TakeLine(f[k - 1], lines[k])]
    BY <2>1, <2>2, Zenon
  <2> QED
    BY <1>1, <2>3 DEF Takes
<1>7. PICK g : g = CHOOSE h : Takes(lines, h)
  OBVIOUS
<1>8. Takes(lines, g) /\ AllTaken(lines) = g[Len(lines)]
  BY <1>6, <1>7, Zenon DEF Takes, AllTaken
<1>9. PICK Y : Y = {k \in 0 .. n : g[k] \in Reading}
  OBVIOUS
<1>10. 0 \in Y
  BY <1>1, <1>4, <1>8, <1>9 DEF Takes
<1>11. ASSUME NEW k \in 1 .. n, k - 1 \in Y PROVE k \in Y
  <2>1. k \in 0 .. n /\ k # 0 /\ lines[k] \in TypedLine
    BY <1>1
  <2>2. g[k] = TakeLine(g[k - 1], lines[k])
    BY <1>1, <1>8, <2>1 DEF Takes
  <2>3. g[k - 1] \in Reading
    BY <1>9, <1>11
  <2> QED
    BY <1>9, <2>1, <2>2, <2>3, TakeKeeps
<1>12. \A k \in 0 .. n : g[k] \in Reading
  <2>1. Climbs(Y, n)
    BY <1>10, <1>11 DEF Climbs
  <2> QED
    BY <1>9, <2>1, UpTo
<1>13. g \in [0 .. n -> Reading]
  BY <1>1, <1>8, <1>12 DEF Takes
<1> QED
  BY <1>1, <1>8, <1>13

LEMMA TakenEmpty == AllTaken(<< >>) = Unread
<1>1. PICK z : z = << >>
  OBVIOUS
<1>2. z \in Seq(TypedLine) /\ Len(z) = 0
  BY <1>1
<1>3. PICK f \in [0 .. Len(z) -> Reading] : Takes(z, f) /\ AllTaken(z) = f[Len(z)]
  BY <1>2, TakenRuns
<1>4. f[0] = Unread
  BY <1>2, <1>3 DEF Takes
<1> QED
  BY <1>1, <1>2, <1>3, <1>4

LEMMA TakenAppend ==
  ASSUME NEW lines \in Seq(TypedLine), NEW x \in TypedLine
  PROVE  AllTaken(Append(lines, x)) = TakeLine(AllTaken(lines), x)
<1>1. PICK n \in Nat : n = Len(lines)
  OBVIOUS
<1>2. PICK more : more = Append(lines, x)
  OBVIOUS
<1>3. /\ more \in Seq(TypedLine) /\ Len(more) = n + 1 /\ more[n + 1] = x
      /\ \A k \in 1 .. n : more[k] = lines[k]
  BY <1>1, <1>2
<1>4. PICK f \in [0 .. Len(more) -> Reading] : Takes(more, f) /\ AllTaken(more) = f[Len(more)]
  BY <1>3, TakenRuns
<1>5. PICK g \in [0 .. Len(lines) -> Reading] : Takes(lines, g) /\ AllTaken(lines) = g[Len(lines)]
  BY TakenRuns
<1>6. PICK Y : Y = {k \in 0 .. n : f[k] = g[k]}
  OBVIOUS
<1>7. 0 \in Y
  <2>1. f[0] = Unread /\ g[0] = Unread
    BY <1>1, <1>3, <1>4, <1>5 DEF Takes
  <2> QED
    BY <1>6, <2>1
<1>8. ASSUME NEW k \in 1 .. n, k - 1 \in Y PROVE k \in Y
  <2>1. k \in 0 .. Len(more) /\ k \in 0 .. Len(lines) /\ k # 0
    BY <1>1, <1>3
  <2>2. f[k] = TakeLine(f[k - 1], more[k])
    BY <1>4, <2>1 DEF Takes
  <2>3. g[k] = TakeLine(g[k - 1], lines[k])
    BY <1>5, <2>1 DEF Takes
  <2>4. f[k - 1] = g[k - 1] /\ more[k] = lines[k]
    BY <1>3, <1>6, <1>8
  <2> QED
    BY <1>6, <2>2, <2>3, <2>4
<1>9. n \in Y
  <2>1. Climbs(Y, n)
    BY <1>7, <1>8 DEF Climbs
  <2> QED
    BY <2>1, UpTo
<1>10. f[n + 1] = TakeLine(f[n], x)
  <2>1. n + 1 \in 0 .. Len(more) /\ n + 1 # 0 /\ (n + 1) - 1 = n
    BY <1>3
  <2> QED
    BY <1>3, <1>4, <2>1 DEF Takes
<1> QED
  BY <1>1, <1>2, <1>3, <1>4, <1>5, <1>6, <1>9, <1>10

\* How long the segments are together that are left.
WindowSum(long, dropped, f) ==
  f = [n \in 0 .. Len(long) |-> IF n <= dropped THEN 0 ELSE f[n - 1] + long[n]]

LEMMA WindowIs ==
  ASSUME NEW n \in Nat, NEW d \in Int, NEW long, long = [i \in 1 .. n |-> d],
         NEW dropped \in 0 .. n
  PROVE  Window(long, dropped) = (n - dropped) * d
<1>1. Len(long) = n
  BY DEF Len
<1>2. PICK f : f = [k \in 0 .. n |-> IF k <= dropped THEN 0 ELSE (k - dropped) * d]
  OBVIOUS
<1>3. ASSUME NEW k \in 0 .. n PROVE f[k] = IF k <= dropped THEN 0 ELSE f[k - 1] + long[k]
  <2>1. CASE k <= dropped
    BY <1>2, <2>1
  <2>2. CASE k > dropped
    <3>1. k \in 1 .. n /\ k - 1 \in 0 .. n /\ long[k] = d
      BY <2>2
    <3>2. f[k] = (k - dropped) * d
      BY <1>2, <2>2
    <3>3. f[k - 1] = ((k - 1) - dropped) * d
      <4>1. CASE k - 1 <= dropped
        <5>1. (k - 1) - dropped = 0 /\ f[k - 1] = 0
          BY <1>2, <2>2, <3>1, <4>1
        <5>2. 0 * d = 0
          OBVIOUS
        <5> QED
          BY <5>1, <5>2
      <4>2. CASE k - 1 > dropped
        BY <1>2, <3>1, <4>2
      <4> QED
        BY <4>1, <4>2
    <3>4. PICK j : j = (k - 1) - dropped
      OBVIOUS
    <3>5. j \in Int /\ k - dropped = j + 1 /\ (j + 1) * d = j * d + d
      BY <3>4
    <3> QED
      BY <2>2, <3>1, <3>2, <3>3, <3>4, <3>5
  <2> QED
    BY <2>1, <2>2
<1>4. WindowSum(long, dropped, f)
  <2>1. f = [k \in 0 .. n |-> f[k]]
    BY <1>2
  <2>2. f = [k \in 0 .. n |-> IF k <= dropped THEN 0 ELSE f[k - 1] + long[k]]
    BY <1>3, <2>1, Zenon
  <2> QED
    BY <1>1, <2>2 DEF WindowSum
<1>5. PICK g : g = CHOOSE h : WindowSum(long, dropped, h)
  OBVIOUS
<1>6. WindowSum(long, dropped, g) /\ Window(long, dropped) = g[Len(long)]
  BY <1>4, <1>5, Zenon DEF WindowSum, Window
<1>7. PICK Y : Y = {k \in 0 .. n : g[k] = f[k]}
  OBVIOUS
<1>8. 0 \in Y
  <2>1. g[0] = 0 /\ f[0] = 0
    BY <1>1, <1>2, <1>6 DEF WindowSum
  <2> QED
    BY <1>7, <2>1
<1>9. ASSUME NEW k \in 1 .. n, k - 1 \in Y PROVE k \in Y
  <2>1. k \in 0 .. n
    OBVIOUS
  <2>2. g[k] = IF k <= dropped THEN 0 ELSE g[k - 1] + long[k]
    BY <1>1, <1>6, <2>1 DEF WindowSum
  <2>3. f[k] = IF k <= dropped THEN 0 ELSE f[k - 1] + long[k]
    BY <1>3, <2>1
  <2>4. g[k - 1] = f[k - 1]
    BY <1>7, <1>9
  <2> QED
    BY <1>7, <2>1, <2>2, <2>3, <2>4
<1>10. n \in Y
  <2>1. Climbs(Y, n)
    BY <1>8, <1>9 DEF Climbs
  <2> QED
    BY <2>1, UpTo
<1>11. f[n] = (n - dropped) * d
  <2>1. CASE n <= dropped
    <3>1. n - dropped = 0 /\ f[n] = 0 /\ 0 * d = 0
      BY <1>2, <2>1
    <3> QED
      BY <3>1
  <2>2. CASE n > dropped
    BY <1>2, <2>2
  <2> QED
    BY <2>1, <2>2
<1> QED
  BY <1>1, <1>6, <1>7, <1>10, <1>11
-----------------------------------------------------------------------------
(***************************************************************************)
(* The blocks of lines of segments, put together and read.                 *)
(***************************************************************************)
MediaLines == {x \in TypedLine : x.tag \in {"key", "extinf", "uri"}}
IsBlock(b, e, u) ==
  /\ e \in MediaLines /\ e.tag = "extinf" /\ u \in MediaLines /\ u.tag = "uri"
  /\ b = <<e, u>> \/ \E k \in MediaLines : k.tag = "key" /\ b = <<k, e, u>>

LEMMA OnlyConcat ==
  ASSUME NEW a \in Seq(TypedLine), NEW b \in Seq(TypedLine), NEW tag
  PROVE  Only(a \o b, tag) = Only(a, tag) \o Only(b, tag)
<1>1. PICK S : S = OfTag(tag)
  OBVIOUS
<1>2. Select(a \o b, S) = Select(a, S) \o Select(b, S)
  BY SelectConcat
<1>3. Only(a \o b, tag) = Select(a \o b, S) /\ Only(a, tag) = Select(a, S)
      /\ Only(b, tag) = Select(b, S)
  BY <1>1, OnlyIsSelect
<1> QED
  BY <1>2, <1>3

LEMMA ShortLists ==
  ASSUME NEW A, NEW x \in A, NEW y \in A
  PROVE  /\ <<x>> \in Seq(A) /\ <<x, y>> \in Seq(A)
         /\ <<x, y>> = <<x>> \o <<y>> /\ Append(<<x>>, y) = <<x, y>>
         /\ Append(<< >>, x) = <<x>> /\ << >> \o <<x>> = <<x>> /\ <<x>> \o << >> = <<x>>
<1>1. PICK a, b, c : a = <<x>> /\ b = <<y>> /\ c = <<x, y>>
  OBVIOUS
<1>2. /\ a \in Seq(A) /\ Len(a) = 1 /\ a[1] = x /\ b \in Seq(A) /\ Len(b) = 1 /\ b[1] = y
      /\ c \in Seq(A) /\ Len(c) = 2 /\ c[1] = x /\ c[2] = y
  BY <1>1
<1>3. PICK d, e : d = a \o b /\ e = Append(a, y)
  OBVIOUS
<1>4. /\ d \in Seq(A) /\ Len(d) = 2 /\ d[1] = x /\ d[2] = y
      /\ e \in Seq(A) /\ Len(e) = 2 /\ e[1] = x /\ e[2] = y
  <2>6. a \in Seq(A) /\ b \in Seq(A)
    BY <1>2
  <2>0. /\ Append(a, y) \in Seq(A) /\ Len(Append(a, y)) = Len(a) + 1
        /\ Append(a, y)[Len(a) + 1] = y /\ \A i \in 1 .. Len(a) : Append(a, y)[i] = a[i]
    BY <2>6, Appended
  <2>1. /\ e \in Seq(A) /\ Len(e) = 1 + 1 /\ e[1 + 1] = y /\ e[1] = a[1]
    BY <1>2, <1>3, <2>0
  <2>5. a \o b \in Seq(A) /\ Len(a \o b) = Len(a) + Len(b)
    BY <2>6
  <2>2. d \in Seq(A) /\ Len(d) = 1 + 1
    BY <1>2, <1>3, <2>5
  <2>3. \A i \in 1 .. 1 + 1 : d[i] = IF i <= 1 THEN a[i] ELSE b[i - 1]
    BY <1>2, <1>3, <2>2
  <2>4. d[1] = a[1] /\ d[2] = b[1]
    BY <2>3
  <2> QED
    BY <1>2, <2>1, <2>2, <2>4
<1>5. \A i \in 1 .. 2 : c[i] = d[i] /\ c[i] = e[i]
  BY <1>2, <1>4
<1>6. c = d /\ c = e
  BY <1>2, <1>4, <1>5
<1>7. Append(<< >>, x) = <<x>> /\ << >> \o <<x>> = <<x>> /\ <<x>> \o << >> = <<x>>
  OBVIOUS
<1> QED
  BY <1>1, <1>2, <1>3, <1>6, <1>7

LEMMA OnlyOne ==
  ASSUME NEW x \in TypedLine, NEW tag
  PROVE  Only(<<x>>, tag) = IF x.tag = tag THEN <<x>> ELSE << >>
<1>1. PICK z : z = << >>
  OBVIOUS
<1>2. z \in Seq(TypedLine) /\ Append(z, x) = <<x>>
  BY <1>1
<1>3. Only(Append(z, x), tag) = IF x.tag = tag THEN Append(Only(z, tag), x) ELSE Only(z, tag)
  BY <1>2, OnlyAppend
<1>4. Only(z, tag) = z
  BY <1>1, OnlyEmpty
<1> QED
  BY <1>1, <1>2, <1>3, <1>4

LEMMA OnlyPair ==
  ASSUME NEW x \in TypedLine, NEW y \in TypedLine, NEW tag
  PROVE  Only(<<x, y>>, tag) = Only(<<x>>, tag) \o Only(<<y>>, tag)
<1>1. <<x>> \in Seq(TypedLine) /\ <<y>> \in Seq(TypedLine) /\ <<x, y>> = <<x>> \o <<y>>
  BY ShortLists
<1>2. Only(<<x>> \o <<y>>, tag) = Only(<<x>>, tag) \o Only(<<y>>, tag)
  BY <1>1, OnlyConcat
<1> QED
  BY <1>1, <1>2

LEMMA BlockTyped ==
  ASSUME NEW b, NEW e, NEW u, IsBlock(b, e, u)
  PROVE  b \in Seq(TypedLine) /\ b \in Seq(MediaLines)
<1>1. e \in MediaLines /\ u \in MediaLines /\ MediaLines \subseteq TypedLine
  BY DEF IsBlock, MediaLines
<1>2. \A k \in MediaLines : <<k, e, u>> \in Seq(MediaLines) /\ <<k, e, u>> \in Seq(TypedLine)
  BY <1>1
<1>3. <<e, u>> \in Seq(MediaLines) /\ <<e, u>> \in Seq(TypedLine)
  BY <1>1
<1> QED
  BY <1>2, <1>3 DEF IsBlock

LEMMA BlockOnly ==
  ASSUME NEW b, NEW e, NEW u, IsBlock(b, e, u)
  PROVE  Only(b, "uri") = <<u>> /\ Only(b, "extinf") = <<e>>
<1>1. /\ e \in TypedLine /\ u \in TypedLine /\ e.tag = "extinf" /\ u.tag = "uri"
      /\ <<e>> \in Seq(TypedLine) /\ <<u>> \in Seq(TypedLine) /\ <<e, u>> \in Seq(TypedLine)
  BY DEF IsBlock, MediaLines
<1>2. /\ Only(<<e>>, "uri") = << >> /\ Only(<<e>>, "extinf") = <<e>>
      /\ Only(<<u>>, "uri") = <<u>> /\ Only(<<u>>, "extinf") = << >>
  BY <1>1, OnlyOne
<1>3. Only(<<e, u>>, "uri") = <<u>> /\ Only(<<e, u>>, "extinf") = <<e>>
  <2>1. /\ Only(<<e, u>>, "uri") = Only(<<e>>, "uri") \o Only(<<u>>, "uri")
        /\ Only(<<e, u>>, "extinf") = Only(<<e>>, "extinf") \o Only(<<u>>, "extinf")
    BY <1>1, OnlyPair
  <2>2. << >> \o <<u>> = <<u>> /\ <<e>> \o << >> = <<e>>
    OBVIOUS
  <2> QED
    BY <1>2, <2>1, <2>2
<1>4. ASSUME NEW k \in MediaLines, k.tag = "key", b = <<k, e, u>>
      PROVE  Only(b, "uri") = <<u>> /\ Only(b, "extinf") = <<e>>
  <2>1. k \in TypedLine /\ <<k>> \in Seq(TypedLine) /\ b = <<k>> \o <<e, u>>
    BY <1>4 DEF MediaLines
  <2>2. Only(<<k>>, "uri") = << >> /\ Only(<<k>>, "extinf") = << >>
    BY <1>4, <2>1, OnlyOne
  <2>3. /\ Only(<<k>> \o <<e, u>>, "uri") = Only(<<k>>, "uri") \o Only(<<e, u>>, "uri")
        /\ Only(<<k>> \o <<e, u>>, "extinf") = Only(<<k>>, "extinf") \o Only(<<e, u>>, "extinf")
    <3>1. PICK a, c : a = <<k>> /\ c = <<e, u>>
      OBVIOUS
    <3>2. Only(a \o c, "uri") = Only(a, "uri") \o Only(c, "uri")
      BY <1>1, <2>1, <3>1, OnlyConcat, ZenonT(40)
    <3>3. Only(a \o c, "extinf") = Only(a, "extinf") \o Only(c, "extinf")
      BY <1>1, <2>1, <3>1, OnlyConcat, ZenonT(40)
    <3> QED
      BY <3>1, <3>2, <3>3
  <2>4. << >> \o <<u>> = <<u>> /\ << >> \o <<e>> = <<e>>
    OBVIOUS
  <2> QED
    BY <1>3, <2>1, <2>2, <2>3, <2>4
<1> QED
  BY <1>3, <1>4 DEF IsBlock

LEMMA LineTyped ==
  ASSUME NEW tag \in Tag, NEW v \in Int
  PROVE  /\ Line(tag, v) \in TypedLine /\ Line(tag, v).tag = tag
         /\ Line(tag, v).value = v /\ Line(tag, v).by = "upstream"
  BY DEF Line, TypedLine, Server

LEMMA BlockIs ==
  ASSUME NEW n \in Nat, NEW first
  PROVE  /\ IsBlock(Block(n, first), Line("extinf", Duration), Line("uri", n))
         /\ \A i \in 1 .. Len(Block(n, first)) : Block(n, first)[i].by = "upstream"
<1>1. Duration \in Nat /\ KeyEvery \in Nat \ {0}
  BY LiveAssumption
<1>2. n \div KeyEvery \in Int
  BY <1>1
<1>3. "key" \in Tag /\ "extinf" \in Tag /\ "uri" \in Tag
  BY DEF Tag
<1>4. PICK k, e, u : k = Line("key", n \div KeyEvery) /\ e = Line("extinf", Duration) /\ u = Line("uri", n)
  OBVIOUS
<1>5. /\ k \in MediaLines /\ k.tag = "key" /\ k.by = "upstream"
      /\ e \in MediaLines /\ e.tag = "extinf" /\ e.by = "upstream"
      /\ u \in MediaLines /\ u.tag = "uri" /\ u.by = "upstream"
  BY <1>1, <1>2, <1>3, <1>4, LineTyped DEF MediaLines
<1>6. Block(n, first) = <<k, e, u>> \/ Block(n, first) = <<e, u>>
  BY <1>4 DEF Block
<1>7. \A i \in 1 .. Len(Block(n, first)) : Block(n, first)[i].by = "upstream"
  <2>1. CASE Block(n, first) = <<k, e, u>>
    BY <1>5, <2>1
  <2>2. CASE Block(n, first) = <<e, u>>
    BY <1>5, <2>2
  <2> QED
    BY <1>6, <2>1, <2>2
<1> QED
  BY <1>4, <1>5, <1>6, <1>7 DEF IsBlock

LEMMA BlockChanged ==
  ASSUME NEW G, Keeps(G), NEW b, NEW e, NEW u, IsBlock(b, e, u)
  PROVE  IsBlock(Changed(b, G), G[e], G[u])
<1>1. \A x \in MediaLines : G[x] \in MediaLines /\ G[x].tag = x.tag
  BY DEF Keeps, MediaLines
<1>2. G[e] \in MediaLines /\ G[e].tag = "extinf" /\ G[u] \in MediaLines /\ G[u].tag = "uri"
  BY <1>1 DEF IsBlock
<1>3. ASSUME b = <<e, u>> PROVE Changed(b, G) = <<G[e], G[u]>>
  BY <1>3 DEF Changed
<1>4. ASSUME NEW k, b = <<k, e, u>> PROVE Changed(b, G) = <<G[k], G[e], G[u]>>
  BY <1>4 DEF Changed
<1> QED
  BY <1>1, <1>2, <1>3, <1>4 DEF IsBlock

\* One block more, when none is open.
LEMMA TakenBlock ==
  ASSUME NEW lines \in Seq(TypedLine), NEW b, NEW e, NEW u, IsBlock(b, e, u),
         NEW h, NEW bs, NEW g, NEW q, AllTaken(lines) = Read(h, << >>, bs, g, 0, q)
  PROVE  AllTaken(lines \o b) = Read(h, << >>, Append(bs, b), Append(g, e.value), 0, q)
<1>1. e \in TypedLine /\ u \in TypedLine /\ e.tag = "extinf" /\ u.tag = "uri"
  BY DEF IsBlock, MediaLines
<1>2. ASSUME NEW a \in Seq(TypedLine), NEW o, AllTaken(a) = Read(h, o, bs, g, 0, q)
      PROVE  AllTaken(Append(Append(a, e), u)) =
               Read(h, << >>, Append(bs, Append(Append(o, e), u)), Append(g, e.value), 0, q)
  <2>1. AllTaken(Append(a, e)) = TakeLine(Read(h, o, bs, g, 0, q), e)
    BY <1>1, <1>2, TakenAppend
  <2>2. TakeLine(Read(h, o, bs, g, 0, q), e) = Read(h, Append(o, e), bs, g, e.value, q)
    BY <1>1, TakeRead
  <2>3. Append(a, e) \in Seq(TypedLine)
    BY <1>1
  <2>4. AllTaken(Append(Append(a, e), u)) = TakeLine(AllTaken(Append(a, e)), u)
    BY <1>1, <2>3, TakenAppend
  <2>5. TakeLine(Read(h, Append(o, e), bs, g, e.value, q), u) =
          Read(h, << >>, Append(bs, Append(Append(o, e), u)), Append(g, e.value), 0, q)
    BY <1>1, TakeRead
  <2> QED
    BY <2>1, <2>2, <2>4, <2>5
<1>3. PICK z : z = << >>
  OBVIOUS
<1>4. CASE b = <<e, u>>
  <2>1. lines \o b = Append(Append(lines, e), u)
    BY <1>1, <1>4
  <2>2. Append(Append(z, e), u) = b
    BY <1>1, <1>3, <1>4, ShortLists
  <2>3. AllTaken(Append(Append(lines, e), u)) =
               Read(h, << >>, Append(bs, Append(Append(z, e), u)), Append(g, e.value), 0, q)
    BY <1>2, <1>3
  <2> QED
    BY <2>1, <2>2, <2>3
<1>5. ASSUME NEW k \in MediaLines, k.tag = "key", b = <<k, e, u>>
      PROVE  AllTaken(lines \o b) = Read(h, << >>, Append(bs, b), Append(g, e.value), 0, q)
  <2>1. k \in TypedLine
    BY DEF MediaLines
  <2>2. AllTaken(Append(lines, k)) = TakeLine(Read(h, z, bs, g, 0, q), k)
    BY <1>3, <2>1, TakenAppend
  <2>3. TakeLine(Read(h, z, bs, g, 0, q), k) = Read(h, Append(z, k), bs, g, 0, q)
    <3>1. k.tag \notin {"seq", "end", "uri", "extinf"} /\ k.tag \in InBlock
      BY <1>5 DEF InBlock
    <3> QED
      BY <3>1, TakeRead
  <2>4. PICK a, o : a = Append(lines, k) /\ o = Append(z, k)
    OBVIOUS
  <2>5. a \in Seq(TypedLine) /\ AllTaken(a) = Read(h, o, bs, g, 0, q)
    BY <2>1, <2>2, <2>3, <2>4
  <2>6. lines \o b = Append(Append(a, e), u)
    BY <1>1, <1>5, <2>1, <2>4
  <2>7. Append(Append(o, e), u) = b
    <3>1. o = <<k>> /\ Append(<<k>>, e) = <<k, e>>
      BY <1>1, <1>3, <2>1, <2>4, ShortLists
    <3>2. Append(<<k, e>>, u) = <<k, e, u>>
      <4>1. PICK c, d : c = <<k, e>> /\ d = <<k, e, u>>
        OBVIOUS
      <4>2. /\ c \in Seq(TypedLine) /\ Len(c) = 2 /\ c[1] = k /\ c[2] = e
            /\ d \in Seq(TypedLine) /\ Len(d) = 3 /\ d[1] = k /\ d[2] = e /\ d[3] = u
        BY <1>1, <2>1, <4>1
      <4>3. PICK a2 : a2 = Append(c, u)
        OBVIOUS
      <4>7. /\ Append(c, u) \in Seq(TypedLine) /\ Len(Append(c, u)) = Len(c) + 1
            /\ Append(c, u)[Len(c) + 1] = u /\ \A i \in 1 .. Len(c) : Append(c, u)[i] = c[i]
        <5>1. c \in Seq(TypedLine)
          BY <4>2
        <5> QED
          BY <1>1, <5>1, Appended
      <4>4. /\ a2 \in Seq(TypedLine) /\ Len(a2) = 2 + 1 /\ a2[2 + 1] = u
            /\ \A i \in 1 .. 2 : a2[i] = c[i]
        BY <4>2, <4>3, <4>7
      <4>5. \A i \in 1 .. 3 : a2[i] = d[i]
        BY <4>2, <4>4
      <4>6. a2 = d
        BY <4>2, <4>4, <4>5
      <4> QED
        BY <4>1, <4>3, <4>6
    <3> QED
      BY <1>5, <3>1, <3>2
  <2> QED
    BY <1>2, <2>5, <2>6, <2>7
<1> QED
  BY <1>4, <1>5 DEF IsBlock

Ones(seqs, tag, v) == \A i \in 1 .. Len(seqs) : Only(seqs[i], tag) = <<v[i]>>
Blocked(seqs, d) == \A i \in 1 .. Len(seqs) : \E e, u : IsBlock(seqs[i], e, u) /\ e.value = d
Same(n, d) == [i \in 1 .. n |-> d]

LEMMA JoinTwice ==
  ASSUME NEW s \in Seq(TypedLine), NEW t \in Seq(TypedLine), NEW u \in Seq(TypedLine)
  PROVE  (s \o t) \o u = s \o (t \o u)
<1>2. ASSUME NEW x \in Seq(TypedLine), NEW y \in Seq(TypedLine)
      PROVE  /\ x \o y \in Seq(TypedLine) /\ Len(x \o y) = Len(x) + Len(y)
             /\ \A i \in 1 .. Len(x) + Len(y) : (x \o y)[i] =
                  IF i <= Len(x) THEN x[i] ELSE y[i - Len(x)]
  BY ConcatProperties
<1>3. PICK a, b, v, w : a = s \o t /\ b = t \o u /\ v = a \o u /\ w = s \o b
  OBVIOUS
<1>4. PICK i, j, k : i = Len(s) /\ j = Len(t) /\ k = Len(u)
  OBVIOUS
<1>5. i \in Nat /\ j \in Nat /\ k \in Nat
  BY <1>4
<1>6. /\ a \in Seq(TypedLine) /\ Len(a) = i + j
      /\ \A m \in 1 .. i + j : a[m] = IF m <= i THEN s[m] ELSE t[m - i]
  BY <1>2, <1>3, <1>4
<1>7. /\ b \in Seq(TypedLine) /\ Len(b) = j + k
      /\ \A m \in 1 .. j + k : b[m] = IF m <= j THEN t[m] ELSE u[m - j]
  BY <1>2, <1>3, <1>4
<1>8. /\ v \in Seq(TypedLine) /\ Len(v) = (i + j) + k
      /\ \A m \in 1 .. (i + j) + k : v[m] = IF m <= i + j THEN a[m] ELSE u[m - (i + j)]
  BY <1>2, <1>3, <1>4, <1>6
<1>9. /\ w \in Seq(TypedLine) /\ Len(w) = i + (j + k)
      /\ \A m \in 1 .. i + (j + k) : w[m] = IF m <= i THEN s[m] ELSE b[m - i]
  BY <1>2, <1>3, <1>4, <1>7
<1>10. ASSUME NEW m \in 1 .. (i + j) + k PROVE v[m] = w[m]
  <2>1. m \in 1 .. i + (j + k)
    BY <1>5
  <2>2. v[m] = IF m <= i + j THEN a[m] ELSE u[m - (i + j)]
    BY <1>8
  <2>3. w[m] = IF m <= i THEN s[m] ELSE b[m - i]
    BY <1>9, <2>1
  <2>4. CASE m <= i
    <3>1. m \in 1 .. i + j /\ m <= i + j
      BY <1>5, <2>4
    <3> QED
      BY <1>6, <2>2, <2>3, <2>4, <3>1
  <2>5. CASE m > i /\ m <= i + j
    <3>1. m \in 1 .. i + j /\ m - i \in 1 .. j + k /\ m - i <= j
      BY <1>5, <2>5
    <3>2. a[m] = t[m - i] /\ b[m - i] = t[m - i]
      BY <1>5, <1>6, <1>7, <2>5, <3>1
    <3> QED
      BY <1>5, <2>2, <2>3, <2>5, <3>2
  <2>6. CASE m > i + j
    <3>1. m - i \in 1 .. j + k /\ m - i > j /\ (m - i) - j = m - (i + j) /\ m > i
      BY <1>5, <2>6
    <3>2. b[m - i] = u[(m - i) - j]
      BY <1>5, <1>7, <3>1
    <3> QED
      BY <1>5, <2>2, <2>3, <2>6, <3>1, <3>2
  <2> QED
    BY <1>5, <2>4, <2>5, <2>6
<1>11. v = w
  BY <1>5, <1>8, <1>9, <1>10
<1> QED
  BY <1>3, <1>11

LEMMA FirstOnes ==
  ASSUME NEW A, NEW s \in Seq(A), NEW k \in 1 .. Len(s)
  PROVE  /\ SubSeq(s, 1, k) = Append(SubSeq(s, 1, k - 1), s[k])
         /\ SubSeq(s, 1, k - 1) \in Seq(A) /\ s[k] \in A
  OBVIOUS

\* One line of the kind from each.
LEMMA FlatOnly ==
  ASSUME NEW seqs \in Seq(Seq(TypedLine)), Len(seqs) > 0, NEW tag,
         NEW v \in Seq(TypedLine), Len(v) = Len(seqs), Ones(seqs, tag, v)
  PROVE  Only(FlattenSeq(seqs), tag) = v
<1>1. PICK n \in Nat : n = Len(seqs)
  OBVIOUS
<1>2. PICK f \in [0 .. n -> Seq(TypedLine)] : Joins(seqs, f) /\ FlattenSeq(seqs) = f[n]
  BY <1>1, FlattenRuns
<1>3. PICK Y : Y = {k \in 0 .. n : Only(f[k], tag) = SubSeq(v, 1, k)}
  OBVIOUS
<1>4. 0 \in Y
  <2>1. PICK z : z = << >>
    OBVIOUS
  <2>2. f[0] = z /\ SubSeq(v, 1, 0) = z /\ Only(z, tag) = z
    BY <1>2, <2>1, OnlyEmpty DEF Joins
  <2> QED
    BY <1>3, <2>2
<1>5. ASSUME NEW k \in 1 .. n, k - 1 \in Y PROVE k \in Y
  <2>1. PICK a, b : a = f[k - 1] /\ b = seqs[k]
    OBVIOUS
  <2>2. k \in 0 .. n /\ k - 1 \in 0 .. n /\ k \in 1 .. Len(seqs) /\ k \in 1 .. Len(v)
    BY <1>1
  <2>3. a \in Seq(TypedLine) /\ b \in Seq(TypedLine) /\ f[k] = a \o b
    <3>1. f[k] = f[k - 1] \o seqs[k]
      BY <1>2, <2>2 DEF Joins
    <3>2. f[k - 1] \in Seq(TypedLine)
      BY <1>2, <2>2
    <3>3. seqs[k] \in Seq(TypedLine)
      BY <2>2
    <3> QED
      BY <2>1, <3>1, <3>2, <3>3
  <2>4. Only(a \o b, tag) = Only(a, tag) \o Only(b, tag)
    BY <2>3, OnlyConcat
  <2>5. Only(a, tag) = SubSeq(v, 1, k - 1) /\ Only(b, tag) = <<v[k]>>
    BY <1>3, <1>5, <2>1, <2>2 DEF Ones
  <2>6. /\ SubSeq(v, 1, k) = Append(SubSeq(v, 1, k - 1), v[k])
        /\ SubSeq(v, 1, k - 1) \in Seq(TypedLine) /\ v[k] \in TypedLine
    BY <2>2, FirstOnes
  <2>7. PICK p, x : p = SubSeq(v, 1, k - 1) /\ x = v[k]
    OBVIOUS
  <2>8. p \o <<x>> = Append(p, x)
    BY <2>6, <2>7, AppendIsConcat
  <2> QED
    BY <1>3, <2>2, <2>3, <2>4, <2>5, <2>6, <2>7, <2>8
<1>6. n \in Y
  <2>1. Climbs(Y, n)
    BY <1>4, <1>5 DEF Climbs
  <2> QED
    BY <2>1, UpTo
<1>7. SubSeq(v, 1, n) = v
  BY <1>1
<1> QED
  BY <1>2, <1>3, <1>6, <1>7

\* Reading blocks gives the blocks.
LEMMA TakenFlat ==
  ASSUME NEW seqs \in Seq(Seq(TypedLine)), Len(seqs) > 0, NEW d \in Int, Blocked(seqs, d),
         NEW front \in Seq(TypedLine), NEW h, NEW q,
         AllTaken(front) = Read(h, << >>, << >>, << >>, 0, q)
  PROVE  AllTaken(front \o FlattenSeq(seqs)) = Read(h, << >>, seqs, Same(Len(seqs), d), 0, q)
<1>1. PICK n \in Nat : n = Len(seqs)
  OBVIOUS
<1>2. PICK f \in [0 .. n -> Seq(TypedLine)] : Joins(seqs, f) /\ FlattenSeq(seqs) = f[n]
  BY <1>1, FlattenRuns
<1>3. PICK Y : Y = {k \in 0 .. n : AllTaken(front \o f[k]) =
                      Read(h, << >>, SubSeq(seqs, 1, k), Same(k, d), 0, q)}
  OBVIOUS
<1>4. 0 \in Y
  <2>1. PICK z : z = << >>
    OBVIOUS
  <2>2. f[0] = z /\ SubSeq(seqs, 1, 0) = z /\ front \o z = front
    BY <1>2, <2>1 DEF Joins
  <2>3. Same(0, d) = z
    BY <2>1 DEF Same
  <2>4. AllTaken(front \o f[0]) = Read(h, << >>, SubSeq(seqs, 1, 0), Same(0, d), 0, q)
    BY <2>1, <2>2, <2>3
  <2> QED
    BY <1>3, <2>4
<1>5. ASSUME NEW k \in 1 .. n, k - 1 \in Y PROVE k \in Y
  <2>1. PICK a, b : a = f[k - 1] /\ b = seqs[k]
    OBVIOUS
  <2>2. k \in 0 .. n /\ k - 1 \in 0 .. n /\ k \in 1 .. Len(seqs)
    BY <1>1
  <2>3. a \in Seq(TypedLine) /\ b \in Seq(TypedLine) /\ f[k] = a \o b
    <3>1. f[k] = f[k - 1] \o seqs[k]
      BY <1>2, <2>2 DEF Joins
    <3>2. f[k - 1] \in Seq(TypedLine)
      BY <1>2, <2>2
    <3>3. seqs[k] \in Seq(TypedLine)
      BY <2>2
    <3> QED
      BY <2>1, <3>1, <3>2, <3>3
  <2>4. PICK e, u : IsBlock(b, e, u) /\ e.value = d
    BY <2>1, <2>2 DEF Blocked
  <2>5. PICK bs, g : bs = SubSeq(seqs, 1, k - 1) /\ g = Same(k - 1, d)
    OBVIOUS
  <2>6. AllTaken(front \o a) = Read(h, << >>, bs, g, 0, q)
    BY <1>3, <1>5, <2>1, <2>5
  <2>7. front \o a \in Seq(TypedLine) /\ (front \o a) \o b = front \o (a \o b)
    <3>1. front \o a \in Seq(TypedLine)
      BY <2>3, ConcatProperties
    <3>2. (front \o a) \o b = front \o (a \o b)
      <4>1. a \in Seq(TypedLine) /\ b \in Seq(TypedLine)
        BY <2>3
      <4> QED
        BY <4>1, JoinTwice
    <3> QED
      BY <3>1, <3>2
  <2>8. AllTaken((front \o a) \o b) = Read(h, << >>, Append(bs, b), Append(g, e.value), 0, q)
    <3>1. PICK m : m = front \o a
      OBVIOUS
    <3>2. m \in Seq(TypedLine) /\ AllTaken(m) = Read(h, << >>, bs, g, 0, q)
      BY <2>6, <2>7, <3>1
    <3>3. AllTaken(m \o b) = Read(h, << >>, Append(bs, b), Append(g, e.value), 0, q)
      BY <2>4, <3>2, TakenBlock
    <3> QED
      BY <3>1, <3>3
  <2>9. Append(bs, b) = SubSeq(seqs, 1, k)
    BY <2>1, <2>2, <2>5, FirstOnes
  <2>10. Append(g, d) = Same(k, d)
    <3>1. g \in Seq(Int) /\ Len(g) = k - 1 /\ \A i \in 1 .. k - 1 : g[i] = d
      BY <2>5 DEF Same
    <3>2. PICK m, s : m = Append(g, d) /\ s = Same(k, d)
      OBVIOUS
    <3>3. s \in Seq(Int) /\ Len(s) = k /\ \A i \in 1 .. k : s[i] = d
      BY <3>2 DEF Same
    <3>4. m \in Seq(Int) /\ Len(m) = k /\ m[k] = d /\ \A i \in 1 .. k - 1 : m[i] = g[i]
      BY <3>1, <3>2
    <3>5. \A i \in 1 .. k : m[i] = s[i]
      <4>1. ASSUME NEW i \in 1 .. k PROVE m[i] = d
        <5>1. CASE i = k
          BY <3>4, <5>1
        <5>2. CASE i # k
          <6>1. i \in 1 .. k - 1
            BY <5>2
          <6> QED
            BY <3>1, <3>4, <6>1
        <5> QED
          BY <5>1, <5>2
      <4> QED
        BY <3>3, <4>1
    <3>6. m = s
      BY <3>3, <3>4, <3>5
    <3> QED
      BY <3>2, <3>6
  <2>11. AllTaken(front \o f[k]) = Read(h, << >>, SubSeq(seqs, 1, k), Same(k, d), 0, q)
    BY <2>3, <2>4, <2>7, <2>8, <2>9, <2>10
  <2> QED
    BY <1>3, <2>2, <2>11
<1>6. n \in Y
  <2>1. Climbs(Y, n)
    BY <1>4, <1>5 DEF Climbs
  <2> QED
    BY <2>1, UpTo
<1>7. SubSeq(seqs, 1, n) = seqs
  BY <1>1
<1> QED
  BY <1>1, <1>2, <1>3, <1>6, <1>7

LEMMA SeqWithin ==
  ASSUME NEW A, NEW S, NEW s \in Seq(A), \A i \in 1 .. Len(s) : s[i] \in S
  PROVE  s \in Seq(S)
<1>1. s \in [1 .. Len(s) -> S] /\ Len(s) \in Nat
  OBVIOUS
<1> QED
  BY <1>1

\* What is changed line by line may be changed before it is put together.
LEMMA ChangedConcat ==
  ASSUME NEW A, NEW G \in [A -> A], NEW a \in Seq(A), NEW b \in Seq(A)
  PROVE  Changed(a \o b, G) = Changed(a, G) \o Changed(b, G)
<1>1. PICK X : X = {s \in Seq(A) : Changed(a \o s, G) = Changed(a, G) \o Changed(s, G)}
  OBVIOUS
<1>2. PICK c : c = Changed(a, G)
  OBVIOUS
<1>3. c \in Seq(A)
  BY <1>2, ChangedFacts
<1>4. << >> \in X
  <2>1. PICK z : z = << >>
    OBVIOUS
  <2>2. z \in Seq(A) /\ a \o z = a /\ c \o z = c /\ Changed(z, G) = z
    BY <1>3, <2>1, ChangedEmpty
  <2> QED
    BY <1>1, <1>2, <2>1, <2>2
<1>5. ASSUME NEW s \in Seq(A), NEW e \in A, s \in X PROVE Append(s, e) \in X
  <2>1. PICK d : d = Changed(s, G)
    OBVIOUS
  <2>2. d \in Seq(A) /\ G[e] \in A
    BY <2>1, ChangedFacts
  <2>3. a \o Append(s, e) = Append(a \o s, e) /\ c \o Append(d, G[e]) = Append(c \o d, G[e])
    BY <1>3, <2>2, SMTT(30)
  <2>4. a \o s \in Seq(A) /\ Append(s, e) \in Seq(A)
    OBVIOUS
  <2>5. Changed(Append(a \o s, e), G) = Append(Changed(a \o s, G), G[e])
    BY <2>4, ChangedAppend, ZenonT(40)
  <2>6. Changed(Append(s, e), G) = Append(d, G[e])
    BY <2>1, ChangedAppend
  <2>7. Changed(a \o s, G) = c \o d
    BY <1>1, <1>2, <1>5, <2>1
  <2>8. Changed(a \o Append(s, e), G) = c \o Changed(Append(s, e), G)
    BY <2>3, <2>5, <2>6, <2>7
  <2> QED
    BY <1>1, <1>2, <2>4, <2>8
<1> QED
  BY <1>1, <1>4, <1>5, SeqInduction DEF Builds

EachChanged(seqs, G) == [i \in 1 .. Len(seqs) |-> Changed(seqs[i], G)]

LEMMA EachChangedFacts ==
  ASSUME NEW A, NEW G \in [A -> A], NEW seqs \in Seq(Seq(A))
  PROVE  /\ EachChanged(seqs, G) \in Seq(Seq(A)) /\ Len(EachChanged(seqs, G)) = Len(seqs)
         /\ \A i \in 1 .. Len(seqs) : EachChanged(seqs, G)[i] = Changed(seqs[i], G)
<1>1. \A i \in 1 .. Len(seqs) : Changed(seqs[i], G) \in Seq(A)
  <2> SUFFICES ASSUME NEW i \in 1 .. Len(seqs) PROVE Changed(seqs[i], G) \in Seq(A)
    OBVIOUS
  <2>1. seqs[i] \in Seq(A)
    OBVIOUS
  <2> QED
    BY <2>1, ChangedFacts
<1>2. Len(seqs) \in Nat
  OBVIOUS
<1> QED
  BY <1>1, <1>2 DEF EachChanged

LEMMA FlattenChanged ==
  ASSUME NEW A, NEW G \in [A -> A], NEW seqs \in Seq(Seq(A)), Len(seqs) > 0
  PROVE  Changed(FlattenSeq(seqs), G) = FlattenSeq(EachChanged(seqs, G))
<1>1. PICK n \in Nat : n = Len(seqs)
  OBVIOUS
<1>2. PICK more : more = EachChanged(seqs, G)
  OBVIOUS
<1>3. more \in Seq(Seq(A)) /\ Len(more) = n /\ n > 0
      /\ \A i \in 1 .. n : more[i] = Changed(seqs[i], G)
  BY <1>1, <1>2, EachChangedFacts
<1>4. PICK f \in [0 .. n -> Seq(A)] : Joins(seqs, f) /\ FlattenSeq(seqs) = f[n]
  BY <1>1, FlattenRuns
<1>5. PICK g \in [0 .. n -> Seq(A)] : Joins(more, g) /\ FlattenSeq(more) = g[n]
  BY <1>3, FlattenRuns
<1>6. PICK Y : Y = {k \in 0 .. n : Changed(f[k], G) = g[k]}
  OBVIOUS
<1>7. 0 \in Y
  <2>1. f[0] = << >> /\ g[0] = << >>
    BY <1>4, <1>5 DEF Joins
  <2> QED
    BY <1>6, <2>1, ChangedEmpty
<1>8. ASSUME NEW k \in 1 .. n, k - 1 \in Y PROVE k \in Y
  <2>1. PICK a, b : a = f[k - 1] /\ b = seqs[k]
    OBVIOUS
  <2>2. k \in 0 .. n /\ k - 1 \in 0 .. n /\ k \in 1 .. Len(seqs) /\ k \in 1 .. Len(more)
    BY <1>1, <1>3
  <2>3. f[k] = a \o b /\ g[k] = g[k - 1] \o more[k]
    BY <1>4, <1>5, <2>1, <2>2 DEF Joins
  <2>4. a \in Seq(A)
    BY <1>4, <2>1, <2>2
  <2>5. b \in Seq(A)
    BY <2>1, <2>2
  <2>6. Changed(a \o b, G) = Changed(a, G) \o Changed(b, G)
    BY <2>4, <2>5, ChangedConcat
  <2>7. Changed(a, G) = g[k - 1] /\ Changed(b, G) = more[k]
    BY <1>3, <1>6, <1>8, <2>1
  <2> QED
    BY <1>6, <2>2, <2>3, <2>6, <2>7
<1>9. n \in Y
  <2>1. Climbs(Y, n)
    BY <1>7, <1>8 DEF Climbs
  <2> QED
    BY <2>1, UpTo
<1> QED
  BY <1>2, <1>4, <1>5, <1>6, <1>9

(***************************************************************************)
(* What a rolling playlist lists.                                          *)
(***************************************************************************)
Counted(seqs, m) ==
  \A i \in 1 .. Len(seqs) : \E e, u : IsBlock(seqs[i], e, u) /\ u.value = m + i - 1

LEMMA FlatFacts ==
  ASSUME NEW S, S \subseteq MediaLines, NEW seqs \in Seq(Seq(S)), Len(seqs) > 0,
         NEW m \in Int, Counted(seqs, m)
  PROVE  /\ FlattenSeq(seqs) \in Seq(S) /\ FlattenSeq(seqs) \in Seq(TypedLine)
         /\ Len(Only(FlattenSeq(seqs), "uri")) = Len(seqs)
         /\ \A i \in 1 .. Len(seqs) : Only(FlattenSeq(seqs), "uri")[i].value = m + i - 1
         /\ "extinf" \in Tags(FlattenSeq(seqs))
         /\ \A tag : tag \notin {"key", "extinf", "uri"} => Only(FlattenSeq(seqs), tag) = << >>
<1>1. PICK n \in Nat : n = Len(seqs) /\ n > 0
  OBVIOUS
<1>2. PICK flat : flat = FlattenSeq(seqs)
  OBVIOUS
<1>3. flat \in Seq(S)
  BY <1>2, FlattenPlaces
<1>4. S \subseteq TypedLine /\ \A x \in S : x.tag \in {"key", "extinf", "uri"}
  BY DEF MediaLines
<1>5. flat \in Seq(TypedLine)
  <2>1. \A i \in 1 .. Len(flat) : flat[i] \in TypedLine
    BY <1>3, <1>4
  <2> QED
    BY <1>3, <2>1, SeqWithin
<1>6. seqs \in Seq(Seq(TypedLine))
  <2>1. ASSUME NEW i \in 1 .. Len(seqs) PROVE seqs[i] \in Seq(TypedLine)
    <3>1. seqs[i] \in Seq(S)
      OBVIOUS
    <3>2. \A j \in 1 .. Len(seqs[i]) : seqs[i][j] \in TypedLine
      BY <1>4, <3>1
    <3> QED
      BY <3>1, <3>2, SeqWithin
  <2> QED
    BY <2>1, SeqWithin
<1>7. PICK us : us = [i \in 1 .. n |-> CHOOSE u : \E e : IsBlock(seqs[i], e, u) /\ u.value = m + i - 1]
  OBVIOUS
<1>16. PICK es : es = [i \in 1 .. n |-> CHOOSE e : IsBlock(seqs[i], e, us[i])]
  OBVIOUS
<1>8. ASSUME NEW i \in 1 .. n
      PROVE  IsBlock(seqs[i], es[i], us[i]) /\ us[i].value = m + i - 1
  <2>1. \E u : \E e : IsBlock(seqs[i], e, u) /\ u.value = m + i - 1
    BY <1>1 DEF Counted
  <2>2. \E e : IsBlock(seqs[i], e, us[i]) /\ us[i].value = m + i - 1
    BY <1>7, <2>1
  <2>3. IsBlock(seqs[i], es[i], us[i])
    BY <1>16, <2>2
  <2> QED
    BY <2>2, <2>3
<1>9. \A i \in 1 .. n : es[i] \in TypedLine /\ us[i] \in TypedLine
  BY <1>8 DEF IsBlock, MediaLines
<1>10. us \in Seq(TypedLine) /\ Len(us) = n /\ es \in Seq(TypedLine) /\ Len(es) = n
  <2>1. us \in [1 .. n -> TypedLine]
    BY <1>7, <1>9
  <2>2. es \in [1 .. n -> TypedLine]
    BY <1>9, <1>16
  <2> QED
    BY <2>1, <2>2
<1>11. Ones(seqs, "uri", us) /\ Ones(seqs, "extinf", es)
  <2>1. ASSUME NEW i \in 1 .. n
        PROVE  Only(seqs[i], "uri") = <<us[i]>> /\ Only(seqs[i], "extinf") = <<es[i]>>
    BY <1>8, BlockOnly
  <2> QED
    BY <1>1, <2>1 DEF Ones
<1>12. Only(flat, "uri") = us
  BY <1>1, <1>2, <1>6, <1>10, <1>11, FlatOnly
<1>13. Only(flat, "extinf") = es
  BY <1>1, <1>2, <1>6, <1>10, <1>11, FlatOnly
<1>14. "extinf" \in Tags(flat)
  <2>1. 1 \in 1 .. Len(Only(flat, "extinf"))
    BY <1>1, <1>10, <1>13
  <2>2. PICK o : o = Only(flat, "extinf")
    OBVIOUS
  <2>3. \A i \in 1 .. Len(o) : o[i] \in ToSet(flat) /\ o[i].tag = "extinf"
    BY <1>5, <2>2, OnlyFacts
  <2>4. o[1] \in ToSet(flat) /\ o[1].tag = "extinf"
    BY <2>1, <2>2, <2>3
  <2> QED
    BY <2>4 DEF Tags
<1>15. ASSUME NEW tag, tag \notin {"key", "extinf", "uri"} PROVE Only(flat, tag) = << >>
  <2>1. PICK o : o = Only(flat, tag)
    OBVIOUS
  <2>2. o \in Seq(TypedLine) /\ \A i \in 1 .. Len(o) : o[i] \in ToSet(flat) /\ o[i].tag = tag
    BY <1>5, <2>1, OnlyFacts
  <2>3. ToSet(flat) \subseteq S
    BY <1>3, InList
  <2>4. ~(1 \in 1 .. Len(o))
    BY <1>4, <1>15, <2>2, <2>3
  <2>5. o = << >>
    BY <2>2, <2>4
  <2> QED
    BY <2>1, <2>5
<1> QED
  BY <1>1, <1>2, <1>3, <1>5, <1>8, <1>10, <1>12, <1>14, <1>15

\* The lines from a segment on, and those of its blocks as they are rewritten.
RawBlocks(m) == [i \in 1 .. UpstreamKept |-> Block(m + i - 1, m)]
RollLines(m) == <<Line("head", 0), Line("seq", m)>> \o FlattenSeq(RawBlocks(m))
UpMedia == {x \in MediaLines : x.by = "upstream"}
Cast(m, G) == EachChanged(RawBlocks(m), G)

LEMMA RawFacts ==
  ASSUME NEW m \in Nat
  PROVE  /\ RawBlocks(m) \in Seq(Seq(UpMedia)) /\ RawBlocks(m) \in Seq(Seq(TypedLine))
         /\ Len(RawBlocks(m)) = UpstreamKept /\ UpstreamKept \in Nat /\ UpstreamKept > 0
         /\ \A i \in 1 .. UpstreamKept :
              IsBlock(RawBlocks(m)[i], Line("extinf", Duration), Line("uri", m + i - 1))
         /\ Counted(RawBlocks(m), m)
<1>1. UpstreamKept \in Nat /\ UpstreamKept > 0
  BY LiveAssumption
<1>2. ASSUME NEW i \in 1 .. UpstreamKept
      PROVE  /\ IsBlock(Block(m + i - 1, m), Line("extinf", Duration), Line("uri", m + i - 1))
             /\ Block(m + i - 1, m) \in Seq(UpMedia) /\ Block(m + i - 1, m) \in Seq(TypedLine)
             /\ Line("uri", m + i - 1).value = m + i - 1
  <2>1. m + i - 1 \in Nat
    BY <1>1
  <2>2. PICK n, b : n = m + i - 1 /\ b = Block(n, m)
    OBVIOUS
  <2>3. /\ IsBlock(b, Line("extinf", Duration), Line("uri", n))
        /\ \A j \in 1 .. Len(b) : b[j].by = "upstream"
    BY <2>1, <2>2, BlockIs
  <2>4. b \in Seq(TypedLine) /\ b \in Seq(MediaLines)
    BY <2>3, BlockTyped
  <2>5. \A j \in 1 .. Len(b) : b[j] \in UpMedia
    BY <2>3, <2>4 DEF UpMedia
  <2>6. b \in Seq(UpMedia)
    BY <2>4, <2>5, SeqWithin
  <2>7. Line("uri", n).value = n
    BY DEF Line
  <2> QED
    BY <2>2, <2>3, <2>4, <2>6, <2>7
<1>3. PICK r : r = RawBlocks(m)
  OBVIOUS
<1>4. r = [i \in 1 .. UpstreamKept |-> r[i]] /\ \A i \in 1 .. UpstreamKept : r[i] = Block(m + i - 1, m)
  BY <1>3 DEF RawBlocks
<1>5. r \in [1 .. UpstreamKept -> Seq(UpMedia)] /\ r \in [1 .. UpstreamKept -> Seq(TypedLine)]
  BY <1>2, <1>4
<1>6. r \in Seq(Seq(UpMedia)) /\ r \in Seq(Seq(TypedLine)) /\ Len(r) = UpstreamKept
  BY <1>1, <1>5
<1>7. \A i \in 1 .. UpstreamKept :
        IsBlock(r[i], Line("extinf", Duration), Line("uri", m + i - 1))
  BY <1>2, <1>4
<1>8. Counted(r, m)
  BY <1>2, <1>6, <1>7 DEF Counted
<1> QED
  BY <1>1, <1>3, <1>6, <1>7, <1>8

LEMMA CastFacts ==
  ASSUME NEW m \in Nat, NEW G, Keeps(G)
  PROVE  /\ Cast(m, G) \in Seq(Seq(TypedLine)) /\ Len(Cast(m, G)) = UpstreamKept
         /\ Blocked(Cast(m, G), Duration)
         /\ \A i \in 1 .. UpstreamKept :
              /\ Cast(m, G)[i] \in Seq({G[x] : x \in UpMedia})
              /\ \E e, u : IsBlock(Cast(m, G)[i], e, u) /\ u.value = m + i - 1
<1>1. PICK r, c : r = RawBlocks(m) /\ c = Cast(m, G)
  OBVIOUS
<1>2. G \in [TypedLine -> TypedLine]
  BY DEF Keeps
<1>3. /\ r \in Seq(Seq(UpMedia)) /\ r \in Seq(Seq(TypedLine)) /\ Len(r) = UpstreamKept
      /\ \A i \in 1 .. UpstreamKept :
           IsBlock(r[i], Line("extinf", Duration), Line("uri", m + i - 1))
  BY <1>1, RawFacts
<1>4. c \in Seq(Seq(TypedLine)) /\ Len(c) = UpstreamKept
      /\ \A i \in 1 .. UpstreamKept : c[i] = Changed(r[i], G)
  BY <1>1, <1>2, <1>3, EachChangedFacts DEF Cast
<1>5. ASSUME NEW i \in 1 .. UpstreamKept
      PROVE  /\ c[i] \in Seq({G[x] : x \in UpMedia})
             /\ \E e, u : IsBlock(c[i], e, u) /\ e.value = Duration /\ u.value = m + i - 1
  <2>1. PICK b, e, u : b = r[i] /\ e = Line("extinf", Duration) /\ u = Line("uri", m + i - 1)
    OBVIOUS
  <2>2. IsBlock(b, e, u) /\ b \in Seq(TypedLine) /\ b \in Seq(UpMedia)
    <3>1. i \in 1 .. Len(r)
      BY <1>3
    <3>2. r[i] \in Seq(TypedLine)
      BY <1>3, <3>1
    <3>3. r[i] \in Seq(UpMedia)
      BY <1>3, <3>1
    <3> QED
      BY <1>3, <2>1, <3>2, <3>3
  <2>3. IsBlock(Changed(b, G), G[e], G[u])
    BY <2>2, BlockChanged
  <2>4. e \in TypedLine /\ u \in TypedLine /\ e.value = Duration /\ u.value = m + i - 1
    <3>1. e.value = Duration /\ u.value = m + i - 1
      BY <2>1 DEF Line
    <3>2. e \in TypedLine /\ u \in TypedLine
      BY <2>2 DEF IsBlock, MediaLines
    <3> QED
      BY <3>1, <3>2
  <2>5. G[e].value = Duration /\ G[u].value = m + i - 1
    BY <2>4 DEF Keeps
  <2>6. PICK d : d = Changed(b, G)
    OBVIOUS
  <2>7. d \in Seq(TypedLine) /\ Len(d) = Len(b) /\ \A j \in 1 .. Len(b) : d[j] = G[b[j]]
    BY <1>2, <2>2, <2>6, ChangedFacts
  <2>8. \A j \in 1 .. Len(d) : d[j] \in {G[x] : x \in UpMedia}
    BY <2>2, <2>7
  <2>9. d \in Seq({G[x] : x \in UpMedia})
    BY <2>7, <2>8, SeqWithin
  <2> QED
    BY <1>4, <2>1, <2>3, <2>5, <2>6, <2>9
<1>6. Blocked(c, Duration)
  BY <1>4, <1>5 DEF Blocked
<1> QED
  BY <1>1, <1>4, <1>5, <1>6

\* What is read of it when it is rewritten.
LEMMA RollRead ==
  ASSUME NEW m \in Nat, NEW G, Keeps(G)
  PROVE  /\ RollLines(m) \in Seq(TypedLine)
         /\ AllTaken(Changed(RollLines(m), G)) =
              Read(<<G[Line("head", 0)]>>, << >>, Cast(m, G), Same(UpstreamKept, Duration), 0, m)
<1>1. PICK h, s, r, flat : /\ h = Line("head", 0) /\ s = Line("seq", m) /\ r = RawBlocks(m)
                           /\ flat = FlattenSeq(r)
  OBVIOUS
<1>2. G \in [TypedLine -> TypedLine]
  BY DEF Keeps
<1>3. h \in TypedLine /\ h.tag = "head" /\ s \in TypedLine /\ s.tag = "seq" /\ s.value = m
  <2>1. "head" \in Tag /\ "seq" \in Tag
    BY DEF Tag
  <2> QED
    BY <1>1, <2>1, LineTyped
<1>4. r \in Seq(Seq(TypedLine)) /\ Len(r) = UpstreamKept /\ UpstreamKept > 0 /\ UpstreamKept \in Nat
  BY <1>1, RawFacts
<1>5. flat \in Seq(TypedLine)
  BY <1>1, <1>4, FlattenPlaces
<1>6. <<h, s>> \in Seq(TypedLine) /\ <<h, s>> \o flat \in Seq(TypedLine)
  <2>1. <<h, s>> \in Seq(TypedLine)
    BY <1>3
  <2> QED
    BY <1>5, <2>1, ConcatProperties
<1>7. RollLines(m) = <<h, s>> \o flat
  BY <1>1 DEF RollLines
<1>8. PICK gh, gs : gh = G[h] /\ gs = G[s]
  OBVIOUS
<1>9. gh \in TypedLine /\ gh.tag = "head" /\ gs \in TypedLine /\ gs.tag = "seq" /\ gs.value = m
  BY <1>3, <1>8 DEF Keeps
<1>10. Changed(<<h, s>>, G) = <<gh, gs>>
  BY <1>8 DEF Changed
<1>11. Changed(<<h, s>> \o flat, G) = <<gh, gs>> \o FlattenSeq(Cast(m, G))
  <2>1. PICK p : p = <<h, s>>
    OBVIOUS
  <2>2. Changed(p \o flat, G) = Changed(p, G) \o Changed(flat, G)
    BY <1>2, <1>5, <1>6, <2>1, ChangedConcat
  <2>3. Changed(flat, G) = FlattenSeq(Cast(m, G))
    BY <1>1, <1>2, <1>4, FlattenChanged DEF Cast
  <2> QED
    BY <1>10, <2>1, <2>2, <2>3
<1>12. AllTaken(<<gh, gs>>) = Read(<<gh>>, << >>, << >>, << >>, 0, m)
  <2>1. PICK z : z = << >>
    OBVIOUS
  <2>2. z \in Seq(TypedLine) /\ Append(z, gh) = <<gh>>
    BY <1>9, <2>1, ShortLists
  <2>3. <<gh>> \in Seq(TypedLine) /\ Append(<<gh>>, gs) = <<gh, gs>>
    BY <1>9, ShortLists
  <2>4. AllTaken(z) = Read(z, z, z, z, 0, 0)
    BY <2>1, TakenEmpty DEF Unread, Read
  <2>5. AllTaken(Append(z, gh)) = TakeLine(AllTaken(z), gh)
    BY <1>9, <2>2, TakenAppend
  <2>6. TakeLine(Read(z, z, z, z, 0, 0), gh) = Read(Append(z, gh), z, z, z, 0, 0)
    <3>1. gh.tag \notin {"seq", "end", "uri", "extinf"} /\ gh.tag \notin InBlock
      BY <1>9 DEF InBlock
    <3>2. TakeLine(Read(z, z, z, z, 0, 0), gh) =
            IF z = << >> /\ gh.tag \notin InBlock THEN Read(Append(z, gh), z, z, z, 0, 0)
            ELSE Read(z, Append(z, gh), z, z, 0, 0)
      BY <3>1, TakeRead
    <3> QED
      BY <2>1, <3>1, <3>2
  <2>7. AllTaken(Append(<<gh>>, gs)) = TakeLine(AllTaken(<<gh>>), gs)
    BY <1>9, <2>3, TakenAppend
  <2>8. TakeLine(Read(<<gh>>, z, z, z, 0, 0), gs) = Read(<<gh>>, z, z, z, 0, gs.value)
    BY <1>9, TakeRead
  <2> QED
    BY <1>9, <2>1, <2>2, <2>3, <2>4, <2>5, <2>6, <2>7, <2>8
<1>13. AllTaken(<<gh, gs>> \o FlattenSeq(Cast(m, G))) =
         Read(<<gh>>, << >>, Cast(m, G), Same(UpstreamKept, Duration), 0, m)
  <2>1. PICK c, p : c = Cast(m, G) /\ p = <<gh, gs>>
    OBVIOUS
  <2>2. c \in Seq(Seq(TypedLine)) /\ Len(c) = UpstreamKept /\ Blocked(c, Duration)
    BY <2>1, CastFacts
  <2>3. p \in Seq(TypedLine) /\ AllTaken(p) = Read(<<gh>>, << >>, << >>, << >>, 0, m)
    BY <1>9, <1>12, <2>1, ShortLists
  <2>4. Duration \in Int
    BY LiveAssumption
  <2>5. AllTaken(p \o FlattenSeq(c)) = Read(<<gh>>, << >>, c, Same(Len(c), Duration), 0, m)
    <3>1. PICK a : a = <<gh>>
      OBVIOUS
    <3>2. AllTaken(p) = Read(a, << >>, << >>, << >>, 0, m) /\ Len(c) > 0
      BY <1>4, <2>2, <2>3, <3>1
    <3>3. AllTaken(p \o FlattenSeq(c)) = Read(a, << >>, c, Same(Len(c), Duration), 0, m)
      BY <2>2, <2>3, <2>4, <3>2, TakenFlat
    <3> QED
      BY <3>1, <3>3
  <2> QED
    BY <2>1, <2>2, <2>5
<1> QED
  BY <1>1, <1>6, <1>7, <1>8, <1>11, <1>13

Fore(front) == \A x \in ToSet(front) : x.tag \notin {"key", "extinf", "uri"}

Media(front, seqs) == front \o FlattenSeq(seqs)

MediaSaid(out, front, seqs, S, m) ==
  /\ out \in Seq(TypedLine) /\ ToSet(out) \subseteq ToSet(front) \cup S
  /\ Values(out, "uri") = [i \in 1 .. Len(seqs) |-> m + i - 1]
  /\ "extinf" \in Tags(out)
  /\ \A tag : tag \notin {"key", "extinf", "uri"} => Only(out, tag) = Only(front, tag)

LEMMA MediaFacts ==
  ASSUME NEW S, S \subseteq MediaLines, NEW seqs \in Seq(Seq(S)), Len(seqs) > 0,
         NEW m \in Int, Counted(seqs, m), NEW front \in Seq(TypedLine),
         Fore(front), NEW out, out = Media(front, seqs)
  PROVE  MediaSaid(out, front, seqs, S, m)
<1>1. PICK flat : flat = FlattenSeq(seqs)
  OBVIOUS
<1>2. /\ flat \in Seq(S) /\ flat \in Seq(TypedLine) /\ Len(Only(flat, "uri")) = Len(seqs)
      /\ \A i \in 1 .. Len(seqs) : Only(flat, "uri")[i].value = m + i - 1
      /\ "extinf" \in Tags(flat)
      /\ \A tag : tag \notin {"key", "extinf", "uri"} => Only(flat, tag) = << >>
  BY <1>1, FlatFacts
<1>3. out \in Seq(TypedLine) /\ Len(out) = Len(front) + Len(flat)
      /\ \A i \in 1 .. Len(front) + Len(flat) : out[i] = IF i <= Len(front) THEN front[i] ELSE flat[i - Len(front)]
  BY <1>1, <1>2, ConcatProperties DEF Media
<1>13. out \in Seq(TypedLine) /\ front \in Seq(TypedLine)
  BY <1>3
<1>14. flat \in Seq(TypedLine) /\ flat \in Seq(S)
  BY <1>2
<1>4. /\ Len(front) \in Nat /\ Len(flat) \in Nat
      /\ ToSet(front) = {front[i] : i \in 1 .. Len(front)}
      /\ ToSet(flat) = {flat[i] : i \in 1 .. Len(flat)} /\ ToSet(flat) \subseteq S
      /\ ToSet(out) = {out[i] : i \in 1 .. Len(out)}
  <2>1. Len(front) \in Nat /\ ToSet(front) = {front[i] : i \in 1 .. Len(front)}
    BY InList
  <2>2. ToSet(out) = {out[i] : i \in 1 .. Len(out)}
    BY <1>13, InList
  <2>3. Len(flat) \in Nat /\ ToSet(flat) = {flat[i] : i \in 1 .. Len(flat)} /\ ToSet(flat) \subseteq S
    BY <1>14, InList
  <2> QED
    BY <2>1, <2>2, <2>3
<1>5. ToSet(out) \subseteq ToSet(front) \cup S
  <2> SUFFICES ASSUME NEW x \in ToSet(out) PROVE x \in ToSet(front) \cup S
    OBVIOUS
  <2>1. PICK i \in 1 .. Len(front) + Len(flat) : x = out[i]
    BY <1>3, <1>4
  <2>2. CASE i <= Len(front)
    <3>1. i \in 1 .. Len(front) /\ x = front[i]
      BY <1>3, <1>4, <2>1, <2>2
    <3> QED
      BY <1>4, <3>1
  <2>3. CASE i > Len(front)
    <3>1. i - Len(front) \in 1 .. Len(flat) /\ x = flat[i - Len(front)]
      BY <1>3, <1>4, <2>1, <2>3
    <3>2. x \in ToSet(flat)
      BY <1>4, <3>1
    <3> QED
      BY <1>4, <3>2
  <2> QED
    BY <1>4, <2>2, <2>3
<1>6. \A tag : Only(out, tag) = Only(front, tag) \o Only(flat, tag)
  BY <1>1, <1>2, OnlyConcat DEF Media
<1>7. ASSUME NEW tag, tag \in {"key", "extinf", "uri"} PROVE Only(front, tag) = << >>
  <2>1. PICK o : o = Only(front, tag)
    OBVIOUS
  <2>2. o \in Seq(TypedLine) /\ \A i \in 1 .. Len(o) : o[i] \in ToSet(front) /\ o[i].tag = tag
    BY <2>1, OnlyFacts
  <2>3. ~(1 \in 1 .. Len(o))
    BY <1>7, <2>2 DEF Fore
  <2>4. o = << >>
    BY <2>2, <2>3
  <2> QED
    BY <2>1, <2>4
<1>8. ASSUME NEW tag PROVE Only(front, tag) \in Seq(TypedLine) /\ Only(flat, tag) \in Seq(TypedLine)
  BY <1>2, OnlyFacts
<1>9. ASSUME NEW tag, tag \in {"key", "extinf", "uri"} PROVE Only(out, tag) = Only(flat, tag)
  <2>1. PICK o : o = Only(flat, tag)
    OBVIOUS
  <2>2. o \in Seq(TypedLine) /\ << >> \o o = o
    BY <1>8, <2>1
  <2> QED
    BY <1>6, <1>7, <1>9, <2>1, <2>2
<1>10. ASSUME NEW tag, tag \notin {"key", "extinf", "uri"} PROVE Only(out, tag) = Only(front, tag)
  <2>1. PICK o : o = Only(front, tag)
    OBVIOUS
  <2>2. o \in Seq(TypedLine) /\ o \o << >> = o
    BY <1>8, <2>1
  <2>3. Only(flat, tag) = << >>
    BY <1>2, <1>10
  <2> QED
    BY <1>6, <2>1, <2>2, <2>3
<1>11. Values(out, "uri") = [i \in 1 .. Len(seqs) |-> m + i - 1]
  <2>1. Values(out, "uri") = [i \in 1 .. Len(Only(out, "uri")) |-> Only(out, "uri")[i].value]
    BY <1>13, OnlyFacts
  <2>2. Only(out, "uri") = Only(flat, "uri")
    BY <1>9
  <2> QED
    BY <1>2, <2>1, <2>2
<1>12. "extinf" \in Tags(out)
  <2>1. PICK x \in ToSet(flat) : x.tag = "extinf"
    BY <1>2 DEF Tags
  <2>2. Len(Only(flat, "extinf")) > 0 /\ Len(Only(flat, "extinf")) \in Nat
    BY <1>2, <2>1, OnlyFacts
  <2>3. 1 \in 1 .. Len(Only(out, "extinf"))
    BY <1>9, <2>2
  <2>4. Only(out, "extinf")[1] \in ToSet(out) /\ Only(out, "extinf")[1].tag = "extinf"
    BY <1>13, <2>3, OnlyFacts
  <2> QED
    BY <2>4 DEF Tags
<1> QED
  BY <1>3, <1>5, <1>10, <1>11, <1>12 DEF MediaSaid

LEMMA NotAmong ==
  ASSUME NEW s \in Seq(TypedLine), NEW tag, Only(s, tag) = << >>
  PROVE  tag \notin Tags(s)
<1>1. Len(Only(s, tag)) = 0
  OBVIOUS
<1>2. \A x \in ToSet(s) : x.tag = tag => Len(Only(s, tag)) > 0
  BY OnlyFacts
<1> QED
  BY <1>1, <1>2 DEF Tags

\* What the upstream says.
LEMMA RollSaid ==
  ASSUME NEW m \in Nat
  PROVE  /\ RollLines(m) \in Seq(TypedLine) /\ ToSet(RollLines(m)) \subseteq {x \in TypedLine : x.by = "upstream"}
         /\ Values(RollLines(m), "uri") = [i \in 1 .. UpstreamKept |-> m + i - 1]
         /\ "extinf" \in Tags(RollLines(m)) /\ "streaminf" \notin Tags(RollLines(m))
         /\ "end" \notin Tags(RollLines(m))
<1>1. PICK h, s, r, front, out : /\ h = Line("head", 0) /\ s = Line("seq", m) /\ r = RawBlocks(m)
                                 /\ front = <<h, s>> /\ out = RollLines(m)
  OBVIOUS
<1>2. /\ h \in TypedLine /\ h.tag = "head" /\ h.by = "upstream"
      /\ s \in TypedLine /\ s.tag = "seq" /\ s.by = "upstream"
  <2>1. "head" \in Tag /\ "seq" \in Tag
    BY DEF Tag
  <2> QED
    BY <1>1, <2>1, LineTyped
<1>3. front \in Seq(TypedLine) /\ ToSet(front) = {h, s} /\ out = Media(front, r)
  <2>1. front \in Seq(TypedLine) /\ Len(front) = 2 /\ front[1] = h /\ front[2] = s
    BY <1>1, <1>2
  <2>2. ToSet(front) = {front[i] : i \in 1 .. 2}
    BY <2>1, InList
  <2>3. out = Media(front, r)
    BY <1>1 DEF RollLines, Media
  <2> QED
    BY <2>1, <2>2, <2>3
<1>4. /\ r \in Seq(Seq(UpMedia)) /\ Len(r) = UpstreamKept /\ UpstreamKept > 0 /\ Counted(r, m)
      /\ UpMedia \subseteq MediaLines
  BY <1>1, RawFacts DEF UpMedia
<1>5. Fore(front)
  BY <1>2, <1>3 DEF Fore
<1>6. m \in Int
  OBVIOUS
<1>7. /\ out \in Seq(TypedLine) /\ ToSet(out) \subseteq ToSet(front) \cup UpMedia
      /\ Values(out, "uri") = [i \in 1 .. Len(r) |-> m + i - 1]
      /\ "extinf" \in Tags(out)
      /\ \A tag : tag \notin {"key", "extinf", "uri"} => Only(out, tag) = Only(front, tag)
  <2>1. front \in Seq(TypedLine) /\ Len(r) > 0
    BY <1>3, <1>4
  <2>2. r \in Seq(Seq(UpMedia)) /\ Counted(r, m) /\ UpMedia \subseteq MediaLines
    BY <1>4
  <2>3. out = Media(front, r)
    BY <1>3
  <2>4. MediaSaid(out, front, r, UpMedia, m)
    BY <1>5, <1>6, <2>1, <2>2, <2>3, MediaFacts
  <2> QED
    BY <2>4 DEF MediaSaid
<1>8. ASSUME NEW tag, tag \notin {"key", "extinf", "uri", "head", "seq"} PROVE tag \notin Tags(out)
  <2>1. Only(<<h>>, tag) = << >> /\ Only(<<s>>, tag) = << >>
    BY <1>2, <1>8, OnlyOne
  <2>2. Only(front, tag) = << >> \o << >>
    BY <1>1, <1>2, <2>1, OnlyPair, SMTT(30)
  <2>3. Only(out, tag) = << >>
    BY <1>7, <1>8, <2>2
  <2> QED
    BY <1>7, <2>3, NotAmong
<1>9. ToSet(out) \subseteq {x \in TypedLine : x.by = "upstream"}
  BY <1>2, <1>3, <1>7 DEF UpMedia, MediaLines
<1> QED
  BY <1>1, <1>4, <1>7, <1>8, <1>9

\* What is made of it: the blocks after those dropped, and before them what
\* says where they are.
Kept(m, G, d) == SubSeq(Cast(m, G), d + 1, UpstreamKept)
Starts(at) == IF at >= StartOffsetMin THEN <<Line("start", at)>> ELSE << >>
Before(h, at, n) == (<<h>> \o Starts(at)) \o <<Line("seq", n)>>

LEMMA KeptFacts ==
  ASSUME NEW m \in Nat, NEW G, Keeps(G), NEW d \in 0 .. UpstreamKept - 1
  PROVE  /\ Kept(m, G, d) \in Seq(Seq({G[x] : x \in UpMedia}))
         /\ Len(Kept(m, G, d)) = UpstreamKept - d /\ Counted(Kept(m, G, d), m + d)
<1>1. PICK c, k, n : c = Cast(m, G) /\ k = Kept(m, G, d) /\ n = UpstreamKept
  OBVIOUS
<1>2. n \in Nat /\ n > 0 /\ d \in 0 .. n - 1
  BY <1>1, LiveAssumption
<1>3. c \in Seq(Seq(TypedLine)) /\ Len(c) = n
  BY <1>1, CastFacts
<1>4. ASSUME NEW i \in 1 .. n
      PROVE  /\ c[i] \in Seq({G[x] : x \in UpMedia})
             /\ \E e, u : IsBlock(c[i], e, u) /\ u.value = m + i - 1
  BY <1>1, <1>4, CastFacts
<1>5. k \in Seq(Seq(TypedLine)) /\ Len(k) = n - d /\ \A i \in 1 .. n - d : k[i] = c[d + i]
  BY <1>1, <1>2, <1>3, SMTT(30) DEF Kept
<1>6. ASSUME NEW i \in 1 .. n - d
      PROVE  /\ k[i] \in Seq({G[x] : x \in UpMedia})
             /\ \E e, u : IsBlock(k[i], e, u) /\ u.value = (m + d) + i - 1
  <2>1. d + i \in 1 .. n /\ m + (d + i) - 1 = (m + d) + i - 1 /\ k[i] = c[d + i]
    BY <1>2, <1>5
  <2>2. PICK e, u : IsBlock(c[d + i], e, u) /\ u.value = m + (d + i) - 1
    BY <1>4, <2>1
  <2>3. c[d + i] \in Seq({G[x] : x \in UpMedia})
    BY <1>4, <2>1
  <2> QED
    BY <2>1, <2>2, <2>3
<1>7. Counted(k, m + d)
  BY <1>5, <1>6 DEF Counted
<1>8. \A i \in 1 .. Len(k) : k[i] \in Seq({G[x] : x \in UpMedia})
  BY <1>5, <1>6
<1>9. k \in Seq(Seq({G[x] : x \in UpMedia}))
  BY <1>5, <1>8, SeqWithin
<1> QED
  BY <1>1, <1>5, <1>7, <1>9

LEMMA BeforeFacts ==
  ASSUME NEW h \in TypedLine, h.tag = "head", NEW at \in Int, NEW n \in Int
  PROVE  /\ Before(h, at, n) \in Seq(TypedLine) /\ Fore(Before(h, at, n))
         /\ ToSet(Before(h, at, n)) \subseteq {h, Line("start", at), Line("seq", n)}
         /\ Only(Before(h, at, n), "seq") = <<Line("seq", n)>>
         /\ \A x \in ToSet(Before(h, at, n)) : x.tag = "start" => x = Line("start", at) /\ at >= StartOffsetMin
<1>1. PICK s, t, z : s = Line("seq", n) /\ t = Line("start", at) /\ z = << >>
  OBVIOUS
<1>2. s \in TypedLine /\ s.tag = "seq" /\ t \in TypedLine /\ t.tag = "start"
  <2>1. "start" \in Tag /\ "seq" \in Tag
    BY DEF Tag
  <2> QED
    BY <1>1, <2>1, LineTyped
<1>3. PICK b : b = Before(h, at, n)
  OBVIOUS
<1>4. /\ <<h>> \in Seq(TypedLine) /\ <<s>> \in Seq(TypedLine) /\ <<t>> \in Seq(TypedLine)
      /\ <<h>> \o z = <<h>> /\ <<h>> \o <<t>> = <<h, t>> /\ <<h, t>> \in Seq(TypedLine)
      /\ <<h>> \o <<s>> = <<h, s>> /\ <<h, s>> \in Seq(TypedLine)
  BY <1>1, <1>2, ShortLists
<1>5. CASE at >= StartOffsetMin
  <2>1. PICK p : p = <<h, t>>
    OBVIOUS
  <2>2. p \in Seq(TypedLine) /\ b = p \o <<s>>
    BY <1>1, <1>3, <1>4, <1>5, <2>1 DEF Before, Starts
  <2>3. p \o <<s>> \in Seq(TypedLine) /\ p \o <<s>> = Append(p, s)
    BY <1>2, <1>4, <2>2, AppendIsConcat, ConcatProperties
  <2>4. Len(p) = 2 /\ p[1] = h /\ p[2] = t
    BY <2>1
  <2>5. ToSet(p) = {p[i] : i \in 1 .. Len(p)}
    BY <2>2, InList
  <2>6. ToSet(p) = {h, t}
    BY <2>4, <2>5
  <2>7. ToSet(Append(p, s)) = ToSet(p) \cup {s}
    BY <1>2, <2>2, Appended
  <2>8. Only(p, "seq") = Only(<<h>>, "seq") \o Only(<<t>>, "seq")
    BY <1>2, <2>1, OnlyPair
  <2>9. Only(<<h>>, "seq") = << >> /\ Only(<<t>>, "seq") = << >>
    BY <1>2, OnlyOne
  <2>10. Only(Append(p, s), "seq") = Append(Only(p, "seq"), s)
    BY <1>2, <2>2, OnlyAppend
  <2>11. Only(p, "seq") = z /\ Append(z, s) = <<s>>
    <3>1. << >> \o << >> = z
      BY <1>1
    <3> QED
      BY <1>1, <1>2, <2>8, <2>9, <3>1, ShortLists
  <2>12. b \in Seq(TypedLine) /\ ToSet(b) = {h, t, s} /\ Only(b, "seq") = <<s>>
    BY <2>2, <2>3, <2>6, <2>7, <2>10, <2>11
  <2> QED
    BY <1>1, <1>2, <1>3, <1>5, <2>12 DEF Fore
<1>6. CASE ~(at >= StartOffsetMin)
  <2>1. b = <<h, s>> /\ b \in Seq(TypedLine)
    BY <1>1, <1>3, <1>4, <1>6 DEF Before, Starts
  <2>2. Len(b) = 2 /\ b[1] = h /\ b[2] = s
    BY <2>1
  <2>3. ToSet(b) = {b[i] : i \in 1 .. Len(b)}
    <3>1. b \in Seq(TypedLine)
      BY <2>1
    <3> QED
      BY <3>1, InList
  <2>4. ToSet(b) = {h, s}
    BY <2>2, <2>3
  <2>5. Only(<<h, s>>, "seq") = Only(<<h>>, "seq") \o Only(<<s>>, "seq")
    BY <1>2, OnlyPair
  <2>6. Only(<<h>>, "seq") = << >> /\ Only(<<s>>, "seq") = <<s>> /\ << >> \o <<s>> = <<s>>
    BY <1>2, OnlyOne, ShortLists
  <2>7. Only(b, "seq") = <<s>>
    BY <2>1, <2>5, <2>6
  <2> QED
    BY <1>1, <1>2, <1>3, <2>1, <2>4, <2>7 DEF Fore
<1> QED
  BY <1>5, <1>6

\* The playlist that is made of a rolling one.
Dropped == IF UpstreamKept > EdgeCount THEN UpstreamKept - EdgeCount ELSE 0
StartAt == Least(StartOffset, ((UpstreamKept - Dropped) * Duration) \div 2)
LEMMA RollMade ==
  ASSUME NEW m \in Nat, NEW trusted, NEW direct \in BOOLEAN
  PROVE  Rewrite(RollLines(m), Rolling, trusted, direct) =
           Media(Before(Proxy(Rolling, direct)[Line("head", 0)], StartAt, m + Dropped),
                 Kept(m, Proxy(Rolling, direct), Dropped))
<1>1. PICK said, G : said = RollLines(m) /\ G = Proxy(Rolling, direct)
  OBVIOUS
<1>2. Keeps(G)
  BY <1>1, ProxyKeeps
<1>3. /\ said \in Seq(TypedLine) /\ "extinf" \in Tags(said)
      /\ "streaminf" \notin Tags(said) /\ "end" \notin Tags(said)
  BY <1>1, RollSaid
<1>4. Rewrite(said, Rolling, trusted, direct) = RewriteRolling(said, Rolling, direct)
  BY <1>3 DEF Rewrite
<1>5. PICK s, c, gh, N : /\ s = AllTaken(RewriteVod(said, Rolling, direct)) /\ c = Cast(m, G)
                         /\ gh = G[Line("head", 0)] /\ N = UpstreamKept
  OBVIOUS
<1>6. s = Read(<<gh>>, << >>, c, Same(N, Duration), 0, m)
  <2>1. RewriteVod(said, Rolling, direct) = Changed(said, G)
    BY <1>1, <1>3, VodChanged
  <2>2. AllTaken(Changed(RollLines(m), G)) =
          Read(<<G[Line("head", 0)]>>, << >>, Cast(m, G), Same(UpstreamKept, Duration), 0, m)
    BY <1>2, RollRead
  <2> QED
    BY <1>1, <1>5, <2>1, <2>2
<1>7. /\ s.header = <<gh>> /\ s.blocks = c /\ s.long = Same(N, Duration) /\ s.seq = m
  BY <1>6 DEF Read
<1>8. N \in Nat /\ N > 0 /\ EdgeCount \in Nat /\ EdgeCount > 0 /\ Duration \in Nat /\ Dropped \in 0 .. N
  BY <1>5, LiveAssumption DEF Dropped
<1>9. Len(c) = N /\ c # << >>
  <2>1. c \in Seq(Seq(TypedLine)) /\ Len(c) = N
    BY <1>1, <1>2, <1>5, CastFacts
  <2> QED
    BY <1>8, <2>1
<1>10. PICK d : d = Dropped
  OBVIOUS
<1>11. (IF Len(s.blocks) > EdgeCount THEN Len(s.blocks) - EdgeCount ELSE 0) = d
  BY <1>5, <1>7, <1>9, <1>10 DEF Dropped
<1>12. Window(s.long, d) = (N - d) * Duration
  <2>1. PICK g : g = Same(N, Duration)
    OBVIOUS
  <2>2. g = [i \in 1 .. N |-> Duration] /\ Duration \in Int /\ d \in 0 .. N
    BY <1>8, <1>10, <2>1 DEF Same
  <2>3. Window(g, d) = (N - d) * Duration
    BY <1>8, <2>2, WindowIs
  <2> QED
    BY <1>7, <2>1, <2>3
<1>13. Least(StartOffset, Window(s.long, d) \div 2) = StartAt
  BY <1>5, <1>10, <1>12 DEF StartAt
<1>14. NextSequence(s, d) = m + d
  BY <1>7 DEF NextSequence
<1>15. RewriteRolling(said, Rolling, direct) =
         s.header \o (IF StartAt >= StartOffsetMin THEN <<Line("start", StartAt)>> ELSE << >>)
           \o <<Line("seq", m + d)>> \o FlattenSeq(SubSeq(s.blocks, d + 1, Len(s.blocks)))
  BY <1>5, <1>7, <1>9, <1>11, <1>13, <1>14 DEF RewriteRolling
<1> QED
  BY <1>1, <1>4, <1>5, <1>7, <1>9, <1>10, <1>15 DEF Media, Before, Starts, Kept

LEMMA ProxyServes ==
  ASSUME NEW x \in TypedLine, x.by = "upstream", NEW l, NEW trusted, NEW direct \in BOOLEAN
  PROVE  Proxy(l, direct)[x] \in TypedLine /\ Serves(Proxy(l, direct)[x], <<l, trusted, direct>>)
<1>1. PICK G, key : G = Proxy(l, direct) /\ key = <<l, trusted, direct>>
  OBVIOUS
<1>2. /\ G[x].by \in {"upstream", "self", "direct"} /\ (G[x].by = "direct" => direct)
      /\ G[x].by = "upstream" => x.tag \notin {"uri", "variant", "key", "iframe"}
      /\ G[x].tag = x.tag /\ G[x] \in TypedLine
  BY <1>1, ProxyKeeps DEF Keeps
<1>3. key[1] = l /\ key[2] = trusted /\ key[3] = direct
  BY <1>1
<1> QED
  BY <1>1, <1>2, <1>3 DEF Serves

LEMMA HalfIsLess ==
  ASSUME NEW k \in Nat, k > 0, NEW d \in Nat, d > 0
  PROVE  (k * d) \div 2 < k * d /\ (k * d) \div 2 \in Int
<1>1. PICK w : w = k * d
  OBVIOUS
<1>2. w \in Nat
  BY <1>1
<1>3. w > 0
  <2>1. k * d >= k
    <3>1. PICK e : e = d - 1
      OBVIOUS
    <3>2. e \in Nat /\ d = e + 1 /\ k * (e + 1) = k * e + k /\ k * e \in Nat
      BY <3>1
    <3> QED
      BY <3>2
  <2> QED
    BY <1>1, <2>1
<1>4. w \div 2 < w /\ w \div 2 \in Int
  BY <1>2, <1>3
<1> QED
  BY <1>1, <1>4

(***************************************************************************)
(* The answer to any request for the rolling playlist.                     *)
(***************************************************************************)
LEMMA RollingServed ==
  ASSUME NEW m \in Nat, NEW trusted \in BOOLEAN, NEW direct \in BOOLEAN, NEW lines,
         lines = RouteToWorker(Rewrite(RollLines(m), Rolling, trusted, direct), Rolling, trusted),
         NEW public, ~public
  PROVE  /\ lines \in Seq(TypedLine) /\ ~Immutable(RollLines(m))
         /\ ListFits(ListAnswer(<<Rolling, trusted, direct>>, lines, public, RollLines(m)))
<1>1. PICK key, said, a, G : /\ key = <<Rolling, trusted, direct>> /\ said = RollLines(m)
                             /\ a = ListAnswer(key, lines, public, said)
                             /\ G = Proxy(Rolling, direct)
  OBVIOUS
<1>2. /\ key[1] = Rolling /\ key[2] = trusted /\ key[3] = direct
      /\ a.key = key /\ a.lines = lines /\ a.public = public /\ a.said = said
  BY <1>1 DEF ListAnswer
<1>3. /\ said \in Seq(TypedLine)
      /\ Values(said, "uri") = [i \in 1 .. UpstreamKept |-> m + i - 1]
      /\ "streaminf" \notin Tags(said) /\ "end" \notin Tags(said)
  BY <1>1, RollSaid
<1>4. ~Immutable(said)
  BY <1>3 DEF Immutable
<1>5. PICK N, d, k, at, h : /\ N = UpstreamKept /\ d = Dropped /\ k = N - d /\ at = StartAt
                            /\ h = G[Line("head", 0)]
  OBVIOUS
<1>6. /\ N \in Nat /\ N > 0 /\ d \in 0 .. N - 1 /\ k \in Nat /\ k > 0 /\ k <= N
      /\ k = Least(EdgeCount, N) /\ N = k + d
  <2>1. EdgeCount \in Nat /\ EdgeCount > 0 /\ UpstreamKept \in Nat /\ UpstreamKept > 0
    BY LiveAssumption
  <2>2. Dropped = IF UpstreamKept > EdgeCount THEN UpstreamKept - EdgeCount ELSE 0
    BY DEF Dropped
  <2> QED
    BY <1>5, <2>1, <2>2 DEF Least
<1>7. Duration \in Nat /\ Duration > 0 /\ StartOffset \in Nat /\ StartOffsetMin \in Nat
  BY LiveAssumption
<1>8. at \in Int /\ at < k * Duration
  <2>1. PICK w, v : w = k * Duration /\ v = w \div 2
    OBVIOUS
  <2>2. v < w /\ v \in Int
    BY <1>6, <1>7, <2>1, HalfIsLess
  <2>3. at = Least(StartOffset, v)
    BY <1>5, <2>1 DEF StartAt
  <2>4. w \in Int
    <3>1. k \in Int /\ Duration \in Int
      BY <1>6, <1>7
    <3> QED
      BY <2>1, <3>1
  <2> QED
    BY <1>7, <2>1, <2>2, <2>3, <2>4 DEF Least
<1>9. Keeps(G)
  BY <1>1, ProxyKeeps
<1>10. h \in TypedLine /\ h.tag = "head" /\ Serves(h, key)
  <2>1. "head" \in Tag
    BY DEF Tag
  <2>2. PICK x : x = Line("head", 0)
    OBVIOUS
  <2>3. x \in TypedLine /\ x.tag = "head" /\ x.by = "upstream"
    BY <2>1, <2>2, LineTyped
  <2>4. G[x].tag = x.tag
    BY <1>9, <2>3 DEF Keeps
  <2>5. G[x] \in TypedLine /\ Serves(G[x], key)
    BY <1>1, <2>3, ProxyServes
  <2> QED
    BY <1>5, <2>2, <2>3, <2>4, <2>5
<1>11. PICK front, seqs, S, out : /\ front = Before(h, at, m + d) /\ seqs = Kept(m, G, d)
                                  /\ S = {G[x] : x \in UpMedia} /\ out = Media(front, seqs)
  OBVIOUS
<1>12. out = Rewrite(said, Rolling, trusted, direct)
  BY <1>1, <1>5, <1>11, RollMade
<1>13. seqs \in Seq(Seq(S)) /\ Len(seqs) = k /\ Counted(seqs, m + d)
  BY <1>5, <1>6, <1>9, <1>11, KeptFacts
<1>14. m + d \in Int
  BY <1>6
<1>15. PICK t, s : t = Line("start", at) /\ s = Line("seq", m + d)
  OBVIOUS
<1>16. /\ front \in Seq(TypedLine) /\ Fore(front) /\ ToSet(front) \subseteq {h, t, s}
       /\ Only(front, "seq") = <<s>>
       /\ \A x \in ToSet(front) : x.tag = "start" => x = t /\ at >= StartOffsetMin
  BY <1>8, <1>10, <1>11, <1>14, <1>15, BeforeFacts
<1>17. S \subseteq MediaLines /\ \A x \in S : Serves(x, key)
  <2> SUFFICES ASSUME NEW x \in UpMedia PROVE G[x] \in MediaLines /\ Serves(G[x], key)
    BY <1>11
  <2>1. x \in TypedLine /\ x.by = "upstream" /\ x.tag \in {"key", "extinf", "uri"}
    BY DEF UpMedia, MediaLines
  <2>2. G[x].tag = x.tag
    BY <1>9, <2>1 DEF Keeps
  <2>3. G[x] \in TypedLine /\ Serves(G[x], key)
    BY <1>1, <2>1, ProxyServes
  <2> QED
    BY <2>1, <2>2, <2>3 DEF MediaLines
<1>18. /\ out \in Seq(TypedLine) /\ ToSet(out) \subseteq ToSet(front) \cup S
       /\ Values(out, "uri") = [i \in 1 .. Len(seqs) |-> (m + d) + i - 1]
       /\ \A tag : tag \notin {"key", "extinf", "uri"} => Only(out, tag) = Only(front, tag)
  <2>1. PICK first : first = m + d
    OBVIOUS
  <2>2. Len(seqs) > 0 /\ seqs \in Seq(Seq(S)) /\ Counted(seqs, first) /\ first \in Int
    BY <1>6, <1>13, <1>14, <2>1
  <2>3. front \in Seq(TypedLine) /\ Fore(front) /\ S \subseteq MediaLines /\ out = Media(front, seqs)
    BY <1>11, <1>16, <1>17
  <2>4. MediaSaid(out, front, seqs, S, first)
    BY <2>2, <2>3, MediaFacts
  <2> QED
    BY <2>1, <2>4 DEF MediaSaid
<1>19. \A x \in ToSet(out) : Serves(x, key)
  <2>1. t.by = "upstream" /\ t.tag = "start" /\ s.by = "upstream" /\ s.tag = "seq"
    BY <1>15 DEF Line
  <2>2. Serves(t, key) /\ Serves(s, key)
    BY <2>1 DEF Serves
  <2> QED
    BY <1>10, <1>16, <1>17, <1>18, <2>2
<1>20. Dressed(out, lines, key)
  <2>1. out \in Seq(TypedLine)
    BY <1>18
  <2>2. Dressed(out, out, key)
    <3>1. ToSet(out) = {out[i] : i \in 1 .. Len(out)}
      BY <2>1, InList
    <3>2. \A i \in 1 .. Len(out) : Serves(out[i], key)
      BY <1>19, <3>1
    <3> QED
      BY <2>1, <3>2 DEF Dressed
  <2>3. lines = RouteToWorker(out, Rolling, trusted)
    BY <1>1, <1>12
  <2>4. Dressed(out, RouteToWorker(out, Rolling, trusted), <<Rolling, trusted, direct>>)
    BY <1>1, <2>1, <2>2, DressedRouted
  <2> QED
    BY <1>1, <2>3, <2>4
<1>21. /\ lines \in Seq(TypedLine) /\ Len(lines) = Len(out)
       /\ \A tag \in Tag : Values(lines, tag) = Values(out, tag)
       /\ \A i \in 1 .. Len(out) : Serves(lines[i], key)
  BY <1>20 DEF Dressed
<1>22. Values(lines, "uri") = [i \in 1 .. k |-> (m + d) + i - 1]
  <2>1. "uri" \in Tag
    BY DEF Tag
  <2> QED
    BY <1>13, <1>18, <1>21, <2>1
<1>23. Values(lines, "seq")[1] = m + d
  <2>1. "seq" \in Tag
    BY DEF Tag
  <2>2. Only(out, "seq") = <<s>> /\ DOMAIN <<s>> = 1 .. 1 /\ s.value = m + d
    BY <1>15, <1>16, <1>18, SMTT(30) DEF Line
  <2>3. Values(out, "seq")[1] = m + d
    BY <2>2 DEF Values
  <2> QED
    BY <1>21, <2>1, <2>3
<1>24. ASSUME NEW v \in ToSet(Values(lines, "start"))
       PROVE  StartOffsetMin <= v /\ v < k * Duration
  <2>1. "start" \in Tag
    BY DEF Tag
  <2>2. PICK o : o = Only(front, "start")
    OBVIOUS
  <2>3. /\ Values(out, "start") = [i \in 1 .. Len(o) |-> o[i].value]
        /\ \A i \in 1 .. Len(o) : o[i] \in ToSet(front) /\ o[i].tag = "start"
    <3>1. Only(out, "start") = o
      BY <1>18, <2>2
    <3>2. out \in Seq(TypedLine) /\ front \in Seq(TypedLine)
      BY <1>16, <1>18
    <3>3. Values(out, "start") = [i \in 1 .. Len(Only(out, "start")) |-> Only(out, "start")[i].value]
      BY <3>2, OnlyFacts
    <3>4. \A i \in 1 .. Len(o) : o[i] \in ToSet(front) /\ o[i].tag = "start"
      BY <2>2, <3>2, OnlyFacts
    <3> QED
      BY <3>1, <3>3, <3>4
  <2>4. ToSet(Values(out, "start")) = {o[i].value : i \in 1 .. Len(o)}
    BY <2>3 DEF ToSet
  <2>5. PICK i \in 1 .. Len(o) : v = o[i].value
    BY <1>21, <1>24, <2>1, <2>4
  <2>6. o[i] = t /\ at >= StartOffsetMin
    BY <1>16, <2>3
  <2>7. v = at
    BY <1>15, <2>5, <2>6 DEF Line
  <2> QED
    BY <1>7, <1>8, <2>6, <2>7
<1>25. WindowRight(a)
  <2>1. PICK us, from : us = Values(lines, "uri") /\ from = Values(said, "uri")
    OBVIOUS
  <2>2. us = [i \in 1 .. k |-> (m + d) + i - 1] /\ from = [i \in 1 .. N |-> m + i - 1]
    BY <1>3, <1>5, <1>22, <2>1
  <2>3. us \in Seq(Int) /\ Len(us) = k /\ from \in Seq(Int) /\ Len(from) = N
    <3>1. m \in Int /\ d \in Int /\ k \in Nat /\ N \in Nat
      BY <1>6
    <3>2. us \in [1 .. k -> Int] /\ from \in [1 .. N -> Int]
      BY <2>2, <3>1
    <3> QED
      BY <3>1, <3>2
  <2>4. us = SubSeq(from, N - k + 1, N)
    <3>1. PICK sub : sub = SubSeq(from, N - k + 1, N)
      OBVIOUS
    <3>2. sub \in Seq(Int) /\ Len(sub) = k /\ \A i \in 1 .. k : sub[i] = from[N - k + i]
      <4>1. PICK b : b = N - k + 1
        OBVIOUS
      <4>2. b \in 1 .. N /\ N \in 1 .. N /\ N - b + 1 = k /\ \A i \in 1 .. k : b + i - 1 = N - k + i
        <5>1. N \in Nat /\ k \in Nat /\ k > 0 /\ k <= N
          BY <1>6
        <5>2. b \in 1 .. N /\ N \in 1 .. N /\ N - b + 1 = k
          BY <4>1, <5>1
        <5>3. ASSUME NEW i \in 1 .. k PROVE b + i - 1 = N - k + i
          BY <4>1, <5>1
        <5> QED
          BY <5>2, <5>3
      <4>3. sub = SubSeq(from, b, N) /\ N = Len(from) /\ from \in Seq(Int)
        BY <2>3, <3>1, <4>1
      <4>4. sub \in Seq(Int) /\ Len(sub) = N - b + 1 /\ \A i \in 1 .. N - b + 1 : sub[i] = from[b + i - 1]
        BY <4>2, <4>3
      <4> QED
        BY <4>2, <4>4
    <3>3. ASSUME NEW i \in 1 .. k PROVE us[i] = sub[i]
      <4>1. N - k + i \in 1 .. N /\ N - k + i = d + i
        BY <1>6
      <4>2. from[N - k + i] = m + (d + i) - 1 /\ us[i] = (m + d) + i - 1
        BY <2>2, <4>1
      <4>3. m + (d + i) - 1 = (m + d) + i - 1
        BY <1>6
      <4>4. sub[i] = from[N - k + i]
        BY <3>2
      <4> QED
        BY <4>2, <4>3, <4>4
    <3>4. us = sub
      BY <2>3, <3>2, <3>3
    <3> QED
      BY <3>1, <3>4
  <2>5. \A i \in DOMAIN us : us[i] = (m + d) + i - 1
    BY <2>2
  <2> QED
    BY <1>2, <1>6, <1>23, <1>24, <2>1, <2>3, <2>4, <2>5 DEF WindowRight
<1>26. \A x \in ToSet(lines) : Serves(x, key)
  <2>1. lines \in Seq(TypedLine)
    BY <1>21
  <2>2. ToSet(lines) = {lines[i] : i \in 1 .. Len(lines)}
    BY <2>1, InList
  <2> QED
    BY <1>21, <2>2
<1>27. ListFits(a)
  BY <1>2, <1>25, <1>26 DEF ListFits
<1> QED
  BY <1>1, <1>4, <1>21, <1>27
-----------------------------------------------------------------------------
(***************************************************************************)
(* The invariant: what is kept of a playlist fits every request with its   *)
(* flags, a decision is of its own directory and one segment there is like *)
(* it, and a request at work has a segment that its work is for.           *)
(***************************************************************************)
Keys == Playlist \X BOOLEAN \X BOOLEAN
Natures == {"clean", "audio", "data"}
Plain == {s \in Segments : s.body # "png" /\ s.size = "normal"}

Doing(r) ==
  \/ r = Blank
  \/ r \in [pc : {"queue", "fetch", "browse"}, key : Keys]
  \/ r \in [pc : {"segqueue", "segfetch"}, seg : Segments]
  \/ r \in [pc : {"look", "probequeue", "probe"}, seg : Plain]
  \/ /\ r \in [pc : {"encodequeue", "encode"}, seg : Plain, need : {"audio", "data"}, from : Dir]
     /\ r.from = r.seg.dir
  \/ r.pc = "list" /\ ListFits(r)
  \/ r.pc = "segment" /\ SegmentFits(r)

ClockOK == beat \in 0 .. LastBeat /\ edge \in UpstreamKept .. LastEdge

KeptList(now) == [at : -1 .. now, lines : Seq(TypedLine)]
FitsAll(k, lines) ==
  k[1] \in DOMAIN Fixed /\ k[2] /\ ListFits(ListAnswer(k, lines, TRUE, Fixed[k[1]]))
ListsOK ==
  /\ lists \in [Keys -> KeptList(beat)]
  /\ \A k \in Keys : lists[k] # NoList => FitsAll(k, lists[k].lines)

Made(now) == [nature : {"unknown", "clean", "audio", "data"}, from : Dir \cup {"none"}, at : -1 .. now]
LikeOne(d, c) ==
  /\ c.from = d /\ c.nature \in Natures
  /\ \E s \in Segments : s.dir = d /\ s.nature = c.nature
DecisionsOK ==
  /\ decision \in [Dir -> Made(beat)]
  /\ \A d \in Dir : decision[d] # Undecided => LikeOne(d, decision[d])

PlayersOK == player = [p \in Player |-> player[p]] /\ \A p \in Player : Doing(player[p])

Within(S, n) == IsFiniteSet(S) /\ Cardinality(S) <= n
PermitsOK ==
  /\ Within(Curling, CurlPermits)
  /\ Within(InStage("probe"), ProbePermits) /\ Within(InStage("encode"), EncodePermits)

LiveInv == ClockOK /\ ListsOK /\ DecisionsOK /\ PlayersOK /\ PermitsOK

LEMMA LiveConstants ==
  /\ CurlPermits \in Nat /\ ProbePermits \in Nat /\ EncodePermits \in Nat
  /\ CurlPermits > 0 /\ ProbePermits > 0 /\ EncodePermits > 0
  /\ UpstreamKept \in Nat /\ LastEdge \in Nat /\ LastBeat \in Nat /\ UpstreamKept <= LastEdge
  /\ \A s \in Segments : s.nature \in Natures /\ s.dir \in Dir
  BY LiveAssumption DEF Natures, Dir

LEMMA DoingStages ==
  ASSUME NEW r, Doing(r)
  PROVE  /\ r.pc \in {"rest", "queue", "fetch", "browse", "list", "segqueue",
                      "segfetch", "look", "probequeue", "probe", "encodequeue",
                      "encode", "segment"}
         /\ r.pc \in {"queue", "fetch", "browse"} =>
              r \in [pc : {"queue", "fetch", "browse"}, key : Keys]
         /\ r.pc \in {"segqueue", "segfetch"} =>
              r \in [pc : {"segqueue", "segfetch"}, seg : Segments]
         /\ r.pc \in {"look", "probequeue", "probe"} =>
              r \in [pc : {"look", "probequeue", "probe"}, seg : Plain]
         /\ r.pc \in {"encodequeue", "encode"} =>
              /\ r \in [pc : {"encodequeue", "encode"}, seg : Plain, need : {"audio", "data"}, from : Dir]
              /\ r.from = r.seg.dir
         /\ r.pc = "list" => ListFits(r)
         /\ r.pc = "segment" => SegmentFits(r)
<1>1. CASE r = Blank
  <2>1. r.pc = "rest"
    BY <1>1 DEF Blank
  <2> QED
    BY <2>1
<1>2. CASE r \in [pc : {"queue", "fetch", "browse"}, key : Keys]
  <2>1. r.pc \in {"queue", "fetch", "browse"}
    BY <1>2
  <2> QED
    BY <1>2, <2>1
<1>3. CASE r \in [pc : {"segqueue", "segfetch"}, seg : Segments]
  <2>1. r.pc \in {"segqueue", "segfetch"}
    BY <1>3
  <2> QED
    BY <1>3, <2>1
<1>4. CASE r \in [pc : {"look", "probequeue", "probe"}, seg : Plain]
  <2>1. r.pc \in {"look", "probequeue", "probe"}
    BY <1>4
  <2> QED
    BY <1>4, <2>1
<1>5. CASE /\ r \in [pc : {"encodequeue", "encode"}, seg : Plain, need : {"audio", "data"}, from : Dir]
           /\ r.from = r.seg.dir
  <2>1. r.pc \in {"encodequeue", "encode"}
    BY <1>5
  <2> QED
    BY <1>5, <2>1
<1>6. CASE r.pc = "list" /\ ListFits(r)
  BY <1>6
<1>7. CASE r.pc = "segment" /\ SegmentFits(r)
  BY <1>7
<1> QED
  BY <1>1, <1>2, <1>3, <1>4, <1>5, <1>6, <1>7 DEF Doing

\* One more within, or no more than before.
LEMMA StageKept ==
  ASSUME NEW S, NEW n \in Nat, Within(S, n), NEW p, NEW T, T \subseteq S \cup {p},
         p \in T => p \in S \/ Cardinality(S) < n
  PROVE  Within(T, n)
<1>1. IsFiniteSet(S) /\ Cardinality(S) \in Nat /\ Cardinality(S) <= n
  BY FS_CardinalityType DEF Within
<1>2. CASE T \subseteq S
  BY <1>1, <1>2, FS_Subset, FS_CardinalityType DEF Within
<1>3. CASE ~(T \subseteq S)
  <2>1. p \in T /\ p \notin S /\ Cardinality(S) < n
    BY <1>3
  <2>2. IsFiniteSet(S \cup {p}) /\ Cardinality(S \cup {p}) = Cardinality(S) + 1
    BY <1>1, <2>1, FS_AddElement
  <2>3. IsFiniteSet(T) /\ Cardinality(T) <= Cardinality(S \cup {p}) /\ Cardinality(T) \in Nat
    BY <2>2, FS_Subset, FS_CardinalityType
  <2> QED
    BY <1>1, <2>1, <2>2, <2>3 DEF Within
<1> QED
  BY <1>2, <1>3

Curls(r) ==
  \/ r.pc = "fetch" /\ HostOf[r.key[1]] = "curl"
  \/ r.pc = "segfetch" /\ r.seg.host = "curl"
Permitted(p, r) ==
  /\ Curls(r) => Curls(player[p]) \/ Cardinality(Curling) < CurlPermits
  /\ r.pc = "probe" => Cardinality(InStage("probe")) < ProbePermits
  /\ r.pc = "encode" => Cardinality(InStage("encode")) < EncodePermits

LEMMA MoveKeeps ==
  ASSUME PlayersOK, PermitsOK, NEW p \in Player, NEW r, Doing(r), Permitted(p, r),
         player' = [player EXCEPT ![p] = r]
  PROVE  PlayersOK' /\ PermitsOK'
<1>1. player = [q \in Player |-> player[q]] /\ \A q \in Player : Doing(player[q])
  BY DEF PlayersOK
<1>2. player' = [q \in Player |-> IF q = p THEN r ELSE player[q]]
  BY <1>1
<1>3. player'[p] = r /\ \A q \in Player : q # p => player'[q] = player[q]
  BY <1>2
<1>4. PlayersOK'
  <2>1. player' = [q \in Player |-> player'[q]]
    BY <1>2
  <2>2. \A q \in Player : Doing(player'[q])
    BY <1>1, <1>3
  <2> QED
    BY <2>1, <2>2 DEF PlayersOK
<1>5. Curling = {q \in Player : Curls(player[q])} /\ Curling' = {q \in Player : Curls(player'[q])}
  BY DEF Curling, Curls
<1>6. Within(Curling', CurlPermits)
  <2>1. Curling' \subseteq Curling \cup {p}
    BY <1>3, <1>5
  <2>2. p \in Curling' => p \in Curling \/ Cardinality(Curling) < CurlPermits
    BY <1>3, <1>5 DEF Permitted
  <2> QED
    BY <2>1, <2>2, StageKept, LiveConstants DEF PermitsOK
<1>7. Within(InStage("probe")', ProbePermits)
  <2>1. InStage("probe")' \subseteq InStage("probe") \cup {p}
    BY <1>3 DEF InStage
  <2>2. p \in InStage("probe")' => p \in InStage("probe") \/ Cardinality(InStage("probe")) < ProbePermits
    BY <1>3 DEF InStage, Permitted
  <2> QED
    BY <2>1, <2>2, StageKept, LiveConstants DEF PermitsOK
<1>8. Within(InStage("encode")', EncodePermits)
  <2>1. InStage("encode")' \subseteq InStage("encode") \cup {p}
    BY <1>3 DEF InStage
  <2>2. p \in InStage("encode")' => p \in InStage("encode") \/ Cardinality(InStage("encode")) < EncodePermits
    BY <1>3 DEF InStage, Permitted
  <2> QED
    BY <2>1, <2>2, StageKept, LiveConstants DEF PermitsOK
<1> QED
  BY <1>4, <1>6, <1>7, <1>8 DEF PermitsOK

\* What the caches have does not change.
LEMMA CachesStay ==
  ASSUME ListsOK, DecisionsOK, ClockOK, UNCHANGED <<beat, edge, lists, decision>>
  PROVE  ListsOK' /\ DecisionsOK' /\ ClockOK'
<1>1. beat' = beat /\ edge' = edge /\ lists' = lists /\ decision' = decision
  OBVIOUS
<1>2. ListsOK'
  BY <1>1 DEF ListsOK
<1>3. DecisionsOK'
  BY <1>1 DEF DecisionsOK
<1> QED
  BY <1>1, <1>2, <1>3 DEF ClockOK

LEMMA StoreKeeps ==
  ASSUME ListsOK, ClockOK, NEW k \in Keys, NEW lines \in Seq(TypedLine), FitsAll(k, lines),
         StoreList(k, lines), beat' = beat
  PROVE  ListsOK'
<1>1. beat \in 0 .. LastBeat /\ LastBeat \in Nat
  BY LiveConstants DEF ClockOK
<1>2. PICK new : new = [lines |-> lines, at |-> beat]
  OBVIOUS
<1>3. new \in KeptList(beat) /\ NoList \in KeptList(beat) /\ new.lines = lines
  <2>1. new \in KeptList(beat) /\ new.lines = lines
    BY <1>1, <1>2 DEF KeptList
  <2>2. PICK z : z = << >>
    OBVIOUS
  <2>3. NoList = [lines |-> z, at |-> -1] /\ z \in Seq(TypedLine)
    BY <2>2 DEF NoList
  <2>4. NoList \in KeptList(beat)
    BY <1>1, <2>3 DEF KeptList
  <2> QED
    BY <2>1, <2>4
<1>4. PICK all : all = [lists EXCEPT ![k] = new]
  OBVIOUS
<1>5. lists \in [Keys -> KeptList(beat)] /\ \A j \in Keys : lists[j] # NoList => FitsAll(j, lists[j].lines)
  BY DEF ListsOK
<1>6. all \in [Keys -> KeptList(beat)] /\ DOMAIN all = Keys
      /\ \A j \in Keys : all[j] = IF j = k THEN new ELSE lists[j]
  BY <1>3, <1>4, <1>5
<1>7. \A j \in Keys : all[j] # NoList => FitsAll(j, all[j].lines)
  BY <1>3, <1>5, <1>6
<1>8. PICK fresh : fresh = [j \in DOMAIN all |-> IF beat - all[j].at <= ListTtl THEN all[j] ELSE NoList]
  OBVIOUS
<1>9. \/ lists' = all \/ lists' = fresh
      \/ lists' = [j \in DOMAIN all |-> NoList]
  BY <1>2, <1>4, <1>8 DEF StoreList
<1>10. DOMAIN lists' = Keys /\ lists' = [j \in Keys |-> lists'[j]]
       /\ \A j \in Keys : lists'[j] = all[j] \/ lists'[j] = NoList
  <2>1. CASE lists' = all
    BY <1>6, <2>1
  <2>2. CASE lists' = fresh
    BY <1>6, <1>8, <2>2
  <2>3. CASE lists' = [j \in DOMAIN all |-> NoList]
    BY <1>6, <2>3
  <2> QED
    BY <1>9, <2>1, <2>2, <2>3
<1>11. lists' \in [Keys -> KeptList(beat)]
  BY <1>3, <1>6, <1>10
<1>12. \A j \in Keys : lists'[j] # NoList => FitsAll(j, lists'[j].lines)
  BY <1>7, <1>10
<1>13. beat' = beat
  OBVIOUS
<1> QED
  BY <1>11, <1>12, <1>13 DEF ListsOK

LEMMA LiveInitInv == ASSUME LiveInit PROVE LiveInv
<1>1. /\ beat = 0 /\ edge = UpstreamKept /\ lists = [k \in Keys |-> NoList]
      /\ decision = [d \in Dir |-> Undecided] /\ player = [p \in Player |-> Blank]
  BY DEF LiveInit, Keys
<1>2. ClockOK
  BY <1>1, LiveConstants DEF ClockOK
<1>3. ListsOK
  <2>1. PICK z : z = << >>
    OBVIOUS
  <2>2. NoList = [lines |-> z, at |-> -1] /\ z \in Seq(TypedLine)
    BY <2>1 DEF NoList
  <2>3. NoList \in KeptList(0)
    BY <2>2 DEF KeptList
  <2> QED
    BY <1>1, <2>3 DEF ListsOK
<1>4. DecisionsOK
  <2>1. Undecided \in Made(0)
    BY DEF Undecided, Made
  <2> QED
    BY <1>1, <2>1 DEF DecisionsOK
<1>5. PlayersOK
  BY <1>1 DEF PlayersOK, Doing
<1>6. PermitsOK
  <2>1. \A p \in Player : player[p].pc = "rest"
    BY <1>1 DEF Blank
  <2>2. Curling = {} /\ InStage("probe") = {} /\ InStage("encode") = {}
    BY <2>1 DEF Curling, InStage
  <2>3. IsFiniteSet({}) /\ Cardinality({}) = 0
    BY FS_EmptySet
  <2> QED
    BY <2>2, <2>3, LiveConstants DEF PermitsOK, Within
<1> QED
  BY <1>2, <1>3, <1>4, <1>5, <1>6 DEF LiveInv

(***************************************************************************)
(* One step of a request each.                                             *)
(***************************************************************************)
LEMMA MoveOnly ==
  ASSUME LiveInv, NEW p \in Player, NEW r, Doing(r), Permitted(p, r),
         player' = [player EXCEPT ![p] = r], UNCHANGED <<beat, edge, lists, decision>>
  PROVE  LiveInv'
<1>1. PlayersOK' /\ PermitsOK'
  BY MoveKeeps DEF LiveInv
<1>2. ListsOK' /\ DecisionsOK' /\ ClockOK'
  BY CachesStay DEF LiveInv
<1> QED
  BY <1>1, <1>2 DEF LiveInv

LEMMA NotPermitted ==
  ASSUME NEW p, NEW r, r.pc \notin {"fetch", "segfetch", "probe", "encode"}
  PROVE  Permitted(p, r)
  BY DEF Permitted, Curls

\* A request that has nothing.
LEMMA Rests ==
  ASSUME LiveInv, NEW p \in Player, player' = [player EXCEPT ![p] = Blank],
         UNCHANGED <<beat, edge, lists, decision>>
  PROVE  LiveInv'
<1>1. PICK r : r = Blank
  OBVIOUS
<1>2. Doing(r) /\ Permitted(p, r)
  <2>1. r.pc = "rest"
    BY <1>1 DEF Blank
  <2> QED
    BY <1>1, <2>1, NotPermitted DEF Doing
<1> QED
  BY <1>1, <1>2, MoveOnly

LEMMA KeptListServed ==
  ASSUME LiveInv, NEW l \in Playlist, NEW trusted \in BOOLEAN, NEW direct \in BOOLEAN, NEW key,
         key = <<l, trusted, direct>>, FreshList(key)
  PROVE  Doing(ListAnswer(key, lists[key].lines, TRUE, Upstream(l)))
<1>1. key \in Keys /\ key[1] = l
  BY DEF Keys
<1>2. FitsAll(key, lists[key].lines)
  BY <1>1 DEF LiveInv, ListsOK, FreshList
<1>3. l \in DOMAIN Fixed /\ Upstream(l) = Fixed[l]
  BY <1>1, <1>2, LiveAssumption DEF FitsAll, Upstream
<1>4. PICK a : a = ListAnswer(key, lists[key].lines, TRUE, Fixed[l])
  OBVIOUS
<1>5. ListFits(a) /\ a.pc = "list"
  BY <1>1, <1>2, <1>4 DEF FitsAll, ListAnswer
<1> QED
  BY <1>3, <1>4, <1>5 DEF Doing

LEMMA AskPlaylistInv == ASSUME LiveInv, NEW p \in Player, AskPlaylist(p) PROVE LiveInv'
<1>1. PICK l \in Playlist, trusted \in BOOLEAN, direct \in BOOLEAN :
        player' = [player EXCEPT ![p] =
                     IF FreshList(<<l, trusted, direct>>)
                     THEN ListAnswer(<<l, trusted, direct>>, lists[<<l, trusted, direct>>].lines, TRUE, Upstream(l))
                     ELSE [pc |-> IF HostOf[l] = "curl" THEN "queue" ELSE "fetch",
                           key |-> <<l, trusted, direct>>]]
  BY DEF AskPlaylist
<1>2. PICK key : key = <<l, trusted, direct>>
  OBVIOUS
<1>3. key \in Keys /\ key[1] = l
  BY <1>2 DEF Keys
<1>4. PICK r : r = IF FreshList(key) THEN ListAnswer(key, lists[key].lines, TRUE, Upstream(l))
                   ELSE [pc |-> IF HostOf[l] = "curl" THEN "queue" ELSE "fetch", key |-> key]
  OBVIOUS
<1>5. player' = [player EXCEPT ![p] = r] /\ UNCHANGED <<beat, edge, lists, decision>>
  BY <1>1, <1>2, <1>4 DEF AskPlaylist
<1>6. CASE FreshList(key)
  <2>1. r = ListAnswer(key, lists[key].lines, TRUE, Upstream(l))
    BY <1>4, <1>6
  <2>2. Doing(r) /\ r.pc = "list"
    <3>1. Doing(r)
      BY <1>2, <1>6, <2>1, KeptListServed
    <3> QED
      BY <2>1, <3>1 DEF ListAnswer
  <2> QED
    BY <1>5, <2>2, NotPermitted, MoveOnly
<1>7. CASE ~FreshList(key)
  <2>1. r = [pc |-> IF HostOf[l] = "curl" THEN "queue" ELSE "fetch", key |-> key]
    BY <1>4, <1>7
  <2>2. r \in [pc : {"queue", "fetch", "browse"}, key : Keys] /\ r.key = key
        /\ (r.pc = "fetch" => HostOf[l] # "curl") /\ r.pc \in {"queue", "fetch"}
    BY <1>3, <2>1
  <2>3. Doing(r) /\ Permitted(p, r)
    BY <1>3, <2>2 DEF Doing, Permitted, Curls
  <2> QED
    BY <1>5, <2>3, MoveOnly
<1> QED
  BY <1>6, <1>7

LEMMA StartCurlInv == ASSUME LiveInv, NEW p \in Player, StartCurl(p) PROVE LiveInv'
<1>1. PICK old : old = player[p]
  OBVIOUS
<1>2. Doing(old) /\ old.pc \in {"queue", "segqueue"} /\ Cardinality(Curling) < CurlPermits
      /\ UNCHANGED <<beat, edge, lists, decision>>
  BY <1>1 DEF LiveInv, PlayersOK, StartCurl
<1>3. PICK stage, r : /\ stage = IF old.pc = "queue" THEN "fetch" ELSE "segfetch"
                      /\ r = [old EXCEPT !.pc = stage]
  OBVIOUS
<1>4. player' = [player EXCEPT ![p] = r]
  <2>1. player = [q \in Player |-> player[q]]
    BY DEF LiveInv, PlayersOK
  <2>2. player' = [player EXCEPT ![p].pc = IF old.pc = "queue" THEN "fetch" ELSE "segfetch"]
    <3>1. player' = [player EXCEPT ![p].pc = IF @ = "queue" THEN "fetch" ELSE "segfetch"]
      BY DEF StartCurl
    <3> QED
      BY <1>1, <3>1
  <2>3. player' = [player EXCEPT ![p].pc = stage]
    BY <1>3, <2>2
  <2>4. player' = [player EXCEPT ![p] = [player[p] EXCEPT !.pc = stage]]
    BY <2>3
  <2> QED
    BY <1>1, <1>3, <2>4
<1>5. CASE old.pc = "queue"
  <2>1. old \in [pc : {"queue", "fetch", "browse"}, key : Keys] /\ stage = "fetch"
    BY <1>2, <1>3, <1>5, DoingStages
  <2>2. r \in [pc : {"queue", "fetch", "browse"}, key : Keys] /\ r.pc = "fetch"
    <3>1. PICK key : key = old.key
      OBVIOUS
    <3>2. old = [pc |-> old.pc, key |-> key] /\ key \in Keys
      BY <2>1, <3>1
    <3>3. r = [pc |-> "fetch", key |-> key]
      BY <1>3, <2>1, <3>2
    <3> QED
      BY <3>2, <3>3
  <2>3. Doing(r) /\ Permitted(p, r)
    BY <1>2, <2>2 DEF Doing, Permitted
  <2> QED
    BY <1>2, <1>4, <2>3, MoveOnly
<1>6. CASE old.pc # "queue"
  <2>1. old \in [pc : {"segqueue", "segfetch"}, seg : Segments] /\ stage = "segfetch"
    <3>1. old.pc \in {"segqueue", "segfetch"}
      BY <1>2, <1>6
    <3>2. stage = "segfetch"
      BY <1>3, <1>6
    <3> QED
      BY <1>2, <3>1, <3>2, DoingStages
  <2>2. r \in [pc : {"segqueue", "segfetch"}, seg : Segments] /\ r.pc = "segfetch"
    <3>1. PICK seg : seg = old.seg
      OBVIOUS
    <3>2. old = [pc |-> old.pc, seg |-> seg] /\ seg \in Segments
      BY <2>1, <3>1
    <3>3. r = [pc |-> "segfetch", seg |-> seg]
      BY <1>3, <2>1, <3>2
    <3> QED
      BY <3>2, <3>3
  <2>3. Doing(r) /\ Permitted(p, r)
    BY <1>2, <2>2 DEF Doing, Permitted
  <2> QED
    BY <1>2, <1>4, <2>3, MoveOnly
<1> QED
  BY <1>5, <1>6

LEMMA FetchForbiddenInv == ASSUME LiveInv, NEW p \in Player, FetchForbidden(p) PROVE LiveInv'
<1>1. PICK old, r : old = player[p] /\ r = [old EXCEPT !.pc = "browse"]
  OBVIOUS
<1>2. Doing(old) /\ old.pc = "fetch" /\ UNCHANGED <<beat, edge, lists, decision>>
      /\ player' = [player EXCEPT ![p] = r]
  BY <1>1 DEF LiveInv, PlayersOK, FetchForbidden
<1>3. old \in [pc : {"queue", "fetch", "browse"}, key : Keys]
  BY <1>2, DoingStages
<1>4. r \in [pc : {"queue", "fetch", "browse"}, key : Keys] /\ r.pc = "browse"
  BY <1>1, <1>3
<1>5. Doing(r)
  BY <1>4 DEF Doing
<1> QED
  BY <1>2, <1>4, <1>5, NotPermitted, MoveOnly

LEMMA LeavesInv ==
  ASSUME LiveInv, NEW p \in Player, UpstreamFails(p) \/ PlayerLeaves(p)
  PROVE  LiveInv'
  BY Rests DEF UpstreamFails, PlayerLeaves

LEMMA AskSegmentInv == ASSUME LiveInv, NEW p \in Player, AskSegment(p) PROVE LiveInv'
<1>1. PICK s \in Segments :
        player' = [player EXCEPT ![p] = [pc |-> IF s.host = "curl" THEN "segqueue" ELSE "segfetch",
                                         seg |-> s]]
  BY DEF AskSegment
<1>2. PICK r : r = [pc |-> IF s.host = "curl" THEN "segqueue" ELSE "segfetch", seg |-> s]
  OBVIOUS
<1>3. player' = [player EXCEPT ![p] = r] /\ UNCHANGED <<beat, edge, lists, decision>>
  BY <1>1, <1>2 DEF AskSegment
<1>4. r \in [pc : {"segqueue", "segfetch"}, seg : Segments] /\ r.seg = s
      /\ (r.pc = "segfetch" => s.host # "curl") /\ r.pc \in {"segqueue", "segfetch"}
  BY <1>2
<1>5. Doing(r) /\ Permitted(p, r)
  BY <1>4 DEF Doing, Permitted, Curls
<1> QED
  BY <1>3, <1>5, MoveOnly

\* A segment is answered.
LEMMA Answers ==
  ASSUME LiveInv, NEW p \in Player, NEW how, NEW from, NEW s, s = player[p].seg,
         SegmentFits([pc |-> "segment", seg |-> s, how |-> how, from |-> from]),
         SegmentAnswer(p, how, from), UNCHANGED <<beat, edge, lists, decision>>
  PROVE  LiveInv'
<1>1. PICK r : r = [pc |-> "segment", seg |-> s, how |-> how, from |-> from]
  OBVIOUS
<1>2. player' = [player EXCEPT ![p] = r]
  BY <1>1 DEF SegmentAnswer
<1>3. Doing(r) /\ r.pc = "segment"
  <2>1. r.pc = "segment" /\ SegmentFits(r)
    BY <1>1
  <2> QED
    BY <2>1 DEF Doing
<1> QED
  BY <1>2, <1>3, NotPermitted, MoveOnly

LEMMA SegmentArrivesInv == ASSUME LiveInv, NEW p \in Player, SegmentArrives(p) PROVE LiveInv'
<1>1. PICK old, s : old = player[p] /\ s = old.seg
  OBVIOUS
<1>2. Doing(old) /\ old.pc = "segfetch" /\ UNCHANGED <<beat, edge, lists, decision>>
  BY <1>1 DEF LiveInv, PlayersOK, SegmentArrives
<1>3. old \in [pc : {"segqueue", "segfetch"}, seg : Segments] /\ s \in Segments
  BY <1>1, <1>2, DoingStages
<1>4. CASE s.body = "png" /\ SegmentAnswer(p, "stripped", "none")
  <2>1. SegmentFits([pc |-> "segment", seg |-> s, how |-> "stripped", from |-> "none"])
    BY <1>4 DEF SegmentFits
  <2> QED
    BY <1>1, <1>2, <1>4, <2>1, Answers
<1>5. CASE s.body # "png" /\ ~Transport(s) /\ SegmentAnswer(p, "same", "none")
  <2>1. SegmentFits([pc |-> "segment", seg |-> s, how |-> "same", from |-> "none"])
    BY <1>5 DEF SegmentFits
  <2> QED
    BY <1>1, <1>2, <1>5, <2>1, Answers
<1>6. CASE s.body # "png" /\ s.size # "normal" /\ SegmentAnswer(p, "same", "none")
  <2>1. SegmentFits([pc |-> "segment", seg |-> s, how |-> "same", from |-> "none"])
    BY <1>6 DEF SegmentFits
  <2> QED
    BY <1>1, <1>2, <1>6, <2>1, Answers
<1>7. CASE s.body # "png" /\ s.size = "normal" /\ player' = [player EXCEPT ![p].pc = "look"]
  <2>1. PICK r : r = [old EXCEPT !.pc = "look"]
    OBVIOUS
  <2>2. player' = [player EXCEPT ![p] = r]
    BY <1>1, <1>7, <2>1
  <2>3. s \in Plain
    BY <1>3, <1>7 DEF Plain
  <2>4. old = [pc |-> "segfetch", seg |-> s]
    BY <1>1, <1>2, <1>3
  <2>5. r = [pc |-> "look", seg |-> s]
    BY <2>1, <2>4
  <2>6. r \in [pc : {"look", "probequeue", "probe"}, seg : Plain] /\ r.pc = "look"
    BY <2>3, <2>5
  <2>7. Doing(r)
    BY <2>6 DEF Doing
  <2> QED
    BY <1>2, <2>2, <2>6, <2>7, NotPermitted, MoveOnly
<1> QED
  BY <1>1, <1>4, <1>5, <1>6, <1>7 DEF SegmentArrives

\* What a decision about its rendition asks for is done.
LEMMA Processed ==
  ASSUME LiveInv, NEW p \in Player, NEW s, s = player[p].seg, s \in Plain,
         NEW nature, NEW from, nature \in Natures, from = s.dir,
         nature = "clean" => \E other \in Segments : other.dir = s.dir /\ other.nature = "clean",
         Process(p, nature, from)
  PROVE  \E r : Doing(r) /\ Permitted(p, r) /\ player' = [player EXCEPT ![p] = r]
<1>1. s \in Segments /\ s.body # "png" /\ s.size = "normal" /\ from \in Dir
  BY LiveConstants DEF Plain
<1>2. CASE nature = "clean"
  <2>1. PICK r : r = [pc |-> "segment", seg |-> s, how |-> "same", from |-> from]
    OBVIOUS
  <2>2. player' = [player EXCEPT ![p] = r]
    BY <1>2, <2>1 DEF Process, SegmentAnswer
  <2>3. r.pc = "segment" /\ r.seg = s /\ r.how = "same" /\ r.from = from
    BY <2>1
  <2>4. SegmentFits(r)
    BY <1>1, <1>2, <2>3 DEF SegmentFits
  <2>5. Doing(r) /\ Permitted(p, r)
    BY <2>3, <2>4, NotPermitted DEF Doing
  <2> QED
    BY <2>2, <2>5
<1>3. CASE nature # "clean"
  <2>1. PICK r : r = [pc |-> "encodequeue", seg |-> s, need |-> nature, from |-> from]
    OBVIOUS
  <2>2. player' = [player EXCEPT ![p] = r]
    BY <1>3, <2>1 DEF Process
  <2>3. nature \in {"audio", "data"}
    BY <1>3 DEF Natures
  <2>4. r \in [pc : {"encodequeue", "encode"}, seg : Plain, need : {"audio", "data"}, from : Dir]
        /\ r.from = r.seg.dir /\ r.pc = "encodequeue"
    BY <1>1, <2>1, <2>3
  <2>5. Doing(r) /\ Permitted(p, r)
    BY <2>4, NotPermitted DEF Doing
  <2> QED
    BY <2>2, <2>5
<1> QED
  BY <1>2, <1>3

LEMMA LookAtDecisionInv == ASSUME LiveInv, NEW p \in Player, LookAtDecision(p) PROVE LiveInv'
<1>1. PICK old, s : old = player[p] /\ s = old.seg
  OBVIOUS
<1>2. Doing(old) /\ old.pc = "look" /\ UNCHANGED <<beat, edge, lists, decision>>
  BY <1>1 DEF LiveInv, PlayersOK, LookAtDecision
<1>3. old \in [pc : {"look", "probequeue", "probe"}, seg : Plain] /\ s \in Plain
  BY <1>1, <1>2, DoingStages
<1>4. PICK d : d = s.dir
  OBVIOUS
<1>5. d \in Dir
  BY <1>3, <1>4, LiveConstants DEF Plain
<1>6. CASE FreshDecision(d)
  <2>1. PICK nature, from : nature = decision[d].nature /\ from = decision[d].from
    OBVIOUS
  <2>2. LikeOne(d, decision[d])
    BY <1>5, <1>6 DEF LiveInv, DecisionsOK, FreshDecision
  <2>3. nature \in Natures /\ from = s.dir
        /\ (nature = "clean" => \E other \in Segments : other.dir = s.dir /\ other.nature = "clean")
    BY <1>4, <2>1, <2>2 DEF LikeOne
  <2>4. Process(p, nature, from)
    BY <1>1, <1>4, <1>6, <2>1 DEF LookAtDecision, StreamKey
  <2>5. PICK r : Doing(r) /\ Permitted(p, r) /\ player' = [player EXCEPT ![p] = r]
    BY <1>1, <1>3, <2>3, <2>4, Processed
  <2> QED
    BY <1>2, <2>5, MoveOnly
<1>7. CASE ~FreshDecision(d)
  <2>1. PICK r : r = [old EXCEPT !.pc = "probequeue"]
    OBVIOUS
  <2>2. player' = [player EXCEPT ![p] = r]
    BY <1>1, <1>4, <1>7, <2>1 DEF LookAtDecision, StreamKey
  <2>3. r \in [pc : {"look", "probequeue", "probe"}, seg : Plain] /\ r.pc = "probequeue"
    BY <1>3, <2>1
  <2>4. Doing(r)
    BY <2>3 DEF Doing
  <2> QED
    BY <1>2, <2>2, <2>3, <2>4, NotPermitted, MoveOnly
<1> QED
  BY <1>6, <1>7

LEMMA StartProcessInv == ASSUME LiveInv, NEW p \in Player, StartProcess(p) PROVE LiveInv'
<1>1. PICK old : old = player[p]
  OBVIOUS
<1>2. Doing(old) /\ UNCHANGED <<beat, edge, lists, decision>>
  BY <1>1 DEF LiveInv, PlayersOK, StartProcess
<1>3. CASE /\ old.pc = "probequeue" /\ Cardinality(InStage("probe")) < ProbePermits
           /\ player' = [player EXCEPT ![p].pc = "probe"]
  <2>1. PICK r : r = [old EXCEPT !.pc = "probe"]
    OBVIOUS
  <2>2. player' = [player EXCEPT ![p] = r]
    BY <1>1, <1>3, <2>1
  <2>3. old \in [pc : {"look", "probequeue", "probe"}, seg : Plain]
    BY <1>2, <1>3, DoingStages
  <2>4. r \in [pc : {"look", "probequeue", "probe"}, seg : Plain] /\ r.pc = "probe"
    BY <2>1, <2>3
  <2>5. Doing(r) /\ Permitted(p, r)
    BY <1>3, <2>4 DEF Doing, Permitted, Curls
  <2> QED
    BY <1>2, <2>2, <2>5, MoveOnly
<1>4. CASE /\ old.pc = "encodequeue" /\ Cardinality(InStage("encode")) < EncodePermits
           /\ player' = [player EXCEPT ![p].pc = "encode"]
  <2>1. PICK r : r = [old EXCEPT !.pc = "encode"]
    OBVIOUS
  <2>2. player' = [player EXCEPT ![p] = r]
    BY <1>1, <1>4, <2>1
  <2>3. old \in [pc : {"encodequeue", "encode"}, seg : Plain, need : {"audio", "data"}, from : Dir]
        /\ old.from = old.seg.dir
    BY <1>2, <1>4, DoingStages
  <2>4. r \in [pc : {"encodequeue", "encode"}, seg : Plain, need : {"audio", "data"}, from : Dir]
        /\ r.pc = "encode" /\ r.from = r.seg.dir
    BY <2>1, <2>3
  <2>5. Doing(r) /\ Permitted(p, r)
    BY <1>4, <2>4 DEF Doing, Permitted, Curls
  <2> QED
    BY <1>2, <2>2, <2>5, MoveOnly
<1> QED
  BY <1>1, <1>3, <1>4 DEF StartProcess

LEMMA ProbeTellsInv == ASSUME LiveInv, NEW p \in Player, ProbeTells(p) PROVE LiveInv'
<1>1. PICK old, s : old = player[p] /\ s = old.seg
  OBVIOUS
<1>2. Doing(old) /\ old.pc = "probe" /\ UNCHANGED <<beat, edge, lists>>
  BY <1>1 DEF LiveInv, PlayersOK, ProbeTells
<1>3. old \in [pc : {"look", "probequeue", "probe"}, seg : Plain] /\ s \in Plain
  BY <1>1, <1>2, DoingStages
<1>4. s \in Segments /\ s.dir \in Dir /\ s.nature \in Natures
  BY <1>3, LiveConstants DEF Plain
<1>5. PICK d, c : d = s.dir /\ c = [nature |-> s.nature, from |-> s.dir, at |-> beat]
  OBVIOUS
<1>6. decision' = [decision EXCEPT ![d] = c] /\ Process(p, s.nature, s.dir)
  BY <1>1, <1>5 DEF ProbeTells, StreamKey
<1>7. PICK r : Doing(r) /\ Permitted(p, r) /\ player' = [player EXCEPT ![p] = r]
  <2>1. s.nature = "clean" => \E other \in Segments : other.dir = s.dir /\ other.nature = "clean"
    BY <1>4
  <2> QED
    BY <1>1, <1>3, <1>4, <1>6, <2>1, Processed
<1>8. PlayersOK' /\ PermitsOK'
  BY <1>7, MoveKeeps DEF LiveInv
<1>9. beat' = beat /\ edge' = edge /\ lists' = lists
  BY <1>2
<1>10. DecisionsOK'
  <2>1. beat \in 0 .. LastBeat /\ LastBeat \in Nat
    BY LiveConstants DEF LiveInv, ClockOK
  <2>2. c \in Made(beat) /\ LikeOne(d, c)
    BY <1>4, <1>5, <2>1 DEF Made, LikeOne, Natures
  <2>3. decision \in [Dir -> Made(beat)] /\ \A e \in Dir : decision[e] # Undecided => LikeOne(e, decision[e])
    BY DEF LiveInv, DecisionsOK
  <2>4. decision' \in [Dir -> Made(beat)] /\ \A e \in Dir : decision'[e] = IF e = d THEN c ELSE decision[e]
    BY <1>4, <1>5, <1>6, <2>2, <2>3
  <2>5. \A e \in Dir : decision'[e] # Undecided => LikeOne(e, decision'[e])
    BY <2>2, <2>3, <2>4
  <2> QED
    BY <1>9, <2>4, <2>5 DEF DecisionsOK
<1>11. ListsOK' /\ ClockOK'
  BY <1>9 DEF LiveInv, ListsOK, ClockOK
<1> QED
  BY <1>8, <1>10, <1>11 DEF LiveInv

LEMMA ProbeFailsInv == ASSUME LiveInv, NEW p \in Player, ProbeFails(p) PROVE LiveInv'
<1>1. PICK old, s : old = player[p] /\ s = old.seg
  OBVIOUS
<1>2. Doing(old) /\ old.pc = "probe" /\ UNCHANGED <<beat, edge, lists, decision>>
      /\ SegmentAnswer(p, "same", "failure")
  BY <1>1 DEF LiveInv, PlayersOK, ProbeFails
<1>3. s \in Plain
  BY <1>1, <1>2, DoingStages
<1>4. SegmentFits([pc |-> "segment", seg |-> s, how |-> "same", from |-> "failure"])
  BY <1>3 DEF SegmentFits, Plain
<1> QED
  BY <1>1, <1>2, <1>4, Answers

LEMMA EncodeEndsInv == ASSUME LiveInv, NEW p \in Player, EncodeEnds(p) PROVE LiveInv'
<1>1. PICK old, s : old = player[p] /\ s = old.seg
  OBVIOUS
<1>2. Doing(old) /\ old.pc = "encode" /\ UNCHANGED <<beat, edge, lists, decision>>
  BY <1>1 DEF LiveInv, PlayersOK, EncodeEnds
<1>3. s \in Plain /\ old.from = s.dir
  BY <1>1, <1>2, DoingStages
<1>4. CASE player' = [player EXCEPT ![p] = Blank]
  BY <1>2, <1>4, Rests
<1>5. ASSUME NEW how \in {"encoded", "remuxed"}, SegmentAnswer(p, how, old.from) PROVE LiveInv'
  <2>1. SegmentFits([pc |-> "segment", seg |-> s, how |-> how, from |-> old.from])
    BY <1>3, <1>5 DEF SegmentFits, Plain
  <2> QED
    BY <1>1, <1>2, <1>5, <2>1, Answers
<1> QED
  BY <1>1, <1>4, <1>5 DEF EncodeEnds

LEMMA ServePlaylistInv == ASSUME LiveInv, NEW p \in Player, ServePlaylist(p) PROVE LiveInv'
<1>1. PICK old, key : old = player[p] /\ key = old.key
  OBVIOUS
<1>2. Doing(old) /\ old.pc \in {"fetch", "browse"} /\ UNCHANGED <<beat, edge, decision>>
  BY <1>1 DEF LiveInv, PlayersOK, ServePlaylist
<1>3. key \in Keys
  BY <1>1, <1>2, DoingStages
<1>4. PICK l \in Playlist, trusted \in BOOLEAN, direct \in BOOLEAN : key = <<l, trusted, direct>>
  BY <1>3 DEF Keys
<1>5. key[1] = l /\ key[2] = trusted /\ key[3] = direct
  BY <1>4
<1>6. PICK said, lines, public :
        /\ said = Upstream(l)
        /\ lines = RouteToWorker(Rewrite(said, l, trusted, direct), l, trusted)
        /\ public = (trusted /\ Immutable(said))
  OBVIOUS
<1>7. PICK r : r = ListAnswer(key, lines, public, said)
  OBVIOUS
<1>8. player' = [player EXCEPT ![p] = r] /\ (IF public THEN StoreList(key, lines) ELSE UNCHANGED lists)
  BY <1>1, <1>5, <1>6, <1>7 DEF ServePlaylist
<1>9. ListFits(r) /\ lines \in Seq(TypedLine) /\ (public => FitsAll(key, lines))
  <2>1. CASE l \in DOMAIN Fixed
    <3>1. said = Fixed[l]
      BY <1>6, <2>1, LiveAssumption DEF Upstream
    <3>2. lines = RouteToWorker(Rewrite(Fixed[l], l, trusted, direct), l, trusted) /\ (public => trusted)
      BY <1>6, <3>1
    <3>3. lines \in Seq(TypedLine) /\ ListFits(ListAnswer(<<l, trusted, direct>>, lines, public, Fixed[l]))
      BY <2>1, <3>2, FixedServed
    <3>4. ASSUME public PROVE FitsAll(key, lines)
      <4>1. PICK yes : yes = TRUE
        OBVIOUS
      <4>2. yes => trusted
        BY <3>2, <3>4
      <4>3. ListFits(ListAnswer(<<l, trusted, direct>>, lines, yes, Fixed[l]))
        BY <2>1, <3>2, <4>2, FixedServed
      <4> QED
        BY <1>4, <1>5, <2>1, <3>2, <3>4, <4>1, <4>3 DEF FitsAll
    <3> QED
      BY <1>4, <1>7, <3>1, <3>3, <3>4
  <2>2. CASE l \notin DOMAIN Fixed
    <3>1. l = Rolling
      BY <2>2 DEF Playlist
    <3>2. PICK m : m = edge - UpstreamKept + 1
      OBVIOUS
    <3>3. m \in Nat
      <4>1. edge \in UpstreamKept .. LastEdge
        BY DEF LiveInv, ClockOK
      <4> QED
        BY <3>2, <4>1, LiveConstants
    <3>4. said = RollLines(m)
      BY <1>6, <3>1, <3>2 DEF Upstream, RollingLines, RollLines, RawBlocks
    <3>5. lines = RouteToWorker(Rewrite(RollLines(m), Rolling, trusted, direct), Rolling, trusted)
      BY <1>6, <3>1, <3>4
    <3>6. ~public
      <4>1. "streaminf" \notin Tags(said) /\ "end" \notin Tags(said)
        BY <3>3, <3>4, RollSaid
      <4> QED
        BY <1>6, <4>1 DEF Immutable
    <3>7. lines \in Seq(TypedLine) /\ ListFits(ListAnswer(<<Rolling, trusted, direct>>, lines, public, RollLines(m)))
      BY <3>3, <3>5, <3>6, RollingServed
    <3> QED
      BY <1>4, <1>7, <3>1, <3>4, <3>6, <3>7
  <2> QED
    BY <2>1, <2>2
<1>10. Doing(r) /\ Permitted(p, r)
  <2>1. r.pc = "list"
    BY <1>7 DEF ListAnswer
  <2> QED
    BY <1>9, <2>1, NotPermitted DEF Doing
<1>11. PlayersOK' /\ PermitsOK'
  BY <1>8, <1>10, MoveKeeps DEF LiveInv
<1>12. beat' = beat /\ edge' = edge /\ decision' = decision
  BY <1>2
<1>13. ListsOK'
  <2>1. CASE public
    <3>1. StoreList(key, lines) /\ FitsAll(key, lines) /\ ListsOK /\ ClockOK
      BY <1>8, <1>9, <2>1 DEF LiveInv
    <3> QED
      BY <1>3, <1>9, <1>12, <3>1, StoreKeeps
  <2>2. CASE ~public
    <3>1. lists' = lists
      BY <1>8, <2>2
    <3> QED
      BY <1>12, <3>1 DEF LiveInv, ListsOK
  <2> QED
    BY <2>1, <2>2
<1>14. DecisionsOK' /\ ClockOK'
  BY <1>12 DEF LiveInv, DecisionsOK, ClockOK
<1> QED
  BY <1>11, <1>13, <1>14 DEF LiveInv

LEMMA PruneLiveInv == ASSUME LiveInv, PruneLive PROVE LiveInv'
<1>1. beat' = beat /\ edge' = edge /\ player' = player
  BY DEF PruneLive
<1>2. /\ lists \in [Keys -> KeptList(beat)] /\ decision \in [Dir -> Made(beat)]
      /\ \A k \in Keys : lists[k] # NoList => FitsAll(k, lists[k].lines)
      /\ \A d \in Dir : decision[d] # Undecided => LikeOne(d, decision[d])
      /\ beat \in Nat
  BY LiveConstants DEF LiveInv, ListsOK, DecisionsOK, ClockOK
<1>3. NoList \in KeptList(beat) /\ Undecided \in Made(beat)
  <2>1. PICK z : z = << >>
    OBVIOUS
  <2>2. NoList = [lines |-> z, at |-> -1] /\ z \in Seq(TypedLine)
    BY <2>1 DEF NoList
  <2> QED
    BY <1>2, <2>2 DEF KeptList, Undecided, Made
<1>4. ListsOK'
  <2>1. lists' = [k \in Keys |-> IF FreshList(k) THEN lists[k] ELSE NoList]
    BY <1>2 DEF PruneLive
  <2>2. lists' \in [Keys -> KeptList(beat)]
    BY <1>2, <1>3, <2>1
  <2>3. \A k \in Keys : lists'[k] # NoList => FitsAll(k, lists'[k].lines)
    BY <1>2, <2>1
  <2> QED
    BY <1>1, <2>2, <2>3 DEF ListsOK
<1>5. DecisionsOK'
  <2>1. PICK spared : decision' = [d \in Dir |-> IF d \in spared THEN decision[d] ELSE Undecided]
    BY DEF PruneLive
  <2>2. decision' \in [Dir -> Made(beat)]
    BY <1>2, <1>3, <2>1
  <2>3. \A d \in Dir : decision'[d] # Undecided => LikeOne(d, decision'[d])
    BY <1>2, <2>1
  <2> QED
    BY <1>1, <2>2, <2>3 DEF DecisionsOK
<1>6. ClockOK' /\ PlayersOK' /\ PermitsOK'
  BY <1>1 DEF LiveInv, ClockOK, PlayersOK, PermitsOK, Curling, InStage
<1> QED
  BY <1>4, <1>5, <1>6 DEF LiveInv

LEMMA BeatPassesInv == ASSUME LiveInv, BeatPasses PROVE LiveInv'
<1>1. /\ beat' = beat + 1 /\ beat < LastBeat /\ lists' = lists /\ decision' = decision /\ player' = player
      /\ edge' = edge \/ (edge < LastEdge /\ edge' = edge + 1)
  BY DEF BeatPasses
<1>2. ClockOK'
  BY <1>1, LiveConstants DEF LiveInv, ClockOK
<1>3. beat \in Nat
  BY LiveConstants DEF LiveInv, ClockOK
<1>4. ListsOK'
  <2>1. KeptList(beat) \subseteq KeptList(beat')
    BY <1>1, <1>3 DEF KeptList
  <2>2. lists \in [Keys -> KeptList(beat)]
    BY DEF LiveInv, ListsOK
  <2>3. lists' \in [Keys -> KeptList(beat')]
    BY <1>1, <2>1, <2>2
  <2>4. \A k \in Keys : lists'[k] # NoList => FitsAll(k, lists'[k].lines)
    BY <1>1 DEF LiveInv, ListsOK
  <2> QED
    BY <2>3, <2>4 DEF ListsOK
<1>5. DecisionsOK'
  <2>1. Made(beat) \subseteq Made(beat')
    BY <1>1, <1>3 DEF Made
  <2>2. decision \in [Dir -> Made(beat)]
    BY DEF LiveInv, DecisionsOK
  <2>3. decision' \in [Dir -> Made(beat')]
    BY <1>1, <2>1, <2>2
  <2>4. \A d \in Dir : decision'[d] # Undecided => LikeOne(d, decision'[d])
    BY <1>1 DEF LiveInv, DecisionsOK
  <2> QED
    BY <2>3, <2>4 DEF DecisionsOK
<1>6. PlayersOK' /\ PermitsOK'
  BY <1>1 DEF LiveInv, PlayersOK, PermitsOK, Curling, InStage
<1> QED
  BY <1>2, <1>4, <1>5, <1>6 DEF LiveInv

LEMMA LiveKeeps == LiveInv /\ [LiveNext]_liveVars => LiveInv'
<1> SUFFICES ASSUME LiveInv, [LiveNext]_liveVars PROVE LiveInv'
  OBVIOUS
<1>1. ASSUME NEW p \in Player, AskPlaylist(p) PROVE LiveInv'
  BY <1>1, AskPlaylistInv
<1>2. ASSUME NEW p \in Player, StartCurl(p) PROVE LiveInv'
  BY <1>2, StartCurlInv
<1>3. ASSUME NEW p \in Player, ServePlaylist(p) PROVE LiveInv'
  BY <1>3, ServePlaylistInv
<1>4. ASSUME NEW p \in Player, FetchForbidden(p) PROVE LiveInv'
  BY <1>4, FetchForbiddenInv
<1>5. ASSUME NEW p \in Player, UpstreamFails(p) \/ PlayerLeaves(p) PROVE LiveInv'
  BY <1>5, LeavesInv
<1>6. ASSUME NEW p \in Player, AskSegment(p) PROVE LiveInv'
  BY <1>6, AskSegmentInv
<1>7. ASSUME NEW p \in Player, SegmentArrives(p) PROVE LiveInv'
  BY <1>7, SegmentArrivesInv
<1>8. ASSUME NEW p \in Player, LookAtDecision(p) PROVE LiveInv'
  BY <1>8, LookAtDecisionInv
<1>9. ASSUME NEW p \in Player, StartProcess(p) PROVE LiveInv'
  BY <1>9, StartProcessInv
<1>10. ASSUME NEW p \in Player, ProbeTells(p) PROVE LiveInv'
  BY <1>10, ProbeTellsInv
<1>11. ASSUME NEW p \in Player, ProbeFails(p) PROVE LiveInv'
  BY <1>11, ProbeFailsInv
<1>12. ASSUME NEW p \in Player, EncodeEnds(p) PROVE LiveInv'
  BY <1>12, EncodeEndsInv
<1>13. CASE PruneLive
  BY <1>13, PruneLiveInv
<1>14. CASE BeatPasses
  BY <1>14, BeatPassesInv
<1>15. CASE UNCHANGED liveVars
  <2>1. beat' = beat /\ edge' = edge /\ lists' = lists /\ decision' = decision /\ player' = player
    BY <1>15 DEF liveVars
  <2>2. ListsOK' /\ DecisionsOK' /\ ClockOK'
    BY <2>1, CachesStay DEF LiveInv
  <2>3. PlayersOK' /\ PermitsOK'
    BY <2>1 DEF LiveInv, PlayersOK, PermitsOK, Curling, InStage
  <2> QED
    BY <2>2, <2>3 DEF LiveInv
<1> QED
  BY <1>1, <1>2, <1>3, <1>4, <1>5, <1>6, <1>7, <1>8, <1>9, <1>10, <1>11, <1>12,
     <1>13, <1>14, <1>15 DEF LiveNext

LEMMA LiveSaysRight == ASSUME LiveInv PROVE LiveRight
<1>1. \A p \in Player : Doing(player[p])
  BY DEF LiveInv, PlayersOK
<1>2. ListsRight /\ SegmentsRight
  BY <1>1, DoingStages DEF ListsRight, SegmentsRight
<1>3. PermitsKept
  BY DEF LiveInv, PermitsOK, PermitsKept, Within
<1>4. LiveTypeOK
  BY <1>1, DoingStages DEF LiveTypeOK, LiveInv, ClockOK, ListsOK, DecisionsOK, PlayersOK, KeptList, Made, Keys
<1> QED
  BY <1>2, <1>3, <1>4 DEF LiveRight

\* LiveRight holds in every reachable state, for any upstream playlists and
\* segments, whatever the caches' sizes and ages and the number of permits: a
\* player gets a playlist that fits its request, whoever's fetch it is from,
\* and a segment its browser can play, but for the named cases.
THEOREM LiveSafe == LiveSpec => []LiveRight
<1>1. LiveInit => LiveInv
  BY LiveInitInv
<1>2. LiveInv /\ [LiveNext]_liveVars => LiveInv'
  BY LiveKeeps
<1>3. LiveInv => LiveRight
  BY LiveSaysRight
<1> QED
  BY <1>1, <1>2, <1>3, PTL DEF LiveSpec
-----------------------------------------------------------------------------
\* An index is that of one track.
Distinct(list) == \A t, u \in ToSet(list) : t.index = u.index => t = u
Tracks == {list \in Seq(MediaTrack) : Distinct(list)}

LEMMA TrackTyped == ASSUME NEW s \in FileStream PROVE Track(s) \in MediaTrack
<1>1. <<"inner", s.index>> \in {"inner", "beside", "open", "addon"} \X Int
  BY DEF FileStream
<1> QED
  BY <1>1 DEF Track, FileStream, MediaTrack

LEMMA FoundTyped ==
  ASSUME NEW base \in {"open", "addon"}, NEW item \in SearchItem
  PROVE  Found(base, item) \in MediaTrack
<1>1. <<base, item.id>> \in {"inner", "beside", "open", "addon"} \X Int
  BY DEF SearchItem
<1> QED
  BY <1>1 DEF Found, SearchItem, MediaTrack

LEMMA NoTrackIsNone == NoTrack \notin MediaTrack
<1>1. ASSUME NoTrack \in MediaTrack PROVE FALSE
  <2>1. NoTrack.index \in {"inner", "beside", "open", "addon"} \X Int
    BY <1>1 DEF MediaTrack
  <2>2. NoTrack.index = <<"none", -1>>
    BY DEF NoTrack
  <2>3. <<"none", -1>> \in {"inner", "beside", "open", "addon"} \X Int
    BY <2>1, <2>2
  <2> QED
    BY <2>3
<1> QED
  BY <1>1

LEMMA EmptyTracks == << >> \in Tracks /\ << >> \in Seq(MediaTrack)
<1>1. ToSet(<< >>) = {}
  BY DEF ToSet
<1> QED
  BY <1>1 DEF Tracks, Distinct

\* A track of a content is that of one of its streams.
LEMMA TracksOfKindFacts ==
  ASSUME NEW v \in DOMAIN Contents, NEW kind
  PROVE  TracksOfKind(v, kind) \in Tracks
<1>1. PICK S : S = {s \in FileStream : s.index >= 0 /\ s.kind = kind}
  OBVIOUS
<1>2. PICK list : list = Contents[v]
  OBVIOUS
<1>3. list \in Seq(FileStream)
  <2>1. Contents \in Seq(Seq(FileStream))
    BY MediaAssumption
  <2> QED
    BY <1>2, <2>1
<1>4. PICK streams : streams = Select(list, S)
  OBVIOUS
<1>5. streams \in Seq(FileStream) /\ ToSet(streams) = ToSet(list) \cap S
  BY <1>3, <1>4, SelectFacts
<1>6. streams \in Seq(FileStream)
  BY <1>5
<1>7. PICK n : n = Len(streams) /\ DOMAIN streams = 1 .. n
  BY <1>6
<1>8. n \in Nat /\ \A i \in 1 .. n : streams[i] \in FileStream
  BY <1>6, <1>7
<1>9. PICK out : out = [i \in 1 .. n |-> Track(streams[i])]
  OBVIOUS
<1>10. TracksOfKind(v, kind) = out
  BY <1>1, <1>2, <1>4, <1>7, <1>9 DEF TracksOfKind
<1>11. \A i \in 1 .. n : Track(streams[i]) \in MediaTrack
  BY <1>8, TrackTyped
<1>12. out \in Seq(MediaTrack) /\ Len(out) = n
  BY <1>8, <1>9, <1>11
<1>13. ToSet(out) = {out[i] : i \in 1 .. n}
  BY <1>12, InList
<1>14. ASSUME NEW i \in 1 .. n
       PROVE  \E a \in 1 .. Len(list) : streams[i] = list[a] /\ list[a] \in S
  <2>1. ToSet(streams) = {streams[l] : l \in 1 .. n}
    BY <1>6, <1>7, InList
  <2>2. streams[i] \in ToSet(list) \cap S
    BY <1>5, <2>1
  <2>3. ToSet(list) = {list[l] : l \in 1 .. Len(list)}
    BY <1>3, InList
  <2> QED
    BY <2>2, <2>3
<1>15. ASSUME NEW i \in 1 .. n, NEW j \in 1 .. n, out[i].index = out[j].index
       PROVE  out[i] = out[j]
  <2>1. PICK a \in 1 .. Len(list) : streams[i] = list[a] /\ list[a] \in S
    BY <1>14
  <2>2. PICK b \in 1 .. Len(list) : streams[j] = list[b] /\ list[b] \in S
    BY <1>14
  <2>3. out[i] = Track(streams[i]) /\ out[j] = Track(streams[j])
    BY <1>9
  <2>4. out[i].index = <<"inner", streams[i].index>> /\ out[j].index = <<"inner", streams[j].index>>
    BY <2>3 DEF Track
  <2>5. streams[i].index = streams[j].index
    <3>1. PICK x, y : x = streams[i].index /\ y = streams[j].index
      OBVIOUS
    <3>2. <<"inner", x>> = <<"inner", y>>
      BY <1>15, <2>4, <3>1
    <3>3. x = y
      BY <3>2
    <3> QED
      BY <3>1, <3>3
  <2>6. list[a].index = list[b].index /\ list[a].index >= 0
    BY <1>1, <2>1, <2>2, <2>5
  <2>7. DOMAIN list = 1 .. Len(list)
    BY <1>3
  <2>8. a = b
    BY <1>2, <2>6, <2>7, MediaAssumption
  <2> QED
    BY <2>1, <2>2, <2>3, <2>8
<1>16. Distinct(out)
  BY <1>13, <1>15 DEF Distinct
<1> QED
  BY <1>10, <1>12, <1>16 DEF Tracks

LEMMA MergedFacts ==
  ASSUME NEW preferred \in Seq(MediaTrack), NEW fallback \in Seq(MediaTrack)
  PROVE  Merged(preferred, fallback) \in Tracks
<1>1. PICK all : all = preferred \o fallback
  OBVIOUS
<1>2. all \in Seq(MediaTrack)
  BY <1>1
<1>3. PICK n : n = Len(all)
  OBVIOUS
<1>4. n \in Nat /\ DOMAIN all = 1 .. n /\ \A i \in 1 .. n : all[i] \in MediaTrack
  BY <1>2, <1>3
<1>5. PICK new : new = {i \in 1 .. n : \A j \in 1 .. n : j < i => all[j].index # all[i].index}
  OBVIOUS
<1>6. PICK out : out = Chosen(all, Select([i \in DOMAIN all |-> i], new))
  OBVIOUS
<1>7. new \subseteq 1 .. Len(all)
  BY <1>3, <1>5
<1>8. out \in Seq(MediaTrack) /\ ToSet(out) = {all[i] : i \in new}
  BY <1>2, <1>6, <1>7, ChosenFacts
<1>9. Merged(preferred, fallback) = out
  BY <1>1, <1>4, <1>5, <1>6 DEF Merged
<1>10. ASSUME NEW i \in new, NEW j \in new, all[i].index = all[j].index PROVE i = j
  <2>1. i \in 1 .. n /\ j \in 1 .. n
    BY <1>5
  <2>2. ~(i < j) /\ ~(j < i)
    BY <1>5, <1>10
  <2> QED
    BY <1>4, <2>1, <2>2
<1>11. Distinct(out)
  BY <1>8, <1>10 DEF Distinct
<1> QED
  BY <1>8, <1>9, <1>11 DEF Tracks

\* What is found under items of which one with the same id is the same.
SameUnderId(items) ==
  \A x, y \in ToSet(items) : x.id = y.id => x.lang = y.lang /\ x.tag = y.tag

LEMMA FoundFacts ==
  ASSUME NEW items \in Seq(SearchItem), SameUnderId(items), NEW base \in {"open", "addon"},
         NEW n \in Nat, n <= Len(items),
         NEW out, out = [i \in 1 .. n |-> Found(base, items[i])]
  PROVE  out \in Tracks
<1>1. \A i \in 1 .. n : items[i] \in SearchItem /\ items[i] \in ToSet(items)
  <2>1. ToSet(items) = {items[i] : i \in 1 .. Len(items)}
    BY InList
  <2>2. Len(items) \in Nat /\ \A i \in 1 .. Len(items) : items[i] \in SearchItem
    OBVIOUS
  <2>3. 1 .. n \subseteq 1 .. Len(items)
    BY <2>2
  <2> QED
    BY <2>1, <2>2, <2>3
<1>2. \A i \in 1 .. n : Found(base, items[i]) \in MediaTrack
  BY <1>1, FoundTyped
<1>3. out \in Seq(MediaTrack) /\ Len(out) = n
  BY <1>2
<1>4. ToSet(out) = {out[i] : i \in 1 .. n}
  BY <1>3, InList
<1>5. ASSUME NEW i \in 1 .. n, NEW j \in 1 .. n, out[i].index = out[j].index
      PROVE  out[i] = out[j]
  <2>1. PICK x, y : x = items[i] /\ y = items[j]
    OBVIOUS
  <2>2. out[i] = Found(base, x) /\ out[j] = Found(base, y)
    BY <2>1
  <2>3. <<base, x.id>> = <<base, y.id>>
    BY <1>5, <2>2 DEF Found
  <2>4. x.id = y.id
    BY <2>3
  <2>5. x.lang = y.lang /\ x.tag = y.tag
    BY <1>1, <2>1, <2>4 DEF SameUnderId
  <2> QED
    BY <2>2, <2>4, <2>5 DEF Found
<1> QED
  BY <1>3, <1>4, <1>5 DEF Tracks, Distinct

LEMMA OpenFacts ==
  ASSUME NEW answer \in Ranked
  PROVE  OpenTracks(answer) \in Tracks
<1>1. answer \in Seq(SearchItem)
  BY MediaAssumption
<1>2. PICK S : S = {i \in SearchItem : i.id > 0 /\ i.lang # ""}
  OBVIOUS
<1>3. PICK items : items = Select(answer, S)
  OBVIOUS
<1>4. items \in Seq(SearchItem) /\ ToSet(items) = ToSet(answer) \cap S
  BY <1>1, <1>3, SelectFacts
<1>5. PICK before : before = {p \in SearchItem \X SearchItem : p[1].score > p[2].score}
  OBVIOUS
<1>6. Orders(before, SearchItem)
  <2>1. \A x, y \in SearchItem : <<x, y>> \in before <=> x.score > y.score
    BY <1>5
  <2>2. \A x \in SearchItem : x.score \in Int
    BY DEF SearchItem
  <2> QED
    BY <2>1, <2>2 DEF Orders
<1>7. PICK ranked : ranked = Sorted(items, before)
  OBVIOUS
<1>8. items \in Seq(SearchItem)
  BY <1>4
<1>9. ranked \in Seq(SearchItem) /\ ToSet(ranked) = ToSet(items)
  BY <1>6, <1>7, <1>8, SortedFacts
<1>10. PICK n : n = IF Len(ranked) < TrackLimit THEN Len(ranked) ELSE TrackLimit
  OBVIOUS
<1>11. ranked \in Seq(SearchItem)
  BY <1>9
<1>12. n \in Nat /\ n <= Len(ranked)
  <2>1. Len(ranked) \in Nat /\ TrackLimit \in Nat
    BY <1>11, MediaAssumption
  <2> QED
    BY <1>10, <2>1
<1>13. SameUnderId(ranked)
  <2>1. ToSet(answer) = {answer[i] : i \in 1 .. Len(answer)} /\ DOMAIN answer = 1 .. Len(answer)
    BY <1>1, InList
  <2>2. ToSet(ranked) \subseteq ToSet(answer)
    BY <1>4, <1>9
  <2>3. ASSUME NEW x \in ToSet(ranked), NEW y \in ToSet(ranked), x.id = y.id
        PROVE  x.lang = y.lang /\ x.tag = y.tag
    <3>1. PICK i, j \in 1 .. Len(answer) : x = answer[i] /\ y = answer[j]
      BY <2>1, <2>2
    <3>2. i \in DOMAIN answer /\ j \in DOMAIN answer /\ answer[i].id = answer[j].id
      BY <2>1, <2>3, <3>1
    <3>3. answer[i].lang = answer[j].lang /\ answer[i].tag = answer[j].tag
      BY <3>2, MediaAssumption
    <3> QED
      BY <3>1, <3>3
  <2> QED
    BY <2>3 DEF SameUnderId
<1>14. PICK out : out = [i \in 1 .. n |-> Found("open", ranked[i])]
  OBVIOUS
<1>15. out \in Tracks
  BY <1>11, <1>12, <1>13, <1>14, FoundFacts
<1>16. OpenTracks(answer) = out
  BY <1>2, <1>3, <1>5, <1>7, <1>10, <1>14 DEF OpenTracks
<1> QED
  BY <1>15, <1>16

LEMMA TakenFacts ==
  ASSUME NEW answer \in Seq(SearchItem), NEW speech
  PROVE  /\ WithinQuota(answer, speech) \subseteq 1 .. Len(answer)
         /\ \A i, j \in WithinQuota(answer, speech) : answer[i].id = answer[j].id => i = j
         /\ \A i \in WithinQuota(answer, speech) : answer[i].lang \in ToSet(Menu)
<1>1. PICK n : n = Len(answer)
  OBVIOUS
<1>2. n \in Nat /\ DOMAIN answer = 1 .. n
  BY <1>1
<1>3. PICK fit : fit = {i \in DOMAIN answer : answer[i].allowed /\ answer[i].id > 0
                                              /\ answer[i].lang \in ToSet(Menu)}
  OBVIOUS
<1>4. PICK new : new = {i \in fit : \A j \in fit : j < i => answer[j].id # answer[i].id}
  OBVIOUS
<1>5. WithinQuota(answer, speech) \subseteq new
  BY <1>3, <1>4 DEF WithinQuota
<1>6. new \subseteq fit /\ fit \subseteq 1 .. n
  BY <1>2, <1>3, <1>4
<1>7. ASSUME NEW i \in new, NEW j \in new, answer[i].id = answer[j].id PROVE i = j
  <2>1. i \in 1 .. n /\ j \in 1 .. n /\ i \in fit /\ j \in fit
    BY <1>6
  <2>2. ~(i < j) /\ ~(j < i)
    BY <1>4, <1>7, <2>1
  <2> QED
    BY <1>2, <2>1, <2>2
<1> QED
  BY <1>1, <1>3, <1>5, <1>6, <1>7

\* The menu has a rank for each.
LEMMA ByMenuFacts ==
  ASSUME NEW items \in Seq(SearchItem), NEW speech,
         \A x \in ToSet(items) : x.lang \in ToSet(Menu)
  PROVE  ByMenu(items, speech) \in Seq(SearchItem)
         /\ ToSet(ByMenu(items, speech)) = ToSet(items)
<1>1. PICK A : A = ToSet(items)
  OBVIOUS
<1>2. items \in Seq(A)
  <2>1. ToSet(items) = {items[i] : i \in 1 .. Len(items)}
    BY InList
  <2>2. \A i \in 1 .. Len(items) : items[i] \in A
    BY <1>1, <2>1
  <2>3. Len(items) \in Nat /\ items = [i \in 1 .. Len(items) |-> items[i]]
    OBVIOUS
  <2> QED
    BY <2>2, <2>3
<1>3. PICK before :
         before = {p \in A \X A : MenuRank(p[1].lang, speech) < MenuRank(p[2].lang, speech)}
  OBVIOUS
<1>4. ASSUME NEW x \in A PROVE MenuRank(x.lang, speech) \in Int
  <2>1. x.lang \in ToSet(Menu)
    BY <1>1
  <2>2. Menu \in Seq(Word)
    BY MediaAssumption
  <2>3. ToSet(Menu) = {Menu[m] : m \in 1 .. Len(Menu)} /\ DOMAIN Menu = 1 .. Len(Menu)
        /\ Len(Menu) \in Nat
    BY <2>2, InList
  <2>4. \E m \in DOMAIN Menu : Menu[m] = x.lang
    BY <2>1, <2>3
  <2>5. PICK at : at = CHOOSE m \in DOMAIN Menu : Menu[m] = x.lang
    OBVIOUS
  <2>6. at \in Int
    BY <2>3, <2>4, <2>5
  <2> QED
    BY <2>5, <2>6 DEF MenuRank
<1>5. Orders(before, A)
  <2>1. \A x, y \in A : <<x, y>> \in before
                          <=> MenuRank(x.lang, speech) < MenuRank(y.lang, speech)
    BY <1>3
  <2>2. PICK rank : rank = [x \in A |-> MenuRank(x.lang, speech)]
    OBVIOUS
  <2>3. rank \in [A -> Int]
    BY <1>4, <2>2
  <2>4. \A x, y \in A : <<x, y>> \in before <=> rank[x] < rank[y]
    BY <2>1, <2>2
  <2> QED
    BY <2>3, <2>4 DEF Orders
<1>6. PICK inMenu : inMenu = Sorted(items, before)
  OBVIOUS
<1>7. inMenu \in Seq(A) /\ ToSet(inMenu) = A
  BY <1>1, <1>2, <1>5, <1>6, SortedFacts
<1>8. A \subseteq SearchItem
  BY <1>1, InList
<1>9. inMenu \in Seq(A)
  BY <1>7
<1>10. inMenu \in Seq(SearchItem)
  BY <1>8, <1>9
<1>11. ByMenu(items, speech) = inMenu
  BY <1>1, <1>3, <1>6 DEF ByMenu
<1> QED
  BY <1>1, <1>7, <1>10, <1>11

LEMMA AddonFacts ==
  ASSUME NEW answer \in Addon, NEW pref
  PROVE  AddonTracks(answer, pref) \in Tracks
<1>1. answer \in Seq(SearchItem)
  BY MediaAssumption
<1>2. PICK speech : speech = IF pref \in {"", "off"} THEN "en" ELSE pref
  OBVIOUS
<1>3. PICK taken : taken = WithinQuota(answer, speech)
  OBVIOUS
<1>4. /\ taken \subseteq 1 .. Len(answer)
      /\ \A i, j \in taken : answer[i].id = answer[j].id => i = j
      /\ \A i \in taken : answer[i].lang \in ToSet(Menu)
  BY <1>1, <1>3, TakenFacts
<1>5. PICK items : items = Chosen(answer, Select([i \in DOMAIN answer |-> i], taken))
  OBVIOUS
<1>6. items \in Seq(SearchItem) /\ ToSet(items) = {answer[i] : i \in taken}
  <2>1. taken \subseteq 1 .. Len(answer)
    BY <1>4
  <2> QED
    BY <1>1, <1>5, <2>1, ChosenFacts
<1>7. PICK inMenu : inMenu = ByMenu(items, speech)
  OBVIOUS
<1>8. \A x \in ToSet(items) : x.lang \in ToSet(Menu)
  BY <1>4, <1>6
<1>9. items \in Seq(SearchItem)
  BY <1>6
<1>10. inMenu \in Seq(SearchItem) /\ ToSet(inMenu) = ToSet(items)
  BY <1>7, <1>8, <1>9, ByMenuFacts
<1>11. SameUnderId(inMenu)
  <2>1. ASSUME NEW x \in ToSet(inMenu), NEW y \in ToSet(inMenu), x.id = y.id PROVE x = y
    <3>1. PICK i, j \in taken : x = answer[i] /\ y = answer[j]
      BY <1>6, <1>10
    <3> QED
      BY <1>4, <2>1, <3>1
  <2> QED
    BY <2>1 DEF SameUnderId
<1>12. inMenu \in Seq(SearchItem)
  BY <1>10
<1>13. PICK m : m = Len(inMenu) /\ DOMAIN inMenu = 1 .. m
  BY <1>12
<1>14. m \in Nat /\ m <= Len(inMenu)
  BY <1>12, <1>13
<1>15. PICK out : out = [l \in 1 .. m |-> Found("addon", inMenu[l])]
  OBVIOUS
<1>16. out \in Tracks
  BY <1>11, <1>12, <1>14, <1>15, FoundFacts
<1>17. out = [l \in DOMAIN inMenu |-> Found("addon", inMenu[l])]
  BY <1>13, <1>15
<1>18. AddonTracks(answer, pref) = out
  BY <1>2, <1>3, <1>5, <1>7, <1>17 DEF AddonTracks
<1> QED
  BY <1>16, <1>18

\* The first of the sets that has a track gives one of it.
LEMMA FirstOfFacts ==
  ASSUME NEW tracks \in Seq(MediaTrack), NEW sets, NEW n \in Nat, DOMAIN sets = 1 .. n
  PROVE  \/ /\ FirstOf(tracks, sets) = NoTrack
            /\ \A k \in 1 .. n : ToSet(tracks) \cap sets[k] = {}
         \/ \E k \in 1 .. n :
              /\ FirstOf(tracks, sets) \in ToSet(tracks) \cap sets[k]
              /\ \A j \in 1 .. n : ToSet(tracks) \cap sets[j] # {} => k <= j
<1>1. PICK hits : hits = {k \in DOMAIN sets : ToSet(tracks) \cap sets[k] # {}}
  OBVIOUS
<1>2. CASE hits = {}
  <2>1. FirstOf(tracks, sets) = NoTrack
    BY <1>1, <1>2 DEF FirstOf
  <2> QED
    BY <1>1, <1>2, <2>1
<1>3. CASE hits # {}
  <2>1. hits \subseteq Nat
    BY <1>1
  <2>2. \E k \in hits : \A j \in hits : k <= j
    BY <1>3, <2>1, LeastOne
  <2>3. PICK k : k = CHOOSE i \in hits : \A j \in hits : i <= j
    OBVIOUS
  <2>4. k \in hits /\ \A j \in hits : k <= j
    BY <2>2, <2>3
  <2>5. PICK S, some : S = sets[k] /\ some = Select(tracks, S)
    OBVIOUS
  <2>6. some \in Seq(MediaTrack) /\ ToSet(some) = ToSet(tracks) \cap S
    BY <2>5, SelectFacts
  <2>7. some \in Seq(MediaTrack)
    BY <2>6
  <2>8. ToSet(some) # {}
    BY <1>1, <2>4, <2>5, <2>6
  <2>9. some[1] \in ToSet(some)
    BY <2>7, <2>8, InList
  <2>10. FirstOf(tracks, sets) = some[1]
    BY <1>1, <1>3, <2>3, <2>5 DEF FirstOf
  <2>11. k \in 1 .. n /\ FirstOf(tracks, sets) \in ToSet(tracks) \cap sets[k]
    BY <1>1, <2>4, <2>5, <2>6, <2>9, <2>10
  <2>12. \A j \in 1 .. n : ToSet(tracks) \cap sets[j] # {} => k <= j
    BY <1>1, <2>4
  <2> QED
    BY <2>11, <2>12
<1> QED
  BY <1>2, <1>3

\* What is right about an audio track.
AudioRight(a, tracks, pref) ==
  /\ a \in ToSet(tracks)
  /\ pref # "auto" /\ (\E t \in ToSet(tracks) : t.lang = pref) => a.lang = pref
  /\ Dubbed(a) => pref \in {a.lang, a.tag} \/ \A t \in ToSet(tracks) : Dubbed(t)

LEMMA AudioFacts ==
  ASSUME NEW tracks \in Seq(MediaTrack), NEW pref, ChooseAudio(tracks, pref) # NoTrack
  PROVE  AudioRight(ChooseAudio(tracks, pref), tracks, pref)
<1>1. PICK A, B, C, D, E, F, G, H :
        /\ A = {t \in MediaTrack : pref = "auto" /\ Original(t)}
        /\ B = {t \in MediaTrack : pref # "auto" /\ t.lang = pref}
        /\ C = {t \in MediaTrack : pref # "auto" /\ t.tag = pref}
        /\ D = {t \in MediaTrack : t.default /\ ~Dubbed(t)}
        /\ E = {t \in MediaTrack : ~Dubbed(t)}
        /\ F = {t \in MediaTrack : Original(t)}
        /\ G = {t \in MediaTrack : t.default}
        /\ H = MediaTrack
  OBVIOUS
<1>2. PICK sets : sets = <<A, B, C, D, E, F, G, H>>
  OBVIOUS
<1>3. DOMAIN sets = 1 .. 8
  BY <1>2
<1>4. /\ sets[1] = A /\ sets[2] = B /\ sets[3] = C /\ sets[4] = D
      /\ sets[5] = E /\ sets[6] = F /\ sets[7] = G /\ sets[8] = H
  BY <1>2
<1>5. PICK a : a = FirstOf(tracks, sets)
  OBVIOUS
<1>6. ChooseAudio(tracks, pref) = a
  BY <1>1, <1>2, <1>5 DEF ChooseAudio
<1>7. 8 \in Nat
  OBVIOUS
<1>8. PICK k \in 1 .. 8 : /\ a \in ToSet(tracks) \cap sets[k]
                          /\ \A j \in 1 .. 8 : ToSet(tracks) \cap sets[j] # {} => k <= j
  BY <1>3, <1>5, <1>6, <1>7, FirstOfFacts, ZenonT(40)
<1>9. a \in ToSet(tracks) /\ a \in MediaTrack /\ ToSet(tracks) \subseteq MediaTrack
  BY <1>8, InList
<1>10. ASSUME pref # "auto", NEW t \in ToSet(tracks), t.lang = pref PROVE a.lang = pref
  <2>1. t \in sets[2]
    BY <1>1, <1>4, <1>9, <1>10
  <2>2. k <= 2
    BY <1>8, <2>1
  <2>3. CASE k = 1
    BY <1>1, <1>4, <1>8, <1>10, <2>3
  <2>4. CASE k = 2
    BY <1>1, <1>4, <1>8, <2>4
  <2> QED
    BY <1>8, <2>2, <2>3, <2>4
<1>11. ASSUME Dubbed(a) PROVE pref \in {a.lang, a.tag} \/ \A t \in ToSet(tracks) : Dubbed(t)
  <2>1. ~Original(a)
    BY <1>11 DEF Dubbed, Original
  <2>2. k # 1 /\ k # 4 /\ k # 5 /\ k # 6
    BY <1>1, <1>4, <1>8, <1>11, <2>1
  <2>3. CASE k \in {2, 3}
    BY <1>1, <1>4, <1>8, <2>3
  <2>4. CASE k \in {7, 8}
    <3>1. ToSet(tracks) \cap sets[5] = {}
      BY <1>8, <2>4
    <3> QED
      BY <1>1, <1>4, <1>9, <3>1
  <2> QED
    BY <1>8, <2>2, <2>3, <2>4
<1> QED
  BY <1>6, <1>9, <1>10, <1>11 DEF AudioRight

\* What is right about a subtitle.
SubtitleRight(s, tracks, pref) ==
  LET speaks == {t \in ToSet(tracks) : t.plays /\ t.lang = pref}
  IN /\ s # NoTrack => /\ s \in ToSet(tracks) /\ s.plays /\ pref \notin {"", "off"}
                       /\ speaks # {} => s \in speaks
                       /\ s.tag = "forced" /\ s \in speaks =>
                            \A t \in speaks : t.tag = "forced"
     /\ s = NoTrack /\ pref \notin {"", "off"} => \A t \in ToSet(tracks) : ~t.plays

LEMMA FirstByPreference ==
  ASSUME NEW tracks \in Seq(MediaTrack), tracks # << >>
  PROVE  LET s == ByPlaybackPreference(tracks)[1]
         IN s \in ToSet(tracks) /\ \A t \in ToSet(tracks) : Late(s) <= Late(t)
<1>1. PICK before : before = {p \in MediaTrack \X MediaTrack : Late(p[1]) < Late(p[2])}
  OBVIOUS
<1>2. \A t \in MediaTrack : Late(t) \in Int
  BY DEF Late
<1>3. \A x, y \in MediaTrack : <<x, y>> \in before <=> Late(x) < Late(y)
  BY <1>1
<1>4. Orders(before, MediaTrack)
  <2>1. PICK late : late = [x \in MediaTrack |-> Late(x)]
    OBVIOUS
  <2>2. late \in [MediaTrack -> Int]
    BY <1>2, <2>1
  <2>3. \A x, y \in MediaTrack : <<x, y>> \in before <=> late[x] < late[y]
    BY <1>3, <2>1
  <2> QED
    BY <2>2, <2>3 DEF Orders
<1>5. PICK out, n : out = Sorted(tracks, before) /\ n = Len(tracks)
  OBVIOUS
<1>6. /\ out \in Seq(MediaTrack) /\ Len(out) = n /\ ToSet(out) = ToSet(tracks)
      /\ \A l, m \in 1 .. n : l < m => <<out[m], out[l]>> \notin before
  BY <1>4, <1>5, SortedFacts
<1>7. out \in Seq(MediaTrack)
  BY <1>6
<1>8. n \in Nat /\ n >= 1
  BY <1>5
<1>9. ToSet(out) = {out[m] : m \in 1 .. n} /\ ToSet(out) \subseteq MediaTrack
  BY <1>6, <1>7, InList
<1>10. out[1] \in ToSet(tracks)
  BY <1>6, <1>8, <1>9
<1>11. ASSUME NEW t \in ToSet(tracks) PROVE Late(out[1]) <= Late(t)
  <2>1. PICK m \in 1 .. n : t = out[m]
    BY <1>6, <1>9
  <2>2. CASE m = 1
    <3>1. t \in MediaTrack
      BY <1>6, <1>9
    <3>2. Late(t) \in Int
      BY <1>2, <3>1
    <3> QED
      BY <2>1, <2>2, <3>2
  <2>3. CASE m # 1
    <3>1. <<out[m], out[1]>> \notin before
      BY <1>6, <1>8, <2>3
    <3>2. out[m] \in MediaTrack /\ out[1] \in MediaTrack
      BY <1>6, <1>8, <1>9
    <3>3. ~(Late(out[m]) < Late(out[1])) /\ Late(out[m]) \in Int /\ Late(out[1]) \in Int
      BY <1>2, <1>3, <3>1, <3>2
    <3> QED
      BY <2>1, <3>3
  <2> QED
    BY <2>2, <2>3
<1>12. ByPlaybackPreference(tracks) = out
  BY <1>1, <1>5 DEF ByPlaybackPreference
<1> QED
  BY <1>10, <1>11, <1>12

LEMMA ForcedIsLate ==
  ASSUME NEW s \in MediaTrack, NEW t \in MediaTrack, s.tag = "forced", Late(s) <= Late(t)
  PROVE  t.tag = "forced"
  BY DEF Late

LEMMA SubtitleFacts ==
  ASSUME NEW tracks \in Seq(MediaTrack), NEW pref
  PROVE  SubtitleRight(ChooseSubtitle(tracks, pref), tracks, pref)
<1>1. CASE pref \in {"", "off"}
  <2>1. ChooseSubtitle(tracks, pref) = NoTrack
    BY <1>1 DEF ChooseSubtitle
  <2> QED
    BY <1>1, <2>1 DEF SubtitleRight
<1>2. CASE pref \notin {"", "off"}
  <2>1. PICK P, able : /\ P = {t \in MediaTrack : t.plays}
                       /\ able = Select(tracks, P)
    OBVIOUS
  <2>2. able \in Seq(MediaTrack) /\ ToSet(able) = ToSet(tracks) \cap P
    BY <2>1, SelectFacts
  <2>3. able \in Seq(MediaTrack)
    BY <2>2
  <2>4. ToSet(tracks) \subseteq MediaTrack
    BY InList
  <2>5. ChooseSubtitle(tracks, pref) = BestOf(able, pref)
    BY <1>2, <2>1 DEF ChooseSubtitle
  <2>6. CASE able = << >>
    <3>1. ToSet(able) = {}
      BY <2>6 DEF ToSet
    <3>2. ChooseSubtitle(tracks, pref) = NoTrack
      BY <2>5, <2>6 DEF BestOf
    <3>3. \A t \in ToSet(tracks) : ~t.plays
      BY <2>1, <2>2, <2>4, <3>1
    <3> QED
      BY <3>2, <3>3 DEF SubtitleRight
  <2>7. CASE able # << >>
    <3>1. PICK S, D, spoken, defaults :
            /\ S = {t \in MediaTrack : t.lang = pref} /\ spoken = Select(able, S)
            /\ D = {t \in MediaTrack : t.default} /\ defaults = Select(able, D)
      OBVIOUS
    <3>2. spoken \in Seq(MediaTrack) /\ ToSet(spoken) = ToSet(able) \cap S
      BY <2>3, <3>1, SelectFacts
    <3>3. defaults \in Seq(MediaTrack) /\ ToSet(defaults) = ToSet(able) \cap D
      BY <2>3, <3>1, SelectFacts
    <3>4. PICK matches : matches = IF spoken # << >> THEN spoken
                                   ELSE IF defaults # << >> THEN defaults ELSE able
      OBVIOUS
    <3>5. matches \in Seq(MediaTrack)
      BY <2>3, <3>2, <3>3, <3>4
    <3>6. matches # << >> /\ ToSet(matches) \subseteq ToSet(able)
      BY <2>7, <3>2, <3>3, <3>4
    <3>7. PICK s : s = ByPlaybackPreference(matches)[1]
      OBVIOUS
    <3>8. s \in ToSet(matches) /\ \A t \in ToSet(matches) : Late(s) <= Late(t)
      BY <3>5, <3>6, <3>7, FirstByPreference
    <3>9. BestOf(able, pref) = s
      BY <2>7, <3>1, <3>4, <3>7 DEF BestOf
    <3>10. s \in ToSet(tracks) /\ s \in MediaTrack /\ s.plays
      BY <2>1, <2>2, <2>4, <3>6, <3>8
    <3>11. s # NoTrack
      BY <3>10, NoTrackIsNone
    <3>12. PICK speaks : speaks = {t \in ToSet(tracks) : t.plays /\ t.lang = pref}
      OBVIOUS
    <3>13. ToSet(spoken) = speaks
      BY <2>1, <2>2, <2>4, <3>1, <3>2, <3>12
    <3>14. ASSUME speaks # {} PROVE ToSet(matches) = speaks
      <4>1. spoken # << >>
        <5>1. ToSet(spoken) # {} /\ spoken \in Seq(MediaTrack)
          BY <3>2, <3>13, <3>14
        <5>2. spoken \in Seq(MediaTrack)
          BY <5>1
        <5> QED
          BY <5>1, <5>2, InList
      <4> QED
        BY <3>4, <3>13, <4>1
    <3>15. ASSUME s.tag = "forced", s \in speaks, NEW t \in speaks PROVE t.tag = "forced"
      <4>1. t \in ToSet(matches) /\ t \in MediaTrack
        BY <2>4, <3>12, <3>14, <3>15
      <4> QED
        BY <3>8, <3>10, <3>15, <4>1, ForcedIsLate
    <3>16. ChooseSubtitle(tracks, pref) = s
      BY <2>5, <3>9
    <3> QED
      BY <1>2, <3>8, <3>10, <3>11, <3>12, <3>14, <3>15, <3>16 DEF SubtitleRight
  <2> QED
    BY <2>6, <2>7
<1> QED
  BY <1>1, <1>2

\* An index that is that of one track is on the list once.
LEMMA AloneInList ==
  ASSUME NEW tracks \in Tracks, NEW s \in ToSet(tracks)
  PROVE  Cardinality({t \in ToSet(tracks) : t.index = s.index}) = 1
<1>1. {t \in ToSet(tracks) : t.index = s.index} = {s}
  BY DEF Tracks, Distinct
<1> QED
  BY <1>1, FS_Singleton
-----------------------------------------------------------------------------
Writing == {"write", "fill", "write alone", "fill alone"}
CallStages == Writing \cup
  {"probe", "probe wait", "probe again", "probing", "probe store", "search", "addon",
   "chosen", "look", "wait", "look again", "read", "extract", "retry", "served", "nothing"}
TextFile == [of : Int, stream : TextKeys \cup Int, by : Int, whole : BOOLEAN, at : Int,
             older : BOOLEAN, late : BOOLEAN]
ACall == [pc : CallStages, want : Requests, began : Int, since : Int, probed : Int,
          subs : Tracks, text : TextFile]

\* A text is of the stream of its key, and of what the file held since a call
\* began, but for the named cases.
TextFits(text, key, began) ==
  text.of # 0 /\ key # Outside =>
    /\ text.of >= began \/ text.late
    /\ text.stream = key \/ text.by \notin {0, text.of}

MediaTypes ==
  /\ tick \in 0 .. LastTick /\ content \in 1 .. Len(Contents)
  /\ prober \in Asker \cup {NoOne} /\ writer \in [TextKeys -> Asker \cup {NoOne}]
  /\ until \in [1 .. Len(Contents) -> -1 .. tick]
  /\ found \in [Prefs -> [at : Int, tracks : Tracks]]

\* A row is of what the file held less than a tick before it was stored.
RowRecent ==
  \/ probeRow = NoProbe
  \/ /\ probeRow \in [of : 1 .. content, at : 0 .. tick]
     /\ probeRow.of = content \/ until[probeRow.of] >= probeRow.at - 1

TextKept(text, k) ==
  /\ text.at < 0 => text.of = 0
  /\ text.at >= 0 /\ k # Outside =>
       /\ text.of = content \/ text.late \/ text.older
       /\ text.stream = k \/ text.by \notin {0, text.of}
TextsKept ==
  texts \in [TextKeys -> TextFile] /\ \A k \in TextKeys : TextKept(texts[k], k)

\* What a call read of the file holds for what it was asked.
Readable(text, key, began) ==
  text.at < 0 \/ key = Outside \/ text.of >= began \/ text.late

CallAtWork(r) ==
  /\ r \in ACall
  /\ r.began \in 1 .. content /\ r.since \in {tick - 1, tick} /\ r.probed \in 0 .. content
  /\ r.probed # 0 => r.probed >= r.began \/ until[r.probed] + ProbeFor >= r.since
  /\ r.pc = "probe store" =>
       /\ r.probed # 0 /\ r.probed >= r.began
       /\ r.probed = content \/ until[r.probed] >= r.since
  /\ r.pc \in Writing => r.text.of # 0
  /\ TextFits(r.text, r.want.key, r.began)
  /\ r.pc = "read" => Readable(texts[r.want.key], r.want.key, r.began)

CallsAtWork ==
  /\ asker = [c \in Asker |-> asker[c]]
  /\ \A c \in Asker : asker[c] = Idle \/ CallAtWork(asker[c])

MediaInv == MediaTypes /\ RowRecent /\ TextsKept /\ CallsAtWork

LEMMA MediaConstants ==
  /\ LastTick \in Nat /\ ProbeFor \in Nat /\ ProbeFor >= 1 /\ TextFor \in Nat
  /\ Len(Contents) \in Nat /\ Len(Contents) >= 1 /\ DOMAIN Contents = 1 .. Len(Contents)
<1>1. Contents \in Seq(Seq(FileStream)) /\ Contents # << >>
  BY MediaAssumption
<1>2. Contents \in Seq(Seq(FileStream))
  BY <1>1
<1>3. Len(Contents) \in Nat /\ Len(Contents) >= 1 /\ DOMAIN Contents = 1 .. Len(Contents)
  BY <1>1, <1>2
<1> QED
  BY <1>3, MediaAssumption

LEMMA NoTextTyped == NoText \in TextFile
  BY DEF NoText, TextFile

LEMMA MediaInitInv == MediaInit => MediaInv
<1> SUFFICES ASSUME MediaInit PROVE MediaInv
  OBVIOUS
<1>1. MediaTypes
  <2>1. << >> \in Tracks
    BY EmptyTracks
  <2>2. tick \in 0 .. LastTick /\ content \in 1 .. Len(Contents)
    BY MediaConstants DEF MediaInit
  <2>3. until \in [1 .. Len(Contents) -> -1 .. tick]
    BY MediaConstants DEF MediaInit
  <2>4. found \in [Prefs -> [at : Int, tracks : Tracks]]
    BY <2>1 DEF MediaInit
  <2>5. prober \in Asker \cup {NoOne} /\ writer \in [TextKeys -> Asker \cup {NoOne}]
    BY DEF MediaInit
  <2> QED
    BY <2>2, <2>3, <2>4, <2>5 DEF MediaTypes
<1>2. RowRecent
  BY DEF MediaInit, RowRecent
<1>3. TextsKept
  <2>1. ASSUME NEW k PROVE TextKept(NoText, k)
    BY DEF TextKept, NoText
  <2> QED
    BY <2>1, NoTextTyped DEF MediaInit, TextsKept
<1>4. CallsAtWork
  BY DEF MediaInit, CallsAtWork
<1> QED
  BY <1>1, <1>2, <1>3, <1>4 DEF MediaInv

\* A call goes on, or ends, and no other notices.
LEMMA CallStep ==
  ASSUME MediaInv, NEW c \in Asker, NEW r, asker' = [asker EXCEPT ![c] = r],
         r = Idle \/ CallAtWork(r), UNCHANGED <<tick, content, until, texts>>
  PROVE  CallsAtWork'
<1>1. asker = [d \in Asker |-> asker[d]]
      /\ \A d \in Asker : asker[d] = Idle \/ CallAtWork(asker[d])
  BY DEF MediaInv, CallsAtWork
<1>2. \A s : CallAtWork(s) => CallAtWork(s)'
  BY DEF CallAtWork
<1>3. asker' = [d \in Asker |-> IF d = c THEN r ELSE asker[d]]
  BY <1>1
<1>4. \A d \in Asker : asker'[d] = IF d = c THEN r ELSE asker[d]
  BY <1>3
<1>5. ASSUME NEW d \in Asker PROVE (asker[d] = Idle \/ CallAtWork(asker[d]))'
  <2>1. PICK s : s = asker'[d]
    OBVIOUS
  <2>2. s = Idle \/ CallAtWork(s)'
    BY <1>1, <1>2, <1>4, <2>1
  <2> QED
    BY <2>1, <2>2 DEF CallAtWork
<1>6. asker' = [d \in Asker |-> asker'[d]]
  BY <1>3
<1> QED
  BY <1>5, <1>6 DEF CallsAtWork

\* The call with this stage, and with what it has gathered.
Moved(r, stage, probed, subs, text) ==
  [pc |-> stage, want |-> r.want, began |-> r.began, since |-> r.since,
   probed |-> probed, subs |-> subs, text |-> text]

HasForms(r, x, y) ==
  /\ [r EXCEPT !.pc = x] = Moved(r, x, r.probed, r.subs, r.text)
  /\ [r EXCEPT !.pc = x, !.probed = y] = Moved(r, x, y, r.subs, r.text)
  /\ [r EXCEPT !.probed = y, !.pc = x] = Moved(r, x, y, r.subs, r.text)
  /\ [r EXCEPT !.subs = y, !.pc = x] = Moved(r, x, r.probed, y, r.text)
  /\ [r EXCEPT !.text = y, !.pc = x] = Moved(r, x, r.probed, r.subs, y)
  /\ [r EXCEPT !.pc = x, !.text = y] = Moved(r, x, r.probed, r.subs, y)

LEMMA MovedForms == ASSUME NEW r \in ACall, NEW x, NEW y PROVE HasForms(r, x, y)
<1>1. r = [pc |-> r.pc, want |-> r.want, began |-> r.began, since |-> r.since,
           probed |-> r.probed, subs |-> r.subs, text |-> r.text]
  BY DEF ACall
<1>2. PICK a, b, d, e, f, g, h :
        /\ a = r.pc /\ b = r.want /\ d = r.began /\ e = r.since
        /\ f = r.probed /\ g = r.subs /\ h = r.text
  OBVIOUS
<1>3. r
          = [pc |-> a, want |-> b, began |-> d, since |-> e, probed |-> f, subs |-> g,
             text |-> h]
  BY <1>1, <1>2
<1>4. [r EXCEPT !.pc = x] = Moved(r, x, r.probed, r.subs, r.text)
  BY <1>2, <1>3 DEF Moved
<1>5. [r EXCEPT !.pc = x, !.probed = y] = Moved(r, x, y, r.subs, r.text)
  <2>1. PICK q : q = [r EXCEPT !.pc = x]
    OBVIOUS
  <2>2. q
          = [pc |-> x, want |-> b, began |-> d, since |-> e, probed |-> f, subs |-> g,
             text |-> h]
    BY <1>3, <2>1
  <2>3. [q EXCEPT !.probed = y]
          = [pc |-> x, want |-> b, began |-> d, since |-> e, probed |-> y, subs |-> g,
             text |-> h]
    BY <2>2
  <2>4. [r EXCEPT !.pc = x, !.probed = y] = [q EXCEPT !.probed = y]
    BY <1>3, <2>1
  <2> QED
    BY <1>2, <2>3, <2>4 DEF Moved
<1>6. [r EXCEPT !.probed = y, !.pc = x] = Moved(r, x, y, r.subs, r.text)
  <2>1. PICK q : q = [r EXCEPT !.probed = y]
    OBVIOUS
  <2>2. q
          = [pc |-> a, want |-> b, began |-> d, since |-> e, probed |-> y, subs |-> g,
             text |-> h]
    BY <1>3, <2>1
  <2>3. [q EXCEPT !.pc = x]
          = [pc |-> x, want |-> b, began |-> d, since |-> e, probed |-> y, subs |-> g,
             text |-> h]
    BY <2>2
  <2>4. [r EXCEPT !.probed = y, !.pc = x] = [q EXCEPT !.pc = x]
    BY <1>3, <2>1
  <2> QED
    BY <1>2, <2>3, <2>4 DEF Moved
<1>7. [r EXCEPT !.subs = y, !.pc = x] = Moved(r, x, r.probed, y, r.text)
  <2>1. PICK q : q = [r EXCEPT !.subs = y]
    OBVIOUS
  <2>2. q
          = [pc |-> a, want |-> b, began |-> d, since |-> e, probed |-> f, subs |-> y,
             text |-> h]
    BY <1>3, <2>1
  <2>3. [q EXCEPT !.pc = x]
          = [pc |-> x, want |-> b, began |-> d, since |-> e, probed |-> f, subs |-> y,
             text |-> h]
    BY <2>2
  <2>4. [r EXCEPT !.subs = y, !.pc = x] = [q EXCEPT !.pc = x]
    BY <1>3, <2>1
  <2> QED
    BY <1>2, <2>3, <2>4 DEF Moved
<1>8. [r EXCEPT !.text = y, !.pc = x] = Moved(r, x, r.probed, r.subs, y)
  <2>1. PICK q : q = [r EXCEPT !.text = y]
    OBVIOUS
  <2>2. q
          = [pc |-> a, want |-> b, began |-> d, since |-> e, probed |-> f, subs |-> g,
             text |-> y]
    BY <1>3, <2>1
  <2>3. [q EXCEPT !.pc = x]
          = [pc |-> x, want |-> b, began |-> d, since |-> e, probed |-> f, subs |-> g,
             text |-> y]
    BY <2>2
  <2>4. [r EXCEPT !.text = y, !.pc = x] = [q EXCEPT !.pc = x]
    BY <1>3, <2>1
  <2> QED
    BY <1>2, <2>3, <2>4 DEF Moved
<1>9. [r EXCEPT !.pc = x, !.text = y] = Moved(r, x, r.probed, r.subs, y)
  <2>1. PICK q : q = [r EXCEPT !.pc = x]
    OBVIOUS
  <2>2. q
          = [pc |-> x, want |-> b, began |-> d, since |-> e, probed |-> f, subs |-> g,
             text |-> h]
    BY <1>3, <2>1
  <2>3. [q EXCEPT !.text = y]
          = [pc |-> x, want |-> b, began |-> d, since |-> e, probed |-> f, subs |-> g,
             text |-> y]
    BY <2>2
  <2>4. [r EXCEPT !.pc = x, !.text = y] = [q EXCEPT !.text = y]
    BY <1>3, <2>1
  <2> QED
    BY <1>2, <2>3, <2>4 DEF Moved
<1> QED
  BY <1>4, <1>5, <1>6, <1>7, <1>8, <1>9 DEF HasForms

MovesInForms(c, x, y) ==
  LET r == asker[c] IN
  /\ [asker EXCEPT ![c].pc = x] = [asker EXCEPT ![c] = Moved(r, x, r.probed, r.subs, r.text)]
  /\ [asker EXCEPT ![c].pc = x, ![c].probed = y]
       = [asker EXCEPT ![c] = Moved(r, x, y, r.subs, r.text)]
  /\ [asker EXCEPT ![c].probed = y, ![c].pc = x]
       = [asker EXCEPT ![c] = Moved(r, x, y, r.subs, r.text)]
  /\ [asker EXCEPT ![c].subs = y, ![c].pc = x]
       = [asker EXCEPT ![c] = Moved(r, x, r.probed, y, r.text)]
  /\ [asker EXCEPT ![c].text = y, ![c].pc = x]
       = [asker EXCEPT ![c] = Moved(r, x, r.probed, r.subs, y)]
  /\ [asker EXCEPT ![c].pc = x, ![c].text = y]
       = [asker EXCEPT ![c] = Moved(r, x, r.probed, r.subs, y)]

LEMMA AskerForms ==
  ASSUME MediaInv, NEW c \in Asker, asker[c] \in ACall, NEW x, NEW y
  PROVE  MovesInForms(c, x, y)
<1>1. asker = [d \in Asker |-> asker[d]]
  BY DEF MediaInv, CallsAtWork
<1>2. PICK r : r = asker[c]
  OBVIOUS
<1>3. /\ [r EXCEPT !.pc = x] = Moved(r, x, r.probed, r.subs, r.text)
      /\ [r EXCEPT !.pc = x, !.probed = y] = Moved(r, x, y, r.subs, r.text)
      /\ [r EXCEPT !.probed = y, !.pc = x] = Moved(r, x, y, r.subs, r.text)
      /\ [r EXCEPT !.subs = y, !.pc = x] = Moved(r, x, r.probed, y, r.text)
      /\ [r EXCEPT !.text = y, !.pc = x] = Moved(r, x, r.probed, r.subs, y)
      /\ [r EXCEPT !.pc = x, !.text = y] = Moved(r, x, r.probed, r.subs, y)
  <2>1. r \in ACall
    BY <1>2
  <2>2. HasForms(r, x, y)
    BY <2>1, MovedForms
  <2> QED
    BY <2>2 DEF HasForms
<1>4. [asker EXCEPT ![c].pc = x] = [asker EXCEPT ![c] = [r EXCEPT !.pc = x]]
  BY <1>1, <1>2
<1>5. [asker EXCEPT ![c].pc = x, ![c].probed = y]
        = [asker EXCEPT ![c] = [r EXCEPT !.pc = x, !.probed = y]]
  BY <1>1, <1>2
<1>6. [asker EXCEPT ![c].probed = y, ![c].pc = x]
        = [asker EXCEPT ![c] = [r EXCEPT !.probed = y, !.pc = x]]
  BY <1>1, <1>2
<1>7. [asker EXCEPT ![c].subs = y, ![c].pc = x]
        = [asker EXCEPT ![c] = [r EXCEPT !.subs = y, !.pc = x]]
  BY <1>1, <1>2
<1>8. [asker EXCEPT ![c].text = y, ![c].pc = x]
        = [asker EXCEPT ![c] = [r EXCEPT !.text = y, !.pc = x]]
  BY <1>1, <1>2
<1>9. [asker EXCEPT ![c].pc = x, ![c].text = y]
        = [asker EXCEPT ![c] = [r EXCEPT !.pc = x, !.text = y]]
  BY <1>1, <1>2
<1> QED
  BY <1>2, <1>3, <1>4, <1>5, <1>6, <1>7, <1>8, <1>9 DEF MovesInForms

LEMMA CallFacts ==
  ASSUME MediaInv, NEW c \in Asker, asker[c].pc # "absent"
  PROVE  /\ CallAtWork(asker[c]) /\ asker[c] \in ACall /\ asker[c].subs \in Tracks
         /\ asker[c].text \in TextFile /\ asker[c].want \in Requests
         /\ asker[c].want.key \in TextKeys /\ asker[c].want.subs \in Prefs
         /\ asker[c].probed \in 0 .. content
<1>1. asker[c] # Idle
  BY DEF Idle
<1>2. CallAtWork(asker[c])
  BY <1>1 DEF MediaInv, CallsAtWork
<1> QED
  BY <1>2 DEF CallAtWork, ACall, TextKeys, Prefs

LEMMA ClockTyped ==
  ASSUME MediaInv
  PROVE  /\ content \in Int /\ content \in Nat /\ content \in 1 .. Len(Contents)
         /\ 0 .. content \subseteq Int /\ tick \in Int /\ tick \in Nat
         /\ until \in [1 .. Len(Contents) -> -1 .. tick]
  BY MediaConstants DEF MediaInv, MediaTypes

LEMMA DoingMoved ==
  ASSUME MediaInv, NEW r, CallAtWork(r), NEW stage \in CallStages,
         NEW probed \in 0 .. content, NEW subs \in Tracks, NEW text \in TextFile,
         probed # 0 => probed >= r.began \/ until[probed] + ProbeFor >= r.since,
         stage = "probe store" => /\ probed # 0 /\ probed >= r.began
                                  /\ probed = content \/ until[probed] >= r.since,
         stage \in Writing => text.of # 0,
         TextFits(text, r.want.key, r.began),
         stage = "read" => Readable(texts[r.want.key], r.want.key, r.began)
  PROVE  CallAtWork(Moved(r, stage, probed, subs, text))
<1>1. PICK m : m = Moved(r, stage, probed, subs, text)
  OBVIOUS
<1>2. /\ m.pc = stage /\ m.want = r.want /\ m.began = r.began /\ m.since = r.since
      /\ m.probed = probed /\ m.subs = subs /\ m.text = text
  BY <1>1 DEF Moved
<1>3. r.want \in Requests /\ r.began \in Int /\ r.since \in Int
  BY DEF CallAtWork, ACall
<1>4. content \in Int /\ probed \in Int
  BY ClockTyped
<1>5. m \in ACall
  BY <1>1, <1>3, <1>4 DEF Moved, ACall
<1>6. m.began \in 1 .. content /\ m.since \in {tick - 1, tick}
  BY <1>2 DEF CallAtWork
<1>7. CallAtWork(m)
  BY <1>2, <1>5, <1>6 DEF CallAtWork
<1> QED
  BY <1>1, <1>7

\* Nothing but its stage changes.
LEMMA StageMoves ==
  ASSUME MediaInv, NEW r, CallAtWork(r), NEW x \in CallStages \ {"probe store", "read"},
         x \in Writing => r.text.of # 0
  PROVE  CallAtWork(Moved(r, x, r.probed, r.subs, r.text))
  BY DEF CallAtWork, Moved, ACall

LEMMA GoesTo ==
  ASSUME MediaInv, NEW c \in Asker, asker[c].pc # "absent",
         NEW x \in CallStages \ {"probe store", "read"}, GoTo(c, x),
         x \in Writing => asker[c].text.of # 0,
         UNCHANGED <<tick, content, until, texts>>
  PROVE  CallsAtWork'
<1>1. PICK r : r = Moved(asker[c], x, asker[c].probed, asker[c].subs, asker[c].text)
  OBVIOUS
<1>2. CallAtWork(asker[c]) /\ asker[c] \in ACall
  BY CallFacts
<1>3. asker' = [asker EXCEPT ![c] = r]
  <2>1. MovesInForms(c, x, x)
    BY <1>2, AskerForms
  <2> QED
    BY <1>1, <2>1 DEF GoTo, MovesInForms
<1>4. PICK s : s = asker[c]
  OBVIOUS
<1>5. CallAtWork(r)
  BY <1>1, <1>2, <1>4, StageMoves
<1> QED
  BY <1>3, <1>5, CallStep

\* What the step of a call leaves alone.
LEMMA RestKept ==
  ASSUME MediaInv, UNCHANGED <<tick, content, until>>,
         prober' \in Asker \cup {NoOne}, writer' \in [TextKeys -> Asker \cup {NoOne}],
         found' \in [Prefs -> [at : Int, tracks : Tracks]], RowRecent', TextsKept', CallsAtWork'
  PROVE  MediaInv'
<1>1. MediaTypes'
  BY DEF MediaInv, MediaTypes
<1> QED
  BY <1>1 DEF MediaInv

LEMMA RowStays ==
  ASSUME MediaInv, UNCHANGED <<tick, content, until, probeRow>> PROVE RowRecent'
  BY DEF MediaInv, RowRecent

LEMMA TextsStay == ASSUME MediaInv, UNCHANGED <<content, texts>> PROVE TextsKept'
  BY DEF MediaInv, TextsKept, TextKept

LEMMA LocksTyped ==
  ASSUME MediaInv, NEW c \in Asker
  PROVE  /\ FreeProbe(c) => prober' \in Asker \cup {NoOne}
         /\ FreeText(c) => writer' \in [TextKeys -> Asker \cup {NoOne}]
         /\ prober \in Asker \cup {NoOne} /\ writer \in [TextKeys -> Asker \cup {NoOne}]
         /\ found \in [Prefs -> [at : Int, tracks : Tracks]]
  BY DEF MediaInv, MediaTypes, FreeProbe, FreeText

LEMMA StartMediaInv == ASSUME MediaInv, NEW c \in Asker, StartMedia(c) PROVE MediaInv'
<1>1. PICK q \in Requests :
        asker' = [asker EXCEPT ![c] =
                   [pc |-> CASE q.what = "text" -> "look" [] q.what = "embed" -> "search"
                             [] OTHER -> "probe",
                    want |-> q, began |-> content, since |-> tick, probed |-> 0,
                    subs |-> << >>, text |-> NoText]]
  BY DEF StartMedia
<1>a. PICK stage : stage = CASE q.what = "text" -> "look" [] q.what = "embed" -> "search"
                       [] OTHER -> "probe"
  OBVIOUS
<1>2. stage \in {"look", "search", "probe"}
  BY <1>a
<1>3. PICK r : r = [pc |-> stage, want |-> q, began |-> content, since |-> tick, probed |-> 0,
                    subs |-> << >>, text |-> NoText]
  OBVIOUS
<1>4. content \in 1 .. Len(Contents) /\ content \in Int /\ tick \in Int
  BY MediaConstants DEF MediaInv, MediaTypes
<1>5. r \in ACall
  <2>1. stage \in CallStages
    BY <1>2 DEF CallStages
  <2>2. << >> \in Tracks /\ NoText \in TextFile
    BY EmptyTracks, NoTextTyped
  <2> QED
    BY <1>3, <1>4, <2>1, <2>2 DEF ACall
<1>6. TextFits(r.text, r.want.key, r.began)
  BY <1>3 DEF TextFits, NoText
<1>7. CallAtWork(r)
  <2>1. /\ r.pc = stage /\ r.want = q /\ r.began = content /\ r.since = tick
        /\ r.probed = 0 /\ r.text = NoText
    BY <1>3
  <2>2. r.pc \notin Writing /\ r.pc # "read" /\ r.pc # "probe store"
    BY <1>2, <2>1 DEF Writing
  <2>3. r.began \in 1 .. content /\ r.since \in {tick - 1, tick} /\ r.probed \in 0 .. content
    BY <1>4, <2>1, MediaConstants
  <2> QED
    BY <1>5, <1>6, <2>1, <2>2, <2>3 DEF CallAtWork
<1>8. UNCHANGED <<tick, content, until, probeRow, texts, found, prober, writer>>
  BY DEF StartMedia
<1>9. CallsAtWork'
  BY <1>1, <1>a, <1>3, <1>7, <1>8, CallStep
<1> QED
  BY <1>8, <1>9, LocksTyped, RestKept, RowStays, TextsStay

\* What a row says is recent, and it stays or goes.
LEMMA LookAtProbeInv == ASSUME MediaInv, NEW c \in Asker, LookAtProbe(c) PROVE MediaInv'
<1>1. PICK s : s = asker[c]
  OBVIOUS
<1>2. asker[c].pc # "absent" /\ s.pc \in {"probe", "probe again"}
  BY <1>1 DEF LookAtProbe
<1>3. CallAtWork(s) /\ s \in ACall
  BY <1>1, <1>2, CallFacts
<1>4. UNCHANGED <<tick, content, until, texts, found, writer>> /\ probeRow' = RowOfNow
  BY DEF LookAtProbe
<1>5. tick \in Nat /\ content \in Nat /\ ProbeFor \in Nat
      /\ until \in [1 .. Len(Contents) -> -1 .. tick] /\ content \in 1 .. Len(Contents)
  BY MediaConstants DEF MediaInv, MediaTypes
<1>6. RowRecent'
  BY <1>4 DEF MediaInv, RowRecent, RowOfNow
<1>7. CASE RowOfNow # NoProbe
  <2>1. /\ probeRow # NoProbe /\ probeRow.at + ProbeFor > tick
        /\ probeRow \in [of : 1 .. content, at : 0 .. tick]
        /\ probeRow.of = content \/ until[probeRow.of] >= probeRow.at - 1
    BY <1>7 DEF RowOfNow, MediaInv, RowRecent
  <2>2. PICK of, at : of = probeRow.of /\ at = probeRow.at
    OBVIOUS
  <2>3. of \in 1 .. content /\ at \in 0 .. tick /\ at + ProbeFor > tick
        /\ (of = content \/ until[of] >= at - 1)
    BY <2>1, <2>2
  <2>4. PICK x : x = AfterProbe(c)
    OBVIOUS
  <2>5. x \in {"retry", "search"}
    BY <2>4 DEF AfterProbe
  <2>6. PICK r : r = Moved(s, x, of, s.subs, s.text)
    OBVIOUS
  <2>7. asker' = [asker EXCEPT ![c] = r]
    <3>1. asker' = [asker EXCEPT ![c].pc = x, ![c].probed = of]
      BY <1>7, <2>2, <2>4 DEF LookAtProbe
    <3>2. asker[c] \in ACall
      BY <1>1, <1>3
    <3>3. MovesInForms(c, x, of)
      BY <3>2, AskerForms
    <3> QED
      BY <1>1, <2>6, <3>1, <3>3 DEF MovesInForms
  <2>8. of >= s.began \/ until[of] + ProbeFor >= s.since
    <3>1. s.began \in 1 .. content /\ s.since \in {tick - 1, tick}
      BY <1>3 DEF CallAtWork
    <3>2. CASE of = content
      BY <3>1, <3>2, <1>5
    <3>3. CASE until[of] >= at - 1
      <4>1. until[of] \in Int
        BY <1>5, <2>3
      <4> QED
        BY <1>5, <2>3, <3>1, <3>3, <4>1
    <3> QED
      BY <2>3, <3>2, <3>3
  <2>9. CallAtWork(r)
    <3>1. s.subs \in Tracks /\ s.text \in TextFile /\ TextFits(s.text, s.want.key, s.began)
      BY <1>3 DEF CallAtWork, ACall
    <3>2. x \in CallStages /\ x \notin Writing /\ x # "probe store" /\ x # "read"
      BY <2>5 DEF CallStages, Writing
    <3>3. of \in 0 .. content
      BY <1>5, <2>3
    <3> QED
      BY <1>3, <2>6, <2>8, <3>1, <3>2, <3>3, DoingMoved
  <2>10. CallsAtWork'
    BY <1>4, <2>7, <2>9, CallStep
  <2>11. FreeProbe(c)
    BY <1>7 DEF LookAtProbe
  <2> QED
    BY <1>4, <1>6, <2>10, <2>11, LocksTyped, RestKept, TextsStay
<1>8. CASE RowOfNow = NoProbe
  <2>1. PICK x : x = IF asker[c].pc = "probe" THEN "probe wait" ELSE "probing"
    OBVIOUS
  <2>2. GoTo(c, x) /\ UNCHANGED prober
    BY <1>8, <2>1 DEF LookAtProbe
  <2>3. x \in CallStages \ {"probe store", "read"} /\ x \notin Writing
    BY <2>1 DEF CallStages, Writing
  <2>4. CallsAtWork'
    BY <1>2, <1>4, <2>2, <2>3, GoesTo
  <2> QED
    BY <1>4, <1>6, <2>2, <2>4, LocksTyped, RestKept, TextsStay
<1> QED
  BY <1>7, <1>8

LEMMA TakeProbeInv == ASSUME MediaInv, NEW c \in Asker, TakeProbe(c) PROVE MediaInv'
<1>1. asker[c].pc # "absent" /\ GoTo(c, "probe again") /\ prober' = c
      /\ UNCHANGED <<tick, content, until, probeRow, texts, found, writer>>
  BY DEF TakeProbe
<1>2. "probe again" \in CallStages \ {"probe store", "read"} /\ "probe again" \notin Writing
  BY DEF CallStages, Writing
<1>3. CallsAtWork'
  BY <1>1, <1>2, GoesTo
<1> QED
  BY <1>1, <1>3, LocksTyped, RestKept, RowStays, TextsStay

LEMMA ProbeInv == ASSUME MediaInv, NEW c \in Asker, Probe(c) PROVE MediaInv'
<1>1. asker[c].pc # "absent"
      /\ UNCHANGED <<tick, content, until, probeRow, texts, found, prober, writer>>
      /\ asker' = [asker EXCEPT ![c].pc = "probe store", ![c].probed = content]
  BY DEF Probe
<1>2. PICK s, r : s = asker[c] /\ r = Moved(s, "probe store", content, s.subs, s.text)
  OBVIOUS
<1>3. CallAtWork(s) /\ asker[c] \in ACall
  BY <1>1, <1>2, CallFacts
<1>4. MovesInForms(c, "probe store", content)
  BY <1>3, AskerForms
<1>5. asker' = [asker EXCEPT ![c] = r]
  BY <1>1, <1>2, <1>4 DEF MovesInForms
<1>6. CallAtWork(r)
  <2>1. s.subs \in Tracks /\ s.text \in TextFile /\ TextFits(s.text, s.want.key, s.began)
        /\ s.began \in 1 .. content
    BY <1>3 DEF CallAtWork, ACall
  <2>2. content # 0 /\ content >= s.began /\ content \in 0 .. content
    BY <2>1, ClockTyped
  <2>3. "probe store" \in CallStages /\ "probe store" \notin Writing
    BY DEF CallStages, Writing
  <2> QED
    BY <1>2, <1>3, <2>1, <2>2, <2>3, DoingMoved
<1>7. CallsAtWork'
  BY <1>1, <1>5, <1>6, CallStep
<1> QED
  BY <1>1, <1>7, LocksTyped, RestKept, RowStays, TextsStay

LEMMA StoreProbeInv == ASSUME MediaInv, NEW c \in Asker, StoreProbe(c) PROVE MediaInv'
<1>1. /\ asker[c].pc = "probe store" /\ FreeProbe(c) /\ GoTo(c, AfterProbe(c))
      /\ probeRow' = [of |-> asker[c].probed, at |-> tick]
      /\ UNCHANGED <<tick, content, until, texts, found, writer>>
  BY DEF StoreProbe
<1>2. PICK s : s = asker[c]
  OBVIOUS
<1>3. CallAtWork(s)
  BY <1>1, <1>2, CallFacts
<1>4. AfterProbe(c) \in CallStages \ {"probe store", "read"} /\ AfterProbe(c) \notin Writing
  BY DEF AfterProbe, CallStages, Writing
<1>5. CallsAtWork'
  BY <1>1, <1>4, GoesTo
<1>6. RowRecent'
  <2>1. PICK of : of = s.probed
    OBVIOUS
  <2>2. /\ of \in 1 .. content /\ s.since \in {tick - 1, tick}
        /\ of = content \/ until[of] >= s.since
    <3>1. s.probed \in 0 .. content /\ s.pc = "probe store"
      BY <1>1, <1>2, <1>3 DEF CallAtWork
    <3>2. s.probed # 0 /\ s.since \in {tick - 1, tick}
          /\ (s.probed = content \/ until[s.probed] >= s.since)
      BY <1>3, <3>1 DEF CallAtWork
    <3>3. of \in 1 .. content
      <4>1. PICK n \in Nat : n = content
        BY ClockTyped
      <4>2. of \in 0 .. n /\ of # 0
        BY <2>1, <3>1, <3>2, <4>1
      <4>3. of \in 1 .. n
        BY <4>2
      <4> QED
        BY <4>1, <4>3
    <3> QED
      BY <2>1, <3>2, <3>3
  <2>3. of = content \/ until[of] >= tick - 1
    <3>1. until[of] \in Int
      BY <2>2, ClockTyped
    <3> QED
      BY <2>2, <3>1, ClockTyped
  <2>4. probeRow' = [of |-> of, at |-> tick]
    BY <1>1, <1>2, <2>1
  <2>5. tick \in 0 .. tick
    BY ClockTyped
  <2>6. probeRow' \in [of : 1 .. content, at : 0 .. tick]
        /\ probeRow'.of = of /\ probeRow'.at = tick
    BY <2>2, <2>4, <2>5
  <2>7. probeRow'.of = content \/ until[probeRow'.of] >= probeRow'.at - 1
    BY <2>3, <2>6
  <2> QED
    BY <1>1, <2>6, <2>7 DEF RowRecent
<1> QED
  BY <1>1, <1>5, <1>6, LocksTyped, RestKept, TextsStay

LEMMA FfprobeFailsInv == ASSUME MediaInv, NEW c \in Asker, FfprobeFails(c) PROVE MediaInv'
<1>1. PICK x :
        x = (CASE asker[c].want.what = "resolve" -> "search"
               [] asker[c].want.what = "tracks" -> "nothing" [] OTHER -> "served")
  OBVIOUS
<1>2. /\ asker[c].pc # "absent" /\ FreeProbe(c) /\ FreeText(c)
      /\ asker' = [asker EXCEPT ![c].probed = 0, ![c].pc = x]
      /\ UNCHANGED <<tick, content, until, probeRow, texts, found>>
  BY <1>1 DEF FfprobeFails
<1>3. x \in CallStages /\ x \notin Writing /\ x \notin {"probe store", "read"}
  BY <1>1 DEF CallStages, Writing
<1>4. PICK s, r : s = asker[c] /\ r = Moved(s, x, 0, s.subs, s.text)
  OBVIOUS
<1>5. CallAtWork(s) /\ asker[c] \in ACall
  BY <1>2, <1>4, CallFacts
<1>6. MovesInForms(c, x, 0)
  BY <1>5, AskerForms
<1>7. asker' = [asker EXCEPT ![c] = r]
  BY <1>2, <1>4, <1>6 DEF MovesInForms
<1>8. CallAtWork(r)
  <2>1. s.subs \in Tracks /\ s.text \in TextFile /\ TextFits(s.text, s.want.key, s.began)
    BY <1>5 DEF CallAtWork, ACall
  <2>2. 0 \in 0 .. content
    BY ClockTyped
  <2> QED
    BY <1>3, <1>4, <1>5, <2>1, <2>2, DoingMoved
<1>9. CallsAtWork'
  BY <1>2, <1>7, <1>8, CallStep
<1> QED
  BY <1>2, <1>9, LocksTyped, RestKept, RowStays, TextsStay

\* A call has found these.
LEMMA SubsMove ==
  ASSUME MediaInv, NEW c \in Asker, asker[c].pc # "absent", NEW list \in Tracks,
         NEW x \in {"addon", "chosen"},
         asker' = [asker EXCEPT ![c].subs = list, ![c].pc = x],
         UNCHANGED <<tick, content, until, texts>>
  PROVE  CallsAtWork'
<1>1. PICK s, r : s = asker[c] /\ r = Moved(s, x, s.probed, list, s.text)
  OBVIOUS
<1>2. CallAtWork(s) /\ asker[c] \in ACall
  BY <1>1, CallFacts
<1>3. MovesInForms(c, x, list)
  BY <1>2, AskerForms
<1>4. asker' = [asker EXCEPT ![c] = r]
  BY <1>1, <1>3 DEF MovesInForms
<1>5. CallAtWork(r)
  <2>1. /\ s.text \in TextFile /\ TextFits(s.text, s.want.key, s.began)
        /\ s.probed \in 0 .. content
        /\ s.probed # 0 => s.probed >= s.began \/ until[s.probed] + ProbeFor >= s.since
    BY <1>2 DEF CallAtWork, ACall
  <2>2. x \in CallStages /\ x \notin Writing /\ x # "probe store" /\ x # "read"
    BY DEF CallStages, Writing
  <2> QED
    BY <1>1, <1>2, <2>1, <2>2, DoingMoved
<1> QED
  BY <1>4, <1>5, CallStep

LEMMA SearchOpenInv == ASSUME MediaInv, NEW c \in Asker, SearchOpen(c) PROVE MediaInv'
<1>1. PICK answer \in Ranked :
        asker' = [asker EXCEPT ![c].subs = OpenTracks(answer),
                             ![c].pc = IF OpenTracks(answer) = << >> THEN "addon" ELSE "chosen"]
  BY DEF SearchOpen
<1>2. PICK list, x : /\ list = OpenTracks(answer)
                     /\ x = IF list = << >> THEN "addon" ELSE "chosen"
  OBVIOUS
<1>3. list \in Tracks /\ x \in {"addon", "chosen"}
  BY <1>2, OpenFacts
<1>4. asker' = [asker EXCEPT ![c].subs = list, ![c].pc = x]
  BY <1>1, <1>2
<1>5. asker[c].pc # "absent"
      /\ UNCHANGED <<tick, content, until, probeRow, texts, found, prober, writer>>
  BY DEF SearchOpen
<1>6. CallsAtWork'
  BY <1>3, <1>4, <1>5, SubsMove
<1> QED
  BY <1>5, <1>6, LocksTyped, RestKept, RowStays, TextsStay

LEMMA SearchAddonInv == ASSUME MediaInv, NEW c \in Asker, SearchAddon(c) PROVE MediaInv'
<1>1. asker[c].pc # "absent"
      /\ UNCHANGED <<tick, content, until, probeRow, texts, prober, writer>>
  BY DEF SearchAddon
<1>2. PICK pref : pref = asker[c].want.subs
  OBVIOUS
<1>3. pref \in Prefs
  BY <1>1, <1>2, CallFacts
<1>4. found \in [Prefs -> [at : Int, tracks : Tracks]]
  BY LocksTyped
<1>5. CASE /\ asker' = [asker EXCEPT ![c].subs = found[pref].tracks, ![c].pc = "chosen"]
           /\ UNCHANGED found
  <2>1. PICK list : list = found[pref].tracks
    OBVIOUS
  <2>2. list \in Tracks
    BY <1>3, <1>4, <2>1
  <2>3. asker' = [asker EXCEPT ![c].subs = list, ![c].pc = "chosen"]
    BY <1>5, <2>1
  <2>4. CallsAtWork'
    BY <1>1, <2>2, <2>3, SubsMove
  <2> QED
    BY <1>1, <1>4, <1>5, <2>4, LocksTyped, RestKept, RowStays, TextsStay
<1>6. CASE \E answer \in Addon :
             /\ found' = [found EXCEPT ![pref] = [at |-> tick,
                                                  tracks |-> AddonTracks(answer, pref)]]
             /\ asker' = [asker EXCEPT ![c].subs = AddonTracks(answer, pref),
                                     ![c].pc = "chosen"]
  <2>1. PICK answer \in Addon :
          /\ found' = [found EXCEPT ![pref] = [at |-> tick, tracks |-> AddonTracks(answer, pref)]]
          /\ asker' = [asker EXCEPT ![c].subs = AddonTracks(answer, pref), ![c].pc = "chosen"]
    BY <1>6
  <2>2. PICK list : list = AddonTracks(answer, pref)
    OBVIOUS
  <2>3. list \in Tracks
    BY <2>2, AddonFacts
  <2>4. asker' = [asker EXCEPT ![c].subs = list, ![c].pc = "chosen"]
    BY <2>1, <2>2
  <2>5. CallsAtWork'
    BY <1>1, <2>3, <2>4, SubsMove
  <2>6. found' \in [Prefs -> [at : Int, tracks : Tracks]]
    BY <1>4, <2>1, <2>2, <2>3, ClockTyped
  <2> QED
    BY <1>1, <2>5, <2>6, LocksTyped, RestKept, RowStays, TextsStay
<1>7. CASE GoTo(c, "chosen") /\ UNCHANGED found
  <2>1. "chosen" \in CallStages \ {"probe store", "read"} /\ "chosen" \notin Writing
    BY DEF CallStages, Writing
  <2>2. CallsAtWork'
    BY <1>1, <1>7, <2>1, GoesTo
  <2> QED
    BY <1>1, <1>4, <1>7, <2>2, LocksTyped, RestKept, RowStays, TextsStay
<1> QED
  BY <1>2, <1>5, <1>6, <1>7 DEF SearchAddon

LEMMA BeganTyped ==
  ASSUME MediaInv, NEW c \in Asker, asker[c].pc # "absent"
  PROVE  /\ asker[c].began \in Int /\ 1 <= asker[c].began /\ asker[c].began <= content
         /\ content # 0 /\ content \in Int
<1>1. PICK n \in Nat : n = content
  BY ClockTyped
<1>2. PICK b : b = asker[c].began
  OBVIOUS
<1>3. CallAtWork(asker[c])
  BY CallFacts
<1>4. b \in 1 .. n
  BY <1>1, <1>2, <1>3 DEF CallAtWork
<1>5. b \in Int /\ 1 <= b /\ b <= n /\ n # 0
  BY <1>4
<1> QED
  BY <1>1, <1>2, <1>5

\* What a call may read, as long as its file is not older than its text.
LEMMA FreshIsReadable ==
  ASSUME MediaInv, NEW c \in Asker, asker[c].pc # "absent", TextIsFresh(AtText(c))
  PROVE  Readable(texts[AtText(c)], AtText(c), asker[c].began)
<1>1. PICK k, text : k = AtText(c) /\ text = texts[k]
  OBVIOUS
<1>2. CallAtWork(asker[c]) /\ k \in TextKeys
  BY <1>1, CallFacts DEF AtText
<1>3. TextKept(text, k) /\ text \in TextFile
  BY <1>1, <1>2 DEF MediaInv, TextsKept
<1>4. PICK n, b \in Int : n = content /\ b = asker[c].began /\ b <= n
  BY BeganTyped
<1>5. CASE k # Outside
  <2>1. text.at >= 0 /\ ~text.older
    BY <1>1, <1>5 DEF TextIsFresh
  <2>2. text.of = n \/ text.late
    BY <1>3, <1>4, <1>5, <2>1 DEF TextKept
  <2> QED
    BY <1>1, <1>4, <2>2 DEF Readable
<1> QED
  BY <1>1, <1>5 DEF Readable

LEMMA LookAtTextInv == ASSUME MediaInv, NEW c \in Asker, LookAtText(c) PROVE MediaInv'
<1>1. asker[c].pc # "absent"
      /\ UNCHANGED <<tick, content, until, probeRow, texts, found, prober, writer>>
  BY DEF LookAtText
<1>2. PICK x : x = IF TextIsFresh(AtText(c)) THEN "read"
                   ELSE IF asker[c].pc = "look" THEN "wait" ELSE "extract"
  OBVIOUS
<1>3. GoTo(c, x)
  BY <1>2 DEF LookAtText
<1>4. CASE TextIsFresh(AtText(c))
  <2>1. PICK s, r : s = asker[c] /\ r = Moved(s, "read", s.probed, s.subs, s.text)
    OBVIOUS
  <2>2. CallAtWork(s) /\ asker[c] \in ACall
    BY <1>1, <2>1, CallFacts
  <2>3. MovesInForms(c, "read", "read")
    BY <2>2, AskerForms
  <2>4. asker' = [asker EXCEPT ![c] = r]
    BY <1>2, <1>3, <1>4, <2>1, <2>3 DEF MovesInForms, GoTo
  <2>5. Readable(texts[s.want.key], s.want.key, s.began)
    BY <1>1, <1>4, <2>1, FreshIsReadable DEF AtText
  <2>6. CallAtWork(r)
    <3>1. /\ s.text \in TextFile /\ TextFits(s.text, s.want.key, s.began) /\ s.subs \in Tracks
          /\ s.probed \in 0 .. content
          /\ s.probed # 0 => s.probed >= s.began \/ until[s.probed] + ProbeFor >= s.since
      BY <2>2 DEF CallAtWork, ACall
    <3>2. "read" \in CallStages /\ "read" \notin Writing
      BY DEF CallStages, Writing
    <3> QED
      BY <2>1, <2>2, <2>5, <3>1, <3>2, DoingMoved
  <2>7. CallsAtWork'
    BY <1>1, <2>4, <2>6, CallStep
  <2> QED
    BY <1>1, <2>7, LocksTyped, RestKept, RowStays, TextsStay
<1>5. CASE ~TextIsFresh(AtText(c))
  <2>1. x \in CallStages \ {"probe store", "read"} /\ x \notin Writing
    BY <1>2, <1>5 DEF CallStages, Writing
  <2>2. CallsAtWork'
    BY <1>1, <1>3, <2>1, GoesTo
  <2> QED
    BY <1>1, <2>2, LocksTyped, RestKept, RowStays, TextsStay
<1> QED
  BY <1>4, <1>5

LEMMA TakeTextInv == ASSUME MediaInv, NEW c \in Asker, TakeText(c) PROVE MediaInv'
<1>1. asker[c].pc # "absent" /\ GoTo(c, "look again")
      /\ writer' = [writer EXCEPT ![AtText(c)] = c]
      /\ UNCHANGED <<tick, content, until, probeRow, texts, found, prober>>
  BY DEF TakeText
<1>2. "look again" \in CallStages \ {"probe store", "read"} /\ "look again" \notin Writing
  BY DEF CallStages, Writing
<1>3. CallsAtWork'
  BY <1>1, <1>2, GoesTo
<1>4. writer' \in [TextKeys -> Asker \cup {NoOne}]
  BY <1>1, LocksTyped
<1> QED
  BY <1>1, <1>3, <1>4, LocksTyped, RestKept, RowStays, TextsStay

\* A call has this text.
LEMMA TextMoves ==
  ASSUME MediaInv, NEW c \in Asker, asker[c].pc # "absent", NEW text \in TextFile,
         NEW x \in CallStages \ {"probe store", "read"}, x \in Writing => text.of # 0,
         TextFits(text, AtText(c), asker[c].began),
         \/ asker' = [asker EXCEPT ![c].text = text, ![c].pc = x]
         \/ asker' = [asker EXCEPT ![c].pc = x, ![c].text = text],
         UNCHANGED <<tick, content, until, texts>>
  PROVE  CallsAtWork'
<1>1. PICK s, r : s = asker[c] /\ r = Moved(s, x, s.probed, s.subs, text)
  OBVIOUS
<1>2. CallAtWork(s) /\ asker[c] \in ACall
  BY <1>1, CallFacts
<1>3. MovesInForms(c, x, text)
  BY <1>2, AskerForms
<1>4. asker' = [asker EXCEPT ![c] = r]
  BY <1>1, <1>3 DEF MovesInForms
<1>5. CallAtWork(r)
  <2>1. /\ TextFits(text, s.want.key, s.began) /\ s.subs \in Tracks
        /\ s.probed \in 0 .. content
        /\ s.probed # 0 => s.probed >= s.began \/ until[s.probed] + ProbeFor >= s.since
    BY <1>1, <1>2 DEF CallAtWork, ACall, AtText
  <2> QED
    BY <1>1, <1>2, <2>1, DoingMoved
<1> QED
  BY <1>4, <1>5, CallStep

LEMMA ReadTextInv == ASSUME MediaInv, NEW c \in Asker, ReadText(c) PROVE MediaInv'
<1>1. PICK text, x : text = texts[AtText(c)] /\ x = IF text.at < 0 THEN "nothing" ELSE "served"
  OBVIOUS
<1>2. /\ asker[c].pc = "read" /\ FreeText(c)
      /\ asker' = [asker EXCEPT ![c].text = text, ![c].pc = x]
      /\ UNCHANGED <<tick, content, until, probeRow, texts, found, prober>>
  BY <1>1 DEF ReadText
<1>3. x \in CallStages \ {"probe store", "read"} /\ x \notin Writing
  BY <1>1 DEF CallStages, Writing
<1>4. CallAtWork(asker[c]) /\ AtText(c) \in TextKeys
  BY <1>2, CallFacts DEF AtText
<1>5. TextKept(text, AtText(c)) /\ text \in TextFile
  BY <1>1, <1>4 DEF MediaInv, TextsKept
<1>6. Readable(text, AtText(c), asker[c].began)
  BY <1>1, <1>2, <1>4 DEF CallAtWork, AtText
<1>7. TextFits(text, AtText(c), asker[c].began)
  <2>1. text.at \in Int
    BY <1>5 DEF TextFile
  <2> QED
    BY <1>5, <1>6, <2>1 DEF TextFits, TextKept, Readable
<1>8. CallsAtWork'
  BY <1>2, <1>3, <1>5, <1>7, TextMoves
<1> QED
  BY <1>2, <1>8, LocksTyped, RestKept, RowStays, TextsStay

LEMMA ExtractedOK ==
  ASSUME MediaInv, NEW c \in Asker, asker[c].pc # "absent", NEW stream \in TextKeys \cup Int,
         NEW by \in Int, stream = AtText(c) \/ by \notin {0, content}, Extracted(c, stream, by),
         UNCHANGED <<tick, content, until, texts>>
  PROVE  CallsAtWork'
<1>1. PICK text : text = [of |-> content, stream |-> stream, by |-> by, whole |-> TRUE, at |-> -1,
                          older |-> FALSE, late |-> FALSE]
  OBVIOUS
<1>2. [NoText EXCEPT !.of = content, !.stream = stream, !.by = by] = text
  <2>1. PICK p : p = [NoText EXCEPT !.of = content]
    OBVIOUS
  <2>2. p = [of |-> content, stream |-> 0, by |-> 0, whole |-> TRUE, at |-> -1,
             older |-> FALSE, late |-> FALSE]
    BY <2>1 DEF NoText
  <2>3. PICK q : q = [p EXCEPT !.stream = stream]
    OBVIOUS
  <2>4. q = [of |-> content, stream |-> stream, by |-> 0, whole |-> TRUE, at |-> -1,
             older |-> FALSE, late |-> FALSE]
    BY <2>2, <2>3
  <2>5. [q EXCEPT !.by = by] = text
    <3>1. PICK t : t = [q EXCEPT !.by = by]
      OBVIOUS
    <3>2. t = [of |-> content, stream |-> stream, by |-> by, whole |-> TRUE, at |-> -1,
               older |-> FALSE, late |-> FALSE]
      BY <2>4, <3>1
    <3> QED
      BY <1>1, <3>1, <3>2
  <2>6. [NoText EXCEPT !.of = content, !.stream = stream, !.by = by] = [q EXCEPT !.by = by]
    BY <2>1, <2>3 DEF NoText
  <2> QED
    BY <2>5, <2>6
<1>3. asker' = [asker EXCEPT ![c].pc = "write", ![c].text = text]
  BY <1>2 DEF Extracted
<1>4. text \in TextFile
  BY <1>1, ClockTyped DEF TextFile
<1>5. content >= asker[c].began /\ content # 0
  <2>1. PICK n, b : n = content /\ b = asker[c].began
    OBVIOUS
  <2>2. n \in Int /\ b \in Int /\ b <= n /\ n # 0
    BY <2>1, BeganTyped
  <2> QED
    BY <2>1, <2>2
<1>6. TextFits(text, AtText(c), asker[c].began)
  BY <1>1, <1>5 DEF TextFits
<1>7. "write" \in CallStages \ {"probe store", "read"} /\ text.of # 0
  BY <1>1, <1>5 DEF CallStages, Writing
<1> QED
  BY <1>3, <1>4, <1>6, <1>7, TextMoves

LEMMA ExtractInv == ASSUME MediaInv, NEW c \in Asker, Extract(c) PROVE MediaInv'
<1>1. asker[c].pc # "absent" /\ Extracted(c, AtText(c), 0)
      /\ UNCHANGED <<tick, content, until, probeRow, texts, found, prober, writer>>
  BY DEF Extract
<1>2. AtText(c) \in TextKeys
  BY <1>1, CallFacts DEF AtText
<1>3. CallsAtWork'
  BY <1>1, <1>2, ExtractedOK
<1> QED
  BY <1>1, <1>3, LocksTyped, RestKept, RowStays, TextsStay

LEMMA ExtractFailsInv == ASSUME MediaInv, NEW c \in Asker, ExtractFails(c) PROVE MediaInv'
<1>1. asker[c].pc # "absent"
      /\ UNCHANGED <<tick, content, until, probeRow, texts, found, prober>>
  BY DEF ExtractFails
<1>2. PICK x : x = IF AtText(c) = Outside THEN "served" ELSE "probe"
  OBVIOUS
<1>3. GoTo(c, x) /\ (FreeText(c) \/ UNCHANGED writer)
  BY <1>2 DEF ExtractFails
<1>4. x \in CallStages \ {"probe store", "read"} /\ x \notin Writing
  BY <1>2 DEF CallStages, Writing
<1>5. CallsAtWork'
  BY <1>1, <1>3, <1>4, GoesTo
<1> QED
  BY <1>1, <1>3, <1>5, LocksTyped, RestKept, RowStays, TextsStay

\* If the position is from a probe of what the file holds now, the stream is right.
LEMMA RetryInv == ASSUME MediaInv, NEW c \in Asker, Retry(c) PROVE MediaInv'
<1>1. asker[c].pc # "absent" /\ UNCHANGED <<tick, content, until, probeRow, texts, found, prober>>
  BY DEF Retry
<1>2. CASE \E i \in OrdinalOf(c) :
             /\ i \in DOMAIN Parsed(content).subs
             /\ Extracted(c, Parsed(content).subs[i].index[2], asker[c].probed)
             /\ UNCHANGED writer
  <2>1. PICK i \in OrdinalOf(c) :
          /\ i \in DOMAIN Parsed(content).subs
          /\ Extracted(c, Parsed(content).subs[i].index[2], asker[c].probed)
          /\ UNCHANGED writer
    BY <1>2
  <2>2. PICK stream, by, subs : /\ subs = Parsed(content).subs /\ by = asker[c].probed
                                /\ stream = subs[i].index[2]
    OBVIOUS
  <2>3. subs \in Tracks
    <3>1. content \in DOMAIN Contents
      BY ClockTyped, MediaConstants
    <3> QED
      BY <2>2, <3>1, TracksOfKindFacts DEF Parsed
  <2>4. stream \in Int
    <3>1. subs \in Seq(MediaTrack) /\ i \in DOMAIN subs
      BY <2>1, <2>2, <2>3 DEF Tracks
    <3>2. subs \in Seq(MediaTrack)
      BY <3>1
    <3>3. subs[i] \in MediaTrack
      BY <3>1, <3>2
    <3>4. subs[i].index \in {"inner", "beside", "open", "addon"} \X Int
      BY <3>3 DEF MediaTrack
    <3> QED
      BY <2>2, <3>4
  <2>5. by \in 0 .. content
    BY <1>1, <2>2, CallFacts
  <2>6. by # 0
    <3>1. CASE asker[c].probed = 0
      <4>1. OrdinalOf(c) = {}
        BY <3>1 DEF OrdinalOf
      <4> QED
        BY <2>1, <4>1
    <3> QED
      BY <2>2, <3>1
  <2>7. by \in Int
    BY <2>5, ClockTyped
  <2>8. ASSUME by = content PROVE stream = AtText(c)
    <3>1. OrdinalOf(c) = {l \in DOMAIN subs : subs[l].index = <<"inner", AtText(c)>>}
      BY <2>2, <2>6, <2>8 DEF OrdinalOf
    <3>2. subs[i].index = <<"inner", AtText(c)>>
      BY <2>1, <3>1
    <3> QED
      BY <2>2, <3>2
  <2>9. Extracted(c, stream, by) /\ stream \in TextKeys \cup Int
    BY <2>1, <2>2, <2>4
  <2>10. stream = AtText(c) \/ by \notin {0, content}
    BY <2>6, <2>8
  <2>11. CallsAtWork'
    BY <1>1, <2>7, <2>9, <2>10, ExtractedOK
  <2> QED
    BY <1>1, <2>1, <2>11, LocksTyped, RestKept, RowStays, TextsStay
<1>3. CASE GoTo(c, "served") /\ FreeText(c)
  <2>1. "served" \in CallStages \ {"probe store", "read"} /\ "served" \notin Writing
    BY DEF CallStages, Writing
  <2>2. CallsAtWork'
    BY <1>1, <1>3, <2>1, GoesTo
  <2> QED
    BY <1>1, <1>3, <2>2, LocksTyped, RestKept, RowStays, TextsStay
<1> QED
  BY <1>2, <1>3 DEF Retry

\* A file of a subtitle changes for one that is not of an earlier file, or
\* that is late: who is about to read it may.
LEMMA CallsKept ==
  ASSUME MediaInv, NEW k \in TextKeys, NEW text, texts' = [texts EXCEPT ![k] = text],
         text.of = content \/ text.late \/ text.at < 0,
         NEW r, CallAtWork(r), UNCHANGED <<tick, content, until>>
  PROVE  CallAtWork(r)'
<1>1. r.want.key \in TextKeys /\ r.began \in 1 .. content
  BY DEF CallAtWork, ACall, TextKeys
<1>2. PICK n \in Nat : n = content
  BY ClockTyped
<1>3. PICK b : b = r.began /\ b \in Int /\ b <= n
  BY <1>1, <1>2
<1>4. PICK key : key = r.want.key
  OBVIOUS
<1>5. texts \in [TextKeys -> TextFile]
  BY DEF MediaInv, TextsKept
<1>6. texts'[key] = IF key = k THEN text ELSE texts[key]
  BY <1>1, <1>4, <1>5
<1>7. r.pc = "read" => Readable(texts'[key], key, b)
  <2>1. CASE key = k
    <3>1. texts'[key] = text
      BY <1>6, <2>1
    <3>2. text.at < 0 \/ text.of >= b \/ text.late
      BY <1>2, <1>3
    <3> QED
      BY <3>1, <3>2 DEF Readable
  <2>2. CASE key # k
    BY <1>3, <1>4, <1>6, <2>2 DEF CallAtWork
  <2> QED
    BY <2>1, <2>2
<1> QED
  BY <1>3, <1>4, <1>7 DEF CallAtWork

LEMMA LaidFacts ==
  ASSUME MediaInv, NEW c \in Asker, asker[c].pc \in Writing, NEW whole \in BOOLEAN
  PROVE  /\ Laid(c, whole) \in TextFile /\ TextKept(Laid(c, whole), AtText(c))
         /\ Laid(c, whole).of = content \/ Laid(c, whole).late
<1>1. asker[c].pc # "absent"
  BY DEF Writing
<1>2. PICK text : text = asker[c].text
  OBVIOUS
<1>3. CallAtWork(asker[c]) /\ text \in TextFile
  BY <1>1, <1>2, CallFacts
<1>4. text.of # 0 /\ TextFits(text, AtText(c), asker[c].began)
  BY <1>2, <1>3 DEF CallAtWork, AtText
<1>5. PICK late \in BOOLEAN, n \in Nat, now \in Nat :
        n = content /\ now = tick /\ (late <=> text.of # n)
  BY ClockTyped
<1>6. PICK laid : laid = [of |-> text.of, stream |-> text.stream, by |-> text.by,
                          whole |-> whole, at |-> now, older |-> text.older, late |-> late]
  OBVIOUS
<1>7. Laid(c, whole) = laid
  <2>1. text = [of |-> text.of, stream |-> text.stream, by |-> text.by, whole |-> text.whole,
                at |-> text.at, older |-> text.older, late |-> text.late]
    BY <1>3 DEF TextFile
  <2>2. PICK a, b, d, e, f, g, h : /\ a = text.of /\ b = text.stream /\ d = text.by
                                   /\ e = text.whole /\ f = text.at /\ g = text.older
                                   /\ h = text.late
    OBVIOUS
  <2>3. text = [of |-> a, stream |-> b, by |-> d, whole |-> e, at |-> f, older |-> g, late |-> h]
    BY <2>1, <2>2
  <2>4. PICK p : p = [text EXCEPT !.whole = whole]
    OBVIOUS
  <2>5. p = [of |-> a, stream |-> b, by |-> d, whole |-> whole, at |-> f, older |-> g, late |-> h]
    BY <2>3, <2>4
  <2>6. PICK q : q = [p EXCEPT !.at = now]
    OBVIOUS
  <2>7. q = [of |-> a, stream |-> b, by |-> d, whole |-> whole, at |-> now, older |-> g, late |-> h]
    BY <2>5, <2>6
  <2>8. PICK t : t = [q EXCEPT !.late = late]
    OBVIOUS
  <2>9. t = [of |-> a, stream |-> b, by |-> d, whole |-> whole, at |-> now, older |-> g,
             late |-> late]
    BY <2>7, <2>8
  <2>10. t = laid
    BY <1>6, <2>2, <2>9
  <2>11. late = (text.of # content)
    BY <1>5
  <2>12. [text EXCEPT !.whole = whole, !.at = now, !.late = late] = t
    BY <2>4, <2>6, <2>8
  <2>13. Laid(c, whole) = [text EXCEPT !.whole = whole, !.at = now, !.late = late]
    BY <1>2, <1>5, <2>11 DEF Laid
  <2> QED
    BY <2>10, <2>12, <2>13
<1>8. laid \in TextFile
  BY <1>3, <1>5, <1>6 DEF TextFile
<1>9. laid.of = content \/ laid.late
  BY <1>5, <1>6
<1>10. TextKept(laid, AtText(c))
  BY <1>4, <1>5, <1>6, <1>9 DEF TextKept, TextFits
<1> QED
  BY <1>7, <1>8, <1>9, <1>10

LEMMA TextLaid ==
  ASSUME MediaInv, NEW k \in TextKeys, NEW text \in TextFile, TextKept(text, k),
         texts' = [texts EXCEPT ![k] = text], UNCHANGED content
  PROVE  TextsKept'
<1>1. texts \in [TextKeys -> TextFile] /\ \A l \in TextKeys : TextKept(texts[l], l)
  BY DEF MediaInv, TextsKept
<1>2. \A l \in TextKeys : texts'[l] = IF l = k THEN text ELSE texts[l]
  BY <1>1
<1>3. texts' \in [TextKeys -> TextFile]
  BY <1>1
<1>4. ASSUME NEW l \in TextKeys PROVE TextKept(texts[l], l)'
  <2>1. PICK t : t = texts'[l]
    OBVIOUS
  <2>2. TextKept(t, l)
    BY <1>1, <1>2, <2>1
  <2> QED
    BY <2>1, <2>2 DEF TextKept
<1> QED
  BY <1>3, <1>4 DEF TextsKept

LEMMA OneCallAndText ==
  ASSUME MediaInv, NEW c \in Asker, NEW r, asker' = [asker EXCEPT ![c] = r],
         r = Idle \/ CallAtWork(r), NEW k \in TextKeys, NEW text,
         texts' = [texts EXCEPT ![k] = text],
         text.of = content \/ text.late \/ text.at < 0,
         UNCHANGED <<tick, content, until>>
  PROVE  CallsAtWork'
<1>1. asker = [d \in Asker |-> asker[d]]
      /\ \A d \in Asker : asker[d] = Idle \/ CallAtWork(asker[d])
  BY DEF MediaInv, CallsAtWork
<1>2. \A s : CallAtWork(s) => CallAtWork(s)'
  BY CallsKept
<1>3. asker' = [d \in Asker |-> IF d = c THEN r ELSE asker[d]]
  BY <1>1
<1>4. \A d \in Asker : asker'[d] = IF d = c THEN r ELSE asker[d]
  BY <1>3
<1>5. ASSUME NEW d \in Asker PROVE (asker[d] = Idle \/ CallAtWork(asker[d]))'
  <2>1. PICK s : s = asker'[d]
    OBVIOUS
  <2>2. s = Idle \/ CallAtWork(s)'
    BY <1>1, <1>2, <1>4, <2>1
  <2> QED
    BY <2>1, <2>2 DEF CallAtWork
<1>6. asker' = [d \in Asker |-> asker'[d]]
  BY <1>3
<1> QED
  BY <1>5, <1>6 DEF CallsAtWork

\* The call that writes goes on to one of these.
LEMMA WriterMoves ==
  ASSUME MediaInv, NEW c \in Asker, asker[c].pc \in Writing,
         NEW x \in {"fill", "fill alone", "write alone", "served"}, GoTo(c, x)
  PROVE  \E r : CallAtWork(r) /\ asker' = [asker EXCEPT ![c] = r]
<1>1. PICK s, r : s = asker[c] /\ r = Moved(s, x, s.probed, s.subs, s.text)
  OBVIOUS
<1>2. asker[c].pc # "absent"
  BY DEF Writing
<1>3. CallAtWork(s) /\ asker[c] \in ACall
  BY <1>1, <1>2, CallFacts
<1>4. MovesInForms(c, x, x)
  BY <1>3, AskerForms
<1>5. asker' = [asker EXCEPT ![c] = r]
  BY <1>1, <1>4 DEF GoTo, MovesInForms
<1>6. x \in CallStages \ {"probe store", "read"} /\ s.text.of # 0
  BY <1>1, <1>3 DEF CallStages, Writing, CallAtWork
<1>7. CallAtWork(r)
  BY <1>1, <1>3, <1>6, StageMoves
<1> QED
  BY <1>5, <1>7

LEMMA OpenTextInv == ASSUME MediaInv, NEW c \in Asker, OpenText(c) PROVE MediaInv'
<1>1. asker[c].pc \in Writing /\ asker[c].pc # "absent"
      /\ UNCHANGED <<tick, content, until, probeRow, found, prober, writer>>
  BY DEF OpenText, Writing
<1>2. PICK x, text : /\ x = (IF asker[c].pc = "write" THEN "fill" ELSE "fill alone")
                     /\ text = Laid(c, FALSE)
  OBVIOUS
<1>3. GoTo(c, x) /\ texts' = [texts EXCEPT ![AtText(c)] = text] /\ x \in {"fill", "fill alone"}
  BY <1>2 DEF OpenText
<1>4. PICK k \in TextKeys : k = AtText(c)
  BY <1>1, CallFacts DEF AtText
<1>5. text \in TextFile /\ TextKept(text, k) /\ (text.of = content \/ text.late)
  BY <1>1, <1>2, <1>4, LaidFacts
<1>6. PICK r : CallAtWork(r) /\ asker' = [asker EXCEPT ![c] = r]
  BY <1>1, <1>3, WriterMoves
<1>7. texts' = [texts EXCEPT ![k] = text]
  BY <1>3, <1>4
<1>8. CallsAtWork'
  BY <1>1, <1>5, <1>6, <1>7, OneCallAndText
<1>9. TextsKept'
  BY <1>1, <1>5, <1>7, TextLaid
<1> QED
  BY <1>1, <1>8, <1>9, LocksTyped, RestKept, RowStays

LEMMA WrittenMoves ==
  ASSUME MediaInv, NEW c \in Asker, asker[c].pc \in Writing, Written(c)
  PROVE  /\ \E r : (r = Idle \/ CallAtWork(r)) /\ asker' = [asker EXCEPT ![c] = r]
         /\ writer' \in [TextKeys -> Asker \cup {NoOne}]
<1>1. CASE asker[c].pc \in {"write", "fill"}
  <2>1. GoTo(c, "served") /\ FreeText(c)
    BY <1>1 DEF Written
  <2>2. PICK r : CallAtWork(r) /\ asker' = [asker EXCEPT ![c] = r]
    BY <2>1, WriterMoves
  <2> QED
    BY <2>1, <2>2, LocksTyped
<1>2. CASE asker[c].pc \notin {"write", "fill"}
  <2>1. asker' = [asker EXCEPT ![c] = Idle] /\ UNCHANGED writer
    BY <1>2 DEF Written
  <2> QED
    BY <2>1, LocksTyped
<1> QED
  BY <1>1, <1>2

LEMMA FillTextInv == ASSUME MediaInv, NEW c \in Asker, FillText(c) PROVE MediaInv'
<1>1. asker[c].pc \in Writing /\ asker[c].pc # "absent" /\ Written(c)
      /\ UNCHANGED <<tick, content, until, probeRow, found, prober>>
  BY DEF FillText, Writing
<1>2. PICK text : text = Laid(c, TRUE)
  OBVIOUS
<1>3. PICK k \in TextKeys : k = AtText(c)
  BY <1>1, CallFacts DEF AtText
<1>4. texts' = [texts EXCEPT ![k] = text]
  BY <1>2, <1>3 DEF FillText
<1>5. text \in TextFile /\ TextKept(text, k) /\ (text.of = content \/ text.late)
  BY <1>1, <1>2, <1>3, LaidFacts
<1>6. PICK r : (r = Idle \/ CallAtWork(r)) /\ asker' = [asker EXCEPT ![c] = r]
  BY <1>1, WrittenMoves
<1>7. writer' \in [TextKeys -> Asker \cup {NoOne}]
  BY <1>1, WrittenMoves
<1>8. CallsAtWork'
  BY <1>1, <1>4, <1>5, <1>6, OneCallAndText
<1>9. TextsKept'
  BY <1>1, <1>4, <1>5, TextLaid
<1> QED
  BY <1>1, <1>7, <1>8, <1>9, LocksTyped, RestKept, RowStays

LEMMA WriteFailsInv == ASSUME MediaInv, NEW c \in Asker, WriteFails(c) PROVE MediaInv'
<1>1. asker[c].pc \in Writing /\ Written(c)
      /\ UNCHANGED <<tick, content, until, probeRow, texts, found, prober>>
  BY DEF WriteFails, Writing
<1>2. PICK r : (r = Idle \/ CallAtWork(r)) /\ asker' = [asker EXCEPT ![c] = r]
  BY <1>1, WrittenMoves
<1>3. writer' \in [TextKeys -> Asker \cup {NoOne}]
  BY <1>1, WrittenMoves
<1>4. CallsAtWork'
  BY <1>1, <1>2, CallStep
<1> QED
  BY <1>1, <1>3, <1>4, LocksTyped, RestKept, RowStays, TextsStay

LEMMA CallLeavesInv == ASSUME MediaInv, NEW c \in Asker, CallLeaves(c) PROVE MediaInv'
<1>1. /\ asker[c].pc # "absent" /\ FreeProbe(c) /\ FreeText(c)
      /\ UNCHANGED <<tick, content, until, probeRow, texts, found>>
  BY DEF CallLeaves
<1>2. CASE asker[c].pc \in {"write", "fill"}
  <2>1. PICK x : x = IF asker[c].pc = "write" THEN "write alone" ELSE "fill alone"
    OBVIOUS
  <2>2. GoTo(c, x) /\ x \in {"fill alone", "write alone"} /\ asker[c].pc \in Writing
    BY <1>2, <2>1 DEF CallLeaves, Writing
  <2>3. PICK r : CallAtWork(r) /\ asker' = [asker EXCEPT ![c] = r]
    BY <2>2, WriterMoves
  <2>4. CallsAtWork'
    BY <1>1, <2>3, CallStep
  <2> QED
    BY <1>1, <2>4, LocksTyped, RestKept, RowStays, TextsStay
<1>3. CASE asker[c].pc \notin {"write", "fill"}
  <2>1. asker' = [asker EXCEPT ![c] = Idle]
    BY <1>3 DEF CallLeaves
  <2>2. CallsAtWork'
    BY <1>1, <2>1, CallStep
  <2> QED
    BY <1>1, <2>2, LocksTyped, RestKept, RowStays, TextsStay
<1> QED
  BY <1>2, <1>3

\* Every call keeps what it has, when the rest of the state changes so that it may.
LEMMA AllKept ==
  ASSUME MediaInv, UNCHANGED asker, ASSUME NEW r, CallAtWork(r) PROVE CallAtWork(r)'
  PROVE  CallsAtWork'
<1>1. asker = [d \in Asker |-> asker[d]]
      /\ \A d \in Asker : asker[d] = Idle \/ CallAtWork(asker[d])
  BY DEF MediaInv, CallsAtWork
<1>2. \A r : CallAtWork(r) => CallAtWork(r)'
  OBVIOUS
<1>3. ASSUME NEW d \in Asker PROVE (asker[d] = Idle \/ CallAtWork(asker[d]))'
  <2>1. PICK s : s = asker[d] /\ s = asker'[d]
    OBVIOUS
  <2>2. s = Idle \/ CallAtWork(s)'
    BY <1>1, <1>2, <2>1
  <2> QED
    BY <2>1, <2>2 DEF CallAtWork
<1> QED
  BY <1>1, <1>3 DEF CallsAtWork

LEMMA SweptInv == ASSUME MediaInv, NEW k \in TextKeys, TextIsSwept(k) PROVE MediaInv'
<1>1. texts' = [texts EXCEPT ![k] = NoText]
      /\ UNCHANGED <<tick, content, until, probeRow, found, prober, writer, asker>>
  BY DEF TextIsSwept
<1>2. PICK text : text = NoText
  OBVIOUS
<1>3. text \in TextFile /\ text.at < 0 /\ TextKept(text, k)
  BY <1>2, NoTextTyped DEF TextKept, NoText
<1>4. texts' = [texts EXCEPT ![k] = text]
  BY <1>1, <1>2
<1>5. TextsKept'
  BY <1>1, <1>3, <1>4, TextLaid
<1>6. ASSUME NEW r, CallAtWork(r) PROVE CallAtWork(r)'
  BY <1>1, <1>3, <1>4, <1>6, CallsKept
<1>7. CallsAtWork'
  BY <1>1, <1>6, AllKept
<1>8. RowRecent'
  BY <1>1, RowStays
<1>9. MediaTypes'
  BY <1>1 DEF MediaInv, MediaTypes
<1> QED
  BY <1>5, <1>7, <1>8, <1>9 DEF MediaInv

LEMMA ProcessEndsInv == ASSUME MediaInv, ProcessEnds PROVE MediaInv'
<1>1. /\ asker' = [c \in Asker |-> Idle] /\ prober' = NoOne
      /\ writer' = [k \in TextKeys |-> NoOne]
      /\ found' = [p \in Prefs |-> [at |-> -1, tracks |-> << >>]]
      /\ UNCHANGED <<tick, content, until, probeRow, texts>>
  BY DEF ProcessEnds
<1>2. CallsAtWork'
  BY <1>1 DEF CallsAtWork
<1>3. found' \in [Prefs -> [at : Int, tracks : Tracks]]
  BY <1>1, EmptyTracks
<1>4. prober' \in Asker \cup {NoOne} /\ writer' \in [TextKeys -> Asker \cup {NoOne}]
  BY <1>1
<1> QED
  BY <1>1, <1>2, <1>3, <1>4, RestKept, RowStays, TextsStay

LEMMA TickInv == ASSUME MediaInv, Tick PROVE MediaInv'
<1>1. /\ \A c \in Asker : asker[c].pc # "absent" => asker[c].since = tick
      /\ tick < LastTick /\ tick' = tick + 1
      /\ UNCHANGED <<content, until, probeRow, texts, found, prober, writer, asker>>
  BY DEF Tick
<1>2. PICK t \in Nat : t = tick /\ tick' = t + 1
  BY <1>1, ClockTyped
<1>3. MediaTypes'
  <2>1. until \in [1 .. Len(Contents) -> -1 .. t]
    BY <1>2 DEF MediaInv, MediaTypes
  <2>2. -1 .. t \subseteq -1 .. t + 1
    OBVIOUS
  <2>3. until \in [1 .. Len(Contents) -> -1 .. t + 1]
    BY <2>1, <2>2
  <2>4. tick' \in 0 .. LastTick
    BY <1>1, <1>2, MediaConstants
  <2> QED
    BY <1>1, <1>2, <2>3, <2>4 DEF MediaInv, MediaTypes
<1>4. RowRecent'
  <2>1. 0 .. t \subseteq 0 .. t + 1
    OBVIOUS
  <2> QED
    BY <1>1, <1>2, <2>1 DEF MediaInv, RowRecent
<1>5. TextsKept'
  BY <1>1, TextsStay
<1>6. CallsAtWork'
  <2>1. asker = [d \in Asker |-> asker[d]]
        /\ \A d \in Asker : asker[d] = Idle \/ CallAtWork(asker[d])
    BY DEF MediaInv, CallsAtWork
  <2>2. ASSUME NEW d \in Asker PROVE (asker[d] = Idle \/ CallAtWork(asker[d]))'
    <3>1. PICK s : s = asker[d] /\ s = asker'[d]
      BY <1>1
    <3>2. CASE s # Idle
      <4>1. CallAtWork(s)
        BY <2>1, <3>1, <3>2
      <4>2. s.pc # "absent"
        BY <4>1 DEF CallAtWork, ACall, CallStages, Writing
      <4>3. s.since = t
        BY <1>1, <1>2, <3>1, <4>2
      <4>4. s.since \in {tick' - 1, tick'}
        BY <1>2, <4>3
      <4>5. CallAtWork(s)'
        BY <1>1, <4>1, <4>4 DEF CallAtWork
      <4> QED
        BY <3>1, <4>5 DEF CallAtWork
    <3> QED
      BY <3>1, <3>2
  <2> QED
    BY <1>1, <2>1, <2>2 DEF CallsAtWork
<1> QED
  BY <1>3, <1>4, <1>5, <1>6 DEF MediaInv

\* A text of the file that is replaced is older then, and what was there
\* until now is recent.
LEMMA ReplaceInv == ASSUME MediaInv, Replace PROVE MediaInv'
<1>1. /\ content < Len(Contents) /\ content' = content + 1
      /\ until' = [until EXCEPT ![content] = tick]
      /\ texts' = [k \in TextKeys |-> [texts[k] EXCEPT !.older = texts[k].at >= 0]]
      /\ UNCHANGED <<tick, probeRow, found, prober, writer, asker>>
  BY DEF Replace
<1>2. PICK n \in Nat, t \in Nat : n = content /\ t = tick /\ content' = n + 1
      /\ n \in 1 .. Len(Contents) /\ n < Len(Contents)
  BY <1>1, ClockTyped
<1>3. PICK was : was = until /\ was \in [1 .. Len(Contents) -> -1 .. t]
  BY <1>2, ClockTyped
<1>4. until' = [was EXCEPT ![n] = t] /\ until'[n] = t
      /\ \A v \in 1 .. Len(Contents) : v # n => until'[v] = was[v]
  BY <1>1, <1>2, <1>3
<1>5. until' \in [1 .. Len(Contents) -> -1 .. t]
  <2>1. t \in -1 .. t
    OBVIOUS
  <2> QED
    BY <1>3, <1>4, <2>1
<1>6. MediaTypes'
  <2>1. content' \in 1 .. Len(Contents)
    BY <1>2, MediaConstants
  <2> QED
    BY <1>1, <1>2, <1>5, <2>1 DEF MediaInv, MediaTypes
<1>7. RowRecent'
  <2>1. CASE probeRow = NoProbe
    BY <1>1, <2>1 DEF RowRecent
  <2>2. CASE probeRow # NoProbe
    <3>1. PICK of, at : of = probeRow.of /\ at = probeRow.at
      OBVIOUS
    <3>2. /\ probeRow \in [of : 1 .. n, at : 0 .. t] /\ of \in 1 .. n /\ at \in 0 .. t
          /\ (of = n \/ was[of] >= at - 1)
      BY <1>2, <1>3, <2>2, <3>1 DEF MediaInv, RowRecent
    <3>3. 1 .. n \subseteq 1 .. n + 1
      OBVIOUS
    <3>4. probeRow \in [of : 1 .. n + 1, at : 0 .. t]
      BY <3>2, <3>3
    <3>5. until'[of] >= at - 1
      <4>1. CASE of = n
        BY <1>4, <3>2, <4>1
      <4>2. CASE of # n
        <5>1. of \in 1 .. Len(Contents)
          BY <1>2, <3>2, MediaConstants
        <5> QED
          BY <1>4, <3>2, <4>2, <5>1
      <4> QED
        BY <4>1, <4>2
    <3> QED
      BY <1>1, <1>2, <3>1, <3>4, <3>5 DEF RowRecent
  <2> QED
    BY <2>1, <2>2
<1>8. ASSUME NEW k \in TextKeys
      PROVE  \E text \in TextFile, old \in TextFile, older \in BOOLEAN :
               /\ old = texts[k] /\ text = texts'[k] /\ TextKept(old, k)
               /\ (older <=> old.at >= 0)
               /\ text.of = old.of /\ text.stream = old.stream /\ text.by = old.by
               /\ text.at = old.at /\ text.late = old.late /\ text.older = older
  <2>1. PICK old \in TextFile : old = texts[k] /\ TextKept(old, k)
    BY DEF MediaInv, TextsKept
  <2>2. PICK older \in BOOLEAN : older <=> old.at >= 0
    OBVIOUS
  <2>3. PICK text : text = texts'[k]
    OBVIOUS
  <2>a. older = (old.at >= 0)
    BY <2>2
  <2>4. text = [old EXCEPT !.older = older]
    BY <1>1, <2>1, <2>3, <2>a
  <2>5. text \in TextFile
    BY <2>4 DEF TextFile
  <2>6. /\ text.of = old.of /\ text.stream = old.stream /\ text.by = old.by
        /\ text.at = old.at /\ text.late = old.late /\ text.older = older
    BY <2>4 DEF TextFile
  <2> QED
    BY <2>1, <2>2, <2>3, <2>5, <2>6
<1>9. TextsKept'
  <2>1. texts' = [k \in TextKeys |-> texts'[k]]
    BY <1>1
  <2>2. \A k \in TextKeys : texts'[k] \in TextFile
    BY <1>8
  <2>3. texts' \in [TextKeys -> TextFile]
    BY <2>1, <2>2
  <2>4. ASSUME NEW k \in TextKeys PROVE TextKept(texts[k], k)'
    <3>1. PICK text \in TextFile, old \in TextFile, older \in BOOLEAN :
            /\ old = texts[k] /\ text = texts'[k] /\ TextKept(old, k)
            /\ (older <=> old.at >= 0)
            /\ text.of = old.of /\ text.stream = old.stream /\ text.by = old.by
            /\ text.at = old.at /\ text.late = old.late /\ text.older = older
      BY <1>8
    <3>2. text.at < 0 => text.of = 0
      BY <3>1 DEF TextKept
    <3>3. text.at >= 0 /\ k # Outside =>
            /\ text.older
            /\ text.stream = k \/ text.by \notin {0, text.of}
      BY <3>1 DEF TextKept
    <3> QED
      BY <3>1, <3>2, <3>3 DEF TextKept
  <2> QED
    BY <2>3, <2>4 DEF TextsKept
<1>10. ASSUME NEW r, CallAtWork(r) PROVE CallAtWork(r)'
  <2>1. PICK key : key = r.want.key /\ key \in TextKeys
    BY <1>10 DEF CallAtWork, ACall, TextKeys
  <2>2. PICK b, since, p : b = r.began /\ since = r.since /\ p = r.probed
    OBVIOUS
  <2>b. b \in 1 .. n /\ p \in 0 .. n
    BY <1>2, <1>10, <2>2 DEF CallAtWork
  <2>d. b \in Int /\ p \in Int /\ 1 <= b /\ b <= n /\ 0 <= p /\ p <= n
    BY <2>b
  <2>3. /\ since \in {t - 1, t}
        /\ p # 0 => p >= b \/ was[p] + ProbeFor >= since
        /\ r.pc = "probe store" => p # 0 /\ p >= b /\ (p = n \/ was[p] >= since)
    BY <1>2, <1>3, <1>10, <2>2 DEF CallAtWork
  <2>4. p # 0 => p \in 1 .. Len(Contents)
    <3>1. PICK m \in Nat : m = Len(Contents) /\ n < m
      BY <1>2, MediaConstants
    <3>2. p # 0 => p \in 1 .. m
      BY <2>d, <3>1
    <3> QED
      BY <3>1, <3>2
  <2>5. p # 0 => p >= b \/ until'[p] + ProbeFor >= since
    <3>1. CASE p = n
      BY <2>d, <3>1
    <3>2. CASE p # n
      BY <1>4, <2>3, <2>4, <3>2
    <3> QED
      BY <3>1, <3>2
  <2>6. r.pc = "probe store" => p # 0 /\ p >= b /\ until'[p] >= since
    <3>1. CASE p = n
      <4>1. until'[p] = t
        BY <1>4, <3>1
      <4>2. since \in {t - 1, t} /\ t \in Nat
        BY <2>3
      <4>3. t >= since
        BY <4>2
      <4>4. r.pc = "probe store" => p # 0 /\ p >= b
        BY <2>3
      <4> QED
        BY <4>1, <4>3, <4>4
    <3>2. CASE p # n
      BY <1>4, <2>3, <2>4, <3>2
    <3> QED
      BY <3>1, <3>2
  <2>7. b \in 1 .. n + 1 /\ p \in 0 .. n + 1
    BY <2>d
  <2>8. r.pc = "read" => Readable(texts'[key], key, b)
    <3>1. PICK text \in TextFile, old \in TextFile :
            /\ old = texts[key] /\ text = texts'[key]
            /\ text.of = old.of /\ text.at = old.at /\ text.late = old.late
      BY <1>8, <2>1
    <3>2. r.pc = "read" => Readable(old, key, b)
      BY <1>10, <2>1, <2>2, <3>1 DEF CallAtWork
    <3> QED
      BY <3>1, <3>2 DEF Readable
  <2> QED
    BY <1>1, <1>2, <1>10, <2>1, <2>2, <2>b, <2>3, <2>5, <2>6, <2>7, <2>8 DEF CallAtWork
<1>11. CallsAtWork'
  BY <1>1, <1>10, AllKept
<1> QED
  BY <1>6, <1>7, <1>9, <1>11 DEF MediaInv

LEMMA MediaStutterInv == ASSUME MediaInv, UNCHANGED mediaVars PROVE MediaInv'
<1>1. UNCHANGED <<tick, content, until, probeRow, texts, found, prober, writer, asker>>
  BY DEF mediaVars
<1>2. ASSUME NEW r, CallAtWork(r) PROVE CallAtWork(r)'
  BY <1>1, <1>2 DEF CallAtWork
<1>3. CallsAtWork'
  BY <1>1, <1>2, AllKept
<1>4. TextsKept' /\ RowRecent'
  BY <1>1, TextsStay, RowStays
<1>5. MediaTypes'
  BY <1>1 DEF MediaInv, MediaTypes
<1> QED
  BY <1>3, <1>4, <1>5 DEF MediaInv

LEMMA MediaNextInv == ASSUME MediaInv, [MediaNext]_mediaVars PROVE MediaInv'
<1>1. ASSUME NEW c \in Asker,
             \/ StartMedia(c) \/ LookAtProbe(c) \/ TakeProbe(c) \/ Probe(c) \/ StoreProbe(c)
             \/ FfprobeFails(c) \/ SearchOpen(c) \/ SearchAddon(c) \/ LookAtText(c)
      PROVE  MediaInv'
  BY <1>1, StartMediaInv, LookAtProbeInv, TakeProbeInv, ProbeInv, StoreProbeInv,
     FfprobeFailsInv, SearchOpenInv, SearchAddonInv, LookAtTextInv
<1>2. ASSUME NEW c \in Asker,
             \/ TakeText(c) \/ ReadText(c) \/ Extract(c) \/ ExtractFails(c) \/ Retry(c)
             \/ OpenText(c) \/ FillText(c) \/ WriteFails(c) \/ CallLeaves(c)
      PROVE  MediaInv'
  BY <1>2, TakeTextInv, ReadTextInv, ExtractInv, ExtractFailsInv, RetryInv,
     OpenTextInv, FillTextInv, WriteFailsInv, CallLeavesInv
<1>3. ASSUME NEW k \in TextKeys, TextIsSwept(k) PROVE MediaInv'
  BY <1>3, SweptInv
<1> QED
  BY <1>1, <1>2, <1>3, ReplaceInv, ProcessEndsInv, TickInv, MediaStutterInv DEF MediaNext
-----------------------------------------------------------------------------
LEMMA MediaTyped == ASSUME MediaInv PROVE MediaTypeOK
<1>1. content \in DOMAIN Contents /\ DOMAIN Contents = 1 .. Len(Contents)
  BY ClockTyped, MediaConstants
<1>2. probeRow.of \in 0 .. content
  <2>1. PICK n \in Nat : n = content
    BY ClockTyped
  <2>2. CASE probeRow = NoProbe
    <3>1. probeRow.of = 0
      BY <2>2 DEF NoProbe
    <3> QED
      BY <2>1, <3>1
  <2>3. CASE probeRow # NoProbe
    <3>1. probeRow.of \in 1 .. n
      BY <2>1, <2>3 DEF MediaInv, RowRecent
    <3>2. probeRow.of \in 0 .. n
      BY <3>1
    <3> QED
      BY <2>1, <3>2
  <2> QED
    BY <2>2, <2>3
<1>3. texts = [k \in TextKeys |-> texts[k]]
  BY DEF MediaInv, TextsKept
<1>4. found = [p \in Prefs |-> found[p]]
  BY LocksTyped DEF MediaInv, MediaTypes
<1>5. asker = [c \in Asker |-> asker[c]]
  BY DEF MediaInv, CallsAtWork
<1>6. until \in [DOMAIN Contents -> -1 .. tick]
  BY <1>1, ClockTyped
<1>7. /\ tick \in 0 .. LastTick /\ prober \in Asker \cup {NoOne}
      /\ writer \in [TextKeys -> Asker \cup {NoOne}]
  BY DEF MediaInv, MediaTypes
<1> QED
  BY <1>1, <1>2, <1>3, <1>4, <1>5, <1>6, <1>7 DEF MediaTypeOK

LEMMA RecentHolds == ASSUME MediaInv PROVE TracksRecent
<1>1. ASSUME NEW c \in Asker, asker[c].pc = "chosen", asker[c].probed # 0
      PROVE  \/ asker[c].probed >= asker[c].began
             \/ until[asker[c].probed] + ProbeFor >= asker[c].since
  <2>1. CallAtWork(asker[c])
    BY <1>1, CallFacts
  <2> QED
    BY <1>1, <2>1 DEF CallAtWork
<1> QED
  BY <1>1 DEF TracksRecent

LEMMA TextHolds == ASSUME MediaInv PROVE TextRight
<1>1. ASSUME NEW c \in Asker, asker[c].pc = "served", asker[c].text.of # 0,
             AtText(c) # Outside
      PROVE  /\ asker[c].text.of >= asker[c].began \/ asker[c].text.late
             /\ asker[c].text.stream = AtText(c)
                \/ asker[c].text.by \notin {0, asker[c].text.of}
  <2>1. CallAtWork(asker[c])
    BY <1>1, CallFacts
  <2> QED
    BY <1>1, <2>1 DEF CallAtWork, TextFits, AtText
<1> QED
  BY <1>1 DEF TextRight

\* Every list of tracks has an index once.
LEMMA TracksOfTyped ==
  ASSUME MediaInv, NEW c \in Asker, asker[c].pc # "absent"
  PROVE  TracksOf(c).subs \in Tracks /\ TracksOf(c).audio \in Tracks
<1>1. PICK probe : probe = IF asker[c].probed = 0 THEN NoTracks ELSE Parsed(asker[c].probed)
  OBVIOUS
<1>2. probe.subs \in Tracks /\ probe.audio \in Tracks
  <2>1. CASE asker[c].probed = 0
    BY <1>1, <2>1, EmptyTracks DEF NoTracks
  <2>2. CASE asker[c].probed # 0
    <3>1. PICK v : v = asker[c].probed
      OBVIOUS
    <3>2. v \in DOMAIN Contents
      <4>0. PICK m \in Nat : m = Len(Contents)
        BY MediaConstants
      <4>a. PICK n \in Nat : n = content /\ n \in 1 .. m
        BY <4>0, ClockTyped
      <4>1. n = content /\ m = Len(Contents) /\ n <= m
        BY <4>0, <4>a
      <4>2. v \in 0 .. n /\ v # 0
        BY <2>2, <3>1, <4>1, CallFacts
      <4>3. v \in 1 .. m
        BY <4>1, <4>2
      <4> QED
        BY <4>1, <4>3, MediaConstants
    <3>3. TracksOfKind(v, "audio") \in Tracks /\ TracksOfKind(v, "subtitle") \in Tracks
      BY <3>2, TracksOfKindFacts
    <3> QED
      BY <1>1, <2>2, <3>1, <3>3 DEF Parsed
  <2> QED
    BY <2>1, <2>2
<1>3. PICK mine : mine = asker[c].subs /\ mine \in Tracks
  BY CallFacts
<1>4. PICK beside : beside = IF asker[c].want.what = "tracks" THEN Merged(Sidecars, probe.subs)
                             ELSE probe.subs
  OBVIOUS
<1>5. probe.subs \in Seq(MediaTrack) /\ mine \in Seq(MediaTrack)
  BY <1>2, <1>3 DEF Tracks
<1>6. beside \in Tracks
  <2>1. Sidecars \in Seq(MediaTrack)
    BY MediaAssumption
  <2>2. probe.subs \in Seq(MediaTrack)
    BY <1>5
  <2>3. Merged(Sidecars, probe.subs) \in Tracks
    BY <2>1, <2>2, MergedFacts
  <2> QED
    BY <1>2, <1>4, <2>3
<1>7. Merged(mine, beside) \in Tracks
  <2>1. mine \in Seq(MediaTrack) /\ beside \in Seq(MediaTrack)
    BY <1>5, <1>6 DEF Tracks
  <2> QED
    BY <2>1, MergedFacts
<1>8. TracksOf(c) = [audio |-> probe.audio,
                     subs |-> IF asker[c].want.what = "embed" THEN mine
                              ELSE IF mine = << >> THEN beside ELSE Merged(mine, beside)]
  BY <1>1, <1>3, <1>4 DEF TracksOf
<1> QED
  BY <1>2, <1>3, <1>6, <1>7, <1>8

LEMMA ChoiceHolds == ASSUME MediaInv PROVE ChoiceRight
<1>1. ASSUME NEW c \in Asker, asker[c].pc = "chosen"
      PROVE  LET subs == ToSet(TracksOf(c).subs)
                 audio == ToSet(TracksOf(c).audio)
                 wish == asker[c].want
                 s == SubtitleOf(c)
                 a == AudioOf(c)
                 speaks == {t \in subs : t.plays /\ t.lang = wish.subs}
             IN /\ s # NoTrack => /\ s.plays /\ wish.subs \notin {"", "off"}
                                  /\ Cardinality({t \in subs : t.index = s.index}) = 1
                                  /\ speaks # {} => s \in speaks
                                  /\ s.tag = "forced" /\ s \in speaks =>
                                       \A t \in speaks : t.tag = "forced"
                /\ s = NoTrack /\ wish.subs \notin {"", "off"} => \A t \in subs : ~t.plays
                /\ a # NoTrack =>
                     /\ a \in audio
                     /\ wish.audio # "auto" /\ (\E t \in audio : t.lang = wish.audio) =>
                          a.lang = wish.audio
                     /\ Dubbed(a) => \/ wish.audio \in {a.lang, a.tag}
                                     \/ \A t \in audio : Dubbed(t)
  <2>1. PICK list, heard, subs, audio, pref, said :
          /\ list = TracksOf(c).subs /\ heard = TracksOf(c).audio
          /\ subs = ToSet(list) /\ audio = ToSet(heard)
          /\ pref = asker[c].want.subs /\ said = asker[c].want.audio
    OBVIOUS
  <2>2. list \in Tracks /\ heard \in Tracks
    BY <1>1, <2>1, TracksOfTyped
  <2>3. list \in Seq(MediaTrack) /\ heard \in Seq(MediaTrack)
    BY <2>2 DEF Tracks
  <2>4. PICK s, a : s = SubtitleOf(c) /\ a = AudioOf(c)
    OBVIOUS
  <2>5. SubtitleRight(s, list, pref)
    <3>1. s = ChooseSubtitle(list, pref)
      BY <2>1, <2>4 DEF SubtitleOf
    <3>2. list \in Seq(MediaTrack)
      BY <2>3
    <3> QED
      BY <3>1, <3>2, SubtitleFacts
  <2>6. s # NoTrack => Cardinality({t \in subs : t.index = s.index}) = 1
    <3>1. s # NoTrack => s \in ToSet(list)
      BY <2>5 DEF SubtitleRight
    <3> QED
      BY <2>1, <2>2, <3>1, AloneInList
  <2>7. a # NoTrack => AudioRight(a, heard, said)
    <3>1. a # NoTrack => a = ChooseAudio(heard, said)
      BY <2>1, <2>4 DEF AudioOf
    <3>2. heard \in Seq(MediaTrack)
      BY <2>3
    <3> QED
      BY <3>1, <3>2, AudioFacts
  <2>8. PICK speaks : speaks = {t \in subs : t.plays /\ t.lang = pref}
    OBVIOUS
  <2>9. /\ s # NoTrack => /\ s.plays /\ pref \notin {"", "off"}
                          /\ speaks # {} => s \in speaks
                          /\ s.tag = "forced" /\ s \in speaks =>
                               \A t \in speaks : t.tag = "forced"
        /\ s = NoTrack /\ pref \notin {"", "off"} => \A t \in subs : ~t.plays
    BY <2>1, <2>5, <2>8 DEF SubtitleRight
  <2>10. a # NoTrack =>
           /\ a \in audio
           /\ said # "auto" /\ (\E t \in audio : t.lang = said) => a.lang = said
           /\ Dubbed(a) => said \in {a.lang, a.tag} \/ \A t \in audio : Dubbed(t)
    BY <2>1, <2>7 DEF AudioRight
  <2> QED
    BY <2>1, <2>4, <2>6, <2>8, <2>9, <2>10
<1> QED
  BY <1>1 DEF ChoiceRight

\* MediaRight holds in every reachable state, for any files, answers of the
\* searches, calls and ages: whatever comes between the steps of a call, its
\* tracks are recent, its choice among them is right, and a subtitle is that
\* of the stream and the file it was asked of.
THEOREM MediaSafe == MediaSpec => []MediaRight
<1>1. MediaInit => MediaInv
  BY MediaInitInv
<1>2. MediaInv /\ [MediaNext]_mediaVars => MediaInv'
  BY MediaNextInv
<1>3. MediaInv => MediaRight
  BY MediaTyped, RecentHolds, ChoiceHolds, TextHolds DEF MediaRight
<1> QED
  BY <1>1, <1>2, <1>3, PTL DEF MediaSpec
=============================================================================
