----------------------------- MODULE MediaStream -----------------------------
(***************************************************************************)
(* create_remux_response and create_export_response of streaming.rs: one   *)
(* ffmpeg per response, its output passed on as the body.  The body only   *)
(* runs while the client pulls; a guard inside it holds the permit and, of *)
(* a remux, counts how it ended.  What ffmpeg is told to do is left out.   *)
(*                                                                         *)
(* External: ffmpeg writes its output piece by piece, closes it and exits, *)
(* well or not, or hangs in any of these; time passes.                     *)
(***************************************************************************)
EXTENDS Integers, FiniteSets

CONSTANTS
  Client,     \* requests
  Permits,    \* Permits[k]: remux_max_concurrent, export_max_concurrent
  Pieces      \* bound: the pieces of a whole output

ASSUME StreamAssumption ==
  /\ IsFiniteSet(Client)
  /\ Permits \in [{"remux", "export"} -> Nat] /\ Pieces \in Nat \ {0}

VARIABLES
  pump,    \* the requests: where they are, and what the client received
  ffmpeg,  \* their processes
  overdue, \* requests whose deadline has passed
  metrics  \* RemuxMetrics

streamVars == <<pump, ffmpeg, overdue, metrics>>

Outcome == {"completed", "failed", "timed_out", "canceled", "spawn_errors",
            "read_errors"}
NoProcess == [state |-> "none", out |-> 0]

Pumps == [Client -> [pc : {"new", "queue", "spawn", "held", "reading",
                           "reap", "kill", "end"},
                     kind : {"remux", "export"}, got : 0..Pieces,
                     end : {"none", "clean", "error", "gone"}]]
Processes == [Client -> [state : {"none", "runs", "closed", "good", "bad"},
                         out : 0..Pieces]]
Counts == [Outcome \cup {"started", "active", "rejected"} -> Nat]
StreamTypeOK ==
  /\ pump \in Pumps /\ ffmpeg \in Processes
  /\ overdue \subseteq Client /\ metrics \in Counts

StreamInit ==
  /\ \E kind \in [Client -> {"remux", "export"}] :
       pump = [c \in Client |-> [pc |-> "new", kind |-> kind[c], got |-> 0,
                                 end |-> "none"]]
  /\ ffmpeg = [c \in Client |-> NoProcess]
  /\ overdue = {}
  /\ metrics = [m \in Outcome \cup {"started", "active", "rejected"} |-> 0]

InPump(c, p) == pump[c].pc = p
ToPump(c, p) == pump' = [pump EXCEPT ![c].pc = p]

\* The requests with a guard, and a permit in it.
Guarded == {c \in Client : pump[c].pc \notin {"new", "queue", "end"}}
OfKind(k) == {c \in Guarded : pump[c].kind = k}

Busy(k) == Cardinality(OfKind(k)) >= Permits[k]
Remux(c) == pump[c].kind = "remux"

\* The body is dropped: the permit is free, and ffmpeg is killed if it still
\* runs (kill_on_drop) ...
DropBody(c, how) ==
  /\ pump' = [pump EXCEPT ![c].pc = "end", ![c].end = how]
  /\ ffmpeg' = [ffmpeg EXCEPT ![c] = NoProcess]
  /\ UNCHANGED overdue

\* ... and a remux's guard counts what it came to; an export has none.
EndRemux(c, how, outcome) ==
  /\ Remux(c) /\ DropBody(c, how)
  /\ metrics' = [metrics EXCEPT !.active = @ - 1, ![outcome] = @ + 1]
EndExport(c, how) == ~Remux(c) /\ DropBody(c, how) /\ UNCHANGED metrics

EndPump(c, how, outcome) == EndRemux(c, how, outcome) \/ EndExport(c, how)
-----------------------------------------------------------------------------
AskStream(c) ==
  /\ InPump(c, "new")
  /\ ToPump(c, "queue")
  /\ UNCHANGED <<ffmpeg, overdue, metrics>>

\* An export is answered before it queues: HEAD by its headers, a source that
\* is not ours or not signed by an error.
ExportAnswered(c) ==
  /\ InPump(c, "new") /\ ~Remux(c)
  /\ \E how \in {"clean", "error"} :
       pump' = [pump EXCEPT ![c].pc = "end", ![c].end = how]
  /\ UNCHANGED <<ffmpeg, overdue, metrics>>

\* A permit is free in time: RemuxStreamGuard::new, which counts ...
AdmitRemux(c) ==
  /\ Remux(c) /\ InPump(c, "queue") /\ ~Busy("remux")
  /\ ToPump(c, "spawn")
  /\ metrics' = [metrics EXCEPT !.started = @ + 1, !.active = @ + 1]
  /\ UNCHANGED <<ffmpeg, overdue>>

AdmitExport(c) ==
  /\ ~Remux(c) /\ InPump(c, "queue") /\ ~Busy("export")
  /\ ToPump(c, "spawn")
  /\ UNCHANGED <<ffmpeg, overdue, metrics>>

\* ... or the queue's timeout is over.
QueueTimesOut(c) ==
  /\ InPump(c, "queue") /\ Busy(pump[c].kind)
  /\ pump' = [pump EXCEPT ![c].pc = "end", ![c].end = "error"]
  /\ metrics' = IF Remux(c) THEN [metrics EXCEPT !.rejected = @ + 1] ELSE metrics
  /\ UNCHANGED <<ffmpeg, overdue>>

\* ffmpeg is started, and the response returned.
Spawned(c) ==
  /\ InPump(c, "spawn")
  /\ ToPump(c, "held")
  /\ ffmpeg' = [ffmpeg EXCEPT ![c].state = "runs"]
  /\ UNCHANGED <<overdue, metrics>>

SpawnRemux(c) == Remux(c) /\ Spawned(c)
SpawnExport(c) == ~Remux(c) /\ Spawned(c)

SpawnFfmpegFails(c) == InPump(c, "spawn") /\ EndPump(c, "error", "spawn_errors")

\* The client wants more of the body.
Pull(c) ==
  /\ InPump(c, "held")
  /\ ToPump(c, "reading")
  /\ UNCHANGED <<ffmpeg, overdue, metrics>>

ReadPiece(c) ==
  /\ InPump(c, "reading") /\ pump[c].got < ffmpeg[c].out
  /\ pump' = [pump EXCEPT ![c].pc = "held", ![c].got = @ + 1]
  /\ UNCHANGED <<ffmpeg, overdue, metrics>>

\* The end of the output: the process is waited for, without a deadline.
ReadEnd(c) ==
  /\ InPump(c, "reading") /\ pump[c].got = ffmpeg[c].out
  /\ ffmpeg[c].state # "runs"
  /\ ToPump(c, "reap")
  /\ UNCHANGED <<ffmpeg, overdue, metrics>>

\* A failed process ends the body as one that did well.
Reap(c) ==
  /\ InPump(c, "reap")
  /\ \/ ffmpeg[c].state = "good" /\ EndPump(c, "clean", "completed")
     \/ ffmpeg[c].state = "bad" /\ EndPump(c, "clean", "failed")

ReadFails(c) == InPump(c, "reading") /\ EndPump(c, "error", "read_errors")

\* Mutant: the deadline is not looked at.
TimeUpUnseen(c) == FALSE /\ UNCHANGED streamVars

\* select!: the deadline is looked at while the client waits for bytes.
TimeUp(c) ==
  /\ InPump(c, "reading") /\ c \in overdue
  /\ ToPump(c, "kill")
  /\ UNCHANGED <<ffmpeg, overdue, metrics>>

\* Mutant: an outcome is not marked.
KilledUnmarked(c) == InPump(c, "kill") /\ EndPump(c, "clean", "active")

Killed(c) == InPump(c, "kill") /\ EndPump(c, "clean", "timed_out")

\* The client goes away: whatever is awaited is dropped.
Disconnect(c) ==
  \/ InPump(c, "queue") /\ pump' = [pump EXCEPT ![c].pc = "end", ![c].end = "gone"]
                        /\ UNCHANGED <<ffmpeg, overdue, metrics>>
  \/ c \in Guarded /\ EndPump(c, "gone", "canceled")
-----------------------------------------------------------------------------
\* External.
WritePiece(c) ==
  /\ ffmpeg[c].state = "runs" /\ ffmpeg[c].out < Pieces
  /\ ffmpeg' = [ffmpeg EXCEPT ![c].out = @ + 1]
  /\ UNCHANGED <<pump, overdue, metrics>>

CloseOutput(c) ==
  /\ ffmpeg[c].state = "runs"
  /\ ffmpeg' = [ffmpeg EXCEPT ![c].state = "closed"]
  /\ UNCHANGED <<pump, overdue, metrics>>

FfmpegExits(c) ==
  /\ ffmpeg[c].state = "closed"
  /\ \E status \in {"good", "bad"} :
       /\ status = "good" => ffmpeg[c].out = Pieces
       /\ ffmpeg' = [ffmpeg EXCEPT ![c].state = status]
  /\ UNCHANGED <<pump, overdue, metrics>>

DeadlinePasses(c) ==
  /\ ffmpeg[c].state # "none" /\ c \notin overdue
  /\ overdue' = overdue \cup {c}
  /\ UNCHANGED <<pump, ffmpeg, metrics>>

\* One request's steps on the server, which the runtime takes at last.
Serve(c) ==
  \/ AdmitRemux(c) \/ AdmitExport(c) \/ QueueTimesOut(c)
  \/ SpawnRemux(c) \/ SpawnExport(c)
  \/ ReadPiece(c) \/ ReadEnd(c) \/ Reap(c) \/ TimeUp(c) \/ Killed(c)

StreamNext ==
  \E c \in Client :
    \/ AskStream(c) \/ ExportAnswered(c) \/ Pull(c) \/ Serve(c) \/ Disconnect(c)
    \/ SpawnFfmpegFails(c) \/ ReadFails(c)
    \/ WritePiece(c) \/ CloseOutput(c) \/ FfmpegExits(c) \/ DeadlinePasses(c)

\* Of ffmpeg it is only assumed that it exits once it closed its output.
StreamFairness ==
  \A c \in Client : /\ WF_streamVars(Serve(c))
                    /\ WF_streamVars(DeadlinePasses(c))
                    /\ WF_streamVars(FfmpegExits(c))

StreamSpec == StreamInit /\ [][StreamNext]_streamVars /\ StreamFairness
-----------------------------------------------------------------------------
\* The remuxes that ended, by every outcome.
Ended == metrics.completed + metrics.failed + metrics.timed_out
           + metrics.canceled + metrics.spawn_errors + metrics.read_errors

\* Remuxes whose body came to a proper end before all of it was there.
Short == {c \in Client : Remux(c) /\ pump[c].end = "clean" /\ pump[c].got < Pieces}

(***************************************************************************)
(* StreamInv: permits are never exceeded, and every remux that got one is  *)
(* counted once: as active, or by how it ended, whatever ended it first.   *)
(* A body that ends properly but short is one whose ffmpeg failed or was   *)
(* killed at the deadline; the client is not told.                         *)
(***************************************************************************)
StreamInv ==
  /\ StreamTypeOK
  /\ \A k \in {"remux", "export"} : Cardinality(OfKind(k)) <= Permits[k]
  /\ metrics.active = Cardinality(OfKind("remux"))
  /\ metrics.started = metrics.active + Ended
  /\ Cardinality(Short) <= metrics.failed + metrics.timed_out

(***************************************************************************)
(* StreamServed: a request does not hold its place in the queue, its       *)
(* permit or its ffmpeg forever, even if ffmpeg hangs: it comes to its     *)
(* end, or to a client that does not pull, which nothing ends.             *)
(***************************************************************************)
StreamServed ==
  \A c \in Client : pump[c].pc # "new" ~> pump[c].pc \in {"end", "held"}
=============================================================================
