------------------------------ MODULE MCServices ------------------------------
(***************************************************************************)
(* The components with waiting in them, and the sources of the cards, for  *)
(* one run of TLC.  They share no variable: in a behaviour the one in      *)
(* focus moves, the others stand still, at rest.                           *)
(***************************************************************************)
EXTENDS KeyLockTable, MediaStream, HomeBootstrap, ContinueSource,
        StartupSplit

VARIABLE focus  \* the component that moves in this behaviour

MCPermits == [kind \in {"remux", "export"} |-> 1]

servicesVars == <<focus, vars, streamVars, homeVars, sourceVars, splitVars>>

\* No refresh runs, and nothing is due.
HomeAtRest ==
  /\ cachedHome = {} /\ homeStale = FALSE /\ savedHome = Warming
  /\ inFlight = FALSE /\ refresh = NoRefresh /\ panicked = FALSE
  /\ visit = [v \in Visitor |-> NoVisit] /\ shown = {} /\ blind = FALSE

ServicesInit ==
  /\ focus \in {"locks", "streams", "home", "cards", "startup"}
  /\ Init
  /\ StreamInit
  /\ SourceInit
  /\ SplitInit
  /\ focus # "startup" => cache = NoCache
  /\ focus # "streams" => \A c \in Client : pump[c].kind = "remux"
  /\ IF focus = "home" THEN HomeInit ELSE HomeAtRest

ServicesNext ==
  \/ /\ focus = "locks" /\ Next
     /\ UNCHANGED <<focus, streamVars, homeVars, sourceVars, splitVars>>
  \/ /\ focus = "streams" /\ StreamNext
     /\ UNCHANGED <<focus, vars, homeVars, sourceVars, splitVars>>
  \/ /\ focus = "home" /\ HomeNext
     /\ UNCHANGED <<focus, vars, streamVars, sourceVars, splitVars>>
  \/ /\ focus = "cards" /\ SourceNext
     /\ UNCHANGED <<focus, vars, streamVars, homeVars, splitVars>>
  \/ /\ focus = "startup" /\ SplitNext
     /\ UNCHANGED <<focus, vars, streamVars, homeVars, sourceVars>>

\* The fairness of the three specifications.
ServicesSpec ==
  /\ ServicesInit /\ [][ServicesNext]_servicesVars
  /\ Fairness /\ StreamFairness
  /\ WF_homeVars(focus = "home" /\ Refreshing)
=============================================================================
