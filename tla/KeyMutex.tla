------------------------------ MODULE KeyMutex ------------------------------
(***************************************************************************)
(* What every per-key lock of the backend promises: at most one task is    *)
(* inside the section that belongs to a key.  The HLS job lock, the HLS    *)
(* segment lock, the resolver's lock, the local torrent's and the sports   *)
(* resolver's locks are all used this way; KeyLockTable shows that the     *)
(* lock table they share, which is pruned while it is in use, keeps the    *)
(* promise.                                                                *)
(***************************************************************************)
CONSTANTS Key,      \* what is locked: a transcode, a segment path, a source
          Task      \* the asynchronous tasks that lock it

VARIABLE owners     \* owners[k]: the tasks inside the section of k

Init == owners = [k \in Key |-> {}]

\* A task enters the section of a key nobody is inside.
Enter(k, t) ==
  /\ owners[k] = {}
  /\ owners' = [owners EXCEPT ![k] = {t}]

\* The task inside leaves.
Leave(k, t) ==
  /\ owners[k] = {t}
  /\ owners' = [owners EXCEPT ![k] = {}]

\* The task inside leaves and another is let in by the same step.
Pass(k, t, u) ==
  /\ owners[k] = {t}
  /\ owners' = [owners EXCEPT ![k] = {u}]

Next ==
  \E k \in Key, t \in Task :
     \/ Enter(k, t)
     \/ Leave(k, t)
     \/ \E u \in Task : Pass(k, t, u)

Spec == Init /\ [][Next]_owners
=============================================================================
