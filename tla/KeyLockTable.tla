---------------------------- MODULE KeyLockTable ----------------------------
(***************************************************************************)
(* The backend's table of per-key locks, DashMap<String, Arc<Mutex<()>>>:  *)
(* key_lock hands out a clone of the key's Arc and makes one when the key  *)
(* has none, the caller awaits the tokio mutex in it, and a periodic sweep *)
(* drops the entries whose Arc nobody else holds (strong_count <= 1).      *)
(* streaming.rs has two such tables (transcode jobs, segment renders),     *)
(* resolver.rs, local_torrent.rs and football.rs one each.                 *)
(*                                                                         *)
(* Dropping an entry and looking it up again makes a NEW mutex for the     *)
(* same key, so the table is a lock only if no entry is ever dropped while *)
(* a task may still lock the mutex it came from.                           *)
(***************************************************************************)
CONSTANTS Key,      \* the keys of the table
          Task,     \* the tasks that lock them
          Lock,     \* the mutexes that can be allocated
          None      \* no key, no mutex

ASSUME NoneAssumption == None \notin Key /\ None \notin Lock

VARIABLES
  table,            \* table[k]: the mutex the table holds for k, or None
  pc,               \* pc[t]: what t is doing with the lock
  want,             \* want[t]: the key t locks, or None
  arc,              \* arc[t]: the mutex t holds a clone of, or None
  ahead             \* ahead[t]: the tasks queued on t's mutex before t

vars == <<table, pc, want, arc, ahead>>

Phase == {"idle", "got", "waiting", "held", "released"}

TypeOK ==
  /\ table \in [Key -> Lock \cup {None}]
  /\ pc \in [Task -> Phase]
  /\ want \in [Task -> Key \cup {None}]
  /\ arc \in [Task -> Lock \cup {None}]
  /\ ahead \in [Task -> SUBSET Task]

Init ==
  /\ table = [k \in Key |-> None]
  /\ pc = [t \in Task |-> "idle"]
  /\ want = [t \in Task |-> None]
  /\ arc = [t \in Task |-> None]
  /\ ahead = [t \in Task |-> {}]
-----------------------------------------------------------------------------
\* Arc::strong_count of a mutex is above 1: some task holds a clone too.
Shared(l) == \E t \in Task : arc[t] = l

\* A mutex just allocated: no table entry and no task refers to it.
Fresh(l) == ~Shared(l) /\ \A k \in Key : table[k] # l

Held(l) == \E t \in Task : arc[t] = l /\ pc[t] = "held"
Waiters(l) == {t \in Task : arc[t] = l /\ pc[t] = "waiting"}

\* t lets go of its clone of the mutex and is done with the key.
Forget(t) ==
  /\ want' = [want EXCEPT ![t] = None]
  /\ arc' = [arc EXCEPT ![t] = None]
-----------------------------------------------------------------------------
(***************************************************************************)
(* key_lock: entry(key).or_insert_with(new mutex).clone(), one step under  *)
(* the lock of the table's shard.                                          *)
(***************************************************************************)
GetLock(t, k) ==
  /\ pc[t] = "idle"
  /\ \E l \in Lock :
       /\ IF table[k] = None THEN Fresh(l) ELSE l = table[k]
       /\ table' = [table EXCEPT ![k] = l]
       /\ arc' = [arc EXCEPT ![t] = l]
  /\ pc' = [pc EXCEPT ![t] = "got"]
  /\ want' = [want EXCEPT ![t] = k]
  /\ UNCHANGED ahead

(***************************************************************************)
(* lock().await on a free mutex takes it; on a mutex that is held the task *)
(* joins the end of its queue.                                             *)
(***************************************************************************)
TakeLock(t) ==
  /\ pc[t] = "got"
  /\ ~Held(arc[t])
  /\ pc' = [pc EXCEPT ![t] = "held"]
  /\ UNCHANGED <<table, want, arc, ahead>>

QueueUp(t) ==
  /\ pc[t] = "got"
  /\ Held(arc[t])
  /\ pc' = [pc EXCEPT ![t] = "waiting"]
  /\ ahead' = [ahead EXCEPT ![t] = Waiters(arc[t])]
  /\ UNCHANGED <<table, want, arc>>

(***************************************************************************)
(* The guard is dropped, because the section ended or because the request  *)
(* was abandoned inside it.  tokio's mutex hands the lock to the task that *)
(* has waited longest.  The clone of the Arc is dropped after the guard.   *)
(***************************************************************************)
\* Mutant: the mutex is released without looking at its queue.
UnlockIgnoringQueue(t) ==
  /\ pc[t] = "held"
  /\ pc' = [pc EXCEPT ![t] = "released"]
  /\ UNCHANGED <<table, want, arc, ahead>>

Unlock(t) ==
  /\ pc[t] = "held"
  /\ Waiters(arc[t]) = {}
  /\ pc' = [pc EXCEPT ![t] = "released"]
  /\ UNCHANGED <<table, want, arc, ahead>>

HandOver(t, u) ==
  /\ pc[t] = "held"
  /\ u \in Waiters(arc[t])
  /\ ahead[u] = {}
  /\ pc' = [pc EXCEPT ![t] = "released", ![u] = "held"]
  /\ ahead' = [v \in Task |-> ahead[v] \ {u}]
  /\ UNCHANGED <<table, want, arc>>

DropArc(t) ==
  /\ pc[t] = "released"
  /\ pc' = [pc EXCEPT ![t] = "idle"]
  /\ Forget(t)
  /\ UNCHANGED <<table, ahead>>

\* The client goes away while its request waits: the future is dropped.
Abandon(t) ==
  /\ pc[t] = "waiting"
  /\ pc' = [pc EXCEPT ![t] = "idle"]
  /\ Forget(t)
  /\ ahead' = [v \in Task |-> IF v = t THEN {} ELSE ahead[v] \ {t}]
  /\ UNCHANGED table

(***************************************************************************)
(* The sweep: retain(|_, lock| Arc::strong_count(lock) > 1), entry by      *)
(* entry, each under the lock of its shard.                                *)
(***************************************************************************)
\* Mutant: the sweep clears every entry, in use or not.
RetainNothing(k) ==
  /\ table[k] # None
  /\ table' = [table EXCEPT ![k] = None]
  /\ UNCHANGED <<pc, want, arc, ahead>>

Retain(k) ==
  /\ table[k] # None
  /\ ~Shared(table[k])
  /\ table' = [table EXCEPT ![k] = None]
  /\ UNCHANGED <<pc, want, arc, ahead>>

TaskStep(t) == TakeLock(t) \/ QueueUp(t) \/ DropArc(t)
Release(t) == Unlock(t) \/ \E u \in Task : HandOver(t, u)

Next ==
  \/ \E t \in Task :
       \/ \E k \in Key : GetLock(t, k)
       \/ TaskStep(t)
       \/ Release(t)
       \/ Abandon(t)
  \/ \E k \in Key : Retain(k)

(***************************************************************************)
(* Every section ends (each awaits only operations with a timeout or local *)
(* file I/O) and a task that was given the processor goes on.  The sweep,  *)
(* new requests and clients that leave are under no obligation.            *)
(***************************************************************************)
Fairness == \A t \in Task : WF_vars(TaskStep(t)) /\ WF_vars(Release(t))

Spec == Init /\ [][Next]_vars
FairSpec == Spec /\ Fairness
-----------------------------------------------------------------------------
(***************************************************************************)
(* Two tasks are never inside the section of the same key, although the    *)
(* sweep may drop the key's entry and a later caller allocate a new mutex. *)
(***************************************************************************)
MutualExclusion ==
  \A t, u \in Task :
     /\ pc[t] = "held" /\ pc[u] = "held"
     /\ want[t] = want[u]
     => t = u

(***************************************************************************)
(* The table is the abstract lock, a sweep being a step nobody can see.    *)
(***************************************************************************)
Owners == [k \in Key |-> {t \in Task : pc[t] = "held" /\ want[t] = k}]
Mutex == INSTANCE KeyMutex WITH owners <- Owners
ImplementsKeyMutex == Mutex!Spec

(***************************************************************************)
(* The lock is fair: a task that queues is let in, whatever other tasks    *)
(* come and go, unless its own request is abandoned first.                 *)
(***************************************************************************)
WaiterServed ==
  \A t \in Task : pc[t] = "waiting" ~> pc[t] \in {"held", "idle"}

(***************************************************************************)
(* The inductive invariant: whoever holds a clone of a mutex holds the one *)
(* the table still has for that key, so a caller who looks the key up gets *)
(* that same mutex; and a mutex has one key and one holder.                *)
(***************************************************************************)
ArcIsCurrent ==
  \A t \in Task :
     /\ pc[t] = "idle" <=> want[t] = None
     /\ pc[t] = "idle" <=> arc[t] = None
     /\ pc[t] # "idle" => table[want[t]] = arc[t]
OneKeyPerLock ==
  \A k, m \in Key : table[k] = table[m] /\ table[k] # None => k = m
OneHolderPerLock ==
  \A t, u \in Task :
     pc[t] = "held" /\ pc[u] = "held" /\ arc[t] = arc[u] => t = u
LockInv == TypeOK /\ ArcIsCurrent /\ OneKeyPerLock /\ OneHolderPerLock
=============================================================================
