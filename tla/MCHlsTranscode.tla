-------------------------- MODULE MCHlsTranscode --------------------------
(***************************************************************************)
(* Instances of HlsTranscode for TLC.                                      *)
(***************************************************************************)
EXTENDS HlsTranscode, TLC

CONSTANTS s1

\* Every key in one shard, as two sources may be.
MCShardOf == [k \in Key |-> s1]

\* Requests, and jobs, differ in nothing but their names.
MCSymmetry == Permutations(Request) \cup Permutations(Job)

\* The fields of a job that has been dropped are never read again.
MCView ==
  <<map, [j \in Job |-> IF Live(j) THEN job[j] ELSE UnusedJob],
    marker, jobLock, req, pruner>>
=============================================================================
