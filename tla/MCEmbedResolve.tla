--------------------------- MODULE MCEmbedResolve ---------------------------
(***************************************************************************)
(* Instances of EmbedResolve for TLC: lock keys a, b and p for one title,  *)
(* as of callers with different preferences, and c for another title.      *)
(***************************************************************************)
EXTENDS EmbedResolve

CONSTANTS a, b, c, p, t1, t2

MCTitleOf == [k \in LockKey |-> IF k = c THEN t2 ELSE t1]
=============================================================================
