--------------------------------- MODULE Lists ---------------------------------
(***************************************************************************)
(* What is done with lists of streams, sources and candidates: some of     *)
(* them are chosen, sorted, or put at the end of others.  The operators    *)
(* for it of the community modules take a test or a fold, and have no      *)
(* definition that a proof can unfold; these are recursive functions, or   *)
(* functions of places, and take sets.                                     *)
(***************************************************************************)
EXTENDS Integers, Sequences, FiniteSets

\* The elements of the list that are in S, in their order.
Select(list, S) ==
  LET chosen[n \in 0 .. Len(list)] ==
        IF n = 0 THEN << >>
        ELSE IF list[n] \in S THEN Append(chosen[n - 1], list[n]) ELSE chosen[n - 1]
  IN  chosen[Len(list)]

\* The elements of more that the list does not have are put at its end, once
\* each, as long as there are less than max in it.
PushNew(list, more, max) ==
  LET pushed[n \in 0 .. Len(more)] ==
        IF n = 0 THEN list
        ELSE IF Len(pushed[n - 1]) >= max
                \/ \E i \in DOMAIN pushed[n - 1] : pushed[n - 1][i] = more[n]
             THEN pushed[n - 1] ELSE Append(pushed[n - 1], more[n])
  IN  pushed[Len(more)]

\* What is at these places of the list, in their order.
Chosen(list, places) == [n \in DOMAIN places |-> list[places[n]]]

\* A stable sort: <<x, y>> is in before if x goes before y.
Sorted(list, before) ==
  LET upTo(i) == {j \in DOMAIN list :
                    \/ <<list[j], list[i]>> \in before
                    \/ <<list[i], list[j]>> \notin before /\ j <= i}
  IN  [n \in DOMAIN list |->
         list[CHOOSE i \in DOMAIN list : Cardinality(upTo(i)) = n]]
=============================================================================
