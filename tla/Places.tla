-------------------------------- MODULE Places --------------------------------
(***************************************************************************)
(* What a loop over a list picks out of it.                                *)
(***************************************************************************)
EXTENDS Naturals, Sequences, SequencesExt

\* The elements of s at the places D, in order.
AtPlaces(s, D) ==
  FoldLeft(LAMBDA picked, i : IF i \in D THEN Append(picked, s[i]) ELSE picked,
           << >>, [i \in DOMAIN s |-> i])
=============================================================================
