--------------------------- MODULE MCReadPipeline ---------------------------
(***************************************************************************)
(* ReadPipeline on a short history.                                        *)
(***************************************************************************)
EXTENDS ReadPipeline

\* The first object takes one position, the others two.
MCEnd == [n \in 0..N |-> IF n = 0 THEN 0 ELSE 2 * n - 1]
=============================================================================
