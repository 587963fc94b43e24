------------------------------ MODULE MCExports ------------------------------
(***************************************************************************)
(* Instance of Exports: one destination, two threads that are              *)
(* interchangeable, and a FIFO long enough for a creation and two closes,  *)
(* the second after the first has failed.                                  *)
(***************************************************************************)
EXTENDS Exports, TLC

Symmetric == Permutations(Thread)

=============================================================================
