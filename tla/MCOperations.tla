---------------------------- MODULE MCOperations ----------------------------
(* A small instance of Operations: two writes at different ordinals and a  *)
(* clone ordered after the first.                                          *)
EXTENDS OperationsRefine, TLC

CONSTANTS w1, w2, c1

MCDepends == [o \in Op |-> IF o = c1 THEN {w1} ELSE {}]

Symm == Permutations(Thread)

=============================================================================
