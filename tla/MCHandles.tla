------------------------------ MODULE MCHandles ------------------------------
(* A small instance of Handles: a Read and a group fetched from it, a map  *)
(* session and a group of it, and a second Stage without a configuration.  *)
EXTENDS Handles, TLC

CONSTANTS s1, s2, r1, r2, m1, g1

MCConfig == (s1 :> "older") @@ (s2 :> None)

MCKind ==
  (r1 :> "handle") @@ (r2 :> "readGroup") @@ (m1 :> "map") @@ (g1 :> "mapGroup")

MCParent == (r1 :> None) @@ (r2 :> r1) @@ (m1 :> None) @@ (g1 :> m1)

Symm == Permutations(Thread)

=============================================================================
