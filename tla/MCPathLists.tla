----------------------------- MODULE MCPathLists -----------------------------
(* Small instances of PathLists for TLC.                                   *)
EXTENDS PathListsRefine, TLC

(* Threads, lists, wrappers and handles are interchangeable.               *)
Symm == Permutations(Thread) \cup Permutations(PathList)
          \cup Permutations(Wrapper) \cup Permutations(Handle)

=============================================================================
