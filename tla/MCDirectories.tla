----------------------------- MODULE MCDirectories -----------------------------
(* A small instance of Directories; items, folders, names and threads are   *)
(* interchangeable.                                                         *)
EXTENDS Directories, TLC

Interchangeable ==
  Permutations(Items) \cup Permutations(Folders) \cup Permutations(Names)
    \cup Permutations(Threads)
================================================================================
