------------------------------ MODULE MCOpenFiles ------------------------------
(* Small instance of OpenFiles: handles are interchangeable.                *)
EXTENDS OpenFiles, TLC

Symmetry == Permutations(Handles)
==============================================================================
