----------------------------- MODULE MCOfflinePins -----------------------------
(* Small instance of OfflinePins: a folder A with a folder B with two files, *)
(* which are interchangeable.                                                *)
EXTENDS OfflinePins, TLC

CONSTANTS A, B, f, g

Place == A :> NoItem @@ B :> A @@ f :> B @@ g :> B

(* severed never becomes FALSE again, and no property of the run but the     *)
(* types says anything of the states after it: they are not explored.        *)
Unsevered == ~severed

(* Bound: one file at a time is on disk without a row, none the reverse (no  *)
(* property of the run looks at a row without its file).                     *)
OneWithoutRow == tracked \subseteq contents /\ Cardinality(contents \ tracked) <= 1

Interchangeable == Permutations(Files)
================================================================================
