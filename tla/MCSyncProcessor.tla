--------------------------- MODULE MCSyncProcessor ---------------------------
(* A small instance of SyncProcessor; without symmetry, which TLC does not  *)
(* allow next to liveness properties.                                       *)
EXTENDS SyncProcessor
==============================================================================
