--------------------------- MODULE MCUploadPipeline ---------------------------
(* Small instances of UploadPipeline: the sets of environment events a run  *)
(* allows are named here for the question the run asks.                     *)
EXTENDS UploadPipeline, TLC

(* Everything but saves that overlap an upload, and a disk that was free   *)
(* for the save and is full when the upload persists it once more.          *)
SingleSaves == EventKinds \ {"overlap", "late_full"}

(* A conflict check that answers and eTags nobody else touches.            *)
ServerFaults == {"overlap", "disk_full", "late_full", "copy_fails", "put_fails", "locked"}
==============================================================================
