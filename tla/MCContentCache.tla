----------------------------- MODULE MCContentCache ----------------------------
(* Small instances of ContentCache: one handle, whose streaming download    *)
(* outlives a refresh and so is a second thread at the entry.               *)
EXTENDS ContentCache
==============================================================================
