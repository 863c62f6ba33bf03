----------------------------- MODULE MCItemStore -----------------------------
(* Small instances of ItemStore.                                            *)
EXTENDS ItemStore
==============================================================================
