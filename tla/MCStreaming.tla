------------------------------ MODULE MCStreaming ------------------------------
EXTENDS Streaming
(* A read across two chunks, and one that reaches past the end and is far   *)
(* ahead of an empty buffer.                                                *)
SomeRanges == {<<1, 2>>, <<2, 2>>}
Lengths == {2, 3, 4}
=============================================================================
