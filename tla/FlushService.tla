----------------------------- MODULE FlushService -----------------------------
(***************************************************************************)
(* What the upload queue promises the file-system threads that call        *)
(* CoreOps::flush_handle, whatever its channels, debounce windows, retries *)
(* and permits do: uploads of one inode never overlap, a call is told that *)
(* its flush succeeded only at the end of a successful upload of its own   *)
(* inode, and a stopped service has answered everybody.  It does not       *)
(* promise that this upload began after the call: a call that arrives      *)
(* while an upload of its inode runs may be answered by that one.          *)
(***************************************************************************)
CONSTANTS
  Inos,   (* inodes of files with local changes *)
  Calls   (* flush_handle calls                 *)

VARIABLES
  stopped,     (* the service no longer accepts or answers anything *)
  uploading,   (* inodes being uploaded                             *)
  call,        (* what each call has seen so far                    *)
  target       (* the inode that call flushes                       *)

vars == <<stopped, uploading, call, target>>

CallStates == {"idle", "waiting", "ok", "failed", "closed", "timed_out"}
Waiting == {c \in Calls : call[c] = "waiting"}

Init ==
  /\ stopped = FALSE
  /\ uploading = {}
  /\ call = [c \in Calls |-> "idle"]
  /\ target \in [Calls -> Inos]

Begin(c, i) ==
  /\ c \notin Waiting
  /\ call' = [call EXCEPT ![c] = IF stopped THEN "closed" ELSE "waiting"]
  /\ target' = [target EXCEPT ![c] = i]
  /\ UNCHANGED <<stopped, uploading>>

TimeOut(c) ==
  /\ c \in Waiting
  /\ call' = [call EXCEPT ![c] = "timed_out"]
  /\ UNCHANGED <<stopped, uploading, target>>

(* Several uploads may start in one step, never one that is running.       *)
Start(S) ==
  /\ ~stopped
  /\ S \cap uploading = {}
  /\ uploading' = uploading \cup S
  /\ UNCHANGED <<stopped, call, target>>

(* The end of an upload answers calls for its inode, and only those.       *)
End(i, answer, C) ==
  /\ i \in uploading
  /\ \A c \in C : target[c] = i
  /\ uploading' = uploading \ {i}
  /\ call' = [c \in Calls |-> IF c \in C THEN answer ELSE call[c]]
  /\ UNCHANGED <<stopped, target>>

Answers == {"ok", "failed"}

(* Stopping turns down every call that still waits.                        *)
Stop ==
  /\ ~stopped
  /\ stopped' = TRUE
  /\ uploading' = {}
  /\ call' \in [Calls -> CallStates]
  /\ \A c \in Calls : IF c \in Waiting THEN call'[c] \in {"failed", "closed"}
                                      ELSE call'[c] = call[c]
  /\ UNCHANGED target

Next ==
  \/ \E c \in Calls, i \in Inos : Begin(c, i)
  \/ \E c \in Calls : TimeOut(c)
  \/ \E S \in SUBSET Inos : Start(S)
  \/ \E i \in Inos, answer \in Answers, C \in SUBSET Waiting : End(i, answer, C)
  \/ Stop

Spec == Init /\ [][Next]_vars
==============================================================================
