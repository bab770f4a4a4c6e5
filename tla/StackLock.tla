----------------------------- MODULE StackLock -----------------------------
(***************************************************************************)
(* What the lock file of a sandbox's network directory promises to every   *)
(* command that asks "does this sandbox have a network supervisor?": at    *)
(* any time at most one process is the answer, the answer appears only     *)
(* when there was none, and it goes away before there is another one.      *)
(* internal/proclock and internal/enforce state this promise; the module   *)
(* NetSupervisor is shown to keep it.                                      *)
(***************************************************************************)
CONSTANTS Sups,   \* the supervisor processes (their PIDs)
          None    \* no process

VARIABLE owner    \* the process that holds the lock a Lookup would test

Init == owner = None

(* A supervisor becomes the one that a Lookup finds. *)
Appear(s) == owner = None /\ owner' = s

(* It stops being found: it exited, crashed, or its directory was removed. *)
Vanish == owner # None /\ owner' = None

Next == Vanish \/ \E s \in Sups : Appear(s)

Spec == Init /\ [][Next]_owner
============================================================================
