------------------------------- MODULE Lock --------------------------------
(***************************************************************************)
(* What MUTEX_lock and MUTEX_unLock promise: a lock that one thread owns   *)
(* at a time and may take again while it owns it.                          *)
(***************************************************************************)
EXTENDS Integers

CONSTANTS
    Threads,
    Nobody     \* owner = 0

VARIABLES
    owner,
    depth      \* how often the owner has taken the lock

vars == <<owner, depth>>

Init == owner = Nobody /\ depth = 0

Acquire(t) ==
    /\ owner \in {Nobody, t}
    /\ owner' = t
    /\ depth' = depth + 1

Release(t) ==
    /\ owner = t
    /\ depth' = depth - 1
    /\ owner' = IF depth = 1 THEN Nobody ELSE t

Next == \E t \in Threads : Acquire(t) \/ Release(t)

Spec == Init /\ [][Next]_vars

=============================================================================
