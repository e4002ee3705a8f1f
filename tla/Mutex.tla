------------------------------- MODULE Mutex -------------------------------
(***************************************************************************)
(* MUTEX_lock and MUTEX_unLock (mutex.c) over the lock of the operating    *)
(* system layer (_ATOMIC_local_lock and its counterpart): a count and an   *)
(* owner under a pthread mutex, with a condition variable for the threads  *)
(* that wait.                                                              *)
(*                                                                         *)
(* mutex.c keeps an owner and a count of its own to let a thread take the  *)
(* lock again.  They are read under the global lock but written by         *)
(* MUTEX_lock outside of it, in two steps.                                 *)
(***************************************************************************)
EXTENDS Integers, FiniteSets

CONSTANTS
    Threads,
    Nobody,
    MaxDepth,  \* bound: how often a thread takes the lock
    Patient    \* threads that wait without a timeout

ASSUME MutexAssumption ==
    /\ Nobody \notin Threads
    /\ MaxDepth \in Nat \ {0}
    /\ Patient \subseteq Threads

VARIABLES
    pc,         \* where each thread is
    held,       \* how often the caller of each thread holds the lock
    owner,      \* pM->owner
    recursion,  \* pM->recursive_lock
    global,     \* owner of the global lock
    osOwner,    \* pA->owner
    osDepth,    \* pA->lock_depth
    waiting,    \* threads in pthread_cond_(timed)wait
    broken      \* BUG_HERE or _atomic_fatal was reached

vars == <<pc, held, owner, recursion, global, osOwner, osDepth, waiting, broken>>

Steps == {"idle", "inspect", "try", "wait", "late", "own", "count",
          "global", "drop", "post"}

Init ==
    /\ pc = [t \in Threads |-> "idle"]
    /\ held = [t \in Threads |-> 0]
    /\ owner = Nobody
    /\ recursion = 0
    /\ global = Nobody
    /\ osOwner = Nobody
    /\ osDepth = 0
    /\ waiting = {}
    /\ broken = FALSE

Goto(t, step) == pc' = [pc EXCEPT ![t] = step]

-----------------------------------------------------------------------------
(* MUTEX_lock.                                                             *)

LockCall(t) ==
    /\ pc[t] = "idle"
    /\ held[t] < MaxDepth
    /\ Goto(t, "inspect")
    /\ UNCHANGED <<held, owner, recursion, global, osOwner, osDepth, waiting, broken>>

(* Under the global lock: is this a recursive lock?                        *)
Inspect(t) ==
    /\ pc[t] = "inspect"
    /\ global = Nobody
    /\ Goto(t, IF recursion > 0 /\ owner = t THEN "own" ELSE "try")
    /\ UNCHANGED <<held, owner, recursion, global, osOwner, osDepth, waiting, broken>>

(* _ATOMIC_local_lock, under the pthread mutex: the lock is taken if the   *)
(* thread has it or nobody has; the thread waits, or gives up.             *)
OsTake(t) ==
    /\ osOwner = t \/ osDepth = 0
    /\ osDepth' = osDepth + 1
    /\ osOwner' = t
    /\ Goto(t, "own")

OsTry(t) ==
    /\ pc[t] = "try"
    /\ \/ /\ OsTake(t)
          /\ waiting' = waiting
       \/ /\ osOwner # t /\ osDepth # 0
          /\ waiting' = waiting \cup {t}
          /\ Goto(t, "wait")
          /\ UNCHANGED <<osOwner, osDepth>>
    /\ UNCHANGED <<held, owner, recursion, global, broken>>

(* The wait for the condition ends by its timeout.  The count is looked at *)
(* once more, since a signal may have been spent on this thread.           *)
OsExpire(t) ==
    /\ pc[t] = "wait"
    /\ t \notin Patient
    /\ waiting' = waiting \ {t}
    /\ Goto(t, "late")
    /\ UNCHANGED <<held, owner, recursion, global, osOwner, osDepth, broken>>

OsLate(t) ==
    /\ pc[t] = "late"
    /\ \/ OsTake(t)
       \/ /\ osOwner # t /\ osDepth # 0
          /\ Goto(t, "idle")
          /\ UNCHANGED <<osOwner, osDepth>>
    /\ UNCHANGED <<held, owner, recursion, global, waiting, broken>>

Own(t) ==
    /\ pc[t] = "own"
    /\ owner' = t
    /\ Goto(t, "count")
    /\ UNCHANGED <<held, recursion, global, osOwner, osDepth, waiting, broken>>

Count(t) ==
    /\ pc[t] = "count"
    /\ recursion' = recursion + 1
    /\ held' = [held EXCEPT ![t] = @ + 1]
    /\ Goto(t, "idle")
    /\ UNCHANGED <<owner, global, osOwner, osDepth, waiting, broken>>

-----------------------------------------------------------------------------
(* MUTEX_unLock, all of it under the global lock.                          *)

UnlockCall(t) ==
    /\ pc[t] = "idle"
    /\ held[t] > 0
    /\ Goto(t, "global")
    /\ UNCHANGED <<held, owner, recursion, global, osOwner, osDepth, waiting, broken>>

Global(t) ==
    /\ pc[t] = "global"
    /\ global = Nobody
    /\ global' = t
    /\ Goto(t, "drop")
    /\ UNCHANGED <<held, owner, recursion, osOwner, osDepth, waiting, broken>>

(* Mutant: each unlock releases the lock below.                            *)
DropAll(t) ==
    /\ pc[t] = "drop"
    /\ held' = [held EXCEPT ![t] = @ - 1]
    /\ recursion' = recursion - 1
    /\ owner' = IF recursion = 1 THEN Nobody ELSE owner
    /\ Goto(t, "post")
    /\ UNCHANGED <<global, broken, osOwner, osDepth, waiting>>

Drop(t) ==
    /\ pc[t] = "drop"
    /\ held' = [held EXCEPT ![t] = @ - 1]
    /\ \/ /\ recursion = 0
          /\ broken' = TRUE
          /\ UNCHANGED <<pc, owner, recursion, global>>
       \/ /\ recursion > 1
          /\ recursion' = recursion - 1
          /\ global' = Nobody
          /\ Goto(t, "idle")
          /\ UNCHANGED <<owner, broken>>
       \/ /\ recursion = 1
          /\ recursion' = 0
          /\ owner' = Nobody
          /\ Goto(t, "post")
          /\ UNCHANGED <<global, broken>>
    /\ UNCHANGED <<osOwner, osDepth, waiting>>

(* Mutant: nobody is told.                                                 *)
SignalNobody(t) == waiting' = waiting /\ Goto(t, "idle")

(* pthread_cond_signal: one of the waiting threads tries again.            *)
Signal(t) ==
    IF waiting = {}
    THEN waiting' = {} /\ Goto(t, "idle")
    ELSE \E w \in waiting :
            /\ waiting' = waiting \ {w}
            /\ pc' = [pc EXCEPT ![t] = "idle", ![w] = "try"]

OsUnlock(t) ==
    /\ pc[t] = "post"
    /\ \/ /\ osOwner # t \/ osDepth <= 0
          /\ broken' = TRUE
          /\ UNCHANGED <<pc, osOwner, osDepth, waiting, global>>
       \/ /\ osOwner = t /\ osDepth > 0
          /\ osDepth' = osDepth - 1
          /\ osOwner' = IF osDepth = 1 THEN Nobody ELSE osOwner
          /\ Signal(t)
          /\ global' = Nobody
          /\ broken' = broken
    /\ UNCHANGED <<held, owner, recursion>>

-----------------------------------------------------------------------------
Step(t) ==
    \/ Inspect(t) \/ OsTry(t) \/ OsExpire(t) \/ OsLate(t) \/ Own(t) \/ Count(t)
    \/ UnlockCall(t) \/ Global(t) \/ Drop(t) \/ OsUnlock(t)

Next ==
    /\ ~broken
    /\ \E t \in Threads : LockCall(t) \/ Step(t)

Spec == Init /\ [][Next]_vars

-----------------------------------------------------------------------------
TypeOK ==
    /\ pc \in [Threads -> Steps]
    /\ held \in [Threads -> 0..MaxDepth]
    /\ owner \in Threads \cup {Nobody}
    /\ recursion \in 0..MaxDepth
    /\ global \in Threads \cup {Nobody}
    /\ osOwner \in Threads \cup {Nobody}
    /\ osDepth \in 0..MaxDepth
    /\ waiting \subseteq Threads
    /\ broken \in BOOLEAN

(* At most one thread is between MUTEX_lock and MUTEX_unLock, although     *)
(* MUTEX_lock decides by an owner and a count that others are changing.    *)
MutualExclusion ==
    \A s, t \in Threads : held[s] > 0 /\ held[t] > 0 => s = t

(* None of the checks of MUTEX_unLock and _ATOMIC_local_unlock fails: no   *)
(* unlock of a free lock, none by a thread that does not own it.  A failed *)
(* check ends the program, so that TLC finds it as a deadlock.             *)
NeverBroken == ~broken

(* No wakeup is lost: when the lock is free and threads wait for it, one   *)
(* thread has been told to try, or is about to tell.                       *)
NoLostWakeup ==
    osDepth = 0 /\ waiting # {} =>
        \E t \in Threads : pc[t] \in {"try", "late"}

(* It is the lock of module Lock, taken when the count is raised.          *)
L == INSTANCE Lock WITH
        owner <- IF recursion > 0 THEN owner ELSE Nobody,
        depth <- recursion

ImplementsLock == L!Spec

=============================================================================
