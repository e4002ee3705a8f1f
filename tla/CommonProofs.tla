---------------------------- MODULE CommonProofs ----------------------------
(***************************************************************************)
(* The mutex and the timers (components/common).  For any number of        *)
(* threads and any depth, mutual exclusion, the absence of failed checks   *)
(* and of lost wakeups, and the refinement of Lock by Mutex.  For any      *)
(* number of clocks, timers and threads that set them, that the timer      *)
(* thread never sleeps past a timer, and that clocks keep their timers.    *)
(***************************************************************************)
EXTENDS Mutex, Clocks, WellFoundedInduction, TLAPS

(***************************************************************************)
(* The inductive invariant.  The owner and the count of mutex.c are only   *)
(* right while somebody has the lock below, and they are written after it  *)
(* was taken; who has it is known from the callers and from where the      *)
(* threads are.                                                            *)
(***************************************************************************)
Inside(t) == held[t] > 0 \/ pc[t] \in {"own", "count", "post"}

OsLock ==
    /\ osOwner # Nobody => osDepth = 1
    /\ osOwner = Nobody => osDepth = 0
    /\ \A t \in Threads : Inside(t) <=> osOwner = t

CountIsHeld ==
    /\ osOwner = Nobody => recursion = 0
    /\ \A t \in Threads : osOwner = t => recursion = held[t]

OwnerIsInside ==
    /\ recursion > 0 => owner = osOwner
    /\ \A t \in Threads : pc[t] = "count" => owner = t

CallersAreWhereTheyAre ==
    \A t \in Threads :
        /\ pc[t] \in {"try", "wait", "late", "post"} => held[t] = 0
        /\ pc[t] \in {"global", "drop"} => held[t] > 0
        /\ pc[t] \in {"inspect", "try", "wait", "late", "own", "count"}
              => held[t] < MaxDepth
        /\ t \in waiting => pc[t] = "wait"

IInv == TypeOK /\ OsLock /\ CountIsHeld /\ OwnerIsInside /\ CallersAreWhereTheyAre

\* The invariant holds initially: nobody is anywhere.
LEMMA InitIInv == Init => IInv
<1> SUFFICES ASSUME Init PROVE IInv
  OBVIOUS
<1> USE MutexAssumption DEF Init
<1>1. TypeOK
  <2>1. broken \in BOOLEAN
    OBVIOUS
  <2> QED
    BY <2>1 DEF TypeOK, Steps
<1>2. OsLock /\ CountIsHeld
  BY DEF OsLock, CountIsHeld, Inside
<1>3. OwnerIsInside /\ CallersAreWhereTheyAre
  BY DEF OwnerIsInside, CallersAreWhereTheyAre
<1> QED
  BY <1>1, <1>2, <1>3 DEF IInv

\* No step of any thread breaks it.
LEMMA NextIInv == IInv /\ [Next]_vars => IInv'
<1> SUFFICES ASSUME IInv, [Next]_vars PROVE IInv'
  OBVIOUS
<1> USE MutexAssumption DEF IInv, TypeOK, OsLock, CountIsHeld, OwnerIsInside,
      CallersAreWhereTheyAre, Inside, Steps, Goto
<1>1. CASE UNCHANGED vars
  BY <1>1 DEF vars
<1>2. ASSUME NEW t \in Threads, LockCall(t) PROVE IInv'
  BY <1>2 DEF LockCall
<1>3. ASSUME NEW t \in Threads, Inspect(t) PROVE IInv'
  BY <1>3 DEF Inspect
<1>4. ASSUME NEW t \in Threads, OsTry(t) PROVE IInv'
  BY <1>4 DEF OsTry, OsTake
<1>5. ASSUME NEW t \in Threads, OsExpire(t) PROVE IInv'
  BY <1>5 DEF OsExpire
<1>6. ASSUME NEW t \in Threads, OsLate(t) PROVE IInv'
  BY <1>6 DEF OsLate, OsTake
<1>7. ASSUME NEW t \in Threads, Own(t) PROVE IInv'
  BY <1>7 DEF Own
<1>8. ASSUME NEW t \in Threads, Count(t) PROVE IInv'
  BY <1>8 DEF Count
<1>9. ASSUME NEW t \in Threads, UnlockCall(t) PROVE IInv'
  BY <1>9 DEF UnlockCall
<1>10. ASSUME NEW t \in Threads, Global(t) PROVE IInv'
  BY <1>10 DEF Global
<1>11. ASSUME NEW t \in Threads, Drop(t) PROVE IInv'
  BY <1>11 DEF Drop
<1>12. ASSUME NEW t \in Threads, OsUnlock(t) PROVE IInv'
  BY <1>12 DEF OsUnlock, Signal
<1> QED
  BY <1>1, <1>2, <1>3, <1>4, <1>5, <1>6, <1>7, <1>8, <1>9, <1>10, <1>11, <1>12
  DEF Next, Step

\* The inductive invariant holds throughout.
THEOREM Invariant == Spec => []IInv
  BY InitIInv, NextIInv, PTL DEF Spec

\* Type correctness, whatever the number of threads.
THEOREM TypeCorrect == Spec => []TypeOK
<1>1. IInv => TypeOK
  BY DEF IInv
<1> QED
  BY <1>1, Invariant, PTL

\* MUTEX_lock lets one thread in at a time: whoever has been let in is the
\* owner of the lock below.
THEOREM OneAtATime == Spec => []MutualExclusion
<1>1. IInv => MutualExclusion
  BY DEF IInv, OsLock, Inside, MutualExclusion
<1> QED
  BY <1>1, Invariant, PTL

-----------------------------------------------------------------------------
(* The checks of the two unlocks.                                          *)

\* Where the checks are made, the thread has the lock, and its count is not 0.
LEMMA ChecksSucceed ==
  ASSUME IInv, NEW t \in Threads
  PROVE  /\ pc[t] = "drop" => recursion # 0
         /\ pc[t] = "post" => osOwner = t /\ osDepth > 0
<1> USE MutexAssumption DEF IInv, TypeOK, OsLock, CountIsHeld,
      CallersAreWhereTheyAre, Inside
<1>1. pc[t] = "post" => osOwner = t /\ osDepth > 0
  OBVIOUS
<1>2. pc[t] = "drop" => recursion # 0
  OBVIOUS
<1> QED
  BY <1>1, <1>2

\* No step makes a check fail.
LEMMA StepKeepsChecks == IInv /\ NeverBroken /\ [Next]_vars => NeverBroken'
<1> SUFFICES ASSUME IInv, ~broken, [Next]_vars PROVE ~broken'
  BY DEF NeverBroken
<1>1. CASE UNCHANGED vars
  BY <1>1 DEF vars
<1>2. ASSUME NEW t \in Threads, Drop(t) PROVE ~broken'
  BY <1>2, ChecksSucceed DEF Drop
<1>3. ASSUME NEW t \in Threads, OsUnlock(t) PROVE ~broken'
  <2>1. pc[t] = "post"
    BY <1>3 DEF OsUnlock
  <2>2. osDepth \in Int
    BY DEF IInv, TypeOK
  <2>3. ~(osOwner # t \/ osDepth <= 0)
    BY <2>1, <2>2, ChecksSucceed
  <2> QED
    BY <1>3, <2>3, Zenon DEF OsUnlock
<1>4. ASSUME NEW t \in Threads,
             \/ LockCall(t) \/ Inspect(t) \/ OsTry(t) \/ OsExpire(t) \/ OsLate(t)
             \/ Own(t) \/ Count(t) \/ UnlockCall(t) \/ Global(t)
      PROVE  ~broken'
  BY <1>4 DEF LockCall, Inspect, OsTry, OsExpire, OsLate, Own, Count, UnlockCall, Global
<1> QED
  BY <1>1, <1>2, <1>3, <1>4 DEF Next, Step

\* Neither BUG_HERE of MUTEX_unLock nor _atomic_fatal is ever reached.
THEOREM ChecksNeverFail == Spec => []NeverBroken
<1>1. Init => NeverBroken
  BY DEF Init, NeverBroken
<1> QED
  BY <1>1, StepKeepsChecks, Invariant, PTL DEF Spec

-----------------------------------------------------------------------------
(* No wakeup is lost.                                                      *)

\* A step that frees the lock tells a thread that waits; one that takes the
\* place of a told thread away finds the lock taken, or tries itself.
LEMMA StepKeepsWakeups == IInv /\ NoLostWakeup /\ [Next]_vars => NoLostWakeup'
<1> SUFFICES ASSUME IInv, NoLostWakeup, [Next]_vars PROVE NoLostWakeup'
  OBVIOUS
<1> USE MutexAssumption DEF IInv, TypeOK, OsLock, CallersAreWhereTheyAre, Inside,
      Steps, Goto, NoLostWakeup
<1>1. CASE UNCHANGED vars
  BY <1>1 DEF vars
<1>2. ASSUME NEW t \in Threads, LockCall(t) \/ Inspect(t) PROVE NoLostWakeup'
  BY <1>2 DEF LockCall, Inspect
<1>3. ASSUME NEW t \in Threads, OsTry(t) PROVE NoLostWakeup'
  BY <1>3 DEF OsTry, OsTake
<1>4. ASSUME NEW t \in Threads, OsExpire(t) PROVE NoLostWakeup'
  BY <1>4 DEF OsExpire
<1>5. ASSUME NEW t \in Threads, OsLate(t) PROVE NoLostWakeup'
  BY <1>5 DEF OsLate, OsTake
<1>6. ASSUME NEW t \in Threads, Own(t) \/ Count(t) PROVE NoLostWakeup'
  BY <1>6 DEF Own, Count
<1>7. ASSUME NEW t \in Threads, UnlockCall(t) \/ Global(t) PROVE NoLostWakeup'
  BY <1>7 DEF UnlockCall, Global
<1>8. ASSUME NEW t \in Threads, Drop(t) PROVE NoLostWakeup'
  BY <1>8 DEF Drop
<1>9. ASSUME NEW t \in Threads, OsUnlock(t) PROVE NoLostWakeup'
  BY <1>9 DEF OsUnlock, Signal
<1> QED
  BY <1>1, <1>2, <1>3, <1>4, <1>5, <1>6, <1>7, <1>8, <1>9 DEF Next, Step

\* While the lock is free and threads wait, one of them has been told to try,
\* or tries because its wait has ended, however many wait and whichever of
\* them pthread_cond_signal chooses.
THEOREM WakeupsAreKept == Spec => []NoLostWakeup
<1>1. Init => NoLostWakeup
  BY DEF Init, NoLostWakeup
<1> QED
  BY <1>1, StepKeepsWakeups, Invariant, PTL DEF Spec

-----------------------------------------------------------------------------
(* The refinement of Lock.                                                 *)

\* Count takes the lock of module Lock, Drop releases it, and every other step
\* leaves it alone.
LEMMA StepRefines == IInv /\ NeverBroken /\ [Next]_vars => [L!Next]_(L!vars)
<1> SUFFICES ASSUME IInv, ~broken, [Next]_vars PROVE [L!Next]_(L!vars)
  BY DEF NeverBroken
<1> USE MutexAssumption DEF IInv, TypeOK, OsLock, CountIsHeld, OwnerIsInside,
      CallersAreWhereTheyAre, Inside, Steps
<1>1. CASE UNCHANGED vars
  BY <1>1 DEF vars, L!vars
<1>2. ASSUME NEW t \in Threads, Count(t) PROVE L!Acquire(t)
  BY <1>2 DEF Count, L!Acquire
<1>3. ASSUME NEW t \in Threads, Drop(t) PROVE L!Release(t)
  BY <1>3, ChecksSucceed DEF Drop, L!Release
<1>4. ASSUME NEW t \in Threads, Own(t) PROVE UNCHANGED L!vars
  BY <1>4 DEF Own, L!vars
<1>5. ASSUME NEW t \in Threads,
             \/ LockCall(t) \/ Inspect(t) \/ OsTry(t) \/ OsExpire(t) \/ OsLate(t)
             \/ UnlockCall(t) \/ Global(t) \/ OsUnlock(t)
      PROVE  UNCHANGED L!vars
  BY <1>5 DEF LockCall, Inspect, OsTry, OsExpire, OsLate, UnlockCall, Global,
              OsUnlock, L!vars
<1> QED
  BY <1>1, <1>2, <1>3, <1>4, <1>5 DEF Next, Step, L!Next

\* MUTEX_lock and MUTEX_unLock are a lock that its owner may take again.
THEOREM MutexIsALock == Spec => ImplementsLock
<1>1. Init => L!Init
  BY DEF Init, L!Init
<1> QED
  BY <1>1, StepRefines, Invariant, ChecksNeverFail, PTL
  DEF Spec, ImplementsLock, L!Spec

-----------------------------------------------------------------------------
(* The list of timers.                                                     *)

\* What is left after an element has been taken out of a list that holds it once.
LEMMA TakenOut ==
  ASSUME NEW S, NEW s \in Seq(S), IsInjective(s), NEW i \in DOMAIN s
  PROVE  /\ RemoveAt(s, i) \in Seq(S) /\ Len(RemoveAt(s, i)) = Len(s) - 1
         /\ \A j \in 1 .. Len(s) - 1 : RemoveAt(s, i)[j] = IF j < i THEN s[j] ELSE s[j + 1]
         /\ IsInjective(RemoveAt(s, i)) /\ ToSet(RemoveAt(s, i)) = ToSet(s) \ {s[i]}
<1> DEFINE t == RemoveAt(s, i)
<1>1. /\ t \in Seq(S) /\ Len(t) = Len(s) - 1
      /\ \A j \in 1 .. Len(t) : t[j] = IF j < i THEN s[j] ELSE s[j + 1]
  <2> DEFINE a == SubSeq(s, 1, i - 1)
             b == SubSeq(s, i + 1, Len(s))
  <2>1. /\ a \in Seq(S) /\ Len(a) = i - 1 /\ i \in 1 .. Len(s) /\ Len(s) \in Nat
        /\ \A j \in 1 .. i - 1 : a[j] = s[j]
    OBVIOUS
  <2>2. b \in Seq(S) /\ Len(b) = Len(s) - i /\ \A j \in 1 .. Len(s) - i : b[j] = s[i + j]
    OBVIOUS
  <2>3. t = a \o b
    BY DEF RemoveAt
  <2> HIDE DEF a, b, t
  <2>4. t \in Seq(S) /\ Len(t) = Len(s) - 1
    BY <2>1, <2>2, <2>3
  <2>5. ASSUME NEW j \in 1 .. Len(t) PROVE t[j] = IF j < i THEN s[j] ELSE s[j + 1]
    <3>1. t[j] = IF j <= Len(a) THEN a[j] ELSE b[j - Len(a)]
      BY SMTT(30), <2>1, <2>2, <2>3, <2>4
    <3>2. CASE j < i
      BY <2>1, <2>4, <3>1, <3>2
    <3>3. CASE ~(j < i)
      <4>1. j - (i - 1) \in 1 .. Len(s) - i /\ i + (j - (i - 1)) = j + 1 /\ ~(j <= Len(a))
        BY <2>1, <2>4, <3>3
      <4>2. b[j - (i - 1)] = s[j + 1]
        BY <2>2, <4>1
      <4> QED
        BY <2>1, <3>1, <3>3, <4>1, <4>2
    <3> QED
      BY <3>2, <3>3
  <2> QED
    BY <2>4, <2>5
<1> HIDE DEF t
<1>2. DOMAIN s = 1 .. Len(s) /\ DOMAIN t = 1 .. Len(t) /\ Len(s) \in Nat /\ Len(t) \in Nat
  BY <1>1
<1>3. IsInjective(t)
  BY SMTT(30), <1>1, <1>2 DEF IsInjective
<1>4. ASSUME NEW j \in DOMAIN t PROVE t[j] \in ToSet(s) \ {s[i]}
  BY SMTT(30), <1>1, <1>2 DEF IsInjective, ToSet
<1>5. ASSUME NEW j \in DOMAIN s, s[j] # s[i] PROVE s[j] \in ToSet(t)
  <2>1. CASE j < i
    BY <1>1, <1>2, <2>1 DEF ToSet
  <2>2. CASE i < j
    <3>1. j - 1 \in DOMAIN t /\ t[j - 1] = s[j]
      BY <1>1, <1>2, <2>2
    <3> QED
      BY <3>1 DEF ToSet
  <2> QED
    BY <1>2, <1>5, <2>1, <2>2
<1>6. ToSet(t) = ToSet(s) \ {s[i]}
  BY <1>4, <1>5 DEF ToSet
<1> QED
  BY <1>1, <1>3, <1>6 DEF t

\* What is left after an element has been put at a place of a list that did not hold it.
LEMMA PutIn ==
  ASSUME NEW S, NEW s \in Seq(S), IsInjective(s), NEW e \in S, e \notin ToSet(s),
         NEW i \in 0 .. Len(s)
  PROVE  /\ InsertAt(s, i + 1, e) \in Seq(S) /\ Len(InsertAt(s, i + 1, e)) = Len(s) + 1
         /\ \A j \in 1 .. Len(s) + 1 : InsertAt(s, i + 1, e)[j] =
                IF j <= i THEN s[j] ELSE IF j = i + 1 THEN e ELSE s[j - 1]
         /\ IsInjective(InsertAt(s, i + 1, e)) /\ ToSet(InsertAt(s, i + 1, e)) = ToSet(s) \cup {e}
<1> DEFINE t == InsertAt(s, i + 1, e)
<1>1. /\ t \in Seq(S) /\ Len(t) = Len(s) + 1
      /\ \A j \in 1 .. Len(t) : t[j] = IF j <= i THEN s[j] ELSE IF j = i + 1 THEN e ELSE s[j - 1]
  <2> DEFINE a == SubSeq(s, 1, i)
             b == SubSeq(s, i + 1, Len(s))
             c == a \o <<e>>
  <2>1. a \in Seq(S) /\ Len(a) = i /\ Len(s) \in Nat /\ \A j \in 1 .. i : a[j] = s[j]
    OBVIOUS
  <2>2. b \in Seq(S) /\ Len(b) = Len(s) - i /\ \A j \in 1 .. Len(s) - i : b[j] = s[i + j]
    OBVIOUS
  <2>3. t = c \o b
    <3>1. (i + 1) - 1 = i
      OBVIOUS
    <3> QED
      BY <3>1 DEF InsertAt
  <2> HIDE DEF a, b, t
  <2>4. /\ c \in Seq(S) /\ Len(c) = i + 1 /\ c[i + 1] = e
        /\ \A j \in 1 .. i : c[j] = s[j]
    BY <2>1
  <2> HIDE DEF c
  <2>5. t \in Seq(S) /\ Len(t) = Len(s) + 1
    BY <2>1, <2>2, <2>3, <2>4
  <2>6. ASSUME NEW j \in 1 .. Len(t)
        PROVE  t[j] = IF j <= i THEN s[j] ELSE IF j = i + 1 THEN e ELSE s[j - 1]
    <3>1. t[j] = IF j <= Len(c) THEN c[j] ELSE b[j - Len(c)]
      BY <2>1, <2>2, <2>3, <2>4, <2>5
    <3>2. CASE j <= i + 1
      BY <2>1, <2>4, <2>5, <3>1, <3>2
    <3>3. CASE ~(j <= i + 1)
      <4>1. j - (i + 1) \in 1 .. Len(s) - i /\ i + (j - (i + 1)) = j - 1
        BY <2>1, <2>5, <3>3
      <4>2. b[j - (i + 1)] = s[j - 1]
        BY <2>2, <4>1
      <4> QED
        BY <2>4, <3>1, <3>3, <4>1, <4>2
    <3> QED
      BY <3>2, <3>3
  <2> QED
    BY <2>5, <2>6
<1> HIDE DEF t
<1>2. DOMAIN s = 1 .. Len(s) /\ DOMAIN t = 1 .. Len(t) /\ Len(s) \in Nat /\ Len(t) \in Nat
  BY <1>1
<1>3. /\ t[i + 1] = e /\ i + 1 \in DOMAIN t
      /\ \A j \in DOMAIN s : \E k \in DOMAIN t : t[k] = s[j]
  <2>1. ASSUME NEW j \in DOMAIN s PROVE \E k \in DOMAIN t : t[k] = s[j]
    <3>1. CASE j <= i
      BY <1>1, <1>2, <3>1
    <3>2. CASE ~(j <= i)
      <4>1. j + 1 \in DOMAIN t /\ t[j + 1] = s[j]
        BY <1>1, <1>2, <3>2
      <4> QED
        BY <4>1
    <3> QED
      BY <3>1, <3>2
  <2> QED
    BY <1>1, <1>2, <2>1
<1>4. \A j \in DOMAIN t : j # i + 1 =>
        /\ (IF j <= i THEN j ELSE j - 1) \in DOMAIN s
        /\ t[j] = s[IF j <= i THEN j ELSE j - 1]
  BY <1>1, <1>2
<1>5. \A j \in DOMAIN t : j # i + 1 => t[j] # e /\ t[j] \in ToSet(s)
  BY <1>4 DEF ToSet
<1>6. IsInjective(t)
  <2> SUFFICES ASSUME NEW j \in DOMAIN t, NEW k \in DOMAIN t, t[j] = t[k] PROVE j = k
    BY DEF IsInjective
  <2>1. CASE j = i + 1 \/ k = i + 1
    BY <1>3, <1>5, <2>1
  <2>2. CASE j # i + 1 /\ k # i + 1
    <3>1. (IF j <= i THEN j ELSE j - 1) = (IF k <= i THEN k ELSE k - 1)
      BY <1>4, <2>2 DEF IsInjective
    <3> QED
      BY <1>2, <2>2, <3>1
  <2> QED
    BY <2>1, <2>2
<1>7. ToSet(t) = ToSet(s) \cup {e}
  BY <1>3, <1>5 DEF ToSet
<1> QED
  BY <1>1, <1>6, <1>7 DEF t

\* What is left when the first one has been taken.
LEMMA TakenFirst ==
  ASSUME NEW S, NEW s \in Seq(S), IsInjective(s), s # <<>>
  PROVE  /\ Tail(s) \in Seq(S) /\ Len(Tail(s)) = Len(s) - 1 /\ Head(s) = s[1] /\ Head(s) \in ToSet(s)
         /\ \A j \in 1 .. Len(s) - 1 : Tail(s)[j] = s[j + 1]
         /\ IsInjective(Tail(s)) /\ ToSet(Tail(s)) = ToSet(s) \ {Head(s)}
<1> DEFINE t == Tail(s)
<1>1. /\ t \in Seq(S) /\ Len(t) = Len(s) - 1 /\ Len(s) \in Nat \ {0} /\ Head(s) = s[1]
      /\ \A j \in 1 .. Len(t) : t[j] = s[j + 1]
  OBVIOUS
<1> HIDE DEF t
<1>2. DOMAIN s = 1 .. Len(s) /\ DOMAIN t = 1 .. Len(t)
  BY <1>1
<1>3. IsInjective(t)
  BY SMTT(30), <1>1, <1>2 DEF IsInjective
<1>4. \A j \in DOMAIN t : t[j] \in ToSet(s) \ {s[1]}
  BY SMTT(30), <1>1, <1>2 DEF IsInjective, ToSet
<1>5. \A j \in DOMAIN s : j # 1 => j - 1 \in DOMAIN t /\ t[j - 1] = s[j]
  BY <1>1, <1>2
<1>6. ToSet(t) = ToSet(s) \ {s[1]}
  BY <1>4, <1>5 DEF ToSet
<1>7. 1 \in DOMAIN s /\ s[1] \in ToSet(s)
  <2>1. 1 \in DOMAIN s
    BY <1>1, <1>2
  <2> QED
    BY <2>1 DEF ToSet
<1> QED
  BY <1>1, <1>3, <1>6, <1>7 DEF t

-----------------------------------------------------------------------------
(* The order of the list.                                                  *)

\* A set of natural numbers that is not empty has a least element.
LEMMA LeastNatural ==
  ASSUME NEW T \in SUBSET Nat, T # {}
  PROVE  \E x \in T : \A y \in T : x <= y
<1>1. PICK x \in T : \A y \in T : ~ (<<y, x>> \in OpToRel(<, Nat))
  BY NatLessThanWellFounded, WFMin, Zenon
<1>2. ASSUME NEW y \in T PROVE x <= y
  <2>1. <<y, x>> \in Nat \X Nat
    OBVIOUS
  <2>2. ~ (y < x)
    BY <1>1, <2>1, Zenon DEF OpToRel
  <2> QED
    BY <2>2
<1> QED
  BY <1>2

\* Differences that are small are what they are.
LEMMA SignedSmall ==
  ASSUME NEW d \in Int, 2 * d < Times, 2 * d >= 0 - Times
  PROVE  Signed(d) = d
<1>1. CASE d >= 0
  BY <1>1, ClockAssumption DEF Signed
<1>2. CASE d < 0
  <2>1. d % Times = d + Times
    BY <1>2, ClockAssumption
  <2> QED
    BY <1>2, <2>1, ClockAssumption DEF Signed
<1> QED
  BY <1>1, <1>2

\* How far away the time of a timer can be.
Near(r) == r \in Int /\ r >= 0 - MaxLate /\ 2 * (r + MaxLate) < Times

Sorted(list, clock) ==
  \A i, j \in DOMAIN list : i < j => clock[list[i]].remain <= clock[list[j]].remain

\* _timer_insert keeps the list in order, whether the times have rolled over or not.
LEMMA Inserted ==
  ASSUME NEW list \in Seq(Timers), IsInjective(list), NEW t \in Timers, t \notin ToSet(list),
         NEW clock
  PROVE  /\ InOrder(list, clock, t) \in Seq(Timers) /\ IsInjective(InOrder(list, clock, t))
         /\ ToSet(InOrder(list, clock, t)) = ToSet(list) \cup {t}
         /\ (/\ Sorted(list, clock)
             /\ \A u \in ToSet(list) \cup {t} : Near(clock[u].remain))
            => Sorted(InOrder(list, clock, t), clock)
<1> DEFINE later(u) == Signed(clock[t].remain - clock[u].remain) <= 0
           before == {i \in 0 .. Len(list) : \A j \in 1 .. i : ~later(list[j])}
           k == CHOOSE i \in before : \A j \in before : j <= i
           new == InsertAt(list, k + 1, t)
<1>1. DOMAIN list = 1 .. Len(list) /\ Len(list) \in Nat
  OBVIOUS
<1>2. \E i \in before : \A j \in before : j <= i
  <2> DEFINE T == {Len(list) - i : i \in before}
  <2>1. 0 \in before /\ \A i \in before : i \in 0 .. Len(list)
    BY <1>1
  <2> HIDE DEF before
  <2>2. T \in SUBSET Nat /\ Len(list) - 0 \in T
    BY <1>1, <2>1
  <2>3. PICK n \in T : \A m \in T : n <= m
    <3> HIDE DEF T
    <3> QED
      BY <2>2, LeastNatural
  <2>4. PICK i \in before : n = Len(list) - i
    BY <2>3
  <2>5. ASSUME NEW j \in before PROVE j <= i
    <3>1. n <= Len(list) - j
      BY <2>3
    <3> QED
      BY <1>1, <2>1, <2>4, <3>1
  <2> QED
    BY <2>5
<1>3. k \in before /\ \A j \in before : j <= k
  <2> HIDE DEF before
  <2> QED
    BY <1>2
<1>4. InOrder(list, clock, t) = new
  BY DEF InOrder
<1>5. k \in 0 .. Len(list) /\ \A j \in 1 .. k : ~later(list[j])
  BY <1>3
<1>6. k < Len(list) => later(list[k + 1])
  <2> SUFFICES ASSUME k < Len(list), ~later(list[k + 1]) PROVE FALSE
    OBVIOUS
  <2>1. k + 1 \in before
    <3> HIDE DEF later, k
    <3>1. ASSUME NEW j \in 1 .. k + 1 PROVE ~later(list[j])
      <4>1. j \in 1 .. k \/ j = k + 1
        BY <1>1, <1>5
      <4> QED
        BY <1>5, <4>1
    <3>2. k + 1 \in 0 .. Len(list)
      BY <1>1, <1>5
    <3> QED
      BY <3>1, <3>2
  <2> HIDE DEF k, before, later
  <2>2. k + 1 <= k
    BY <1>3, <2>1
  <2> QED
    BY <1>1, <1>5, <2>2
<1> HIDE DEF k, before
<1>7. /\ new \in Seq(Timers) /\ IsInjective(new) /\ ToSet(new) = ToSet(list) \cup {t}
      /\ Len(new) = Len(list) + 1
      /\ \A j \in 1 .. Len(list) + 1 :
           new[j] = IF j <= k THEN list[j] ELSE IF j = k + 1 THEN t ELSE list[j - 1]
  BY <1>5, PutIn
<1> HIDE DEF new
<1>8. ASSUME Sorted(list, clock), \A u \in ToSet(list) \cup {t} : Near(clock[u].remain)
      PROVE  Sorted(new, clock)
  <2> DEFINE r(j) == clock[list[j]].remain
             x == clock[t].remain
  <2>1. x \in Int /\ \A j \in DOMAIN list : r(j) \in Int /\ (later(list[j]) <=> x <= r(j))
    <3>1. ASSUME NEW j \in DOMAIN list
          PROVE  r(j) \in Int /\ x \in Int /\ (later(list[j]) <=> x - r(j) <= 0)
      <4>1. Near(x) /\ Near(r(j))
        BY <1>8 DEF ToSet
      <4>2. \A a, b : Near(a) /\ Near(b) =>
                2 * (a - b) < Times /\ 2 * (a - b) >= 0 - Times /\ a - b \in Int
        BY ClockAssumption DEF Near
      <4>3. 2 * (x - r(j)) < Times /\ 2 * (x - r(j)) >= 0 - Times /\ x - r(j) \in Int
        BY <4>1, <4>2, Zenon
      <4>4. Signed(x - r(j)) = x - r(j)
        BY <4>3, SignedSmall
      <4>5. x \in Int /\ r(j) \in Int
        BY <4>1 DEF Near
      <4>6. \A a, b \in Int : a - b <= 0 <=> a <= b
        OBVIOUS
      <4> QED
        BY <4>4, <4>5, <4>6
    <3>2. x \in Int
      BY <1>8 DEF Near
    <3> QED
      BY <3>1, <3>2
  <2>2. \A i, j \in DOMAIN list : i < j => r(i) <= r(j)
    BY <1>8 DEF Sorted
  <2>3. \A j \in 1 .. k : r(j) < x
    BY <1>1, <1>5, <2>1
  <2>4. \A j \in k + 1 .. Len(list) : x <= r(j)
    <3> SUFFICES ASSUME NEW j \in k + 1 .. Len(list) PROVE x <= r(j)
      OBVIOUS
    <3>1. k + 1 \in DOMAIN list /\ j \in DOMAIN list /\ (j = k + 1 \/ k + 1 < j)
      BY <1>1, <1>5
    <3>2. x <= r(k + 1)
      BY <1>5, <1>6, <2>1, <3>1
    <3>3. r(k + 1) <= r(j)
      BY <2>1, <2>2, <3>1
    <3> QED
      BY <2>1, <3>1, <3>2, <3>3
  <2> HIDE DEF later
  <2>5. ASSUME NEW i \in DOMAIN new, NEW j \in DOMAIN new, i < j
        PROVE  clock[new[i]].remain <= clock[new[j]].remain
    <3>1. i \in 1 .. Len(list) + 1 /\ j \in 1 .. Len(list) + 1
      BY <1>7
    <3>2. CASE j <= k
      <4>1. i \in DOMAIN list /\ j \in DOMAIN list /\ new[i] = list[i] /\ new[j] = list[j]
        BY <1>1, <1>5, <1>7, <2>5, <3>1, <3>2
      <4> QED
        BY <2>2, <2>5, <4>1
    <3>3. CASE j = k + 1
      <4>1. i \in 1 .. k /\ new[i] = list[i] /\ new[j] = t
        BY <1>1, <1>5, <1>7, <2>5, <3>1, <3>3
      <4>2. i \in DOMAIN list
        BY <1>1, <1>5, <4>1
      <4> QED
        BY <2>1, <2>3, <4>1, <4>2
    <3>4. CASE i = k + 1
      <4>1. j - 1 \in k + 1 .. Len(list) /\ new[i] = t /\ new[j] = list[j - 1]
        BY <1>1, <1>5, <1>7, <2>5, <3>1, <3>4
      <4> QED
        BY <2>4, <4>1
    <3>5. CASE i <= k /\ j > k + 1
      <4>1. i \in DOMAIN list /\ j - 1 \in DOMAIN list /\ new[i] = list[i] /\ new[j] = list[j - 1]
            /\ i < j - 1
        BY <1>1, <1>5, <1>7, <2>5, <3>1, <3>5
      <4> QED
        BY <2>2, <4>1
    <3>6. CASE i > k + 1
      <4>1. i - 1 \in DOMAIN list /\ j - 1 \in DOMAIN list /\ new[i] = list[i - 1]
            /\ new[j] = list[j - 1] /\ i - 1 < j - 1
        BY <1>1, <1>5, <1>7, <2>5, <3>1, <3>6
      <4> QED
        BY <2>2, <4>1
    <3> QED
      BY <1>5, <2>5, <3>1, <3>2, <3>3, <3>4, <3>5, <3>6
  <2> QED
    BY <2>5 DEF Sorted
<1> QED
  BY <1>4, <1>7, <1>8

\* The list when a timer is taken out of it, wherever it is.
LEMMA LeftOver ==
  ASSUME NEW list \in Seq(Timers), IsInjective(list), NEW t
  PROVE  /\ Without(list, t) \in Seq(Timers) /\ IsInjective(Without(list, t))
         /\ ToSet(Without(list, t)) = ToSet(list) \ {t}
         /\ \A clock : Sorted(list, clock) => Sorted(Without(list, t), clock)
<1>1. CASE t \notin ToSet(list)
  <2>1. Without(list, t) = list
    BY <1>1 DEF Without
  <2> QED
    BY <1>1, <2>1
<1>2. CASE t \in ToSet(list)
  <2> DEFINE i == CHOOSE i \in DOMAIN list : list[i] = t
             rest == RemoveAt(list, i)
  <2>1. i \in DOMAIN list /\ list[i] = t
    BY <1>2 DEF ToSet
  <2>2. Without(list, t) = rest
    BY <1>2 DEF Without
  <2> HIDE DEF i
  <2>3. /\ rest \in Seq(Timers) /\ Len(rest) = Len(list) - 1
        /\ \A j \in 1 .. Len(list) - 1 : rest[j] = IF j < i THEN list[j] ELSE list[j + 1]
        /\ IsInjective(rest) /\ ToSet(rest) = ToSet(list) \ {t}
    BY <2>1, TakenOut
  <2> HIDE DEF rest
  <2>4. ASSUME NEW clock, Sorted(list, clock) PROVE Sorted(rest, clock)
    <3> SUFFICES ASSUME NEW j \in DOMAIN rest, NEW k \in DOMAIN rest, j < k
                 PROVE  clock[rest[j]].remain <= clock[rest[k]].remain
      BY DEF Sorted
    <3> DEFINE m == IF j < i THEN j ELSE j + 1
               n == IF k < i THEN k ELSE k + 1
    <3>1. /\ DOMAIN list = 1 .. Len(list) /\ Len(list) \in Nat
          /\ j \in 1 .. Len(list) - 1 /\ k \in 1 .. Len(list) - 1 /\ i \in 1 .. Len(list)
      BY <2>1, <2>3
    <3>2. rest[j] = list[m] /\ rest[k] = list[n]
      BY <2>3, <3>1
    <3>3. m \in DOMAIN list /\ n \in DOMAIN list /\ m < n
      BY <3>1
    <3> HIDE DEF m, n
    <3> QED
      BY <2>4, <3>2, <3>3 DEF Sorted
  <2> QED
    BY <2>2, <2>3, <2>4
<1> QED
  BY <1>1, <1>2

\* The order depends on the times of the timers in the list only.
LEMMA StillSorted ==
  ASSUME NEW list, NEW clock, NEW later,
         \A t \in ToSet(list) : later[t].remain = clock[t].remain
  PROVE  Sorted(list, clock) => Sorted(list, later)
<1>1. \A i \in DOMAIN list : later[list[i]].remain = clock[list[i]].remain
  BY DEF ToSet
<1> QED
  BY <1>1 DEF Sorted


-----------------------------------------------------------------------------
(* The invariants.                                                         *)

Handles == Timers \cup {NoTimer}

Jobs == [at : {"idle", "unlink", "clear", "create", "keep"}, clock : Alarms \cup {NoTimer},
         old : Handles, new : Handles, delay : Nat, periodic : BOOLEAN]

Cells == [remain : Int, period : Nat, periodic : BOOLEAN]

ClockTypes ==
  /\ clkHandle \in [Alarms -> Handles]
  /\ job \in [Setters -> Jobs]
  /\ made \in SUBSET Timers
  /\ timer \in [Timers -> Cells]
  /\ activeList \in Seq(Timers) /\ inService \in Handles /\ semaphore \in Nat
  /\ service \in [at : {"look", "wait", "call", "called"}, timer : Handles] /\ sleep \in Nat
  /\ fault \in BOOLEAN /\ overlapped \in BOOLEAN /\ late \in BOOLEAN

(* Until memory has been misused, the timers in the list are different ones, and their *)
(* memory is theirs.  So is that of the one in service, which the thread is calling. *)
MemoryInv ==
  ~fault =>
    /\ IsInjective(activeList) /\ ToSet(activeList) \subseteq made
    /\ inService # NoTimer => /\ inService \in made \ ToSet(activeList)
                              /\ service.at \in {"call", "called"} /\ service.timer = inService

OrderInv ==
  /\ \A s \in Setters : job[s].at # "idle" => Near(job[s].delay)
  /\ ~fault => /\ \A t \in made : Near(timer[t].period)
               /\ \A t \in ToSet(activeList) : Near(timer[t].remain)
               /\ Sorted(activeList, timer)

(* Threads that set clocks set different ones. *)
SettersApart ==
  \A s \in Setters : \/ job[s] = Idle
                     \/ /\ job[s].at # "idle" /\ job[s].clock \in Alarms
                        /\ \A r \in Setters \ {s} : job[r].clock # job[s].clock

(* What a thread remembers of the timer it destroys, and of the one it has made. *)
OldOne(s) ==
  /\ job[s].at = "unlink" => job[s].old \in made
  /\ job[s].at = "clear" =>
       job[s].old = NoTimer \/ job[s].old \in made \ (ToSet(activeList) \cup {inService})
  /\ job[s].at \in {"unlink", "clear"} => job[s].old = clkHandle[job[s].clock]

NewOne(s) ==
  /\ job[s].at # "keep" => job[s].new = NoTimer
  /\ job[s].at \in {"create", "keep"} => clkHandle[job[s].clock] = NoTimer
  /\ job[s].at = "keep" => /\ job[s].new \in made
                           /\ \A c \in Alarms : clkHandle[c] # job[s].new
                           /\ \A r \in Setters \ {s} : job[r].new # job[s].new

OldOnes == \A s \in Setters : OldOne(s)
NewOnes == \A s \in Setters : NewOne(s)

HandlesApart ==
  \A c \in Alarms : clkHandle[c] # NoTimer =>
    clkHandle[c] \in made /\ \A d \in Alarms \ {c} : clkHandle[c] # clkHandle[d]

AllAreKept ==
  \A t \in made : (\E c \in Alarms : clkHandle[c] = t) \/ \E s \in Setters : job[s].new = t

OnlyIfLate ==
  /\ fault => late
  /\ service.at = "call" /\ ~late => service.timer = inService /\ inService # NoTimer

KeptInv ==
  ~overlapped => /\ SettersApart /\ OldOnes /\ NewOnes /\ HandlesApart /\ AllAreKept /\ OnlyIfLate

\* The lists of the steps.
ListInv == ClockTypes /\ MemoryInv /\ OrderInv

\* There are no timers at first.
LEMMA ListInit == ClockInit => ListInv
<1> SUFFICES ASSUME ClockInit PROVE ListInv
  OBVIOUS
<1>1. ClockTypes
  <2>1. Idle \in Jobs
    BY DEF Idle, Jobs, Handles
  <2>2. Nothing \in Cells
    BY DEF Nothing, Cells
  <2>3. clkHandle \in [Alarms -> Handles] /\ inService \in Handles
    BY DEF ClockInit, Handles
  <2>4. job \in [Setters -> Jobs] /\ timer \in [Timers -> Cells]
    BY <2>1, <2>2 DEF ClockInit
  <2>5. service \in [at : {"look", "wait", "call", "called"}, timer : Handles]
    BY DEF ClockInit, Handles
  <2>6. made \in SUBSET Timers /\ activeList \in Seq(Timers) /\ semaphore \in Nat /\ sleep \in Nat
    BY DEF ClockInit
  <2>7. fault \in BOOLEAN /\ overlapped \in BOOLEAN /\ late \in BOOLEAN
    BY DEF ClockInit
  <2> QED
    BY <2>3, <2>4, <2>5, <2>6, <2>7 DEF ClockTypes
<1>2. MemoryInv
  BY DEF ClockInit, MemoryInv, IsInjective, ToSet
<1>3. OrderInv
  BY DEF ClockInit, OrderInv, Sorted, ToSet, Idle
<1> QED
  BY <1>1, <1>2, <1>3 DEF ListInv

\* What is scheduled in less than half of the range of times.
LEMMA ScheduledAnew ==
  ASSUME ClockTypes, NEW t \in Timers, NEW period \in Nat, Near(period), NEW periodic \in BOOLEAN,
         timer' = Scheduled(t, period, periodic)
  PROVE  /\ timer' \in [Timers -> Cells]
         /\ Near(timer'[t].remain) /\ timer'[t].remain = period /\ timer'[t].period = period
         /\ \A u \in Timers \ {t} : timer'[u] = timer[u]
<1>1. Signed(period) = period
  BY SignedSmall, ClockAssumption DEF Near
<1> DEFINE cell == [remain |-> period, period |-> period, periodic |-> periodic]
<1>2. cell \in Cells /\ cell.remain = period /\ cell.period = period
  BY DEF Cells
<1>3. timer \in [Timers -> Cells] /\ timer' = [timer EXCEPT ![t] = cell]
  BY <1>1 DEF Scheduled, ClockTypes
<1> HIDE DEF cell
<1>4. timer' \in [Timers -> Cells] /\ timer'[t] = cell /\ \A u \in Timers \ {t} : timer'[u] = timer[u]
  BY <1>2, <1>3
<1> QED
  BY <1>2, <1>4

\* Every step keeps the list in order, and the timers in it different ones.
LEMMA ListStep == ListInv /\ [ClockNext]_clockVars => ListInv'
<1> SUFFICES ASSUME ListInv, [ClockNext]_clockVars PROVE ListInv'
  OBVIOUS
<1> USE DEF ListInv
<1>a. Idle \in Jobs /\ Nothing \in Cells
  BY DEF Idle, Jobs, Handles, Nothing, Cells
<1>b. /\ \A s \in Setters : /\ job[s].at \in {"idle", "unlink", "clear", "create", "keep"}
                          /\ job[s].old \in Handles /\ job[s].delay \in Nat
                          /\ job[s].periodic \in BOOLEAN
      /\ \A t \in Timers : timer[t].remain \in Int /\ timer[t].period \in Nat
  BY DEF ClockTypes, Jobs, Cells
<1>c. ASSUME NEW s \in Setters, NEW to \in {"idle", "unlink", "clear", "create", "keep"},
             NEW t \in Handles
      PROVE  [job[s] EXCEPT !.at = to] \in Jobs /\ [job[s] EXCEPT !.at = to, !.new = t] \in Jobs
  <2>1. job[s] \in Jobs
    BY DEF ClockTypes
  <2> QED
    BY <2>1 DEF Jobs
<1>1. CASE UNCHANGED clockVars
  BY <1>1 DEF clockVars, memory, thread, past, ClockTypes, MemoryInv, OrderInv
<1>2. CASE Dead
  BY <1>2 DEF Dead, clockVars, memory, thread, past, ClockTypes, MemoryInv, OrderInv
<1> DEFINE Fine == /\ activeList \in Seq(Timers) /\ IsInjective(activeList)
                   /\ ToSet(activeList) \subseteq made /\ made \subseteq Timers
                   /\ Sorted(activeList, timer)
                   /\ \A t \in made : Near(timer[t].period)
                   /\ \A t \in ToSet(activeList) : Near(timer[t].remain)
<1>3. ~fault => Fine
  BY DEF ClockTypes, MemoryInv, OrderInv
<1>4. ASSUME ~fault, NEW s \in Setters, NEW c \in Alarms, NEW setting \in Settings,
             SetClock(s, c, setting[1], setting[2])
      PROVE  ListInv'
  <2>1. setting[1] \in Nat /\ setting[2] \in BOOLEAN /\ Near(setting[1])
    BY ClockAssumption DEF Near
  <2>2. ClockTypes'
    <3> DEFINE j == [at |-> IF clkHandle[c] \in made THEN "unlink" ELSE "clear",
                     clock |-> c, old |-> clkHandle[c], new |-> NoTimer,
                     delay |-> setting[1], periodic |-> setting[2]]
    <3>1. clkHandle[c] \in Handles
      BY DEF ClockTypes
    <3>2. j \in Jobs
      BY <2>1, <3>1 DEF Jobs, Handles
    <3>3. job' = [job EXCEPT ![s] = j]
      BY <1>4 DEF SetClock
    <3> HIDE DEF j
    <3>4. job' \in [Setters -> Jobs]
      BY <3>2, <3>3 DEF ClockTypes
    <3>5. overlapped' \in BOOLEAN
      BY <1>4, Zenon DEF SetClock
    <3> QED
      BY <1>4, <3>4, <3>5 DEF SetClock, ClockTypes, memory, thread
  <2>3. OrderInv'
    BY <1>4, <2>1 DEF SetClock, OrderInv, memory, thread, ClockTypes
  <2>4. MemoryInv'
    BY <1>4 DEF SetClock, MemoryInv, memory, thread
  <2> QED
    BY <2>2, <2>3, <2>4
<1>5. ASSUME ~fault, NEW s \in Setters, Unlink(s) PROVE ListInv'
  <2> DEFINE t == job[s].old
  <2>1. /\ activeList' \in Seq(Timers) /\ IsInjective(activeList')
        /\ ToSet(activeList') = ToSet(activeList) \ {t} /\ Sorted(activeList', timer)
    BY <1>3, <1>5, LeftOver DEF Unlink
  <2>2. ClockTypes'
    <3>1. job' \in [Setters -> Jobs]
      BY <1>5, <1>c DEF Unlink, Go, ClockTypes, Handles
    <3>2. late' \in BOOLEAN
      BY <1>5, Zenon DEF Unlink
    <3>3. inService' \in Handles
      BY <1>5 DEF Unlink, ClockTypes, Handles
    <3> QED
      BY <1>5, <2>1, <3>1, <3>2, <3>3 DEF Unlink, ClockTypes, thread
  <2>3. OrderInv'
    BY <1>3, <1>5, <2>1 DEF Unlink, Go, OrderInv, thread, ClockTypes
  <2>4. MemoryInv'
    BY <1>5, <2>1 DEF Unlink, MemoryInv, thread
  <2> QED
    BY <2>2, <2>3, <2>4
<1>6. ASSUME ~fault, NEW s \in Setters, Clear(s) PROVE ListInv'
  <2>1. /\ made' \subseteq made
        /\ timer' \in [Timers -> Cells]
        /\ \A t \in made' : timer'[t] = timer[t]
        /\ fault' \in BOOLEAN
        /\ ~fault' => ToSet(activeList) \subseteq made' /\ (inService \in made => inService \in made')
    <3>1. CASE job[s].old = NoTimer
      BY <1>3, <1>6, <3>1 DEF Clear, Free, ClockTypes
    <3>2. CASE job[s].old # NoTimer
      <4> DEFINE t == job[s].old
      <4>1. /\ made' = made \ {t} /\ timer' = [timer EXCEPT ![t] = Nothing]
            /\ fault' = (t \notin made \/ t \in ToSet(activeList) \cup {inService})
        BY <1>6, <3>2 DEF Clear, Free
      <4>2. fault' \in BOOLEAN
        BY <4>1, Zenon
      <4>3. t \in Timers
        BY <1>b, <3>2 DEF Handles
      <4>4. timer' \in [Timers -> Cells] /\ \A u \in Timers \ {t} : timer'[u] = timer[u]
        BY <1>a, <4>1 DEF ClockTypes
      <4> QED
        BY <1>3, <1>6, <4>1, <4>2, <4>4
    <3> QED
      BY <3>1, <3>2
  <2>2. ClockTypes'
    <3>1. job' \in [Setters -> Jobs]
      <4>1. CASE job[s].delay = 0
        BY <1>6, <1>a, <4>1 DEF Clear, ClockTypes
      <4>2. CASE job[s].delay # 0
        BY <1>6, <1>c, <4>2 DEF Clear, ClockTypes, Handles
      <4> QED
        BY <4>1, <4>2
    <3>2. clkHandle' \in [Alarms -> Handles]
      BY <1>6 DEF Clear, ClockTypes, Handles
    <3> QED
      BY <1>3, <1>6, <2>1, <3>1, <3>2 DEF Clear, ClockTypes, thread, past
  <2>3. OrderInv'
    <3>1. \A r \in Setters : job'[r].at # "idle" => Near(job'[r].delay)
      BY <1>6 DEF Clear, OrderInv, ClockTypes, Idle
    <3>2. ~fault' => Sorted(activeList, timer')
      BY <1>3, <1>6, <2>1, StillSorted
    <3> QED
      BY <1>3, <1>6, <2>1, <3>1, <3>2 DEF Clear, OrderInv
  <2>4. MemoryInv'
    BY <1>6, <2>1 DEF Clear, MemoryInv, thread
  <2> QED
    BY <2>2, <2>3, <2>4
<1>7. ASSUME ~fault, NEW s \in Setters, Create(s) PROVE ListInv'
  <2>1. PICK t \in Timers \ made :
            /\ job[s].at = "create" /\ job' = [job EXCEPT ![s].at = "keep", ![s].new = t]
            /\ made' = made \cup {t}
            /\ timer' = Scheduled(t, job[s].delay, job[s].periodic)
            /\ activeList' = InOrder(activeList, timer', t)
            /\ UNCHANGED <<clkHandle, inService, semaphore, thread, fault, past>>
    BY <1>7 DEF Create
  <2>2. job[s].delay \in Nat /\ Near(job[s].delay) /\ job[s].periodic \in BOOLEAN
    BY <1>b, <2>1 DEF OrderInv
  <2>3. /\ timer' \in [Timers -> Cells]
        /\ Near(timer'[t].remain) /\ timer'[t].period = job[s].delay
        /\ \A u \in Timers \ {t} : timer'[u] = timer[u]
    BY <2>1, <2>2, ScheduledAnew
  <2>4. \A u \in ToSet(activeList) : u \in made /\ u \in Timers \ {t} /\ timer'[u] = timer[u]
    BY <1>3, <1>7, <2>1, <2>3
  <2>5. Sorted(activeList, timer')
    BY <1>3, <1>7, <2>4, StillSorted
  <2>6. /\ activeList' \in Seq(Timers) /\ IsInjective(activeList')
        /\ ToSet(activeList') = ToSet(activeList) \cup {t} /\ Sorted(activeList', timer')
    <3>1. \A u \in ToSet(activeList) \cup {t} : Near(timer'[u].remain)
      BY <1>3, <1>7, <2>3, <2>4
    <3>2. t \notin ToSet(activeList)
      BY <2>4
    <3> QED
      BY <1>3, <1>7, <2>1, <2>5, <3>1, <3>2, Inserted
  <2>7. ClockTypes'
    <3>1. job' \in [Setters -> Jobs]
      BY <1>c, <2>1 DEF ClockTypes, Handles
    <3> QED
      BY <2>1, <2>3, <2>6, <3>1 DEF ClockTypes, thread, past
  <2>8. OrderInv'
    <3>1. \A r \in Setters : job'[r].at # "idle" => Near(job'[r].delay)
      BY <2>1, <2>2 DEF OrderInv, ClockTypes
    <3>2. \A u \in made' : Near(timer'[u].period)
      BY <1>3, <1>7, <2>1, <2>2, <2>3
    <3>3. \A u \in ToSet(activeList') : Near(timer'[u].remain)
      BY <1>3, <1>7, <2>3, <2>4, <2>6
    <3> QED
      BY <2>6, <3>1, <3>2, <3>3 DEF OrderInv
  <2>9. MemoryInv'
    BY <1>7, <2>1, <2>4, <2>6 DEF MemoryInv, thread
  <2> QED
    BY <2>7, <2>8, <2>9
<1>8. ASSUME ~fault, NEW s \in Setters, Keep(s) PROVE ListInv'
  <2>1. ClockTypes'
    <3>1. job' \in [Setters -> Jobs] /\ job[s].new \in Handles
      BY <1>8, <1>a DEF Keep, ClockTypes, Jobs
    <3>2. clkHandle' \in [Alarms -> Handles]
      BY <1>8, <3>1 DEF Keep, ClockTypes
    <3> QED
      BY <1>8, <3>1, <3>2 DEF Keep, ClockTypes, memory, thread, past
  <2>2. OrderInv'
    BY <1>8 DEF Keep, OrderInv, memory, ClockTypes, Idle
  <2>3. MemoryInv'
    BY <1>8 DEF Keep, MemoryInv, memory, thread
  <2> QED
    BY <2>1, <2>2, <2>3
<1>9. ASSUME ~fault, Look PROVE ListInv'
  <2>1. ASSUME NEW time \in Nat, Sleep(time), inService = NoTimer PROVE ListInv'
    BY <1>9, <2>1 DEF Look, Sleep, ClockTypes, MemoryInv, OrderInv, past
  <2>2. inService = NoTimer
    BY <1>9 DEF Look, MemoryInv
  <2>3. CASE activeList = <<>> /\ Sleep(Minute)
    BY <2>1, <2>2, <2>3, ClockAssumption
  <2> DEFINE h == Head(activeList)
  <2>4. activeList # <<>> =>
          /\ Tail(activeList) \in Seq(Timers) /\ h \in ToSet(activeList) /\ h \in Timers
          /\ h \in made
          /\ IsInjective(Tail(activeList)) /\ ToSet(Tail(activeList)) = ToSet(activeList) \ {h}
          /\ Len(Tail(activeList)) = Len(activeList) - 1
          /\ \A j \in 1 .. Len(activeList) - 1 : Tail(activeList)[j] = activeList[j + 1]
    BY <1>3, <1>9, TakenFirst
  <2>5. CASE activeList # <<>> /\ Remain(h) > 0 /\ Sleep(Remain(h))
    <3>1. Remain(h) \in Nat
      BY <1>b, <2>4, <2>5 DEF Remain
    <3> QED
      BY <2>1, <2>2, <2>5, <3>1
  <2>6. CASE activeList # <<>> /\ Remain(h) <= 0 /\ Take(h)
    <3>1. \A t \in ToSet(activeList') : timer'[t].remain = timer[t].remain
      BY <1>3, <1>9, <2>4, <2>6 DEF Take, ClockTypes
    <3>2. \A t \in Timers : timer'[t].period = timer[t].period
      BY <2>4, <2>6 DEF Take, ClockTypes
    <3>3. Sorted(activeList', timer)
      <4> SUFFICES ASSUME NEW i \in DOMAIN activeList', NEW j \in DOMAIN activeList', i < j
                   PROVE  timer[activeList'[i]].remain <= timer[activeList'[j]].remain
        BY DEF Sorted
      <4> DEFINE list == activeList
      <4>1. list \in Seq(Timers)
        BY DEF ClockTypes
      <4>2. DOMAIN list = 1 .. Len(list) /\ Len(list) \in Nat
        BY <4>1
      <4>3. i \in 1 .. Len(list) - 1 /\ j \in 1 .. Len(list) - 1
        BY <2>4, <2>6 DEF Take
      <4>4. activeList'[i] = list[i + 1] /\ activeList'[j] = list[j + 1]
        BY <2>4, <2>6, <4>3 DEF Take
      <4>5. i + 1 \in DOMAIN list /\ j + 1 \in DOMAIN list /\ i + 1 < j + 1
        BY <4>2, <4>3
      <4> QED
        BY <1>3, <1>9, <4>4, <4>5 DEF Sorted
    <3>4. Sorted(activeList', timer')
      BY <3>1, <3>3, StillSorted
    <3>5. ClockTypes'
      <4>1. timer' \in [Timers -> Cells]
        <5>1. [timer[h] EXCEPT !.remain = 0] \in Cells
          <6>1. timer[h] \in Cells
            BY <2>4, <2>6 DEF ClockTypes
          <6> QED
            BY <6>1 DEF Cells
        <5> QED
          BY <2>4, <2>6, <5>1 DEF Take, ClockTypes
      <4>2. inService' \in Handles /\ service' \in [at : {"look", "wait", "call", "called"}, timer : Handles]
        BY <2>4, <2>6 DEF Take, Handles
      <4> QED
        BY <1>9, <2>4, <2>6, <4>1, <4>2 DEF Look, Take, ClockTypes, past
    <3>6. OrderInv'
      BY <1>3, <1>9, <2>4, <2>6, <3>1, <3>2, <3>4 DEF Look, Take, OrderInv
    <3>7. MemoryInv'
      BY <1>3, <1>9, <2>4, <2>6 DEF Look, Take, MemoryInv
    <3> QED
      BY <3>5, <3>6, <3>7
  <2> QED
    BY <1>9, <2>3, <2>5, <2>6 DEF Look
<1>10. ASSUME ~fault, Wake PROVE ListInv'
  BY <1>10 DEF Wake, ClockTypes, MemoryInv, OrderInv, memory, past
<1>11. ASSUME ~fault, Call PROVE ListInv'
  BY <1>11 DEF Call, ClockTypes, MemoryInv, OrderInv, memory, past
<1>12. ASSUME ~fault, Called PROVE ListInv'
  <2>1. CASE inService # NoTimer /\ timer[inService].periodic
    <3> DEFINE t == inService
    <3>1. t \in Timers /\ t \in made /\ t \notin ToSet(activeList)
      BY <1>12, <2>1 DEF ClockTypes, MemoryInv
    <3>2. timer' = Scheduled(t, timer[t].period, TRUE) /\ activeList' = InOrder(activeList, timer', t)
      BY <1>12, <2>1 DEF Called
    <3>3. timer[t].period \in Nat /\ Near(timer[t].period)
      BY <1>3, <1>12, <1>b, <3>1
    <3>4. /\ timer' \in [Timers -> Cells]
          /\ Near(timer'[t].remain) /\ timer'[t].period = timer[t].period
          /\ \A u \in Timers \ {t} : timer'[u] = timer[u]
      BY <3>1, <3>2, <3>3, ScheduledAnew
    <3> HIDE DEF t
    <3>5. \A u \in ToSet(activeList) : u \in made /\ u \in Timers \ {t} /\ timer'[u] = timer[u]
      BY <1>3, <1>12, <3>1, <3>4
    <3>6. Sorted(activeList, timer')
      BY <1>3, <1>12, <3>5, StillSorted
    <3>7. /\ activeList' \in Seq(Timers) /\ IsInjective(activeList')
          /\ ToSet(activeList') = ToSet(activeList) \cup {t} /\ Sorted(activeList', timer')
      <4>1. \A u \in ToSet(activeList) \cup {t} : Near(timer'[u].remain)
        BY <1>3, <1>12, <3>4, <3>5
      <4> QED
        BY <1>3, <1>12, <3>1, <3>2, <3>6, <4>1, Inserted
    <3>8. ClockTypes'
      BY <1>12, <3>4, <3>7 DEF Called, ClockTypes, past, Handles
    <3>9. OrderInv'
      <4>1. \A u \in made' : Near(timer'[u].period)
        BY <1>3, <1>12, <3>3, <3>4 DEF Called
      <4>2. \A u \in ToSet(activeList') : Near(timer'[u].remain)
        BY <1>3, <1>12, <3>4, <3>5, <3>7
      <4> QED
        BY <1>12, <3>7, <4>1, <4>2 DEF Called, OrderInv
    <3>10. MemoryInv'
      BY <1>3, <1>12, <3>1, <3>7 DEF Called, MemoryInv
    <3> QED
      BY <3>8, <3>9, <3>10
  <2>2. CASE ~(inService # NoTimer /\ timer[inService].periodic)
    <3>1. UNCHANGED <<timer, activeList>>
      BY <1>12, <2>2 DEF Called
    <3> QED
      BY <1>12, <3>1 DEF Called, ClockTypes, MemoryInv, OrderInv, past, Handles
  <2> QED
    BY <2>1, <2>2
<1>13. ASSUME ~fault, Tick PROVE ListInv'
  <2>1. /\ timer' \in [Timers -> Cells]
        /\ \A t \in Timers : timer'[t].period = timer[t].period
        /\ \A t \in ToSet(activeList) : /\ timer'[t].remain = timer[t].remain - 1
                                       /\ timer[t].remain > 0 - MaxLate
    <3>1. ToSet(activeList) \subseteq Timers
      BY <1>3, <1>13
    <3>2. \A t \in Timers : timer[t] \in Cells
      BY DEF ClockTypes
    <3>3. \A t \in Timers : timer'[t] = IF t \in ToSet(activeList)
                          THEN [timer[t] EXCEPT !.remain = @ - 1] ELSE timer[t]
      BY <1>13 DEF Tick
    <3>4. \A t \in Timers : timer'[t] \in Cells
      <4>1. \A cell \in Cells : [cell EXCEPT !.remain = @ - 1] \in Cells
        BY DEF Cells
      <4> QED
        BY <3>2, <3>3, <4>1
    <3>5. timer' = [t \in Timers |-> timer'[t]]
      BY <1>13 DEF Tick
    <3>6. timer' \in [Timers -> Cells]
      BY <3>4, <3>5
    <3>7. \A t \in ToSet(activeList) : timer[t].remain > 0 - MaxLate
      BY <1>13, ClockAssumption DEF Tick, Remain
    <3>8. \A cell \in Cells : /\ [cell EXCEPT !.remain = @ - 1].period = cell.period
                             /\ [cell EXCEPT !.remain = @ - 1].remain = cell.remain - 1
      BY DEF Cells
    <3>9. \A t \in Timers : timer'[t].period = timer[t].period
      BY <3>2, <3>3, <3>8
    <3>10. \A t \in ToSet(activeList) : timer'[t].remain = timer[t].remain - 1
      BY <3>1, <3>2, <3>3, <3>8
    <3> QED
      BY <3>6, <3>7, <3>9, <3>10
  <2>2. Sorted(activeList, timer')
    <3> SUFFICES ASSUME NEW i \in DOMAIN activeList, NEW j \in DOMAIN activeList, i < j
                 PROVE  timer'[activeList[i]].remain <= timer'[activeList[j]].remain
      BY DEF Sorted
    <3>1. timer[activeList[i]].remain <= timer[activeList[j]].remain
      BY <1>3, <1>13 DEF Sorted
    <3>2. activeList[i] \in ToSet(activeList) /\ activeList[j] \in ToSet(activeList)
      BY DEF ToSet
    <3>3. timer[activeList[i]].remain \in Int /\ timer[activeList[j]].remain \in Int
      BY <1>3, <1>13, <3>2 DEF Near
    <3> QED
      BY <2>1, <3>1, <3>2, <3>3
  <2>3. \A t \in ToSet(activeList) : Near(timer'[t].remain)
    <3>1. \A a : Near(a) /\ a > 0 - MaxLate => Near(a - 1)
      BY ClockAssumption DEF Near
    <3> QED
      BY <1>3, <1>13, <2>1, <3>1
  <2>4. ClockTypes'
    BY <1>13, <2>1 DEF Tick, ClockTypes, past
  <2>5. OrderInv'
    BY <1>3, <1>13, <2>1, <2>2, <2>3 DEF Tick, OrderInv
  <2>6. MemoryInv'
    BY <1>13 DEF Tick, MemoryInv
  <2> QED
    BY <2>4, <2>5, <2>6
<1> QED
  BY <1>1, <1>2, <1>4, <1>5, <1>6, <1>7, <1>8, <1>9, <1>10, <1>11, <1>12, <1>13
     DEF ClockNext, TimerThread, Setting

-----------------------------------------------------------------------------
(* The sleep of the timer thread.                                          *)

LEMMA SleepStep == ListInv /\ SleepsInTime /\ [ClockNext]_clockVars => SleepsInTime'
<1> SUFFICES ASSUME ListInv, SleepsInTime, [ClockNext]_clockVars PROVE SleepsInTime'
  OBVIOUS
<1>1. CASE UNCHANGED clockVars
  BY <1>1 DEF clockVars, memory, thread, past, SleepsInTime, Remain
<1>2. CASE Dead
  BY <1>2 DEF Dead, clockVars, memory, thread, past, SleepsInTime, Remain
<1> SUFFICES ASSUME ~fault, ClockNext, ~Dead, service'.at = "wait", semaphore' = 0, ~fault',
                    \A s \in Setters : job'[s].at # "keep", NEW t \in ToSet(activeList')
             PROVE  sleep' <= timer'[t].remain \/ sleep' = 0
  BY <1>1, <1>2 DEF ClockNext, SleepsInTime, Remain
<1>3. /\ activeList \in Seq(Timers) /\ IsInjective(activeList) /\ Sorted(activeList, timer)
      /\ ToSet(activeList) \subseteq made /\ made \subseteq Timers
      /\ job \in [Setters -> Jobs] /\ timer \in [Timers -> Cells] /\ sleep \in Nat
  BY DEF ListInv, ClockTypes, MemoryInv, OrderInv
<1>a. \A u \in Timers : timer[u].remain \in Int
  BY <1>3 DEF Cells
<1>b. (/\ service.at = "wait" /\ semaphore = 0 /\ \A s \in Setters : job[s].at # "keep"
       /\ t \in ToSet(activeList)) => sleep <= timer[t].remain \/ sleep = 0
  BY DEF SleepsInTime, Remain
<1>4. ASSUME NEW s \in Setters, NEW c \in Alarms, NEW setting \in Settings,
             SetClock(s, c, setting[1], setting[2])
      PROVE  sleep' <= timer'[t].remain \/ sleep' = 0
  <2>1. \A r \in Setters : job[r].at # "keep"
    BY <1>3, <1>4 DEF SetClock
  <2> QED
    BY <1>4, <1>b, <2>1 DEF SetClock, memory, thread
<1>5. ASSUME NEW s \in Setters, Unlink(s) PROVE sleep' <= timer'[t].remain \/ sleep' = 0
  <2>1. \A r \in Setters : job[r].at # "keep"
    BY <1>3, <1>5 DEF Unlink, Go
  <2>2. t \in ToSet(activeList)
    BY <1>3, <1>5, LeftOver DEF Unlink
  <2> QED
    BY <1>5, <1>b, <2>1, <2>2 DEF Unlink, thread
<1>6. ASSUME NEW s \in Setters, Clear(s) PROVE sleep' <= timer'[t].remain \/ sleep' = 0
  <2>1. \A r \in Setters : job[r].at # "keep"
    BY <1>3, <1>6 DEF Clear
  <2>2. timer'[t] = timer[t] /\ t \in ToSet(activeList)
    BY <1>3, <1>6 DEF Clear, Free
  <2> QED
    BY <1>6, <1>b, <2>1, <2>2 DEF Clear, thread
<1>7. ASSUME NEW s \in Setters, Create(s) PROVE FALSE
  BY <1>3, <1>7 DEF Create
<1>8. ASSUME NEW s \in Setters, Keep(s) PROVE FALSE
  BY <1>8 DEF Keep, ListInv, ClockTypes
<1>9. ASSUME Look PROVE sleep' <= timer'[t].remain \/ sleep' = 0
  <2>1. CASE activeList = <<>> /\ Sleep(Minute)
    <3>1. activeList' = <<>>
      BY <2>1 DEF Sleep
    <3> QED
      BY <3>1 DEF ToSet
  <2>2. CASE activeList # <<>> /\ Remain(Head(activeList)) > 0 /\ Sleep(Remain(Head(activeList)))
    <3>1. sleep' = timer[activeList[1]].remain /\ timer' = timer /\ t \in ToSet(activeList)
      BY <1>3, <2>2 DEF Sleep, Remain
    <3>2. PICK i \in DOMAIN activeList : activeList[i] = t
      BY <3>1 DEF ToSet
    <3>3. 1 \in DOMAIN activeList /\ (i = 1 \/ 1 < i)
      BY <1>3, <3>2
    <3>4. t \in Timers /\ timer[t].remain \in Int
      BY <1>3, <1>a, <3>1
    <3>5. timer[activeList[1]].remain <= timer[t].remain
      BY <1>3, <3>2, <3>3, <3>4 DEF Sorted
    <3> QED
      BY <3>1, <3>5
  <2>3. CASE Take(Head(activeList))
    BY <2>3 DEF Take
  <2> QED
    BY <1>9, <2>1, <2>2, <2>3 DEF Look
<1>10. ASSUME Wake PROVE FALSE
  BY <1>10 DEF Wake, ListInv, ClockTypes
<1>11. ASSUME Call PROVE FALSE
  BY <1>11 DEF Call, ListInv, ClockTypes
<1>12. ASSUME Called PROVE FALSE
  BY <1>12 DEF Called
<1>13. ASSUME Tick PROVE sleep' <= timer'[t].remain \/ sleep' = 0
  <2>1. /\ t \in ToSet(activeList) /\ t \in Timers
        /\ timer'[t] = [timer[t] EXCEPT !.remain = @ - 1]
        /\ sleep' = IF sleep > 0 THEN sleep - 1 ELSE 0
    BY <1>3, <1>13 DEF Tick
  <2>2. timer'[t].remain = timer[t].remain - 1 /\ timer[t].remain \in Int
    BY <1>3, <1>a, <2>1 DEF Cells
  <2>3. sleep <= timer[t].remain \/ sleep = 0
    BY <1>13, <1>b, <2>1 DEF Tick
  <2> QED
    BY <1>3, <2>1, <2>2, <2>3
<1> QED
  BY <1>4, <1>5, <1>6, <1>7, <1>8, <1>9, <1>10, <1>11, <1>12, <1>13
     DEF ClockNext, TimerThread, Setting

-----------------------------------------------------------------------------
(* The handles of the clocks.                                              *)

LEMMA KeptInit == ClockInit => KeptInv
  BY ClockAssumption DEF ClockInit, KeptInv, SettersApart, OldOnes, OldOne, NewOnes, NewOne, HandlesApart,
     AllAreKept, OnlyIfLate, Idle

\* A thread goes on with the clock that it is setting, or is done with it.
LEMMA StillApart ==
  ASSUME SettersApart, NEW s \in Setters, job[s].at # "idle",
         \A r \in Setters \ {s} : job'[r] = job[r],
         job'[s] = Idle \/ (job'[s].at # "idle" /\ job'[s].clock = job[s].clock)
  PROVE  SettersApart'
<1>1. Idle.clock = NoTimer /\ NoTimer \notin Alarms /\ Idle.at = "idle"
  BY ClockAssumption DEF Idle
<1>2. \A r \in Setters : job'[r].clock = job[r].clock \/ job'[r].clock = NoTimer
  BY <1>1
<1>3. ASSUME NEW r \in Setters, job'[r] # Idle
      PROVE  /\ job'[r].at # "idle" /\ job'[r].clock \in Alarms
             /\ \A q \in Setters \ {r} : job'[q].clock # job'[r].clock
  <2>1. job'[r].at # "idle" /\ job[r] # Idle /\ job'[r].clock = job[r].clock
    <3>1. CASE r = s
      BY <1>1, <1>3, <3>1
    <3>2. CASE r # s
      BY <1>3, <3>2 DEF SettersApart
    <3> QED
      BY <3>1, <3>2
  <2>2. job[r].clock \in Alarms /\ \A q \in Setters \ {r} : job[q].clock # job[r].clock
    BY <2>1 DEF SettersApart
  <2> QED
    BY <1>1, <1>2, <2>1, <2>2
<1> QED
  BY <1>3 DEF SettersApart

LEMMA KeptStep == ListInv /\ KeptInv /\ [ClockNext]_clockVars => KeptInv'
<1> SUFFICES ASSUME ListInv, KeptInv, [ClockNext]_clockVars, ~overlapped' PROVE KeptInv'
  BY DEF KeptInv
<1> USE DEF KeptInv
<1>1. CASE UNCHANGED clockVars
  BY <1>1 DEF clockVars, memory, thread, past, SettersApart, OldOnes, OldOne, NewOnes, NewOne,
     HandlesApart, AllAreKept, OnlyIfLate
<1>2. CASE Dead
  BY <1>2 DEF Dead, clockVars, memory, thread, past, SettersApart, OldOnes, OldOne, NewOnes, NewOne,
     HandlesApart, AllAreKept, OnlyIfLate
<1>3. ASSUME ~overlapped
      PROVE  SettersApart /\ OldOnes /\ NewOnes /\ HandlesApart /\ AllAreKept /\ OnlyIfLate
  BY <1>3
<1>a. /\ job \in [Setters -> Jobs] /\ clkHandle \in [Alarms -> Handles] /\ NoTimer \notin Alarms
      /\ NoTimer \notin made /\ made \subseteq Timers
      /\ \A s \in Setters : job[s].old \in Handles /\ job[s].new \in Handles
  BY ClockAssumption DEF ListInv, ClockTypes, Jobs
<1>b. /\ activeList \in Seq(Timers)
      /\ ~fault => /\ IsInjective(activeList) /\ ToSet(activeList) \subseteq made
                   /\ inService # NoTimer => /\ inService \in made \ ToSet(activeList)
                              /\ service.at \in {"call", "called"} /\ service.timer = inService
  BY DEF ListInv, ClockTypes, MemoryInv
<1>4. ASSUME ~fault, NEW s \in Setters, NEW c \in Alarms, NEW setting \in Settings,
             SetClock(s, c, setting[1], setting[2])
      PROVE  KeptInv'
  <2> DEFINE to == IF clkHandle[c] \in made THEN "unlink" ELSE "clear"
             j == [at |-> to, clock |-> c, old |-> clkHandle[c], new |-> NoTimer,
                   delay |-> setting[1], periodic |-> setting[2]]
  <2>1. /\ ~overlapped /\ \A r \in Setters : job[r].clock # c
        /\ job[s].at = "idle" /\ job' = [job EXCEPT ![s] = j]
        /\ UNCHANGED <<clkHandle, memory, service, fault, late>>
    BY <1>4 DEF SetClock, thread
  <2>2. /\ j.at = to /\ j.clock = c /\ j.old = clkHandle[c] /\ j.new = NoTimer
        /\ to \in {"unlink", "clear"} /\ (to = "unlink" <=> clkHandle[c] \in made)
    OBVIOUS
  <2> HIDE DEF j, to
  <2>3. job'[s] = j /\ \A r \in Setters \ {s} : job'[r] = job[r]
    BY <1>a, <2>1
  <2>4. SettersApart'
    BY <1>3, <2>1, <2>2, <2>3 DEF SettersApart
  <2>5. OldOnes'
    BY <1>3, <1>a, <2>1, <2>2, <2>3 DEF OldOnes, OldOne, HandlesApart, memory
  <2>6. NewOnes'
    BY <1>3, <1>a, <2>1, <2>2, <2>3 DEF NewOnes, NewOne, memory
  <2>7. HandlesApart'
    BY <1>3, <2>1 DEF HandlesApart, memory
  <2>8. AllAreKept'
    <3>1. job[s].new = NoTimer
      BY <1>3, <2>1 DEF NewOnes, NewOne
    <3> QED
      BY <1>3, <1>a, <2>1, <2>2, <2>3, <3>1 DEF AllAreKept, memory
  <2>9. OnlyIfLate'
    BY <1>3, <2>1 DEF OnlyIfLate, memory
  <2> QED
    BY <2>4, <2>5, <2>6, <2>7, <2>8, <2>9
<1>5. ASSUME ~fault, NEW s \in Setters, Unlink(s) PROVE KeptInv'
  <2> DEFINE t == job[s].old
  <2>1. /\ ~overlapped /\ job[s].at = "unlink"
        /\ job' = [job EXCEPT ![s].at = "clear"]
        /\ inService' = IF inService = t THEN NoTimer ELSE inService
        /\ late' = (late \/ service = [at |-> "call", timer |-> t])
        /\ activeList' = Without(activeList, t)
        /\ UNCHANGED <<clkHandle, made, service, fault>>
    BY <1>5 DEF Unlink, Go, thread
  <2>2. /\ job'[s].at = "clear" /\ job'[s].clock = job[s].clock /\ job'[s].old = t
        /\ job'[s].new = job[s].new /\ \A r \in Setters \ {s} : job'[r] = job[r]
    BY <1>a, <2>1 DEF Jobs
  <2>3. ToSet(activeList') = ToSet(activeList) \ {t}
    BY <1>5, <1>b, <2>1, LeftOver
  <2>4. SettersApart'
    BY <1>3, <2>1, <2>2, StillApart
  <2>5. OldOnes'
    BY <1>3, <1>a, <2>1, <2>2, <2>3 DEF OldOnes, OldOne
  <2>6. NewOnes'
    BY <1>3, <2>1, <2>2 DEF NewOnes, NewOne
  <2>7. HandlesApart'
    BY <1>3, <2>1 DEF HandlesApart
  <2>8. AllAreKept'
    BY <1>3, <2>1, <2>2 DEF AllAreKept
  <2>9. OnlyIfLate'
    <3>1. service \in [at : {"look", "wait", "call", "called"}, timer : Handles]
      BY DEF ListInv, ClockTypes
    <3>2. service.at = "call" /\ service.timer = t => late'
      BY <2>1, <3>1
    <3>3. late => late'
      BY <2>1
    <3> QED
      BY <1>3, <1>5, <2>1, <3>2, <3>3 DEF OnlyIfLate
  <2> QED
    BY <2>4, <2>5, <2>6, <2>7, <2>8, <2>9
<1>6. ASSUME ~fault, NEW s \in Setters, Clear(s) PROVE KeptInv'
  <2> DEFINE t == job[s].old
             c == job[s].clock
  <2>1. /\ ~overlapped /\ job[s].at = "clear" /\ c \in Alarms /\ t = clkHandle[c]
        /\ t = NoTimer \/ t \in made \ (ToSet(activeList) \cup {inService})
        /\ \A r \in Setters \ {s} : job[r].clock # c
        /\ clkHandle' = [clkHandle EXCEPT ![c] = NoTimer]
        /\ UNCHANGED <<activeList, inService, service, late>>
    BY <1>3, <1>6 DEF Clear, thread, past, SettersApart, OldOnes, OldOne, Idle
  <2>2. made' = made \ {t} /\ ~fault'
    <3>1. t = NoTimer => made' = made /\ fault' = fault
      BY <1>6 DEF Clear, Free
    <3>2. t # NoTimer => made' = made \ {t} /\ (fault' = (t \notin made \/ t \in ToSet(activeList) \cup {inService}))
      BY <1>6 DEF Clear, Free
    <3>3. CASE t = NoTimer
      BY <1>6, <1>a, <3>1, <3>3
    <3>4. CASE t # NoTimer
      <4>1. ~(t \notin made \/ t \in ToSet(activeList) \cup {inService})
        BY <2>1, <3>4
      <4> QED
        BY <3>2, <3>4, <4>1
    <3> QED
      BY <3>3, <3>4
  <2>3. /\ \A r \in Setters \ {s} : job'[r] = job[r]
        /\ \/ job'[s] = Idle
           \/ job'[s].at = "create" /\ job'[s].clock = c /\ job'[s].new = job[s].new
    BY <1>6, <1>a DEF Clear, Jobs
  <2>4. clkHandle'[c] = NoTimer /\ \A d \in Alarms \ {c} : clkHandle'[d] = clkHandle[d]
    BY <1>a, <2>1
  <2>5. job[s].new = NoTimer
    BY <1>3, <2>1 DEF NewOnes, NewOne
  <2>6. \A d \in Alarms \ {c} : clkHandle[d] = NoTimer \/ clkHandle[d] # t
    BY <1>3, <2>1 DEF HandlesApart
  <2> HIDE DEF t, c
  <2>7. SettersApart'
    <3>1. job'[s] = Idle \/ (job'[s].at # "idle" /\ job'[s].clock = job[s].clock)
      BY <2>3 DEF c
    <3> QED
      BY <1>3, <2>1, <2>3, <3>1, StillApart
  <2>8. \A r \in Setters \ {s} : job[r].at # "idle" => job[r].clock \in Alarms \ {c}
    BY <1>3, <2>1 DEF SettersApart, Idle
  <2>9. OldOnes'
    <3> SUFFICES ASSUME NEW r \in Setters \ {s}
                 PROVE  /\ job[r].at = "unlink" => job[r].old \in made'
                        /\ job[r].at = "clear" => job[r].old = NoTimer
                             \/ job[r].old \in made' \ (ToSet(activeList) \cup {inService})
                        /\ job[r].at \in {"unlink", "clear"} => job[r].old = clkHandle'[job[r].clock]
      BY <2>1, <2>3 DEF OldOnes, OldOne, Idle
    <3> QED
      BY <1>3, <1>a, <2>1, <2>2, <2>4, <2>6, <2>8 DEF OldOnes, OldOne
  <2>10. NewOnes'
    <3>1. \A r \in Setters \ {s} :
            /\ job[r].at # "keep" => job[r].new = NoTimer
            /\ job[r].at \in {"create", "keep"} => clkHandle[job[r].clock] = NoTimer
            /\ job[r].at = "keep" => /\ job[r].new \in made
                                     /\ \A d \in Alarms : clkHandle[d] # job[r].new
                                     /\ \A q \in Setters \ {r} : job[q].new # job[r].new
      BY <1>3, <2>1 DEF NewOnes, NewOne
    <3>2. \A r \in Setters \ {s} : job[r].at = "keep" => job[r].new # t /\ job[r].new # NoTimer
      BY <1>a, <2>1, <3>1
    <3>3. job'[s].at # "keep" /\ job'[s].new = NoTimer
      BY <2>3, <2>5 DEF Idle
    <3>4. job'[s].at \in {"create", "keep"} => clkHandle'[job'[s].clock] = NoTimer
      BY <2>3, <2>4 DEF Idle
    <3>5. ASSUME NEW r \in Setters \ {s}
          PROVE  NewOne(r)'
      <4>1. job'[r] = job[r] /\ \A q \in Setters \ {r} : job'[q].new = job[q].new
        BY <2>3, <2>5, <3>3
      <4>2. job'[r].at \in {"create", "keep"} => clkHandle'[job'[r].clock] = NoTimer
        BY <2>4, <2>8, <3>1, <4>1
      <4>3. ASSUME job[r].at = "keep" PROVE \A d \in Alarms : clkHandle'[d] # job[r].new
        BY <2>1, <2>4, <3>1, <3>2, <4>3
      <4>4. job[r].at = "keep" => job[r].new \in made'
        BY <2>2, <3>1, <3>2
      <4>5. job[r].at = "keep" => \A q \in Setters \ {r} : job'[q].new # job[r].new
        BY <3>1, <4>1
      <4>6. job[r].at # "keep" => job[r].new = NoTimer
        BY <3>1
      <4> QED
        BY <4>1, <4>2, <4>3, <4>4, <4>5, <4>6 DEF NewOne
    <3>6. NewOne(s)'
      BY <3>3, <3>4 DEF NewOne
    <3> QED
      BY <3>5, <3>6 DEF NewOnes
  <2>11. HandlesApart'
    BY <1>3, <2>1, <2>2, <2>4, <2>6 DEF HandlesApart
  <2>12. AllAreKept'
    <3> SUFFICES ASSUME NEW u \in made'
                 PROVE  (\E d \in Alarms : clkHandle'[d] = u) \/ \E r \in Setters : job'[r].new = u
      BY DEF AllAreKept
    <3>1. u \in made /\ u # t /\ u # NoTimer
      BY <1>a, <2>2
    <3>2. (\E d \in Alarms : clkHandle[d] = u) \/ \E r \in Setters : job[r].new = u
      BY <1>3, <2>1, <3>1 DEF AllAreKept
    <3> QED
      BY <2>1, <2>3, <2>4, <2>5, <3>1, <3>2
  <2>13. OnlyIfLate'
    BY <1>3, <2>1, <2>2 DEF OnlyIfLate
  <2> QED
    BY <2>7, <2>9, <2>10, <2>11, <2>12, <2>13
<1>7. ASSUME ~fault, NEW s \in Setters, Create(s) PROVE KeptInv'
  <2>1. PICK t \in Timers \ made :
            /\ job[s].at = "create" /\ job' = [job EXCEPT ![s].at = "keep", ![s].new = t]
            /\ made' = made \cup {t}
            /\ activeList' = InOrder(activeList, timer', t)
            /\ UNCHANGED <<clkHandle, inService, semaphore, thread, fault, past>>
    BY <1>7 DEF Create
  <2>a. UNCHANGED <<clkHandle, inService, service, fault, late>> /\ ~overlapped
    BY <2>1 DEF thread, past
  <2>2. /\ job'[s].at = "keep" /\ job'[s].clock = job[s].clock /\ job'[s].new = t
        /\ job'[s].old = job[s].old /\ \A r \in Setters \ {s} : job'[r] = job[r]
    BY <1>a, <2>1, <2>a DEF Jobs
  <2>3. ToSet(activeList') = ToSet(activeList) \cup {t}
    BY <1>7, <1>b, <2>1, <2>a, Inserted
  <2>4. SettersApart'
    BY <1>3, <2>1, <2>a, <2>2, StillApart
  <2>5. OldOnes'
    <3>1. ASSUME NEW r \in Setters \ {s} PROVE OldOne(r)'
      <4>1. job'[r] = job[r] /\ OldOne(r)
        BY <1>3, <2>a, <2>2 DEF OldOnes
      <4>2. \A u \in made \ (ToSet(activeList) \cup {inService}) :
              u \in made' \ (ToSet(activeList') \cup {inService'})
        BY <2>1, <2>a, <2>3
      <4>3. job[r].old \in made => job[r].old \in made'
        BY <2>1
      <4>4. clkHandle' = clkHandle
        BY <2>a
      <4> QED
        BY <4>1, <4>2, <4>3, <4>4 DEF OldOne
    <3>2. OldOne(s)'
      BY <2>2 DEF OldOne
    <3> QED
      BY <3>1, <3>2 DEF OldOnes
  <2>6. NewOnes'
    <3>1. \A c \in Alarms : clkHandle[c] # t
      BY <1>3, <2>1, <2>a, ClockAssumption DEF HandlesApart
    <3>2. \A r \in Setters \ {s} : job[r].new # t
      BY <1>3, <1>a, <2>1, <2>a, ClockAssumption DEF NewOnes, NewOne
    <3>3. clkHandle[job[s].clock] = NoTimer
      BY <1>3, <2>1, <2>a DEF NewOnes, NewOne
    <3> QED
      <4>1. ASSUME NEW r \in Setters \ {s} PROVE NewOne(r)'
        <5>1. job'[r] = job[r] /\ NewOne(r) /\ job[r].new # t /\ clkHandle' = clkHandle
          BY <1>3, <2>a, <2>2, <3>2 DEF NewOnes
        <5>2. \A q \in Setters \ {r} : job'[q].new = job[q].new \/ job'[q].new = t
          <6>1. \A q \in Setters : q = s \/ job'[q] = job[q]
            BY <2>2
          <6> QED
            BY <2>2, <6>1
        <5>3. job[r].new \in made => job[r].new \in made'
          BY <2>1
        <5> QED
          BY <5>1, <5>2, <5>3 DEF NewOne
      <4>2. job'[s].new \in made' /\ \A q \in Setters \ {s} : job'[q].new # t
        <5>1. t \in made'
          BY <2>1
        <5> QED
          BY <2>2, <3>2, <5>1
      <4>3. NewOne(s)'
        BY <2>2, <2>a, <3>1, <3>3, <4>2 DEF NewOne
      <4> QED
        BY <4>1, <4>3 DEF NewOnes
  <2>7. HandlesApart'
    BY <1>3, <2>1, <2>a DEF HandlesApart
  <2>8. AllAreKept'
    <3>1. job[s].new = NoTimer
      BY <1>3, <2>1, <2>a DEF NewOnes, NewOne
    <3> QED
      BY <1>3, <1>a, <2>1, <2>a, <2>2, <3>1 DEF AllAreKept
  <2>9. OnlyIfLate'
    BY <1>3, <2>1, <2>a DEF OnlyIfLate
  <2> QED
    BY <2>4, <2>5, <2>6, <2>7, <2>8, <2>9
<1>8. ASSUME ~fault, NEW s \in Setters, Keep(s) PROVE KeptInv'
  <2> DEFINE t == job[s].new
             c == job[s].clock
  <2>1. /\ ~overlapped /\ job[s].at = "keep" /\ job' = [job EXCEPT ![s] = Idle]
        /\ clkHandle' = [clkHandle EXCEPT ![c] = t]
        /\ UNCHANGED <<made, activeList, inService, service, fault, late>>
    BY <1>8 DEF Keep, memory, thread, past
  <2>2. /\ c \in Alarms /\ clkHandle[c] = NoTimer /\ t \in made /\ t # NoTimer
        /\ \A d \in Alarms : clkHandle[d] # t
        /\ \A r \in Setters \ {s} : job[r].new # t /\ job[r].clock # c
    BY <1>3, <1>a, <2>1 DEF SettersApart, NewOnes, NewOne, Idle
  <2>3. job'[s] = Idle /\ \A r \in Setters \ {s} : job'[r] = job[r]
    BY <1>a, <2>1
  <2>4. clkHandle'[c] = t /\ \A d \in Alarms \ {c} : clkHandle'[d] = clkHandle[d]
    BY <1>a, <2>1, <2>2
  <2> HIDE DEF t, c
  <2>5. SettersApart'
    BY <1>3, <1>a, <2>1, <2>3 DEF SettersApart, Idle
  <2>6. \A r \in Setters \ {s} : job[r].at # "idle" => job[r].clock \in Alarms \ {c}
    BY <1>3, <2>1, <2>2 DEF SettersApart, Idle
  <2>7. OldOnes'
    BY <1>3, <2>1, <2>3, <2>4, <2>6 DEF OldOnes, OldOne, Idle
  <2>8. NewOnes'
    <3>1. ASSUME NEW r \in Setters \ {s} PROVE NewOne(r)'
      <4>1. /\ job[r].at # "keep" => job[r].new = NoTimer
            /\ job[r].at \in {"create", "keep"} => clkHandle[job[r].clock] = NoTimer
            /\ job[r].at = "keep" => /\ job[r].new \in made
                                     /\ \A d \in Alarms : clkHandle[d] # job[r].new
                                     /\ \A q \in Setters \ {r} : job[q].new # job[r].new
        BY <1>3, <2>1 DEF NewOnes, NewOne
      <4>2. job'[s].new = NoTimer
        BY <2>3 DEF Idle
      <4>3. job'[r] = job[r] /\ job[r].new # t
        BY <2>2, <2>3
      <4>4. job[r].at \in {"create", "keep"} => clkHandle'[job[r].clock] = NoTimer
        BY <2>4, <2>6, <4>1
      <4>5. ASSUME job[r].at = "keep"
            PROVE  \A q \in Setters \ {r} : job'[q].new # job[r].new
        <5>1. job[r].new # NoTimer
          BY <1>a, <4>1, <4>5
        <5> QED
          BY <2>3, <4>1, <4>2, <4>5, <5>1
      <4>6. ASSUME job[r].at = "keep" PROVE \A d \in Alarms : clkHandle'[d] # job[r].new
        BY <2>4, <4>1, <4>3, <4>6
      <4> QED
        BY <2>1, <4>1, <4>3, <4>4, <4>5, <4>6 DEF NewOne
    <3>2. NewOne(s)'
      BY <2>3 DEF NewOne, Idle
    <3> QED
      BY <3>1, <3>2 DEF NewOnes
  <2>9. HandlesApart'
    BY <1>3, <2>1, <2>2, <2>4 DEF HandlesApart
  <2>10. AllAreKept'
    <3> SUFFICES ASSUME NEW u \in made'
                 PROVE  (\E d \in Alarms : clkHandle'[d] = u) \/ \E r \in Setters : job'[r].new = u
      BY DEF AllAreKept
    <3>1. (\E d \in Alarms : clkHandle[d] = u) \/ \E r \in Setters : job[r].new = u
      BY <1>3, <2>1 DEF AllAreKept
    <3>2. u \in made /\ u # NoTimer
      BY <1>a, <2>1
    <3>3. \A d \in Alarms : clkHandle[d] = u => d # c
      BY <2>2, <3>2
    <3>4. job[s].new = t
      BY DEF t
    <3> QED
      BY <2>2, <2>3, <2>4, <3>1, <3>2, <3>3, <3>4
  <2>11. OnlyIfLate'
    BY <1>3, <2>1 DEF OnlyIfLate
  <2> QED
    BY <2>5, <2>7, <2>8, <2>9, <2>10, <2>11
<1>9. ASSUME ~fault, Look PROVE KeptInv'
  <2>1. /\ ~overlapped /\ service.at = "look" /\ inService = NoTimer
        /\ UNCHANGED <<clkHandle, job, made, fault, late>>
    BY <1>9, <1>b DEF Look, past
  <2>2. \/ Sleep(sleep')
        \/ activeList # <<>> /\ Take(Head(activeList))
    BY <1>9 DEF Look, Sleep
  <2>3. CASE Sleep(sleep')
    <3>1. /\ service'.at = "wait" /\ UNCHANGED <<activeList, inService>>
      BY <2>3 DEF Sleep, ListInv, ClockTypes
    <3> QED
      BY <1>3, <2>1, <3>1 DEF SettersApart, OldOnes, OldOne, NewOnes, NewOne, HandlesApart, AllAreKept, OnlyIfLate
  <2>4. CASE activeList # <<>> /\ Take(Head(activeList))
    <3> DEFINE h == Head(activeList)
    <3>1. /\ ToSet(activeList') = ToSet(activeList) \ {h} /\ h \in ToSet(activeList)
          /\ inService' = h /\ service'.timer = h
      BY <1>9, <1>b, <2>4, TakenFirst DEF Take
    <3>2. h # NoTimer
      BY <1>9, <1>a, <1>b, <3>1
    <3> HIDE DEF h
    <3>3. OldOnes'
      BY <1>3, <2>1, <3>1 DEF OldOnes, OldOne
    <3> QED
      BY <1>3, <2>1, <3>1, <3>2, <3>3 DEF SettersApart, NewOnes, NewOne, HandlesApart, AllAreKept, OnlyIfLate
  <2> QED
    BY <2>2, <2>3, <2>4
<1>10. ASSUME ~fault, Wake PROVE KeptInv'
  <2>1. /\ service'.at = "look" /\ ~overlapped
        /\ UNCHANGED <<clkHandle, job, made, activeList, inService, fault, late>>
    BY <1>10 DEF Wake, memory, past, ListInv, ClockTypes
  <2> QED
    BY <1>3, <2>1 DEF SettersApart, OldOnes, OldOne, NewOnes, NewOne, HandlesApart, AllAreKept, OnlyIfLate
<1>11. ASSUME ~fault, Call PROVE KeptInv'
  <2>1. /\ ~overlapped /\ UNCHANGED <<clkHandle, job, made, activeList, inService, late>>
    BY <1>11 DEF Call, memory, past
  <2>2. OnlyIfLate'
    <3>1. CASE service.timer \in made
      <4>1. service'.at = "called" /\ fault' = fault
        BY <1>11, <3>1 DEF Call, ListInv, ClockTypes
      <4> QED
        BY <1>3, <1>11, <2>1, <4>1 DEF OnlyIfLate
    <3>2. CASE service.timer \notin made
      <4>1. service' = service /\ fault'
        BY <1>11, <3>2 DEF Call
      <4>2. late
        BY <1>3, <1>11, <1>b, <2>1, <3>2 DEF OnlyIfLate, Call
      <4> QED
        BY <2>1, <4>1, <4>2 DEF OnlyIfLate
    <3> QED
      BY <3>1, <3>2
  <2> QED
    BY <1>3, <2>1, <2>2 DEF SettersApart, OldOnes, OldOne, NewOnes, NewOne, HandlesApart, AllAreKept
<1>12. ASSUME ~fault, Called PROVE KeptInv'
  <2>1. /\ ~overlapped /\ UNCHANGED <<clkHandle, job, made, fault, late>>
        /\ inService' = NoTimer /\ service'.at = "look"
    BY <1>12 DEF Called, past
  <2>2. inService \in Handles
    BY DEF ListInv, ClockTypes
  <2>3. ToSet(activeList') \subseteq ToSet(activeList) \cup ({inService} \ {NoTimer})
    <3>1. CASE inService # NoTimer /\ timer[inService].periodic
      <4>1. inService \in Timers /\ inService \notin ToSet(activeList)
        BY <1>12, <1>b, <2>2, <3>1 DEF Handles
      <4>2. activeList' = InOrder(activeList, timer', inService)
        BY <1>12, <3>1 DEF Called
      <4>3. ToSet(activeList') = ToSet(activeList) \cup {inService}
        BY <1>12, <1>b, <4>1, <4>2, Inserted
      <4> QED
        BY <3>1, <4>3
    <3>2. CASE ~(inService # NoTimer /\ timer[inService].periodic)
      <4>1. activeList' = activeList
        BY <1>12, <3>2 DEF Called
      <4> QED
        BY <4>1
    <3> QED
      BY <3>1, <3>2
  <2>4. OldOnes'
    BY <1>3, <1>a, <2>1, <2>3 DEF OldOnes, OldOne
  <2> QED
    BY <1>3, <2>1, <2>4 DEF SettersApart, NewOnes, NewOne, HandlesApart, AllAreKept, OnlyIfLate
<1>13. ASSUME ~fault, Tick PROVE KeptInv'
  <2>1. ~overlapped /\ UNCHANGED <<clkHandle, job, made, activeList, inService, service, fault, late>>
    BY <1>13 DEF Tick, past
  <2> QED
    BY <1>3, <2>1 DEF SettersApart, OldOnes, OldOne, NewOnes, NewOne, HandlesApart, AllAreKept, OnlyIfLate
<1> QED
  BY <1>1, <1>2, <1>4, <1>5, <1>6, <1>7, <1>8, <1>9, <1>10, <1>11, <1>12, <1>13
     DEF ClockNext, TimerThread, Setting

-----------------------------------------------------------------------------
(* The theorems.                                                           *)

\* The timer thread never sleeps past the time of a timer, however many clocks, threads
\* and timers there are, and whenever the time rolls over.
THEOREM NoTimerIsLate == ClockSpec => []SleepsInTime
<1>1. ClockInit => ListInv /\ SleepsInTime
  BY ListInit DEF ClockInit, SleepsInTime
<1>2. ListInv /\ SleepsInTime /\ [ClockNext]_clockVars => (ListInv /\ SleepsInTime)'
  BY ListStep, SleepStep
<1> QED
  BY <1>1, <1>2, PTL DEF ClockSpec

\* Clocks set by one thread at a time keep their timers, whatever the timer thread does.
THEOREM ClocksAreKept == ClockSpec => []ClockIsKept
<1>1. ClockInit => ListInv /\ KeptInv
  BY ListInit, KeptInit
<1>2. ListInv /\ KeptInv /\ [ClockNext]_clockVars => (ListInv /\ KeptInv)'
  BY ListStep, KeptStep
<1>3. KeptInv => ClockIsKept
  BY DEF KeptInv, HandlesApart, AllAreKept, OnlyIfLate, ClockIsKept
<1> QED
  BY <1>1, <1>2, <1>3, PTL DEF ClockSpec
=============================================================================
