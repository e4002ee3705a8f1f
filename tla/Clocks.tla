------------------------------- MODULE Clocks -------------------------------
(***************************************************************************)
(* The callback timers (timer_cb.c) and the clocks of the collector that   *)
(* are made of them (csf_linux.c): each is the handle of a timer, which is *)
(* destroyed and created again when the clock is set.  The main loop and   *)
(* the web clients' threads set clocks; one thread serves all timers.      *)
(*                                                                         *)
(* What timer_cb.c does under its lock is one step, the rest is not.  The  *)
(* code looks at times only by their signed differences; so the time at    *)
(* which a timer expires is kept as its difference to the present one.     *)
(***************************************************************************)
EXTENDS Integers, Sequences, SequencesExt, FiniteSets

CONSTANTS
    Setters,   \* threads that set clocks
    Alarms,    \* the clocks: joinClkHandle, configClkHandle and the like
    Timers,    \* the memory of timers
    NoTimer,   \* a handle of 0
    Times,     \* how many values a time has
    Settings,  \* what clocks are set to: a delay, 0 to stop it, and whether it is periodic
    Minute,    \* how long the timer thread sleeps when there are no timers
    MaxLate,   \* bound: how late the timer thread may be
    MaxPuts    \* bound: no clock is set while the count of the semaphore is this

\* A clock is set to less than half of what a time can be, even for a late thread: 24
\* days, of which the program's own delays are seconds.
ASSUME ClockAssumption ==
    /\ NoTimer \notin Timers \cup Alarms
    /\ Times \in Nat \ {0} /\ Minute \in Nat \ {0} /\ MaxLate \in Nat
    /\ \A setting \in Settings : /\ setting[1] \in Nat /\ setting[2] \in BOOLEAN
                                 /\ 2 * (setting[1] + MaxLate) < Times

VARIABLES
    clkHandle,   \* of each clock
    job,         \* where each setter is, and with which clock and timers
    made,        \* timers whose memory is theirs
    timer,       \* of each: expire_time less the present time, while it is in the list;
                 \* period_mSec, periodic
    activeList,  \* pTMR_ActiveList
    inService,   \* pTMR_InService
    semaphore,   \* the count of timer_sem_id
    service,     \* where the timer thread is, and with which timer
    sleep,       \* how much longer it sleeps at most
    \* Faults and history.
    fault,       \* memory was called or freed that was not, or no longer, a timer's own
    overlapped,  \* two threads were setting one clock at once
    late         \* a timer was destroyed between being taken and being called

memory == <<made, timer, activeList, inService>>
thread == <<service, sleep>>
past == <<overlapped, late>>
clockVars == <<clkHandle, job, memory, semaphore, thread, fault, past>>

Idle == [at |-> "idle", clock |-> NoTimer, old |-> NoTimer, new |-> NoTimer,
         delay |-> 0, periodic |-> FALSE]

\* What memory that is no timer holds.
Nothing == [remain |-> 0, period |-> 0, periodic |-> FALSE]

Signed(difference) ==
    LET d == difference % Times IN IF 2 * d < Times THEN d ELSE d - Times

\* TIMER_CB_getRemain.
Remain(t) == timer[t].remain

ClockInit ==
    /\ clkHandle = [c \in Alarms |-> NoTimer] /\ job = [s \in Setters |-> Idle]
    /\ made = {} /\ activeList = <<>> /\ inService = NoTimer
    /\ timer = [t \in Timers |-> Nothing]
    /\ semaphore = 1 /\ service = [at |-> "look", timer |-> NoTimer] /\ sleep = 0
    /\ fault = FALSE /\ overlapped = FALSE /\ late = FALSE

-----------------------------------------------------------------------------
(* Setting a clock: Csf_setJoinPermitClock, Csf_setConfigClock and the     *)
(* others.                                                                 *)

Go(s, from, to) == job[s].at = from /\ job' = [job EXCEPT ![s].at = to]

\* The call, and timer_cb_h2tmr: without the lock, the memory that the handle leads to
\* is checked to be a timer.  Bound: no clock is set any more after an overlap.
SetClock(s, c, d, p) ==
    /\ job[s].at = "idle" /\ semaphore < MaxPuts /\ ~overlapped
    /\ job' = [job EXCEPT ![s] = [at |-> IF clkHandle[c] \in made THEN "unlink" ELSE "clear",
                                  clock |-> c, old |-> clkHandle[c], new |-> NoTimer,
                                  delay |-> d, periodic |-> p]]
    /\ overlapped' = (overlapped \/ \E r \in Setters : job[r].clock = c)
    /\ UNCHANGED <<clkHandle, memory, semaphore, thread, fault, late>>

\* What is left of the list when t, if it is there, is taken out.
Without(list, t) ==
    IF t \in ToSet(list) THEN RemoveAt(list, CHOOSE i \in DOMAIN list : list[i] = t) ELSE list

\* TIMER_CB_destroy under the lock.
Unlink(s) ==
    LET t == job[s].old IN
    /\ Go(s, "unlink", "clear")
    /\ inService' = IF inService = t THEN NoTimer ELSE inService
    /\ late' = (late \/ service = [at |-> "call", timer |-> t])
    /\ activeList' = Without(activeList, t)
    /\ UNCHANGED <<clkHandle, made, timer, semaphore, thread, fault, overlapped>>

\* The memory is freed, whosever it is by now: another thread may have freed it, and
\* made it a timer again.
Free(t) ==
    IF t = NoTimer
    THEN UNCHANGED <<made, timer, fault>>
    ELSE /\ made' = made \ {t} /\ timer' = [timer EXCEPT ![t] = Nothing]
         /\ fault' = (t \notin made \/ t \in ToSet(activeList) \cup {inService})

\* MUTANT: the handle stays when the clock is stopped.
ClearNot(s) ==
    /\ Go(s, "clear", IF job[s].delay = 0 THEN "keep" ELSE "create")
    /\ Free(job[s].old)
    /\ UNCHANGED <<clkHandle, activeList, inService, semaphore, thread, past>>

\* The rest of TIMER_CB_destroy, and the handle is cleared.
Clear(s) ==
    /\ job[s].at = "clear"
    /\ job' = [job EXCEPT ![s] = IF @.delay = 0 THEN Idle ELSE [@ EXCEPT !.at = "create"]]
    /\ Free(job[s].old)
    /\ clkHandle' = [clkHandle EXCEPT ![job[s].clock] = NoTimer]
    /\ UNCHANGED <<activeList, inService, semaphore, thread, past>>

\* MUTANT: the list is in the order of creation.
AtEnd(list, clock, t) == Append(list, t)

\* _timer_insert: before the first one that does not expire earlier.
InOrder(list, clock, t) ==
    LET later(u) == Signed(clock[t].remain - clock[u].remain) <= 0
        before == {i \in 0 .. Len(list) : \A j \in 1 .. i : ~later(list[j])}
        i == CHOOSE i \in before : \A j \in before : j <= i
    IN  InsertAt(list, i + 1, t)

Scheduled(t, period, periodic) ==
    [timer EXCEPT ![t] = [remain |-> Signed(period), period |-> period, periodic |-> periodic]]

\* TIMER_CB_create: memory, which may be that of a timer destroyed before, and a
\* place in the list.
Create(s) ==
    \E t \in Timers \ made :
        /\ job[s].at = "create" /\ job' = [job EXCEPT ![s].at = "keep", ![s].new = t]
        /\ made' = made \cup {t}
        /\ timer' = Scheduled(t, job[s].delay, job[s].periodic)
        /\ activeList' = InOrder(activeList, timer', t)
        /\ UNCHANGED <<clkHandle, inService, semaphore, thread, fault, past>>

\* The timer thread is woken, and the handle is stored.
Keep(s) ==
    /\ job[s].at = "keep" /\ job' = [job EXCEPT ![s] = Idle]
    /\ clkHandle' = [clkHandle EXCEPT ![job[s].clock] = job[s].new]
    /\ semaphore' = semaphore + 1
    /\ UNCHANGED <<memory, thread, fault, past>>

-----------------------------------------------------------------------------
(* The timer thread.                                                       *)

\* Under the lock: the first timer is taken if it has expired, and otherwise
\* determines how long to sleep.
Sleep(time) ==
    /\ sleep' = time /\ service' = [service EXCEPT !.at = "wait"]
    /\ UNCHANGED <<timer, activeList, inService>>

Take(t) ==
    /\ activeList' = Tail(activeList) /\ inService' = t
    /\ service' = [at |-> "call", timer |-> t]
    /\ timer' = [timer EXCEPT ![t].remain = 0]
    /\ UNCHANGED sleep

Look ==
    /\ service.at = "look"
    /\ \/ activeList = <<>> /\ Sleep(Minute)
       \/ /\ activeList # <<>>
          /\ \/ Remain(Head(activeList)) > 0 /\ Sleep(Remain(Head(activeList)))
             \/ Remain(Head(activeList)) <= 0 /\ Take(Head(activeList))
    /\ UNCHANGED <<clkHandle, job, made, semaphore, fault, past>>

\* SEMAPHORE_waitWithTimeout.
Wake ==
    /\ service.at = "wait" /\ (semaphore > 0 \/ sleep = 0)
    /\ semaphore' = IF semaphore > 0 THEN semaphore - 1 ELSE 0
    /\ service' = [service EXCEPT !.at = "look"] /\ sleep' = 0
    /\ UNCHANGED <<clkHandle, job, memory, fault, past>>

\* Without the lock, the callback is read from the timer and called.
Call ==
    /\ service.at = "call"
    /\ IF service.timer \in made
       THEN service' = [service EXCEPT !.at = "called"] /\ UNCHANGED fault
       ELSE fault' = TRUE /\ UNCHANGED service
    /\ UNCHANGED <<clkHandle, job, memory, semaphore, sleep, past>>

\* Under the lock again: a periodic timer that was not destroyed is scheduled anew.
Called ==
    /\ service.at = "called"
    /\ service' = [at |-> "look", timer |-> NoTimer] /\ inService' = NoTimer
    /\ IF inService # NoTimer /\ timer[inService].periodic
       THEN /\ timer' = Scheduled(inService, timer[inService].period, TRUE)
            /\ activeList' = InOrder(activeList, timer', inService)
       ELSE UNCHANGED <<timer, activeList>>
    /\ UNCHANGED <<clkHandle, job, made, semaphore, sleep, fault, past>>

Tick ==
    /\ \A t \in ToSet(activeList) : Remain(t) > -MaxLate
    /\ timer' = [t \in Timers |-> IF t \in ToSet(activeList)
                                   THEN [timer[t] EXCEPT !.remain = @ - 1] ELSE timer[t]]
    /\ sleep' = IF sleep > 0 THEN sleep - 1 ELSE 0
    /\ UNCHANGED <<clkHandle, job, made, activeList, inService, semaphore, service, fault,
                   past>>

-----------------------------------------------------------------------------
Setting(s) ==
    \/ Unlink(s) \/ Clear(s) \/ Create(s) \/ Keep(s)
    \/ \E c \in Alarms, setting \in Settings : SetClock(s, c, setting[1], setting[2])

TimerThread == Look \/ Wake \/ Call \/ Called

\* The program has died.
Dead == fault /\ UNCHANGED clockVars

ClockNext ==
    \/ ~fault /\ (TimerThread \/ Tick \/ \E s \in Setters : Setting(s))
    \/ Dead

ClockSpec == ClockInit /\ [][ClockNext]_clockVars

-----------------------------------------------------------------------------
(* While the timer thread sleeps, it does so no longer than until the      *)
(* first timer to expire, or is about to be woken: whatever is created and *)
(* destroyed meanwhile, in whatever order, and across the roll-over of the *)
(* time.                                                                   *)
SleepsInTime ==
    (/\ service.at = "wait" /\ semaphore = 0 /\ ~fault
     /\ \A s \in Setters : job[s].at # "keep") =>
        \A t \in ToSet(activeList) : sleep <= Remain(t) \/ sleep = 0

(* As long as no two threads set one clock at once, every timer that there *)
(* is has its handle in one clock, or is being made or destroyed, and a    *)
(* clock's handle leads to a timer of its own.  Memory is misused only if  *)
(* a timer was destroyed after it had been taken from the list and before  *)
(* its callback was called.                                                *)
ClockIsKept ==
    ~overlapped =>
        /\ \A t \in made : \/ \E c \in Alarms : clkHandle[c] = t
                           \/ \E s \in Setters : t \in {job[s].old, job[s].new}
        /\ \A c, d \in Alarms : clkHandle[c] # NoTimer =>
               clkHandle[c] \in made /\ (c # d => clkHandle[c] # clkHandle[d])
        /\ fault => late
=============================================================================
