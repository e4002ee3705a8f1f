------------------------------- MODULE MtMsg -------------------------------
(***************************************************************************)
(* One interface of the MT message layer: the synchronous requests that    *)
(* the threads of the program send with MT_MSG_txrx, the receive thread    *)
(* that attaches a response to the pending request or puts the message on  *)
(* the list of the main thread, and the main thread that empties the list. *)
(*                                                                         *)
(* pCurSreq is shared by the sender, which sets and clears it, and the     *)
(* receive thread, which reads it several times and clears it, with no     *)
(* lock: a second read may be a new one or the value of the first.         *)
(***************************************************************************)
EXTENDS Integers, Sequences, FiniteSets

CONSTANTS
    Senders,   \* threads that call MT_MSG_txrx
    Main,      \* the one of them that empties rx_list
    Sreqs,     \* commands that are answered
    Areqs,     \* commands that are not
    MaxReqs,   \* bound: requests sent
    MaxAreqs   \* bound: messages the co-processor sends of itself

ASSUME MtMsgAssumption ==
    /\ Main \in Senders
    /\ 0 \notin Senders
    /\ Sreqs \cap Areqs = {}
    /\ MaxReqs \in Nat
    /\ MaxAreqs \in Nat

Requests == 1..MaxReqs
None == 0          \* NULL, or nobody
Cmds == Sreqs \cup Areqs

VARIABLES
    pc,        \* where each sender is
    req,       \* the request it is about
    cmd,       \* the command of each request, in the order of the calls
    holder,    \* owner of tx_lock
    cur,       \* pCurSreq
    pSrsp,     \* for each request, the request its response answers
    sem,       \* srsp_semaphore
    rx,        \* the receive thread: its step, its message, what it has read
    list,      \* rx_list.pList
    listSem,   \* rx_list.sem
    toCop,     \* requests on their way to the co-processor
    fromCop,   \* messages on their way from it
    nAreqs,    \* messages the co-processor has sent of itself
    freed,     \* requests whose memory has been released
    expired,   \* history: requests that stopped waiting without an answer
    fault      \* NULL was followed, or freed memory written

senderVars == <<pc, req, cmd, holder>>
copVars == <<toCop, fromCop, nAreqs>>
listVars == <<list, listSem>>
vars == <<pc, req, cmd, holder, cur, pSrsp, sem, rx, list, listSem, toCop,
          fromCop, nAreqs, freed, expired, fault>>

Srsp(r) == [kind |-> "srsp", re |-> r]
Areq == [kind |-> "areq", re |-> None]
Messages == {Srsp(r) : r \in Requests} \cup {Areq}

SenderSteps == {"idle", "lock", "post", "tx", "wait", "clear", "check", "pop"}
RxSteps == {"read", "test", "match", "attach", "clear", "put", "insert",
            "count", "dead"}
RxIdle == [step |-> "read", msg |-> Areq, ptr |-> None]

MT_MSG_LIST_create == list = <<>> /\ listSem = 0

Init ==
    /\ pc = [s \in Senders |-> "idle"]
    /\ req = [s \in Senders |-> None]
    /\ cmd = <<>>
    /\ holder = None
    /\ cur = None
    /\ pSrsp = [r \in Requests |-> None]
    /\ sem = 0
    /\ rx = RxIdle
    /\ MT_MSG_LIST_create
    /\ toCop = <<>>
    /\ fromCop = <<>>
    /\ nAreqs = 0
    /\ freed = {}
    /\ expired = {}
    /\ fault = FALSE

Goto(s, step) == pc' = [pc EXCEPT ![s] = step]

-----------------------------------------------------------------------------
(* MT_MSG_txrx.                                                            *)

Call(s, c) ==
    /\ pc[s] = "idle"
    /\ Len(cmd) < MaxReqs
    /\ cmd' = Append(cmd, c)
    /\ req' = [req EXCEPT ![s] = Len(cmd) + 1]
    /\ Goto(s, "lock")
    /\ UNCHANGED <<holder, cur, pSrsp, sem, rx, listVars, copVars, freed,
                   expired, fault>>

(* The caller frees the request and, with it, the response.                *)
Return(s) ==
    /\ Goto(s, "idle")
    /\ req' = [req EXCEPT ![s] = None]
    /\ freed' = freed \cup {req[s]}

(* Mutant: the result of MUTEX_lock is not looked at.                      *)
LockAnyway(s) ==
    /\ pc[s] = "lock"
    /\ holder' = s
    /\ Goto(s, "post")
    /\ UNCHANGED <<req, cmd, cur, pSrsp, sem, rx, listVars, copVars, freed,
                   expired, fault>>

Lock(s) ==
    /\ pc[s] = "lock"
    /\ holder = None
    /\ holder' = s
    /\ Goto(s, "post")
    /\ UNCHANGED <<req, cmd, cur, pSrsp, sem, rx, listVars, copVars, freed,
                   expired, fault>>

(* tx_lock_timeout.                                                        *)
LockTimeout(s) ==
    /\ pc[s] = "lock"
    /\ holder # None
    /\ Return(s)
    /\ UNCHANGED <<cmd, holder, cur, pSrsp, sem, rx, listVars, copVars,
                   expired, fault>>

Post(s) ==
    /\ pc[s] = "post"
    /\ cur' = req[s]
    /\ Goto(s, "tx")
    /\ UNCHANGED <<req, cmd, holder, pSrsp, sem, rx, listVars, copVars, freed,
                   expired, fault>>

(* MT_MSG_tx writes the message, or fails, or never ends: a write has no   *)
(* timeout, and the blocks of a long message are sent again as long as     *)
(* none is acknowledged.  Nothing answers an AREQ.                         *)
Tx(s) ==
    /\ pc[s] = "tx"
    /\ \/ /\ toCop' = Append(toCop, req[s])
          /\ \/ /\ cmd[req[s]] \in Sreqs
                /\ cur' = cur
                /\ Goto(s, "wait")
             \/ /\ cmd[req[s]] \in Areqs
                /\ cur' = None
                /\ Goto(s, "check")
       \/ /\ toCop' = toCop
          /\ cur' = None
          /\ Goto(s, "check")
    /\ UNCHANGED <<req, cmd, holder, pSrsp, sem, rx, listVars, fromCop, nAreqs,
                   freed, expired, fault>>

Woken(s) ==
    /\ pc[s] = "wait"
    /\ sem > 0
    /\ sem' = sem - 1
    /\ Goto(s, "clear")
    /\ UNCHANGED <<req, cmd, holder, cur, pSrsp, rx, listVars, copVars, freed,
                   expired, fault>>

(* Mutant: nothing ends the wait for a response that was lost.            *)
TimedOutNever(s) == FALSE

(* srsp_timeout_mSecs.                                                     *)
TimedOut(s) ==
    /\ pc[s] = "wait"
    /\ sem = 0
    /\ Goto(s, "clear")
    /\ expired' = expired \cup {req[s]}
    /\ UNCHANGED <<req, cmd, holder, cur, pSrsp, sem, rx, listVars, copVars,
                   freed, fault>>

ClearCur(s) ==
    /\ pc[s] = "clear"
    /\ cur' = None
    /\ Goto(s, "check")
    /\ UNCHANGED <<req, cmd, holder, pSrsp, sem, rx, listVars, copVars, freed,
                   expired, fault>>

(* The result is 2 with a response, 1 or 0 without.                        *)
Check(s) ==
    /\ pc[s] = "check"
    /\ expired' = IF cmd[req[s]] \in Sreqs /\ pSrsp[req[s]] = None
                  THEN expired \cup {req[s]} ELSE expired
    /\ holder' = None
    /\ Return(s)
    /\ UNCHANGED <<cmd, cur, pSrsp, sem, rx, listVars, copVars, fault>>

-----------------------------------------------------------------------------
(* mt_msg_rx_thread.                                                       *)

RxMessage ==
    /\ rx.step = "read"
    /\ fromCop # <<>>
    /\ fromCop' = Tail(fromCop)
    /\ rx' = [rx EXCEPT !.msg = Head(fromCop),
                        !.step = IF Head(fromCop).kind = "srsp" THEN "test"
                                 ELSE "insert"]
    /\ UNCHANGED <<senderVars, cur, pSrsp, sem, listVars, toCop, nAreqs, freed,
                   expired, fault>>

(* is_dead, or an error of the stream.                                     *)
RxDies ==
    /\ rx.step = "read"
    /\ rx' = [rx EXCEPT !.step = "dead"]
    /\ UNCHANGED <<senderVars, cur, pSrsp, sem, listVars, copVars, freed,
                   expired, fault>>

RxTest ==
    /\ rx.step = "test"
    /\ rx' = [rx EXCEPT !.ptr = cur,
                        !.step = IF cur = None THEN "insert" ELSE "match"]
    /\ UNCHANGED <<senderVars, cur, pSrsp, sem, listVars, copVars, freed,
                   expired, fault>>

Crash == fault' = TRUE /\ rx' = [rx EXCEPT !.step = "dead"]

RxMatch ==
    /\ rx.step = "match"
    /\ \E p \in {rx.ptr, cur} :
          \/ /\ p = None
             /\ Crash
          \/ /\ p # None
             /\ fault' = fault
             /\ rx' = [rx EXCEPT !.ptr = p,
                                 !.step = IF cmd[p] = cmd[rx.msg.re]
                                          THEN "attach" ELSE "insert"]
    /\ UNCHANGED <<senderVars, cur, pSrsp, sem, listVars, copVars, freed,
                   expired>>

RxAttach ==
    /\ rx.step = "attach"
    /\ \E p \in {rx.ptr, cur} :
          \/ /\ p = None \/ p \in freed
             /\ Crash
             /\ pSrsp' = pSrsp
          \/ /\ p # None /\ p \notin freed
             /\ pSrsp' = [pSrsp EXCEPT ![p] = rx.msg.re]
             /\ rx' = [rx EXCEPT !.step = "clear"]
             /\ fault' = fault
    /\ UNCHANGED <<senderVars, cur, sem, listVars, copVars, freed, expired>>

RxClear ==
    /\ rx.step = "clear"
    /\ cur' = None
    /\ rx' = [rx EXCEPT !.step = "put"]
    /\ UNCHANGED <<senderVars, pSrsp, sem, listVars, copVars, freed, expired,
                   fault>>

RxPut ==
    /\ rx.step = "put"
    /\ sem' = sem + 1
    /\ rx' = RxIdle
    /\ UNCHANGED <<senderVars, cur, pSrsp, listVars, copVars, freed, expired,
                   fault>>

(* MT_MSG_LIST_insert: the list under its lock, the semaphore after it.    *)
RxInsert ==
    /\ rx.step = "insert"
    /\ list' = Append(list, rx.msg)
    /\ rx' = [rx EXCEPT !.step = "count"]
    /\ UNCHANGED <<senderVars, cur, pSrsp, sem, listSem, copVars, freed,
                   expired, fault>>

RxCount ==
    /\ rx.step = "count"
    /\ listSem' = listSem + 1
    /\ rx' = RxIdle
    /\ UNCHANGED <<senderVars, cur, pSrsp, sem, list, copVars, freed, expired,
                   fault>>

-----------------------------------------------------------------------------
(* ApiMac_processIncoming: MT_MSG_LIST_remove, and the message's handler.  *)

(* Mutant: all the messages of the list are taken for one count.           *)
ListWaitTwice ==
    /\ pc[Main] = "idle"
    /\ list # <<>> \/ listSem > 0
    /\ listSem' = 0
    /\ Goto(Main, "pop")
    /\ UNCHANGED <<req, cmd, holder, cur, pSrsp, sem, rx, list, copVars, freed,
                   expired, fault>>

ListWait ==
    /\ pc[Main] = "idle"
    /\ list # <<>> \/ listSem > 0
    /\ listSem' = IF listSem > 0 THEN listSem - 1 ELSE 0
    /\ Goto(Main, "pop")
    /\ UNCHANGED <<req, cmd, holder, cur, pSrsp, sem, rx, list, copVars, freed,
                   expired, fault>>

ListPop ==
    /\ pc[Main] = "pop"
    /\ list' = IF list = <<>> THEN list ELSE Tail(list)
    /\ Goto(Main, "idle")
    /\ UNCHANGED <<req, cmd, holder, cur, pSrsp, sem, rx, listSem, copVars,
                   freed, expired, fault>>

-----------------------------------------------------------------------------
(* The co-processor: it answers each SREQ in turn, or the request or its   *)
(* answer is lost, and sends messages of its own.                          *)

CopAnswer ==
    /\ toCop # <<>>
    /\ toCop' = Tail(toCop)
    /\ \/ /\ cmd[Head(toCop)] \in Sreqs
          /\ fromCop' = Append(fromCop, Srsp(Head(toCop)))
       \/ fromCop' = fromCop
    /\ UNCHANGED <<senderVars, cur, pSrsp, sem, rx, listVars, nAreqs, freed,
                   expired, fault>>

CopAreq ==
    /\ nAreqs < MaxAreqs
    /\ nAreqs' = nAreqs + 1
    /\ fromCop' = Append(fromCop, Areq)
    /\ UNCHANGED <<senderVars, cur, pSrsp, sem, rx, listVars, toCop, freed,
                   expired, fault>>

-----------------------------------------------------------------------------
SenderStep(s) ==
    \/ Lock(s) \/ LockTimeout(s) \/ Post(s) \/ Tx(s)
    \/ Woken(s) \/ TimedOut(s) \/ ClearCur(s) \/ Check(s)

RxStep ==
    \/ RxMessage \/ RxTest \/ RxMatch \/ RxAttach \/ RxClear \/ RxPut
    \/ RxInsert \/ RxCount

Next ==
    /\ ~fault
    /\ \/ \E s \in Senders : SenderStep(s) \/ \E c \in Cmds : Call(s, c)
       \/ RxStep \/ RxDies
       \/ ListWait \/ ListPop
       \/ CopAnswer \/ CopAreq

Spec == Init /\ [][Next]_vars

(* The threads run; the waits have timeouts, a transmission has none.      *)
Fairness ==
    /\ \A s \in Senders : WF_vars(~fault /\ pc[s] # "tx" /\ SenderStep(s))
    /\ WF_vars(~fault /\ RxStep)
    /\ WF_vars(~fault /\ (ListWait \/ ListPop))

FairSpec == Spec /\ Fairness

-----------------------------------------------------------------------------
TypeOK ==
    /\ pc \in [Senders -> SenderSteps]
    /\ req \in [Senders -> Requests \cup {None}]
    /\ cmd \in Seq(Cmds) /\ Len(cmd) <= MaxReqs
    /\ holder \in Senders \cup {None}
    /\ cur \in Requests \cup {None}
    /\ pSrsp \in [Requests -> Requests \cup {None}]
    /\ sem \in 0..MaxReqs
    /\ rx \in [step : RxSteps, msg : Messages, ptr : Requests \cup {None}]
    /\ list \in Seq(Messages)
    /\ listSem \in Nat
    /\ toCop \in Seq(Requests)
    /\ fromCop \in Seq(Messages)
    /\ nAreqs \in 0..MaxAreqs
    /\ freed \subseteq Requests
    /\ expired \subseteq Requests
    /\ fault \in BOOLEAN

(* The check of MT_MSG_txrx, whose failure is fatal: whoever gets the lock *)
(* finds no pending request, in spite of the two threads that clear        *)
(* pCurSreq and of requests that failed or were given up.                  *)
NoneIsPending ==
    \A s \in Senders : pc[s] = "post" => cur = None

(* A request may get the answer of another one, but of one that has        *)
(* stopped waiting: whatever the timing, no answer is taken from a thread  *)
(* that still waits for it.                                                *)
AnswersAreNotStolen ==
    \A r \in Requests :
        pSrsp[r] \notin {None, r} =>
            \A s \in Senders : req[s] = pSrsp[r] => pc[s] # "wait"

(* As long as no wait has ended without its answer, every request has its  *)
(* own answer, and the receive thread neither follows NULL nor writes to a *)
(* request that was freed.                                                 *)
ErrorsNeedTimeouts ==
    expired = {} => ~fault /\ \A r \in Requests : pSrsp[r] \in {None, r}

(* No message stays on the list with the main thread asleep: every one is  *)
(* counted, about to be counted, or about to be taken.                     *)
NothingIsStranded ==
    Len(list) <= listSem + (IF rx.step = "count" THEN 1 ELSE 0)
                         + (IF pc[Main] = "pop" THEN 1 ELSE 0)

(* MT_MSG_txrx returns, also if the interface dies or another thread never *)
(* gives the lock back, unless the program crashes or the caller's own     *)
(* transmission never ends (mt_msg.c:1306).                                *)
CallsReturn ==
    \A s \in Senders :
        \/ pc[s] = "lock" ~> (pc[s] = "idle" \/ fault)
        \/ <>[](pc[s] = "tx")

=============================================================================
