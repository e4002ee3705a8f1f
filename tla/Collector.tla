----------------------------- MODULE Collector -----------------------------
(***************************************************************************)
(* The collector application: its main loop (Collector_process), the       *)
(* tracking and configuration of the associated devices, and what the MAC  *)
(* callbacks, the timer thread and the web clients' threads do to the same *)
(* state.  One action per handler.                                         *)
(*                                                                         *)
(* The association table (Cllc_associatedDevList) is the pair assoc,       *)
(* status; the device list in non-volatile memory is nv, a function from   *)
(* record index to short address.  The radio and the devices are the       *)
(* environment: tx holds the frames the co-processor has accepted and not  *)
(* yet confirmed, asked the requests delivered to devices and not yet      *)
(* answered.                                                               *)
(***************************************************************************)
EXTENDS Naturals, FiniteSets

CONSTANTS
    MaxDevices,   \* CONFIG_MAX_DEVICES: slots of the association table
    MaxAddr,      \* bound: highest short address handed out
    HandleMax,    \* MSDU_HANDLE_MAX: largest message counter, 2^k - 1
    TxCapacity,   \* frames the co-processor holds before it overflows
    SendFaults,   \* how a data request may fail: {"refused", "unanswered"}
    AppKinds,     \* requests web clients send: subset of {"config", "toggle"}
    Departures,   \* do devices leave, re-associate or become orphans?
    MaxResets     \* bound: resets of the co-processor

ASSUME ConstantsAssumption ==
    /\ MaxDevices \in Nat \ {0}
    /\ MaxAddr \in Nat /\ MaxAddr >= MaxDevices
    /\ HandleMax \in Nat
    /\ TxCapacity \in Nat
    /\ SendFaults \subseteq {"refused", "unanswered"}
    /\ AppKinds \subseteq {"config", "toggle"}
    /\ Departures \in BOOLEAN
    /\ MaxResets \in Nat

NoAddr == 0                      \* CSF_INVALID_SHORT_ADDR
Addr == 1..MaxAddr
Slot == 1..MaxDevices

TrackingFlags == {"TRACKING_SENT", "TRACKING_RSP",
                  "TRACKING_RETRY", "TRACKING_ERROR"}
ConfigFlags == {"CONFIG_SENT", "CONFIG_RSP"}
Flag == {"ALIVE"} \cup ConfigFlags \cup TrackingFlags

Request == {"config", "tracking", "toggle"}
Msg == [type : Request, dst : Addr, counter : 0..HandleMax]

Pc == {"start", "tracking", "trackingClear", "config", "configClear",
       "cllc", "incoming"}

VARIABLES
    assoc,       \* short address in each slot of the association table
    status,      \* status bits of each slot: all set while it is free
    numDev,      \* Cllc_numOfDevices
    nv,          \* device list records, by NV index
    cllcState,   \* the Cllc state as the application sees it
    events,      \* Collector_events
    timers,      \* the application clocks that are running
    pc,          \* where the main loop is in Collector_process
    msduHandle,  \* deviceTxMsduHandle
    tx,          \* frames accepted by the co-processor, not yet confirmed
    asked,       \* requests delivered to a device, not yet answered
    dropped,     \* history: the last tracking request could not be sent
    resets,      \* resets of the co-processor so far
    renewed      \* the clock of the event that is served was set since, and has
                 \* still all its time to run when the event is cleared

table == <<assoc, status, numDev>>
radio == <<msduHandle, tx>>
vars == <<assoc, status, numDev, nv, cllcState, events, timers, pc,
          msduHandle, tx, asked, dropped, resets, renewed>>

-----------------------------------------------------------------------------
(* The association table and the device list.                              *)

IsFirst(s, S) == s \in S /\ \A t \in S : s <= t

Valid(s) == assoc[s] # NoAddr
Alive(s) == Valid(s) /\ "ALIVE" \in status[s]
SlotsOf(a) == {s \in Slot : assoc[s] = a}
FreeSlots == SlotsOf(NoAddr)

Records == {r \in Slot : nv[r] # NoAddr}
Known(a) == \E r \in Records : nv[r] = a

(* A status word with the flags of F cleared or set.                       *)
Clear(st, s, F) == [st EXCEPT ![s] = @ \ F]
Set(st, s, F) == [st EXCEPT ![s] = @ \cup F]

(* The first slot whose flags within mask are exactly F.                   *)
FindStatus(s, mask, F) ==
    IsFirst(s, {t \in Slot : Valid(t) /\ status[t] \cap mask = F})

-----------------------------------------------------------------------------
(* Sending.  Bit 6 of a handle marks a configuration request.  A confirm   *)
(* whose bit 5 is set is taken for a broadcast's, although bit 5 is also   *)
(* the top bit of the message counter.                                     *)

MarkedConfig(m) == m.type = "config"
MarkedBroadcast(m) == 2 * m.counter > HandleMax

NextHandle == IF msduHandle >= HandleMax THEN 0 ELSE msduHandle + 1

(* sendMsg returned true exactly when the outcome is "queued"; a request   *)
(* whose reply from the co-processor is lost has been queued all the same. *)
Outcomes == IF Cardinality(tx) < TxCapacity
            THEN {"queued"} \cup SendFaults
            ELSE {"refused"}

SendMsg(type, dst, outcome) ==
    /\ msduHandle' = NextHandle
    /\ tx' = IF outcome = "refused" THEN tx
             ELSE tx \cup {[type |-> type, dst |-> dst,
                            counter |-> msduHandle]}

(* The clocks that run once one is set, which starts it anew if it runs,   *)
(* given those before.                                                     *)
Csf_setConfigClock(running) == running \cup {"CONFIG"}
Csf_setTrackingClock(running) == running \cup {"TRACKING"}

Csf_isConfigTimerActive(running) == "CONFIG" \in running
Csf_isTrackingTimerActive(running) == "TRACKING" \in running

(* processConfigRetry: the clocks that run after it, given those before.   *)
ConfigRetry(running) ==
    IF "CONFIG" \notin events /\ ~Csf_isConfigTimerActive(running)
    THEN Csf_setConfigClock(running)
    ELSE running

(* processDataRetry for address a, with status bits st.                    *)
NoTrackingSent(st) ==
    ~ \E t \in Slot : Valid(t) /\ st[t] \cap TrackingFlags = {"TRACKING_SENT"}

DataRetryTimers(st, s) ==
    LET running == IF st[s] \cap ConfigFlags = {} THEN ConfigRetry(timers) ELSE timers
    IN  IF /\ st[s] \cap {"TRACKING_SENT", "TRACKING_RETRY"} = {}
           /\ "TRACKING" \notin events /\ ~Csf_isTrackingTimerActive(running)
           /\ NoTrackingSent(st)
        THEN Csf_setTrackingClock(running)
        ELSE running

DataRetry(a, st) ==
    IF SlotsOf(a) = {}
    THEN status' = st /\ timers' = timers
    ELSE \E s \in Slot :
           /\ IsFirst(s, SlotsOf(a))
           /\ status' = Set(st, s, {"ALIVE"})
           /\ timers' = DataRetryTimers(st, s)

(* Mutant: no clock is started for the answer.                             *)
SendTrackingUntimed(s, st) ==
    \E outcome \in Outcomes :
        /\ SendMsg("tracking", assoc[s], outcome)
        /\ IF outcome = "queued"
           THEN status' = Set(st, s, {"TRACKING_SENT"}) /\ timers' = timers
           ELSE DataRetry(assoc[s], st)
        /\ dropped' = (outcome # "queued") /\ renewed' = FALSE

(* sendTrackingRequest to slot s, with status bits st.                     *)
SendTracking(s, st) ==
    \E outcome \in Outcomes :
        /\ SendMsg("tracking", assoc[s], outcome)
        /\ IF outcome = "queued"
           THEN /\ status' = Set(st, s, {"TRACKING_SENT"})
                /\ timers' = Csf_setTrackingClock(timers)
           ELSE DataRetry(assoc[s], st)
        /\ dropped' = (outcome # "queued") /\ renewed' = (outcome = "queued")

-----------------------------------------------------------------------------
(* The main loop, Collector_process.  A point of the loop with nothing to  *)
(* do is passed within the step that leads to it: an event that the timer  *)
(* thread sets while the loop passes by waits for the next round.          *)

FromCllc(cs) == IF cs = "confirmed" THEN "cllc" ELSE "incoming"
FromConfig(ev, cs) == IF "CONFIG" \in ev THEN "config" ELSE FromCllc(cs)
FromTracking(ev, cs) == IF "TRACKING" \in ev THEN "tracking"
                        ELSE FromConfig(ev, cs)
FromStart(ev, cs) == IF "START" \in ev THEN "start" ELSE FromTracking(ev, cs)

Init ==
    /\ assoc = [s \in Slot |-> NoAddr]
    /\ status = [s \in Slot |-> Flag]
    /\ numDev = 0
    /\ \E k \in 0..MaxDevices :
          nv = [r \in Slot |-> IF r <= k THEN r ELSE NoAddr]
    /\ cllcState = "initWaiting"
    /\ events = {"START"}
    /\ timers = {}
    /\ pc = "start"
    /\ msduHandle = 0
    /\ tx = {}
    /\ asked = {}
    /\ dropped = FALSE
    /\ resets = 0
    /\ renewed = FALSE

(* Cllc_restoreNetwork inserts the records, in index order, into the free  *)
(* slots, in slot order, until either runs out.  It does not look whether  *)
(* a device already has a slot.                                            *)
Rank(x, S) == Cardinality({y \in S : y < x})
Restores(s, r) == Rank(s, FreeSlots) = Rank(r, Records)
Restored == {s \in FreeSlots : \E r \in Records : Restores(s, r)}

RestoreNetwork ==
    /\ assoc' = [s \in Slot |->
                   IF s \in Restored
                   THEN nv[CHOOSE r \in Records : Restores(s, r)]
                   ELSE assoc[s]]
    /\ status' = [s \in Slot |-> IF s \in Restored THEN {} ELSE status[s]]
    /\ numDev' = numDev + Cardinality(Restored)
    /\ cllcState' = "starting"

StartEvent ==
    /\ pc = "start"
    /\ events' = events \ {"START"}
    /\ IF cllcState = "initWaiting"
       THEN RestoreNetwork
       ELSE UNCHANGED <<assoc, status, numDev, cllcState>>
    /\ pc' = FromTracking(events', cllcState')
    /\ UNCHANGED <<nv, timers, radio, asked, dropped, resets, renewed>>

(* generateTrackingRequests looks for the device that is being tracked.    *)
Tracked == {s \in Slot : Alive(s) /\ status[s] \cap TrackingFlags # {}}

RetryTracking(s) ==
    /\ "TRACKING_RETRY" \in status[s]
    /\ SendTracking(s, status)

(* The status bits once the round of slot s is closed: a device that did   *)
(* not answer is no longer alive.                                          *)
RoundClosed(s) ==
    Clear(status, s,
          IF status[s] \cap {"TRACKING_SENT", "TRACKING_ERROR"} # {}
          THEN {"ALIVE", "TRACKING_SENT", "TRACKING_RSP", "TRACKING_ERROR"}
               \cup ConfigFlags
          ELSE {"TRACKING_RSP"})

(* Distance from slot s, going round the table.                            *)
Ahead(s, t) == IF t >= s THEN t - s ELSE MaxDevices + t - s

(* The search for the next device starts at slot s itself.                 *)
NextTracked(s, st, t) ==
    LET candidates == {u \in Slot : Valid(u) /\ "ALIVE" \in st[u]}
    IN  t \in candidates /\ \A u \in candidates : Ahead(s, t) <= Ahead(s, u)

CloseRound(s) ==
    /\ "TRACKING_RETRY" \notin status[s]
    /\ \/ \E t \in Slot : /\ NextTracked(s, RoundClosed(s), t)
                          /\ SendTracking(t, RoundClosed(s))
       \/ /\ \A t \in Slot : ~NextTracked(s, RoundClosed(s), t)
          /\ status' = RoundClosed(s)
          /\ UNCHANGED <<timers, radio, dropped, renewed>>

BeginTracking ==
    /\ Tracked = {}
    /\ \/ \E s \in Slot : /\ IsFirst(s, {t \in Slot : Alive(t)})
                          /\ SendTracking(s, status)
       \/ /\ \A s \in Slot : ~Alive(s)
          /\ timers' = Csf_setTrackingClock(timers) /\ renewed' = TRUE
          /\ UNCHANGED <<status, radio, dropped>>

TrackingEvent ==
    /\ pc = "tracking"
    /\ pc' = "trackingClear"
    /\ \/ \E s \in Slot : /\ IsFirst(s, Tracked)
                          /\ RetryTracking(s) \/ CloseRound(s)
       \/ BeginTracking
    /\ UNCHANGED <<assoc, numDev, nv, cllcState, events, asked, resets>>

ClearTracking ==
    /\ pc = "trackingClear"
    /\ events' = events \ {"TRACKING"} /\ renewed' = FALSE
    /\ pc' = FromConfig(events', cllcState)
    /\ UNCHANGED <<table, nv, cllcState, timers, radio, asked, dropped, resets>>

(* generateConfigRequests first forgets the requests whose answer is       *)
(* overdue, then sends to the first device in need, unless a request is    *)
(* still waiting for its confirm.                                          *)
OverdueForgotten ==
    [s \in Slot |-> IF Alive(s) /\ ConfigFlags \subseteq status[s]
                    THEN status[s] \ ConfigFlags ELSE status[s]]

(* Mutant: a request on its way does not hold the next one back.           *)
NeverPending(st) == FALSE

(* Mutant: a device that has answered holds the others back, too.          *)
AnsweredPending(st) == \E s \in Slot : Valid(s) /\ st[s] \cap ConfigFlags # {}

ConfigPending(st) ==
    \E s \in Slot : Valid(s) /\ st[s] \cap ConfigFlags = {"CONFIG_SENT"}

InNeed(st) == {s \in Slot : Alive(s) /\ st[s] \cap ConfigFlags = {}}

CanRequest(a) == cllcState = "started" /\ Known(a)

GenerateConfig ==
    LET st == OverdueForgotten IN
    \/ /\ ConfigPending(st) \/ InNeed(st) = {}
       /\ status' = st
       /\ UNCHANGED <<timers, radio, renewed>>
    \/ /\ ~ConfigPending(st)
       /\ \E s \in Slot :
            /\ IsFirst(s, InNeed(st))
            /\ \/ /\ ~CanRequest(assoc[s])
                  /\ status' = st
                  /\ UNCHANGED <<timers, radio, renewed>>
               \/ /\ CanRequest(assoc[s])
                  /\ \E outcome \in Outcomes :
                       /\ SendMsg("config", assoc[s], outcome)
                       /\ renewed' = (outcome = "queued")
                       /\ IF outcome = "queued"
                          THEN /\ status' = Set(st, s, {"CONFIG_SENT"})
                               /\ timers' = Csf_setConfigClock(timers)
                          ELSE /\ status' = st
                               /\ timers' = ConfigRetry(timers)

ConfigEvent ==
    /\ pc = "config"
    /\ pc' = "configClear"
    /\ GenerateConfig
    /\ UNCHANGED <<assoc, numDev, nv, cllcState, events, asked, dropped, resets>>

ClearConfig ==
    /\ pc = "configClear"
    /\ pc' = FromCllc(cllcState)
    /\ events' = events \ {"CONFIG"} /\ renewed' = FALSE
    /\ UNCHANGED <<table, nv, cllcState, timers, radio, asked, dropped, resets>>

(* Cllc_process: a confirmed start is reported, cllcStartedCB runs.        *)
CllcProcess ==
    /\ pc = "cllc"
    /\ pc' = "incoming"
    /\ cllcState' = "started"
    /\ timers' = Csf_setTrackingClock(timers)
    /\ UNCHANGED <<table, nv, events, radio, asked, dropped, resets, renewed>>

(* Events are left: ApiMac messages have to wait.                          *)
Loop ==
    /\ pc = "incoming"
    /\ events # {}
    /\ pc' = FromStart(events, cllcState)
    /\ UNCHANGED <<table, nv, cllcState, events, timers, radio, asked,
                   dropped, resets, renewed>>

(* Csf_processEvents: the operator's key removes a device.                 *)
FreeFirstSlot(a) ==
    IF SlotsOf(a) = {}
    THEN UNCHANGED <<assoc, status>>
    ELSE \E s \in Slot : /\ IsFirst(s, SlotsOf(a))
                         /\ assoc' = [assoc EXCEPT ![s] = NoAddr]
                         /\ status' = [status EXCEPT ![s] = Flag]

DeleteRecord(a) == nv' = [r \in Slot |-> IF nv[r] = a THEN NoAddr ELSE nv[r]]

RemoveDevice(a) ==
    /\ Departures
    /\ pc = "incoming"
    /\ Known(a)
    /\ FreeFirstSlot(a)
    /\ DeleteRecord(a)
    /\ UNCHANGED <<numDev, cllcState, events, timers, pc, radio, asked,
                   dropped, resets, renewed>>

-----------------------------------------------------------------------------
(* ApiMac_processIncoming hands one message to its callback, when no event *)
(* is set, and the loop starts over.                                       *)

Receive == pc = "incoming" /\ events = {}
NextRound == pc' = FromStart(events', cllcState')

StartCnf ==
    /\ Receive
    /\ cllcState = "starting"
    /\ cllcState' = "confirmed"
    /\ UNCHANGED <<table, nv, events, timers, radio, asked, dropped, resets, renewed>>
    /\ NextRound

(* assocIndCb for a device that is not in the device list.                 *)
Join ==
    /\ Receive
    /\ cllcState = "started"
    /\ numDev + 1 <= MaxAddr
    /\ Cardinality(Records) < MaxDevices
    /\ \E s \in Slot :
          /\ IsFirst(s, FreeSlots)
          /\ nv' = [nv EXCEPT ![s] = numDev + 1]
          /\ assoc' = [assoc EXCEPT ![s] = numDev + 1]
          /\ status' = [status EXCEPT ![s] = {}]
    /\ numDev' = numDev + 1
    /\ events' = events \cup {"CONFIG"}
    /\ UNCHANGED <<cllcState, timers, radio, asked, dropped, resets, renewed>>
    /\ NextRound

(* assocIndCb for a device that is in the list: it keeps its slot.         *)
Rejoin(a) ==
    /\ Departures
    /\ Receive
    /\ cllcState = "started"
    /\ Known(a)
    /\ events' = events \cup {"CONFIG"}
    /\ UNCHANGED <<table, nv, cllcState, timers, radio, asked, dropped, resets, renewed>>
    /\ NextRound

(* Mutant: an orphan is not alive, but its round goes on.                  *)
ResetMembership(a) ==
    /\ Departures
    /\ Receive
    /\ \E s \in Slot : /\ IsFirst(s, SlotsOf(a))
                       /\ status' = Clear(status, s, {"ALIVE"} \cup ConfigFlags)
    /\ UNCHANGED <<assoc, numDev, nv, cllcState, events, timers, radio, asked,
                   dropped, resets, renewed>>
    /\ NextRound

(* orphanIndCb for a known device, and commStatusIndCB for an association  *)
(* response that was not delivered: the status word is reset.              *)
ResetStatus(a) ==
    /\ Departures
    /\ Receive
    /\ \E s \in Slot : /\ IsFirst(s, SlotsOf(a))
                       /\ status' = [status EXCEPT ![s] = {}]
    /\ UNCHANGED <<assoc, numDev, nv, cllcState, events, timers, radio, asked,
                   dropped, resets, renewed>>
    /\ NextRound

(* disassocIndCb.                                                          *)
Leave(a) ==
    /\ Departures
    /\ Receive
    /\ Known(a)
    /\ SlotsOf(a) # {}
    /\ FreeFirstSlot(a)
    /\ DeleteRecord(a)
    /\ UNCHANGED <<numDev, cllcState, events, timers, radio, asked, dropped,
                   resets, renewed>>
    /\ NextRound

(* pollIndCB; and sensor data does the same.                               *)
Poll(a) ==
    /\ Receive
    /\ SlotsOf(a) # {}
    /\ DataRetry(a, status)
    /\ UNCHANGED <<assoc, numDev, nv, cllcState, events, radio, asked,
                   dropped, resets, renewed>>
    /\ NextRound

(* Mutant: a failed request remains marked as sent.                        *)
ConfigCnfStuck(success) ==
    \/ /\ \A s \in Slot : ~FindStatus(s, ConfigFlags, {"CONFIG_SENT"})
       /\ UNCHANGED <<status, timers>>
    \/ \E s \in Slot :
         /\ FindStatus(s, ConfigFlags, {"CONFIG_SENT"})
         /\ status' = IF success
                      THEN Set(status, s, {"CONFIG_RSP", "ALIVE"})
                      ELSE status
         /\ timers' = Csf_setConfigClock(timers)

(* dataCnfCB for a configuration request.                                  *)
ConfigCnf(success) ==
    \/ /\ \A s \in Slot : ~FindStatus(s, ConfigFlags, {"CONFIG_SENT"})
       /\ UNCHANGED <<status, timers>>
    \/ \E s \in Slot :
         /\ FindStatus(s, ConfigFlags, {"CONFIG_SENT"})
         /\ status' = IF success
                      THEN Set(status, s, {"CONFIG_RSP", "ALIVE"})
                      ELSE Clear(status, s, {"CONFIG_SENT"})
         /\ timers' = Csf_setConfigClock(timers)

(* dataCnfCB for everything it does not take for something else.           *)
TrackingCnf(success) ==
    \/ /\ \A s \in Slot : ~FindStatus(s, {"TRACKING_SENT"}, {"TRACKING_SENT"})
       /\ UNCHANGED <<status, timers>>
    \/ \E s \in Slot :
         /\ FindStatus(s, {"TRACKING_SENT"}, {"TRACKING_SENT"})
         /\ IF success
            THEN /\ status' = Clear(status, s, {"TRACKING_RETRY"})
                 /\ timers' = timers
            ELSE /\ status' =
                      [status EXCEPT ![s] =
                         IF "TRACKING_RETRY" \in @
                         THEN (@ \ {"TRACKING_RETRY", "TRACKING_SENT"})
                              \cup {"TRACKING_ERROR"}
                         ELSE (@ \ {"TRACKING_SENT"}) \cup {"TRACKING_RETRY"}]
                 /\ timers' = Csf_setTrackingClock(timers)

(* The co-processor confirms frame m.  A frame whose acknowledgement is    *)
(* lost is delivered and yet confirmed as a failure.                       *)
DataCnf(m, success, delivered) ==
    /\ Receive
    /\ m \in tx
    /\ success => delivered
    /\ tx' = tx \ {m}
    /\ asked' = IF delivered /\ m.type # "toggle"
                THEN asked \cup {<<m.type, m.dst>>} ELSE asked
    /\ \/ MarkedConfig(m) /\ ConfigCnf(success)
       \/ ~MarkedConfig(m) /\ MarkedBroadcast(m) /\ UNCHANGED <<status, timers>>
       \/ ~MarkedConfig(m) /\ ~MarkedBroadcast(m) /\ TrackingCnf(success)
    /\ UNCHANGED <<assoc, numDev, nv, cllcState, events, msduHandle, dropped,
                   resets, renewed>>
    /\ NextRound

(* A configuration response.                                               *)
ConfigRsp(a) ==
    /\ Receive
    /\ <<"config", a>> \in asked
    /\ asked' = asked \ {<<"config", a>>}
    /\ IF SlotsOf(a) = {}
       THEN status' = status
       ELSE \E s \in Slot :
              /\ IsFirst(s, SlotsOf(a))
              /\ status' = [status EXCEPT ![s] =
                              (@ \ {"CONFIG_SENT"}) \cup {"CONFIG_RSP"}]
    /\ events' = events \cup {"CONFIG"}
    /\ UNCHANGED <<assoc, numDev, nv, cllcState, timers, radio, dropped, resets, renewed>>
    /\ NextRound

(* processTrackingResponse: only a device marked as SENT is heard.         *)
TrackingRsp(a) ==
    /\ Receive
    /\ <<"tracking", a>> \in asked
    /\ asked' = asked \ {<<"tracking", a>>}
    /\ \/ \E s \in Slot :
            /\ IsFirst(s, SlotsOf(a))
            /\ "TRACKING_SENT" \in status[s]
            /\ status' = [status EXCEPT ![s] =
                            (@ \ {"TRACKING_SENT"}) \cup {"TRACKING_RSP"}]
            /\ timers' = ConfigRetry(Csf_setTrackingClock(timers))
       \/ /\ \A s \in Slot :
               IsFirst(s, SlotsOf(a)) => "TRACKING_SENT" \notin status[s]
          /\ UNCHANGED <<status, timers>>
    /\ UNCHANGED <<assoc, numDev, nv, cllcState, events, radio, dropped, resets, renewed>>
    /\ NextRound

(* dataIndCB: of what devices send, these change the table, the events or  *)
(* the clocks.  The sender of a response need not be in the table.         *)
DataInd(a) == Poll(a) \/ ConfigRsp(a) \/ TrackingRsp(a)

(* resetIndCb: the co-processor restarted and forgot every frame.          *)
ResetInd ==
    /\ Receive
    /\ resets < MaxResets
    /\ resets' = resets + 1
    /\ tx' = {}
    /\ cllcState' = "initWaiting"
    /\ events' = events \cup {"START"}
    /\ UNCHANGED <<table, nv, timers, msduHandle, asked, dropped, renewed>>
    /\ NextRound

-----------------------------------------------------------------------------
(* Other threads.                                                          *)

(* A clock runs out and its callback sets the event.  The clocks run for   *)
(* seconds, so one a handler has just started is not over when the handler *)
(* returns to the loop and its event is cleared; an older one may be.      *)
TimerFires(t) ==
    /\ t \in timers
    /\ renewed => ~(t = "TRACKING" /\ pc = "trackingClear")
    /\ renewed => ~(t = "CONFIG" /\ pc = "configClear")
    /\ timers' = timers \ {t}
    /\ events' = events \cup {t}
    /\ UNCHANGED <<table, nv, cllcState, pc, radio, asked, dropped, resets, renewed>>

(* A web client's configuration request, on its connection's thread.       *)
AppConfig(a) ==
    /\ "config" \in AppKinds
    /\ CanRequest(a)
    /\ \E outcome \in Outcomes :
         /\ SendMsg("config", a, outcome)
         /\ timers' = IF outcome = "queued" THEN Csf_setConfigClock(timers)
                      ELSE ConfigRetry(timers)
         /\ renewed' = (renewed \/ (pc = "configClear" /\ outcome = "queued"))
    /\ UNCHANGED <<table, nv, cllcState, events, pc, asked, dropped, resets>>

(* A web client toggles a device's light.                                  *)
AppToggle(a) ==
    /\ "toggle" \in AppKinds
    /\ CanRequest(a)
    /\ \E outcome \in Outcomes : SendMsg("toggle", a, outcome)
    /\ UNCHANGED <<table, nv, cllcState, events, timers, pc, asked, dropped,
                   resets, renewed>>

-----------------------------------------------------------------------------
MainLoop ==
    \/ StartEvent \/ TrackingEvent \/ ClearTracking
    \/ ConfigEvent \/ ClearConfig
    \/ CllcProcess \/ Loop

Network(a) ==
    \/ Rejoin(a) \/ ResetStatus(a) \/ Leave(a) \/ RemoveDevice(a)
    \/ DataInd(a)

Application(a) == AppConfig(a) \/ AppToggle(a)

Next ==
    \/ MainLoop
    \/ StartCnf \/ Join \/ ResetInd
    \/ \E a \in Addr : Network(a) \/ Application(a)
    \/ \E m \in tx, success, delivered \in BOOLEAN :
          DataCnf(m, success, delivered)
    \/ \E t \in {"TRACKING", "CONFIG"} : TimerFires(t)

Spec == Init /\ [][Next]_vars

(* The main loop and the timer thread are scheduled, the co-processor      *)
(* confirms its start and, for each device, frames sent to it.  The loop   *)
(* passes by ApiMac_processIncoming for ever, but not always with its      *)
(* events clear: what it must receive is strongly fair.                    *)
MacFairness ==
    /\ WF_vars(MainLoop)
    /\ \A t \in {"TRACKING", "CONFIG"} : WF_vars(TimerFires(t))
    /\ SF_vars(StartCnf)
    /\ \A a \in Addr :
          SF_vars(\E m \in tx, success, delivered \in BOOLEAN :
                     m.dst = a /\ DataCnf(m, success, delivered))

Configured(s) == status[s] \cap ConfigFlags = {"CONFIG_RSP"}

(* The radio does not fail for ever to deliver configuration requests,     *)
(* answers to those delivered come now and then, and of the members that   *)
(* are not configured some poll now and then.                              *)
ConfigAnswered ==
    /\ SF_vars(\E m \in tx : m.type = "config" /\ DataCnf(m, TRUE, TRUE))
    /\ SF_vars(\E a \in Addr : ConfigRsp(a))
    /\ SF_vars(\E a \in Addr : (\E s \in SlotsOf(a) : ~Configured(s)) /\ Poll(a))

ConfigFairness ==
    WF_vars(MainLoop) /\ WF_vars(TimerFires("CONFIG")) /\ ConfigAnswered

(* The radio does not fail for ever to deliver tracking requests, and each *)
(* device polls and answers those it has received.                         *)
TrackingAnswered ==
    /\ SF_vars(\E m \in tx : m.type = "tracking" /\ DataCnf(m, TRUE, TRUE))
    /\ \A a \in Addr : SF_vars(TrackingRsp(a)) /\ SF_vars(Poll(a))

TrackingSpec == Spec /\ MacFairness /\ TrackingAnswered

-----------------------------------------------------------------------------
(* Properties.                                                             *)

TypeOK ==
    /\ assoc \in [Slot -> Addr \cup {NoAddr}]
    /\ status \in [Slot -> SUBSET Flag]
    /\ numDev \in Nat
    /\ nv \in [Slot -> Addr \cup {NoAddr}]
    /\ cllcState \in {"initWaiting", "starting", "confirmed", "started"}
    /\ events \subseteq {"START", "TRACKING", "CONFIG"}
    /\ timers \subseteq {"TRACKING", "CONFIG"}
    /\ pc \in Pc
    /\ msduHandle \in 0..HandleMax
    /\ tx \subseteq Msg
    /\ asked \subseteq {"config", "tracking"} \X Addr
    /\ dropped \in BOOLEAN
    /\ resets \in 0..MaxResets
    /\ renewed \in BOOLEAN

InTracking(s) == Valid(s) /\ status[s] \cap TrackingFlags # {}
ConfigSent(s) == Valid(s) /\ status[s] \cap ConfigFlags = {"CONFIG_SENT"}

(* A tracking wake-up is on its way: the clock runs, or its event is set   *)
(* and has still to be handled.                                            *)
TrackingDue ==
    \/ "TRACKING" \in timers
    \/ "TRACKING" \in events /\ pc # "trackingClear"

(* At most one device is being tracked, and it is a member that is thought *)
(* to be alive: generateTrackingRequests, dataCnfCB and                    *)
(* processTrackingResponse each work on "the" tracked device, whatever     *)
(* joins, leaves, confirms and resets came in between.                     *)
OneTracked ==
    /\ \A s, t \in Slot : InTracking(s) /\ InTracking(t) => s = t
    /\ \A s \in Slot : InTracking(s) => Alive(s)

(* A device that was asked, has answered or has failed is looked at again: *)
(* unless the last request could not be sent, its round is never left      *)
(* without a clock or an event that will close it.  sendTrackingRequest,   *)
(* dataCnfCB, processTrackingResponse and the clearing of the event in     *)
(* Collector_process, after the clock was set, share that duty.            *)
RoundIsTimed ==
    (\E s \in Slot : InTracking(s)) => TrackingDue \/ dropped

(* generateConfigRequests' own requests go out one at a time: no two       *)
(* devices wait for the confirm of a configuration request.                *)
OneConfigSent ==
    \A s, t \in Slot : ConfigSent(s) /\ ConfigSent(t) => s = t

(* The clock that will close the round was set by the handler whose event  *)
(* is about to be cleared.                                                 *)
RoundIsRenewed ==
    pc = "trackingClear" /\ (\E s \in Slot : InTracking(s)) => renewed \/ dropped

(* The inductive invariant.                                                *)
IInv == TypeOK /\ OneTracked /\ RoundIsTimed /\ RoundIsRenewed /\ OneConfigSent

(* Only a confirm moves the one-at-a-time gate of generateConfigRequests   *)
(* on, so while it is closed a configuration request must be in the hands  *)
(* of the co-processor, which will confirm it.  It fails after a reset.    *)
GateWillOpen ==
    (\E s \in Slot : ConfigSent(s)) => \E m \in tx : m.type = "config"

-----------------------------------------------------------------------------
(* Liveness.                                                               *)

(* The collector "tracks connected devices": a member that stays alive is  *)
(* sent a tracking request.                                                *)
MembersAreTracked ==
    \A s \in Slot : Alive(s) ~> ~Alive(s) \/ "TRACKING_SENT" \in status[s]

(* Once the network has started, and when requests are delivered and       *)
(* answered now and then, all members that stay end up configured: the     *)
(* gate that lets one request out at a time, lost acknowledgements,        *)
(* overdue answers, answers before their confirms, devices that have gone  *)
(* and events that are lost between serving and clearing only delay it.    *)
(* Since the search for the next begins at the first slot, devices may not *)
(* become alive again for ever (collector.c:1920).                         *)
ComesBack(s) == ~Alive(s) /\ Alive(s)'

MembersAreConfigured ==
    /\ <>[](cllcState = "started")
    /\ <>[][\A s \in Slot : ~ComesBack(s)]_vars
    => <>[](\A s \in Slot : Alive(s) => Configured(s))
=============================================================================
