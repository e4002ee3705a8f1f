-------------------------------- MODULE Cllc --------------------------------
(***************************************************************************)
(* How the logical link controller (cllc.c) starts a network, restores one *)
(* and permits devices to join it.                                         *)
(*                                                                         *)
(* The collector's thread goes round a loop: the start event, the events   *)
(* of the link controller, the operator's keys, one message from the       *)
(* co-processor.  A web client's thread sets the join permit between any   *)
(* two steps of the loop and the clock of the permit ends at any time.     *)
(* The co-processor scans, starts and resets on its own; what it reports   *)
(* waits in order until the loop takes it.                                 *)
(***************************************************************************)
EXTENDS Naturals, Sequences, SequencesExt, FiniteSets

CONSTANTS
  Channels,     \* chanMask: the channels that may be used
  MaxPan,       \* CLLC_INVALID_PAN, the largest PAN id
  FirstPan,     \* CONFIG_PAN_ID
  Neighbours,   \* <<channel, PAN id>> of the networks that answer a scan
  Energies,     \* what an energy scan may measure
  MaxEnergy,    \* CLLC_MAX_ENERGY
  Clients,      \* the threads of the web clients
  Durations,    \* what a client asks for: "off", "while" or "on"
  Keys,         \* what the operator's key does: "off" or "on"
  NoNet,
  MaxPermits, MaxFaults, MaxResets   \* bounds

Nets == (Channels \cup {0}) \X (0 .. MaxPan)

\* A PAN id is free and a channel is not too noisy: findChannel and findBestChannel
\* find the PAN id 0xFFFF or the channel 0 where they find none.
ASSUME PanAssumption ==
  /\ MaxPan \in Nat \ {0} /\ FirstPan \in 1 .. MaxPan - 1
  /\ NoNet \notin Nets
  /\ Channels # {} /\ Channels \subseteq Nat
  /\ Neighbours \subseteq Nat \X (1 .. MaxPan - 1)
  /\ \A c \in Channels : <<c, MaxPan - 1>> \notin Neighbours
  /\ MaxEnergy \in Nat /\ Energies \subseteq 0 .. MaxEnergy - 1
  /\ Durations \subseteq {"off", "while", "on"} /\ Keys \subseteq {"off", "on"}

\* The PAN id and the channel that a co-processor has after a reset.
DefaultNet == <<0, MaxPan>>

VARIABLES
  cllcState, coordState,   \* coordInfoBlock.currentCllcState, currentCoordState
  channel, panID,          \* coordInfoBlock.channel, panID
  events,                  \* Cllc_events
  startEvt,                \* COLLECTOR_START_EVT in Collector_events
  pPANDesclist,            \* the networks heard
  netInfo,                 \* the network information in the store
  pc,                      \* the place of the collector's thread in its loop
  job,                     \* where a client's thread is in Cllc_setJoinPermit
  joinClk,                 \* whether the clock of the join permit runs
  \* The co-processor.
  scan,                    \* what it is doing
  wanted,                  \* the network of the last start request it accepted
  heard,                   \* the networks that answered its active scan
  on,                      \* the network it coordinates
  permit,                  \* ApiMac_attribute_associatePermit
  inbox,                   \* its messages that the loop has not taken yet
  \* Bounds and history.
  permits, faults, resets,
  asked,                   \* what the last Cllc_setJoinPermit to end asked for, if
                           \* it was alone
  lost,                    \* its clock ended while the event of an earlier one was
                           \* served, and was forgotten with it
  misread                  \* a network was saved after a reset of the co-processor and
                           \* before its message was taken

info == <<coordState, channel, panID, pPANDesclist, netInfo, misread>>
radio == <<scan, wanted, heard, on>>
count == <<permits, faults, resets>>
vars == <<cllcState, info, events, startEvt, pc, job, joinClk, radio, permit,
          inbox, count, asked, lost>>

TypeOK ==
  /\ cllcState \in {"initWaiting", "startingCoordinator", "initRestoringCoordinator",
                    "started", "restored", "joiningAllowed", "joiningNotAllowed"}
  /\ coordState \in {"initialized", "scanActive", "scanActiveCnf", "scanEdCnf", "startCnf"}
  /\ channel \in Channels \cup {0} /\ panID \in 0 .. MaxPan
  /\ events \subseteq {"STATE_CHANGE", "JOIN"} /\ startEvt \in BOOLEAN
  /\ pPANDesclist \subseteq Neighbours
  /\ netInfo \in Nets \cup {NoNet} /\ on \in Nets \cup {NoNet}
  /\ pc \in {"start", "state", "join", "joinState", "joinClear", "keys", "receive"}
  /\ job \in [Clients -> [at : {"idle", "state", "clock"}, duration : {"off", "while", "on"}]]
  /\ misread \in BOOLEAN /\ lost \in BOOLEAN /\ joinClk \in BOOLEAN /\ permit \in BOOLEAN
  /\ scan \in {"idle", "active", "energyDetect", "start"}
  /\ wanted \in Nets \cup {NoNet}
  /\ heard \subseteq Neighbours
  /\ asked \in {"none", "off", "while", "on", "mixed"}

\* ApiMac_init resets the MAC, which forgets what it was doing.
ApiMac_init == scan' = "idle" /\ on' = NoNet /\ permit' = FALSE

\* The PAN id is the configured one, and nobody may join.
Cllc_init == panID = FirstPan /\ permit = FALSE

\* A store that is empty, or that holds a network this program once started.
Init ==
  /\ cllcState = "initWaiting" /\ coordState = "initialized" /\ channel = 0
  /\ Cllc_init
  /\ events = {} /\ startEvt = TRUE /\ pPANDesclist = {}
  /\ \/ netInfo = NoNet
     \/ \E c \in Channels, p \in 1 .. MaxPan - 1 :
          netInfo = <<c, p>> /\ netInfo \notin Neighbours
  /\ pc = "start" /\ job = [c \in Clients |-> [at |-> "idle", duration |-> "off"]]
  /\ joinClk = FALSE
  /\ scan = "idle" /\ wanted = NoNet /\ heard = {} /\ on = NoNet /\ inbox = <<>>
  /\ permits = 0 /\ faults = 0 /\ resets = 0
  /\ asked = "none" /\ lost = FALSE /\ misread = FALSE

(***************************************************************************)
(* Requests to the co-processor.  Their status is ignored: one that comes  *)
(* while the co-processor is busy with another is refused and forgotten.   *)
(***************************************************************************)

Request(what, net) ==
  /\ IF scan = "idle" THEN scan' = what /\ wanted' = net /\ heard' = {}
     ELSE UNCHANGED <<scan, wanted, heard>>
  /\ UNCHANGED on

switchState(s) == coordState' = s /\ events' = events \cup {"STATE_CHANGE"}

(***************************************************************************)
(* The loop of the collector's thread.                                     *)
(***************************************************************************)

At(here, next) == pc = here /\ pc' = next

\* Between serving the event of the permit and clearing it (cllc.c:502-508).
JoinIsServed == pc \in {"joinState", "joinClear"}

\* Whether a network has been saved.
Csf_getNetworkInformation == netInfo # NoNet

\* The start event is served only in the waiting state, and cleared in any.
Cllc_restoreNetwork ==
  /\ At("start", "state") /\ startEvt /\ cllcState = "initWaiting" /\ Csf_getNetworkInformation
  /\ startEvt' = FALSE /\ cllcState' = "initRestoringCoordinator"
  /\ channel' = netInfo[1] /\ panID' = netInfo[2]
  /\ Request("start", netInfo)
  /\ UNCHANGED <<coordState, pPANDesclist, netInfo, misread, events, job, joinClk, permit,
                 inbox, count, asked, lost>>

Cllc_startNetwork ==
  /\ At("start", "state") /\ startEvt /\ cllcState = "initWaiting" /\ ~Csf_getNetworkInformation
  /\ startEvt' = FALSE /\ cllcState' = "startingCoordinator"
  /\ switchState("scanActive")
  /\ UNCHANGED <<channel, panID, pPANDesclist, netInfo, misread, job, joinClk, radio,
                 permit, inbox, count, asked, lost>>

NoStart ==
  /\ At("start", "state") /\ ~(startEvt /\ cllcState = "initWaiting")
  /\ startEvt' = FALSE
  /\ UNCHANGED <<cllcState, info, events, job, joinClk, radio, permit, inbox, count, asked, lost>>

\* processState and the clearing of its event.
InState(s) ==
  /\ At("state", "join") /\ "STATE_CHANGE" \in events /\ coordState = s
  /\ events' = events \ {"STATE_CHANGE"}
  /\ UNCHANGED <<startEvt, job, joinClk, permit, inbox, count, asked, lost>>

SendScanReq ==
  \/ /\ InState("scanActive") /\ Request("active", NoNet)
     /\ UNCHANGED <<cllcState, info>>
  \/ /\ InState("scanActiveCnf") /\ Request("energyDetect", NoNet)
     /\ UNCHANGED <<cllcState, info>>

\* findChannel: the PAN id when there is a network with it on the channel, and
\* otherwise 0, so that 0 is always found.
Found(p) == p = 0 \/ <<channel, p>> \in pPANDesclist

\* MUTANT: the PAN id is only changed once.
FreePanOnce == IF Found(panID) THEN panID + 1 ELSE panID

\* configureStartParam: from the PAN id on, with 16 bits, to one not found.
FreePan ==
  LET After(k) == (panID + k) % (MaxPan + 1)
      k0 == CHOOSE k \in 0 .. MaxPan :
              ~Found(After(k)) /\ \A j \in 0 .. k - 1 : Found(After(j))
  IN  After(k0)

SendStartReq ==
  /\ InState("scanEdCnf")
  /\ panID' = FreePan /\ Request("start", <<channel, FreePan>>)
  /\ UNCHANGED <<cllcState, coordState, channel, pPANDesclist, netInfo, misread>>

clearPANList == pPANDesclist' = {}

\* The network information is read back from the co-processor and saved.
CoordinatorStarted ==
  /\ InState("startCnf")
  /\ clearPANList
  /\ netInfo' = IF on = NoNet THEN DefaultNet ELSE on
  /\ misread' = (misread \/ <<"reset">> \in ToSet(inbox))
  /\ cllcState' = IF cllcState = "initRestoringCoordinator" THEN "restored" ELSE "started"
  /\ UNCHANGED <<coordState, channel, panID, radio>>

NoStateChange ==
  /\ At("state", "join") /\ "STATE_CHANGE" \notin events
  /\ UNCHANGED <<cllcState, info, events, startEvt, job, joinClk, radio, permit, inbox,
                 count, asked, lost>>

\* It is withdrawn, by the attribute and then by the state; a client may allow it
\* again in between.
joinPermitExpired ==
  /\ \/ At("join", "joinState") /\ "JOIN" \in events /\ permit' = FALSE /\ UNCHANGED cllcState
     \/ At("joinState", "joinClear") /\ cllcState' = "joiningNotAllowed" /\ UNCHANGED permit
  /\ UNCHANGED <<info, events, startEvt, job, joinClk, radio, inbox, count, asked, lost>>

\* The event of a clock that has ended since is cleared with the one served.
ClearJoinEvent ==
  /\ At("joinClear", "keys") /\ events' = events \ {"JOIN"}
  /\ UNCHANGED <<cllcState, info, startEvt, job, joinClk, radio, permit, inbox, count, asked,
                 lost>>

NoJoinEvent ==
  /\ At("join", "keys") /\ "JOIN" \notin events
  /\ UNCHANGED <<cllcState, info, events, startEvt, job, joinClk, radio, permit, inbox,
                 count, asked, lost>>

Requested == \E c \in Clients : job[c].at # "idle"

\* The operator's key calls Csf_openNwk or Csf_closeNwk.
PermitKey(d) ==
  /\ At("keys", "receive") /\ permits < MaxPermits
  /\ permits' = permits + 1
  /\ permit' = (d = "on") /\ joinClk' = FALSE
  /\ asked' = (IF Requested THEN "mixed" ELSE d) /\ lost' = FALSE
  /\ cllcState' = IF d = "on" THEN "joiningAllowed" ELSE "joiningNotAllowed"
  /\ UNCHANGED <<info, events, startEvt, job, radio, inbox, faults, resets>>

NoKey ==
  /\ At("keys", "receive")
  /\ UNCHANGED <<cllcState, info, events, startEvt, job, joinClk, radio, permit, inbox,
                 count, asked, lost>>

(***************************************************************************)
(* ApiMac_processIncoming and the callbacks.                               *)
(***************************************************************************)

Receive(kind) ==
  /\ At("receive", "start") /\ ~startEvt
  /\ inbox # <<>> /\ Head(inbox)[1] = kind /\ inbox' = Tail(inbox)
  /\ UNCHANGED <<job, joinClk, count, asked, lost>>

findInList(net) == net \in pPANDesclist

addToPANList(net) ==
  pPANDesclist' = IF findInList(net) THEN pPANDesclist ELSE pPANDesclist \cup {net}

beaconNotifyIndCb ==
  /\ Receive("beacon")
  /\ addToPANList(Head(inbox)[2])
  /\ UNCHANGED <<cllcState, coordState, channel, panID, netInfo, misread, events, startEvt,
                 radio, permit>>

\* The first channel with the least energy, if that is less than the greatest
\* there is, and otherwise channel 0.
findBestChannel(energy) ==
  LET quiet == {c \in Channels : energy[c] < MaxEnergy /\
                                 \A d \in Channels : energy[c] <= energy[d]}
  IN  IF quiet = {} THEN 0 ELSE CHOOSE c \in quiet : \A d \in quiet : c <= d

scanCnfCb ==
  /\ \/ Receive("activeCnf") /\ switchState("scanActiveCnf") /\ UNCHANGED channel
     \/ /\ Receive("edCnf") /\ switchState("scanEdCnf")
        /\ channel' = findBestChannel(Head(inbox)[2])
     \/ Receive("scanFailed") /\ switchState("scanActive") /\ UNCHANGED channel
  /\ UNCHANGED <<cllcState, panID, pPANDesclist, netInfo, misread, startEvt, radio, permit>>

\* MUTANT: a start that failed is not tried again.
StartCnfGivesUp ==
  /\ \/ Receive("startCnf") /\ switchState("startCnf")
     \/ Receive("startFailed") /\ UNCHANGED <<coordState, events>>
  /\ UNCHANGED <<cllcState, channel, panID, pPANDesclist, netInfo, misread, startEvt, radio,
                 permit>>

startCnfCb ==
  /\ \/ Receive("startCnf") /\ switchState("startCnf")
     \/ Receive("startFailed") /\ switchState("scanActive")
  /\ UNCHANGED <<cllcState, channel, panID, pPANDesclist, netInfo, misread, startEvt, radio,
                 permit>>

resetIndCb ==
  /\ Receive("reset")
  /\ cllcState' = "initWaiting" /\ startEvt' = TRUE
  /\ ApiMac_init
  /\ UNCHANGED <<info, events, wanted, heard>>

\* No message, or the start event is set and none is taken.
NoMessage ==
  /\ At("receive", "start") /\ (startEvt \/ inbox = <<>>)
  /\ UNCHANGED <<cllcState, info, events, startEvt, job, joinClk, radio, permit, inbox,
                 count, asked, lost>>

(***************************************************************************)
(* The other threads: Cllc_setJoinPermit called for a client, and the      *)
(* clock of the permit.                                                    *)
(***************************************************************************)

PermitAttribute(c, d) ==
  /\ job[c].at = "idle" /\ permits < MaxPermits
  /\ permits' = permits + 1
  /\ permit' = (d # "off") /\ job' = [job EXCEPT ![c] = [at |-> "state", duration |-> d]]
  /\ asked' = IF Requested THEN "mixed" ELSE "none"
  /\ UNCHANGED <<cllcState, info, events, startEvt, pc, joinClk, radio, inbox, faults,
                 resets, lost>>

PermitState(c) ==
  /\ job[c].at = "state"
  /\ cllcState' = IF job[c].duration = "off" THEN "joiningNotAllowed" ELSE "joiningAllowed"
  /\ job' = [job EXCEPT ![c].at = "clock"]
  /\ UNCHANGED <<info, events, startEvt, pc, joinClk, radio, permit, inbox, count, asked, lost>>

Answered(c) == IF asked = "mixed" THEN "mixed" ELSE job[c].duration

\* MUTANT: the clock is stopped and not started again.
PermitClockStops(c) ==
  /\ job[c].at = "clock"
  /\ joinClk' = FALSE /\ asked' = Answered(c) /\ lost' = FALSE
  /\ job' = [job EXCEPT ![c].at = "idle"]
  /\ UNCHANGED <<cllcState, info, events, startEvt, pc, radio, permit, inbox, count>>

\* Csf_setJoinPermitClock: the clock is stopped, and started for a duration.
PermitClock(c) ==
  /\ job[c].at = "clock"
  /\ joinClk' = (job[c].duration = "while") /\ asked' = Answered(c) /\ lost' = FALSE
  /\ job' = [job EXCEPT ![c].at = "idle"]
  /\ UNCHANGED <<cllcState, info, events, startEvt, pc, radio, permit, inbox, count>>

processJoinTimeoutCallback ==
  /\ joinClk /\ joinClk' = FALSE /\ events' = events \cup {"JOIN"}
  /\ lost' = (lost \/ JoinIsServed)
  /\ UNCHANGED <<cllcState, info, startEvt, pc, job, radio, permit, inbox, count, asked>>

(***************************************************************************)
(* The co-processor.                                                       *)
(***************************************************************************)

RadioStep ==
  UNCHANGED <<cllcState, info, events, startEvt, pc, job, joinClk, permit, permits, asked, lost>>

Send(m) == inbox' = Append(inbox, m)

\* A request that the loop makes before it takes the message of a reset is ended by
\* the reset of the MAC there: scans take longer than the loop needs for a message.
Finishes == <<"reset">> \notin ToSet(inbox)

Beacon(n) ==
  /\ scan = "active" /\ n \notin heard /\ Finishes
  /\ heard' = heard \cup {n} /\ Send(<<"beacon", n>>)
  /\ UNCHANGED <<scan, wanted, on, faults, resets>> /\ RadioStep

ScanEnds ==
  /\ Finishes
  /\ \/ scan = "active" /\ heard = Neighbours /\ Send(<<"activeCnf">>)
     \/ /\ scan = "energyDetect"
        /\ \E energy \in [Channels -> Energies] : Send(<<"edCnf", energy>>)
  /\ scan' = "idle" /\ UNCHANGED <<wanted, heard, on, faults, resets>> /\ RadioStep

StartEnds ==
  /\ scan = "start" /\ Finishes /\ on' = wanted /\ Send(<<"startCnf">>)
  /\ scan' = "idle" /\ UNCHANGED <<wanted, heard, faults, resets>> /\ RadioStep

RequestFails ==
  /\ scan # "idle" /\ Finishes /\ faults < MaxFaults /\ faults' = faults + 1
  /\ Send(IF scan = "start" THEN <<"startFailed">> ELSE <<"scanFailed">>)
  /\ scan' = "idle" /\ UNCHANGED <<wanted, heard, on, resets>> /\ RadioStep

CoPReset ==
  /\ resets < MaxResets /\ resets' = resets + 1
  /\ scan' = "idle" /\ on' = NoNet /\ permit' = FALSE
  /\ UNCHANGED <<wanted, heard>>
  /\ Send(<<"reset">>)
  /\ UNCHANGED <<cllcState, info, events, startEvt, pc, job, joinClk, permits, faults, asked, lost>>

(***************************************************************************)
(* The specification.                                                      *)
(***************************************************************************)

Loop ==
  \/ Cllc_restoreNetwork \/ Cllc_startNetwork \/ NoStart
  \/ SendScanReq \/ SendStartReq \/ CoordinatorStarted \/ NoStateChange
  \/ joinPermitExpired \/ ClearJoinEvent \/ NoJoinEvent
  \/ (\E d \in Keys : PermitKey(d)) \/ NoKey
  \/ beaconNotifyIndCb \/ scanCnfCb \/ startCnfCb \/ resetIndCb \/ NoMessage

SetJoinPermit(c) == PermitState(c) \/ PermitClock(c)

Radio == (\E n \in Neighbours : Beacon(n)) \/ ScanEnds \/ StartEnds \/ RequestFails

Next ==
  \/ Loop \/ Radio \/ CoPReset \/ processJoinTimeoutCallback
  \/ \E c \in Clients : SetJoinPermit(c) \/ \E d \in Durations : PermitAttribute(c, d)

\* The threads go on, a clock that runs ends, and the co-processor finishes what
\* it accepted.
Fairness ==
  /\ WF_vars(Loop) /\ WF_vars(processJoinTimeoutCallback) /\ WF_vars(Radio)
  /\ \A c \in Clients : WF_vars(SetJoinPermit(c))

Spec == Init /\ [][Next]_vars /\ Fairness

(***************************************************************************)
(* Properties.                                                             *)
(***************************************************************************)

\* The network that is coordinated is none of those that answered a scan, is on a
\* channel of the mask (collector.cfg:159) and has a valid PAN id (cllc.c:355, 49),
\* however often scans fail and the co-processor resets, unless what was saved was
\* read back from a co-processor that had just reset.
NetworkIsProper ==
  on # NoNet /\ ~misread =>
    on \notin Neighbours /\ on[1] \in Channels /\ on[2] \in 1 .. MaxPan - 1

\* A network is started in the end, after failed scans and starts and resets, unless a
\* client sets the join permit while the start event waits to be served.
NetworkStarts ==
  \/ <>[](on # NoNet /\ netInfo = on /\ cllcState # "startingCoordinator")
  \/ <>(cllcState = "initWaiting" /\ Requested)

\* A permit that ends is ended, and one that is withdrawn is: when no two requests
\* overlap, devices may join only as long as the last one allows, or its clock runs, or
\* the event of it is set and is not the one about to be cleared.  Only a permit whose
\* clock has ended while the event of an earlier one was served stays open: its own
\* event was cleared with that (cllc.c:502-508).
PermitIsAskedFor ==
  permit /\ ~Requested /\ asked # "mixed" =>
    \/ asked = "on"
    \/ asked = "while" /\ (joinClk \/ lost \/ ("JOIN" \in events /\ ~JoinIsServed))
=============================================================================
