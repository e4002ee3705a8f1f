------------------------------- MODULE Gateway -------------------------------
(***************************************************************************)
(* The web gateway (appclient.js) as a client of the collector's server    *)
(* (appsrv.c): what it learns of the network and of its devices, and what  *)
(* becomes of its connection.                                              *)
(*                                                                         *)
(* The server answers requests on the connection's thread and tells news   *)
(* on the collector's; each builds a message from what the collector holds *)
(* and sends it in a later step, so that one may overtake the other.       *)
(* Module Broadcast models how a message reaches the connections that are  *)
(* on the list; here there is one.                                         *)
(***************************************************************************)
EXTENDS Naturals, Sequences, SequencesExt

CONSTANTS
  Devices,
  Budgets,       \* bounds: how often something happens to a started network, how often the
                 \* connection or the collector stops, how many requests browsers make
  MaxListeners   \* bound: how many connect callbacks are counted

ASSUME GatewayAssumption ==
  /\ Budgets \subseteq [events : Nat, breaks : Nat, asks : Nat]
  /\ MaxListeners \in Nat \ {0}

VARIABLES
  \* The collector.
  running,     \* the program runs
  saved,       \* the network information has been saved
  devices,     \* the saved device list
  cllcState,   \* savedCllcState
  phase,       \* how far the start of the network is
  news,        \* what the collector's thread has built and not yet sent
  \* The connection.
  conn,        \* what the server knows of it
  answers,     \* what its thread has built and not yet sent
  toServer, toClient,
  \* The gateway.
  link,        \* the socket
  timer,       \* clientReconnectTimer
  listeners,   \* callbacks that wait for 'connect'
  nwkInfo, known,   \* nwkInfo, connectedDeviceList
  \* History.
  crossed,     \* one thread sent while the other had built a message
  left         \* what is left of the bounds

collectorVars == <<running, saved, devices, cllcState, phase, news>>
connectionVars == <<conn, answers, toServer, toClient>>
clientVars == <<link, timer, listeners, nwkInfo, known>>
gwVars == <<collectorVars, connectionVars, clientVars, crossed, left>>

Undefined == "undefined"
States == {"initWaiting", "startingCoordinator", "initRestoringCoordinator", "started",
           "restored", "joiningAllowed", "joiningNotAllowed"}

\* What nwkinfo.js makes of a state.
Shown(s) ==
  CASE s = "initWaiting" -> "waiting"
    [] s = "startingCoordinator" -> "starting"
    [] s = "initRestoringCoordinator" -> "restoring"
    [] s \in {"started", "restored"} -> "started"
    [] s = "joiningAllowed" -> "open"
    [] s = "joiningNotAllowed" -> "close"

\* Messages: a kind, a state and devices, of which most have one.
Msg(kind, s, ds) == [kind |-> kind, state |-> s, devs |-> ds]
Plain(kind) == Msg(kind, "initWaiting", {})

appsrv_stateChangeUpdate(s) == Msg("stateInd", s, {})
appsrv_networkUpdate == Msg("nwkInd", cllcState, {})
appsrv_deviceUpdate(d) == Msg("joinedInd", "initWaiting", {d})
appsrv_deviceNotActiveUpdate(d) == Msg("notActiveInd", "initWaiting", {d})
appsrv_deviceRawDataUpdate(d) == Msg("dataInd", "initWaiting", {d})
appsrv_processGetNwkInfoReq ==
  Msg(IF saved THEN "nwkCnf" ELSE "nwkCnfNone", cllcState, {})
appsrv_processGetDeviceArrayReq == Msg("devCnf", "initWaiting", devices)
send_AppSrvJoinPermitCnf == Plain("permitCnf")
send_AppsrvTxDataCnf == Plain("txCnf")
appC_getNwkInfoFromAppServer == Plain("getNwkInfo")
appC_getDevArrayFromAppServer == Plain("getDevArray")
appC_setJoinPermitAtAppServer(open) == Plain(IF open THEN "open" ELSE "close")
appC_sendToServer(d) == Msg("txData", "initWaiting", {d})   \* toggle or configure

GwInit ==
  /\ running = TRUE
  /\ saved \in BOOLEAN
  /\ devices \in SUBSET Devices /\ (~saved => devices = {})
  /\ \/ phase = "waiting" /\ cllcState = "initWaiting"
     \/ phase = "started" /\ cllcState = "started" /\ saved
  /\ news = <<>> /\ conn = "none" /\ answers = <<>>
  /\ toServer = <<>> /\ toClient = <<>>
  /\ link = "connecting" /\ timer = Undefined /\ listeners = 1
  /\ nwkInfo = Undefined /\ known = [d \in Devices |-> Undefined]
  /\ crossed = FALSE /\ left \in Budgets

-----------------------------------------------------------------------------
(* The collector's thread.                                                 *)

Spend(kind) == left[kind] > 0 /\ left' = [left EXCEPT ![kind] = @ - 1]

Step ==
  /\ running /\ news = <<>>
  /\ UNCHANGED <<running, connectionVars, clientVars, crossed>>

StartStep == Step /\ UNCHANGED left
Event == Step /\ phase = "started" /\ Spend("events")

StartNetwork ==
  /\ StartStep /\ phase = "waiting" /\ phase' = "starting"
  /\ cllcState' = IF saved THEN "initRestoringCoordinator" ELSE "startingCoordinator"
  /\ news' = <<appsrv_stateChangeUpdate(cllcState')>>
  /\ UNCHANGED <<saved, devices>>

\* Csf_networkUpdate, and then the change of the state.
NetworkUpdate ==
  /\ StartStep /\ phase = "starting" /\ phase' = "updated"
  /\ saved' = TRUE
  /\ news' = <<appsrv_networkUpdate>>
  /\ UNCHANGED <<devices, cllcState>>

NetworkStarted ==
  /\ StartStep /\ phase = "updated" /\ phase' = "started"
  /\ cllcState' = IF cllcState = "initRestoringCoordinator" THEN "restored" ELSE "started"
  /\ news' = <<appsrv_stateChangeUpdate(cllcState')>>
  /\ UNCHANGED <<saved, devices>>

DeviceUpdate(d) ==
  /\ Event
  /\ devices' = devices \cup {d}
  /\ news' = <<appsrv_deviceUpdate(d)>>
  /\ UNCHANGED <<saved, cllcState, phase>>

DeviceNotActiveUpdate(d) ==
  /\ Event /\ d \in devices
  /\ news' = <<appsrv_deviceNotActiveUpdate(d)>>
  /\ UNCHANGED <<saved, devices, cllcState, phase>>

DeviceData(d) ==
  /\ Event
  /\ news' = <<appsrv_deviceRawDataUpdate(d)>>
  /\ UNCHANGED <<saved, devices, cllcState, phase>>

\* No client is told.
RemoveDevice(d) ==
  /\ Event /\ d \in devices
  /\ devices' = devices \ {d}
  /\ UNCHANGED <<saved, cllcState, phase, news>>

\* The operator opens or closes the network, or its time is over.
JoinPermit(open) ==
  /\ Event
  /\ cllcState' = IF open THEN "joiningAllowed" ELSE "joiningNotAllowed"
  /\ news' = <<appsrv_stateChangeUpdate(cllcState')>>
  /\ UNCHANGED <<saved, devices, phase>>

SendNews ==
  /\ running /\ news # <<>> /\ news' = <<>>
  /\ IF conn = "listed"
     THEN toClient' = toClient \o news /\ crossed' = (crossed \/ answers # <<>>)
     ELSE UNCHANGED <<toClient, crossed>>
  /\ UNCHANGED <<running, saved, devices, cllcState, phase, conn, answers, toServer,
                 clientVars, left>>

CollectorStep ==
  \/ StartNetwork \/ NetworkUpdate \/ NetworkStarted \/ SendNews
  \/ \E d \in Devices : \/ DeviceUpdate(d) \/ DeviceNotActiveUpdate(d)
                        \/ DeviceData(d) \/ RemoveDevice(d)
  \/ \E open \in BOOLEAN : JoinPermit(open)

-----------------------------------------------------------------------------
(* The connection's thread.                                                *)

Register ==
  /\ conn = "accepted" /\ conn' = "listed"
  /\ UNCHANGED <<collectorVars, answers, toServer, toClient, clientVars, crossed, left>>

\* Whatever becomes of the request to the device, the confirm is of success.
appsrv_processTxDataReq == <<send_AppsrvTxDataCnf>>

Answer(req) ==
  CASE req.kind = "getNwkInfo" -> <<appsrv_processGetNwkInfoReq>>
    [] req.kind = "getDevArray" -> <<appsrv_processGetDeviceArrayReq>>
    [] req.kind = "open" -> <<appsrv_stateChangeUpdate("joiningAllowed"),
                              send_AppSrvJoinPermitCnf>>
    [] req.kind = "close" -> <<appsrv_stateChangeUpdate("joiningNotAllowed"),
                               send_AppSrvJoinPermitCnf>>
    [] req.kind = "txData" -> appsrv_processTxDataReq

\* MUTANT: a connection is served before it is on the list.
MayServeAccepted == conn # "none"

MayServe == conn = "listed"

HandleRequest ==
  /\ MayServe /\ answers = <<>> /\ toServer # <<>>
  /\ answers' = Answer(Head(toServer)) /\ toServer' = Tail(toServer)
  /\ cllcState' = CASE Head(toServer).kind = "open" -> "joiningAllowed"
                    [] Head(toServer).kind = "close" -> "joiningNotAllowed"
                    [] OTHER -> cllcState
  /\ UNCHANGED <<running, saved, devices, phase, news, conn, toClient, clientVars, crossed,
                 left>>

SendAnswer ==
  /\ conn # "none" /\ answers # <<>> /\ answers' = Tail(answers)
  /\ toClient' = Append(toClient, Head(answers))
  /\ crossed' = (crossed \/ news # <<>>)
  /\ UNCHANGED <<collectorVars, conn, toServer, clientVars, left>>

-----------------------------------------------------------------------------
(* The socket of the gateway.                                              *)

Disconnected ==
  conn' = "none" /\ answers' = <<>> /\ toServer' = <<>> /\ toClient' = <<>>

\* The handler of 'error': the timer is set unless it is.
OnError ==
  /\ link' = "down"
  /\ timer' = IF timer = Undefined THEN "running" ELSE timer

\* Each callback that waits for 'connect' asks for the network, and goes.
Connect ==
  /\ link = "connecting" /\ running
  /\ link' = "up" /\ conn' = "accepted" /\ listeners' = 0 /\ crossed' = FALSE
  /\ toServer' = toServer \o [i \in 1 .. listeners |-> appC_getNwkInfoFromAppServer]
  /\ UNCHANGED <<collectorVars, answers, toClient, timer, nwkInfo, known, left>>

ConnectFails ==
  /\ link = "connecting" /\ ~running
  /\ OnError /\ Disconnected
  /\ UNCHANGED <<collectorVars, listeners, nwkInfo, known, crossed, left>>

\* MUTANT: the timer stays defined.
ReconnectOnce ==
  /\ timer = "running" /\ timer' = "over"
  /\ link' = "connecting" /\ Disconnected
  /\ listeners' = IF listeners < MaxListeners THEN listeners + 1 ELSE listeners
  /\ UNCHANGED <<collectorVars, nwkInfo, known, crossed, left>>

\* appClientReconnect, after five seconds: a callback is added to those of the attempts
\* that failed.
Reconnect ==
  /\ timer = "running" /\ timer' = Undefined
  /\ link' = "connecting" /\ Disconnected
  /\ listeners' = IF listeners < MaxListeners THEN listeners + 1 ELSE listeners
  /\ UNCHANGED <<collectorVars, nwkInfo, known, crossed, left>>

\* The connection ends: what was sent is read before an orderly end, which nothing
\* handles.
LinkEnds ==
  /\ Disconnected
  /\ \/ OnError
     \/ toClient = <<>> /\ link' = "closed" /\ UNCHANGED timer

LinkFails ==
  /\ Spend("breaks") /\ link = "up" /\ LinkEnds
  /\ UNCHANGED <<collectorVars, listeners, nwkInfo, known, crossed>>

CollectorStops ==
  /\ Spend("breaks") /\ running /\ running' = FALSE
  /\ cllcState' = "initWaiting" /\ phase' = "waiting" /\ news' = <<>>
  /\ \/ link = "up" /\ LinkEnds
     \/ link # "up" /\ UNCHANGED <<link, timer, connectionVars>>
  /\ UNCHANGED <<saved, devices, listeners, nwkInfo, known, crossed>>

CollectorStarts ==
  /\ ~running /\ running' = TRUE
  /\ UNCHANGED <<saved, devices, cllcState, phase, news, connectionVars, clientVars,
                 crossed, left>>

-----------------------------------------------------------------------------
(* What the gateway makes of messages.                                     *)

Active(d) == [known EXCEPT ![d] = "active"]
Device(msg) == CHOOSE d \in msg.devs : TRUE
IsKnown(d) == known[d] # Undefined

Take(kinds) ==
  /\ link = "up" /\ toClient # <<>> /\ Head(toClient).kind \in kinds
  /\ toClient' = Tail(toClient)
  /\ UNCHANGED <<collectorVars, conn, answers, timer, listeners, crossed, left>>

\* appC_processGetNwkInfoCnf: without a network it is waited for.
ProcessGetNwkInfoCnf ==
  /\ Take({"nwkCnf", "nwkCnfNone"})
  /\ IF Head(toClient).kind = "nwkCnf"
     THEN /\ nwkInfo' = Shown(Head(toClient).state)
          /\ toServer' = Append(toServer, appC_getDevArrayFromAppServer)
     ELSE UNCHANGED <<nwkInfo, toServer>>
  /\ UNCHANGED <<link, known>>

ProcessGetDevArrayCnf ==
  /\ Take({"devCnf"})
  /\ known' = [d \in Devices |-> IF d \in Head(toClient).devs THEN "active" ELSE Undefined]
  /\ UNCHANGED <<link, nwkInfo, toServer>>

ProcessNetworkUpdateInd ==
  /\ Take({"nwkInd"})
  /\ nwkInfo' = Shown(Head(toClient).state)
  /\ UNCHANGED <<link, known, toServer>>

\* A device that is known is updated, another one added.
ProcessDeviceJoinedInd ==
  /\ Take({"joinedInd"})
  /\ known' = Active(Device(Head(toClient)))
  /\ UNCHANGED <<link, nwkInfo, toServer>>

ProcessDeviceNotActiveInd ==
  /\ Take({"notActiveInd"})
  /\ LET d == Device(Head(toClient)) IN
     known' = IF IsKnown(d) THEN [known EXCEPT ![d] = "inactive"] ELSE known
  /\ UNCHANGED <<link, nwkInfo, toServer>>

ProcessDeviceDataRxInd ==
  /\ Take({"dataInd"})
  /\ LET d == Device(Head(toClient)) IN known' = IF IsKnown(d) THEN Active(d) ELSE known
  /\ UNCHANGED <<link, nwkInfo, toServer>>

\* A method of nothing is called if there is no network information: the gateway ends.
ProcessStateChangeUpdate ==
  /\ link = "up" /\ toClient # <<>> /\ Head(toClient).kind = "stateInd"
  /\ \/ /\ nwkInfo # Undefined /\ nwkInfo' = Shown(Head(toClient).state)
        /\ toClient' = Tail(toClient)
        /\ UNCHANGED <<link, conn, answers, toServer>>
     \/ /\ nwkInfo = Undefined /\ link' = "crashed" /\ Disconnected
        /\ UNCHANGED nwkInfo
  /\ UNCHANGED <<collectorVars, timer, listeners, known, crossed, left>>

ProcessCnf ==
  /\ Take({"permitCnf", "txCnf"})
  /\ UNCHANGED <<link, nwkInfo, known, toServer>>

ProcessIncoming ==
  \/ ProcessGetNwkInfoCnf \/ ProcessGetDevArrayCnf \/ ProcessNetworkUpdateInd
  \/ ProcessDeviceJoinedInd \/ ProcessDeviceNotActiveInd \/ ProcessDeviceDataRxInd
  \/ ProcessStateChangeUpdate \/ ProcessCnf

\* A browser's request is written to the socket, which is an error once it has ended.
Write(msg) ==
  /\ Spend("asks")
  /\ \/ link \in {"up", "connecting"} /\ toServer' = Append(toServer, msg)
        /\ UNCHANGED <<link, timer>>
     \/ link \in {"closed", "down"} /\ OnError /\ UNCHANGED toServer
  /\ UNCHANGED <<collectorVars, conn, answers, toClient, listeners, nwkInfo, known, crossed>>

SetPermitJoin(open) == Write(appC_setJoinPermitAtAppServer(open))
SendToDevice(d) == IsKnown(d) /\ Write(appC_sendToServer(d))

-----------------------------------------------------------------------------
GwNext ==
  /\ link # "crashed"
  /\ \/ CollectorStep
     \/ Register \/ HandleRequest \/ SendAnswer
     \/ Connect \/ ConnectFails \/ Reconnect
     \/ LinkFails \/ CollectorStops \/ CollectorStarts
     \/ ProcessIncoming
     \/ \E open \in BOOLEAN : SetPermitJoin(open)
     \/ \E d \in Devices : SendToDevice(d)

\* Sockets and timers call back.
GwFairness == WF_gwVars(Connect \/ ConnectFails) /\ WF_gwVars(Reconnect)

GwSpec == GwInit /\ [][GwNext]_gwVars /\ GwFairness

-----------------------------------------------------------------------------
GwTypeOK ==
  /\ running \in BOOLEAN /\ saved \in BOOLEAN /\ devices \subseteq Devices
  /\ cllcState \in States /\ phase \in {"waiting", "starting", "updated", "started"}
  /\ conn \in {"none", "accepted", "listed"}
  /\ link \in {"connecting", "up", "down", "closed", "crashed"}
  /\ timer \in {Undefined, "running", "over"} /\ listeners \in 0 .. MaxListeners
  /\ nwkInfo \in {Undefined} \cup {Shown(s) : s \in States}
  /\ known \in [Devices -> {Undefined, "active", "inactive"}]

Quiet ==
  /\ running /\ link = "up" /\ conn = "listed"
  /\ <<news, answers, toServer, toClient>> = <<<<>>, <<>>, <<>>, <<>>>>

\* Once no message is on its way, the browsers are shown the collector's state and all of
\* its devices: what was told before the connection was on the list is in the answers, and
\* what is told later comes after them.  Only when both threads had built a message at the
\* same time may the older one have come last.
ShownIsTrue ==
  Quiet /\ ~crossed =>
    /\ saved => nwkInfo = Shown(cllcState)
    /\ \A d \in devices : IsKnown(d)

\* appclient.js:158: after an error the gateway connects again, however many attempts
\* fail, when the collector runs in the end.
ErrorsAreMended == <>[]running => (link = "down" ~> link \in {"up", "crashed"})

=============================================================================
