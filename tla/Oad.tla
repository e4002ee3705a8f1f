-------------------------------- MODULE Oad ---------------------------------
(***************************************************************************)
(* Updating the firmware of devices over the air: the operator's commands  *)
(* (Csf_processEvents), the reset handshake that an update of an on-chip   *)
(* image begins with, its retries by a timer, the list of images           *)
(* (Collector_updateFwList, Collector_startFwUpdate) and the blocks that   *)
(* devices ask for (oadBlockReqCb), over the messages of oad_protocol.c.   *)
(*                                                                         *)
(* All of this is done by the main loop, but the timer's callback; and a   *)
(* callback that has begun when its timer is stopped still sets its flag.  *)
(* A device is a client of the protocol that asks for one block after the  *)
(* other, and asks again if it is not answered.  Frames may be lost, and   *)
(* be arbitrarily late, as those of devices that sleep are.                *)
(***************************************************************************)
EXTENDS Naturals, FiniteSets

CONSTANTS
    Targets,     \* devices of the network
    FirstDevice, \* the one that the operator has selected first
    Images,      \* names of image files
    FirstImage,  \* DEFAULT_OAD_FILE
    NoImage,     \* the name of an entry of the list that was never used
    Slots,       \* MAX_OAD_FILES
    ImgIds,      \* how many ids a message can carry
    MaxRetries,  \* OAD_RESET_REQ_MAX_RETRIES
    MaxCommands  \* bound: how many commands the operator gives

ASSUME OadAssumption ==
    /\ FirstDevice \in Targets /\ FirstImage \in Images /\ NoImage \notin Images
    /\ {Slots, ImgIds, MaxRetries} \subseteq Nat \ {0} /\ Slots < ImgIds
    /\ MaxCommands \in Nat

VARIABLES
    selectedDevice, selectedFile,   \* selected_device, selected_oad_file_id
    fileList,                       \* oad_file_list
    latest,                         \* latest_oad_file_id; its slot is the rest
    rspNeeded, rspRcvd, reqSent,    \* ResetRspNeeded, ResetRspRcvd, ResetReqSent
    retryCount, sendRetry,          \* ResetRetryCount, ResetReqSendRetry
    retryTimer,                     \* the timer of the retries runs
    ringing,                        \* its callback has been taken and not yet called
    air,                            \* frames that are on their way
    update,                         \* the image whose blocks each device asks for
    commands,                       \* how many commands the operator has given
    \* History.
    answered,    \* the devices whose answer was taken in this handshake
    confused,    \* the selection was changed in this handshake, or an answer to an
                 \* earlier one was still on its way
    offered,     \* the image that each device was last offered under each id
    served       \* the block last sent to each device is of that image

choice == <<selectedDevice, selectedFile>>
list == <<fileList, latest>>
flags == <<rspNeeded, rspRcvd, reqSent, retryCount, sendRetry, retryTimer>>
oadPast == <<answered, confused, offered, served>>
oadVars == <<choice, list, flags, ringing, air, update, commands, oadPast>>

ResetReq(d) == <<"resetReq", d, 0>>
ResetRsp(d) == <<"resetRsp", d, 0>>
Identify(d, id) == <<"identify", d, id % ImgIds>>
BlockReq(d, id) == <<"blockReq", d, id>>

NoUpdate == ImgIds    \* a device that asks for no blocks

(* The list holds the default image, which is the selected one.            *)
Csf_init ==
    /\ selectedFile = 0
    /\ fileList = [i \in 0 .. Slots - 1 |->
                     [id |-> 0, file |-> IF i = 0 THEN FirstImage ELSE NoImage]]
    /\ latest = 1

OadInit ==
    /\ Csf_init /\ selectedDevice = FirstDevice
    /\ rspNeeded = FALSE /\ rspRcvd = FALSE /\ reqSent = FALSE
    /\ retryCount = 0 /\ sendRetry = FALSE /\ retryTimer = FALSE /\ ringing = FALSE
    /\ air = {} /\ update = [d \in Targets |-> NoUpdate] /\ commands = 0
    /\ answered = {} /\ confused = FALSE
    /\ offered = [d \in Targets |-> [id \in 0 .. ImgIds - 1 |-> NoImage]]
    /\ served = [d \in Targets |-> TRUE]

-----------------------------------------------------------------------------
(* The list of images.                                                     *)

\* The entry that a search for an id finds, if there is one.
Entries(id) == {i \in DOMAIN fileList : fileList[i].id = id}
First(indices) == CHOOSE i \in indices : \A j \in indices : i <= j
Entry(id) == fileList[First(Entries(id))]

\* MUTANT: ids are those of the slots.
AddSlotAsId(f) ==
    /\ fileList' = [fileList EXCEPT ![latest % Slots] = [id |-> latest % Slots, file |-> f]]
    /\ selectedFile' = latest % Slots /\ latest' = latest + 1

Add(f) ==
    /\ fileList' = [fileList EXCEPT ![latest % Slots] = [id |-> latest, file |-> f]]
    /\ selectedFile' = latest /\ latest' = latest + 1

\* Collector_updateFwList: a name that is in the list keeps its id.
UpdateFwList(f) ==
    LET known == {i \in DOMAIN fileList : fileList[i].file = f} IN
    \/ known = {} /\ Add(f)
    \/ known # {} /\ selectedFile' = fileList[First(known)].id /\ UNCHANGED list

-----------------------------------------------------------------------------
(* Sending: the stack may refuse, and what it takes may be lost.  A frame  *)
(* that stays on its way is as good as lost; one that is lost is told from *)
(* it where this matters to a later handshake.                             *)

Sent(frame) == air' \in {air, air \cup {frame}}
Refused == UNCHANGED air

\* stopOADResetReqRetryTimer, and the flags of a handshake that is over.
Finish ==
    /\ reqSent' = FALSE /\ retryCount' = 0 /\ sendRetry' = FALSE /\ retryTimer' = FALSE
    /\ answered' = {} /\ confused' = FALSE

\* The history of a handshake that begins.
Fresh ==
    /\ answered' = {}
    /\ confused' = \E d \in Targets : {ResetReq(d), ResetRsp(d)} \cap air # {}

\* A reset request.
SendReset ==
    LET count == retryCount + (IF reqSent THEN 1 ELSE 0) IN
    /\ \/ /\ Sent(ResetReq(selectedDevice))
          /\ \/ count >= MaxRetries /\ Finish
             \/ /\ count < MaxRetries
                /\ reqSent' = TRUE /\ retryCount' = count /\ retryTimer' = TRUE
                /\ sendRetry' = (~reqSent /\ sendRetry)
                /\ IF reqSent THEN UNCHANGED <<answered, confused>> ELSE Fresh
       \/ Refused /\ Finish
    /\ UNCHANGED <<rspRcvd, offered>>

\* Collector_startFwUpdate, with a file that can be read or not.
StartFwUpdate ==
    \/ /\ air' = air \cup {Identify(selectedDevice, selectedFile)}
       /\ offered' = [offered EXCEPT ![selectedDevice][selectedFile % ImgIds] =
                                         Entry(selectedFile).file]
    \/ Refused /\ UNCHANGED offered

StartUpdate ==
    /\ Finish /\ rspRcvd' = FALSE
    /\ StartFwUpdate

-----------------------------------------------------------------------------
(* Csf_processEvents.                                                      *)

Command == commands < MaxCommands /\ commands' = commands + 1

SelectDevice(d) ==
    /\ Command /\ selectedDevice' = d
    /\ confused' = (reqSent /\ (confused \/ d # selectedDevice))
    /\ UNCHANGED <<selectedFile, list, flags, ringing, air, update, answered,
                   offered, served>>

GetOadFile(f) ==
    /\ Command /\ UpdateFwList(f)
    /\ UNCHANGED <<selectedDevice, flags, ringing, air, update, oadPast>>

FwUpdateOffchip ==
    /\ Command
    /\ rspNeeded' = FALSE /\ StartUpdate
    /\ UNCHANGED <<choice, list, ringing, update, served>>

\* The command, or the one that is simulated: to go on with a handshake, or to
\* begin one.
Onchip == (~rspRcvd /\ SendReset) \/ (rspRcvd /\ StartUpdate)

FwUpdateOnchip ==
    /\ Command /\ rspNeeded' = TRUE /\ Onchip
    /\ UNCHANGED <<choice, list, ringing, update, served>>

UpdateKeySim ==
    /\ rspNeeded /\ ((rspRcvd /\ reqSent) \/ sendRetry)
    /\ Onchip
    /\ UNCHANGED <<choice, list, rspNeeded, ringing, update, commands, served>>

-----------------------------------------------------------------------------
(* The thread of the timers, which calls back again and again.             *)

Ring ==
    /\ retryTimer /\ ~ringing /\ ringing' = TRUE
    /\ UNCHANGED <<choice, list, flags, air, update, commands, oadPast>>

ResetReqRetryTimeout ==
    /\ ringing /\ ringing' = FALSE /\ sendRetry' = TRUE
    /\ UNCHANGED <<choice, list, rspNeeded, rspRcvd, reqSent, retryCount, retryTimer, air,
                   update, commands, oadPast>>

-----------------------------------------------------------------------------
(* Frames that the collector receives.                                     *)

\* MUTANT: an answer is taken whenever it comes.
ResetRspAlways(d) ==
    /\ ResetRsp(d) \in air /\ air' = air \ {ResetRsp(d)}
    /\ rspRcvd' = TRUE /\ answered' = answered \cup {d}
    /\ UNCHANGED <<choice, list, rspNeeded, reqSent, retryCount, sendRetry, retryTimer,
                   ringing, update, commands, confused, offered, served>>

\* Csf_deviceSensorOadResetRspRcvd, which does not look at the device.
OadResetRsp(d) ==
    /\ ResetRsp(d) \in air /\ air' = air \ {ResetRsp(d)}
    /\ \/ reqSent /\ rspRcvd' = TRUE /\ answered' = answered \cup {d}
       \/ ~reqSent /\ UNCHANGED <<rspRcvd, answered>>
    /\ UNCHANGED <<choice, list, rspNeeded, reqSent, retryCount, sendRetry, retryTimer,
                   ringing, update, commands, confused, offered, served>>

\* oadBlockReqCb: an id that is not in the list is not answered.
OadBlockReq(d, id) ==
    /\ BlockReq(d, id) \in air /\ air' = air \ {BlockReq(d, id)}
    /\ \/ /\ Entries(id) # {}
          /\ served' = [served EXCEPT ![d] = Entry(id).file = offered[d][id]]
       \/ Entries(id) = {} /\ UNCHANGED served
    /\ UNCHANGED <<choice, list, flags, ringing, update, commands, answered,
                   confused, offered>>

-----------------------------------------------------------------------------
(* The devices.                                                            *)

\* A device resets, and says so.
ResetDevice(d) ==
    /\ ResetReq(d) \in air /\ update' = [update EXCEPT ![d] = NoUpdate]
    /\ air' = (air \ {ResetReq(d)}) \cup {ResetRsp(d)}

TakeOffer(d, id) ==
    /\ Identify(d, id) \in air /\ air' = air \ {Identify(d, id)}
    /\ update' = [update EXCEPT ![d] = id]

\* It asks for a block, the next one or one for which it had no answer.
Ask(d) ==
    /\ update[d] # NoUpdate /\ BlockReq(d, update[d]) \notin air
    /\ air' = air \cup {BlockReq(d, update[d])} /\ UNCHANGED update

DeviceStep(d) ==
    /\ ResetDevice(d) \/ Ask(d) \/ \E id \in 0 .. ImgIds - 1 : TakeOffer(d, id)
    /\ UNCHANGED <<choice, list, flags, ringing, commands, oadPast>>

OadNext ==
    \/ \E d \in Targets : SelectDevice(d) \/ OadResetRsp(d) \/ DeviceStep(d)
    \/ \E f \in Images : GetOadFile(f)
    \/ \E d \in Targets, id \in 0 .. ImgIds - 1 : OadBlockReq(d, id)
    \/ FwUpdateOffchip \/ FwUpdateOnchip \/ UpdateKeySim \/ Ring \/ ResetReqRetryTimeout

OadSpec == OadInit /\ [][OadNext]_oadVars

-----------------------------------------------------------------------------
(* An on-chip update is only sent to a device that has answered a reset of *)
(* this handshake, if nothing else was selected meanwhile and no frame of  *)
(* an earlier handshake was on its way: answers to resets that were sent   *)
(* again, or given up, do not count for others.                            *)
UpdatesAreReset ==
    [][ ~confused /\ offered' # offered /\ rspNeeded' =>
            reqSent /\ selectedDevice \in answered ]_oadVars

(* A device is sent blocks of the image that it was offered, whatever      *)
(* other images have taken the slot of that one since.                     *)
ServedIsOffered == \A d \in Targets : served[d]

=============================================================================
