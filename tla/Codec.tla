------------------------------- MODULE Codec -------------------------------
(***************************************************************************)
(* The messages of the MAC API: what each function of api_mac.c announces, *)
(* writes and reads, and the buffer of mt_msg.c that checks it.  A message *)
(* whose length is not the announced one ends the program (BUG_HERE), both *)
(* when it is sent and when it has been read: host and co-processor must   *)
(* agree on every one.                                                     *)
(*                                                                         *)
(* A layout is the sequence of the widths of its fields, in bytes: numbers *)
(* are positive, buffers negative (as in API_MAC_Get_Common).  Values are  *)
(* left out, but for the lengths, counts and kinds that choose a layout.   *)
(***************************************************************************)
EXTENDS Integers, Sequences, Sums

CONSTANTS
    Sizes,    \* lengths of the parts of a message whose length varies
    Excess    \* what the length of a received message differs by

ASSUME CodecAssumption ==
    /\ Sizes \subseteq 0..255
    /\ Excess \subseteq -8..8

Header == 4      \* frame sync and length, or a longer length; cmd0, cmd1
BufMax == 4096   \* iobuf_idx_max
Unknown == -1    \* the length is computed when the message is sent

VARIABLES
    stage,     \* where the message is
    call,      \* the function and its layout
    at,        \* the next field
    idx,       \* iobuf_idx
    valid,     \* iobuf_nvalid of the message that is read
    answered,  \* the status in the answer
    verdict    \* what the function returned, or whether it called back

codecVars == <<stage, call, at, idx, valid, answered, verdict>>

Width(field) == IF field < 0 THEN -field ELSE field
Widths(fields) == [i \in DOMAIN fields |-> Width(fields[i])]
Size(fields) == Total(Widths(fields))
Bytes(n) == [i \in 1..n |-> 1]
Repeat(n, fields) ==
    [i \in 1..n * Len(fields) |-> fields[((i - 1) % Len(fields)) + 1]]

(* Both directions of ApiMac_sec_t and ApiMac_sAddr_t.                     *)
Sec == <<-8, 1, 1, 1>>
AddrTypes == {"none", "short", "extended"}
Addr(type) == IF type = "short" THEN <<1, 2>> \o Bytes(6) ELSE <<1>> \o Bytes(8)

-----------------------------------------------------------------------------
(* Requests: the announced length, the fields, the fields of the answer    *)
(* and what becomes of an answer that says the request failed.             *)
(*   read      the status is returned when all fields have been read       *)
(*   return    nothing else is read                                        *)
(*   ignore    the status is not looked at                                 *)
(*   noStatus  the answer has none                                         *)

Request(name, len, fields, rsp, policy) ==
    [name |-> name, len |-> len, fields |-> fields, rsp |-> rsp,
     policy |-> policy]

API_MAC_TxRx_Status(name, len, fields) ==
    Request(name, len, fields, <<1>>, "read")

ApiMac_mcpsDataReq(a, msdu, ie) ==
    API_MAC_TxRx_Status("mcpsDataReq", 35 + msdu + ie,
        Addr(a) \o <<2, 1, 1, 1, 1, 1>> \o Sec \o <<4, 2, 2, -msdu, -ie>>)
ApiMac_mcpsPurgeReq == API_MAC_TxRx_Status("mcpsPurgeReq", 1, <<1>>)
ApiMac_mlmeAssociateReq(a) ==
    API_MAC_TxRx_Status("mlmeAssociateReq", 26,
        <<1, 1, 1>> \o Addr(a) \o <<2, 1>> \o Sec)
ApiMac_mlmeDisassociateReq(a) ==
    API_MAC_TxRx_Status("mlmeDisassociateReq", 24,
        Addr(a) \o <<2, 1, 1>> \o Sec)
ApiMac_mlmeOrphanRsp ==
    API_MAC_TxRx_Status("mlmeOrphanRsp", 22, <<-8, 2, 1>> \o Sec)
ApiMac_mlmePollReq(a) ==
    API_MAC_TxRx_Status("mlmePollReq", 22, Addr(a) \o <<2>> \o Sec)
ApiMac_mlmeResetReq == API_MAC_TxRx_Status("mlmeResetReq", 1, <<1>>)
ApiMac_mlmeScanReq ==
    API_MAC_TxRx_Status("mlmeScanReq", 40,
        Bytes(10) \o <<2>> \o Sec \o <<-17>>)
ApiMac_mlmeStartReq(ies) ==
    API_MAC_TxRx_Status("mlmeStartReq", 42 + ies,
        <<4, 2>> \o Bytes(8) \o Sec \o Sec \o <<1, 1, 1, 2, 1, -ies>>)
ApiMac_mlmeSyncReq == API_MAC_TxRx_Status("mlmeSyncReq", 4, Bytes(4))
ApiMac_updatePanId == API_MAC_TxRx_Status("updatePanId", 2, <<2>>)
ApiMac_srcMatchEnable == API_MAC_TxRx_Status("srcMatchEnable", 0, <<>>)
ApiMac_mlmeWSAsyncReq ==
    API_MAC_TxRx_Status("mlmeWSAsyncReq", 30, <<1, 1>> \o Sec \o <<-17>>)
ApiMac_startFH == API_MAC_TxRx_Status("startFH", 0, <<>>)
ApiMac_enableFH == API_MAC_TxRx_Status("enableFH", 0, <<>>)
ApiMac_mlmeAssociateRsp ==
    API_MAC_TxRx_Status("mlmeAssociateRsp", 22, <<-8, 2, 1>> \o Sec)
ApiMac_secAddDevice ==
    API_MAC_TxRx_Status("secAddDevice", 29, <<2, 2, -8, 4, 1, 1, 1, 1, -9>>)
ApiMac_secDeleteDevice == API_MAC_TxRx_Status("secDeleteDevice", 8, <<-8>>)
ApiMac_secDeleteKeyAndAssocDevices ==
    API_MAC_TxRx_Status("secDeleteKeyAndAssocDevices", 1, <<1>>)
ApiMac_secDeleteAllDevices ==
    API_MAC_TxRx_Status("secDeleteAllDevices", 0, <<>>)
ApiMac_secGetDefaultSourceKey ==
    Request("secGetDefaultSourceKey", 1, <<1>>, <<1, 4>>, "read")
ApiMac_secAddKeyInitFrameCounter ==
    API_MAC_TxRx_Status("secAddKeyInitFrameCounter", 33, <<1, 2, -16, 4, 1, -9>>)

(* Attributes: "plain" ones have a number of one byte, "hopping" ones of   *)
(* two, and "security" ones are followed by two indices.                   *)
Id(class) == IF class = "hopping" THEN <<2>> ELSE <<1>>
Indexed(class) == IF class = "security" THEN Id(class) \o <<2, 2>> ELSE Id(class)

(* The indices are not counted.                                            *)
API_MAC_Get_Common(name, class, wiresize) ==
    Request(name, Size(Id(class)), Indexed(class), <<1, wiresize>>, "return")

API_MAC_Set_Common(name, class, wiresize) ==
    IF class = "hopping"
    THEN API_MAC_TxRx_Status(name, 2 + wiresize, <<2, wiresize>>)
    ELSE API_MAC_TxRx_Status(name, 17, <<1, wiresize>> \o Bytes(16 - wiresize))

API_MAC_SetSecurity_Common(name, wiresize) ==
    Request(name, Unknown, <<1, 2, 2, wiresize>>, <<1>>, "ignore")

ArraySizes(class) ==
    CASE class = "plain" -> {8, 16}
      [] class = "hopping" -> {8, 32}
      [] class = "security" -> {8}

API_MAC_SetGetArray_Common(isSet, name, class) ==
    { IF isSet
      THEN API_MAC_TxRx_Status(name, Size(Indexed(class)) + n,
                               Indexed(class) \o <<-n>>)
      ELSE API_MAC_Get_Common(name, class, -n) : n \in ArraySizes(class) }

ApiMac_mlmeGetReqBool == API_MAC_Get_Common("mlmeGetReqBool", "plain", 1)
ApiMac_mlmeGetReqUint8 == API_MAC_Get_Common("mlmeGetReqUint8", "plain", 1)
ApiMac_mlmeGetReqUint16 == API_MAC_Get_Common("mlmeGetReqUint16", "plain", 2)
ApiMac_mlmeGetReqUint32 == API_MAC_Get_Common("mlmeGetReqUint32", "plain", 4)
ApiMac_mlmeGetReqArray ==
    API_MAC_SetGetArray_Common(FALSE, "mlmeGetReqArray", "plain")
ApiMac_mlmeGetFhReqUint8 == API_MAC_Get_Common("mlmeGetFhReqUint8", "hopping", 1)
ApiMac_mlmeGetFhReqUint16 ==
    API_MAC_Get_Common("mlmeGetFhReqUint16", "hopping", 2)
ApiMac_mlmeGetFhReqUint32 ==    \* two bytes of the four that were set
    API_MAC_Get_Common("mlmeGetFhReqUint32", "hopping", 2)
ApiMac_mlmeGetFhReqArray ==
    API_MAC_SetGetArray_Common(FALSE, "mlmeGetFhReqArray", "hopping")
ApiMac_mlmeGetSecurityReqUint8 ==
    API_MAC_Get_Common("mlmeGetSecurityReqUint8", "security", 1)
ApiMac_mlmeGetSecurityReqUint16 ==
    API_MAC_Get_Common("mlmeGetSecurityReqUint16", "security", 2)
ApiMac_mlmeGetSecurityReqArray ==
    API_MAC_SetGetArray_Common(FALSE, "mlmeGetSecurityReqArray", "security")
ApiMac_mlmeSetReqBool == API_MAC_Set_Common("mlmeSetReqBool", "plain", 1)
ApiMac_mlmeSetReqUint8 == API_MAC_Set_Common("mlmeSetReqUint8", "plain", 1)
ApiMac_mlmeSetReqUint16 == API_MAC_Set_Common("mlmeSetReqUint16", "plain", 2)
ApiMac_mlmeSetReqUint32 == API_MAC_Set_Common("mlmeSetReqUint32", "plain", 4)
ApiMac_mlmeSetReqArray ==
    API_MAC_SetGetArray_Common(TRUE, "mlmeSetReqArray", "plain")
ApiMac_mlmeSetFhReqUint8 == API_MAC_Set_Common("mlmeSetFhReqUint8", "hopping", 1)
ApiMac_mlmeSetFhReqUint16 ==
    API_MAC_Set_Common("mlmeSetFhReqUint16", "hopping", 2)
ApiMac_mlmeSetFhReqUint32 ==
    API_MAC_Set_Common("mlmeSetFhReqUint32", "hopping", 4)
ApiMac_mlmeSetFhReqArray ==
    API_MAC_SetGetArray_Common(TRUE, "mlmeSetFhReqArray", "hopping")
ApiMac_mlmeSetSecurityReqUint8 ==
    API_MAC_SetSecurity_Common("mlmeSetSecurityReqUint8", 1)
ApiMac_mlmeSetSecurityReqUint16 ==
    API_MAC_SetSecurity_Common("mlmeSetSecurityReqUint16", 2)
ApiMac_mlmeSetSecurityReqArray ==
    API_MAC_SetGetArray_Common(TRUE, "mlmeSetSecurityReqArray", "security")

(* The structures of the security PIB: the number and the indices, and the *)
(* value, which is written, or read after the same indices.                *)
SecurityStruct(isSet, indices, value) ==
    IF isSet
    THEN Request("mlmeSetSecurityReqStruct", Unknown,
                 <<1>> \o indices \o value, <<1>>, "read")
    ELSE Request("mlmeGetSecurityReqStruct", Unknown,
                 <<1>> \o indices, <<1>> \o indices \o value, "read")

keyTable == SecurityStruct(TRUE, <<2, 2>>, <<>>)
keyIdLookupEntry(isSet) == SecurityStruct(isSet, <<2, 1>>, <<-9, 1>>)
keyDeviceEntry(isSet) == SecurityStruct(isSet, <<2, 2>>, <<2, 1, 1>>)
keyUsageEntry(isSet) == SecurityStruct(isSet, <<2, 1>>, <<1, 1>>)
keyEntry(isSet) == SecurityStruct(isSet, <<2, 1>>, <<-16, 4>>)
deviceEntry(isSet) == SecurityStruct(isSet, <<1, 1>>, <<2, 2, -8, 1, 4, 2>>)
securityLevelEntry(isSet) == SecurityStruct(isSet, <<1, 1, 2>>, Bytes(4))

common_ApiMac_mlmeGetSetSecurityReqStruct ==
    {keyTable} \cup
    UNION { {keyIdLookupEntry(isSet), keyDeviceEntry(isSet),
             keyUsageEntry(isSet), keyEntry(isSet), deviceEntry(isSet),
             securityLevelEntry(isSet)} : isSet \in BOOLEAN }

(* The requests of mt_msg.c.                                               *)
MT_MSG_reset == Request("reset-cmd", 1, <<1>>, <<>>, "unanswered")
get_extAddr == Request("get-ext-addr", 1, <<1>>, Bytes(9), "noStatus")
MT_MSG_getVersion == Request("get-version", 0, <<>>, Bytes(5), "noStatus")
MT_MSG_loopback(n) ==
    Request("loopback", 5 + n, <<1, 4, -n>>, <<1, 4, -n>>, "noStatus")
common_send_status == Request("status", 3, Bytes(3), <<>>, "unanswered")

ApiRequests ==
    { ApiMac_mcpsDataReq(a, m, i) : a \in AddrTypes, m \in Sizes, i \in Sizes }
    \cup { ApiMac_mlmeAssociateReq(a) : a \in AddrTypes }
    \cup { ApiMac_mlmeDisassociateReq(a) : a \in AddrTypes }
    \cup { ApiMac_mlmePollReq(a) : a \in AddrTypes }
    \cup { ApiMac_mlmeStartReq(i) : i \in Sizes }
    \cup { MT_MSG_loopback(n) : n \in Sizes }
    \cup { ApiMac_mcpsPurgeReq, ApiMac_mlmeOrphanRsp, ApiMac_mlmeResetReq,
           ApiMac_mlmeScanReq, ApiMac_mlmeSyncReq, ApiMac_updatePanId,
           ApiMac_srcMatchEnable, ApiMac_mlmeWSAsyncReq, ApiMac_startFH,
           ApiMac_enableFH, ApiMac_mlmeAssociateRsp, ApiMac_secAddDevice,
           ApiMac_secDeleteDevice, ApiMac_secDeleteKeyAndAssocDevices,
           ApiMac_secDeleteAllDevices, ApiMac_secGetDefaultSourceKey,
           ApiMac_secAddKeyInitFrameCounter }
    \cup { ApiMac_mlmeGetReqBool, ApiMac_mlmeGetReqUint8,
           ApiMac_mlmeGetReqUint16, ApiMac_mlmeGetReqUint32,
           ApiMac_mlmeGetFhReqUint8, ApiMac_mlmeGetFhReqUint16,
           ApiMac_mlmeGetFhReqUint32, ApiMac_mlmeGetSecurityReqUint8,
           ApiMac_mlmeGetSecurityReqUint16, ApiMac_mlmeSetReqBool,
           ApiMac_mlmeSetReqUint8, ApiMac_mlmeSetReqUint16,
           ApiMac_mlmeSetReqUint32, ApiMac_mlmeSetFhReqUint8,
           ApiMac_mlmeSetFhReqUint16, ApiMac_mlmeSetFhReqUint32,
           ApiMac_mlmeSetSecurityReqUint8, ApiMac_mlmeSetSecurityReqUint16 }
    \cup ApiMac_mlmeGetReqArray \cup ApiMac_mlmeSetReqArray
    \cup ApiMac_mlmeGetFhReqArray \cup ApiMac_mlmeSetFhReqArray
    \cup ApiMac_mlmeGetSecurityReqArray \cup ApiMac_mlmeSetSecurityReqArray
    \cup common_ApiMac_mlmeGetSetSecurityReqStruct
    \cup { MT_MSG_reset, get_extAddr, MT_MSG_getVersion, common_send_status }

-----------------------------------------------------------------------------
(* Indications: the fields that process_areq_* reads, and what follows.    *)
(*   deliver  the callback, if the whole message was read                  *)
(*   refuse   no callback, although it must have been read                 *)
(*   skip     no callback, and the rest is not looked at                   *)

Indication(name, fields, policy) ==
    [name |-> name, len |-> Unknown, fields |-> <<>>, rsp |-> fields,
     policy |-> policy]
Deliver(name, fields) == Indication(name, fields, "deliver")

associate_ind == Deliver("associate_ind", <<-8, 1>> \o Sec)
sync_loss_ind == Deliver("sync_loss_ind", <<1, 2, 1, 1, 1>> \o Sec)
data_cnf == Deliver("data_cnf", <<1, 1, 4, 2, 1, 1, 1, 1, 4>>)
data_ind(a, msdu, ie) ==
    Deliver("data_ind",
        Addr(a) \o Addr("short") \o <<4, 2, 2, 2, 1, 1, 1, 1>> \o Sec
        \o <<4, 2, 2, -msdu, -ie>>)
purge_cnf == Deliver("purge_cnf", <<1, 1>>)
orphan_ind == Deliver("orphan_ind", <<-8>> \o Sec)
associate_cnf == Deliver("associate_cnf", <<1, 2>> \o Sec)
disassociate_ind == Deliver("disassociate_ind", <<-8, 1>> \o Sec)
disassociate_cnf(a) == Deliver("disassociate_cnf", <<1>> \o Addr(a) \o <<2>>)
poll_cnf == Deliver("poll_cnf", <<1, 1>>)
comm_status_ind(a) ==
    Deliver("comm_status_ind", <<1>> \o Addr(a) \o Addr("short") \o <<2, 1>> \o Sec)
start_cnf == Deliver("start_cnf", <<1>>)
ws_async_cnf == Deliver("ws_async_cnf", <<1>>)
ws_async_ind(a, msdu, ie) ==
    Deliver("ws_async_ind",
        Addr(a) \o Addr("short") \o <<4, 2, 2, 2, 1, 1, 1, 1>> \o Sec
        \o <<4, 1, 2, 2, -msdu, -ie>>)
poll_ind(a) == Deliver("poll_ind", Addr(a) \o <<2, 1>>)
reset_ind == Deliver("reset_ind", Bytes(6))

(* The lists of a normal beacon are skipped, measured, and read again.     *)
beacon_notify(shorts, exts, sdu) ==
    { Deliver("beacon_normal",
          <<1, 1, 4>> \o Addr("short") \o <<2, 2>> \o Bytes(5) \o Sec
          \o Bytes(3) \o <<-2 * shorts, -8 * exts, -sdu>>),
      Deliver("beacon_enhanced", Bytes(8) \o <<2>>),
      Indication("beacon_unknown", <<1, 1>>, "skip") }

api_rd_panDesc == Addr("short") \o <<2, 2, 1, 1, 1, 1, 4, 1>> \o Sec

scan_cnf(n) ==
    LET head == Bytes(4) \o <<-17, 1>> IN
    { Indication("scan_orphan", head, IF n = 0 THEN "deliver" ELSE "refuse"),
      Deliver("scan_energy", head \o <<-n>>),
      Deliver("scan_active", head \o Repeat(n, api_rd_panDesc)),
      Indication("scan_unknown", head, "refuse") }

Few == {n \in Sizes : n <= 3}    \* how many of a list's entries

DataIndications ==
    { data_ind(a, m, i) : a \in AddrTypes, m \in Sizes, i \in Sizes }
    \cup { ws_async_ind(a, m, i) : a \in AddrTypes, m \in Sizes, i \in Sizes }

AddressIndications ==
    { disassociate_cnf(a) : a \in AddrTypes }
    \cup { comm_status_ind(a) : a \in AddrTypes }
    \cup { poll_ind(a) : a \in AddrTypes }

BeaconIndications ==
    UNION { beacon_notify(s, e, n) : s \in Few, e \in Few, n \in Sizes }

ScanIndications == UNION { scan_cnf(n) : n \in Few }

ApiIndications ==
    DataIndications \cup AddressIndications \cup BeaconIndications
    \cup ScanIndications
    \cup { associate_ind, sync_loss_ind, data_cnf, purge_cnf, orphan_ind,
           associate_cnf, disassociate_ind, poll_cnf, start_cnf, ws_async_cnf,
           reset_ind }

-----------------------------------------------------------------------------
NoCall == Request("none", 0, <<>>, <<>>, "noStatus")

CodecInit ==
    /\ stage = "idle"
    /\ call = NoCall
    /\ at = 1
    /\ idx = Header
    /\ valid = 0
    /\ answered = "none"
    /\ verdict = "none"

Stop == stage' = "stopped"     \* BUG_HERE

End(v) ==
    /\ stage' = "idle"
    /\ verdict' = v

(* MT_MSG_alloc.                                                           *)
NewMessage(r) ==
    /\ stage = "idle"
    /\ call' = r
    /\ at' = 1
    /\ idx' = Header
    /\ valid' = 0
    /\ answered' = "none"
    /\ verdict' = "none"
    /\ IF r.len + 5 > BufMax THEN Stop ELSE stage' = "write"

WriteField ==
    /\ stage = "write"
    /\ at <= Len(call.fields)
    /\ LET w == Width(call.fields[at]) IN
       IF idx + w > BufMax
       THEN Stop /\ UNCHANGED <<at, idx>>
       ELSE /\ idx' = idx + w
            /\ at' = at + 1
            /\ UNCHANGED stage
    /\ UNCHANGED <<call, valid, answered, verdict>>

(* Mutant: nothing compares the length with the announced one.             *)
FormatUnchecked ==
    /\ stage = "write"
    /\ at > Len(call.fields)
    /\ stage' = "sent"
    /\ UNCHANGED <<call, at, idx, valid, answered, verdict>>

(* MT_MSG_format_msg.                                                      *)
FormatMsg ==
    /\ stage = "write"
    /\ at > Len(call.fields)
    /\ IF call.len # Unknown /\ call.len + Header # idx
       THEN Stop
       ELSE stage' = "sent"
    /\ UNCHANGED <<call, at, idx, valid, answered, verdict>>

(* The result of MT_MSG_txrx is not 2.                                     *)
NoAnswer ==
    /\ stage = "sent"
    /\ End("badState")
    /\ UNCHANGED <<call, at, idx, valid, answered>>

(* A message of n bytes is read from its payload on.                       *)
Received(n) ==
    /\ n >= 0
    /\ at' = 1
    /\ idx' = Header
    /\ valid' = Header + n
    /\ stage' = "read"

Answered(excess) ==
    /\ stage = "sent"
    /\ call.policy # "unanswered"
    /\ \E status \in {"success", "refused"} :
          /\ call.policy = "noStatus" => status = "success"
          /\ answered' = status
          /\ \/ Received(Size(call.rsp) + excess)
             \/ status = "refused" /\ Received(1)
    /\ UNCHANGED <<call, verdict>>

Indicated(ind, excess) ==
    /\ stage = "idle"
    /\ call' = ind
    /\ Received(Size(ind.rsp) + excess)
    /\ answered' = "none"
    /\ verdict' = "none"

(* MT_MSG_rdUX looks at the length of the message, MT_MSG_rdBuf at that of *)
(* the buffer.                                                             *)
ReadOk(field) ==
    IF field > 0 THEN idx + field <= valid ELSE idx - field <= BufMax

(* Mutant: a refused request goes on to its value.                         *)
RefusedNever == FALSE

(* API_MAC_Get_Common leaves at the status.                                *)
Refused == call.policy = "return" /\ at = 2 /\ answered = "refused"

ReadField ==
    /\ stage = "read"
    /\ at <= Len(call.rsp)
    /\ ~Refused
    /\ IF ReadOk(call.rsp[at])
       THEN /\ idx' = idx + Width(call.rsp[at])
            /\ at' = at + 1
            /\ UNCHANGED stage
       ELSE Stop /\ UNCHANGED <<at, idx>>
    /\ UNCHANGED <<call, valid, answered, verdict>>

LeaveRefused ==
    /\ stage = "read"
    /\ Refused
    /\ End("refused")
    /\ UNCHANGED <<call, at, idx, valid, answered>>

(* MT_MSG_parseComplete.                                                   *)
Whole == idx = valid

Verdict ==
    CASE call.policy \in {"ignore", "noStatus", "return"} -> "success"
      [] call.policy = "read" -> answered
      [] call.policy = "deliver" -> "delivered"
      [] call.policy \in {"refuse", "skip"} -> "dropped"

ParseComplete ==
    /\ stage = "read"
    /\ at > Len(call.rsp)
    /\ ~Refused
    /\ IF Whole \/ call.policy = "skip"
       THEN End(Verdict)
       ELSE Stop /\ verdict' = verdict
    /\ UNCHANGED <<call, at, idx, valid, answered>>

CodecNext ==
    \/ \E r \in ApiRequests : NewMessage(r)
    \/ \E ind \in ApiIndications, e \in Excess : Indicated(ind, e)
    \/ WriteField \/ FormatMsg
    \/ NoAnswer \/ \E e \in Excess : Answered(e)
    \/ ReadField \/ LeaveRefused \/ ParseComplete

CodecSpec == CodecInit /\ [][CodecNext]_codecVars

-----------------------------------------------------------------------------
CodecTypeOK ==
    /\ stage \in {"idle", "write", "sent", "read", "stopped"}
    /\ call \in ApiRequests \cup ApiIndications \cup {NoCall}
    /\ at \in Nat /\ idx \in Header..BufMax /\ valid \in 0..BufMax
    /\ answered \in {"none", "success", "refused"}
    /\ verdict \in {"none", "badState", "success", "refused", "delivered",
                    "dropped"}

SecurityGet == call.policy = "return" /\ call.fields = Indexed("security")

(* A request that the co-processor refused is not reported as a success,   *)
(* in whatever order the function reads the status and the rest, but for   *)
(* the security attributes of one and two bytes, whose status is dropped.  *)
RefusalsAreReported ==
    verdict = "success" => answered = "success" \/ call.policy \in {"ignore", "noStatus"}

(* A callback is called, and the value of an attribute returned, only when *)
(* the message had the length of its layout: the buffers that are read     *)
(* past its end, which nothing notices at once, never get out.             *)
UseIsOfTheWhole ==
    verdict \in {"success", "delivered"} => valid = Header + Size(call.rsp)

(* What the program goes on with is a whole message that says success.     *)
SuccessIsReal == RefusalsAreReported /\ UseIsOfTheWhole
=============================================================================
