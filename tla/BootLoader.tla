----------------------------- MODULE BootLoader -----------------------------
(***************************************************************************)
(* The serial boot loader's client (cc13xx-sbl): it connects to the boot   *)
(* loader in the device's ROM, erases the flash, programs a file and       *)
(* verifies it, as its options say.                                        *)
(*                                                                         *)
(* The ROM handles one command after the other.  What it answers is read   *)
(* byte by byte; a read that takes 200 ms gives whatever was in the byte   *)
(* before, in practice the byte that was read last.  A command may be      *)
(* thrown away with the output (the flush in SblUart_write) or be garbled, *)
(* an answer may be lost or late.                                          *)
(*                                                                         *)
(* Addresses count units of some bytes.  A unit of the file is named by    *)
(* the address behind it.                                                  *)
(***************************************************************************)
EXTENDS Integers, Sequences, FiniteSetsExt

CONSTANTS
    Tasks,         \* files, options, and the locked pages of the device
    PageSize, NumPages,
    MaxTransfer,  \* CCDNLD_MAX_BYTES_PER_TRANSFER
    BufferSize,   \* DATA_BUFFER_SIZE
    MaxFaults     \* bound: things that go wrong on the line

ASSUME BootAssumption ==
    /\ {PageSize, NumPages, MaxTransfer, BufferSize} \subseteq Nat \ {0}
    /\ \A t \in Tasks : t.start \in 0 .. PageSize * NumPages - 1
    /\ MaxFaults \in Nat

(* A file in Intel's hex format ends with its only end record; records     *)
(* other than those of data are at address 0 and hold none.                *)
HexRecords == [type : {"data", "linear", "end"}, at : Nat, size : Nat, base : Nat]

ASSUME FileAssumption ==
    \A t \in Tasks :
        /\ t.bin \in BOOLEAN /\ t.size \in Nat
        /\ ~t.bin =>
             /\ t.records \in Seq(HexRecords) \ {<<>>}
             /\ \A k \in DOMAIN t.records :
                  /\ t.records[k].type = "end" <=> k = Len(t.records)
                  /\ t.records[k].type # "data" => t.records[k].at = 0 /\ t.records[k].size = 0

FlashSize == PageSize * NumPages

Erased == 0
Old == -1
Mixed == -2  \* programmed without having been erased

VARIABLES
    task,        \* a member of Tasks
    host,       \* the program
    toDevice,   \* commands that the device has not handled
    fromDevice, \* bytes that the program has not read
    device,     \* its flash, and the download that was started
    faults      \* bound: what went wrong so far

bootVars == <<task, host, toDevice, fromDevice, device, faults>>

Fewer(m, n) == IF m < n THEN m ELSE n

-----------------------------------------------------------------------------
(* The phases of main.                                                     *)

(* verifyStartAddress: one that is not a page's is ignored.                *)
StartAddress == IF task.start % PageSize = 0 THEN task.start ELSE 0

PhaseAfter(p) ==
    IF p = "connect" /\ "erase" \in task.options THEN "erase"
    ELSE IF p \in {"connect", "erase"} /\ "program" \in task.options THEN "download"
    ELSE IF p # "verify" /\ "verify" \in task.options THEN "verify"
    ELSE "done"

NoEnd == -1
NoDownload == -1

(* getNextIntelHexRecords begins, or fread.                                *)
ToRead(h) == [h EXCEPT !.step = "read", !.buf = <<>>, !.prevEnd = NoEnd]

(* Each phase begins with the start of the file.                           *)
Enter(p) ==
    LET h == [host EXCEPT !.phase = p, !.step = "call", !.tries = 0, !.pos = 0,
                          !.eof = FALSE, !.ext = 0, !.at = StartAddress,
                          !.page = StartAddress \div PageSize]
    IN IF p = "verify" \/ (p = "download" /\ ~task.bin) THEN ToRead(h) ELSE h

Fail == [host EXCEPT !.phase = "failed"]

BootInit ==
    /\ task \in Tasks
    /\ host = [phase |-> "connect", step |-> "call", page |-> 0, tries |-> 0,
               pos |-> 0, eof |-> FALSE, buf |-> <<>>, at |-> 0, ext |-> 0,
               prevEnd |-> NoEnd, ack |-> "0", status |-> "0", last |-> "0"]
    /\ toDevice = <<>> /\ fromDevice = <<>>
    /\ device = [flash |-> [a \in 0 .. FlashSize - 1 |-> Old], ptr |-> NoDownload, left |-> 0,
                 status |-> "40"]
    /\ faults = 0

-----------------------------------------------------------------------------
(* The file.                                                               *)

Units(a, n) == [i \in 1 .. n |-> a + i]

(* One fread of a binary file: only one that finds too little sets feof.   *)
ReadBinary ==
    /\ host.step = "read" /\ task.bin
    /\ LET n == Fewer(BufferSize, task.size - host.pos)
       IN host' = [host EXCEPT !.buf = Units(StartAddress + host.pos, n), !.pos = @ + n,
                               !.eof = n < BufferSize, !.step = "call"]
    /\ UNCHANGED <<task, toDevice, fromDevice, device, faults>>

(* One record of getNextIntelHexRecords.  The records that follow one      *)
(* another are read together; one that does not is left for the next call. *)
ReadRecord ==
    /\ host.step = "read" /\ ~task.bin
    /\ LET r == task.records[host.pos + 1]
           first == host.prevEnd = NoEnd
           begun == [host EXCEPT !.at = IF first THEN host.ext + r.at ELSE @]
           read == [begun EXCEPT !.pos = @ + 1, !.prevEnd = r.at + r.size]
           follows == first \/ host.prevEnd = r.at
       IN host' = IF ~follows \/ Len(host.buf) + r.size >= BufferSize
                  THEN [begun EXCEPT !.step = "call"]
                  ELSE CASE r.type = "data" ->
                              [read EXCEPT !.buf = @ \o Units(host.ext + r.at, r.size)]
                         [] r.type = "linear" ->
                              [read EXCEPT !.ext = r.base, !.buf = <<>>, !.step = "call"]
                         [] r.type = "end" -> [read EXCEPT !.eof = TRUE, !.step = "call"]
    /\ UNCHANGED <<task, toDevice, fromDevice, device, faults>>

-----------------------------------------------------------------------------
(* Commands and answers.                                                   *)

(* sendCmd.                                                                *)
Send(c) ==
    \/ toDevice' = Append(toDevice, c) /\ UNCHANGED faults
    \/ /\ faults < MaxFaults /\ faults' = faults + 1
       /\ toDevice' \in {toDevice, Append(toDevice, [cmd |-> "garbled"])}

Chunk == SubSeq(host.buf, 1, Fewer(MaxTransfer, Len(host.buf)))

InFlash(a, n) == a + n <= FlashSize

Announces == IF task.bin THEN task.size ELSE Len(host.buf)

SyncCommand == [cmd |-> "sync"]
EraseCommand == [cmd |-> "erase", page |-> host.page]
DownloadCommand == [cmd |-> "download", at |-> host.at, size |-> Announces]
DataCommand == [cmd |-> "data", data |-> Chunk]
CrcCommand == [cmd |-> "crc", at |-> host.at, data |-> host.buf]

(* The command of a phase.                                                 *)
Command ==
    /\ host.step = "call"
    /\ host.phase = "download" => InFlash(host.at, Announces)
    /\ Send(CASE host.phase = "connect" -> SyncCommand
              [] host.phase = "erase" -> EraseCommand
              [] host.phase = "download" -> DownloadCommand
              [] host.phase = "send" -> DataCommand
              [] host.phase = "verify" -> CrcCommand)
    /\ host' = [host EXCEPT !.step = "ack"]
    /\ UNCHANGED <<task, fromDevice, device>>

(* The outcome of a phase's command.  That of CcDnld_startDownload is      *)
(* ignored for a binary file; data are sent up to four times.              *)
Outcome(ok) ==
    LET rest == SubSeq(host.buf, Len(Chunk) + 1, Len(host.buf))
        sent == [host EXCEPT !.buf = rest, !.tries = 0]
    IN CASE host.phase = "connect" -> IF ok THEN Enter(PhaseAfter("connect"))
                                            ELSE [host EXCEPT !.step = "call"]
         [] host.phase = "erase" /\ ok ->
              IF host.page + 1 < NumPages
              THEN [host EXCEPT !.page = @ + 1, !.step = "call"]
              ELSE Enter(PhaseAfter("erase"))
         [] host.phase = "download" /\ task.bin -> ToRead([host EXCEPT !.phase = "send"])
         [] host.phase = "download" /\ ~task.bin /\ ok -> [host EXCEPT !.phase = "send", !.step = "call"]
         [] host.phase = "send" /\ ~ok /\ host.tries < 3 ->
              [host EXCEPT !.tries = @ + 1, !.step = "call"]
         [] host.phase = "send" /\ ok /\ host.eof -> Enter(PhaseAfter("download"))
         [] host.phase = "send" /\ ok /\ ~host.eof /\ rest # <<>> ->
              [sent EXCEPT !.step = "call"]
         [] host.phase = "send" /\ ok /\ ~host.eof /\ rest = <<>> ->
              ToRead([sent EXCEPT !.phase = IF task.bin THEN "send" ELSE "download"])
         [] host.phase = "verify" /\ ok ->
              IF host.eof THEN Enter("done")
              ELSE ToRead([host EXCEPT !.at = @ + Len(host.buf)])
         [] OTHER -> Fail

(* addressInFlash refuses, without a command.                              *)
Refuse ==
    /\ host.step = "call" /\ host.phase = "download"
    /\ ~InFlash(host.at, Announces)
    /\ host' = Outcome(FALSE)
    /\ UNCHANGED <<task, toDevice, fromDevice, device, faults>>

(* n bytes, those that are there and for the others the last one again.    *)
Bytes(n) ==
    LET there == Len(fromDevice)
    IN [i \in 1 .. n |-> IF i <= there THEN fromDevice[i]
                         ELSE IF there = 0 THEN host.last ELSE fromDevice[there]]

(* A read of n bytes ends: they are there, or none will come, or they come *)
(* too late.                                                               *)
Reads(n) ==
    /\ \/ Len(fromDevice) >= n /\ UNCHANGED faults
       \/ Len(fromDevice) < n /\ toDevice = <<>> /\ UNCHANGED faults
       \/ /\ Len(fromDevice) < n /\ toDevice # <<>>
          /\ faults < MaxFaults /\ faults' = faults + 1
    /\ fromDevice' = SubSeq(fromDevice, n + 1, Len(fromDevice))
    /\ UNCHANGED <<task, device>>

(* getCmdResponse.                                                         *)
IsResponse(b) == b[1] = "0" /\ b[2] \in {"cc", "33"}

(* Only CcDnld_connect is content with a NACK; CcDnld_startDownload looks  *)
(* at it last.                                                             *)
GetAck ==
    /\ host.step = "ack" /\ Reads(2)
    /\ LET b == Bytes(2)
           taken == [host EXCEPT !.last = b[2], !.ack = b[2]]
           refused == ~IsResponse(b) \/ (b[2] = "33" /\ host.phase # "download")
       IN host' =
            IF host.phase = "connect" THEN [Outcome(IsResponse(b)) EXCEPT !.last = b[2]]
            ELSE IF refused THEN [Outcome(FALSE) EXCEPT !.last = b[2]]
            ELSE IF host.phase = "verify" THEN [taken EXCEPT !.step = "crc"]
            ELSE [taken EXCEPT !.step = "getStatus",
                               !.status = IF host.phase = "erase" THEN @ ELSE "0"]
    /\ UNCHANGED toDevice

(* readStatus, whose own result is ignored: without a status it is still   *)
(* what it was, in CcDnld_flashEraseRange that of the page before.         *)
GetStatus ==
    /\ host.step = "getStatus"
    /\ Send([cmd |-> "status"])
    /\ host' = [host EXCEPT !.step = "statusAck"]
    /\ UNCHANGED <<task, fromDevice, device>>

Judged(status) ==
    Outcome(status = "40" /\ (host.phase = "download" => host.ack = "cc"))

StatusAck ==
    /\ host.step = "statusAck" /\ Reads(2)
    /\ LET b == Bytes(2)
       IN host' = IF b = <<"0", "cc">>
                  THEN [host EXCEPT !.step = "statusData", !.last = b[2]]
                  ELSE [Judged(host.status) EXCEPT !.last = b[2]]
    /\ UNCHANGED toDevice

(* getResponseData: the length, of which only these make sense, and the    *)
(* bytes that it announces, if they are not more than are wanted.          *)
Announced == CASE Bytes(1)[1] = "3" -> 1 [] Bytes(1)[1] = "6" -> 4 [] OTHER -> 99

StatusData ==
    /\ host.step = "statusData"
    /\ IF Announced = 1
       THEN /\ Reads(3)
            /\ LET status == Bytes(3)[3]
               IN host' = [Judged(status) EXCEPT !.status = status, !.last = status]
       ELSE /\ Reads(2)
            /\ host' = [Judged(host.status) EXCEPT !.last = Bytes(2)[2]]
    /\ UNCHANGED toDevice

CrcOfAnything ==
    /\ host.step = "crc"
    /\ LET n == IF Announced <= 4 THEN 2 + Announced ELSE 2
       IN Reads(n) /\ host' = [Outcome(n = 6) EXCEPT !.last = Bytes(n)[n]]
    /\ UNCHANGED toDevice

(* CcDnld_verifyData: the checksum of the packet, and the CRC.             *)
Crc ==
    /\ host.step = "crc"
    /\ LET n == IF Announced <= 4 THEN 2 + Announced ELSE 2
           b == Bytes(n)
       IN /\ Reads(n)
          /\ host' = [Outcome(n = 6 /\ \A i \in 2 .. 6 : b[i] = "same") EXCEPT !.last = b[n]]
    /\ UNCHANGED toDevice

-----------------------------------------------------------------------------
(* The device, the boot loader in its ROM.                                 *)

Ack == <<"0", "cc">>
Nack == <<"0", "33">>
StatusPacket == <<"3", device.status, device.status>>
CrcPacket(same) == LET v == IF same THEN "same" ELSE "other" IN <<"6", v, v, v, v, v>>

Answer(bytes) ==
    \/ fromDevice' = fromDevice \o bytes /\ UNCHANGED faults
    \/ faults < MaxFaults /\ faults' = faults + 1 /\ UNCHANGED fromDevice

Holds(a, data) ==
    /\ InFlash(a, Len(data))
    /\ \A i \in DOMAIN data : device.flash[a + i - 1] = data[i]

Programmed(data) ==
    [device EXCEPT
       !.flash = [a \in DOMAIN @ |->
                    LET i == a - device.ptr + 1
                    IN IF i \notin DOMAIN data THEN @[a]
                       ELSE IF @[a] = Erased THEN data[i] ELSE Mixed],
       !.ptr = @ + Len(data), !.left = IF @ < Len(data) THEN 0 ELSE @ - Len(data),
       !.status = "40"]

(* It refuses data as long as no download was started.  What it does with  *)
(* more than were announced, or with none, is not known.                   *)
Handle(c) ==
    CASE c.cmd = "erase" ->
           {IF c.page \in task.locked THEN [device EXCEPT !.status = "44"]
            ELSE [device EXCEPT !.status = "40",
                    !.flash = [a \in DOMAIN @ |-> IF a \div PageSize = c.page THEN Erased
                                                  ELSE @[a]]]}
      [] c.cmd = "download" ->
           {[device EXCEPT !.ptr = c.at, !.left = c.size, !.status = "40"]}
      [] c.cmd = "data" ->
           (IF Len(c.data) > device.left \/ c.data = <<>>
            THEN {[device EXCEPT !.status = "42"]} ELSE {})
           \cup (IF device.ptr # NoDownload /\ InFlash(device.ptr, Len(c.data))
                 THEN {Programmed(c.data)} ELSE {})
      [] OTHER -> {device}

Device ==
    /\ toDevice # <<>>
    /\ LET c == Head(toDevice)
       IN /\ device' \in Handle(c)
          /\ Answer(CASE c.cmd = "garbled" -> Nack
                      [] c.cmd = "status" -> Ack \o StatusPacket
                      [] c.cmd = "crc" -> Ack \o CrcPacket(Holds(c.at, c.data))
                      [] OTHER -> Ack)
    /\ toDevice' = Tail(toDevice)
    /\ UNCHANGED <<task, host>>

-----------------------------------------------------------------------------
Working == host.phase \notin {"done", "failed"}

HostStep == Working /\ (ReadBinary \/ ReadRecord \/ Command \/ Refuse \/ GetAck
                        \/ GetStatus \/ StatusAck \/ StatusData \/ Crc)

BootNext == HostStep \/ Device

BootSpec == BootInit /\ [][BootNext]_bootVars

-----------------------------------------------------------------------------
(* What the file says of the flash.                                        *)
Base(k) ==
    LET linear == {l \in 1 .. k : task.records[l].type = "linear"}
    IN IF linear = {} THEN 0 ELSE task.records[Max(linear)].base

Image ==
    IF task.bin THEN StartAddress .. StartAddress + task.size - 1
    ELSE UNION {LET r == task.records[k] IN Base(k) + r.at .. Base(k) + r.at + r.size - 1 :
                k \in DOMAIN task.records}

IsFlashed == \A a \in Image : a < FlashSize /\ device.flash[a] = a + 1

Succeeds == host.phase = "done"

(* A file that was verified is in the flash, whatever was lost, repeated   *)
(* or late on the way, and whichever answer was taken for another's.       *)
VerifiedIsFlashed == Succeeds /\ "verify" \in task.options => IsFlashed

(* "-p: Program [FILE]", the usage says.                                   *)
ProgramsTheFile ==
    Succeeds /\ faults = 0 /\ {"erase", "program"} \subseteq task.options => IsFlashed
=============================================================================
