# A TLA+ model of the PocketBeagle gateway's TI 15.4 collector

The repository is a Linux gateway for an IEEE 802.15.4 sensor network: a
program on the host, the *collector*, drives a radio co-processor over a serial
line, keeps the list of the sensors that joined, asks each of them for its
configuration, *tracks* whether they are still there, and serves web clients.
This directory holds a specification of it in TLA+: modules that TLC checks on
small instances and theorems that TLAPS proves for every size.

The build that is modelled is the one the makefiles make: `AUTO_START`,
`NV_RESTORE`, `PROCESS_JS` and `FEATURE_MAC_SECURITY` on, no
`SECURE_COMMISSIONING`, 50 devices at most. Whether the network hops over channels
is a configuration value, `CONFIG_FH_ENABLE`, and off by default: `Trickle` is about a
network that does, the other modules about one that does not.

## Files

| file | what it is |
| --- | --- |
| `Collector.tla` | the collector: main loop, tracking, configuration, callbacks, clocks, web clients' requests |
| `Cllc.tla`, `Trickle.tla` | the start of the network, its restoration, and the join permit; the trickle timers of a network that hops over channels |
| `FrameCounter.tla`, `DeviceList.tla`, `Oad.tla` | what `csf_linux.c` keeps: the frame counter and its saved copy; the saved device list, with crashes between writes; the firmware updates |
| `Broadcast.tla`, `Gateway.tla` | the server's connections and its broadcasts to them; the web gateway at the other end of one |
| `MtMsg.tla`, `MtFragment.tla`, `MtFrame.tla`, `Codec.tla` | the MT layer: synchronous requests; long messages sent in blocks; finding messages among bytes; their fields |
| `SerialPort.tla`, `Mutex.tla`, `Clocks.tla` | the common components: the port with its thread and FIFO; the mutex; the callback timers |
| `Nvocmp.tla`, `NpiServer.tla`, `BootLoader.tla` | the non-volatile store; the server that shares the co-processor; the boot loader's client |
| `Transfer.tla`, `Pipe.tla`, `Lock.tla`, `Store.tla` | what `MtFragment`, `SerialPort`, `Mutex` and `Nvocmp` promise, and implement |
| `Sums.tla` | the sum of a sequence of lengths, which `Nvocmp` and `Codec` need |
| `MCCollector.tla`, `MCCollectorConfig.tla`, `MCCllc.tla`, `MCCsf.tla`, `MCWeb.tla`, `MCMt.tla`, `MCCommon.tla`, `MCServices.tla` | values for TLC, and the suites that check several modules in one run |
| `CollectorProofs.tla`, `CllcProofs.tla`, `CsfProofs.tla`, `WebProofs.tla`, `MtLayersProofs.tla`, `CommonProofs.tla`, `ServicesProofs.tla`, `LengthProofs.tla` | theorems, see *Proofs* |
| `*.cfg` | one TLC run each, see *Runs* |
| `PROJECT.json` | components, runs, mutants, the map from definitions to source lines, findings, hazards, theorems |

`tlc -config Csf.cfg MCCsf.tla` runs one configuration (the module of each is in the
table of the runs); `tlapm CsfProofs.tla` checks proofs.

Definitions whose comment starts with *Mutant* are no part of the specifications:
each changes the definition that follows as a plausible mistake in the code would,
and is there to show that a property would notice.

## The system

```
   sensors  ~radio~  co-processor  --serial/socket--  MT messages (mt_msg.c)
                                                          |
                                                     api_mac.c   callbacks
                                                          |
   non-volatile  --  csf_linux.c  --  collector.c  --  cllc.c
   store (nv/)       timers, list     main loop      joins, table
                                          |
                                       appsrv.c  --sockets--  web clients
```

One thread runs `Collector_process` for ever. It handles the events set in
`Collector_events`, then lets `ApiMac_processIncoming` take one message from the
co-processor and call back into `cllc.c` and `collector.c`; a message waits as
long as events are set. A timer thread sets events when clocks expire. Each web
client has a thread of its own, which calls into `collector.c` for what the
client asks. The MT layer has a receive thread, which completes synchronous
requests and queues asynchronous indications.

### Inventory

**Collector application** (`example/collector/collector.c`).
*State*: the status bits in the association table (`ASSOC_CONFIG_SENT`, `_RSP`,
`ASSOC_TRACKING_SENT`, `_RSP`, `_RETRY`, `_ERROR`, alive), `Collector_events`,
the handle counter `deviceTxMsduHandle`, statistics, firmware file ids.
*Operations*: `Collector_process`, `generateTrackingRequests`,
`generateConfigRequests`, `dataCnfCB`, `dataIndCB`, `pollIndCB`,
`cllcStartedCB`, `cllcDeviceJoiningCB`, `commStatusIndCB`, the senders.
*Hard*: the progress of one tracking and one configuration request is spread
over eight handlers, confirms and responses come in either order or not at all,
and a handler that forgets a clock stops the whole machine.
*Correct when*: one device is tracked at a time and its round always ends; one
configuration request is outstanding at a time and never for ever; every member
is configured and tracked in the end.

**Logical link controller** (`cllc.c`, `cllc_linux.c`).
*State*: `Cllc_associatedDevList`, `Cllc_numOfDevices`, the state of the
network start (scan, choose, start, started), the join permit, coordinator
address, PAN id and channel; with frequency hopping the trickle timers, and where those who
solicit its frames listen.
*Operations*: scans and start, `assocIndCb`, `disassocIndCb`, `orphanIndCb`,
`resetIndCb`, `Cllc_restoreNetwork`, `Cllc_removeDevice`, `Cllc_setJoinPermit`,
`wsAsyncIndCb`, `sendAsyncReq`.
*Interacts*: calls the collector's callbacks; reads and writes the device list.
*Hard*: the table in memory and the list in the store are changed one after the
other; a restart rebuilds the one from the other; the clock of a trickle timer may end
while its event is served.
*Correct when*: the table and the list hold the same devices, no two devices
have one short address, a device that is told it joined is in both; who solicits a frame
is sent one.

**Application specific functions** (`csf_linux.c`).
*State*: the device list (numbered records and a count of them) and the frame
counter in the store; the clocks; `lastSavedCoordinatorFrameCounter`.
*Operations*: `addDeviceListItem`, `Csf_removeDeviceListItem`,
`Csf_getDeviceItem`, `Csf_getDevice`, `Csf_updateFrameCounter`,
`Csf_getFrameCounter`, `Csf_set*Clock`, `Csf_processEvents`.
*Hard*: crash between two writes; indices of the table used for the list; clocks
set from two threads without a lock.
*Correct when*: what was added and not removed is restored, once, after any
crash; no frame counter is used twice; there is one clock of each kind.

**Web client server** (`appsrv.c`).
*State*: the list of connections, each with `is_dead` and `is_busy`, and a lock.
*Operations*: accept, receive and dispatch, broadcast, end of a connection.
*Hard*: every connection's thread and the collector's thread broadcast;
`is_busy` is both the list of what a broadcast has done and the interlock of the
end of a connection, and it is read without the lock.
*Correct when*: a connection is not freed while a broadcast writes to it; a
broadcast reaches each connection once; a dead one is freed.

**Firmware update** (`oad_protocol.c`, parts of `collector.c`).
*State*: ten file ids, the file and block being served.
*Operations*: identify, block request, reset handshake.
*Hard*: the eleventh file replaces the oldest, which a device may be loading.
*Correct when*: the blocks a device receives are of the file it was offered; an
update that needs a reset is sent to a device that has answered one.

**MAC API** (`api_mac.c`) marshals primitives to and from messages. *Hard*: some
two hundred layouts, each announced in one place and written in another, on a buffer
that stops the program when they differ. *Correct when*: they agree, and what the program
goes on with is a whole answer that does not refuse.

**MT message layer** (`mt_msg.c`): *state*: the pending synchronous request,
the queue of received messages, the fragments of a long message, locks and
semaphores. *Hard*: a request times out and its response comes late; fragments
are lost or repeated; bytes come in pieces, with pauses. *Correct when*: a response
answers the request it was sent for; a message is put together from its own fragments;
messages are found in order, once, and all of them while the line does not pause.

**Threads, mutexes, semaphores, FIFOs; timers** (`components/common`).
*State*: a FIFO's ring, a semaphore's count, the list of callback timers.
*Hard*: a callback timer is destroyed by one thread while the timer thread is
calling it. *Correct when*: a destroyed timer does not fire, what is inserted in
a FIFO is removed in its order.

**Streams and serial port** (`stream_uart.c` and others). *State*: the device, its
thread and FIFO. *Hard*: the thread and the reader copy outside of the mutex; the port
is closed under both. *Correct when*: bytes are read in order and none is lost, and no
reader sleeps while there are some.
**Logs, configuration files, command line** are formatting and parsing.

**Non-volatile store** (`components/nv`): *state*: pages of items in a file.
*Operations*: create, read, write, delete, compact, recover. *Hard*: a crash in
the middle of a write or of a compaction. *Correct when*: it is a map from item
to value that keeps every completed write.

**NPI server** (`npi_server2`): shares one co-processor among socket clients. *State*:
the list of connections, each with two threads, two flags and a list of indications.
*Hard*: two threads end a connection together, and flags are read without a lock.
*Correct when*: nothing freed is used, each client is told every indication in order, and
a connection that died is freed.
**Boot loader client** (`cc13xx-sbl`): a sequential download tool, over a line that loses
and delays. *Correct when*: what it says it has verified is in the flash.
**Gateway web application** (`example/gateway`): `appclient.js` holds a copy of
the device list, fed by the collector's messages. *Hard*: answers and news come from two
threads of the server; the connection breaks and is made again. *Correct when*: in the end
it shows the collector's state and devices. `node_modules` is third-party.

`PROJECT.json` says of each component what is modelled, and lists the hazards at
the lines where they bite.

### How the modules fit together

`Collector` sees the link controller as a phase and a table, the store as a list that
is written at once, the co-processor's answers as outcomes of a send, and clocks as
a set. The other modules open these boxes: `DeviceList` and `FrameCounter` what is
saved when, and what a restart makes of it, over the map with a saved copy of
`Store`, which `Nvocmp` implements; `Clocks` what a clock is; `Cllc` what is between
the start event and the started network; `Trickle` what the same loop sends to those who
look for a network that hops; `Oad` the firmware updates that it serves. To the right of
the collector, `Broadcast` is what becomes of its messages to the web clients, and `Gateway` what one of these, the web application,
makes of them.

Below the collector the layers are, from the top: `MtMsg`, what a send is; `Codec`,
the fields of what is sent; `MtFragment`, the message that is too long for a frame, up
to `Transfer`; `MtFrame`, the frame that is found among the bytes of the line; and
`SerialPort`, the bytes of the line, up to `Pipe`. With an NPI server in between,
`NpiServer` is what shares the one port. `Mutex`, up to `Lock`, is why a locked
section is one step in all of them. `BootLoader` is a program of its own.

Modules that share no state are checked in one run by a *suite*: `MCMt`, `MCCsf`,
`MCCommon`, `MCServices` and `MCWeb` hold the variables of all their parts, and a
variable `part` says whose behaviour this one is. The other parts stay in their initial
states, so that the suite has as many states as its parts together and not as their
product. Each part of `MCMt` takes from the part below it what that one promises, no
more: a message as a whole, or bytes in their order.

## What `Collector` models

| variable | in the code |
| --- | --- |
| `assoc`, `status` | `Cllc_associatedDevList[i].shortAddr` and `.status`, a slot each. A freed slot is filled with ones (`cllc.c:884`), so its status is the set of all flags |
| `numDev` | `Cllc_numOfDevices`, which also is the last short address given |
| `nv` | the records of the device list, by index |
| `cllcState` | the phase of the network start, as far as the collector sees it: waiting for the start event, start requested, start confirmed but not yet reported by `Cllc_process`, started |
| `events` | `Collector_events` |
| `timers` | the tracking and configuration clocks that run |
| `pc` | the place of the main loop in `Collector_process` |
| `msduHandle` | `deviceTxMsduHandle`; the handle that a confirm carries is its message counter with the marker bits |
| `tx` | frames that the co-processor took and has not confirmed |
| `asked` | requests that a device received and has not answered |
| `dropped` | history: the last tracking request was reported as not sent |
| `resets` | number of resets, for the bound |
| `renewed` | history: the clock of the event that is being served was set since it was taken up |

*The main loop.* `StartEvent`, `TrackingEvent`, `ConfigEvent`, `CllcProcess` are
the parts of `Collector_process` and `Cllc_process`. The code handles an event
and *then* clears it, and an expiry or a web client's thread may come in
between: `ClearTracking` and `ClearConfig` are steps of their own. A part whose
event is not set is passed within the step before it. `Loop` starts over when
events are left, in which case no message is received.

*Callbacks.* Each message that `ApiMac_processIncoming` hands over is one action
guarded by `Receive`: `StartCnf`, `Join` and `Rejoin` (`assocIndCb`, with
`cllcDeviceJoiningCB`), `Leave` (`disassocIndCb`), `ResetStatus`
(`orphanIndCb`, `commStatusIndCB`), `Poll` (`pollIndCB`, and sensor data, which
do the same to this state), `DataCnf` (`dataCnfCB`), `ConfigRsp` and
`TrackingRsp` (with the sensor data of `Poll` they are `DataInd`, `dataIndCB`) and
`ResetInd`. `RemoveDevice` is the operator's key in `Csf_processEvents`.

*Sending.* `SendMsg` draws a handle and queues the frame. Its outcomes: queued;
refused by the co-processor, always when `TxCapacity` frames wait; unanswered,
when the co-processor took the frame but its reply was lost, so the frame is sent
although the caller is told that it was not. `DataCnf` then confirms a frame as
delivered, as lost, or as failed although it was delivered (the acknowledgement
was lost), and does what the code does from the *handle*: bit 6 marks
configuration requests, bit 5 is taken for a broadcast marker, everything else is
applied to the device marked as tracked.

*Other threads.* `TimerFires` sets an event at any point of the loop. Clocks
run for seconds, so one that a handler has just set is not over before the loop has
cleared the event of that handler (`renewed`): the one guard that is about time. An
older clock may end there, and then its event is lost. `AppConfig`
and `AppToggle` are web clients' requests; each is one step, so the loop's steps
are atomic against them (the counter of the handles is state they share without a
lock, see *Not modelled*).

*Search and restore.* The table is searched from its first slot, as in the code:
`IsFirst`, `FindStatus`, `NextTracked`. `RestoreNetwork` inserts the listed
records in the free slots, whatever the table already holds.

## What `FrameCounter` models

The co-processor numbers the frames it secures. The collector saves the number of
an acknowledged frame when it is a window (25) past the last one it saved, and a
restart sets the co-processor to a window above the saved number. `counter` is
the co-processor's next number, `pending` the acknowledged frames whose confirm
the host has not handled, `lastSaved` the variable of `csf_linux.c:203`, which a
crash sets back to 0, `nv` the item in the store. `StartCounter` is `processStartEvent`,
`DataCnf` the part of `dataCnfCB` that calls `Csf_updateFrameCounter`; `ResetCounter` is
the co-processor's restart, `CrashCounter` the host's, which resets the co-processor and
throws away the messages that come before its answer (`api_mac.c:1718`). `Send` is
the co-processor's; a frame that nobody acknowledges uses up a number and tells the
host nothing, so what is promised is about acknowledged frames only. Writes fail
if `WriteFails`, reads do not.

## What `DeviceList` models

The list of devices is saved as one item per device (`records`, by sub-id) and one
item with their number (`entries`), written one after the other; `pending` is what
is left of an operation after its first write, and `Crash` may come before the
second. `table` is `Cllc_associatedDevList`, which keeps short addresses only;
`numOfDevices` is `Cllc_numOfDevices`. `JoinNew` is `assocIndCb` for a device that
`Csf_getDevice` does not find, with the first write of `addDeviceListItem`;
`JoinDone` the second write, the callback and `maintainAssocTable`. A device that is
found is told its old address, and one for which there is no room that the network
is full: neither changes anything here. `Leave` is `disassocIndCb`,
`OperatorRemoves` `Csf_removeDevice`, which deletes the record twice
(`RemoveAgainDone`). `Start` and `Reset` run `Cllc_restoreNetwork`, onto an empty
table or onto the one that is there: reads that find nothing leave the item that
was read before, and, when none was, an uninitialised one, which is any value.
All this runs on the main loop, so what is not split by two writes is one step.
Writes do not fail. The frame counter that `Csf_updateFrameCounter` writes into a
record (`updateDeviceListItem`) changes neither address and is left out, and
`Csf_clearAllNVItems` has no caller.

Two choices of the code meet here: a new *address* is made from a count of devices
that a restart begins anew, and the *sub-id* of a new record is the index of the
first free slot of the table, which a restart fills from slot 0 on whatever the
sub-ids were. Both are right as long as every start finds the records 0, 1, ...
without a gap, as many as counted, with no address above their number. The history
variable `intact` says that this was so, and the properties are about that case; what
happens in the other one is the run `DeviceListReuse`.

## What `Oad` models

An update begins at the operator's key: `Csf_processEvents` selects the next device or
another image (`SelectDevice`, `GetOadFile`) or starts an update, which for an on-chip
image is a *reset handshake* first: a reset request is sent to the device, and again by
a timer until `OAD_RESET_REQ_MAX_RETRIES`, and when the answer has come the update is
offered (`FwUpdateOnchip`, and `UpdateKeySim`, the key that the code presses itself). `rspNeeded`, `rspRcvd`, `reqSent` and `sendRetry` are the four flags that the
main loop, the indication and the timer's callback share; a callback that has begun when
its timer is stopped still sets its flag (`ringing`). The list of images holds `Slots`
entries and wraps; its ids count on, and a message carries them in 8 bits
(`Identify(d, id)` takes them modulo `ImgIds`). Devices ask for one block after the
other, and `oadBlockReqCb` serves the image that the id leads to, or nothing. Frames
(`air`) are a set: they may be lost, and be late without bound, as those of devices that
sleep are; a frame is not duplicated by the radio, which numbers them.

The history variables: `offered` is the image a device was last offered under each id,
`answered` who has answered in this handshake, and `confused` is that the selection was
changed during it or that a frame of an earlier one was still on its way. In those two
cases the code does take the one device's answer for the other's (`oad_protocol.c:1331`
does not look at who answers), so `UpdatesAreReset` is about the rest.

## What `Clocks` models

`timer_cb.c` keeps an ordered list of timers under a lock, and a thread that sleeps on
a semaphore until the first of them expires or somebody posts. `csf_linux.c` makes its
clocks of them: to set one it destroys the timer of its handle and creates a new one, in
steps between which another thread may come (`SetClock`, `Unlink`, `Clear`, `Create`,
`Keep`).
What is done under the lock is one step. The thread takes the first timer that has
expired, calls it without the lock (`inService`), and puts a periodic one back. The code
looks at times by signed 32-bit differences only, so the time at which a timer expires
is kept as its difference to the present, modulo `Times`; `ClockAssumption` says that
delays, with a thread as late as `MaxLate`, are less than half of that range, as they
are less than 24 days in this program. `overlapped` is that two threads were setting one
clock at once, which `ClockIsKept` does not cover, see *Also seen*; `late` that a timer
was destroyed between being taken and being called.

## What `Cllc` models

`cllc.c` starts a network by an active scan, an energy scan, the choice of a channel
and of a PAN id, and a start request, or restores the saved one by a start request
alone. `coordState` and the event `STATE_CHANGE` are the state machine of
`processState`; `cllcState` is the state that the collector and the join permit look
at. `pc` goes round the loop of `Collector_process`: start event, state, join event,
keys, one message. Requests ignore their status: the co-processor (`scan`) forgets
one that comes while it is busy. Its messages wait in `inbox` in order. A reset
(`CoPReset`) is at once, its indication is taken later, and what was asked for in
between is ended by the second reset of `ApiMac_init` (`resetIndCb`): a scan takes
seconds and a round of the loop milliseconds, so none that began before an indication
was taken ends before it is (`Finishes`). `Init` has an empty store or one with a network
that this program once started. `PanAssumption` says what a neighbourhood has to leave
free: a PAN id that nobody on the channel uses between the configured one and the
largest, since the code counts up without a look at the end (*Also seen*); and that no
channel is as noisy as can be measured.

A web client's thread sets the join permit in three steps between any steps of the
loop: the attribute, the state, the clock (`PermitAttribute`, `PermitState`,
`PermitClock`); the operator's key does so in the loop. `processJoinTimeoutCallback`
is the end of the clock, whose event the loop serves in three steps: the attribute and
the state (`joinPermitExpired`), and *then* the clearing (`ClearJoinEvent`). In between a
client may open the network again, and since durations are milliseconds
(`cllc.h:341`-`344`) its clock may end before the clearing: its event goes with the one
that was served, and the permit stays open (*Also seen*). The history variable `lost` is
that a clock has ended there. A beacon's network is
listed once, the energies are any function of the channels. `findChannel` returns 0
for a PAN id that it does not find, and so finds PAN id 0 always (`Found`). The history
variable `misread` is that the network information was read back from a co-processor
that had reset since it confirmed the start.

## What `Trickle` models

A network that hops over channels (`cllc.c` with `CONFIG_FH_ENABLE`) is found by those who
solicit its advertisement and then its configuration. Of each of the two frames a trickle
timer is kept: its clock (`trickleClk`) sets an event (`TrickleTimeout`, the timer
thread), the loop serves it (`TrickleEvent`: the time is doubled up to its limit and the
clock set again, or the timer rests, and the frame is sent) and *then* clears it
(`ClearTrickleEvent`), so that the end of a clock in between is lost. The clocks run from
the start of the program, before there is a network. `timing` is what the configuration, or
the test mode that `CLLC_LINUX_init` looks at, makes of the limits.

`wsAsyncIndCb` is a solicitation: what `ApiMac_parsePayloadGroupIEs` makes of the groups of
its information elements (`Parsed`: those before the one that ends them, none at all if one
is short), which of the elements in them are looked at (`Read`: after the first name only
the first of each group, as the code's loop goes on), the network's name and the channels
that the solicitor listens on. They are remembered, also those of another network's
solicitors, since the name may come later (`fixedFound`, `hopFound`, `optChMask`); for one's own the
time is made the least. `sendAsyncReq` sends on the channels that were remembered if each
of the solicitors has a fixed one, and on all otherwise, and forgets them. The start
request (`SendFhStart`) may fail, after which nothing tries it again (*Also seen*). A reset
of the co-processor (`FhReset`) ends the network, and who waited for it must
solicit again. The steps of the timer thread and of the loop are one step each but for the
event, and the frames themselves are outside.

`unanswered` is what those listen on who solicited a frame and were not sent one on a channel
where they listen; `missed` that a clock has ended while its event was served. In that case a
timer whose least time is its greatest, as in the test mode (`cllc_linux.c:51`-`57`), has
stopped for good (`Stopped`): no solicitation sets it again, for the time is the least
already. `WhoWaitsIsTimed` is about all other timers. That who waits is answered in the
end follows from it and from the fairness of the loop and of the clocks; it is not stated,
because it is more than TLC can do together with the other parts.

## What `Broadcast` models

`appsrv_broadcast` walks the list of connections from its head again after each
one it has sent to, since the list may change while it sends without the lock; the
flag `is_busy` tells which are done, and the thread of a connection waits for it,
without the lock, before it leaves. `Begin`, `Choose`, `Mark`, `Send`, `Finish` are
the statements of the broadcast that others may come between: `Choose` keeps the
lock (`lock`), because `is_dead` may be set between the look and the mark. `Over`,
`Waited`, `Unlink`, `Free` are the end of `s2appsrv_thread`, `Accept` the server's
thread, `SocketDies` the client, `Stop` the marking of all connections at the end of
`APP_main`. Every other locked section is one step: the lock is the one of `Mutex`.
The history variables `got`, `began`, `overlapped` and `late` serve the properties.

A broadcast that *overlaps* another one (the collector's thread and a connection's
own may both broadcast) resets its marks: it may send twice or miss a client, and a
connection may be freed under it. The properties are about broadcasts that run
alone, and say so by `overlapped`. What a write to a freed connection does is not
modelled; `FreedOnlyIfLate` is about whether it can happen.

## What `Gateway` models

The gateway (`appclient.js`) asks the collector's server for the network and then for
its devices when it has connected, and is told the news in between. The collector's
thread builds one message at a time from what it holds (`news`) and sends it in a later
step; the connection's thread does the same with answers (`answers`); so one may overtake
the other, which the history variable `crossed` notes. `Register` puts a connection on
the list of `Broadcast`: no request is served before (`MayServe`), and no news is sent to
one that is not listed. `link` and `timer` are the socket and the reconnect timer of the
gateway: `OnError` starts the timer unless it runs, `Reconnect` is its end and adds a
callback for 'connect' to those of the attempts that failed (`listeners`). An orderly
end of the connection has no handler: `link` is then `closed` until a browser's request
fails to be written (`Write`). `nwkInfo` and `known` are what browsers are shown,
without the contents. A state change with no network information ends the gateway
(`crashed`, `appclient.js:656`).

## What `MtMsg` models

`MT_MSG_txrx` in the steps that the receive thread may come between: taking
`tx_lock` (`Lock`, or `LockTimeout`), the check that nothing is pending and the
setting of `pCurSreq` (`Post`), the transmission (`Tx`), the wait (`Woken`,
`TimedOut`), the clearing (`ClearCur`), and the return (`Check`, after which the
caller frees the request). `mt_msg_rx_thread` reads `pCurSreq` four times without a
lock: `RxTest`, `RxMatch`, `RxAttach`, `RxClear`; each later read may see a new
value or, since it is a data race, the one read before (`rx.ptr`). What is followed
when it is NULL or freed sets `fault`, which ends the behaviour. Other messages go to
the main thread's list (`RxInsert`, then `RxCount`), from which `ListWait` and
`ListPop` take them; a wait for the list that times out takes a message without a
count. Answers carry the request they answer (`re`), which the code cannot see: it
compares commands. The co-processor answers in turn, or not at all.

## What `MtFragment` models

The sender (`MT_MSG_tx_fragment`, `frag_txrx_one_block`, `wait_for_frag_ack`), its
receive thread, which puts acknowledgements at the head of `pTxFragAck` and raises the
semaphore, a line that loses frames, and the other end (`handle_data_fragment`). A block
carries its number and the size of the message, and nothing that tells one message from
another: `parts` are the messages that the blocks put together come from. A wait may end
*early*, with the answer on its way; with nothing on its way it ends by its timeout.
`MT_MSG_free` releases the acknowledgements behind the one that is freed, too, though the
list still leads to them (`FreeRest`); what happens when one of those is read is not
modelled, and ends the behaviour (`readFreed`).

`Transfer` is what this is to promise: one message at a time, received once at most
and while it is being sent, and no success without reception. Messages have two
blocks and more: one of a single block is acknowledged as complete and never passed
on (`mt_msg.c:1903`), which takes a message no longer than a fragment in a frame of
that length (`mt_msg.c:1387`).

## What `MtFrame` models

`mt_msg_rx` reads a header, looks for the sync byte, reads as much as the length says,
checks the checksum and returns the message, with timeouts at each read. A byte is its
position on the line, and the line is given by where each message ends (`Ends`); a sync
byte is taken not to occur within a message, nor a wrong checksum to be right. `start` and
`nvalid` are what the buffer holds, `nneed` is what the next read waits for. `Arrive`
brings any number of bytes, so that messages come in pieces or several at once; a read
ends when it has what it needs, or at its timeout with what there is. Between messages a
timeout is normal; inside of one it takes a *pause* longer than
`intersymbol_timeout_mSecs`, which `MaxPauses` bounds. `nneed` grows by a message's length
at each short read of it, and the checksum of several messages is zero as that of one is
when their sync bytes cancel out (`ChecksumFits`): after a pause, messages are swallowed
(*Also seen*), which is why `SkippedAfterPausesOnly` is about lines without one.

## What `SerialPort` models

The port with `rd_thread` set has a thread that polls the device and moves bytes into a
FIFO (`WorkerStep`), and a reader that waits on a semaphore and takes them out
(`ReaderStep`); without it the reader polls the device itself. The FIFO's counter and
indices change under its mutex, each a step, but the bytes are copied outside of it,
between two of these: `worker` and `reader` say how many each is moving. `line` may be
unplugged or fail. `Close` and `Free` are the two halves of `_uart_closePtr`, between
which the thread ends. Bytes are numbered, so that `Pipe`, what this promises, can say
that they are taken in order, none twice and none left out.

## What `Codec` models

Each function of `api_mac.c` that sends or receives a message announces a length,
writes or reads fields of given widths, and the buffer of `mt_msg.c` stops the program
(`BUG_HERE`) if the two differ. A request is its announced length, its fields, the
fields of the answer and what becomes of an answer that refuses (`policy`: `read`, `return`,
`ignore`, `noStatus`); an indication is its fields and what it does with them. Values are left
out but for the lengths, counts and kinds that choose a layout. `WriteField`
and `ReadField` go field by field; a received message may be one byte longer or shorter than its
layout. Information elements are written and read as bytes.

## What `Mutex` models

`MUTEX_lock` and `MUTEX_unLock` keep an owner and a count above the lock of
`linux_specific.c`, which itself keeps an owner and a depth under a pthread mutex and
a condition. The count is read under the global lock but written after the lock is
taken, in two steps (`Own`, `Count`), outside of it. `OsTake`, `OsTry`, `OsExpire`
and `OsLate` are `_ATOMIC_local_lock`, whose wait may end in the moment it is
signalled; `OsUnlock` wakes one waiting thread, any one. Failed checks set `broken`,
which stops everything, so the run, which checks for deadlock, covers them.
`Patient` threads wait without a timeout.

## What `Nvocmp` models

A ring of pages in memory (`nv.page`), the active one (`act`), the spare one
(`tail`), the mark of a failed write (`failW`), and the file. `Write` is
`NVOCMP_writeItem` (`WriteItem`) with the search for a page, the compaction (`GetDstPage`,
`CompactPage`, `Move`: what is `Gathered` from a page becomes the spare one) and the marking of the older copy (`SetItemInactive`); `Delete` one deletion; `Truncate` and `Save` are the two halves of
`NV_LINUX_save`, and `Restart` (`InitNv`, `Resume`)
finds whichever the file then is: a short one is
replaced by erased pages, so a crash in between loses everything
(`nv_linux.c:160`-`186`, `200`). The code's paths that repair half-written pages are
not reached in this build, which saves whole images. Page headers, item headers and
checksums are abstracted to states and lengths. `RoomAssumption` is what the callers have to
keep to: their items have one length, or all that they keep leaves room for one more in a
single page, as those of this program do by far. `Store` is what this promises: a
map, a copy of which is saved before a call returns.

## What `NpiServer` models

Each connection has two threads: *u2s* takes indications from the connection's list to the
socket, *s2u* takes requests from the socket to the port, whose lock it holds from a
request to its answer (`LockUart`, `ForwardSreq`). The thread of the port puts every
indication on the list of all connections (`Give`). The two threads end a connection
together: *u2s* marks itself busy, looks whether the connection is dead, sends, and
clears the mark; *s2u*, when it is dead, waits for the mark to be clear before it
destroys the socket's interface; then *u2s* waits for *s2u* to have ended, unlinks and
frees. Flags are read and written without a lock, each a step. `Accept` lists a connection
and creates its threads, `StoreS2u` is the handle of the second being stored, after it may
have run: until then `THREAD_isAlive` says no (`U2sJoin`, history `unseen`). Messages
without an answer go to the port without its lock, which changes nothing here. A section
under the list's lock is one step.

## What `BootLoader` models

`main` goes from phase to phase (`connect`, `erase`, `download` and `send`, `verify`), and
each phase sends commands, reads an acknowledgement, asks for a status and judges it. Answers
are read byte by byte from `fromDevice`: a read that times out leaves what was in the
byte before, so `Bytes` repeats the last. `Send` may lose a command in the flush of the
output or garble it, an answer may be lost, or late, so that it is taken for that of a later
command. `ReadBinary` and `ReadRecord` fill the buffer from the file. A unit of the file
is named by the address behind it, and a cell of the flash holds a name, nothing, or a mixture. The
device is the boot loader in the ROM, external to this repository: what it does with more
data than were announced is a choice.

## Properties

| definition | says |
| --- | --- |
| **Collector** `OneTracked` | at most one device has tracking bits, and it is alive |
| `RoundIsTimed` | a device under tracking has a running clock or an unhandled event, unless its last request could not be sent |
| `OneConfigSent` | at most one device waits for the confirm of a configuration request |
| `GateWillOpen` | then the co-processor holds a configuration request it will confirm |
| `MembersAreConfigured` | once the network has started, all members that stay are configured, as long as devices do not become alive again for ever |
| **Cllc** `NetworkIsProper` | the network that is coordinated is none of those that answered a scan, on a channel of the mask, with a valid PAN id |
| `PermitIsAskedFor` | devices may join only as long as the last request says, or its clock and event are on the way, unless a clock ended while an earlier event was served |
| `NetworkStarts` | a network is started in the end, after failures and resets |
| **Trickle** `WhoWaitsIsTimed` | as long as a solicitor was not sent what it asked for where it listens, a frame will be sent, unless the timer has stopped |
| `NobodyIsLeftOut` | a frame is sent on channels enough for all who solicited it |
| **FrameCounter** `AckedAreBehind` | no number of an acknowledged frame is used again, unless a write failed |
| `SavesAreRare` | each write of the number is a window past the one before, over crashes too |
| **DeviceList** `AddressesAreUnique` | two records are of two devices and addresses, and the next address given is new |
| `EveryDeviceIsServed` | every saved device is listed to clients and has a slot of the table |
| `NobodyIsForgotten` | a record goes only when its device is removed (these three while `intact`) |
| **Oad** `ServedIsOffered` | a device is sent blocks of the image it was offered, or none |
| `UpdatesAreReset` | an on-chip update is sent only to a device that has answered a reset of this handshake |
| **Broadcast** `OnceEach`, `ReachesAll` | a broadcast that runs alone goes once to a connection, and to all that stay |
| `FreedOnlyIfLate` | a connection is freed under a send only if it died between look and mark |
| `DeadAreFreed` | a connection whose socket died, or that was marked, is freed, unless a send to some client never ends |
| **Gateway** `ShownIsTrue` | once nothing is on its way, browsers are shown the collector's state and all its devices |
| `ErrorsAreMended` | after an error the gateway connects again |
| **MtMsg** `NoneIsPending` | the fatal check of `MT_MSG_txrx` never fails |
| `AnswersAreNotStolen` | an answer is never attached to another request while its own is waited for |
| `ErrorsNeedTimeouts` | as long as no wait ended without answer, answers are right and nothing freed is touched |
| `NothingIsStranded` | no message is left on the list without a count |
| `CallsReturn` | every call that waits for the lock returns, or a transmission never ends |
| **MtFragment** `ImplementsTransfer` | the refinement: received once at most, whole, while it is sent, and no success without reception |
| `EverySendEnds` | the sender gets out of its loops |
| **MtFrame** `PassedInOrder` | messages are passed on in order and once, however often the receiver loses its place |
| `SkippedAfterPausesOnly` | none is skipped as long as the line does not pause inside a message |
| **Codec** `SuccessIsReal` | what the program goes on with is a whole message, and one that does not refuse |
| **SerialPort** `SleepsWithoutData` | the reader does not sleep while the FIFO holds bytes and nobody will wake it |
| `ImplementsPipe` | the refinement: bytes are taken in order, none lost, none twice |
| **Mutex** `MutualExclusion`, `NoLostWakeup` | one thread at a time; while the lock is free and threads wait, one is awake |
| `ImplementsLock` | the refinement |
| **Clocks** `SleepsInTime` | the timer thread sleeps past no timer, or is about to be woken |
| `ClockIsKept` | every timer has its handle and every handle its timer; memory is misused only if a timer is destroyed between being taken and being called |
| **Nvocmp** `OneActiveCopy` | no item has two active copies |
| `ImplementsStore` | the refinement |
| **NpiServer** `UsedWhileThere` | what one thread of a connection uses, the other has made and not destroyed |
| `ToldInOrder` | a client is told each indication once and in order, from the first after it was listed |
| `EndedAreFreed` | a connection that has died is freed |
| **BootLoader** `VerifiedIsFlashed` | a file that was verified is in the flash |

`SavesAreRare`, `NobodyIsLeftOut`, `OnceEach`, `NoneIsPending`, `PassedInOrder` and
`MutualExclusion` are proved only; all others are properties of a run. Type invariants
are part of the inductive invariants of the proofs and are not run. `MembersAreTracked`, `UnusedIndexIsUnused` and
`ProgramsTheFile` state what comments and documentation say and the code does not do,
see *Findings*.

## Runs

| run | module | instance | shows |
| --- | --- | --- | --- |
| `CollectorMembers` | `MCCollector` | 2 devices, counter 0..1, 1 frame, refusals, lost replies, departures | `OneTracked`, `RoundIsTimed`, `GateWillOpen` |
| `CollectorThreads` | `MCCollector` | 2 devices, 1 frame, web clients, 1 reset | `OneConfigSent` |
| `CollectorConfig` | `MCCollectorConfig` | 2 devices, 3 frames, departures, `ConfigSpec` | `MembersAreConfigured` |
| `CollectorFirstOnly` | `MCCollector` | 2 devices, `TrackingSpec` | `MembersAreTracked` is violated |
| `Cllc` | `MCCllc` | 2 channels, PAN ids 0..4, two networks heard, 1 failure, 1 reset, the operator's key, a web client with 2 requests | its properties |
| `Csf` | `MCCsf` | `FrameCounter`: window 3, 10 frames, failing writes; `Oad`: 2 devices, 3 images, 2 slots, 3 ids, 1 retry, 3 commands; `DeviceList`: 3 devices and slots, 5 addresses, 3 starts, 1 reset, crashes anywhere; `Trickle`: 2 channels, timers that double once, not, or never, 7 kinds of solicitations of which 2 are heard, 1 reset | `AckedAreBehind`; `ServedIsOffered`, `UpdatesAreReset`; `AddressesAreUnique`, `EveryDeviceIsServed`, `NobodyIsForgotten`; `WhoWaitsIsTimed` |
| `DeviceListReuse` | `DeviceList` | 2 devices, 3 slots, no crash between writes | `UnusedIndexIsUnused` is violated |
| `Web` | `MCWeb` | `Broadcast`: 2 connections, 2 broadcasts; `Gateway`: 1 device, a break with an event or with a browser's request | `ReachesAll`, `FreedOnlyIfLate`, `DeadAreFreed`; `ShownIsTrue`, `ErrorsAreMended` |
| `Mt` | `MCMt` | `MtMsg`: 2 threads, 2 requests, 2 answered commands and one that is not, 1 indication; `MtFragment`: messages of 2, 3 and 2 blocks, 2 tries, 2 losses, 2 early timeouts; `Codec`: all messages, parts of 0, 3 and 200 bytes; `MtFrame`: six messages, 2 pauses; `SerialPort`: FIFO of 3, 4 bytes, reads of 1 and 3 | the properties of the five |
| `Common` | `MCCommon` | `Mutex`: 3 threads, depth 2, one of them patient; `Clocks`: 2 setters, 2 clocks, 3 timers, times modulo 12; `BootLoader`: 3 pages of 4 units, transfers of 2, 2 faults | `NoLostWakeup`, `ImplementsLock`; `SleepsInTime`, `ClockIsKept`; `VerifiedIsFlashed`, and no deadlock |
| `BootLoaderTail` | `MCCommon` | the same | `ProgramsTheFile` is violated |
| `Services` | `MCServices` | `Nvocmp`: 3 pages, 4 items of one length that fill pages or 2 items of two lengths with room to spare; `NpiServer`: 1 client with 2 indications, or 2 with 1 | `OneActiveCopy`, `ImplementsStore`; `UsedWhileThere`, `ToldInOrder`, `EndedAreFreed` |

Each takes between five seconds and three minutes with two workers.

### Bounds

* *Collector.* Two slots are the least with which "one at a time", the round-robin and
  the order of the search mean something; a full table, its release and its reuse
  are reached. `MaxAddr` bounds `numDev`, which the code never lowers: with
  `MaxAddr` = `MaxDevices` each device joins once and may come back by `Rejoin`.
  `HandleMax` stands for 0x3F: 1 has the marker bit and the roll-over; where it is 0
  no counter has the marker bit and confirms are acted upon every time, which the
  liveness runs need (*Also seen*). `TxCapacity` 1 makes overflow frequent, 2 lets two
  confirms come in either order, and 3 holds a request of each kind and one for a device
  that has left. In `CollectorConfig` the confirm of a tracking request comes before the
  tracking clock ends (`ConfirmedInTime`), else the liveness check is beyond the time of a
  run; later ones are in `CollectorMembers`. Once addresses are spent and members have left,
  these two may have nothing to do but the clocks, so they do not check for deadlock; the
  others do.
* *FrameCounter.* `MaxCounter` 10 is three windows and a frame: a save, a restart that
  forgets it and another save; resets and crashes are not bounded.
* *DeviceList.* Three devices leave room for one that was removed between two that
  stay; three starts are one before, one after, and one after a crash. Runs end
  when starts and addresses are spent: `Csf` does not check for deadlock.
* *Oad.* Three images in two slots make one take another's place; three ids are one
  more than slots, so that an id comes back; one retry is one that is sent and one that
  gives up; three commands are a handshake, a change of the choice, and an update.
* *Cllc.* Two channels are the least to choose from; on the first the configured PAN
  id and the next are taken, so that the count goes on twice. One reset puts messages of
  an earlier start before its indication. The loop goes on for ever: deadlock is checked.
* *Trickle.* Two channels are a solicitor's and another one. Times of 1 and 2 are the
  least and the greatest, and a timer that is doubled takes both; two solicitations are of two
  on one frame, or one on each; one reset is heard of by who waited and who did not. The clocks
  go on for ever.
* *Broadcast.* Two connections and the collector's thread give two broadcasts at once
  and a client that comes or goes during each. Clients come once each: no check for
  deadlock.
* *Gateway.* One device tells a known one from an unknown one; each behaviour has one
  break of the link or end of the collector, with one event or one request besides.
  Two `listeners` are one more than a single attempt has.
* *MtMsg.* Two requests are one whose answer is late and the one that is pending
  then. The system stops when both are over: `Mt` does not check for deadlock.
* *MtFragment.* The second message follows one of the same size and of another; two
  losses lose a block and its acknowledgement; two tries reach the retry that starts
  again.
* *MtFrame.* Messages with a payload of the overhead's size or less, and empty ones;
  two pauses cut one message twice, or two.
* *Codec.* Parts are empty, small, or more than a one-byte length holds with the rest;
  a received message is as long as its layout or differs by one byte.
* *SerialPort.* A FIFO of three bytes that takes four goes round; reads of one and of
  three bytes are less and more than what is there.
* *Mutex.* Three threads let two wait for one that has the lock. Depth 2 is the
  least that is recursive.
* *Clocks.* Two setters and two clocks are all that can interleave in pairs; a third
  timer is memory that is used again while a stale handle leads to it. Times go round
  after 12, delays are less than half of that. Timers and setters are symmetric, since
  `Clocks` tells none apart and the other parts have none.
* *BootLoader.* A buffer of 5 is no multiple of a transfer of 2, as 32,768 is none of
  252; three pages let a file end in the last, within it, and begin behind the first.
* *Nvocmp.* Three pages are the active, the spare and one that may be passed over;
  the makefile builds four, with thousands of bytes each.
* *NpiServer.* One client with two indications shows their order, two clients with one
  indication the list and the lock of the port.

The theorems show for all values of the constants what the bounds cut off, where
there are any (*Proofs*).

### Fairness

*Collector*, `MacFairness`: the operating system schedules the loop and the timer
thread (weak fairness of `MainLoop` and of `TimerFires`), and the co-processor
confirms its start and each frame it took. A message can be received only while no
event is set, a condition that recurs but does not stay: callbacks have strong
fairness. `ConfigFairness` takes of these what configuration needs. `ConfigAnswered` says
that some configuration requests are delivered, some of the answers to them come, and some
of the members that are not configured poll, now and then and not of each device by itself;
`TrackingAnswered` says the like of tracking, of each device: only then can a device be
configured or stay alive, and the properties that use them say so in their comments.
No fairness is given to joins, departures, web clients or resets.

*Cllc*: the loop and the clients' threads run, a clock that runs ends, and the
co-processor finishes what it accepted; failures and resets are bounded by
`MaxFaults` and `MaxResets` and not fair.

*Broadcast*: threads run (weak fairness of the steps of broadcasts and of ends); that
broadcasts begin, clients come and sockets die is not fair, and neither is the sending of
a message to a client, which may block: `DeadAreFreed` excepts a send that never ends.
*Gateway*: sockets and timers
call back; that the collector runs in the end is a hypothesis of `ErrorsAreMended`.
*MtMsg*: the senders, the receive thread and the main thread run, and waits have timeouts;
a transmission (`Tx`) is not fair, since a write has no timeout and a block is sent again as
long as it is not acknowledged (`mt_msg.c:1306`), and `CallsReturn` excepts one that never
ends; neither the co-processor nor the death of the receive thread is fair, so calls return
without an answer too. *MtFragment*: sender, receive thread and line run, and finitely many
frames are lost; on a line that loses all, the sender never returns (*Also seen*). That
messages are begun is not fair. *NpiServer*: threads run; the lock of the port is a
mutex that each of its waiters is given in the end (strong fairness of `LockUart`).
In a suite a part that has not begun has no fair action enabled.
*Mutex*, *DeviceList*, *FrameCounter*, *Oad*, *Trickle*, *Codec*, *MtFrame*, *SerialPort*, *Clocks*,
*BootLoader* and *Nvocmp* state safety only.

## Proofs

Everything is proved from the named assumptions on the constants in the modules: for
every number of devices, slots, threads, requests, connections, pages, bytes and so on.
The argument is an inductive invariant each time, with one lemma per action where actions
differ, and one theorem or lemma that puts them together.

**CollectorProofs.** `TypeCorrectness`, `OneDeviceIsTracked`, `RoundsAreTimed`,
`OneDeviceIsAsked`; `GateOpens` when `MaxResets = 0`. The invariant is `IInv == TypeOK
/\ OneTracked /\ RoundIsTimed /\ RoundIsRenewed /\ OneConfigSent`; the parts need one another: that
the next device of a round has no tracking bits of its own is `OneTracked` together
with its second half (only alive members carry tracking bits, and the search looks
at alive members only); `RoundIsTimed` needs it because the handlers restart the
clock for "the" tracked device. The clearing of the tracking event is the step that
needs `pc`, and `RoundIsRenewed`: the clock that closes the round was set by the handler
whose event is cleared, so that it cannot end before. `GateWillOpen` is inductive relative to `IInv`.

**CllcProofs.** `ProperNetwork`, `PermitOnlyIfAsked`. What is started is proper because
each step of the start is answered by what it asked for. `CllcTypes` says what the
variables hold in each state; `LastIsLast` that an end of a scan or of a start is the
last message before a reset's indication; `OneAtATime` that at most one of them is
waited for or on its way, and for the state that asked; `AllAreHeard` that a network
that was heard is in the list or in a message before the confirm; from these `NetsAreProper`,
of the network that runs, is saved, and is being asked for. That the count of PAN ids
ends at a free one is `FreePanIsFree`, from `PanAssumption` and the least element of a
set of numbers. `PermitInv`: an open permit was asked for and not closed by a later
request, while the steps of two requests do not mix; `joinPermitExpired` closes it in two
steps between which a client may open it again, so that the invariant says of each of
the points of the expiry what is left to be done, and of a clock that has ended meanwhile
that it is `lost`.
*Trickle timers*: `NoSolicitorIsForgotten`, `FramesServeAll`. `KindInv` says of each kind of
frame that whoever waits is among those remembered, so that the next frame reaches it
(`AllAreReached`), and that the time is the least then; that a time that is the least is being
waited for, or the timer has stopped; and that when a frame has been sent nobody waits, which
is why an event that is lost while it is served harms no one unless the time was
the least again.

**CsfProofs.** *Frame counter*: `NoAckedCounterAgain`, `WritesAreRare`, from `FcTypeOK /\
SavedIsKnown /\ WindowIsAhead`: the forgotten `lastSaved` is 0 or the saved number, and
while it is 0 every frame of the run is a window past the saved number anyway; the window
above the saved number covers what was acknowledged.
*Device list*: `AddressesStayUnique`, `AllAreServed`, `RecordsGoWithTheirDevices`. The
key is `Mirrored`: while every start found the list in order, each record and its slot
of the table have the same index, so that the first free slot is an unused index.
`Counted` says by how much the saved number lags behind in the middle of an operation;
it is what makes a search of an "empty" list right. `Low` bounds addresses by the
count. `RestoreInOrder` shows that a start that finds the list in order establishes
`Mirrored`, `RestoreOnto` that a reset of the co-processor, which fills free slots a
second time, cannot break it. Types are proved only as far as this needs.
*Firmware updates*: `NoWrongBlock`, `NoUpdateWithoutReset`. The invariant of the list
(`OadInv`) says that the entry of an id is in the slot that the id comes to modulo
`Slots`, with the ids of the last `Slots` images, so that the id in a block request, which
a message carries modulo `ImgIds`, leads to the image that was offered under it or to
none. It rests on lemmas about remainders (`RemainderIsUnique`, `SlotsComeRound`), which the
solver does not find. `HandshakeInv` says what each of the four flags means for the one
handshake that runs.

**WebProofs.** *Broadcasts*: `NobodyIsSentTwice`, `NobodyIsMissed`,
`FreedUnderSendOnlyIfLate`. `Marks` says that for a broadcast that runs alone the
flags on the list are exactly what it has sent to, `Overlaps` that nobody else is
broadcasting then, `Looking` that the lock is kept between look and mark, so that
what was chosen is still listed when it is marked, and `Held` that a mark set in time
stops the connection's thread.
*Web gateway*: `ShownStaysTrue`. `EndsWell` says of messages in their order that, when all
have been taken, what the browsers are shown is right: each has an effect on the network
(`StateEffect`) or on a device (`DeviceEffect`), which it mends, spoils or leaves, and after
each that spoils comes one that mends. `TruthComes`, while no two messages cross: the
network is still asked for, or what is on its way (`OnTheWay`) ends well for its state and for
each device. `WillCross`, that both threads have built a message, is where crossing becomes
inevitable, one step before `crossed` says so. `Linked` has it that a connection that is
not listed yet has been asked for everything, so that events it misses are in the answers.

**MtLayersProofs.** *Synchronous requests*: `NoRequestIsLeftPending`: whoever has `tx_lock` is where
`MT_MSG_txrx` has it, requests are of one thread, and the pending one is that of the
holder, between its posting and its clearing. `NoMessageIsStranded`: by counting.
`NoAnswerIsStolen`: answers on their way are to requests that were sent; one that was
sent is waited for or never will be again (`SentStays`); and while it is waited for,
`pCurSreq` is that request or NULL, so that whichever read the receive thread uses, it
attaches the answer there. `NoErrorWithoutTimeout`: as long as no wait has ended without
its answer, at most one answer is due, that of the last request that was sent, and it is
in one place: not yet sent, on the line, with the receive thread, attached with the count
not yet raised, or counted (`EInv`). So the one the receive thread holds belongs to the
pending request, and nothing that it points to has been freed.
*Serial port*: `NobodySleepsOnData` and `PortIsAPipe`, the refinement of
`Pipe`. Bytes are numbered, and the k-th is in place `Pos(k) = k % Depth` of the memory
(`PlacesAhead`, `GoesRound`). `PortInv` says which bytes are between what was taken out
and what was put in, counting those that the thread or the reader is moving outside
of the mutex: neither touches the places of the other, though counter and indices
change before or after the copying.
*Finding messages*: `NoMessageTwice`, `OnlyPausesLose`. `FrameInv` says that what was passed
on ends before what the buffer begins with, in order; and that without a pause the buffer
begins with a message or its header is being read (`InPlace`).
*Long messages*: `EachIsDelivered`, the refinement of `Transfer`. Frames carry nothing that
tells one message from another, so what keeps them apart has to be the order of the line.
`FragInv` says which blocks can be on it (`BlockInv`: numbers do not go down, and are
the sender's or the one before; blocks of earlier messages come first and the receiver
refuses them), what an acknowledgement that waits or is on its way says of the message
that is being sent (`AckInv`), and what may follow another (`Follows`). `NewIsDelivered`
says that the last block completes a message of parts of the message being sent, which
was not received before; `PopReports` that success is reported only after that. The
theorem has the hypothesis `SeveralBlocks`, that messages have two blocks or more; a
message of one block is acknowledged and not passed on (*Also seen*).

**CommonProofs.** *Mutex*: `TypeCorrect`, `OneAtATime`, `WakeupsAreKept`, `ChecksNeverFail`,
and `MutexIsALock`: `Spec => L!Spec`, each step of `Mutex` being one of `Lock` or a
stutter. `OsLock` and `CountIsHeld` tie the two owners and counts to who is inside:
the values that `MUTEX_lock` writes late are wrong only while somebody has the lock
below, and `OwnerIsInside` says that they are then read by nobody who would act on them.
*Clocks*: `NoTimerIsLate`, `ClocksAreKept`. `ListInv` is that the list holds each timer once,
in the order of their signed differences (`StillSorted`), none of them farther away
than half the range, so that the comparison of two of them means what it says
(`SignedSmall`). `KeptInv` follows a timer and its handle through the steps of a setter
(`OldOnes`, `NewOnes`), with the setters apart (`SettersApart`): `ClockIsKept` excepts two that
set one clock at once.

**ServicesProofs.** *NPI server*: `NothingFreedIsUsed`: what a thread of a connection
uses is there, because *s2u* waits for *u2s* not to be busy (`BusyWhileUsed`) and *u2s*
for *s2u* to have ended, and a connection is freed after it has left the list
(`ListedUntilFreed`). `IndicationsInOrder`: what a client was told, what its thread holds
and what is on its list are together the indications since it was listed, one run of
numbers (`IsAll`, `ToldInv`).
*Boot loader*: `VerifiedStays`. A verification cannot tell an answer from that to another
command, nor does the program see when a byte that it reads was not there. `BootInv` says
why that does no harm. `OneCrc`: while a CRC is waited for, no packet of a CRC is on the
line but that of the present buffer, and when this one has been sent, no command is left;
since only a packet begins with a 6, and the byte repeated by a read without
data is that of an acknowledgement (`StepsVerify`), a CRC that is judged equal is that of the
buffer. `BufferIsFile`: the buffer holds the file from its address on, also when records
of a hex file follow one another or change the base. `VerifiedSoFar`: all that was read
before the buffer is in the flash, and no command is left that would change it
(`Harmless`). For hex files `FileAssumption` says what the format asks: one record ends
the file, and only records of data hold data.

**LengthProofs.** What rests on lengths that add up. The library's induction theorems take a
predicate, which the provers cannot instantiate; here the numbers of which it holds are a
*set* (`Inductive`, `UpTo`, from the least element of a set of numbers, `Least`), and
recursive functions are reasoned about by that.
*Store*: `StoreTypes`, `StoreHasOneCopy`, `StoreImplementsMap`. `StoreInv` says of the pages,
and of those in the file unless it is being written, that one is the spare and empty, no page
holds more than it can, what is active is no more than the callers keep, and no item has two
active copies. A write that finds neither room nor a page to compact is refused with nothing
changed that is read; what has to be shown is that no other is, because that one would leave
the mark (`failW`) with which the next write makes a second copy: a page that is compacted has
room afterwards (`MoveKeeps`, `CompactKeeps`). Its active items are `Gathered` in their order,
and their lengths are a sum over a part of the sum (`Sums`), so that they are less when one of
them is inactive; with items of one length that is room for one more, with room to spare there
always is. Then each call
changes what is found (`Has`) as `Store` says, and a compaction nothing.
*Codec*: `WholeAndReal`. `ReadInv` says that what has been read of a message is what its first
fields take, a sum again (`ReadUpTo`), and that a call that returns a value has passed the status;
so the end of the layout is the end of the message that was announced, for every length of the parts that
vary. Each layout of a request and of an indication is shown to be one that can be read.

Left to TLC are the liveness properties, `MembersAreConfigured`, `NetworkStarts`,
`DeadAreFreed`, `ErrorsAreMended`, `CallsReturn`, `EverySendEnds` and `EndedAreFreed`, since
fairness and ENABLED are beyond the proof system: all other properties of the passing runs
are proved but `GateWillOpen` when the co-processor may reset, where the code does not keep it.
`TypeOK` is proved for `Collector`, `Mutex` and `Nvocmp`; elsewhere types are proved as far as
the invariants need them.

## Findings

Each is a run that TLC ends with a counterexample.

1. `CollectorFirstOnly`: the search for the next device to track starts at the
   device just tracked (`collector.c:2040`), finds it again as long as it answers,
   and never reaches another. The comment says that it finds the next valid device.
2. `DeviceListReuse`: two devices join and get the records 0 and 1; the first leaves;
   the program is started again and puts the second into slot 0; the next device that
   joins finds slot 1 free and is written over record 1, that of the second
   (`csf_linux.c:2647`). The comment says that the index is not in use.
3. `BootLoaderTail`: the loop that programs a file ends when the file has been read to
   its end, so that one transfer of its last buffer is sent and the rest is not
   (`cc13xx-sbl/app/linux/main.c:470`); the operation is reported as completed. The usage
   says that the file is programmed.

### Also seen

What reading and the models show besides, without a run of its own.

*Collector and link controller.*

* If the tracking request of `generateTrackingRequests` is refused,
  `processDataRetry` starts no clock, for it finds the event set: it is the event
  being handled (`collector.c:2246`, `433`). The next poll starts the clock, unless
  the device is in retry. This is the exception in `RoundIsTimed`.
* Bit 5 of the handle marks broadcasts for `dataCnfCB` (`collector.c:1091`) and is the
  top bit of the message counter: half of the failed tracking requests are not
  retried. The confirm of a light toggle is taken for that of a tracking request
  (`collector.c:1100`).
* A configuration request on its way when the co-processor resets is never confirmed:
  the device stays marked and the gate stays closed for all (`collector.c:1917`), which
  is why `GateWillOpen` is about runs without reset.
* The search for a device in need of configuration starts at slot 0 each time: one
  that never answers is forgotten and asked again in one pass, and the ones behind it
  may never be asked as long as it goes on (`collector.c:1920`): it polls, or becomes
  inactive and active, for ever. `MembersAreConfigured` asks that devices stop coming back
  and that somebody who is not configured is heard now and then. A web client's request ignores the
  one-at-a-time rule of `collector.c:1916`.
* After a restart of the program the address of a new device may equal that of a saved
  one (`cllc.c:1477`): the count it is made from starts at the number of records,
  which is lower than the highest address once a device has left.
* When the operator's key and a web client set the join permit at once, their three
  steps mix and the permit may stay open with no clock, though the last request to end
  closed it (`cllc.c:834`). The event of an earlier permit's clock closes a network that
  was opened without end (`cllc.c:502`). A permit that is opened for a few milliseconds while
  the event of an earlier one is served may end before that event is cleared, by which its
  own is lost: it stays open for ever (`cllc.c:502`-`508`). This is the exception (`lost`) in
  `PermitIsAskedFor`.
* A restored network whose start fails is not restored again but searched anew, and
  the saved devices are then on another channel (`cllc.c:1300`).
* The network information is read back when the start confirm is handled, with no look
  at the status (`cllc.c:1158`); if the co-processor has reset since, what is saved is no
  network that was started, and every later start restores it (`misread`).
* A confirm of an energy scan that was asked for between a reset and its indication
  would be taken for that of the next start's active scan (`cllc.c:1256`); it takes a scan
  shorter than a round of the loop, which the model excludes.
* When all channels are as noisy as can be measured, channel 0 is used (`cllc.c:1316`). The
  PAN id is counted up without a look at 0xFFFF (`cllc.c:1237`), which the module itself
  calls invalid. Both are excluded by `PanAssumption`.
* With frequency hopping, a start that the co-processor refuses or ends with a failure is
  not tried again: what tries it is a scan, and a network that hops does not scan
  (`cllc.c:1296`).
* The event of a trickle timer is cleared after it was served: when the clock that was
  set meanwhile has ended already, its event goes with it (`cllc.c:475`). A timer whose least
  time is its greatest then stops for good, since only another time would set it again
  (`cllc.c:2061`).
* In what a solicitor says, the loop over a group's elements goes on only until the first
  name; its channels behind that are not seen.
* A client that sets the join permit between the indication of a reset and the start
  event changes the state that the start event asks for (`collector.c:417`), and the network
  is not started again; `NetworkStarts` is about the runs in which none does.

*Firmware update and clocks.*

* The callback of the retry timer that comes after the answer begins a new handshake
  (`csf_linux.c:2485`). Who answers is not compared with whom was asked
  (`oad_protocol.c:1331`).
* Ids are sent in 8 bits: from the 256th image on no block is served. The image's number
  of blocks is one variable for all updates. The buffer of a block is lost if the device
  is not in the table (`collector.c:2366`-`2405`). An unknown id starts an update of an
  uninitialised file in `Collector_startFwUpdate`.
* A join permit of more than about 24.8 days ends at once, as its delay is negative as a
  signed number. A timer destroyed between being taken and being called is called after
  its memory is freed (`timer_cb.c:246`). Two threads that set one clock may leave it a
  timer that no handle leads to (`csf_linux.c:1816`).

*Web server and gateway.*

* A second broadcast resets the marks of the first (`appsrv.c:522`), see above.
* The orderly end of a connection has no handler in the gateway. Each failed attempt to
  connect leaves a callback, and all of them run at the next success. Removed devices
  are never reported to it, and an older answer can overtake newer news. A gateway that
  connects before the network is up ends at the first change of state
  (`appclient.js:656` against `305`).
* The gateway's `devUpdateInfo` gets the extended address as capability information, and
  its `updateNwkInfo` keeps the mode as a number. Messages cut by TCP are misread.

*MT layer.*

* Block retries have no end on a dead line: the caller's loop does not advance
  (`mt_msg.c:1306`-`1313`), while `collector.cfg:105` says that messages are retried 3
  times, and a short message is written without a timeout: the callers that wait for
  the interface time out, the one that sends does not return. A duplicate block is dropped
  without an acknowledgement and with it what was received so far (`mt_msg.c:1941`), so the
  message is refused and lost.
* A long message of one block is acknowledged and not passed on (`mt_msg.c:1387`, `1903`).
* An answer that comes after its wait has ended may be given to a later request with
  the same command, whose own answer then goes to the next one.
* What `mt_msg_rx` waits for grows at each short read: a message cut by a pause is
  swallowed with the ones behind it, which are passed on as one if the checksum happens
  to fit. If the connection ends inside a message the thread spins.
* `api_mac.c` announces one byte and writes five for security attributes with a scalar
  value, which stops the program (`BUG_HERE`, `log.c:434`); overwrites the status of one
  setting with success; reads 2 bytes of 4 in `ApiMac_mlmeGetFhReqUint32`; reads an answer
  on whose status is a refusal; and checks what it reads against the size of the buffer,
  not the length of the message. An attribute id of 0x100 has no layout at all.

*Serial port, threads, NPI server.*

* `_uart_closePtr` may free the port under its thread: the loop that waits for the
  thread compares its state with itself. A port that is unplugged is noticed by nobody
  when `rd_thread` is set (`npi_server2/app_main.c:122`). A thread whose FIFO is full spins. Each
  inner wait of a read begins its timeout anew.
* In the NPI server *u2s* may look at the handle of *s2u* before it is stored and free a
  connection whose thread is still to run; the list's lock of a connection is created after
  it was listed; a message taken for a dead connection and the list of one that ended are
  never freed; and the check of the second thread's handle looks at the first's.

*Store and boot loader.*

* In the store, a refused write leaves `failW`, and the next one does not look for the
  older copy (`nvocmp.c:2234`); with items of different lengths that fill a page, an
  item can end with two active copies. The program's own items never fill the pages,
  and the two layouts of the run are ones where it does not happen: items of one
  length, or room to spare. With both lengths and no room, `OneActiveCopy` fails.
* `NVOCMP_updateItemApi`, which the program does not call, lets `findItem` overwrite the
  header with the old one (`nvocmp.c:1021`), and so writes as many bytes as the item had
  before, not the `len` it was asked to.
* The boot loader's client sends a chunk again when its acknowledgement was lost: it is
  programmed twice and the rest is shifted, which only `-v` notices. A read that times
  out leaves the byte before it; a late answer is taken for that of a later command.
  A start address off a page's border is ignored when erasing, and `connect` tries for
  ever and takes a refusal for an answer.

## Not modelled

The map covers 31 % of the 51,277 lines of the implementation. Most of the rest are declarations
(`api_mac.h`), marshalling, parsing, formatting, file and socket calls.

* *Collector*: statistics, display, console, log; ramp data, device type and identify
  requests, which send a message and keep nothing; secure commissioning, which this
  build does not use; the contents of messages. In
  `Collector` the store works and writes are atomic, a join is one step, and a
  restart of the *host* is the initial state with any list: `DeviceList` is about
  these. The handle counter is drawn in one step; `getMsduHandle` increments it without a
  lock from several threads (`collector.c:1735`), and two frames may get one handle.
* *Link controller*: the set-up of keys and of the hopping itself; a scan or start request
  that is lost on the serial line, after which the start waits for ever; the liveness of
  the trickle timers.
* *MAC API*: values of fields.
* *MT layer*: the extended status that ends a fragmented message, the set-up and
  destruction of interfaces.
* *Serial port*: writing, and reads after the device has failed. *Streams* over sockets,
  files and memory; *logs, configuration files, command line*: I/O, formatting, parsing.
* *Store*: creation, update, length, iteration and compaction on request, which the
  program does not call; the repair of half-written pages; checksums.
* *NPI server*: its options. *Boot loader client*: options, the parsing of the hex format
  below a record. *Web application*: the pages and what a browser does with them.

## Plan

In this order: the handle counter `getMsduHandle` statement by statement, with two
threads; sockets as streams, with their end; and the liveness of the trickle timers, in
a run of its own.
