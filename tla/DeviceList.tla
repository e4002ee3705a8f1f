----------------------------- MODULE DeviceList -----------------------------
(***************************************************************************)
(* The list of devices that survives a restart (csf_linux.c) and the table *)
(* of associated devices of the link controller (cllc.c), which the        *)
(* restart fills from it.                                                  *)
(*                                                                         *)
(* The list is kept in non-volatile storage as one item per device, under  *)
(* a sub-id, and one more item with their number.  The two are written one *)
(* after the other, and the program may end in between.  The table keeps   *)
(* short addresses only.  A new short address is made from the number of   *)
(* devices, which is counted anew after every start, and the sub-id of a   *)
(* new record is the index of the first free slot of the table.            *)
(*                                                                         *)
(* All that changes the list runs on the main loop, so an operation is one *)
(* step, except for the second of its two writes.  Writes do not fail:     *)
(* Nvocmp shows when the store refuses one.                                *)
(***************************************************************************)
EXTENDS Naturals, FiniteSets

CONSTANTS
  Devices,      \* extended addresses
  MaxDevices,   \* CONFIG_MAX_DEVICES, the size of the list and of the table
  MaxShort,     \* bound: the highest short address that is given
  MaxStarts,    \* bound: how often the program starts
  MaxResets,    \* bound: how often the co-processor resets
  CrashAnywhere,\* BOOLEAN: the program may end between two writes
  None

ASSUME SizeAssumption == MaxDevices \in Nat \ {0}
ASSUME BoundAssumption == MaxShort \in Nat /\ MaxStarts \in Nat /\ MaxResets \in Nat
ASSUME CrashAssumption == CrashAnywhere \in BOOLEAN
ASSUME NoneAssumption == None \notin Devices

Invalid == 0                    \* CSF_INVALID_SHORT_ADDR
Short == 1 .. MaxShort
Slot == 0 .. MaxDevices - 1     \* of the table, and the sub-ids in use
Records == [ext : Devices, short : Short]

VARIABLES
  table,         \* Cllc_associatedDevList: the short address of each slot
  numOfDevices,  \* Cllc_numOfDevices
  records,       \* CSF_NV_DEVICELIST_ID: sub-id -> record
  entries,       \* CSF_NV_DEVICELIST_ENTRIES_ID
  pending,       \* what is left of an operation after its first write
  up,            \* the program runs and has restored the network
  intact,        \* history: every start so far found the list as it should be
  starts, resets

vars == <<table, numOfDevices, records, entries, pending, up, intact, starts, resets>>

NoRecord == [ext |-> None, short |-> Invalid]
Idle == [op |-> "none", ext |-> None, short |-> Invalid]

Used == {i \in Slot : records[i] # NoRecord}
Free == {x \in Slot : table[x] = Invalid}
IsFirst(x, S) == x \in S /\ \A y \in S : x <= y

\* The records readContItem may return: any that matches, since the order of
\* the items changes when a page is compacted.  An empty list is not read.
Found(d) == IF entries > 0 THEN {i \in Used : records[i].ext = d} ELSE {}

TypeOK ==
  /\ table \in [Slot -> Short \cup {Invalid}]
  /\ numOfDevices \in Nat
  /\ records \in [Slot -> Records \cup {NoRecord}]
  /\ entries \in 0 .. MaxDevices
  /\ pending \in [op : {"add", "remove", "removeAgain"}, ext : Devices,
                  short : Short \cup {Invalid}] \cup {Idle}
  /\ up \in BOOLEAN /\ intact \in BOOLEAN
  /\ starts \in 0 .. MaxStarts /\ resets \in 0 .. MaxResets

Init ==
  /\ table = [x \in Slot |-> Invalid]
  /\ numOfDevices = 0
  /\ records = [i \in Slot |-> NoRecord]
  /\ entries = 0
  /\ pending = Idle
  /\ up = FALSE /\ intact = TRUE
  /\ starts = 0 /\ resets = 0

Ready == up /\ pending = Idle

saveNumDeviceListEntries(numEntries) == entries' = numEntries

-----------------------------------------------------------------------------
(* A device joins.                                                         *)

\* MUTANT: the index of a new record is the number of records.
CountAsIndex(i) == i = entries

\* The index findUnusedDeviceListIndex returns.
UnusedIndex(i) == IsFirst(i, Free)

NewShort == numOfDevices + 1    \* CLLC_ASSOC_DEVICE_STARTING_NUMBER

\* A device that is not found is given an address and a record, if there is
\* room.  One that is found is told its old address, one for which there is no
\* room that the network is full: neither changes anything.
JoinNew(d) ==
  /\ Ready
  /\ Found(d) = {}
  /\ entries < MaxDevices
  /\ NewShort <= MaxShort
  /\ \E i \in Slot :
       /\ UnusedIndex(i)
       /\ records' = [records EXCEPT ![i] = [ext |-> d, short |-> NewShort]]
  /\ pending' = [op |-> "add", ext |-> d, short |-> NewShort]
  /\ UNCHANGED <<table, numOfDevices, entries, up, intact, starts, resets>>

\* MUTANT: the devices are not counted as they join.
JoinDoneUncounted ==
  /\ up /\ pending.op = "add"
  /\ saveNumDeviceListEntries(entries + 1)
  /\ \E x \in Slot :
       /\ IsFirst(x, Free)
       /\ table' = [table EXCEPT ![x] = pending.short]
  /\ pending' = Idle
  /\ UNCHANGED <<numOfDevices, records, up, intact, starts, resets>>

\* The number of records is saved, the device told that it has joined and put
\* into the first free slot (maintainAssocTable).
JoinDone ==
  /\ up /\ pending.op = "add"
  /\ saveNumDeviceListEntries(entries + 1)
  /\ \E x \in Slot :
       /\ IsFirst(x, Free)
       /\ table' = [table EXCEPT ![x] = pending.short]
  /\ numOfDevices' = numOfDevices + 1
  /\ pending' = Idle
  /\ UNCHANGED <<records, up, intact, starts, resets>>

-----------------------------------------------------------------------------
(* A device leaves, or the operator removes it.                            *)

\* Csf_removeDeviceListItem up to the number of records.
DeleteRecord(d, op) ==
  \E i \in Found(d) :
    /\ records' = [records EXCEPT ![i] = NoRecord]
    /\ pending' = [op |-> op, ext |-> d, short |-> Invalid]

\* The slots of a short address.
SlotsOf(s) == {x \in Slot : table[x] = s}

\* Cllc_removeDevice, for the address s that was found for the device: one that
\* has no slot keeps its record.
RemoveDevice(d, s, op) ==
  /\ \E x \in Slot :
       /\ IsFirst(x, SlotsOf(s))
       /\ table' = [table EXCEPT ![x] = Invalid]
  /\ DeleteRecord(d, op)
  /\ UNCHANGED <<numOfDevices, entries, up, intact, starts, resets>>

\* A disassociation indication (disassocIndCb).
Leave(d) ==
  /\ Ready
  /\ \E i \in Found(d) : RemoveDevice(d, records[i].short, "remove")

\* Csf_removeDevice removes the first record with the address s from the table
\* and the list, and then from the list again.
OperatorRemoves(s) ==
  /\ Ready
  /\ entries > 0
  /\ \E first \in Used :
       /\ IsFirst(first, {i \in Used : records[i].short = s})
       /\ LET d == records[first].ext IN
          \E i \in Found(d) :
            \/ RemoveDevice(d, records[i].short, "removeAgain")
            \/ /\ SlotsOf(records[i].short) = {}
               /\ DeleteRecord(d, "remove")
               /\ UNCHANGED <<table, numOfDevices, entries, up, intact, starts, resets>>

RemoveDone ==
  /\ up /\ pending.op = "remove"
  /\ saveNumDeviceListEntries(IF entries > 0 THEN entries - 1 ELSE 0)
  /\ pending' = Idle
  /\ UNCHANGED <<table, numOfDevices, records, up, intact, starts, resets>>

\* MUTANT: the second deletion lowers the number although it finds nothing.
RemoveAgainLowers ==
  /\ up /\ pending.op = "removeAgain"
  /\ saveNumDeviceListEntries(IF entries > 1 THEN entries - 2 ELSE 0)
  /\ pending' = Idle
  /\ UNCHANGED <<table, numOfDevices, records, up, intact, starts, resets>>

\* The second deletion finds another record of the same device, or none.
RemoveAgainDone ==
  /\ up /\ pending.op = "removeAgain"
  /\ saveNumDeviceListEntries(IF entries > 0 THEN entries - 1 ELSE 0)
  /\ LET left == IF entries' > 0 THEN {i \in Used : records[i].ext = pending.ext} ELSE {}
     IN \/ /\ left = {}
           /\ pending' = Idle
           /\ UNCHANGED records
        \/ \E i \in left :
             /\ records' = [records EXCEPT ![i] = NoRecord]
             /\ pending' = [pending EXCEPT !.op = "remove"]
  /\ UNCHANGED <<table, numOfDevices, up, intact, starts, resets>>

-----------------------------------------------------------------------------
(* Restarts.                                                               *)

Below(S, x) == Cardinality({y \in S : y < x})

\* The record Csf_getDeviceItem(n) reads; a read that finds nothing leaves what
\* was read before, which is the last record.
Restored(n) ==
  records[CHOOSE i \in Used :
            Below(Used, i) = IF n < Cardinality(Used) THEN n ELSE Cardinality(Used) - 1].short

\* Cllc_restoreNetwork puts as many devices as the number says into the free
\* slots.  With no record to read, what it puts there is whatever the variable
\* held.
Restore ==
  \E garbage \in Short \cup {Invalid} :
    LET item(n) == IF Used = {} THEN garbage ELSE Restored(n)
        fits == IF Cardinality(Free) < entries THEN Cardinality(Free) ELSE entries
    IN /\ Used # {} => garbage = Invalid
       /\ table' = [x \in Slot |-> IF table[x] = Invalid /\ Below(Free, x) < entries
                                   THEN item(Below(Free, x)) ELSE table[x]]
       /\ numOfDevices' = numOfDevices
             + IF Used = {} /\ garbage = Invalid /\ Free # {} THEN entries ELSE fits

\* The list as it should be: records from 0 on, as many as counted, and no
\* address that the next devices will be given.
InOrder ==
  /\ Used = 0 .. entries - 1
  /\ \A i \in Used : records[i].short <= entries

Start ==
  /\ ~up /\ starts < MaxStarts
  /\ up' = TRUE
  /\ starts' = starts + 1
  /\ intact' = (intact /\ InOrder)
  /\ Restore
  /\ UNCHANGED <<records, entries, pending, resets>>

\* The program ends, between operations or at any point: what is not stored is
\* lost.
Crash ==
  /\ up
  /\ CrashAnywhere \/ pending = Idle
  /\ up' = FALSE
  /\ table' = [x \in Slot |-> Invalid]
  /\ numOfDevices' = 0
  /\ pending' = Idle
  /\ UNCHANGED <<records, entries, intact, starts, resets>>

\* The co-processor has reset: the network is restored again, onto the table
\* as it is.
Reset ==
  /\ Ready /\ resets < MaxResets
  /\ resets' = resets + 1
  /\ Restore
  /\ UNCHANGED <<records, entries, pending, up, intact, starts>>

Next ==
  \/ \E d \in Devices : JoinNew(d) \/ Leave(d)
  \/ \E s \in Short : OperatorRemoves(s)
  \/ JoinDone \/ RemoveDone \/ RemoveAgainDone
  \/ Start \/ Crash \/ Reset

Spec == Init /\ [][Next]_vars

\* What Csf_getDeviceInformationList tells a web client: as many records as the
\* number says.
Listed == {records[i].ext : i \in {j \in Used : Below(Used, j) < entries}}

-----------------------------------------------------------------------------
(* As long as every start finds the list in order, ...                     *)

\* ... two records are of two devices and hold two addresses, none of which
\* will be given again before the next start (assocIndCb counts devices to make
\* an address, and the count starts anew with each run).
AddressesAreUnique ==
  intact =>
    /\ \A i, j \in Used : i # j => /\ records[i].ext # records[j].ext
                                   /\ records[i].short # records[j].short
    /\ Ready => \A i \in Used : records[i].short < NewShort

\* ... between operations every device of the list is shown to the web clients
\* and has a slot of the table, without which it is neither tracked nor
\* configured.  The number, the records and the table are written one by one.
EveryDeviceIsServed ==
  intact /\ Ready =>
    /\ Listed = {records[i].ext : i \in Used}
    /\ \A i \in Used : SlotsOf(records[i].short) # {}

\* ... the record of a device only goes when that device is removed: it is
\* never written over by another one's.
NobodyIsForgotten ==
  [][intact => \A i \in Used : records'[i] # records[i] =>
                 /\ records'[i] = NoRecord
                 /\ pending'.ext = records[i].ext]_vars

\* What findUnusedDeviceListIndex says of the index it returns: it is not in
\* use.  A restart that finds a gap makes it wrong.
UnusedIndexIsUnused ==
  [][\A i \in Used : records'[i] \in {records[i], NoRecord}]_vars
=============================================================================
