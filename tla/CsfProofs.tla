------------------------------ MODULE CsfProofs ------------------------------
(***************************************************************************)
(* Theorems about three parts of csf_linux.c.  FrameCounter: for every     *)
(* window and any number of frames, resets, crashes and failed writes, no  *)
(* acknowledged counter is used again.  Oad: for any number of devices,    *)
(* images, slots and commands, no device is sent blocks of another image   *)
(* than it was offered, or an on-chip update without having been reset.    *)
(* DeviceList: for any number of devices, slots, starts and resets, and    *)
(* with the program ending between any two writes: as long as every start  *)
(* finds the list in order, the records, their number, the table and the   *)
(* count that makes new addresses agree.                                   *)
(***************************************************************************)
EXTENDS FrameCounter, Oad, DeviceList, FiniteSetTheorems, TLAPS

-----------------------------------------------------------------------------
(* Remainders.                                                             *)

\* A number is a multiple and a remainder in one way only.
LEMMA RemainderIsUnique ==
  ASSUME NEW n \in Nat \ {0}, NEW q \in Int, NEW p \in Int,
         NEW r \in 0 .. n - 1, NEW t \in 0 .. n - 1, n * q + r = n * p + t
  PROVE  r = t
<1>1. n * p \in Int /\ n * q \in Int
  OBVIOUS
<1>2. CASE q < p
  <2>1. n * (p - q) >= n /\ n * (p - q) = n * p - n * q
    BY <1>2
  <2> QED
    BY <1>1, <2>1
<1>3. CASE q > p
  <2>1. n * (q - p) >= n /\ n * (q - p) = n * q - n * p
    BY <1>3
  <2> QED
    BY <1>1, <2>1
<1> QED
  BY <1>2, <1>3

\* The slot that is written next is where an image was written Slots before.
LEMMA SlotsComeRound ==
  ASSUME NEW k \in Nat, NEW n \in Nat \ {0}
  PROVE  (k + n) % n = k % n
<1> DEFINE q == k \div n
           p == (k + n) \div n
<1>1. k = n * q + (k % n) /\ (k % n) \in 0 .. n - 1 /\ q \in Int
  OBVIOUS
<1>2. k + n = n * p + ((k + n) % n) /\ ((k + n) % n) \in 0 .. n - 1 /\ p \in Int
  OBVIOUS
<1> HIDE DEF q, p
<1>3. n * q \in Int /\ n * p \in Int /\ q + 1 \in Int /\ n * (q + 1) = n * q + n
  BY <1>1, <1>2
<1>4. n * (q + 1) + (k % n) = n * p + ((k + n) % n)
  BY <1>1, <1>2, <1>3
<1> QED
  BY <1>1, <1>2, <1>3, <1>4, RemainderIsUnique

\* The id that a message carries for an image is that of the image, or so much
\* less that the image it belonged to has long left the list.
LEMMA IdsInMessages ==
  ASSUME NEW k \in Nat, NEW n \in Nat \ {0}
  PROVE  /\ k % n \in 0 .. n - 1 /\ k % n <= k
         /\ k < n => k % n = k
         /\ k >= n => k % n <= k - n
  OBVIOUS

\* The slot of an id.
Home(k) == k % Slots

LEMMA SlotOfId ==
  ASSUME NEW k \in Nat
  PROVE  Home(k) \in 0 .. Slots - 1 /\ (k < Slots => Home(k) = k)
  BY OadAssumption, IdsInMessages DEF Home

LEMMA SlotComesRound ==
  ASSUME NEW k \in Nat
  PROVE  Home(k + Slots) = Home(k)
  BY OadAssumption, SlotsComeRound DEF Home

-----------------------------------------------------------------------------
(* The list of images and what was offered of it.                          *)

\* The entries that an image was written to.
Held == {i \in DOMAIN fileList : fileList[i].file # NoImage}

OadTypes ==
    /\ selectedDevice \in Targets /\ latest \in Nat \ {0}
    /\ fileList \in [0 .. Slots - 1 -> [id : Nat, file : Images \cup {NoImage}]]
    /\ update \in [Targets -> 0 .. ImgIds]
    /\ offered \in [Targets -> [0 .. ImgIds - 1 -> Images \cup {NoImage}]]
    /\ served \in [Targets -> BOOLEAN]

\* The list holds the last images, each where its id says.
ListIsRing ==
    \A i \in DOMAIN fileList :
        /\ fileList[i].id < latest /\ latest <= fileList[i].id + Slots
        /\ IF i \in Held THEN i = Home(fileList[i].id)
                         ELSE fileList[i].id = 0 /\ latest <= i

NamesDiffer == \A i, j \in Held : fileList[i].file = fileList[j].file => i = j

SelectedIsListed == \E i \in Held : fileList[i].id = selectedFile

\* What was offered under an id that is in the list is the image that it has
\* there, and no id is offered before it is given.
OffersHold ==
    /\ \A d \in Targets, id \in 0 .. ImgIds - 1 : offered[d][id] # NoImage => id < latest
    /\ \A d \in Targets, i \in Held :
          fileList[i].id < ImgIds =>
              offered[d][fileList[i].id] \in {NoImage, fileList[i].file}

\* A device asks for blocks of what it was offered.
AskedAreOffered ==
    \A d \in Targets, id \in 0 .. ImgIds - 1 :
        \/ update[d] = id \/ BlockReq(d, id) \in air \/ <<"identify", d, id>> \in air
        => offered[d][id] # NoImage

ListInv == OadTypes /\ ListIsRing /\ NamesDiffer /\ SelectedIsListed
OadInv == ListInv /\ OffersHold /\ AskedAreOffered /\ ServedIsOffered

USE OadAssumption

LEMMA EntryTypes ==
  ASSUME ListInv, NEW i \in DOMAIN fileList
  PROVE  /\ i \in 0 .. Slots - 1 /\ latest \in Nat /\ fileList[i].id \in Nat
         /\ fileList[i].id < latest /\ latest <= fileList[i].id + Slots
         /\ i \in Held => i = Home(fileList[i].id)
         /\ i \notin Held => fileList[i].id = 0 /\ latest <= i
  BY DEF ListInv, OadTypes, ListIsRing

\* An id that is in the list is found there, in the entry that was written.
LEMMA EntryOfUsed ==
  ASSUME ListInv, NEW i \in Held
  PROVE  Entries(fileList[i].id) # {} /\ Entry(fileList[i].id) = fileList[i]
<1> DEFINE id == fileList[i].id
<1>1. i \in Entries(id)
  BY DEF Held, Entries
<1>2. ASSUME NEW j \in Entries(id) PROVE i <= j
  <2>1. j \in DOMAIN fileList /\ fileList[j].id = id
    BY DEF Entries
  <2>2. CASE j \in Held
    <3>1. j = Home(id) /\ i = Home(id) /\ j \in Int
      BY <2>1, <2>2, EntryTypes DEF Held
    <3> QED
      BY <3>1
  <2>3. CASE j \notin Held
    <3>1. id = 0 /\ j \in Nat
      BY <2>1, <2>3, EntryTypes
    <3>2. i = Home(id) /\ Home(0) = 0
      BY EntryTypes, SlotOfId DEF Held
    <3> QED
      BY <3>1, <3>2
  <2> QED
    BY <2>2, <2>3
<1>3. First(Entries(id)) = i
  <2>1. \A j \in Entries(id) : j \in Int
    BY DEF Entries, ListInv, OadTypes
  <2> HIDE DEF id
  <2>2. First(Entries(id)) \in Entries(id)
        /\ \A j \in Entries(id) : First(Entries(id)) <= j
    BY <1>1, <1>2 DEF First
  <2> QED
    BY <1>1, <1>2, <2>1, <2>2
<1> QED
  BY <1>1, <1>3 DEF Entry

\* An id that is found is that of an entry that was written.
LEMMA FoundIsUsed ==
  ASSUME ListInv, NEW id, Entries(id) # {}
  PROVE  \E i \in Held : fileList[i].id = id
<1>1. PICK j \in DOMAIN fileList : fileList[j].id = id
  BY DEF Entries
<1>2. CASE j \in Held
  BY <1>1, <1>2
<1>3. CASE j \notin Held
  <2>1. id = 0 /\ latest <= j /\ j \in 0 .. Slots - 1 /\ latest \in Nat
    BY <1>1, <1>3, EntryTypes
  <2>2. 0 \in DOMAIN fileList
    BY DEF ListInv, OadTypes
  <2>3. 0 \in Held /\ fileList[0].id \in Nat /\ fileList[0].id < latest
        /\ Home(fileList[0].id) = 0
    BY <2>1, <2>2, EntryTypes, OadAssumption DEF ListInv, OadTypes
  <2>4. fileList[0].id = 0
    <3>1. fileList[0].id \in Nat /\ fileList[0].id < Slots
      BY <2>1, <2>3
    <3>2. fileList[0].id < Slots => Home(fileList[0].id) = fileList[0].id
      BY <3>1, SlotOfId, Zenon
    <3> QED
      BY <2>3, <3>1, <3>2
  <2> QED
    BY <2>1, <2>3, <2>4
<1> QED
  BY <1>2, <1>3

\* Two entries that were written have two ids.
LEMMA IdsDiffer ==
  ASSUME ListInv, NEW i \in Held, NEW j \in Held, fileList[i].id = fileList[j].id
  PROVE  i = j
  BY EntryTypes DEF Held

\* An image that is added takes the place of the oldest one.
LEMMA AddKeeps ==
  ASSUME ListInv, NEW f \in Images, Add(f),
         \A i \in DOMAIN fileList : fileList[i].file # f,
         UNCHANGED <<selectedDevice, update, offered, served>>
  PROVE  /\ ListInv'
         /\ \A i \in Held' : fileList'[i].id # latest => i \in Held /\ fileList'[i] = fileList[i]
<1> DEFINE s == Home(latest)
<1>1. latest \in Nat \ {0} /\ s \in 0 .. Slots - 1 /\ DOMAIN fileList = 0 .. Slots - 1
  BY SlotOfId DEF ListInv, OadTypes
<1> HIDE DEF s
<1>2. /\ fileList' = [fileList EXCEPT ![s] = [id |-> latest, file |-> f]]
      /\ selectedFile' = latest /\ latest' = latest + 1
  BY DEF Add, Home, s
<1>3. OadTypes'
  BY <1>1, <1>2 DEF ListInv, OadTypes
<1>4. /\ fileList'[s] = [id |-> latest, file |-> f]
      /\ \A i \in 0 .. Slots - 1 : i # s => fileList'[i] = fileList[i]
      /\ DOMAIN fileList' = 0 .. Slots - 1
  BY <1>1, <1>2 DEF ListInv, OadTypes
<1>5. Held' = Held \cup {s} /\ s \in Held' /\ fileList'[s].id = latest
  BY <1>1, <1>4 DEF Held
<1>6. ListIsRing'
  <2> SUFFICES ASSUME NEW i \in 0 .. Slots - 1
               PROVE  /\ fileList'[i].id < latest' /\ latest' <= fileList'[i].id + Slots
                      /\ IF i \in Held' THEN i = Home(fileList'[i].id)
                                        ELSE fileList'[i].id = 0 /\ latest' <= i
    BY <1>4 DEF ListIsRing
  <2>1. CASE i = s
    BY <1>1, <1>2, <1>4, <1>5, <2>1 DEF s
  <2>2. CASE i # s
    <3>1. fileList'[i] = fileList[i] /\ (i \in Held' <=> i \in Held)
      BY <1>4, <1>5, <2>2
    <3>2. /\ fileList[i].id \in Nat
          /\ fileList[i].id < latest /\ latest <= fileList[i].id + Slots
          /\ i \in Held => i = Home(fileList[i].id)
          /\ i \notin Held => fileList[i].id = 0 /\ latest <= i
      BY <1>1, EntryTypes
    <3>3. CASE i \in Held
      <4>1. latest # fileList[i].id + Slots
        <5> SUFFICES ASSUME latest = fileList[i].id + Slots PROVE FALSE
          OBVIOUS
        <5>1. Home(latest) = Home(fileList[i].id)
          BY <3>2, SlotComesRound
        <5> QED
          BY <2>2, <3>2, <3>3, <5>1 DEF s
      <4> QED
        <5>1. fileList'[i].id = fileList[i].id /\ i \in Held' /\ latest' = latest + 1
          BY <1>2, <3>1, <3>3
        <5>2. fileList[i].id < latest + 1 /\ latest + 1 <= fileList[i].id + Slots
          BY <1>1, <3>2, <4>1
        <5> QED
          BY <3>2, <3>3, <5>1, <5>2
    <3>4. CASE i \notin Held
      <4>1. latest # i
        BY <1>1, <2>2, SlotOfId DEF s
      <4> QED
        BY <1>1, <1>2, <3>1, <3>2, <3>4, <4>1
    <3> QED
      BY <3>3, <3>4
  <2> QED
    BY <2>1, <2>2
<1>7. NamesDiffer'
  BY <1>1, <1>4, <1>5 DEF ListInv, NamesDiffer, Held
<1>8. SelectedIsListed'
  BY <1>2, <1>5 DEF SelectedIsListed
<1> QED
  <2>1. ListInv'
    BY <1>3, <1>6, <1>7, <1>8 DEF ListInv
  <2>2. \A i \in Held' : fileList'[i].id # latest => i \in Held /\ fileList'[i] = fileList[i]
    BY <1>1, <1>4, <1>5 DEF Held
  <2> QED
    BY <2>1, <2>2

\* A name that is in the list is selected there, another one is added.
LEMMA UpdateFwListKeeps ==
  ASSUME ListInv, NEW f \in Images, UpdateFwList(f),
         UNCHANGED <<selectedDevice, update, offered, served>>
  PROVE  /\ ListInv'
         /\ latest' \in {latest, latest + 1}
         /\ \A i \in Held' : \/ fileList'[i].id = latest
                             \/ i \in Held /\ fileList'[i] = fileList[i]
<1> DEFINE known == {i \in DOMAIN fileList : fileList[i].file = f}
<1>1. CASE known = {} /\ Add(f)
  <2>1. \A i \in DOMAIN fileList : fileList[i].file # f
    BY <1>1
  <2>2. latest' = latest + 1
    BY <1>1 DEF Add
  <2> QED
    BY <1>1, <2>1, <2>2, AddKeeps
<1>2. CASE known # {} /\ selectedFile' = fileList[First(known)].id /\ UNCHANGED list
  <2>1. PICK i \in DOMAIN fileList : fileList[i].file = f
    BY <1>2
  <2>2. i \in Held /\ i \in Int
    BY <2>1 DEF Held, ListInv, OadTypes
  <2>3. known = {i}
    BY <2>1, <2>2 DEF ListInv, NamesDiffer, Held
  <2>4. First(known) = i
    <3> HIDE DEF known
    <3> QED
      BY <2>2, <2>3 DEF First
  <2>5. selectedFile' = fileList[i].id /\ UNCHANGED <<fileList, latest>>
    BY <1>2, <2>4 DEF list
  <2> QED
    BY <2>2, <2>5
    DEF ListInv, OadTypes, ListIsRing, NamesDiffer, SelectedIsListed, Held
<1> QED
  BY <1>1, <1>2 DEF UpdateFwList

-----------------------------------------------------------------------------
\* At the start the list holds the default file, and nothing was offered.
LEMMA InitOadInv == OadInit => OadInv
<1> SUFFICES ASSUME OadInit PROVE OadInv
  OBVIOUS
<1> USE DEF OadInit, Csf_init
<1>1. 0 \in 0 .. Slots - 1 /\ Home(0) = 0
  <2>1. 0 \in Nat /\ 0 < Slots /\ 0 \in 0 .. Slots - 1
    OBVIOUS
  <2> QED
    BY <2>1, SlotOfId, Zenon
<1>2. Held = {0} /\ fileList[0].id = 0
  BY <1>1 DEF Held
<1>3. OadTypes
  BY DEF OadTypes, NoUpdate
<1>4. ListIsRing
  BY <1>1, <1>2 DEF ListIsRing
<1>5. NamesDiffer /\ SelectedIsListed
  BY <1>2 DEF NamesDiffer, SelectedIsListed
<1>6. OffersHold /\ AskedAreOffered /\ ServedIsOffered
  BY <1>2 DEF OffersHold, AskedAreOffered, ServedIsOffered, NoUpdate
<1> QED
  BY <1>3, <1>4, <1>5, <1>6 DEF OadInv, ListInv

\* Where neither the list nor the offers change, and nothing new is asked for,
\* the invariant stays.
LEMMA ListKeeps ==
  ASSUME ListInv, UNCHANGED <<selectedFile, fileList, latest, offered>>,
         selectedDevice' \in Targets,
         update' \in [Targets -> 0 .. ImgIds], served' \in [Targets -> BOOLEAN]
  PROVE  ListInv' /\ (OffersHold => OffersHold')
  BY DEF ListInv, OadTypes, ListIsRing, NamesDiffer, SelectedIsListed, OffersHold, Held

LEMMA QuietKeeps ==
  ASSUME OadInv, UNCHANGED <<selectedFile, fileList, latest, offered, served, update>>,
         selectedDevice' \in Targets,
         \A d \in Targets, id \in 0 .. ImgIds - 1 :
            /\ BlockReq(d, id) \in air' => BlockReq(d, id) \in air
            /\ <<"identify", d, id>> \in air' => <<"identify", d, id>> \in air
  PROVE  OadInv'
<1>1. ListInv' /\ OffersHold'
  BY ListKeeps DEF OadInv, ListInv, OadTypes
<1>2. AskedAreOffered' /\ ServedIsOffered'
  BY DEF OadInv, AskedAreOffered, ServedIsOffered
<1> QED
  BY <1>1, <1>2 DEF OadInv

\* Resets are no requests for blocks.
LEMMA SendResetKeeps ==
  ASSUME OadInv, SendReset,
         UNCHANGED <<choice, list, update, served>>
  PROVE  OadInv'
<1>1. air' \in {air, air \cup {ResetReq(selectedDevice)}} /\ UNCHANGED offered
  BY DEF SendReset, Sent, Refused
<1> QED
  BY <1>1, QuietKeeps
  DEF choice, list, ResetReq, BlockReq, OadInv, ListInv, OadTypes

\* An update offers the image that is selected.
LEMMA StartUpdateKeeps ==
  ASSUME OadInv, StartUpdate, UNCHANGED <<choice, list, update, served>>
  PROVE  OadInv'
<1>1. CASE UNCHANGED <<air, offered>>
  BY <1>1, QuietKeeps DEF choice, list, OadInv, ListInv, OadTypes
<1>2. ASSUME air' = air \cup {Identify(selectedDevice, selectedFile)},
             offered' = [offered EXCEPT ![selectedDevice][selectedFile % ImgIds] =
                                            Entry(selectedFile).file]
      PROVE  OadInv'
  <2>1. PICK k \in Held : fileList[k].id = selectedFile
    BY DEF OadInv, ListInv, SelectedIsListed
  <2>2. Entry(selectedFile).file = fileList[k].file
    BY <2>1, EntryOfUsed DEF OadInv
  <2> DEFINE sent == selectedFile % ImgIds
             f == fileList[k].file
  <2>3. /\ f \in Images /\ f # NoImage /\ selectedDevice \in Targets
        /\ offered \in [Targets -> [0 .. ImgIds - 1 -> Images \cup {NoImage}]]
    BY DEF Held, OadInv, ListInv, OadTypes
  <2>4. /\ selectedFile \in Nat /\ selectedFile < latest /\ latest \in Nat
        /\ \A i \in Held : fileList[i].id \in Nat /\ latest <= fileList[i].id + Slots
    BY <2>1, EntryTypes DEF OadInv, Held
  <2>5. /\ sent \in 0 .. ImgIds - 1 /\ sent < latest
        /\ selectedFile < ImgIds => sent = selectedFile
        /\ selectedFile >= ImgIds => sent <= selectedFile - ImgIds
    <3>1. selectedFile \in Nat /\ ImgIds \in Nat \ {0}
      BY <2>4
    <3>2. /\ sent \in 0 .. ImgIds - 1 /\ sent <= selectedFile
          /\ selectedFile < ImgIds => sent = selectedFile
          /\ selectedFile >= ImgIds => sent <= selectedFile - ImgIds
      BY <3>1, IdsInMessages, Zenon
    <3> HIDE DEF sent
    <3> QED
      BY <2>4, <3>1, <3>2
  <2>6. \A i \in Held : fileList[i].id = sent => i = k
    <3> SUFFICES ASSUME NEW i \in Held, fileList[i].id = sent PROVE i = k
      OBVIOUS
    <3>1. selectedFile < ImgIds
      BY <2>4, <2>5
    <3> QED
      BY <2>1, <2>5, <3>1, IdsDiffer DEF OadInv
  <2> HIDE DEF sent, f
  <2>7. offered' = [offered EXCEPT ![selectedDevice][sent] = f]
    BY <1>2, <2>2 DEF sent, f
  <2>8. ASSUME NEW d \in Targets, NEW id \in 0 .. ImgIds - 1
        PROVE  offered'[d][id] = IF d = selectedDevice /\ id = sent THEN f
                                 ELSE offered[d][id]
    BY <2>3, <2>5, <2>7
  <2>9. offered' \in [Targets -> [0 .. ImgIds - 1 -> Images \cup {NoImage}]]
    BY <2>3, <2>5, <2>7
  <2>10. ListInv'
    BY <2>9
    DEF OadInv, ListInv, OadTypes, ListIsRing, NamesDiffer, SelectedIsListed, Held,
        choice, list
  <2>11. OffersHold'
    <3>1. ASSUME NEW d \in Targets, NEW id \in 0 .. ImgIds - 1, offered'[d][id] # NoImage
          PROVE  id < latest'
      BY <2>5, <2>8, <3>1 DEF OadInv, OffersHold, list
    <3>2. ASSUME NEW d \in Targets, NEW i \in Held, fileList[i].id < ImgIds
          PROVE  offered'[d][fileList[i].id] \in {NoImage, fileList[i].file}
      <4>1. fileList[i].id \in 0 .. ImgIds - 1
        BY <2>4, <3>2
      <4>2. offered[d][fileList[i].id] \in {NoImage, fileList[i].file}
        BY <3>2 DEF OadInv, OffersHold
      <4> QED
        BY <2>6, <2>8, <4>1, <4>2 DEF f
    <3> QED
      BY <3>1, <3>2 DEF OffersHold, Held, list
  <2>12. AskedAreOffered'
    <3> SUFFICES ASSUME NEW d \in Targets, NEW id \in 0 .. ImgIds - 1,
                        \/ update'[d] = id \/ BlockReq(d, id) \in air'
                        \/ <<"identify", d, id>> \in air'
                 PROVE  offered'[d][id] # NoImage
      BY DEF AskedAreOffered
    <3>1. \/ update[d] = id \/ BlockReq(d, id) \in air \/ <<"identify", d, id>> \in air
          \/ d = selectedDevice /\ id = sent
      BY <1>2 DEF Identify, BlockReq, sent
    <3> QED
      BY <2>3, <2>8, <3>1 DEF OadInv, AskedAreOffered
  <2> QED
    BY <2>10, <2>11, <2>12 DEF OadInv, ServedIsOffered
<1> QED
  BY <1>1, <1>2 DEF StartUpdate, StartFwUpdate, Refused

\* The image that takes the place of another one has an id that was never
\* offered.
LEMMA GetOadFileKeeps ==
  ASSUME OadInv, NEW f \in Images, GetOadFile(f)
  PROVE  OadInv'
<1>1. /\ UpdateFwList(f)
      /\ UNCHANGED <<selectedDevice, update, offered, served, air>>
  BY DEF GetOadFile, oadPast
<1>2. /\ ListInv' /\ latest' \in {latest, latest + 1} /\ latest \in Nat
      /\ \A i \in Held' : \/ fileList'[i].id = latest
                          \/ i \in Held /\ fileList'[i] = fileList[i]
  BY <1>1, UpdateFwListKeeps DEF OadInv, ListInv, OadTypes
<1>3. OffersHold'
  <2>1. ASSUME NEW d \in Targets, NEW id \in 0 .. ImgIds - 1, offered'[d][id] # NoImage
        PROVE  id < latest'
    BY <1>1, <1>2, <2>1 DEF OadInv, OffersHold
  <2>2. ASSUME NEW d \in Targets, NEW i \in Held', fileList'[i].id < ImgIds
        PROVE  offered'[d][fileList'[i].id] \in {NoImage, fileList'[i].file}
    <3>1. CASE fileList'[i].id = latest
      <4>1. latest \in 0 .. ImgIds - 1
        BY <1>2, <2>2, <3>1
      <4>2. offered[d][latest] = NoImage
        BY <1>2, <4>1 DEF OadInv, OffersHold
      <4> QED
        BY <1>1, <3>1, <4>2
    <3>2. CASE i \in Held /\ fileList'[i] = fileList[i]
      BY <1>1, <2>2, <3>2 DEF OadInv, OffersHold
    <3> QED
      BY <1>2, <3>1, <3>2
  <2> QED
    BY <2>1, <2>2 DEF OffersHold
<1>4. AskedAreOffered' /\ ServedIsOffered'
  BY <1>1 DEF OadInv, AskedAreOffered, ServedIsOffered
<1> QED
  BY <1>2, <1>3, <1>4 DEF OadInv

\* A block is taken from the entry that the id is found in.
LEMMA OadBlockReqKeeps ==
  ASSUME OadInv, NEW d \in Targets, NEW id \in 0 .. ImgIds - 1, OadBlockReq(d, id)
  PROVE  OadInv'
<1>1. /\ BlockReq(d, id) \in air /\ air' = air \ {BlockReq(d, id)}
      /\ UNCHANGED <<selectedDevice, selectedFile, fileList, latest, update, offered>>
  BY DEF OadBlockReq, choice, list
<1>2. CASE UNCHANGED served
  BY <1>1, <1>2, QuietKeeps DEF OadInv, ListInv, OadTypes
<1>3. CASE /\ Entries(id) # {}
           /\ served' = [served EXCEPT ![d] = Entry(id).file = offered[d][id]]
  <2>1. PICK i \in Held : fileList[i].id = id
    BY <1>3, FoundIsUsed DEF OadInv
  <2>2. Entry(id).file = fileList[i].file
    BY <2>1, EntryOfUsed DEF OadInv
  <2>3. offered[d][id] # NoImage
    BY <1>1 DEF OadInv, AskedAreOffered
  <2>4. offered[d][id] = fileList[i].file
    BY <2>1, <2>3 DEF OadInv, OffersHold
  <2>5. served' = [served EXCEPT ![d] = TRUE]
    BY <1>3, <2>2, <2>4
  <2>6. ListInv' /\ OffersHold'
    BY <1>1, <2>5, ListKeeps DEF OadInv, ListInv, OadTypes
  <2>7. AskedAreOffered'
    BY <1>1 DEF OadInv, AskedAreOffered
  <2>8. ServedIsOffered'
    BY <2>5 DEF OadInv, ListInv, OadTypes, ServedIsOffered
  <2> QED
    BY <2>6, <2>7, <2>8 DEF OadInv
<1> QED
  BY <1>2, <1>3 DEF OadBlockReq

\* A device asks for what it was offered.
LEMMA DeviceKeeps ==
  ASSUME OadInv, NEW d \in Targets, DeviceStep(d)
  PROVE  OadInv'
<1>1. UNCHANGED <<selectedDevice, selectedFile, fileList, latest, offered, served>>
  BY DEF DeviceStep, choice, list, oadPast
<1>2. update \in [Targets -> 0 .. ImgIds]
  BY DEF OadInv, ListInv, OadTypes
<1>3. CASE ResetDevice(d)
  <2>1. update' = [update EXCEPT ![d] = ImgIds]
        /\ air' = (air \ {ResetReq(d)}) \cup {ResetRsp(d)}
    BY <1>3 DEF ResetDevice, NoUpdate
  <2>2. AskedAreOffered'
    BY <1>1, <1>2, <2>1 DEF OadInv, AskedAreOffered, ResetRsp, BlockReq
  <2> QED
    BY SMTT(30), <1>1, <1>2, <2>1, <2>2, ListKeeps
    DEF OadInv, ListInv, OadTypes, ServedIsOffered
<1>4. CASE Ask(d)
  <2>1. update[d] \in 0 .. ImgIds - 1
        /\ air' = air \cup {BlockReq(d, update[d])} /\ UNCHANGED update
    BY <1>2, <1>4 DEF Ask, NoUpdate
  <2>2. AskedAreOffered'
    BY <1>1, <2>1 DEF OadInv, AskedAreOffered, BlockReq
  <2> QED
    BY <1>1, <1>2, <2>1, <2>2, ListKeeps
    DEF OadInv, ListInv, OadTypes, ServedIsOffered
<1>5. ASSUME NEW id \in 0 .. ImgIds - 1, TakeOffer(d, id) PROVE OadInv'
  <2>1. /\ <<"identify", d, id>> \in air /\ air' = air \ {<<"identify", d, id>>}
        /\ update' = [update EXCEPT ![d] = id]
    <3>1. id \in Nat /\ ImgIds \in Nat \ {0} /\ id < ImgIds
      OBVIOUS
    <3>2. id % ImgIds = id
      BY <3>1, IdsInMessages, Zenon
    <3> QED
      BY <1>5, <3>2 DEF TakeOffer, Identify
  <2>2. AskedAreOffered'
    BY <1>1, <1>2, <2>1 DEF OadInv, AskedAreOffered, BlockReq
  <2> QED
    BY SMTT(30), <1>1, <1>2, <2>1, <2>2, ListKeeps
    DEF OadInv, ListInv, OadTypes, ServedIsOffered
<1> QED
  BY <1>3, <1>4, <1>5 DEF DeviceStep

\* No step breaks the invariant.
LEMMA NextOadInv == OadInv /\ [OadNext]_oadVars => OadInv'
<1> SUFFICES ASSUME OadInv, [OadNext]_oadVars PROVE OadInv'
  OBVIOUS
<1>1. CASE UNCHANGED oadVars
  BY <1>1, QuietKeeps DEF oadVars, choice, list, oadPast, OadInv, ListInv, OadTypes
<1>2. ASSUME NEW d \in Targets, SelectDevice(d) PROVE OadInv'
  BY <1>2, QuietKeeps DEF SelectDevice, list, flags, OadInv, ListInv, OadTypes
<1>3. ASSUME NEW d \in Targets, OadResetRsp(d) PROVE OadInv'
  BY <1>3, QuietKeeps DEF OadResetRsp, choice, list, OadInv, ListInv, OadTypes
<1>4. CASE Ring \/ ResetReqRetryTimeout
  BY <1>4, QuietKeeps
  DEF Ring, ResetReqRetryTimeout, choice, list, oadPast, OadInv, ListInv, OadTypes
<1>5. CASE FwUpdateOffchip \/ FwUpdateOnchip \/ UpdateKeySim
  <2>1. (SendReset \/ StartUpdate) /\ UNCHANGED <<choice, list, update, served>>
    BY <1>5 DEF FwUpdateOffchip, FwUpdateOnchip, UpdateKeySim, Onchip
  <2> QED
    BY <2>1, SendResetKeeps, StartUpdateKeeps
<1> QED
  BY <1>1, <1>2, <1>3, <1>4, <1>5, GetOadFileKeeps, OadBlockReqKeeps, DeviceKeeps
  DEF OadNext

\* The list, what is offered of it and what is asked for agree throughout.
LEMMA OadInvariant == OadSpec => []OadInv
  BY InitOadInv, NextOadInv, PTL DEF OadSpec

\* However many images have taken each other's place in oad_file_list, and though
\* a message carries only some bits of an id: a device is sent blocks of the
\* image that it was offered, or none.
THEOREM NoWrongBlock == OadSpec => []ServedIsOffered
<1>1. OadInv => ServedIsOffered
  BY DEF OadInv
<1> QED
  BY <1>1, OadInvariant, PTL

-----------------------------------------------------------------------------
(* The reset handshake.                                                    *)

\* While nothing else was selected, resets are those of the device that is
\* selected, and so is an answer.
HandshakeInv ==
    /\ selectedDevice \in Targets
    /\ rspRcvd => reqSent
    /\ reqSent /\ ~confused =>
          /\ \A d \in Targets : ResetReq(d) \in air \/ ResetRsp(d) \in air =>
                d = selectedDevice
          /\ rspRcvd => selectedDevice \in answered

\* A reset request begins a handshake, or belongs to the one that goes on.
LEMMA SendResetKeepsOne ==
  ASSUME HandshakeInv, SendReset, UNCHANGED <<choice, list, update, served>>,
         ~rspRcvd
  PROVE  HandshakeInv'
<1> USE DEF HandshakeInv
<1>1. UNCHANGED <<selectedDevice, rspRcvd>>
  BY DEF SendReset, choice
<1>2. CASE Finish
  BY <1>1, <1>2 DEF Finish
<1>3. CASE /\ air' \in {air, air \cup {ResetReq(selectedDevice)}} /\ reqSent
           /\ UNCHANGED <<answered, confused>>
  BY <1>1, <1>3 DEF ResetReq, ResetRsp
<1>4. CASE air' \in {air, air \cup {ResetReq(selectedDevice)}} /\ Fresh
  BY <1>1, <1>4 DEF Fresh, ResetReq, ResetRsp
<1> QED
  BY <1>2, <1>3, <1>4 DEF SendReset, Sent

\* No step breaks it.
LEMMA NextHandshakeInv == HandshakeInv /\ [OadNext]_oadVars => HandshakeInv'
<1> SUFFICES ASSUME HandshakeInv, [OadNext]_oadVars PROVE HandshakeInv'
  OBVIOUS
<1>1. CASE FwUpdateOffchip \/ FwUpdateOnchip \/ UpdateKeySim
  <2>1. \/ SendReset /\ ~rspRcvd /\ UNCHANGED <<choice, list, update, served>>
        \/ StartUpdate /\ UNCHANGED choice
    BY <1>1 DEF FwUpdateOffchip, FwUpdateOnchip, UpdateKeySim, Onchip
  <2>2. CASE StartUpdate /\ UNCHANGED choice
    BY <2>2 DEF StartUpdate, Finish, HandshakeInv, choice
  <2> QED
    BY <2>1, <2>2, SendResetKeepsOne
<1> USE DEF HandshakeInv
<1>2. CASE UNCHANGED oadVars
  BY <1>2 DEF oadVars, choice, flags, oadPast
<1>3. ASSUME NEW d \in Targets, SelectDevice(d) PROVE HandshakeInv'
  BY <1>3 DEF SelectDevice, flags
<1>4. ASSUME NEW d \in Targets, OadResetRsp(d) PROVE HandshakeInv'
  BY <1>4 DEF OadResetRsp, choice
<1>5. ASSUME NEW f \in Images, GetOadFile(f) PROVE HandshakeInv'
  BY <1>5 DEF GetOadFile, flags, oadPast
<1>6. ASSUME NEW d \in Targets, NEW id \in 0 .. ImgIds - 1, OadBlockReq(d, id)
      PROVE  HandshakeInv'
  BY <1>6 DEF OadBlockReq, choice, flags
<1>7. CASE Ring \/ ResetReqRetryTimeout
  BY <1>7 DEF Ring, ResetReqRetryTimeout, choice, flags, oadPast
<1>8. ASSUME NEW d \in Targets, DeviceStep(d) PROVE HandshakeInv'
  <2>1. UNCHANGED <<selectedDevice, rspRcvd, reqSent, answered, confused>>
    BY <1>8 DEF DeviceStep, choice, flags, oadPast
  <2>2. CASE ResetDevice(d)
    BY <2>1, <2>2 DEF ResetDevice, ResetReq, ResetRsp
  <2>3. CASE Ask(d)
    BY <2>1, <2>3 DEF Ask, BlockReq, ResetReq, ResetRsp
  <2>4. ASSUME NEW id \in 0 .. ImgIds - 1, TakeOffer(d, id) PROVE HandshakeInv'
    BY <2>1, <2>4 DEF TakeOffer
  <2> QED
    BY <1>8, <2>2, <2>3, <2>4 DEF DeviceStep
<1> QED
  BY <1>1, <1>2, <1>3, <1>4, <1>5, <1>6, <1>7, <1>8 DEF OadNext

LEMMA HandshakeInvariant == OadSpec => []HandshakeInv
<1>1. OadInit => HandshakeInv
  BY DEF OadInit, HandshakeInv
<1> QED
  BY <1>1, NextHandshakeInv, PTL DEF OadSpec

\* An on-chip update is only sent to a device that has answered a reset of this
\* handshake, whatever the order of answers, retries and commands, as long as the
\* operator selects no other device in it and no frame of an earlier one is left.
THEOREM NoUpdateWithoutReset == OadSpec => UpdatesAreReset
<1>1. ASSUME HandshakeInv, OadNext, ~confused, offered' # offered, rspNeeded'
      PROVE  reqSent /\ selectedDevice \in answered
  <2>1. CASE FwUpdateOnchip \/ UpdateKeySim
    <3>1. rspRcvd
      BY <1>1, <2>1 DEF FwUpdateOnchip, UpdateKeySim, Onchip, SendReset
    <3> QED
      BY <1>1, <3>1 DEF HandshakeInv
  <2>2. CASE FwUpdateOffchip
    BY <1>1, <2>2 DEF FwUpdateOffchip
  <2>3. \/ FwUpdateOnchip \/ UpdateKeySim \/ FwUpdateOffchip
    BY <1>1 DEF OadNext, SelectDevice, GetOadFile, OadResetRsp, OadBlockReq, DeviceStep,
                Ring, ResetReqRetryTimeout, oadPast
  <2> QED
    BY <2>1, <2>2, <2>3
<1>2. HandshakeInv /\ [OadNext]_oadVars =>
        [~confused /\ offered' # offered /\ rspNeeded' =>
             reqSent /\ selectedDevice \in answered]_oadVars
  BY <1>1
<1> QED
  BY <1>2, HandshakeInvariant, PTL DEF OadSpec, UpdatesAreReset

-----------------------------------------------------------------------------
(* The frame counter.                                                      *)

(* An item that is absent is no counter.                                   *)
LEMMA AbsentIsNoCounter == Absent \notin Nat
  BY DEF Absent

USE ConstantsAssumption, AbsentIsNoCounter

(* The coordinator's start keeps the inductive invariant: a new run begins *)
(* a window above the saved counter, or at 0 when nothing was acknowledged.*)
LEMMA StartCounterKeeps == IInv /\ StartCounter => IInv'
  <1> SUFFICES ASSUME IInv, StartCounter PROVE IInv'
    OBVIOUS
  <1>1. CASE nv # Absent
    BY <1>1
    DEF StartCounter, GetFrameCounter, IInv, FcTypeOK, SavedIsKnown, WindowIsAhead
  <1>2. CASE nv = Absent
    <2>1. running' \in BOOLEAN /\ failed' \in BOOLEAN
      BY <1>2 DEF StartCounter, GetFrameCounter, Written, NotWritten, IInv, FcTypeOK
    <2>2. /\ counter' = 0 /\ waiting' = {} /\ lastSaved' = 0
          /\ nv' \in {0, nv} /\ acked' = acked
      BY <1>2
      DEF StartCounter, GetFrameCounter, Written, NotWritten, IInv, FcTypeOK, SavedIsKnown
    <2>3. ~failed' => ~failed /\ nv' = 0
      BY <1>2 DEF StartCounter, GetFrameCounter, Written, NotWritten
    <2>4. FcTypeOK'
      BY <2>1, <2>2 DEF IInv, FcTypeOK
    <2>5. SavedIsKnown'
      BY <1>2, <2>2 DEF SavedIsKnown
    <2>6. WindowIsAhead'
      BY <1>2, <2>2, <2>3 DEF IInv, FcTypeOK, WindowIsAhead
    <2> QED
      BY <2>4, <2>5, <2>6 DEF IInv
  <1> QED
    BY <1>1, <1>2

(* A frame that is sent has the highest counter so far.                    *)
LEMMA SendKeeps ==
    ASSUME IInv, NEW acknowledged \in BOOLEAN, Send(acknowledged)
    PROVE  IInv'
  BY DEF Send, IInv, FcTypeOK, SavedIsKnown, WindowIsAhead

(* Where the counter of a confirm is saved, it lies a window above what    *)
(* was saved before, in this run or in an earlier one.                     *)
LEMMA SavedIsPast ==
    ASSUME IInv, NEW c \in waiting, c >= lastSaved + Window, nv # Absent
    PROVE  c >= nv + Window
  BY DEF IInv, FcTypeOK, SavedIsKnown

(* The confirm of a frame keeps the inductive invariant: its counter is    *)
(* saved, or lies within the window above the saved one.                   *)
LEMMA DataCnfKeeps ==
    ASSUME IInv, NEW c \in waiting, DataCnf(c)
    PROVE  IInv'
  <1>1. c \in Nat /\ running /\ c < counter
    BY DEF IInv, FcTypeOK, SavedIsKnown
  <1>2. acked' \in Nat /\ acked' >= acked /\ acked' > c
    BY <1>1 DEF DataCnf, IInv, FcTypeOK
  <1>3. acked' \in {acked, c + 1}
    BY DEF DataCnf
  <1>4. FcTypeOK'
    BY <1>1, <1>2
    DEF DataCnf, UpdateFrameCounter, Written, NotWritten, IInv, FcTypeOK
  <1>5. CASE c < lastSaved + Window /\ UNCHANGED <<lastSaved, nv, failed>>
    <2>1. SavedIsKnown'
      BY <1>5 DEF DataCnf, IInv, FcTypeOK, SavedIsKnown
    <2>2. WindowIsAhead'
      BY <1>1, <1>3, <1>5
      DEF DataCnf, IInv, FcTypeOK, SavedIsKnown, WindowIsAhead
    <2> QED
      BY <1>4, <2>1, <2>2 DEF IInv
  <1>6. CASE c >= lastSaved + Window /\ Written(c) /\ lastSaved' = c
    <2>1. SavedIsKnown'
      BY <1>1, <1>6 DEF DataCnf, Written, IInv, FcTypeOK, SavedIsKnown
    <2>2. nv # Absent => c >= nv + Window
      BY <1>6, SavedIsPast
    <2>3. WindowIsAhead'
      BY <1>1, <1>3, <1>6, <2>2
      DEF DataCnf, Written, IInv, FcTypeOK, SavedIsKnown, WindowIsAhead
    <2> QED
      BY <1>4, <2>1, <2>3 DEF IInv
  <1>7. CASE NotWritten /\ lastSaved' = lastSaved
    <2>1. SavedIsKnown'
      BY <1>7 DEF DataCnf, NotWritten, IInv, FcTypeOK, SavedIsKnown
    <2>2. WindowIsAhead'
      BY <1>7 DEF NotWritten, WindowIsAhead
    <2> QED
      BY <1>4, <2>1, <2>2 DEF IInv
  <1> QED
    BY <1>5, <1>6, <1>7 DEF DataCnf, UpdateFrameCounter

(* The types, what is remembered of the saved counter, and the window      *)
(* above it, hold together for ever.                                       *)
THEOREM Invariance == FcSpec => []IInv
  <1>1. FcInit => IInv
    <2>1. FcInit => running \in BOOLEAN /\ failed \in BOOLEAN
      BY DEF FcInit
    <2>2. FcInit => FcTypeOK
      BY <2>1 DEF FcInit, FcTypeOK
    <2>3. FcInit => SavedIsKnown /\ WindowIsAhead
      BY DEF FcInit, SavedIsKnown, WindowIsAhead
    <2> QED
      BY <2>2, <2>3 DEF IInv
  <1>2. IInv /\ [FcNext]_fcVars => IInv'
    <2> SUFFICES ASSUME IInv, [FcNext]_fcVars PROVE IInv'
      OBVIOUS
    <2>1. CASE ResetCounter \/ CrashCounter
      <3>1. /\ running' = FALSE /\ waiting' = {} /\ lastSaved' \in {0, lastSaved}
            /\ UNCHANGED <<counter, nv, acked, failed>>
        BY <2>1 DEF ResetCounter, CrashCounter
      <3>2. FcTypeOK'
        <4>1. running' \in BOOLEAN /\ failed' \in BOOLEAN
          BY <3>1 DEF IInv, FcTypeOK
        <4> QED
          BY <3>1, <4>1 DEF IInv, FcTypeOK
      <3>3. SavedIsKnown'
        BY <3>1 DEF IInv, SavedIsKnown
      <3>4. WindowIsAhead'
        BY <3>1 DEF IInv, WindowIsAhead
      <3> QED
        BY <3>2, <3>3, <3>4 DEF IInv
    <2>2. CASE UNCHANGED fcVars
      BY <2>2 DEF fcVars, IInv, FcTypeOK, SavedIsKnown, WindowIsAhead
    <2> QED
      BY <2>1, <2>2, StartCounterKeeps, SendKeeps, DataCnfKeeps DEF FcNext
  <1> QED
    BY <1>1, <1>2, PTL DEF FcSpec

(* A counter under which a device acknowledged a frame is never used for   *)
(* another one: Csf_getFrameCounter starts above all of them.              *)
THEOREM NoAckedCounterAgain == FcSpec => []AckedAreBehind
  <1>1. IInv => AckedAreBehind
    BY DEF IInv, WindowIsAhead, AckedAreBehind
  <1> QED
    BY <1>1, Invariance, PTL

(* The saved counter grows by a window at least whenever it is written,    *)
(* though a restart forgets what was saved: Csf_updateFrameCounter writes  *)
(* at most once in a window.                                               *)
THEOREM WritesAreRare == FcSpec => SavesAreRare
  <1>1. IInv /\ [FcNext]_fcVars => [nv # Absent /\ nv' # nv => nv' >= nv + Window]_fcVars
    <2> SUFFICES ASSUME IInv, FcNext, nv # Absent, nv' # nv
                 PROVE  nv' >= nv + Window
      BY DEF fcVars
    <2>1. PICK c \in waiting : DataCnf(c)
      BY DEF FcNext, StartCounter, GetFrameCounter, Send, ResetCounter, CrashCounter
    <2>2. c >= lastSaved + Window /\ nv' = c
      BY <2>1 DEF DataCnf, UpdateFrameCounter, Written, NotWritten
    <2> QED
      BY <2>2, SavedIsPast
  <1> QED
    BY <1>1, Invariance, PTL DEF FcSpec, SavesAreRare

-----------------------------------------------------------------------------
(* The saved list of devices: the inductive invariant.                     *)

PendingType ==
  [op : {"add", "remove", "removeAgain"}, ext : Devices, short : Short \cup {Invalid}]

\* What is needed of the types.  The slots that a reset of the co-processor
\* fills again are left out: nothing depends on what they hold.
Types ==
  /\ records \in [Slot -> Records \cup {NoRecord}]
  /\ table = [x \in Slot |-> table[x]]
  /\ entries \in 0 .. MaxDevices
  /\ numOfDevices \in Nat
  /\ pending \in PendingType \cup {Idle}
  /\ up \in BOOLEAN
  /\ intact \in BOOLEAN
  /\ pending.op = "add" => entries < MaxDevices

\* What a program that does not run has lost.
Down ==
  ~up => /\ pending = Idle
         /\ table = [x \in Slot |-> Invalid]
         /\ numOfDevices = 0

Unique ==
  \A i, j \in Used : i # j => /\ records[i].ext # records[j].ext
                              /\ records[i].short # records[j].short

\* The number of records is saved after the record.
Counted ==
  Cardinality(Used) = entries + (IF pending.op = "add" THEN 1
                                 ELSE IF pending = Idle THEN 0 ELSE -1)

\* A record and its slot have the same index: this is what makes the first free
\* slot an unused index.  A device that is joining is put there next.
Mirrored ==
  \A i \in Used : \/ table[i] = records[i].short
                  \/ /\ pending.op = "add"
                     /\ IsFirst(i, Free)
                     /\ records[i].short = pending.short

Low ==
  \A i \in Used :
    records[i].short <= numOfDevices + (IF pending.op = "add" THEN 1 ELSE 0)

\* The second deletion of Csf_removeDevice finds nothing.
Gone == pending.op = "removeAgain" => \A i \in Used : records[i].ext # pending.ext

Agree == Unique /\ (up => Counted /\ Mirrored /\ Low /\ Gone)

DevicesInv == Types /\ Down /\ (intact => Agree)

USE SizeAssumption, BoundAssumption, NoneAssumption DEF Invalid

-----------------------------------------------------------------------------
(* Lemmas on sets of indices.                                              *)

\* The sets of indices are finite.
LEMMA IndicesFinite ==
  ASSUME NEW S \in SUBSET Slot
  PROVE  IsFiniteSet(S) /\ Cardinality(S) \in Nat
<1>1. IsFiniteSet(Slot)
  BY FS_Interval DEF Slot
<1> QED
  BY <1>1, FS_Subset, FS_CardinalityType

\* In a set without gaps an index is its own place.
LEMMA PlaceInInterval ==
  ASSUME NEW k \in Nat, NEW x \in 0 .. k - 1
  PROVE  Below(0 .. k - 1, x) = x
<1>1. {y \in 0 .. k - 1 : y < x} = 0 .. x - 1
  OBVIOUS
<1>2. Cardinality(0 .. x - 1) = x
  BY FS_Interval
<1> QED
  BY <1>1, <1>2 DEF Below

\* Fewer indices are below one of a set than there are in it.
LEMMA PlaceIsBounded ==
  ASSUME NEW S \in SUBSET Slot, NEW x \in S
  PROVE  Below(S, x) < Cardinality(S)
<1> DEFINE T == {y \in S : y < x}
<1>1. T \in SUBSET S /\ x \notin T
  BY DEF Slot
<1>2. IsFiniteSet(S) /\ IsFiniteSet(T) /\ Cardinality(S) \in Nat /\ Cardinality(T) \in Nat
  BY <1>1, IndicesFinite
<1>3. Cardinality(T) <= Cardinality(S) /\ (Cardinality(S) = Cardinality(T) => S = T)
  BY <1>1, <1>2, FS_Subset
<1> QED
  BY <1>1, <1>2, <1>3 DEF Below

\* A record is added or deleted.
LEMMA OneMoreUsed ==
  ASSUME Types, NEW i \in Slot, i \notin Used, NEW r \in Records,
         records' = [records EXCEPT ![i] = r]
  PROVE  Used' = Used \cup {i} /\ Cardinality(Used') = Cardinality(Used) + 1
<1>1. r # NoRecord
  BY DEF Records, NoRecord, Short
<1>2. Used' = Used \cup {i}
  BY <1>1 DEF Used, Types
<1>3. IsFiniteSet(Used)
  BY IndicesFinite DEF Used
<1> QED
  BY <1>2, <1>3, FS_AddElement

LEMMA OneLessUsed ==
  ASSUME Types, NEW i \in Used, records' = [records EXCEPT ![i] = NoRecord]
  PROVE  Used' = Used \ {i} /\ Cardinality(Used') = Cardinality(Used) - 1
<1>1. Used' = Used \ {i}
  BY DEF Used, Types
<1>2. IsFiniteSet(Used)
  BY IndicesFinite DEF Used
<1> QED
  BY <1>1, <1>2, FS_RemoveElement

\* Every record is one of a device and its address.
LEMMA UsedAreRecords ==
  ASSUME Types, NEW i \in Used
  PROVE  i \in Slot /\ records[i] \in Records
  BY DEF Used, Types

-----------------------------------------------------------------------------
(* The steps.                                                              *)

\* Nothing is stored at the start.
LEMMA InitDevicesInv == Init => DevicesInv
<1> SUFFICES ASSUME Init PROVE DevicesInv
  OBVIOUS
<1>1. Used = {}
  BY DEF Init, Used
<1>2. Types
  <2>1. table = [x \in Slot |-> table[x]] /\ records \in [Slot -> Records \cup {NoRecord}]
    BY DEF Init
  <2>2. entries \in 0 .. MaxDevices /\ numOfDevices \in Nat /\ pending.op # "add"
    BY DEF Init, Idle
  <2> QED
    BY <2>1, <2>2, Zenon DEF Init, Types
<1> QED
  BY <1>1, <1>2 DEF Init, DevicesInv, Down, Agree, Unique

\* A new device gets an index without record, and an address above the others.
LEMMA JoinNewKeeps ==
  ASSUME DevicesInv, NEW d \in Devices, JoinNew(d)
  PROVE  DevicesInv'
<1>1. PICK i \in Slot : /\ IsFirst(i, Free)
                        /\ records' = [records EXCEPT ![i] = [ext |-> d, short |-> NewShort]]
  BY DEF JoinNew, UnusedIndex
<1> DEFINE r == [ext |-> d, short |-> NewShort]
<1>2. r \in Records
  BY DEF JoinNew, NewShort, Records, Short, DevicesInv, Types
<1>3. Types' /\ Down'
  BY <1>1, <1>2 DEF JoinNew, DevicesInv, Types, Down, Ready, Records, PendingType, Idle
<1>4. ASSUME intact' PROVE Agree'
  <2>1. intact /\ up /\ pending = Idle /\ Agree /\ Types
    BY <1>4 DEF JoinNew, Ready, DevicesInv
  <2>2. pending.op = "none"
    BY <2>1 DEF Idle
  <2>3. \A j \in Used : table[j] = records[j].short /\ records[j].short \in Short
    BY <2>1, <2>2, UsedAreRecords DEF Agree, Mirrored, Records
  <2>4. i \in Free /\ i \notin Used
    BY <1>1, <2>3 DEF IsFirst, Free, Short
  <2>5. Used' = Used \cup {i} /\ Cardinality(Used') = Cardinality(Used) + 1
    BY <1>1, <1>2, <2>1, <2>4, OneMoreUsed
  <2>6. /\ records'[i] = r
        /\ \A j \in Used : records'[j] = records[j]
    BY <1>1, <2>1, <2>4 DEF Types, Used
  <2>7. \A j \in Used : records[j].ext # d
    <3>1. CASE entries > 0
      BY <3>1 DEF JoinNew, Found
    <3>2. CASE entries = 0
      <4>1. Cardinality(Used) = 0
        BY <2>1, <2>2, <3>2 DEF Agree, Counted
      <4> QED
        BY <4>1, IndicesFinite, FS_EmptySet DEF Used
    <3> QED
      BY <2>1, <3>1, <3>2 DEF Types
  <2>8. \A j \in Used : records[j].short < NewShort
    BY <2>1, <2>2, <2>3 DEF Agree, Low, NewShort, Types, Short
  <2>9. Unique'
    BY <2>1, <2>5, <2>6, <2>7, <2>8, <2>3 DEF Agree, Unique, Short
  <2>10. pending' = [op |-> "add", ext |-> d, short |-> NewShort] /\ pending'.op = "add"
    BY DEF JoinNew
  <2>11. Counted'
    BY <2>1, <2>2, <2>5, <2>10 DEF Agree, Counted, JoinNew, Types
  <2>12. Mirrored'
    BY <1>1, <2>3, <2>5, <2>6, <2>10 DEF Mirrored, JoinNew, IsFirst, Free
  <2>13. Low'
    BY <2>1, <2>3, <2>5, <2>6, <2>8, <2>10 DEF Low, JoinNew, NewShort, Types, Short
  <2> QED
    BY <2>9, <2>10, <2>11, <2>12, <2>13 DEF Agree, Gone
<1> QED
  BY <1>3, <1>4 DEF DevicesInv

\* That the number of records is saved is used throughout.
USE DEF saveNumDeviceListEntries

\* The first free slot is still that of the new record.
LEMMA JoinDoneKeeps ==
  ASSUME DevicesInv, JoinDone
  PROVE  DevicesInv'
<1>1. PICK x \in Slot : IsFirst(x, Free) /\ table' = [table EXCEPT ![x] = pending.short]
  BY DEF JoinDone
<1>2. Types' /\ Down'
  BY <1>1 DEF JoinDone, DevicesInv, Types, Down, Idle
<1>3. ASSUME intact' PROVE Agree'
  <2>1. intact /\ up /\ pending.op = "add" /\ Agree /\ Types /\ Used' = Used
    BY <1>3 DEF JoinDone, DevicesInv, Used
  <2>2. pending' = Idle /\ pending'.op = "none"
    BY DEF JoinDone, Idle
  <2>3. Unique' /\ Gone'
    BY <2>1, <2>2 DEF Agree, Unique, Gone, JoinDone
  <2>4. Counted'
    BY <2>1, <2>2 DEF Agree, Counted, JoinDone, Types
  <2>5. Low'
    BY <2>1, <2>2 DEF Agree, Low, JoinDone, Types
  <2>6. ASSUME NEW i \in Used PROVE table'[i] = records'[i].short
    <3>1. i \in Slot /\ records[i].short # Invalid
      BY <2>1, UsedAreRecords DEF Records, Short
    <3>2. CASE table[i] = records[i].short
      <4>1. i # x
        BY <1>1, <3>1, <3>2 DEF IsFirst, Free
      <4> QED
        BY <1>1, <2>1, <3>1, <3>2, <4>1 DEF Types, JoinDone
    <3>3. CASE IsFirst(i, Free) /\ records[i].short = pending.short
      <4>1. i = x
        BY <1>1, <3>3 DEF IsFirst, Free, Slot
      <4> QED
        BY <1>1, <2>1, <3>1, <3>3, <4>1 DEF Types, JoinDone
    <3> QED
      BY <2>1, <3>2, <3>3 DEF Agree, Mirrored
  <2>7. Mirrored'
    BY <2>1, <2>6 DEF Mirrored
  <2> QED
    BY <2>3, <2>4, <2>5, <2>7 DEF Agree
<1> QED
  BY <1>2, <1>3 DEF DevicesInv

\* A record goes, and with it no other one's slot.
LEMMA DeletionKeeps ==
  ASSUME DevicesInv, Ready, NEW d \in Devices, NEW op \in {"remove", "removeAgain"},
         NEW i \in Found(d), DeleteRecord(d, op), UNCHANGED <<numOfDevices, entries, up, intact>>,
         \/ table' = table
         \/ \E x \in SlotsOf(records[i].short) : table' = [table EXCEPT ![x] = Invalid]
  PROVE  DevicesInv'
<1>1. PICK k \in Found(d) : records' = [records EXCEPT ![k] = NoRecord]
  BY DEF DeleteRecord
<1>2. /\ pending' = [op |-> op, ext |-> d, short |-> Invalid]
      /\ pending'.op = op
      /\ pending' # Idle
  BY DEF DeleteRecord, Idle
<1>3. Types' /\ Down'
  BY <1>1, <1>2 DEF DevicesInv, Types, Down, Ready, Found, Used, PendingType
<1>4. ASSUME intact' PROVE Agree'
  <2>1. intact /\ up /\ Agree /\ Types /\ pending = Idle /\ pending.op = "none"
    BY <1>4 DEF DevicesInv, Ready, Idle
  <2>2. k = i /\ i \in Used /\ records[i].ext = d
    BY <1>1, <2>1 DEF Found, Agree, Unique
  <2>3. Used' = Used \ {i} /\ Cardinality(Used') = Cardinality(Used) - 1
    BY <1>1, <2>1, <2>2, OneLessUsed
  <2>4. \A j \in Used' : /\ records'[j] = records[j]
                         /\ records[j].ext # d
                         /\ records[j].short # records[i].short
    BY <1>1, <2>1, <2>2, <2>3 DEF Agree, Unique, Types, Used
  <2>5. Unique' /\ Gone'
    BY <1>2, <2>1, <2>3, <2>4 DEF Agree, Unique, Gone
  <2>6. Counted'
    BY <1>2, <2>1, <2>3 DEF Agree, Counted, Types
  <2>7. Low'
    BY <1>2, <2>1, <2>3, <2>4 DEF Agree, Low
  <2>8. \A j \in Used' : table'[j] = records'[j].short
    BY <2>1, <2>3, <2>4 DEF Agree, Mirrored, SlotsOf, Types, Used
  <2> QED
    BY <2>5, <2>6, <2>7, <2>8 DEF Agree, Mirrored
<1> QED
  BY <1>3, <1>4 DEF DevicesInv

LEMMA RemovalKeeps ==
  ASSUME DevicesInv, Ready, NEW d \in Devices, NEW op \in {"remove", "removeAgain"},
         NEW i \in Found(d), RemoveDevice(d, records[i].short, op)
  PROVE  DevicesInv'
<1>1. \E x \in SlotsOf(records[i].short) : table' = [table EXCEPT ![x] = Invalid]
  BY DEF RemoveDevice, IsFirst
<1> QED
  BY <1>1, DeletionKeeps DEF RemoveDevice

LEMMA LeaveKeeps ==
  ASSUME DevicesInv, NEW d \in Devices, Leave(d)
  PROVE  DevicesInv'
  BY RemovalKeeps DEF Leave

LEMMA OperatorKeeps ==
  ASSUME DevicesInv, NEW s \in Short, OperatorRemoves(s)
  PROVE  DevicesInv'
<1>1. PICK first \in Used : \E i \in Found(records[first].ext) :
            \/ RemoveDevice(records[first].ext, records[i].short, "removeAgain")
            \/ /\ DeleteRecord(records[first].ext, "remove")
               /\ UNCHANGED <<table, numOfDevices, entries, up, intact, starts, resets>>
  BY DEF OperatorRemoves
<1>2. records[first].ext \in Devices
  BY UsedAreRecords DEF DevicesInv, Records
<1> QED
  BY <1>1, <1>2, RemovalKeeps, DeletionKeeps DEF OperatorRemoves

LEMMA RemoveDoneKeeps ==
  ASSUME DevicesInv, RemoveDone
  PROVE  DevicesInv'
<1>1. pending.op = "remove" /\ pending # Idle /\ pending' = Idle /\ pending'.op = "none"
  BY DEF RemoveDone, Idle
<1>2. Types' /\ Down'
  BY <1>1 DEF RemoveDone, DevicesInv, Types, Down
<1>3. ASSUME intact' PROVE Agree'
  <2>1. intact /\ up /\ Agree /\ Types /\ Used' = Used /\ Cardinality(Used) \in Nat
    BY <1>3, IndicesFinite DEF RemoveDone, DevicesInv, Used
  <2>2. Counted'
    BY <1>1, <2>1 DEF Agree, Counted, RemoveDone, Types
  <2>3. Mirrored'
    BY <1>1, <2>1 DEF Agree, Mirrored, RemoveDone
  <2> QED
    BY <1>1, <2>1, <2>2, <2>3 DEF Agree, Unique, Low, Gone, RemoveDone
<1> QED
  BY <1>2, <1>3 DEF DevicesInv

LEMMA RemoveAgainKeeps ==
  ASSUME DevicesInv, RemoveAgainDone
  PROVE  DevicesInv'
<1> DEFINE left == {i \in Used : records[i].ext = pending.ext}
<1>1. pending.op = "removeAgain" /\ pending # Idle /\ pending \in PendingType
  BY DEF RemoveAgainDone, Idle, DevicesInv, Types
<1>2. \/ pending' = Idle /\ UNCHANGED records
      \/ \E i \in left : /\ records' = [records EXCEPT ![i] = NoRecord]
                         /\ pending' = [pending EXCEPT !.op = "remove"]
  BY DEF RemoveAgainDone
<1>3. Types' /\ Down'
  <2>1. pending' \in PendingType \cup {Idle} /\ pending'.op # "add"
    BY <1>1, <1>2 DEF PendingType, Idle
  <2>2. records' \in [Slot -> Records \cup {NoRecord}]
    BY <1>2 DEF DevicesInv, Types, Used
  <2> QED
    BY <2>1, <2>2 DEF RemoveAgainDone, DevicesInv, Types, Down
<1>4. ASSUME intact' PROVE Agree'
  <2>1. intact /\ up /\ Agree /\ Types
    BY <1>4 DEF RemoveAgainDone, DevicesInv
  <2>2. left = {}
    BY <1>1, <2>1 DEF Agree, Gone
  <2>3. pending' = Idle /\ pending'.op = "none" /\ UNCHANGED records /\ Used' = Used
    BY <1>2, <2>2 DEF Idle, Used
  <2>4. Cardinality(Used) \in Nat
    BY IndicesFinite DEF Used
  <2>5. Counted'
    BY <1>1, <2>1, <2>3, <2>4 DEF Agree, Counted, RemoveAgainDone, Types
  <2>6. Mirrored'
    BY <1>1, <2>1, <2>3 DEF Agree, Mirrored, RemoveAgainDone
  <2> QED
    BY <1>1, <2>1, <2>3, <2>5, <2>6 DEF Agree, Unique, Low, Gone, RemoveAgainDone
<1> QED
  BY <1>3, <1>4 DEF DevicesInv

\* A restore only fills slots that are free, and never lowers the count.
LEMMA RestoreOnto ==
  ASSUME Types, Restore
  PROVE  /\ table' = [x \in Slot |-> table'[x]]
         /\ \A x \in Slot : table[x] # Invalid => table'[x] = table[x]
         /\ numOfDevices' \in Nat
         /\ numOfDevices' >= numOfDevices
<1>1. Cardinality(Free) \in Nat
  BY IndicesFinite DEF Free
<1> QED
  BY <1>1 DEF Restore, Types

\* A start that finds the list in order puts each device into the slot of its
\* own index.
LEMMA RestoreInOrder ==
  ASSUME Types, Restore, InOrder,
         table = [x \in Slot |-> Invalid], numOfDevices = 0
  PROVE  /\ \A i \in Used : table'[i] = records[i].short
         /\ numOfDevices' = entries
<1>1. Free = Slot /\ Used = 0 .. entries - 1 /\ entries \in Nat /\ entries <= MaxDevices
  BY DEF Free, InOrder, Types
<1>2. Cardinality(Free) = MaxDevices /\ Cardinality(Used) = entries
  BY <1>1, FS_Interval DEF Slot
<1>3. ASSUME NEW i \in Used PROVE Below(Free, i) = i /\ Below(Used, i) = i
  <2>1. i \in 0 .. entries - 1 /\ i \in 0 .. MaxDevices - 1
    BY <1>1
  <2> QED
    BY <1>1, <2>1, PlaceInInterval DEF Slot
<1>4. ASSUME NEW i \in Used PROVE Restored(i) = records[i].short
  <2>1. i < Cardinality(Used)
    BY <1>1, <1>2
  <2>2. \A j \in Used : Below(Used, j) = i <=> j = i
    BY <1>3
  <2>3. (CHOOSE j \in Used : Below(Used, j) = i) = i
    BY <2>2
  <2> QED
    BY <2>1, <2>3 DEF Restored
<1>5. ASSUME NEW i \in Used PROVE table'[i] = records[i].short
  <2>1. Used # {} /\ i \in Slot /\ table[i] = Invalid /\ i < entries
    BY <1>1 DEF Used
  <2>2. table'[i] = Restored(Below(Free, i))
    BY <1>3, <2>1 DEF Restore
  <2> QED
    BY <1>3, <1>4, <2>2
<1>6. Used = {} => entries = 0
  BY <1>1
<1>7. numOfDevices' = entries
  BY <1>1, <1>2, <1>6 DEF Restore
<1> QED
  BY <1>5, <1>7

LEMMA StartKeeps ==
  ASSUME DevicesInv, Start
  PROVE  DevicesInv'
<1>1. /\ ~up /\ up' /\ pending = Idle /\ pending' = Idle /\ pending'.op = "none"
      /\ table = [x \in Slot |-> Invalid] /\ numOfDevices = 0
      /\ Restore /\ intact' = (intact /\ InOrder) /\ Types
      /\ UNCHANGED <<records, entries>> /\ Used' = Used
  BY DEF DevicesInv, Down, Start, Idle, Used
<1>2. Types' /\ Down'
  BY <1>1, RestoreOnto DEF DevicesInv, Types, Down, Start
<1>3. ASSUME intact' PROVE Agree'
  <2>1. intact /\ InOrder /\ Agree
    BY <1>1, <1>3 DEF DevicesInv
  <2>2. /\ \A i \in Used : table'[i] = records[i].short
        /\ numOfDevices' = entries
    BY <1>1, <2>1, RestoreInOrder
  <2>3. Cardinality(Used) = entries
    BY <1>1, <2>1, FS_Interval DEF InOrder, Types
  <2>4. Counted'
    BY <1>1, <2>3 DEF Counted, Types
  <2>5. Mirrored' /\ Gone'
    BY <1>1, <2>2 DEF Mirrored, Gone
  <2>6. Low'
    BY <1>1, <2>1, <2>2 DEF Low, InOrder, Types
  <2> QED
    BY <1>1, <2>1, <2>4, <2>5, <2>6 DEF Agree, Unique
<1> QED
  BY <1>2, <1>3 DEF DevicesInv

LEMMA ResetKeeps ==
  ASSUME DevicesInv, Reset
  PROVE  DevicesInv'
<1>1. /\ up /\ pending = Idle /\ pending.op = "none" /\ Types /\ Restore
      /\ UNCHANGED <<records, entries, pending, up, intact>> /\ Used' = Used
  BY DEF DevicesInv, Reset, Ready, Idle, Used
<1>2. Types' /\ Down'
  BY <1>1, RestoreOnto DEF DevicesInv, Types, Down
<1>3. ASSUME intact' PROVE Agree'
  <2>1. Agree
    BY <1>1, <1>3 DEF DevicesInv
  <2>2. \A i \in Used : i \in Slot /\ table[i] = records[i].short /\ records[i].short \in Short
    BY <1>1, <2>1, UsedAreRecords DEF Agree, Mirrored, Records
  <2>3. Mirrored'
    BY <1>1, <2>2, RestoreOnto DEF Mirrored, Short
  <2>4. Low'
    BY <1>1, <2>1, <2>2, RestoreOnto DEF Agree, Low, Types, Short
  <2> QED
    BY <1>1, <2>1, <2>3, <2>4 DEF Agree, Unique, Counted, Gone
<1> QED
  BY <1>2, <1>3 DEF DevicesInv

LEMMA CrashKeeps ==
  ASSUME DevicesInv, Crash
  PROVE  DevicesInv'
  BY DEF DevicesInv, Crash, Types, Down, Agree, Unique, Used, Idle

\* No step breaks the invariant.
LEMMA NextDevicesInv == DevicesInv /\ [Next]_vars => DevicesInv'
<1> SUFFICES ASSUME DevicesInv, [Next]_vars PROVE DevicesInv'
  OBVIOUS
<1>1. CASE UNCHANGED vars
  BY <1>1 DEF vars, DevicesInv, Types, Down, Agree, Unique, Counted, Mirrored, Low, Gone,
              Used, Free
<1> QED
  BY <1>1, JoinNewKeeps, JoinDoneKeeps, LeaveKeeps, OperatorKeeps, RemoveDoneKeeps,
     RemoveAgainKeeps, StartKeeps, ResetKeeps, CrashKeeps
  DEF Next

\* The invariant holds throughout.
LEMMA Invariant == Spec => []DevicesInv
  BY InitDevicesInv, NextDevicesInv, PTL DEF Spec

-----------------------------------------------------------------------------
(* The theorems.                                                           *)

\* As long as every start finds the list in order, no two records are of one
\* device or have one address, nor will the next device get an address in use:
\* assocIndCb counts, and the count starts anew with each run.
THEOREM AddressesStayUnique == Spec => []AddressesAreUnique
<1>1. DevicesInv => AddressesAreUnique
  BY UsedAreRecords
  DEF DevicesInv, Agree, Unique, Low, Ready, Idle, NewShort, AddressesAreUnique, Types,
      Records, Short
<1> QED
  BY <1>1, Invariant, PTL

\* As long as every start finds the list in order, all the devices of the list
\* are shown to the web clients and have a slot of the table.
THEOREM AllAreServed == Spec => []EveryDeviceIsServed
<1>1. ASSUME DevicesInv, intact, Ready PROVE EveryDeviceIsServed
  <2>1. up /\ pending.op = "none" /\ pending = Idle /\ Agree /\ Types
    BY <1>1 DEF DevicesInv, Ready, Idle
  <2>2. Cardinality(Used) = entries
    BY <2>1 DEF Agree, Counted, Types
  <2>3. \A j \in Used : Below(Used, j) < entries
    BY <2>2, PlaceIsBounded DEF Used
  <2>4. \A i \in Used : i \in SlotsOf(records[i].short)
    BY <2>1, UsedAreRecords DEF Agree, Mirrored, SlotsOf
  <2> QED
    BY <2>3, <2>4 DEF EveryDeviceIsServed, Listed
<1>2. DevicesInv => EveryDeviceIsServed
  BY <1>1 DEF EveryDeviceIsServed
<1> QED
  BY <1>2, Invariant, PTL

\* As long as every start finds the list in order, a record goes only with its
\* device: findUnusedDeviceListIndex never names that of another one.
THEOREM RecordsGoWithTheirDevices == Spec => NobodyIsForgotten
<1> DEFINE Kept == intact => \A i \in Used : records'[i] # records[i] =>
                               /\ records'[i] = NoRecord
                               /\ pending'.ext = records[i].ext
<1>1. DevicesInv /\ [Next]_vars => [Kept]_vars
  <2> SUFFICES ASSUME DevicesInv, Next, intact, NEW i \in Used, records'[i] # records[i]
               PROVE  records'[i] = NoRecord /\ pending'.ext = records[i].ext
    OBVIOUS
  <2>1. Types /\ Agree /\ i \in Slot /\ records[i].short \in Short
    BY UsedAreRecords DEF DevicesInv, Records
  <2>2. ASSUME NEW d \in Devices, JoinNew(d) PROVE FALSE
    <3>1. table[i] = records[i].short
      BY <2>1, <2>2 DEF JoinNew, Ready, Idle, Agree, Mirrored
    <3> QED
      BY <2>1, <2>2, <3>1 DEF JoinNew, UnusedIndex, IsFirst, Free, Short, Types
  <2>3. ASSUME NEW d, NEW op, DeleteRecord(d, op)
        PROVE  records'[i] = NoRecord /\ pending'.ext = records[i].ext
    <3>1. PICK k \in Found(d) : /\ records' = [records EXCEPT ![k] = NoRecord]
                                /\ pending' = [op |-> op, ext |-> d, short |-> Invalid]
      BY <2>3 DEF DeleteRecord
    <3>2. k = i
      BY <2>1, <3>1 DEF Types
    <3> QED
      BY <2>1, <3>1, <3>2 DEF Found, Types
  <2>4. ASSUME RemoveAgainDone PROVE FALSE
    BY <2>1, <2>4 DEF RemoveAgainDone, Agree, Gone
  <2>5. CASE \E d \in Devices : Leave(d)
    BY <2>3, <2>5 DEF Leave, RemoveDevice
  <2>6. CASE \E s \in Short : OperatorRemoves(s)
    BY <2>3, <2>6 DEF OperatorRemoves, RemoveDevice
  <2>7. CASE JoinDone \/ RemoveDone \/ Start \/ Crash \/ Reset
    BY <2>7 DEF JoinDone, RemoveDone, Start, Crash, Reset
  <2> QED
    BY <2>2, <2>4, <2>5, <2>6, <2>7 DEF Next
<1> QED
  BY <1>1, Invariant, PTL DEF Spec, NobodyIsForgotten
=============================================================================
