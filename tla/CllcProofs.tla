----------------------------- MODULE CllcProofs ------------------------------
(***************************************************************************)
(* Theorems about the link controller: about Cllc, for every set of        *)
(* channels, of neighbours and of clients, and any number of failures,     *)
(* resets and permits; and about Trickle, for every limits of the timers,  *)
(* and any solicitations.                                                  *)
(***************************************************************************)
EXTENDS Cllc, Trickle, Integers, WellFoundedInduction, TLAPS

\* Whether a network was saved is used throughout.
USE DEF Csf_getNetworkInformation

-----------------------------------------------------------------------------
(* What is found.                                                          *)

\* A set of natural numbers that is not empty has a least element.
LEMMA LeastNatural ==
  ASSUME NEW T \in SUBSET Nat, T # {}
  PROVE  \E x \in T : \A y \in T : x <= y
<1>1. PICK x \in T : \A y \in T : ~ (<<y, x>> \in OpToRel(<, Nat))
  BY NatLessThanWellFounded, WFMin, Zenon
<1>2. ASSUME NEW y \in T PROVE x <= y
  <2>1. <<y, x>> \in Nat \X Nat
    OBVIOUS
  <2>2. ~ (y < x)
    BY <1>1, <2>1, Zenon DEF OpToRel
  <2> QED
    BY <2>2
<1> QED
  BY <1>2

\* The best channel is one of the mask.
LEMMA BestChannel ==
  ASSUME NEW energy \in [Channels -> Energies]
  PROVE  findBestChannel(energy) \in Channels
<1> USE PanAssumption
<1> DEFINE quiet == {c \in Channels : energy[c] < MaxEnergy /\
                                     \A d \in Channels : energy[c] <= energy[d]}
<1>1. ASSUME NEW c \in Channels PROVE energy[c] \in Nat /\ energy[c] < MaxEnergy
  <2>1. energy[c] \in 0 .. MaxEnergy - 1
    OBVIOUS
  <2> QED
    BY <2>1
<1>2. PICK x \in {energy[c] : c \in Channels} : \A y \in {energy[c] : c \in Channels} : x <= y
  <2> DEFINE T == {energy[c] : c \in Channels}
  <2>1. T \in SUBSET Nat
    BY <1>1
  <2>2. T # {}
    <3>1. PICK c \in Channels : TRUE
      OBVIOUS
    <3>2. energy[c] \in T
      BY <3>1
    <3> QED
      BY <3>2
  <2> HIDE DEF T
  <2>3. \E x \in T : \A y \in T : x <= y
    BY <2>1, <2>2, LeastNatural
  <2> QED
    BY <2>3 DEF T
<1>3. quiet # {}
  <2>1. PICK c \in Channels : energy[c] = x
    BY <1>2
  <2>2. c \in quiet
    BY <1>1, <1>2, <2>1
  <2> QED
    BY <2>2
<1>4. quiet \in SUBSET Nat
  OBVIOUS
<1>5. \E c \in quiet : \A d \in quiet : c <= d
  BY <1>3, <1>4, LeastNatural
<1>6. (CHOOSE c \in quiet : \A d \in quiet : c <= d) \in quiet
  <2> HIDE DEF quiet
  <2> QED
    BY <1>5
<1>7. findBestChannel(energy) = CHOOSE c \in quiet : \A d \in quiet : c <= d
  BY <1>3 DEF findBestChannel
<1> QED
  BY <1>6, <1>7

\* The PAN id that is chosen is valid, and no neighbour on the channel has it.
LEMMA FreePanIsFree ==
  ASSUME panID \in 1 .. MaxPan - 1, channel \in Channels, pPANDesclist = Neighbours
  PROVE  FreePan \in 1 .. MaxPan - 1 /\ <<channel, FreePan>> \notin Neighbours
<1> USE PanAssumption
<1> DEFINE After(k) == (panID + k) % (MaxPan + 1)
           Free(k) == ~Found(After(k)) /\ \A j \in 0 .. k - 1 : Found(After(j))
           T == {k \in 0 .. MaxPan : ~Found(After(k))}
           last == MaxPan - 1 - panID
<1>1. \A k \in 0 .. last : After(k) = panID + k
  BY DEF After
<1>2. last \in 0 .. MaxPan /\ ~Found(After(last))
  <2>1. After(last) = MaxPan - 1 /\ MaxPan - 1 # 0
    BY <1>1
  <2> QED
    BY <2>1 DEF Found
<1> HIDE DEF After
<1>3. T \in SUBSET Nat /\ last \in T
  BY <1>2
<1>4. PICK k \in T : \A j \in T : k <= j
  BY <1>3, LeastNatural
<1>5. k \in 0 .. MaxPan /\ Free(k)
  BY <1>4
<1> DEFINE k0 == CHOOSE n \in 0 .. MaxPan : Free(n)
<1>6. k0 \in 0 .. MaxPan /\ Free(k0)
  <2> HIDE DEF Free
  <2> QED
    BY <1>5
<1>7. FreePan = After(k0)
  BY DEF FreePan, After
<1> HIDE DEF k0
<1>8. k0 \in 0 .. last
  BY <1>2, <1>6
<1>9. After(k0) \in 1 .. MaxPan - 1 /\ ~Found(After(k0))
  BY <1>1, <1>6, <1>8
<1> QED
  BY <1>7, <1>9 DEF Found

Proper(net) ==
  net \in (Channels \X (1 .. MaxPan - 1)) \ Neighbours

LEMMA ProperIsSome == \A net : Proper(net) => net # NoNet
  BY PanAssumption DEF Proper, Nets

-----------------------------------------------------------------------------
(* One thing at a time.                                                    *)

Ends == {"activeCnf", "edCnf", "scanFailed", "startCnf", "startFailed"}

Messages ==
  {<<"beacon", n>> : n \in Neighbours} \cup {<<"edCnf", e>> : e \in [Channels -> Energies]}
  \cup {<<k>> : k \in (Ends \ {"edCnf"}) \cup {"reset"}}

\* The network n has answered, or a message of the kind k has come.
Waits(k) == \E i \in DOMAIN inbox : inbox[i][1] = k
Waiting == {n \in Neighbours : \E i \in DOMAIN inbox : inbox[i] = <<"beacon", n>>}
Changed == "STATE_CHANGE" \in events

CllcTypes ==
  /\ inbox \in Seq(Messages)
  /\ pPANDesclist \subseteq Neighbours /\ heard \subseteq Neighbours
  /\ scan \in {"idle", "active", "energyDetect", "start"}

\* After the end of a scan or of a start, and after a reset, there are only resets.
LastIsLast ==
  \A i, j \in DOMAIN inbox :
    i < j /\ inbox[i][1] \in Ends \cup {"reset"} => inbox[j][1] = "reset"

\* The co-processor works, or has told that it has ended, or the loop has been told,
\* or it is to start anew.
OneAtATime ==
  /\ scan # "idle" => (\A k \in Ends : ~Waits(k)) /\ ~Changed /\ ~startEvt
  /\ (\E k \in Ends : Waits(k)) => ~Changed /\ ~startEvt
  /\ Changed => ~startEvt /\ pc \in {"start", "state"}

\* All neighbours are known when the channel is chosen.
AllAreHeard ==
  /\ scan = "active" /\ ~Waits("reset") => heard \subseteq pPANDesclist \cup Waiting
  /\ Waits("activeCnf") => Neighbours \subseteq pPANDesclist \cup Waiting
  /\ \/ Changed /\ coordState \in {"scanActiveCnf", "scanEdCnf"}
     \/ scan = "energyDetect" \/ Waits("edCnf")
     => Neighbours \subseteq pPANDesclist
  /\ Changed /\ coordState = "scanEdCnf" => channel \in Channels

\* Until a network was misread, all that are spoken of are proper.
NetsAreProper ==
  ~misread =>
    /\ panID \in 1 .. MaxPan - 1
    /\ netInfo = NoNet \/ Proper(netInfo)
    /\ on = NoNet \/ Proper(on)
    /\ scan = "start" => Proper(wanted)
    /\ Waits("startCnf") \/ (Changed /\ coordState = "startCnf") =>
         on # NoNet \/ Waits("reset")

NetInv == CllcTypes /\ LastIsLast /\ OneAtATime /\ AllAreHeard /\ NetsAreProper

\* At the start nothing goes on, and the store holds a proper network or none.
LEMMA InitNetInv == Init => NetInv
  BY PanAssumption
  DEF Init, Cllc_init, NetInv, CllcTypes, LastIsLast, OneAtATime, AllAreHeard, NetsAreProper, Waits,
      Waiting, Changed, Ends, Proper

-----------------------------------------------------------------------------
(* The messages of the co-processor.                                       *)

LEMMA KindsOfMessages ==
  ASSUME NEW m \in Messages
  PROVE  /\ m[1] \in Ends \cup {"reset", "beacon"}
         /\ m[1] = "reset" => m = <<"reset">>
         /\ m[1] = "edCnf" => m[2] \in [Channels -> Energies]
         /\ m[1] = "beacon" => m[2] \in Neighbours /\ m = <<"beacon", m[2]>>
  BY DEF Messages, Ends

\* Finishes looks for a reset.
LEMMA ResetWaits ==
  ASSUME CllcTypes
  PROVE  <<"reset">> \in ToSet(inbox) <=> Waits("reset")
<1>1. \A i \in DOMAIN inbox : inbox[i] \in Messages
  BY DEF CllcTypes
<1>2. \A i \in DOMAIN inbox : inbox[i][1] = "reset" <=> inbox[i] = <<"reset">>
  BY <1>1, KindsOfMessages
<1> QED
  BY <1>2 DEF Waits, ToSet

\* A message is sent.
LEMMA Sending ==
  ASSUME CllcTypes, LastIsLast, NEW m \in Messages, Send(m),
         \/ \A k \in Ends \cup {"reset"} : ~Waits(k)
         \/ m[1] = "reset"
  PROVE  /\ inbox' \in Seq(Messages) /\ LastIsLast'
         /\ \A k : Waits(k)' <=> Waits(k) \/ k = m[1]
         /\ Waiting \subseteq Waiting'
         /\ m[1] = "beacon" => m[2] \in Waiting'
<1>1. inbox' = Append(inbox, m) /\ inbox \in Seq(Messages)
  BY DEF Send, CllcTypes
<1>2. /\ DOMAIN inbox' = 1 .. Len(inbox) + 1 /\ DOMAIN inbox = 1 .. Len(inbox)
      /\ Len(inbox) \in Nat /\ inbox'[Len(inbox) + 1] = m
      /\ \A i \in 1 .. Len(inbox) : inbox'[i] = inbox[i]
  BY <1>1
<1>3. LastIsLast'
  <2> SUFFICES ASSUME NEW i \in DOMAIN inbox', NEW j \in DOMAIN inbox', i < j,
                      inbox'[i][1] \in Ends \cup {"reset"}
               PROVE  inbox'[j][1] = "reset"
    BY DEF LastIsLast
  <2>1. i \in DOMAIN inbox /\ inbox'[i] = inbox[i]
    BY <1>2
  <2>2. CASE j = Len(inbox) + 1
    BY <1>2, <2>1, <2>2 DEF Waits
  <2>3. CASE j \in DOMAIN inbox
    BY <1>2, <2>1, <2>3 DEF LastIsLast
  <2> QED
    BY <1>2, <2>2, <2>3
<1>4. ASSUME NEW k PROVE Waits(k)' <=> Waits(k) \/ k = m[1]
  BY <1>2 DEF Waits
<1>5. Waiting \subseteq Waiting'
  BY <1>2 DEF Waiting
<1>6. m[1] = "beacon" => m[2] \in Waiting'
  BY <1>2, KindsOfMessages DEF Waiting
<1> QED
  BY <1>1, <1>3, <1>4, <1>5, <1>6

\* A message is taken.
LEMMA Taking ==
  ASSUME CllcTypes, LastIsLast, inbox # <<>>, inbox' = Tail(inbox)
  PROVE  /\ inbox' \in Seq(Messages) /\ LastIsLast'
         /\ Head(inbox) \in Messages /\ Waits(Head(inbox)[1])
         /\ \A k : Waits(k)' => Waits(k)
         /\ \A k : Waits(k) /\ k # Head(inbox)[1] => Waits(k)'
         /\ \A n \in Waiting : n \in Waiting' \/ Head(inbox) = <<"beacon", n>>
         /\ Head(inbox)[1] \in Ends \cup {"reset"} =>
               Waiting' = {} /\ \A k : k # "reset" => ~Waits(k)'
<1>1. inbox \in Seq(Messages)
  BY DEF CllcTypes
<1>2. /\ DOMAIN inbox = 1 .. Len(inbox) /\ 1 \in DOMAIN inbox /\ Head(inbox) = inbox[1]
      /\ Len(inbox) \in Nat
  BY <1>1
<1>3. \A i \in DOMAIN inbox' : i \in Nat /\ i + 1 \in DOMAIN inbox /\ 1 < i + 1
                               /\ inbox'[i] = inbox[i + 1]
  BY <1>1
<1>4. \A i \in DOMAIN inbox : i # 1 => i - 1 \in DOMAIN inbox' /\ inbox'[i - 1] = inbox[i]
  BY <1>1
<1>5. LastIsLast'
  <2> SUFFICES ASSUME NEW i \in DOMAIN inbox', NEW j \in DOMAIN inbox', i < j,
                      inbox'[i][1] \in Ends \cup {"reset"}
               PROVE  inbox'[j][1] = "reset"
    BY DEF LastIsLast
  <2>1. i + 1 < j + 1
    BY <1>3
  <2> QED
    BY <1>3, <2>1 DEF LastIsLast
<1>6. ASSUME NEW k PROVE Waits(k)' => Waits(k)
  BY <1>3 DEF Waits
<1>7. ASSUME NEW k, Waits(k), k # Head(inbox)[1] PROVE Waits(k)'
  BY <1>2, <1>4, <1>7 DEF Waits
<1>8. ASSUME NEW n \in Waiting PROVE n \in Waiting' \/ Head(inbox) = <<"beacon", n>>
  BY <1>2, <1>4 DEF Waiting
<1>9. ASSUME Head(inbox)[1] \in Ends \cup {"reset"}
      PROVE  Waiting' = {} /\ \A k : k # "reset" => ~Waits(k)'
  <2>1. \A i \in DOMAIN inbox' : inbox'[i][1] = "reset"
    BY <1>2, <1>3, <1>9 DEF LastIsLast
  <2>2. \A n : <<"beacon", n>>[1] # "reset"
    OBVIOUS
  <2> QED
    BY <2>1, <2>2 DEF Waits, Waiting
<1>10. inbox' \in Seq(Messages) /\ Head(inbox) \in Messages /\ Waits(Head(inbox)[1])
  BY <1>1, <1>2 DEF Waits
<1> QED
  BY <1>5, <1>6, <1>7, <1>8, <1>9, <1>10

LEMMA SameInbox ==
  ASSUME inbox' = inbox
  PROVE  (\A k : Waits(k)' <=> Waits(k)) /\ Waiting' = Waiting
  BY DEF Waits, Waiting

-----------------------------------------------------------------------------
(* The steps of the loop.                                                  *)

\* A step that has nothing to do with the network.
LEMMA OtherStep ==
  ASSUME NetInv, UNCHANGED <<info, radio, inbox>>, startEvt' => startEvt,
         Changed' <=> Changed, Changed => pc' \in {"start", "state"}
  PROVE  NetInv'
<1>1. (\A k : Waits(k)' <=> Waits(k)) /\ Waiting' = Waiting
  BY SameInbox
<1>2. CllcTypes' /\ LastIsLast'
  BY DEF NetInv, CllcTypes, LastIsLast, info, radio
<1> HIDE DEF Waits, Waiting, Changed
<1>3. OneAtATime'
  BY <1>1 DEF NetInv, OneAtATime, radio
<1>4. AllAreHeard' /\ NetsAreProper'
  BY <1>1 DEF NetInv, AllAreHeard, NetsAreProper, Proper, info, radio
<1> QED
  BY <1>2, <1>3, <1>4 DEF NetInv

LEMMA RestoreNetwork == NetInv /\ Cllc_restoreNetwork => NetInv'
<1> SUFFICES ASSUME NetInv, Cllc_restoreNetwork PROVE NetInv'
  OBVIOUS
<1> USE DEF Cllc_restoreNetwork, At
<1>1. (\A k : Waits(k)' <=> Waits(k)) /\ Waiting' = Waiting
  BY SameInbox
<1>2. /\ scan = "idle" /\ ~Changed /\ ~Changed' /\ \A k \in Ends : ~Waits(k)
      /\ scan' = "start" /\ wanted' = netInfo /\ heard' = {} /\ on' = on
  BY DEF NetInv, OneAtATime, CllcTypes, Changed, Request
<1>3. CllcTypes' /\ LastIsLast'
  BY <1>2 DEF NetInv, CllcTypes, LastIsLast
<1> HIDE DEF Waits, Waiting, Changed
<1>4. OneAtATime' /\ AllAreHeard'
  BY <1>1, <1>2 DEF NetInv, OneAtATime, AllAreHeard, Ends
<1>5. NetsAreProper'
  BY <1>1, <1>2 DEF NetInv, NetsAreProper, Proper, Ends
<1> QED
  BY <1>3, <1>4, <1>5 DEF NetInv

LEMMA StartNetwork == NetInv /\ Cllc_startNetwork => NetInv'
<1> SUFFICES ASSUME NetInv, Cllc_startNetwork PROVE NetInv'
  OBVIOUS
<1> USE DEF Cllc_startNetwork, At, switchState, radio
<1>1. (\A k : Waits(k)' <=> Waits(k)) /\ Waiting' = Waiting
  BY SameInbox
<1>2. scan = "idle" /\ ~Changed /\ Changed' /\ \A k \in Ends : ~Waits(k)
  BY DEF NetInv, OneAtATime, CllcTypes, Changed
<1>3. CllcTypes' /\ LastIsLast'
  BY <1>2 DEF NetInv, CllcTypes, LastIsLast
<1> HIDE DEF Waits, Waiting, Changed
<1>4. OneAtATime' /\ AllAreHeard'
  BY <1>1, <1>2 DEF NetInv, OneAtATime, AllAreHeard, Ends
<1>5. NetsAreProper'
  BY <1>1, <1>2 DEF NetInv, NetsAreProper, Proper, Ends
<1> QED
  BY <1>3, <1>4, <1>5 DEF NetInv

\* What serving the event of a state has found.
LEMMA Serving ==
  ASSUME NetInv, NEW s, InState(s)
  PROVE  /\ scan = "idle" /\ ~startEvt /\ ~startEvt' /\ coordState = s
         /\ Changed /\ ~Changed' /\ inbox' = inbox
         /\ \A k : Waits(k)' <=> Waits(k)
         /\ \A k \in Ends : ~Waits(k)
         /\ Waiting' = Waiting
  BY SameInbox DEF NetInv, OneAtATime, CllcTypes, Changed, InState, At

LEMMA ScanRequest == NetInv /\ SendScanReq => NetInv'
<1>1. ASSUME NetInv, InState("scanActive"), Request("active", NoNet), UNCHANGED info
      PROVE  NetInv'
  <2>1. scan' = "active" /\ heard' = {} /\ on' = on
    BY <1>1, Serving DEF Request
  <2>2. CllcTypes' /\ LastIsLast'
    BY <1>1, <2>1, Serving DEF NetInv, CllcTypes, LastIsLast, info
  <2> HIDE DEF Waits, Waiting, Changed
  <2>3. OneAtATime' /\ AllAreHeard' /\ NetsAreProper'
    BY <1>1, <2>1, Serving
    DEF NetInv, OneAtATime, AllAreHeard, NetsAreProper, Proper, Ends, info
  <2> QED
    BY <2>2, <2>3 DEF NetInv
<1>2. ASSUME NetInv, InState("scanActiveCnf"), Request("energyDetect", NoNet), UNCHANGED info
      PROVE  NetInv'
  <2>1. scan' = "energyDetect" /\ heard' = {} /\ on' = on
    BY <1>2, Serving DEF Request
  <2>2. CllcTypes' /\ LastIsLast'
    BY <1>2, <2>1, Serving DEF NetInv, CllcTypes, LastIsLast, info
  <2> HIDE DEF Waits, Waiting, Changed
  <2>3. OneAtATime' /\ AllAreHeard' /\ NetsAreProper'
    BY <1>2, <2>1, Serving
    DEF NetInv, OneAtATime, AllAreHeard, NetsAreProper, Proper, Ends, info
  <2> QED
    BY <2>2, <2>3 DEF NetInv
<1> QED
  BY <1>1, <1>2 DEF SendScanReq

\* All neighbours are listed here, so that the PAN id is one that none of them has.
LEMMA StartRequest == NetInv /\ SendStartReq => NetInv'
<1> SUFFICES ASSUME NetInv, SendStartReq PROVE NetInv'
  OBVIOUS
<1> USE DEF SendStartReq
<1>1. scan' = "start" /\ wanted' = <<channel, FreePan>> /\ heard' = {} /\ on' = on
  BY Serving DEF Request
<1>2. channel \in Channels /\ pPANDesclist = Neighbours
  BY Serving DEF NetInv, AllAreHeard, CllcTypes
<1>3. ~misread => FreePan \in 1 .. MaxPan - 1 /\ <<channel, FreePan>> \notin Neighbours
  BY <1>2, FreePanIsFree DEF NetInv, NetsAreProper
<1>4. CllcTypes' /\ LastIsLast'
  BY <1>1, Serving DEF NetInv, CllcTypes, LastIsLast
<1> HIDE DEF Waits, Waiting, Changed
<1>5. OneAtATime' /\ AllAreHeard'
  BY <1>1, Serving DEF NetInv, OneAtATime, AllAreHeard, Ends
<1>6. NetsAreProper'
  BY <1>1, <1>2, <1>3, Serving DEF NetInv, NetsAreProper, Proper, Ends
<1> QED
  BY <1>4, <1>5, <1>6 DEF NetInv

\* What is read back is the network that was started, unless a reset waits.
LEMMA NetworkStarted == NetInv /\ CoordinatorStarted => NetInv'
<1> SUFFICES ASSUME NetInv, CoordinatorStarted PROVE NetInv'
  OBVIOUS
<1> USE DEF CoordinatorStarted, clearPANList, radio
<1>1. misread' = (misread \/ Waits("reset"))
  BY ResetWaits DEF NetInv
<1>2. CllcTypes' /\ LastIsLast'
  BY Serving DEF NetInv, CllcTypes, LastIsLast
<1> HIDE DEF Waits, Waiting, Changed
<1>3. OneAtATime' /\ AllAreHeard'
  BY Serving DEF NetInv, OneAtATime, AllAreHeard, Ends
<1>4. NetsAreProper'
  BY <1>1, Serving DEF NetInv, NetsAreProper, Proper, Ends
<1> QED
  BY <1>2, <1>3, <1>4 DEF NetInv

-----------------------------------------------------------------------------
(* The callbacks.                                                          *)

\* What taking a message has found.
LEMMA Received ==
  ASSUME NetInv, NEW kind, Receive(kind)
  PROVE  /\ inbox' \in Seq(Messages) /\ LastIsLast'
         /\ Head(inbox) \in Messages /\ Head(inbox)[1] = kind /\ Waits(kind)
         /\ \A k : Waits(k)' => Waits(k)
         /\ \A k : Waits(k) /\ k # kind => Waits(k)'
         /\ \A n \in Waiting : n \in Waiting' \/ Head(inbox) = <<"beacon", n>>
         /\ kind \in Ends \cup {"reset"} =>
               Waiting' = {} /\ \A k : k # "reset" => ~Waits(k)'
         /\ ~Changed /\ ~startEvt /\ pc' = "start"
  BY Taking DEF NetInv, OneAtATime, Receive, At

LEMMA TakesBeacon == NetInv /\ beaconNotifyIndCb => NetInv'
<1> SUFFICES ASSUME NetInv, beaconNotifyIndCb PROVE NetInv'
  OBVIOUS
<1> USE DEF beaconNotifyIndCb, addToPANList, findInList, radio
<1>1. Head(inbox)[2] \in Neighbours /\ Head(inbox) = <<"beacon", Head(inbox)[2]>>
  BY Received, KindsOfMessages
<1>2. pPANDesclist' = pPANDesclist \cup {Head(inbox)[2]}
  OBVIOUS
<1>3. CllcTypes' /\ LastIsLast'
  BY <1>1, Received DEF NetInv, CllcTypes
<1>4. pPANDesclist \cup Waiting \subseteq (pPANDesclist \cup Waiting)'
  BY <1>1, <1>2, Received
<1>5. Changed' <=> Changed
  BY DEF Changed
<1> HIDE DEF Waits, Waiting, Changed
<1>6. OneAtATime'
  BY <1>5, Received DEF NetInv, OneAtATime, Ends
<1>7. AllAreHeard'
  BY <1>2, <1>4, <1>5, Received DEF NetInv, AllAreHeard, Ends
<1>8. NetsAreProper'
  BY <1>5, Received DEF NetInv, NetsAreProper, Proper, Ends
<1> QED
  BY <1>3, <1>6, <1>7, <1>8 DEF NetInv

\* A scan or a start has ended, and the loop is to go on with the state s.
LEMMA Ended ==
  ASSUME NetInv, NEW kind \in Ends, Receive(kind), NEW s, switchState(s),
         UNCHANGED <<panID, pPANDesclist, netInfo, misread, startEvt, radio>>,
         s \in {"scanActiveCnf", "scanEdCnf"} => kind \in {"activeCnf", "edCnf"},
         s = "scanEdCnf" => kind = "edCnf" /\ channel' \in Channels,
         s = "startCnf" => kind = "startCnf"
  PROVE  NetInv'
<1> USE DEF radio, switchState
<1>1. Changed' /\ scan = "idle" /\ Waits(kind)
  BY Received DEF Changed, NetInv, OneAtATime, CllcTypes
<1>2. CllcTypes' /\ LastIsLast'
  BY Received DEF NetInv, CllcTypes
<1>3. Waiting' = {} /\ ~startEvt' /\ pc' = "start" /\ (\A k \in Ends : ~Waits(k)')
      /\ (Waits("reset")' <=> Waits("reset"))
  BY Received DEF Ends
<1> HIDE DEF Waits, Waiting, Changed
<1>4. OneAtATime'
  BY <1>1, <1>3 DEF OneAtATime
<1>5. kind = "activeCnf" => Neighbours \subseteq pPANDesclist
  <2> SUFFICES ASSUME kind = "activeCnf", NEW n \in Neighbours PROVE n \in pPANDesclist
    OBVIOUS
  <2>1. n \in pPANDesclist \/ n \in Waiting
    BY <1>1 DEF NetInv, AllAreHeard
  <2>2. n \in Waiting => FALSE
    <3>1. <<"beacon", n>>[1] # kind
      OBVIOUS
    <3> QED
      BY <1>3, <3>1, Received
  <2> QED
    BY <2>1, <2>2
<1>6. AllAreHeard'
  BY <1>1, <1>3, <1>5 DEF NetInv, AllAreHeard, Ends
<1>7. NetsAreProper'
  BY <1>1, <1>3 DEF NetInv, NetsAreProper, Proper, Ends
<1> QED
  BY <1>2, <1>4, <1>6, <1>7 DEF NetInv

LEMMA TakesScanCnf == NetInv /\ scanCnfCb => NetInv'
<1> SUFFICES ASSUME NetInv, scanCnfCb PROVE NetInv'
  OBVIOUS
<1>1. CASE Receive("activeCnf") /\ switchState("scanActiveCnf")
  BY <1>1, Ended DEF scanCnfCb, Ends
<1>2. CASE Receive("edCnf") /\ switchState("scanEdCnf")
           /\ channel' = findBestChannel(Head(inbox)[2])
  <2>1. channel' \in Channels
    BY <1>2, Received, KindsOfMessages, BestChannel
  <2> QED
    BY <1>2, <2>1, Ended DEF scanCnfCb, Ends
<1>3. CASE Receive("scanFailed") /\ switchState("scanActive")
  BY <1>3, Ended DEF scanCnfCb, Ends
<1> QED
  BY <1>1, <1>2, <1>3 DEF scanCnfCb

LEMMA TakesStartCnf == NetInv /\ startCnfCb => NetInv'
<1> SUFFICES ASSUME NetInv, startCnfCb PROVE NetInv'
  OBVIOUS
<1>1. CASE Receive("startCnf") /\ switchState("startCnf")
  BY <1>1, Ended DEF startCnfCb, Ends
<1>2. CASE Receive("startFailed") /\ switchState("scanActive")
  BY <1>2, Ended DEF startCnfCb, Ends
<1> QED
  BY <1>1, <1>2 DEF startCnfCb

LEMMA TakesReset == NetInv /\ resetIndCb => NetInv'
<1> SUFFICES ASSUME NetInv, resetIndCb PROVE NetInv'
  OBVIOUS
<1> USE DEF resetIndCb, ApiMac_init, info
<1>1. CllcTypes' /\ LastIsLast'
  BY Received DEF NetInv, CllcTypes
<1>2. ~Changed /\ ~Changed'
  BY Received DEF Changed
<1>3. \A k \in Ends : ~Waits(k)'
  BY Received DEF Ends
<1> HIDE DEF Waits, Waiting, Changed
<1>4. OneAtATime'
  BY <1>2, <1>3 DEF OneAtATime
<1>5. AllAreHeard' /\ NetsAreProper'
  BY <1>2, <1>3 DEF NetInv, AllAreHeard, NetsAreProper, Proper, Ends
<1> QED
  BY <1>1, <1>4, <1>5 DEF NetInv

-----------------------------------------------------------------------------
(* The co-processor.                                                       *)

LEMMA HearsBeacon ==
  ASSUME NetInv, NEW n \in Neighbours, Beacon(n)
  PROVE  NetInv'
<1> USE DEF Beacon, RadioStep, info
<1> DEFINE m == <<"beacon", n>>
<1>1. m \in Messages /\ m[1] = "beacon" /\ m[2] = n /\ Send(m)
  BY DEF Messages
<1>2. scan = "active" /\ scan' = "active" /\ ~Changed /\ ~startEvt
      /\ \A k \in Ends \cup {"reset"} : ~Waits(k)
  BY ResetWaits DEF NetInv, OneAtATime, Finishes
<1> HIDE DEF m
<1>3. /\ inbox' \in Seq(Messages) /\ LastIsLast'
      /\ \A k : Waits(k)' <=> Waits(k) \/ k = "beacon"
      /\ Waiting \subseteq Waiting' /\ n \in Waiting'
  BY <1>1, <1>2, Sending DEF NetInv
<1>4. CllcTypes' /\ (Changed' <=> Changed)
  BY <1>3 DEF NetInv, CllcTypes, Changed
<1> HIDE DEF Waits, Waiting, Changed
<1>5. OneAtATime'
  BY <1>2, <1>3, <1>4 DEF OneAtATime, Ends
<1>6. AllAreHeard'
  BY <1>2, <1>3, <1>4 DEF NetInv, AllAreHeard, Ends
<1>7. NetsAreProper'
  BY <1>2, <1>3, <1>4 DEF NetInv, NetsAreProper, Proper, Ends
<1> QED
  BY <1>3, <1>4, <1>5, <1>6, <1>7 DEF NetInv

\* The co-processor ends what it did, and tells so.
LEMMA TellsTheEnd ==
  ASSUME NetInv, scan # "idle", Finishes, NEW m \in Messages, m[1] \in Ends, Send(m),
         scan' = "idle", RadioStep, heard' = heard, wanted' = wanted,
         m[1] = "activeCnf" => scan = "active" /\ heard = Neighbours,
         m[1] = "edCnf" => scan = "energyDetect",
         IF m[1] = "startCnf" THEN scan = "start" /\ on' = wanted ELSE on' = on
  PROVE  NetInv'
<1> USE DEF RadioStep, info
<1>1. ~Changed /\ ~startEvt /\ \A k \in Ends \cup {"reset"} : ~Waits(k)
  BY ResetWaits DEF NetInv, OneAtATime, Finishes
<1>2. /\ inbox' \in Seq(Messages) /\ LastIsLast'
      /\ \A k : Waits(k)' <=> Waits(k) \/ k = m[1]
      /\ Waiting \subseteq Waiting'
  BY <1>1, Sending DEF NetInv
<1>3. CllcTypes' /\ (Changed' <=> Changed)
  BY <1>2 DEF NetInv, CllcTypes, Changed
<1> HIDE DEF Waits, Waiting, Changed
<1>4. OneAtATime'
  BY <1>1, <1>2, <1>3 DEF OneAtATime, Ends
<1>5. AllAreHeard'
  BY <1>1, <1>2, <1>3 DEF NetInv, AllAreHeard, Ends
<1>6. NetsAreProper'
  <2>1. ASSUME ~misread PROVE on' = NoNet \/ Proper(on)'
    BY <2>1 DEF NetInv, NetsAreProper, Proper
  <2>2. ASSUME ~misread, Waits("startCnf")' PROVE on' # NoNet \/ Waits("reset")'
    BY <1>1, <1>2, <2>2, ProperIsSome DEF NetInv, NetsAreProper, Ends
  <2> QED
    BY <1>1, <1>3, <2>1, <2>2 DEF NetInv, NetsAreProper, Proper
<1> QED
  BY <1>2, <1>3, <1>4, <1>5, <1>6 DEF NetInv

LEMMA RadioSteps == NetInv /\ Radio => NetInv'
<1> SUFFICES ASSUME NetInv, Radio PROVE NetInv'
  OBVIOUS
<1>1. CASE \E n \in Neighbours : Beacon(n)
  BY <1>1, HearsBeacon
<1>2. CASE ScanEnds
  <2>1. <<"activeCnf">> \in Messages /\ <<"activeCnf">>[1] = "activeCnf"
    BY DEF Messages, Ends
  <2>2. ASSUME NEW energy \in [Channels -> Energies]
        PROVE  <<"edCnf", energy>> \in Messages /\ <<"edCnf", energy>>[1] = "edCnf"
    BY DEF Messages
  <2>3. CASE scan = "active" /\ heard = Neighbours /\ Send(<<"activeCnf">>)
    BY <1>2, <2>1, <2>3, TellsTheEnd DEF ScanEnds, Ends
  <2>4. ASSUME scan = "energyDetect", NEW energy \in [Channels -> Energies],
               Send(<<"edCnf", energy>>)
        PROVE  NetInv'
    BY <1>2, <2>2, <2>4, TellsTheEnd DEF ScanEnds, Ends
  <2> QED
    BY <1>2, <2>3, <2>4 DEF ScanEnds
<1>3. CASE StartEnds
  <2>1. <<"startCnf">> \in Messages /\ <<"startCnf">>[1] = "startCnf"
    BY DEF Messages, Ends
  <2> QED
    BY <1>3, <2>1, TellsTheEnd DEF StartEnds, Ends
<1>4. CASE RequestFails
  <2> DEFINE m == IF scan = "start" THEN <<"startFailed">> ELSE <<"scanFailed">>
  <2>1. m \in Messages /\ m[1] \in {"startFailed", "scanFailed"} /\ Send(m)
    BY <1>4 DEF RequestFails, Messages, Ends
  <2> HIDE DEF m
  <2> QED
    BY <1>4, <2>1, TellsTheEnd DEF RequestFails, Ends
<1> QED
  BY <1>1, <1>2, <1>3, <1>4 DEF Radio

LEMMA Resets == NetInv /\ CoPReset => NetInv'
<1> SUFFICES ASSUME NetInv, CoPReset PROVE NetInv'
  OBVIOUS
<1> USE DEF CoPReset, info
<1> DEFINE m == <<"reset">>
<1>1. m \in Messages /\ m[1] = "reset" /\ Send(m)
  BY DEF Messages
<1> HIDE DEF m
<1>2. /\ inbox' \in Seq(Messages) /\ LastIsLast'
      /\ \A k : Waits(k)' <=> Waits(k) \/ k = "reset"
      /\ Waiting \subseteq Waiting'
  BY <1>1, Sending DEF NetInv
<1>3. CllcTypes' /\ (Changed' <=> Changed)
  BY <1>2 DEF NetInv, CllcTypes, Changed
<1> HIDE DEF Waits, Waiting, Changed
<1>4. OneAtATime'
  BY <1>2, <1>3 DEF NetInv, OneAtATime, Ends
<1>5. AllAreHeard' /\ NetsAreProper'
  BY <1>2, <1>3 DEF NetInv, AllAreHeard, NetsAreProper, Proper, Ends
<1> QED
  BY <1>2, <1>3, <1>4, <1>5 DEF NetInv

-----------------------------------------------------------------------------
(* The theorem.                                                            *)

LEMMA OtherSteps ==
  ASSUME NetInv,
         \/ NoStart \/ NoStateChange \/ joinPermitExpired \/ ClearJoinEvent \/ NoJoinEvent
         \/ (\E d \in Keys : PermitKey(d)) \/ NoKey \/ NoMessage
         \/ processJoinTimeoutCallback
         \/ \E c \in Clients : SetJoinPermit(c) \/ \E d \in Durations : PermitAttribute(c, d)
         \/ UNCHANGED vars
  PROVE  NetInv'
<1>1. Changed => pc \in {"start", "state"}
  BY DEF NetInv, OneAtATime
<1>2. /\ UNCHANGED <<info, radio, inbox>> /\ (startEvt' => startEvt)
      /\ (Changed' <=> Changed) /\ (Changed => pc' \in {"start", "state"})
  <2>1. CASE NoStart
    BY <2>1 DEF NoStart, At, Changed
  <2>2. CASE NoStateChange
    BY <2>2 DEF NoStateChange, At, Changed
  <2>3. CASE joinPermitExpired \/ ClearJoinEvent
    BY <1>1, <2>3 DEF joinPermitExpired, ClearJoinEvent, At, Changed
  <2>4. CASE NoJoinEvent \/ NoKey \/ NoMessage
    BY <1>1, <2>4 DEF NoJoinEvent, NoKey, NoMessage, At, Changed
  <2>5. CASE \E d \in Keys : PermitKey(d)
    BY <1>1, <2>5 DEF PermitKey, At, Changed
  <2>6. CASE processJoinTimeoutCallback
    BY <1>1, <2>6 DEF processJoinTimeoutCallback, Changed
  <2>7. CASE \E c \in Clients : SetJoinPermit(c) \/ \E d \in Durations : PermitAttribute(c, d)
    BY <1>1, <2>7 DEF SetJoinPermit, PermitState, PermitClock, PermitAttribute, Changed
  <2>8. CASE UNCHANGED vars
    BY <1>1, <2>8 DEF vars, Changed
  <2> QED
    BY <2>1, <2>2, <2>3, <2>4, <2>5, <2>6, <2>7, <2>8
<1> QED
  BY <1>2, OtherStep

\* The network that is coordinated is none of those that answered a scan, is on a
\* channel of the mask and has a valid PAN id, whatever fails and resets, unless one
\* was saved that was read back too late.
THEOREM ProperNetwork == Spec => []NetworkIsProper
<1>1. NetInv /\ [Next]_vars => NetInv'
  <2> SUFFICES ASSUME NetInv, [Next]_vars PROVE NetInv'
    OBVIOUS
  <2>1. CASE Loop
    BY <2>1, OtherSteps, RestoreNetwork, StartNetwork, ScanRequest, StartRequest,
       NetworkStarted, TakesBeacon, TakesScanCnf, TakesStartCnf, TakesReset DEF Loop
  <2>2. CASE Radio \/ CoPReset
    BY <2>2, RadioSteps, Resets
  <2>3. CASE \/ processJoinTimeoutCallback
             \/ \E c \in Clients : SetJoinPermit(c) \/ \E d \in Durations : PermitAttribute(c, d)
             \/ UNCHANGED vars
    BY <2>3, OtherSteps
  <2> QED
    BY <2>1, <2>2, <2>3 DEF Next
<1>2. NetInv => NetworkIsProper
  BY DEF NetInv, NetsAreProper, NetworkIsProper, Proper
<1> QED
  BY InitNetInv, <1>1, <1>2, PTL DEF Spec

-----------------------------------------------------------------------------
(* The join permit.                                                        *)

\* As long as no two requests overlap, the one that is being served is the one that
\* the permit is from.
PermitInv ==
  /\ job \in [Clients -> [at : {"idle", "state", "clock"}, duration : {"off", "while", "on"}]]
  /\ asked # "mixed" =>
       \A c \in Clients : job[c].at # "idle" =>
         /\ permit => job[c].duration # "off"
         /\ \A d \in Clients : job[d].at # "idle" => d = c
  /\ PermitIsAskedFor

\* The end of the permit will be noticed, or was forgotten.
PermitEnds == joinClk \/ lost \/ ("JOIN" \in events /\ ~JoinIsServed)

\* A step that permits no more than before, and forgets no end.
LEMMA NoNewPermit ==
  ASSUME PermitInv, permit' => permit, UNCHANGED <<job, asked>>,
         PermitEnds => PermitEnds' \/ ~permit'
  PROVE  PermitInv'
  BY DEF PermitInv, PermitIsAskedFor, PermitEnds, Requested

LEMMA PermitSteps == PermitInv /\ [Next]_vars => PermitInv'
<1> SUFFICES ASSUME PermitInv, [Next]_vars PROVE PermitInv'
  OBVIOUS
<1> USE DEF info, radio, count, PermitEnds, JoinIsServed
<1>1. ASSUME NEW d \in Keys, PermitKey(d) PROVE PermitInv'
  BY <1>1, PanAssumption DEF PermitInv, PermitIsAskedFor, Requested, PermitKey
<1>2. ASSUME NEW c \in Clients, NEW d \in Durations, PermitAttribute(c, d)
      PROVE  PermitInv'
  <2>1. /\ job' = [job EXCEPT ![c] = [at |-> "state", duration |-> d]]
        /\ job' \in [Clients -> [at : {"idle", "state", "clock"},
                                 duration : {"off", "while", "on"}]]
    BY <1>2, PanAssumption DEF PermitInv, PermitAttribute
  <2>2. Requested'
    BY <2>1 DEF Requested
  <2>3. ASSUME asked' # "mixed", NEW e \in Clients, job'[e].at # "idle"
        PROVE  e = c /\ (permit' => job'[e].duration # "off")
    <3>1. CASE e = c
      <4>1. job'[c].duration = d
        BY <2>1 DEF PermitInv
      <4>2. permit' => d # "off"
        BY <1>2 DEF PermitAttribute
      <4> QED
        BY <3>1, <4>1, <4>2
    <3>2. CASE e # c
      <4>1. job[e].at # "idle"
        BY <2>1, <2>3, <3>2 DEF PermitInv
      <4>2. asked' = "mixed"
        BY <1>2, <4>1 DEF PermitAttribute, Requested
      <4> QED
        BY <2>3, <4>2
    <3> QED
      BY <3>1, <3>2
  <2> QED
    BY <2>1, <2>2, <2>3 DEF PermitInv, PermitIsAskedFor
<1>3. ASSUME NEW c \in Clients, PermitState(c) PROVE PermitInv'
  <2>1. /\ job' \in [Clients -> [at : {"idle", "state", "clock"},
                                 duration : {"off", "while", "on"}]]
        /\ \A e \in Clients : (job'[e].at # "idle" <=> job[e].at # "idle")
                              /\ job'[e].duration = job[e].duration
    BY <1>3 DEF PermitInv, PermitState
  <2> QED
    BY <1>3, <2>1 DEF PermitInv, PermitIsAskedFor, Requested, PermitState
<1>4. ASSUME NEW c \in Clients, PermitClock(c) PROVE PermitInv'
  <2>1. /\ job' \in [Clients -> [at : {"idle", "state", "clock"},
                                 duration : {"off", "while", "on"}]]
        /\ job'[c].at = "idle" /\ \A e \in Clients \ {c} : job'[e] = job[e]
        /\ job[c].at = "clock" /\ job[c].duration \in {"off", "while", "on"}
    BY <1>4 DEF PermitInv, PermitClock
  <2>2. CASE asked = "mixed"
    BY <1>4, <2>1, <2>2 DEF PermitInv, PermitIsAskedFor, PermitClock, Answered
  <2>3. CASE asked # "mixed"
    <3>1. \A e \in Clients : job'[e].at = "idle"
      BY <2>1, <2>3 DEF PermitInv
    <3>2. permit' => job[c].duration # "off"
      BY <1>4, <2>1, <2>3 DEF PermitInv, PermitClock
    <3> QED
      BY <1>4, <2>1, <2>3, <3>1, <3>2
      DEF PermitInv, PermitIsAskedFor, PermitClock, Answered
  <2> QED
    BY <2>2, <2>3
<1>5. CASE \/ Cllc_restoreNetwork \/ Cllc_startNetwork \/ NoStart \/ NoStateChange
           \/ joinPermitExpired \/ ClearJoinEvent \/ NoJoinEvent \/ NoKey \/ NoMessage
  BY <1>5, NoNewPermit
  DEF Cllc_restoreNetwork, Cllc_startNetwork, NoStart, NoStateChange, joinPermitExpired,
      ClearJoinEvent, NoJoinEvent, NoKey, NoMessage, switchState, At
<1>6. CASE SendScanReq \/ SendStartReq \/ CoordinatorStarted
  BY <1>6, NoNewPermit DEF SendScanReq, SendStartReq, CoordinatorStarted, InState, At
<1>7. CASE beaconNotifyIndCb \/ scanCnfCb \/ startCnfCb \/ resetIndCb
  BY <1>7, NoNewPermit
  DEF beaconNotifyIndCb, scanCnfCb, startCnfCb, resetIndCb, ApiMac_init, Receive, switchState, At
<1>8. CASE Radio \/ CoPReset
  <2>1. CASE Radio
    <3>1. RadioStep
      BY <2>1 DEF Radio, Beacon, ScanEnds, StartEnds, RequestFails
    <3> QED
      BY <3>1, NoNewPermit DEF RadioStep
  <2>2. CASE CoPReset
    BY <2>2, NoNewPermit DEF CoPReset
  <2> QED
    BY <1>8, <2>1, <2>2
<1>9. CASE processJoinTimeoutCallback \/ UNCHANGED vars
  <2>1. CASE processJoinTimeoutCallback
    <3>1. (permit' <=> permit) /\ UNCHANGED <<job, asked>>
      BY <2>1 DEF processJoinTimeoutCallback
    <3>2. JoinIsServed => lost'
      BY <2>1, Zenon DEF processJoinTimeoutCallback
    <3>3. lost => lost'
      BY <2>1, Zenon DEF processJoinTimeoutCallback
    <3>4. "JOIN" \in events' /\ pc' = pc
      BY <2>1 DEF processJoinTimeoutCallback
    <3> QED
      BY <3>1, <3>2, <3>3, <3>4, NoNewPermit
  <2>2. CASE UNCHANGED vars
    BY <2>2, NoNewPermit DEF vars
  <2> QED
    BY <1>9, <2>1, <2>2
<1> QED
  BY <1>1, <1>2, <1>3, <1>4, <1>5, <1>6, <1>7, <1>8, <1>9 DEF Next, Loop, SetJoinPermit

\* However many clients, the operator and the clock set the permit: devices may join only
\* as long as the last request allows, when no two of them overlap, unless its clock ended
\* while the event of an earlier one was served (cllc.c:502-508).
THEOREM PermitOnlyIfAsked == Spec => []PermitIsAskedFor
<1>1. Init => PermitInv
  BY DEF Init, Cllc_init, PermitInv, PermitIsAskedFor
<1>2. PermitInv => PermitIsAskedFor
  BY DEF PermitInv
<1> QED
  BY <1>1, <1>2, PermitSteps, PTL DEF Spec

-----------------------------------------------------------------------------
(* The trickle timers.                                                     *)

\* Times keep to their limits.  Who waits is remembered in the targets, and its time is the
\* least, with which a clock runs or an event is set; behind a frame that was sent, nobody
\* waits, and the time is not the least unless there is no other.
KindInv(k) ==
  /\ IF timing.double THEN timing.min <= trickleTime[k] /\ trickleTime[k] <= timing.max
                      ELSE trickleTime[k] \in {0, timing.min, timing.max}
  /\ unanswered[k] # {} => fhNet = "on" /\ networkStarted /\ trickleTime[k] = timing.min
  /\ unanswered[k] \ {Hopping} \subseteq optChMask[k]
  /\ Hopping \in unanswered[k] => k \in hopFound
  /\ fhPc = SentPlace(k) =>
       /\ unanswered[k] = {}
       /\ trickleTime[k] = timing.min => timing.double /\ timing.min = timing.max
  /\ trickleTime[k] = timing.min => Timed(k) \/ Stopped(k)

FhInv ==
  /\ FhTypeOK
  /\ fhNet # "off" => networkStarted
  /\ \A k \in Kinds : KindInv(k)

LEMMA TimingTypes ==
  ASSUME FhTypeOK
  PROVE  /\ timing.min \in Nat \ {0} /\ timing.max \in Nat \ {0} /\ timing.double \in BOOLEAN
         /\ timing.min <= timing.max
  BY TrickleAssumption DEF FhTypeOK

LEMMA InitFhInv == FhInit => FhInv
<1> SUFFICES ASSUME FhInit PROVE FhInv
  OBVIOUS
<1>1. FhTypeOK
  BY TrickleAssumption DEF FhInit, CLLC_LINUX_init, Csf_initializeTrickleClock, FhTypeOK, Kinds
<1>2. ASSUME NEW k \in Kinds PROVE KindInv(k)
  BY <1>1, <1>2, TimingTypes DEF FhInit, CLLC_LINUX_init, Csf_initializeTrickleClock, KindInv, SentPlace, Timed, Kinds
<1> QED
  BY <1>1, <1>2 DEF FhInit, CLLC_LINUX_init, Csf_initializeTrickleClock, FhInv

\* The channels of a frame are enough for all who have solicited it: if one of them hops,
\* they are all there are.
LEMMA AllAreReached ==
  ASSUME FhInv, NEW k \in Kinds
  PROVE  unanswered[k] \ Reached(TargetsOf(k)) = {}
<1>1. KindInv(k) /\ unanswered[k] \subseteq AsyncChannels \cup {Hopping}
  BY DEF FhInv, FhTypeOK
<1>2. CASE k \in fixedFound /\ k \notin hopFound
  <2>1. TargetsOf(k) = optChMask[k]
    BY <1>2 DEF TargetsOf
  <2>2. unanswered[k] \subseteq optChMask[k]
    BY <1>1, <1>2 DEF KindInv
  <2> QED
    BY <2>1, <2>2 DEF Reached
<1>3. CASE ~(k \in fixedFound /\ k \notin hopFound)
  <2>1. TargetsOf(k) = AsyncChannels
    BY <1>3 DEF TargetsOf
  <2>2. Reached(AsyncChannels) = AsyncChannels \cup {Hopping}
    BY DEF Reached
  <2> QED
    BY <1>1, <2>1, <2>2
<1> QED
  BY <1>2, <1>3

\* With doubling, the time is not the least after its clock ended, unless it has to be.
LEMMA DoubledTime ==
  ASSUME FhInv, NEW k \in Kinds, timing.double
  PROVE  /\ Doubled(trickleTime[k]) \in Nat
         /\ timing.min <= Doubled(trickleTime[k]) /\ Doubled(trickleTime[k]) <= timing.max
         /\ Doubled(trickleTime[k]) = timing.min => timing.min = timing.max
<1>1. trickleTime[k] \in Nat /\ timing.min <= trickleTime[k] /\ trickleTime[k] <= timing.max
  BY DEF FhInv, KindInv, FhTypeOK
<1>2. timing.min \in Nat \ {0} /\ timing.max \in Nat
  BY TimingTypes DEF FhInv
<1> QED
  BY <1>1, <1>2 DEF Doubled

LEMMA TrickleEventKeeps ==
  ASSUME FhInv, NEW k \in Kinds, TrickleEvent(k)
  PROVE  FhInv'
<1>0. FhTypeOK /\ KindInv(k) /\ trickleTime \in [Kinds -> Nat] /\ trickleClk \in [Kinds -> BOOLEAN]
  BY DEF FhInv, FhTypeOK
<1>1. /\ timing' = timing /\ trickleEvents' = trickleEvents /\ networkStarted' = networkStarted
      /\ fhNet' = fhNet /\ missed' = missed
      /\ fhPc = ServePlace(k) /\ fhPc' = SentPlace(k) /\ k \in trickleEvents
  BY DEF TrickleEvent, FhAt
<1>2. trickleTime' = [trickleTime EXCEPT ![k] = IF timing.double THEN Doubled(@) ELSE 0]
  BY <1>0 DEF TrickleEvent, setTrickleTime
<1>3. trickleTime' \in [Kinds -> Nat]
  BY <1>0, <1>2, DoubledTime
<1>4. trickleClk' = IF timing.double THEN [trickleClk EXCEPT ![k] = TRUE] ELSE trickleClk
  <2>1. CASE timing.double
    <3>1. trickleClk' = [trickleClk EXCEPT ![k] = Doubled(trickleTime[k]) > 0]
      BY <2>1 DEF TrickleEvent, setTrickleTime, Csf_setTrickleClock
    <3>2. (Doubled(trickleTime[k]) > 0) = TRUE
      BY <1>0, <2>1, DoubledTime, TimingTypes
    <3> QED
      BY <2>1, <3>1, <3>2, Zenon
  <2>2. CASE ~timing.double
    BY <2>2 DEF TrickleEvent, setTrickleTime
  <2> QED
    BY <2>1, <2>2
<1>5. /\ trickleClk' \in [Kinds -> BOOLEAN]
      /\ \A l \in Kinds \ {k} : trickleClk'[l] = trickleClk[l]
      /\ timing.double => trickleClk'[k]
  BY <1>0, <1>4
<1>6. /\ unanswered' = [unanswered EXCEPT ![k] = {}]
      /\ optChMask' \in [Kinds -> SUBSET AllChannels]
      /\ fixedFound' \subseteq Kinds /\ hopFound' \subseteq Kinds
      /\ \A l \in Kinds \ {k} :
           optChMask'[l] = optChMask[l] /\ (l \in hopFound => l \in hopFound')
  <2>0. unanswered \in [Kinds -> SUBSET (AsyncChannels \cup {Hopping})]
        /\ optChMask \in [Kinds -> SUBSET AllChannels]
        /\ fixedFound \subseteq Kinds /\ hopFound \subseteq Kinds
    BY <1>0 DEF FhTypeOK
  <2>1. CASE networkStarted /\ fhNet = "on"
    BY <2>0, <2>1, AllAreReached DEF TrickleEvent, sendAsyncReq
  <2>2. CASE ~(networkStarted /\ fhNet = "on")
    <3>1. unanswered[k] = {} /\ unanswered' = unanswered
      BY <1>0, <2>2 DEF KindInv, TrickleEvent, sendAsyncReq
    <3> QED
      BY <2>0, <2>2, <3>1 DEF TrickleEvent, sendAsyncReq, targets
  <2> QED
    BY <2>1, <2>2
<1>7. FhTypeOK'
  BY <1>0, <1>1, <1>3, <1>5, <1>6 DEF FhTypeOK, SentPlace
<1>8. KindInv(k)'
  <2>1. unanswered'[k] = {}
    BY <1>0, <1>6 DEF FhTypeOK
  <2>2. CASE timing.double
    BY <1>0, <1>1, <1>2, <1>5, <2>1, <2>2, DoubledTime DEF KindInv, Timed
  <2>3. CASE ~timing.double
    <3>1. trickleTime'[k] = 0 /\ timing.min # 0
      BY <1>0, <1>2, <2>3, TimingTypes
    <3> QED
      BY <1>1, <2>1, <2>3, <3>1 DEF KindInv
  <2> QED
    BY <2>2, <2>3
<1>9. ASSUME NEW l \in Kinds, l # k PROVE KindInv(l)'
  <2>1. KindInv(l) /\ l \in Kinds \ {k}
    BY <1>9 DEF FhInv
  <2>2. trickleTime'[l] = trickleTime[l] /\ unanswered'[l] = unanswered[l]
    BY <1>0, <1>2, <1>6, <1>9 DEF FhTypeOK
  <2>3. fhPc' # SentPlace(l) /\ fhPc # SentPlace(l)
    BY <1>1, <1>9 DEF SentPlace, ServePlace, Kinds
  <2> QED
    BY <1>1, <1>5, <1>6, <2>1, <2>2, <2>3 DEF KindInv, Timed, Stopped, SentPlace
<1> QED
  BY <1>1, <1>7, <1>8, <1>9 DEF FhInv

LEMMA ClearTrickleEventKeeps ==
  ASSUME FhInv, NEW k \in Kinds, ClearTrickleEvent(k)
  PROVE  FhInv'
<1>1. FhTypeOK'
  BY DEF FhInv, FhTypeOK, ClearTrickleEvent, FhAt, NextPlace, targets
<1>2. ASSUME NEW l \in Kinds PROVE KindInv(l)'
  <2>1. KindInv(l)
    BY <1>2 DEF FhInv
  <2>2. fhPc = SentPlace(k) /\ fhPc' # SentPlace(l)
    BY <1>2 DEF ClearTrickleEvent, FhAt, NextPlace, SentPlace, Kinds
  <2>3. Timed(l) => Timed(l)'
    BY <1>2, <2>2 DEF ClearTrickleEvent, Timed, Kinds, SentPlace
  <2> QED
    BY <1>2, <2>1, <2>2, <2>3 DEF ClearTrickleEvent, KindInv, Stopped, targets
<1> QED
  BY <1>1, <1>2 DEF FhInv, ClearTrickleEvent

LEMMA TrickleTimeoutKeeps ==
  ASSUME FhInv, NEW k \in Kinds, TrickleTimeout(k)
  PROVE  FhInv'
<1>1. FhTypeOK'
  BY DEF FhInv, FhTypeOK, TrickleTimeout, targets
<1>2. ASSUME NEW l \in Kinds PROVE KindInv(l)'
  <2>1. KindInv(l) /\ FhTypeOK
    BY <1>2 DEF FhInv
  <2>2. trickleTime'[l] = timing.min => Timed(l)' \/ Stopped(l)'
    <3>1. CASE l # k
      BY <2>1, <3>1 DEF TrickleTimeout, KindInv, Timed, Stopped, FhTypeOK, SentPlace
    <3>2. CASE l = k /\ fhPc = SentPlace(k)
      BY <2>1, <3>2 DEF TrickleTimeout, KindInv, Stopped
    <3>3. CASE l = k /\ fhPc # SentPlace(k)
      BY <3>3 DEF TrickleTimeout, Timed, SentPlace
    <3> QED
      BY <3>1, <3>2, <3>3
  <2> QED
    BY <2>1, <2>2 DEF TrickleTimeout, KindInv, targets, SentPlace
<1> QED
  BY <1>1, <1>2 DEF FhInv, TrickleTimeout

\* Steps that leave the timers alone, and do not come behind a frame that was sent.
LEMMA OtherFhStepKeeps ==
  ASSUME FhInv, FhTypeOK', fhNet' # "off" => networkStarted',
         networkStarted => networkStarted',
         \A k \in Kinds : fhPc # SentPlace(k) /\ fhPc' # SentPlace(k),
         \A k \in Kinds : unanswered'[k] = {}
                            \/ (unanswered'[k] = unanswered[k] /\ fhNet' = fhNet),
         \A k \in Kinds : trickleClk[k] => trickleClk'[k],
         UNCHANGED <<timing, trickleTime, trickleEvents, targets, missed>>
  PROVE  FhInv'
<1>1. ASSUME NEW k \in Kinds PROVE KindInv(k)'
  <2>1. KindInv(k)
    BY <1>1 DEF FhInv
  <2>2. trickleTime'[k] = timing'.min => Timed(k)' \/ Stopped(k)'
    BY <1>1, <2>1 DEF KindInv, Timed, Stopped
  <2> QED
    BY <1>1, <2>1, <2>2 DEF KindInv, targets
<1> QED
  BY <1>1 DEF FhInv

\* What is said of the channels is of channels that there are.
LEMMA SaidIsOfChannels ==
  ASSUME NEW groups PROVE SaidBy(groups) \subseteq AllChannels \cup {Hopping}
  BY DEF SaidBy

LEMMA SolicitationKeeps ==
  ASSUME FhInv, NEW frame \in Heard, wsAsyncIndCb(frame)
  PROVE  FhInv'
<1> DEFINE k    == frame.kind
           said == SaidBy(frame.groups)
           own  == IsOwn(frame.groups)
<1>0. k \in Kinds /\ said \subseteq AllChannels \cup {Hopping} /\ FhTypeOK
  BY TrickleAssumption, SaidIsOfChannels DEF FhInv
<1>1. /\ fhPc = "receive" /\ fhPc' = "advert" /\ networkStarted
      /\ UNCHANGED <<timing, trickleEvents, networkStarted, fhNet, missed>>
      /\ fixedFound' = IF said \ {Hopping} # {} THEN fixedFound \cup {k} ELSE fixedFound
      /\ hopFound' = IF Hopping \in said THEN hopFound \cup {k} ELSE hopFound
      /\ optChMask' = [optChMask EXCEPT ![k] = @ \cup (said \ {Hopping})]
      /\ IF own THEN processIncomingFHframe(k) ELSE UNCHANGED <<trickleTime, trickleClk>>
      /\ unanswered' = IF own /\ fhNet = "on"
                       THEN [unanswered EXCEPT
                               ![k] = @ \cup (said \cap (AsyncChannels \cup {Hopping}))]
                       ELSE unanswered
  BY DEF wsAsyncIndCb, processIncomingAsyncUSIE, FhAt
<1> HIDE DEF k, said, own
<1>2. /\ trickleTime' \in [Kinds -> Nat] /\ trickleClk' \in [Kinds -> BOOLEAN]
      /\ \A l \in Kinds \ {k} :
           trickleTime'[l] = trickleTime[l] /\ trickleClk'[l] = trickleClk[l]
      /\ own => trickleTime'[k] = timing.min
      /\ \/ trickleTime'[k] = trickleTime[k] /\ trickleClk'[k] = trickleClk[k]
         \/ trickleTime'[k] = timing.min /\ trickleClk'[k]
  <2>1. trickleTime \in [Kinds -> Nat] /\ trickleClk \in [Kinds -> BOOLEAN]
        /\ timing.min \in Nat /\ timing.min > 0
    BY <1>0, TimingTypes DEF FhTypeOK
  <2>2. CASE own /\ trickleTime[k] # timing.min
    BY <1>0, <1>1, <2>1, <2>2 DEF processIncomingFHframe, Csf_setTrickleClock
  <2>3. CASE ~own \/ trickleTime[k] = timing.min
    BY <1>0, <1>1, <2>1, <2>3 DEF processIncomingFHframe
  <2> QED
    BY <2>2, <2>3
<1>3. FhTypeOK'
  BY <1>0, <1>1, <1>2 DEF FhTypeOK
<1>4. ASSUME NEW l \in Kinds PROVE KindInv(l)'
  <2>0. KindInv(l)
    BY <1>4 DEF FhInv
  <2>1. fhPc' # SentPlace(l) /\ fhPc # SentPlace(l)
    BY <1>1 DEF SentPlace
  <2>2. CASE l # k
    <3>1. trickleTime'[l] = trickleTime[l] /\ trickleClk'[l] = trickleClk[l]
      BY <1>2, <1>4, <2>2
    <3>2. unanswered'[l] = unanswered[l] /\ optChMask'[l] = optChMask[l]
          /\ (l \in hopFound => l \in hopFound')
      BY <1>0, <1>1, <1>4, <2>2 DEF FhTypeOK
    <3> QED
      BY <1>1, <2>0, <2>1, <3>1, <3>2 DEF KindInv, Timed, Stopped
  <2>3. CASE l = k
    <3>1. /\ unanswered'[k] \ {Hopping} \subseteq optChMask'[k]
          /\ Hopping \in unanswered'[k] => k \in hopFound'
      BY <1>0, <1>1, <2>0, <2>3 DEF FhTypeOK, KindInv
    <3>2. unanswered'[k] # {} => fhNet = "on" /\ networkStarted /\ trickleTime'[k] = timing.min
      <4>1. CASE own /\ fhNet = "on"
        BY <1>1, <1>2, <4>1
      <4>2. CASE ~(own /\ fhNet = "on")
        BY <1>0, <1>1, <1>2, <2>0, <2>3, <4>2 DEF KindInv
      <4> QED
        BY <4>1, <4>2
    <3>3. /\ IF timing.double
             THEN timing.min <= trickleTime'[k] /\ trickleTime'[k] <= timing.max
             ELSE trickleTime'[k] \in {0, timing.min, timing.max}
          /\ trickleTime'[k] = timing.min => Timed(k)' \/ Stopped(k)'
      BY <1>0, <1>1, <1>2, <2>0, <2>1, <2>3, TimingTypes DEF KindInv, Timed, Stopped
    <3> QED
      BY <1>1, <2>1, <2>3, <3>1, <3>2, <3>3 DEF KindInv
  <2> QED
    BY <2>2, <2>3
<1> QED
  BY <1>1, <1>3, <1>4 DEF FhInv

LEMMA NextFhInv == FhInv /\ [FhNext]_fhVars => FhInv'
<1> SUFFICES ASSUME FhInv, [FhNext]_fhVars PROVE FhInv'
  OBVIOUS
<1>0. FhTypeOK /\ (fhNet # "off" => networkStarted)
  BY DEF FhInv
<1>1. ASSUME NEW k \in Kinds, TrickleEvent(k) \/ ClearTrickleEvent(k) \/ TrickleTimeout(k)
      PROVE  FhInv'
  BY <1>1, TrickleEventKeeps, ClearTrickleEventKeeps, TrickleTimeoutKeeps
<1>2. ASSUME NEW k \in Kinds, NoTrickleEvent(k) PROVE FhInv'
  <2>1. \A l \in Kinds : fhPc # SentPlace(l) /\ fhPc' # SentPlace(l)
    BY <1>2 DEF NoTrickleEvent, FhAt, ServePlace, NextPlace, SentPlace, Kinds
  <2>2. FhTypeOK'
    BY <1>0, <1>2 DEF NoTrickleEvent, FhTypeOK, FhAt, NextPlace, timers, targets
  <2> QED
    BY <1>0, <1>2, <2>1, <2>2, OtherFhStepKeeps DEF NoTrickleEvent, timers
<1>3. ASSUME SendFhStart \/ FhStarted \/ NoFhStart PROVE FhInv'
  <2>1. \A l \in Kinds : fhPc # SentPlace(l) /\ fhPc' # SentPlace(l)
    BY <1>3 DEF SendFhStart, FhStarted, NoFhStart, FhAt, SentPlace
  <2>2. FhTypeOK'
    BY <1>0, <1>3 DEF SendFhStart, FhStarted, NoFhStart, FhTypeOK, FhAt, timers, targets
  <2>3. \A k \in Kinds : unanswered'[k] = {} \/ (unanswered'[k] = unanswered[k] /\ fhNet' = fhNet)
    <3>1. fhNet # "on" => \A k \in Kinds : unanswered[k] = {}
      BY DEF FhInv, KindInv
    <3> QED
      BY <1>3, <3>1 DEF SendFhStart, FhStarted, NoFhStart
  <2>4. \A k \in Kinds : trickleClk[k] => trickleClk'[k]
    BY <1>3 DEF SendFhStart, FhStarted, NoFhStart, timers
  <2>5. /\ UNCHANGED <<timing, trickleTime, trickleEvents, targets, missed>>
        /\ (networkStarted => networkStarted') /\ (fhNet' # "off" => networkStarted')
    BY <1>0, <1>3 DEF SendFhStart, FhStarted, NoFhStart, timers
  <2> QED
    BY <2>1, <2>2, <2>3, <2>4, <2>5, OtherFhStepKeeps
<1>4. ASSUME NEW frame \in Heard, wsAsyncIndCb(frame) PROVE FhInv'
  BY <1>4, SolicitationKeeps
<1>5. ASSUME NothingHeard \/ FhReset PROVE FhInv'
  <2>1. \A l \in Kinds : fhPc # SentPlace(l) /\ fhPc' # SentPlace(l)
    BY <1>5 DEF NothingHeard, FhReset, FhAt, SentPlace
  <2>2. FhTypeOK'
    BY <1>0, <1>5 DEF NothingHeard, FhReset, FhTypeOK, FhAt, timers, targets
  <2> QED
    BY <1>0, <1>5, <2>1, <2>2, OtherFhStepKeeps DEF NothingHeard, FhReset, timers
<1>6. ASSUME UNCHANGED fhVars PROVE FhInv'
  BY <1>6 DEF FhInv, FhTypeOK, KindInv, Timed, Stopped, SentPlace, fhVars, timers, targets
<1> QED
  BY <1>1, <1>2, <1>3, <1>4, <1>5, <1>6 DEF FhNext, FhLoop

LEMMA FhInvariant == FhSpec => []FhInv
  BY InitFhInv, NextFhInv, PTL DEF FhSpec

\* No solicitor is left behind by a timer that does not run (cllc.c:475, 2061): as long as
\* somebody waits for a frame, a clock runs or an event is to be served.
THEOREM NoSolicitorIsForgotten == FhSpec => []WhoWaitsIsTimed
<1>1. FhInv => WhoWaitsIsTimed
  BY DEF FhInv, KindInv, WhoWaitsIsTimed
<1> QED
  BY <1>1, FhInvariant, PTL

\* A frame is sent on channels that are enough for all who have solicited it (cllc.c:1865).
THEOREM FramesServeAll == FhSpec => []NobodyIsLeftOut
<1>1. FhInv => NobodyIsLeftOut
  BY DEF FhInv, KindInv, NobodyIsLeftOut
<1> QED
  BY <1>1, FhInvariant, PTL
=============================================================================
