-------------------------- MODULE CollectorProofs --------------------------
(***************************************************************************)
(* Theorems about Collector, for every size of the table, of the handle    *)
(* counter and of the co-processor's queue, every set of send faults and   *)
(* any number of resets.                                                   *)
(***************************************************************************)
EXTENDS Collector, TLAPS, FiniteSetTheorems

USE DEF NoAddr, Valid

-----------------------------------------------------------------------------
(* Lemmas on the helpers.                                                  *)

(* What the clocks' functions do to the set of those that run is used      *)
(* throughout.                                                             *)
USE DEF Csf_setConfigClock, Csf_setTrackingClock, Csf_isConfigTimerActive,
        Csf_isTrackingTimerActive

(* The points of the loop reached from one another are points of the loop, *)
(* and never the ones between a handler and the clearing of its event.     *)
LEMMA NextPoints ==
    ASSUME NEW ev, NEW cs
    PROVE  /\ FromCllc(cs) \in Pc \ {"trackingClear", "configClear"}
           /\ FromConfig(ev, cs) \in Pc \ {"trackingClear", "configClear"}
           /\ FromTracking(ev, cs) \in Pc \ {"trackingClear", "configClear"}
           /\ FromStart(ev, cs) \in Pc \ {"trackingClear", "configClear"}
  BY DEF FromCllc, FromConfig, FromTracking, FromStart, Pc

(* sendMsg keeps the handle counter in its range and queues only frames.   *)
LEMMA SendMsgType ==
    ASSUME TypeOK, NEW type \in Request, NEW dst \in Addr, NEW outcome,
           SendMsg(type, dst, outcome)
    PROVE  msduHandle' \in 0..HandleMax /\ tx' \subseteq Msg
  BY ConstantsAssumption DEF TypeOK, SendMsg, NextHandle, Msg

(* Any set of slots is finite.                                             *)
LEMMA SlotsFinite ==
    ASSUME NEW S \in SUBSET Slot
    PROVE  IsFiniteSet(S) /\ Cardinality(S) \in Nat
  <1>1. IsFiniteSet(Slot)
    BY ConstantsAssumption, FS_Interval DEF Slot
  <1>2. IsFiniteSet(S)
    BY <1>1, FS_Subset
  <1> QED
    BY <1>2, FS_CardinalityType

StatusType == [Slot -> SUBSET Flag]

(* processDataRetry marks one device alive and starts clocks: it touches   *)
(* neither tracking nor configuration flags.                               *)
LEMMA DataRetryEffect ==
    ASSUME TypeOK, NEW a \in Addr, NEW st \in StatusType, DataRetry(a, st)
    PROVE  /\ status' \in StatusType
           /\ timers \subseteq timers'
           /\ timers' \subseteq {"TRACKING", "CONFIG"}
           /\ \A s \in Slot :
                 /\ status'[s] \cap TrackingFlags = st[s] \cap TrackingFlags
                 /\ status'[s] \cap ConfigFlags = st[s] \cap ConfigFlags
                 /\ "ALIVE" \in st[s] => "ALIVE" \in status'[s]
  <1>1. CASE SlotsOf(a) = {}
    BY <1>1 DEF DataRetry, TypeOK, StatusType
  <1>2. CASE SlotsOf(a) # {}
    <2>1. PICK s \in Slot : /\ IsFirst(s, SlotsOf(a))
                            /\ status' = Set(st, s, {"ALIVE"})
                            /\ timers' = DataRetryTimers(st, s)
      BY <1>2 DEF DataRetry
    <2>2. assoc[s] = a /\ a # NoAddr
      BY <2>1, ConstantsAssumption DEF IsFirst, SlotsOf, Addr
    <2>3. status' = [st EXCEPT ![s] = st[s] \cup {"ALIVE"}]
      BY <2>1 DEF Set, StatusType
    <2>4. status' \in StatusType
      BY <2>3 DEF StatusType, Flag
    <2>5. timers \subseteq timers' /\ timers' \subseteq {"TRACKING", "CONFIG"}
      BY <2>1 DEF DataRetryTimers, ConfigRetry, TypeOK
    <2>6. \A u \in Slot :
             /\ status'[u] \cap TrackingFlags = st[u] \cap TrackingFlags
             /\ status'[u] \cap ConfigFlags = st[u] \cap ConfigFlags
             /\ "ALIVE" \in st[u] => "ALIVE" \in status'[u]
      BY <2>2, <2>3 DEF StatusType, TrackingFlags, ConfigFlags
    <2> QED
      BY <2>4, <2>5, <2>6
  <1> QED
    BY <1>1, <1>2

(* sendTrackingRequest leaves the tracking flags of the other slots and    *)
(* every configuration flag alone, and either starts the clock or drops    *)
(* the request.                                                            *)
LEMMA SendTrackingEffect ==
    ASSUME TypeOK, NEW s \in Slot, NEW st \in StatusType,
           Valid(s), "ALIVE" \in st[s], SendTracking(s, st)
    PROVE  /\ status' \in StatusType
           /\ timers \subseteq timers'
           /\ timers' \subseteq {"TRACKING", "CONFIG"}
           /\ msduHandle' \in 0..HandleMax
           /\ tx' \subseteq Msg
           /\ dropped' \in BOOLEAN /\ renewed' \in BOOLEAN
           /\ "TRACKING" \in timers' \/ dropped'
           /\ renewed' \/ dropped'
           /\ \A u \in Slot :
                 /\ u # s => status'[u] \cap TrackingFlags
                               = st[u] \cap TrackingFlags
                 /\ status'[u] \cap ConfigFlags = st[u] \cap ConfigFlags
                 /\ "ALIVE" \in st[u] => "ALIVE" \in status'[u]
  <1>1. PICK outcome \in Outcomes :
           /\ SendMsg("tracking", assoc[s], outcome)
           /\ IF outcome = "queued"
              THEN /\ status' = Set(st, s, {"TRACKING_SENT"})
                   /\ timers' = timers \cup {"TRACKING"}
              ELSE DataRetry(assoc[s], st)
           /\ dropped' = (outcome # "queued") /\ renewed' = (outcome = "queued")
    BY DEF SendTracking
  <1>2. assoc[s] \in Addr
    BY DEF Valid, TypeOK
  <1>3. msduHandle' \in 0..HandleMax /\ tx' \subseteq Msg
    <2>1. "tracking" \in Request
      BY DEF Request
    <2> QED
      BY <1>1, <1>2, <2>1, SendMsgType
  <1>4. CASE outcome = "queued"
    <2>1. status' = [st EXCEPT ![s] = st[s] \cup {"TRACKING_SENT"}]
      BY <1>1, <1>4 DEF Set, StatusType
    <2>2. status' \in StatusType
      BY <2>1 DEF StatusType, Flag, TrackingFlags
    <2>3. \A u \in Slot :
             /\ u # s => status'[u] = st[u]
             /\ status'[u] \cap ConfigFlags = st[u] \cap ConfigFlags
             /\ "ALIVE" \in st[u] => "ALIVE" \in status'[u]
      BY <2>1 DEF StatusType, ConfigFlags
    <2> QED
      BY <1>1, <1>3, <1>4, <2>2, <2>3 DEF TypeOK
  <1>5. CASE outcome # "queued"
    <2>1. DataRetry(assoc[s], st)
      BY <1>1, <1>5
    <2> QED
      BY <1>1, <1>2, <1>3, <1>5, <2>1, DataRetryEffect
  <1> QED
    BY <1>4, <1>5

-----------------------------------------------------------------------------
(* Steps that start no tracking, open no gate and keep clock and event.    *)

Safe == OneTracked /\ RoundIsTimed /\ RoundIsRenewed /\ OneConfigSent

(* A step that changes neither table nor timing keeps the invariant.       *)
LEMMA QuietStep ==
    ASSUME IInv,
           \A s \in Slot : InTracking(s)' => InTracking(s) /\ Alive(s)',
           \A s \in Slot : ConfigSent(s)' => ConfigSent(s),
           "TRACKING" \in timers => "TRACKING" \in timers',
           "TRACKING" \in events => "TRACKING" \in events',
           pc' # "trackingClear" \/ (pc' = pc /\ (renewed => renewed')),
           dropped' = dropped
    PROVE  Safe'
  <1>1. OneTracked'
    BY DEF IInv, OneTracked
  <1>2. OneConfigSent'
    BY DEF IInv, OneConfigSent
  <1>3. RoundIsTimed'
    BY DEF IInv, RoundIsTimed, TrackingDue
  <1>4. RoundIsRenewed'
    BY DEF IInv, RoundIsRenewed
  <1> QED
    BY <1>1, <1>2, <1>3, <1>4 DEF Safe

(* In particular the steps that leave the association table alone.         *)
LEMMA TableKept ==
    ASSUME IInv, UNCHANGED <<assoc, status, dropped>>,
           "TRACKING" \in timers => "TRACKING" \in timers',
           "TRACKING" \in events => "TRACKING" \in events',
           pc' # "trackingClear" \/ (pc' = pc /\ (renewed => renewed'))
    PROVE  Safe'
  <1>1. \A s \in Slot : InTracking(s)' => InTracking(s) /\ Alive(s)'
    BY DEF IInv, OneTracked, InTracking, Alive
  <1>2. \A s \in Slot : ConfigSent(s)' => ConfigSent(s)
    BY DEF ConfigSent
  <1> QED
    BY <1>1, <1>2, QuietStep

(* Freeing a slot.                                                         *)
LEMMA FreeSlotEffect ==
    ASSUME IInv, NEW a \in Addr, FreeFirstSlot(a)
    PROVE  /\ assoc' \in [Slot -> Addr \cup {NoAddr}]
           /\ status' \in [Slot -> SUBSET Flag]
           /\ \A s \in Slot : InTracking(s)' => InTracking(s) /\ Alive(s)'
           /\ \A s \in Slot : ConfigSent(s)' => ConfigSent(s)
  <1> USE DEF IInv, TypeOK, OneTracked
  <1>1. CASE SlotsOf(a) = {}
    BY <1>1 DEF FreeFirstSlot, InTracking, Alive, ConfigSent
  <1>2. CASE SlotsOf(a) # {}
    <2>1. PICK s \in Slot : /\ assoc' = [assoc EXCEPT ![s] = NoAddr]
                            /\ status' = [status EXCEPT ![s] = Flag]
      BY <1>2 DEF FreeFirstSlot
    <2>2. \A u \in Slot : \/ u = s /\ assoc'[u] = NoAddr
                          \/ status'[u] = status[u] /\ assoc'[u] = assoc[u]
      BY <2>1
    <2>3. \A u \in Slot : InTracking(u)' => InTracking(u) /\ Alive(u)'
      BY <2>2 DEF InTracking, Alive
    <2>4. \A u \in Slot : ConfigSent(u)' => ConfigSent(u)
      BY <2>2 DEF ConfigSent
    <2> QED
      BY <2>1, <2>2, <2>3, <2>4
  <1> QED
    BY <1>1, <1>2

-----------------------------------------------------------------------------
(* The main loop.                                                          *)

(* processStartEvent restores devices into free slots only.                *)
LEMMA StartEventStep ==
    ASSUME IInv, StartEvent
    PROVE  IInv'
  <1> USE DEF IInv
  <1>1. pc' \in Pc \ {"trackingClear", "configClear"}
    BY NextPoints DEF StartEvent
  <1>2. CASE RestoreNetwork
    <2>1. Restored \in SUBSET Slot /\ Restored \subseteq FreeSlots
      BY DEF Restored, FreeSlots, SlotsOf
    <2>2. numDev' \in Nat
      <3>1. Cardinality(Restored) \in Nat
        BY <2>1, SlotsFinite
      <3> QED
        BY <1>2, <3>1 DEF RestoreNetwork, TypeOK
    <2>3. \A s \in Restored :
             nv[CHOOSE r \in Records : Restores(s, r)] \in Addr
      BY DEF Restored, Records, TypeOK
    <2>4. \A s \in Slot :
             \/ s \in Restored /\ assoc'[s] \in Addr /\ status'[s] = {}
             \/ s \notin Restored /\ assoc'[s] = assoc[s]
                                  /\ status'[s] = status[s]
      BY <1>2, <2>3 DEF RestoreNetwork
    <2>5. TypeOK'
      <3>1. assoc' \in [Slot -> Addr \cup {NoAddr}]
        BY <1>2, <2>4 DEF RestoreNetwork, TypeOK
      <3>2. status' \in [Slot -> SUBSET Flag]
        BY <1>2, <2>4 DEF RestoreNetwork, TypeOK
      <3> QED
        BY <1>1, <1>2, <2>2, <3>1, <3>2
        DEF RestoreNetwork, TypeOK, StartEvent, radio
    <2>6. \A s \in Slot : InTracking(s)' => InTracking(s) /\ Alive(s)'
      BY <2>4 DEF InTracking, Alive, OneTracked
    <2>7. \A s \in Slot : ConfigSent(s)' => ConfigSent(s)
      BY <2>4 DEF ConfigSent
    <2>8. Safe'
      BY <1>1, <2>6, <2>7, QuietStep DEF StartEvent
    <2> QED
      BY <2>5, <2>8 DEF Safe
  <1>3. CASE UNCHANGED <<assoc, status, numDev, cllcState>>
    <2>1. TypeOK'
      BY <1>1, <1>3 DEF TypeOK, StartEvent, radio
    <2>2. Safe'
      BY <1>1, <1>3, TableKept DEF StartEvent
    <2> QED
      BY <2>1, <2>2 DEF Safe
  <1> QED
    BY <1>2, <1>3 DEF StartEvent

(* The rest of Collector_process clears events it has handled.             *)
LEMMA OtherLoopSteps ==
    ASSUME IInv, ClearTracking \/ ClearConfig \/ CllcProcess \/ Loop
    PROVE  IInv'
  <1> USE DEF IInv
  <1>1. CASE ClearTracking
    <2>1. pc' \in Pc \ {"trackingClear", "configClear"}
      BY <1>1, NextPoints DEF ClearTracking
    <2>2. TypeOK'
      BY <1>1, <2>1 DEF TypeOK, ClearTracking, table, radio
    <2>3. RoundIsTimed'
      BY <1>1 DEF RoundIsTimed, TrackingDue, InTracking, ClearTracking, table
    <2>4. RoundIsRenewed'
      BY <2>1 DEF RoundIsRenewed
    <2> QED
      BY <1>1, <2>2, <2>3, <2>4 DEF OneTracked, InTracking, Alive,
         OneConfigSent, ConfigSent,
         ClearTracking, table
  <1>2. CASE ClearConfig
    <2>1. pc' \in Pc \ {"trackingClear", "configClear"}
      BY <1>2, NextPoints DEF ClearConfig
    <2>2. TypeOK'
      BY <1>2, <2>1 DEF TypeOK, ClearConfig, table, radio
    <2>3. Safe'
      BY <1>2, <2>1, TableKept DEF ClearConfig, table
    <2> QED
      BY <2>2, <2>3 DEF Safe
  <1>3. CASE CllcProcess
    <2>1. TypeOK'
      BY <1>3 DEF TypeOK, CllcProcess, table, radio, Pc
    <2>2. Safe'
      BY <1>3, TableKept DEF CllcProcess, table
    <2> QED
      BY <2>1, <2>2 DEF Safe
  <1>4. CASE Loop
    <2>1. pc' \in Pc \ {"trackingClear", "configClear"}
      BY <1>4, NextPoints DEF Loop
    <2>2. TypeOK'
      BY <1>4, <2>1 DEF TypeOK, Loop, table, radio
    <2>3. Safe'
      BY <1>4, <2>1, TableKept DEF Loop, table
    <2> QED
      BY <2>2, <2>3 DEF Safe
  <1> QED
    BY <1>1, <1>2, <1>3, <1>4

(* Once a round is closed no device is under tracking, and the members     *)
(* that are still alive keep their configuration flags.                    *)
LEMMA RoundClosedEffect ==
    ASSUME IInv, NEW s \in Slot, IsFirst(s, Tracked),
           "TRACKING_RETRY" \notin status[s]
    PROVE  /\ RoundClosed(s) \in StatusType
           /\ \A u \in Slot :
                 Valid(u) => RoundClosed(s)[u] \cap TrackingFlags = {}
           /\ \A u \in Slot :
                 Valid(u) /\ RoundClosed(s)[u] \cap ConfigFlags = {"CONFIG_SENT"}
                    => ConfigSent(u)
  <1> DEFINE F == IF status[s] \cap {"TRACKING_SENT", "TRACKING_ERROR"} # {}
                  THEN {"ALIVE", "TRACKING_SENT", "TRACKING_RSP",
                        "TRACKING_ERROR"} \cup ConfigFlags
                  ELSE {"TRACKING_RSP"}
  <1>1. RoundClosed(s) = [status EXCEPT ![s] = status[s] \ F]
    BY DEF RoundClosed, Clear, IInv, TypeOK
  <1>2. InTracking(s)
    BY DEF IsFirst, Tracked, InTracking, Alive
  <1>3. \A u \in Slot : Valid(u) /\ u # s => status[u] \cap TrackingFlags = {}
    BY <1>2 DEF IInv, OneTracked, InTracking
  <1>4. (status[s] \ F) \cap TrackingFlags = {}
    BY DEF TrackingFlags
  <1>5. (status[s] \ F) \cap ConfigFlags = {"CONFIG_SENT"}
           => status[s] \cap ConfigFlags = {"CONFIG_SENT"}
    BY DEF ConfigFlags
  <1>6. RoundClosed(s) \in StatusType
    BY <1>1 DEF IInv, TypeOK, StatusType
  <1>7. \A u \in Slot : RoundClosed(s)[u] = IF u = s THEN status[s] \ F
                                            ELSE status[u]
    BY <1>1 DEF IInv, TypeOK
  <1> HIDE DEF F
  <1> QED
    BY <1>3, <1>4, <1>5, <1>6, <1>7 DEF ConfigSent

(* What a tracking event does to the table, whichever way it goes.         *)
LEMMA TrackingEventEffect ==
    ASSUME IInv, TrackingEvent
    PROVE  /\ status' \in StatusType
           /\ timers' \subseteq {"TRACKING", "CONFIG"}
           /\ msduHandle' \in 0..HandleMax
           /\ tx' \subseteq Msg
           /\ dropped' \in BOOLEAN /\ renewed' \in BOOLEAN
           /\ OneTracked'
           /\ (\E u \in Slot : InTracking(u)')
                 => ("TRACKING" \in timers' /\ renewed') \/ dropped'
           /\ \A u \in Slot : ConfigSent(u)' => ConfigSent(u)
  <1> USE DEF IInv
  <1>0. status \in StatusType /\ assoc' = assoc
    BY DEF TypeOK, StatusType, TrackingEvent
  <1>1. CASE \E s \in Slot : IsFirst(s, Tracked) /\ RetryTracking(s)
    <2>1. PICK s \in Slot : IsFirst(s, Tracked) /\ RetryTracking(s)
      BY <1>1
    <2>2. Valid(s) /\ "ALIVE" \in status[s] /\ InTracking(s)
      BY <2>1 DEF IsFirst, Tracked, Alive, InTracking
    <2>3. SendTracking(s, status)
      BY <2>1 DEF RetryTracking
    <2>4. \A u \in Slot : InTracking(u)' => u = s
      BY <1>0, <2>2, <2>3, SendTrackingEffect DEF InTracking, OneTracked
    <2>5. Alive(s)'
      BY <1>0, <2>2, <2>3, SendTrackingEffect DEF Alive
    <2>6. OneTracked'
      BY <2>4, <2>5 DEF OneTracked
    <2>7. \A u \in Slot : ConfigSent(u)' => ConfigSent(u)
      BY <1>0, <2>2, <2>3, SendTrackingEffect DEF ConfigSent
    <2> QED
      BY <1>0, <2>2, <2>3, <2>6, <2>7, SendTrackingEffect
  <1>2. CASE \E s \in Slot : IsFirst(s, Tracked) /\ CloseRound(s)
    <2>1. PICK s \in Slot : IsFirst(s, Tracked) /\ CloseRound(s)
      BY <1>2
    <2> DEFINE st == RoundClosed(s)
    <2>2. /\ st \in StatusType
          /\ \A u \in Slot : Valid(u) => st[u] \cap TrackingFlags = {}
          /\ \A u \in Slot : Valid(u) /\ st[u] \cap ConfigFlags = {"CONFIG_SENT"}
                                => ConfigSent(u)
      BY <2>1, RoundClosedEffect DEF CloseRound
    <2> HIDE DEF st
    <2>3. CASE \E t \in Slot : NextTracked(s, st, t) /\ SendTracking(t, st)
      <3>1. PICK t \in Slot : NextTracked(s, st, t) /\ SendTracking(t, st)
        BY <2>3
      <3>2. Valid(t) /\ "ALIVE" \in st[t]
        BY <3>1 DEF NextTracked
      <3>3. \A u \in Slot : InTracking(u)' => u = t
        BY <1>0, <2>2, <3>1, <3>2, SendTrackingEffect DEF InTracking
      <3>4. Alive(t)'
        BY <1>0, <2>2, <3>1, <3>2, SendTrackingEffect DEF Alive
      <3>5. OneTracked'
        BY <3>3, <3>4 DEF OneTracked
      <3>6. \A u \in Slot : ConfigSent(u)' => ConfigSent(u)
        BY <1>0, <2>2, <3>1, <3>2, SendTrackingEffect DEF ConfigSent
      <3> QED
        BY <2>2, <3>1, <3>2, <3>5, <3>6, SendTrackingEffect
    <2>4. CASE status' = st /\ UNCHANGED <<timers, radio, dropped, renewed>>
      <3>1. \A u \in Slot : ~InTracking(u)'
        BY <1>0, <2>2, <2>4 DEF InTracking
      <3>2. \A u \in Slot : ConfigSent(u)' => ConfigSent(u)
        BY <1>0, <2>2, <2>4 DEF ConfigSent
      <3> QED
        BY <2>2, <2>4, <3>1, <3>2 DEF TypeOK, radio, OneTracked
    <2> QED
      BY <2>1, <2>3, <2>4 DEF CloseRound, st
  <1>3. CASE BeginTracking
    <2>1. CASE \E s \in Slot : /\ IsFirst(s, {t \in Slot : Alive(t)})
                               /\ SendTracking(s, status)
      <3>1. PICK s \in Slot : /\ IsFirst(s, {t \in Slot : Alive(t)})
                              /\ SendTracking(s, status)
        BY <2>1
      <3>2. Valid(s) /\ "ALIVE" \in status[s]
        BY <3>1 DEF IsFirst, Alive
      <3>3. \A u \in Slot : ~InTracking(u)
        BY <1>3 DEF BeginTracking, Tracked, OneTracked, InTracking, Alive
      <3>4. \A u \in Slot : InTracking(u)' => u = s
        BY <1>0, <3>1, <3>2, <3>3, SendTrackingEffect DEF InTracking
      <3>5. Alive(s)'
        BY <1>0, <3>1, <3>2, SendTrackingEffect DEF Alive
      <3>6. OneTracked'
        BY <3>4, <3>5 DEF OneTracked
      <3>7. \A u \in Slot : ConfigSent(u)' => ConfigSent(u)
        BY <1>0, <3>1, <3>2, SendTrackingEffect DEF ConfigSent
      <3> QED
        BY <1>0, <3>1, <3>2, <3>6, <3>7, SendTrackingEffect
    <2>2. CASE /\ timers' = timers \cup {"TRACKING"} /\ renewed' = TRUE
               /\ UNCHANGED <<status, radio, dropped>>
      <3>1. OneTracked'
        BY <1>0, <2>2 DEF OneTracked, InTracking, Alive
      <3> QED
        BY <1>0, <2>2, <3>1
        DEF TypeOK, radio, ConfigSent
    <2> QED
      BY <1>3, <2>1, <2>2 DEF BeginTracking
  <1> QED
    BY <1>1, <1>2, <1>3 DEF TrackingEvent

(* generateTrackingRequests keeps the invariant.                           *)
LEMMA TrackingEventStep ==
    ASSUME IInv, TrackingEvent
    PROVE  IInv'
  <1>1. TypeOK'
    BY TrackingEventEffect DEF TrackingEvent, IInv, TypeOK, StatusType, Pc
  <1>2. OneConfigSent'
    BY TrackingEventEffect DEF IInv, OneConfigSent
  <1>3. RoundIsTimed'
    BY TrackingEventEffect DEF RoundIsTimed, TrackingDue
  <1>4. RoundIsRenewed'
    BY TrackingEventEffect DEF RoundIsRenewed
  <1> QED
    BY <1>1, <1>2, <1>3, <1>4, TrackingEventEffect DEF IInv

(* generateConfigRequests keeps the invariant: it sends one request.       *)
LEMMA ConfigEventStep ==
    ASSUME IInv, ConfigEvent
    PROVE  IInv'
  <1> USE DEF IInv
  <1> DEFINE st == OverdueForgotten
  <1>1. /\ st \in StatusType
        /\ \A u \in Slot : /\ st[u] \cap TrackingFlags
                                = status[u] \cap TrackingFlags
                           /\ "ALIVE" \in status[u] => "ALIVE" \in st[u]
                           /\ Valid(u) /\ st[u] \cap ConfigFlags = {"CONFIG_SENT"}
                                <=> ConfigSent(u)
    <2>1. st = [u \in Slot |-> IF Alive(u) /\ ConfigFlags \subseteq status[u]
                               THEN status[u] \ ConfigFlags ELSE status[u]]
      BY DEF OverdueForgotten
    <2>2. st \in StatusType
      BY <2>1 DEF TypeOK, StatusType
    <2> QED
      BY <2>1, <2>2 DEF ConfigSent, ConfigFlags, TrackingFlags
  <1> HIDE DEF st
  <1>2. assoc' = assoc /\ events' = events /\ dropped' = dropped
        /\ pc' = "configClear" /\ pc = "config"
    BY DEF ConfigEvent
  <1>3. CASE status' = st /\ timers \subseteq timers'
             /\ timers' \subseteq {"TRACKING", "CONFIG"} /\ renewed' \in BOOLEAN
             /\ msduHandle' \in 0..HandleMax /\ tx' \subseteq Msg
    <2>1. \A u \in Slot : InTracking(u)' => InTracking(u) /\ Alive(u)'
      BY <1>1, <1>2, <1>3 DEF InTracking, Alive, OneTracked
    <2>2. \A u \in Slot : ConfigSent(u)' => ConfigSent(u)
      BY <1>1, <1>2, <1>3 DEF ConfigSent
    <2>3. Safe'
      BY <1>1, <1>2, <1>3, <2>1, <2>2, QuietStep
    <2>4. TypeOK'
      BY <1>1, <1>3 DEF TypeOK, StatusType, ConfigEvent, Pc
    <2> QED
      BY <2>3, <2>4 DEF Safe
  <1>4. ASSUME NEW s \in Slot, ~ConfigPending(st), s \in InNeed(st),
               status' = Set(st, s, {"CONFIG_SENT"}),
               timers' = timers \cup {"CONFIG"}, renewed' \in BOOLEAN,
               msduHandle' \in 0..HandleMax, tx' \subseteq Msg
        PROVE  IInv'
    <2>1. status' = [st EXCEPT ![s] = st[s] \cup {"CONFIG_SENT"}]
      BY <1>1, <1>4 DEF Set, StatusType
    <2>2. \A u \in Slot : u # s => status'[u] = st[u]
      BY <1>1, <2>1 DEF StatusType
    <2>3. status'[s] = st[s] \cup {"CONFIG_SENT"}
      BY <1>1, <2>1 DEF StatusType
    <2>4. Alive(s)
      BY <1>4 DEF InNeed
    <2>5. \A u \in Slot : status'[u] \cap TrackingFlags
                            = status[u] \cap TrackingFlags
      BY <1>1, <2>2, <2>3 DEF TrackingFlags
    <2>6. \A u \in Slot : Alive(u) => Alive(u)'
      BY <1>1, <1>2, <2>2, <2>3 DEF Alive
    <2>7. OneTracked'
      BY <1>2, <2>5, <2>6 DEF OneTracked, InTracking
    <2>8. \A u \in Slot : Valid(u) => st[u] \cap ConfigFlags # {"CONFIG_SENT"}
      BY <1>1, <1>4 DEF ConfigPending, ConfigFlags
    <2>9. OneConfigSent'
      BY <1>2, <2>2, <2>8 DEF OneConfigSent, ConfigSent
    <2>10. RoundIsTimed'
      BY <1>2, <1>4, <2>5 DEF RoundIsTimed, InTracking, TrackingDue
    <2>11. TypeOK'
      BY <1>1, <1>4, <2>1
      DEF TypeOK, StatusType, ConfigEvent, Pc, Flag, ConfigFlags
    <2>12. RoundIsRenewed'
      BY <1>2 DEF RoundIsRenewed
    <2> QED
      BY <2>7, <2>9, <2>10, <2>11, <2>12
  <1>5. "config" \in Request
    BY DEF Request
  <1>6. CASE status' = st /\ UNCHANGED <<timers, radio, renewed>>
    BY <1>3, <1>6 DEF radio, TypeOK
  <1>7. ASSUME ~ConfigPending(st), NEW s \in Slot, IsFirst(s, InNeed(st)),
               NEW outcome \in Outcomes, SendMsg("config", assoc[s], outcome),
               renewed' = (outcome = "queued"),
               IF outcome = "queued"
               THEN /\ status' = Set(st, s, {"CONFIG_SENT"})
                    /\ timers' = timers \cup {"CONFIG"}
               ELSE /\ status' = st
                    /\ timers' = ConfigRetry(timers)
        PROVE  IInv'
    <2>1. s \in InNeed(st) /\ assoc[s] \in Addr
      BY <1>7 DEF IsFirst, InNeed, Alive, TypeOK
    <2>2. msduHandle' \in 0..HandleMax /\ tx' \subseteq Msg
      BY <1>5, <1>7, <2>1, SendMsgType
    <2>3. CASE outcome = "queued"
      BY <1>4, <1>7, <2>1, <2>2, <2>3
    <2>4. CASE outcome # "queued"
      <3>1. timers \subseteq timers' /\ timers' \subseteq {"TRACKING", "CONFIG"}
        BY <1>7, <2>4 DEF ConfigRetry, TypeOK
      <3> QED
        BY <1>3, <1>7, <2>2, <2>4, <3>1
    <2> QED
      BY <2>3, <2>4
  <1> QED
    BY <1>6, <1>7 DEF ConfigEvent, GenerateConfig, st

-----------------------------------------------------------------------------
(* What is received from the co-processor.                                 *)

(* Removals and disassociations keep the invariant.                        *)
LEMMA DepartureSteps ==
    ASSUME IInv, NEW a \in Addr, RemoveDevice(a) \/ Leave(a)
    PROVE  IInv'
  <1> USE DEF IInv
  <1>1. FreeFirstSlot(a) /\ DeleteRecord(a)
    BY DEF RemoveDevice, Leave
  <1>2. nv' \in [Slot -> Addr \cup {NoAddr}]
    BY <1>1 DEF DeleteRecord, TypeOK
  <1>3. (pc' = pc /\ renewed' = renewed) \/ pc' \in Pc \ {"trackingClear", "configClear"}
    BY NextPoints DEF RemoveDevice, Leave, NextRound
  <1>4. TypeOK'
    BY <1>1, <1>2, <1>3, FreeSlotEffect DEF TypeOK, RemoveDevice, Leave, radio
  <1>5. Safe'
    BY <1>1, <1>3, FreeSlotEffect, QuietStep DEF RemoveDevice, Leave
  <1> QED
    BY <1>4, <1>5 DEF Safe

(* A new device starts with a clear status word.                           *)
LEMMA JoinStep ==
    ASSUME IInv, Join
    PROVE  IInv'
  <1> USE DEF IInv
  <1>1. PICK s \in Slot :
           /\ IsFirst(s, FreeSlots)
           /\ nv' = [nv EXCEPT ![s] = numDev + 1]
           /\ assoc' = [assoc EXCEPT ![s] = numDev + 1]
           /\ status' = [status EXCEPT ![s] = {}]
    BY DEF Join
  <1>2. numDev + 1 \in Addr
    BY ConstantsAssumption DEF Join, TypeOK, Addr
  <1>3. pc' \in Pc \ {"trackingClear", "configClear"}
    BY NextPoints DEF Join, NextRound
  <1>4. TypeOK'
    BY <1>1, <1>2, <1>3 DEF TypeOK, Join, radio
  <1>5. \A u \in Slot : \/ u = s /\ status'[u] = {}
                        \/ status'[u] = status[u] /\ assoc'[u] = assoc[u]
    BY <1>1 DEF TypeOK
  <1>6. \A u \in Slot : InTracking(u)' => InTracking(u) /\ Alive(u)'
    BY <1>5 DEF InTracking, Alive, OneTracked
  <1>7. \A u \in Slot : ConfigSent(u)' => ConfigSent(u)
    BY <1>5 DEF ConfigSent
  <1>8. Safe'
    BY <1>3, <1>6, <1>7, QuietStep DEF Join
  <1> QED
    BY <1>4, <1>8 DEF Safe

(* Handlers that leave the table and the tracking clock and event alone.   *)
LEMMA ReceiveSteps ==
    ASSUME IInv,
           StartCnf \/ ResetInd \/ \E a \in Addr : Rejoin(a)
    PROVE  IInv'
  <1> USE DEF IInv
  <1>1. pc' \in Pc \ {"trackingClear", "configClear"}
    BY NextPoints DEF StartCnf, ResetInd, Rejoin, NextRound
  <1>2. TypeOK'
    <2>1. CASE StartCnf
      BY <1>1, <2>1 DEF TypeOK, StartCnf, table, radio
    <2>2. CASE ResetInd
      BY <1>1, <2>2, ConstantsAssumption DEF TypeOK, ResetInd, table
    <2>3. CASE \E a \in Addr : Rejoin(a)
      BY <1>1, <2>3 DEF TypeOK, Rejoin, table, radio
    <2> QED
      BY <2>1, <2>2, <2>3
  <1>3. Safe'
    BY <1>1, TableKept DEF StartCnf, ResetInd, Rejoin, table
  <1> QED
    BY <1>2, <1>3 DEF Safe

(* A status word that is reset ends the tracking of its device.            *)
LEMMA ResetStatusStep ==
    ASSUME IInv, NEW a \in Addr, ResetStatus(a)
    PROVE  IInv'
  <1> USE DEF IInv
  <1>1. PICK s \in Slot : status' = [status EXCEPT ![s] = {}]
    BY DEF ResetStatus
  <1>2. pc' \in Pc \ {"trackingClear", "configClear"}
    BY NextPoints DEF ResetStatus, NextRound
  <1>3. TypeOK'
    BY <1>1, <1>2 DEF TypeOK, ResetStatus, radio
  <1>4. \A u \in Slot : status'[u] = {} \/ status'[u] = status[u]
    BY <1>1 DEF TypeOK
  <1>5. \A u \in Slot : InTracking(u)' => InTracking(u) /\ Alive(u)'
    BY <1>4 DEF ResetStatus, InTracking, Alive, OneTracked
  <1>6. \A u \in Slot : ConfigSent(u)' => ConfigSent(u)
    BY <1>4 DEF ResetStatus, ConfigSent
  <1>7. Safe'
    BY <1>2, <1>5, <1>6, QuietStep DEF ResetStatus
  <1> QED
    BY <1>3, <1>7 DEF Safe

(* processDataRetry marks alive and starts clocks, nothing else.           *)
LEMMA PollStep ==
    ASSUME IInv, NEW a \in Addr, Poll(a)
    PROVE  IInv'
  <1> USE DEF IInv
  <1>1. status \in StatusType /\ DataRetry(a, status) /\ assoc' = assoc
    BY DEF Poll, TypeOK, StatusType
  <1>2. pc' \in Pc \ {"trackingClear", "configClear"}
    BY NextPoints DEF Poll, NextRound
  <1>3. TypeOK'
    BY <1>1, <1>2, DataRetryEffect DEF TypeOK, StatusType, Poll, radio
  <1>4. \A u \in Slot : InTracking(u)' => InTracking(u) /\ Alive(u)'
    BY <1>1, DataRetryEffect DEF InTracking, Alive, OneTracked
  <1>5. \A u \in Slot : ConfigSent(u)' => ConfigSent(u)
    BY <1>1, DataRetryEffect DEF ConfigSent
  <1>6. Safe'
    BY <1>1, <1>2, <1>4, <1>5, DataRetryEffect, QuietStep DEF Poll
  <1> QED
    BY <1>3, <1>6 DEF Safe

(* A response to a configuration request keeps the invariant.              *)
LEMMA ConfigRspStep ==
    ASSUME IInv, NEW a \in Addr, ConfigRsp(a)
    PROVE  IInv'
  <1> USE DEF IInv
  <1>1. pc' \in Pc \ {"trackingClear", "configClear"}
    BY NextPoints DEF ConfigRsp, NextRound
  <1>2. \/ status' = status
        \/ \E s \in Slot :
             /\ assoc[s] # NoAddr
             /\ status' = [status EXCEPT ![s] =
                             (status[s] \ {"CONFIG_SENT"}) \cup {"CONFIG_RSP"}]
    BY ConstantsAssumption DEF ConfigRsp, IsFirst, SlotsOf, TypeOK, Addr
  <1>3. /\ status' \in [Slot -> SUBSET Flag]
        /\ \A u \in Slot :
             /\ status'[u] \cap TrackingFlags = status[u] \cap TrackingFlags
             /\ "ALIVE" \in status[u] => "ALIVE" \in status'[u]
             /\ ConfigSent(u)' => ConfigSent(u)
    <2>1. CASE status' = status
      BY <2>1 DEF ConfigRsp, TypeOK, ConfigSent
    <2>2. ASSUME NEW s \in Slot, assoc[s] # NoAddr,
                 status' = [status EXCEPT ![s] =
                              (status[s] \ {"CONFIG_SENT"}) \cup {"CONFIG_RSP"}]
          PROVE  <1>3!1 /\ <1>3!2
      <3>1. status' \in [Slot -> SUBSET Flag]
        BY <2>2 DEF TypeOK, Flag, ConfigFlags
      <3>2. \A u \in Slot : u # s => status'[u] = status[u]
        BY <2>2 DEF TypeOK
      <3>3. status'[s] = (status[s] \ {"CONFIG_SENT"}) \cup {"CONFIG_RSP"}
        BY <2>2 DEF TypeOK
      <3> QED
        BY <2>2, <3>1, <3>2, <3>3
        DEF ConfigRsp, ConfigSent, ConfigFlags, TrackingFlags
    <2> QED
      BY <1>2, <2>1, <2>2
  <1>4. TypeOK'
    BY <1>1, <1>3 DEF TypeOK, ConfigRsp, radio
  <1>5. \A u \in Slot : InTracking(u)' => InTracking(u) /\ Alive(u)'
    BY <1>3 DEF ConfigRsp, InTracking, Alive, OneTracked
  <1>6. Safe'
    BY <1>1, <1>3, <1>5, QuietStep DEF ConfigRsp
  <1> QED
    BY <1>4, <1>6 DEF Safe

(* A change of the tracking flags of the slot under tracking, and of its   *)
(* tracking flags only, with the tracking clock kept or started.           *)
LEMMA TrackedSlotStep ==
    ASSUME IInv, NEW s \in Slot, InTracking(s), NEW w \in SUBSET Flag,
           status' = [status EXCEPT ![s] = w],
           w \ TrackingFlags = status[s] \ TrackingFlags,
           "TRACKING" \in timers => "TRACKING" \in timers',
           UNCHANGED <<assoc, events, dropped>>,
           pc' # "trackingClear"
    PROVE  status' \in [Slot -> SUBSET Flag] /\ Safe'
  <1> USE DEF IInv
  <1>1. status' \in [Slot -> SUBSET Flag]
    BY DEF TypeOK
  <1>2. \A u \in Slot : status'[u] = IF u = s THEN w ELSE status[u]
    BY DEF TypeOK
  <1>3. Alive(s) /\ Alive(s)'
    BY <1>2 DEF OneTracked, Alive, TrackingFlags
  <1>4. \A u \in Slot : InTracking(u)' => InTracking(u) /\ Alive(u)'
    BY <1>2, <1>3 DEF InTracking, OneTracked, Alive
  <1>5. w \cap ConfigFlags = status[s] \cap ConfigFlags
    BY DEF ConfigFlags, TrackingFlags
  <1>6. \A u \in Slot : ConfigSent(u)' => ConfigSent(u)
    BY <1>2, <1>5 DEF ConfigSent
  <1> QED
    BY <1>1, <1>4, <1>6, QuietStep

(* processTrackingResponse keeps the invariant.                            *)
LEMMA TrackingRspStep ==
    ASSUME IInv, NEW a \in Addr, TrackingRsp(a)
    PROVE  IInv'
  <1> USE DEF IInv
  <1>1. pc' \in Pc \ {"trackingClear", "configClear"}
    BY NextPoints DEF TrackingRsp, NextRound
  <1>2. CASE \E s \in Slot :
               /\ Valid(s) /\ "TRACKING_SENT" \in status[s]
               /\ status' = [status EXCEPT ![s] =
                               (@ \ {"TRACKING_SENT"}) \cup {"TRACKING_RSP"}]
               /\ timers' = ConfigRetry(timers \cup {"TRACKING"})
    <2>1. PICK s \in Slot :
               /\ Valid(s) /\ "TRACKING_SENT" \in status[s]
               /\ status' = [status EXCEPT ![s] =
                               (@ \ {"TRACKING_SENT"}) \cup {"TRACKING_RSP"}]
               /\ timers' = ConfigRetry(timers \cup {"TRACKING"})
      BY <1>2
    <2> DEFINE w == (status[s] \ {"TRACKING_SENT"}) \cup {"TRACKING_RSP"}
    <2>2. InTracking(s)
      BY <2>1 DEF InTracking, TrackingFlags
    <2>3. w \in SUBSET Flag /\ w \ TrackingFlags = status[s] \ TrackingFlags
      BY DEF TypeOK, Flag, TrackingFlags
    <2>4. status' = [status EXCEPT ![s] = w]
      BY <2>1
    <2>5. timers' \subseteq {"TRACKING", "CONFIG"} /\ "TRACKING" \in timers'
      BY <2>1 DEF ConfigRetry, TypeOK
    <2> HIDE DEF w
    <2>6. status' \in [Slot -> SUBSET Flag] /\ Safe'
      BY <1>1, <2>2, <2>3, <2>4, <2>5, TrackedSlotStep DEF TrackingRsp
    <2>7. TypeOK'
      BY <1>1, <2>5, <2>6 DEF TypeOK, TrackingRsp, radio
    <2> QED
      BY <2>6, <2>7 DEF Safe
  <1>3. CASE UNCHANGED <<status, timers>>
    <2>1. TypeOK'
      BY <1>1, <1>3 DEF TypeOK, TrackingRsp, radio
    <2>2. Safe'
      BY <1>1, <1>3, TableKept DEF TrackingRsp
    <2> QED
      BY <2>1, <2>2 DEF Safe
  <1>4. \A s \in Slot : IsFirst(s, SlotsOf(a)) => Valid(s)
    BY ConstantsAssumption DEF IsFirst, SlotsOf, Addr
  <1> QED
    BY <1>2, <1>3, <1>4 DEF TrackingRsp

(* A configuration confirm opens the gate and never closes it.             *)
LEMMA ConfigCnfEffect ==
    ASSUME IInv, NEW success \in BOOLEAN, ConfigCnf(success)
    PROVE  /\ status' \in [Slot -> SUBSET Flag]
           /\ timers \subseteq timers' /\ timers' \subseteq {"TRACKING", "CONFIG"}
           /\ \A u \in Slot :
                /\ status'[u] \cap TrackingFlags = status[u] \cap TrackingFlags
                /\ "ALIVE" \in status[u] => "ALIVE" \in status'[u]
                /\ ~ (Valid(u) /\ status'[u] \cap ConfigFlags = {"CONFIG_SENT"})
  <1> USE DEF IInv, TypeOK
  <1>1. CASE /\ \A s \in Slot : ~FindStatus(s, ConfigFlags, {"CONFIG_SENT"})
             /\ UNCHANGED <<status, timers>>
    <2> DEFINE S == {t \in Slot : Valid(t) /\ ConfigSent(t)}
    <2>1. \A s, t \in S : s = t
      BY DEF OneConfigSent
    <2>2. \A s \in S : IsFirst(s, S)
      BY <2>1, ConstantsAssumption DEF IsFirst, Slot
    <2>3. S = {}
      BY <1>1, <2>2 DEF FindStatus, ConfigSent
    <2> QED
      BY <1>1, <2>3 DEF ConfigSent
  <1>2. CASE \E s \in Slot :
               /\ FindStatus(s, ConfigFlags, {"CONFIG_SENT"})
               /\ status' = IF success
                            THEN Set(status, s, {"CONFIG_RSP", "ALIVE"})
                            ELSE Clear(status, s, {"CONFIG_SENT"})
               /\ timers' = timers \cup {"CONFIG"}
    <2>1. PICK s \in Slot :
               /\ FindStatus(s, ConfigFlags, {"CONFIG_SENT"})
               /\ status' = IF success
                            THEN Set(status, s, {"CONFIG_RSP", "ALIVE"})
                            ELSE Clear(status, s, {"CONFIG_SENT"})
               /\ timers' = timers \cup {"CONFIG"}
      BY <1>2
    <2>2. Valid(s) /\ ConfigSent(s)
      BY <2>1 DEF FindStatus, IsFirst, ConfigSent
    <2>3. status' = [status EXCEPT ![s] =
                       IF success THEN status[s] \cup {"CONFIG_RSP", "ALIVE"}
                       ELSE status[s] \ {"CONFIG_SENT"}]
      BY <2>1 DEF Set, Clear
    <2>4. status' \in [Slot -> SUBSET Flag]
      BY <2>3 DEF Flag, ConfigFlags
    <2>5. \A u \in Slot : u # s => status'[u] = status[u] /\ ~ConfigSent(u)
      BY <2>2, <2>3 DEF OneConfigSent
    <2>6. status'[s] = IF success THEN status[s] \cup {"CONFIG_RSP", "ALIVE"}
                       ELSE status[s] \ {"CONFIG_SENT"}
      BY <2>3
    <2>7. status'[s] \cap ConfigFlags # {"CONFIG_SENT"}
      BY <2>6 DEF ConfigFlags
    <2>8. /\ status'[s] \cap TrackingFlags = status[s] \cap TrackingFlags
          /\ "ALIVE" \in status[s] => "ALIVE" \in status'[s]
      BY <2>6 DEF TrackingFlags
    <2> QED
      BY <2>1, <2>2, <2>4, <2>5, <2>7, <2>8 DEF ConfigSent
  <1> QED
    BY <1>1, <1>2 DEF ConfigCnf

(* dataCnfCB keeps the invariant, whatever frame is confirmed.             *)
LEMMA DataCnfStep ==
    ASSUME IInv, NEW m \in tx, NEW success \in BOOLEAN, NEW delivered \in BOOLEAN,
           DataCnf(m, success, delivered)
    PROVE  IInv'
  <1> USE DEF IInv
  <1>1. pc' \in Pc \ {"trackingClear", "configClear"}
    BY NextPoints DEF DataCnf, NextRound
  <1>2. m \in Msg /\ tx' \subseteq Msg
    BY DEF DataCnf, TypeOK
  <1>3. asked' \subseteq {"config", "tracking"} \X Addr
    <2>1. m.type \in {"config", "tracking", "toggle"} /\ m.dst \in Addr
      BY <1>2 DEF Msg, Request
    <2> QED
      BY <2>1 DEF DataCnf, TypeOK
  <1>4. ASSUME status' \in [Slot -> SUBSET Flag],
               timers' \subseteq {"TRACKING", "CONFIG"}
        PROVE  TypeOK'
    BY <1>1, <1>2, <1>3, <1>4 DEF DataCnf, TypeOK
  <1>5. CASE UNCHANGED <<status, timers>>
    <2>1. TypeOK'
      BY <1>4, <1>5 DEF TypeOK
    <2>2. Safe'
      BY <1>1, <1>5, TableKept DEF DataCnf
    <2> QED
      BY <2>1, <2>2 DEF Safe
  <1>6. CASE ConfigCnf(success)
    <2>1. TypeOK'
      BY <1>4, <1>6, ConfigCnfEffect
    <2>2. \A u \in Slot : InTracking(u)' => InTracking(u) /\ Alive(u)'
      BY <1>6, ConfigCnfEffect
      DEF DataCnf, InTracking, Alive, OneTracked
    <2>3. \A u \in Slot : ~ConfigSent(u)'
      BY <1>6, ConfigCnfEffect DEF DataCnf, ConfigSent
    <2>4. Safe'
      BY <1>1, <1>6, <2>2, <2>3, ConfigCnfEffect, QuietStep DEF DataCnf
    <2> QED
      BY <2>1, <2>4 DEF Safe
  <1>7. ASSUME NEW s \in Slot, Valid(s), "TRACKING_SENT" \in status[s],
               NEW w \in SUBSET Flag, status' = [status EXCEPT ![s] = w],
               w \ TrackingFlags = status[s] \ TrackingFlags,
               timers \subseteq timers', timers' \subseteq {"TRACKING", "CONFIG"}
        PROVE  IInv'
    <2>1. InTracking(s)
      BY <1>7 DEF InTracking, TrackingFlags
    <2>2. status' \in [Slot -> SUBSET Flag] /\ Safe'
      BY <1>1, <1>7, <2>1, TrackedSlotStep DEF DataCnf
    <2> QED
      BY <1>4, <1>7, <2>2 DEF Safe
  <1>8. CASE TrackingCnf(success)
    <2>1. CASE UNCHANGED <<status, timers>>
      BY <1>5, <2>1
    <2>2. ASSUME NEW s \in Slot,
                 FindStatus(s, {"TRACKING_SENT"}, {"TRACKING_SENT"}),
                 success,
                 status' = Clear(status, s, {"TRACKING_RETRY"}),
                 timers' = timers
          PROVE  IInv'
      <3> DEFINE w == status[s] \ {"TRACKING_RETRY"}
      <3>1. w \in SUBSET Flag /\ w \ TrackingFlags = status[s] \ TrackingFlags
        BY DEF TypeOK, TrackingFlags
      <3>2. Valid(s) /\ "TRACKING_SENT" \in status[s]
        BY <2>2 DEF FindStatus, IsFirst
      <3>3. status' = [status EXCEPT ![s] = w]
        BY <2>2 DEF Clear, TypeOK
      <3>4. timers' \subseteq {"TRACKING", "CONFIG"}
        BY <2>2 DEF TypeOK
      <3> HIDE DEF w
      <3> QED
        BY <1>7, <2>2, <3>1, <3>2, <3>3, <3>4
    <2>3. ASSUME NEW s \in Slot,
                 FindStatus(s, {"TRACKING_SENT"}, {"TRACKING_SENT"}),
                 status' =
                    [status EXCEPT ![s] =
                       IF "TRACKING_RETRY" \in @
                       THEN (@ \ {"TRACKING_RETRY", "TRACKING_SENT"})
                            \cup {"TRACKING_ERROR"}
                       ELSE (@ \ {"TRACKING_SENT"}) \cup {"TRACKING_RETRY"}],
                 timers' = timers \cup {"TRACKING"}
          PROVE  IInv'
      <3> DEFINE w == IF "TRACKING_RETRY" \in status[s]
                      THEN (status[s] \ {"TRACKING_RETRY", "TRACKING_SENT"})
                           \cup {"TRACKING_ERROR"}
                      ELSE (status[s] \ {"TRACKING_SENT"})
                           \cup {"TRACKING_RETRY"}
      <3>1. w \in SUBSET Flag /\ w \ TrackingFlags = status[s] \ TrackingFlags
        BY DEF TypeOK, TrackingFlags, Flag
      <3>2. Valid(s) /\ "TRACKING_SENT" \in status[s]
        BY <2>3 DEF FindStatus, IsFirst
      <3>3. status' = [status EXCEPT ![s] = w]
        BY <2>3 DEF TypeOK
      <3>4. timers \subseteq timers' /\ timers' \subseteq {"TRACKING", "CONFIG"}
        BY <2>3 DEF TypeOK
      <3> HIDE DEF w
      <3> QED
        BY <1>7, <3>1, <3>2, <3>3, <3>4
    <2> QED
      BY <1>8, <2>1, <2>2, <2>3 DEF TrackingCnf
  <1> QED
    BY <1>5, <1>6, <1>8 DEF DataCnf

-----------------------------------------------------------------------------
(* Other threads.                                                          *)

(* A clock that fires becomes an event that is still to be handled, unless *)
(* it is an older one that ends between the handler and the clearing: then *)
(* no round waits for it, or its request was dropped.                      *)
LEMMA TimerStep ==
    ASSUME IInv, NEW t \in {"TRACKING", "CONFIG"}, TimerFires(t)
    PROVE  IInv'
  <1> USE DEF IInv
  <1>1. TypeOK'
    BY DEF TypeOK, TimerFires, table, radio
  <1>2. RoundIsRenewed'
    BY DEF RoundIsRenewed, InTracking, TimerFires, table
  <1>3. RoundIsTimed'
    <2>1. CASE t = "TRACKING" /\ pc = "trackingClear"
      <3>1. ~renewed
        BY <2>1 DEF TimerFires
      <3> QED
        BY <2>1, <3>1
        DEF RoundIsRenewed, RoundIsTimed, InTracking, TimerFires, table
    <2>2. CASE ~(t = "TRACKING" /\ pc = "trackingClear")
      <3>1. TrackingDue => TrackingDue'
        BY <2>2 DEF TrackingDue, TimerFires
      <3> QED
        BY <3>1 DEF RoundIsTimed, InTracking, TimerFires, table
    <2> QED
      BY <2>1, <2>2
  <1> QED
    BY <1>1, <1>2, <1>3 DEF OneTracked, InTracking, Alive,
       OneConfigSent, ConfigSent,
       TimerFires, table

(* Web clients' requests leave the table alone.                            *)
LEMMA ApplicationStep ==
    ASSUME IInv, NEW a \in Addr, Application(a)
    PROVE  IInv'
  <1> USE DEF IInv
  <1>1. \E type \in Request, outcome \in Outcomes : SendMsg(type, a, outcome)
    BY DEF Application, AppConfig, AppToggle, Request
  <1>2. msduHandle' \in 0..HandleMax /\ tx' \subseteq Msg
    BY <1>1, SendMsgType
  <1>3. timers \subseteq timers' /\ timers' \subseteq {"TRACKING", "CONFIG"}
    BY DEF Application, AppConfig, AppToggle, ConfigRetry, TypeOK
  <1>4. UNCHANGED <<assoc, status, numDev, nv, cllcState, events, pc, asked,
                    dropped, resets>>
        /\ renewed' \in BOOLEAN /\ (renewed => renewed')
    BY DEF Application, AppConfig, AppToggle, table, TypeOK
  <1>5. TypeOK'
    BY <1>2, <1>3, <1>4 DEF TypeOK
  <1>6. Safe'
    BY <1>3, <1>4, TableKept
  <1> QED
    BY <1>5, <1>6 DEF Safe

-----------------------------------------------------------------------------
(* The inductive invariant.                                                *)

(* The invariant holds initially.                                          *)
LEMMA InitIInv == Init => IInv
  <1> SUFFICES ASSUME Init PROVE IInv
    OBVIOUS
  <1> USE ConstantsAssumption DEF Init
  <1>1. nv \in [Slot -> Addr \cup {NoAddr}]
    <2>1. PICK k \in 0..MaxDevices :
             nv = [r \in Slot |-> IF r <= k THEN r ELSE NoAddr]
      OBVIOUS
    <2>2. Slot \subseteq Addr
      BY DEF Slot, Addr
    <2> QED
      BY <2>1, <2>2
  <1>2. TypeOK
    <2>1. /\ assoc \in [Slot -> Addr \cup {NoAddr}]
          /\ status \in [Slot -> SUBSET Flag]
      OBVIOUS
    <2>2. numDev \in Nat /\ msduHandle \in 0..HandleMax /\ resets \in 0..MaxResets
      OBVIOUS
    <2>3. /\ events \subseteq {"START", "TRACKING", "CONFIG"}
          /\ timers \subseteq {"TRACKING", "CONFIG"}
          /\ cllcState \in {"initWaiting", "starting", "confirmed", "started"}
          /\ pc \in Pc
          /\ dropped \in BOOLEAN /\ renewed \in BOOLEAN
      BY DEF Pc
    <2>4. tx \subseteq Msg /\ asked \subseteq {"config", "tracking"} \X Addr
      OBVIOUS
    <2> QED
      BY <1>1, <2>1, <2>2, <2>3, <2>4 DEF TypeOK
  <1>3. \A s \in Slot : ~Valid(s)
    OBVIOUS
  <1>4. \A s \in Slot : ~InTracking(s) /\ ~ConfigSent(s)
    BY <1>3 DEF InTracking, ConfigSent
  <1> QED
    BY <1>2, <1>4 DEF IInv, OneTracked, RoundIsTimed, RoundIsRenewed, OneConfigSent

(* Every step keeps the invariant.                                         *)
LEMMA NextIInv == IInv /\ [Next]_vars => IInv'
  <1> SUFFICES ASSUME IInv, [Next]_vars PROVE IInv'
    OBVIOUS
  <1>1. CASE MainLoop
    BY <1>1, StartEventStep, TrackingEventStep, ConfigEventStep, OtherLoopSteps
    DEF MainLoop
  <1>2. CASE StartCnf \/ Join \/ ResetInd
    BY <1>2, JoinStep, ReceiveSteps
  <1>3. CASE \E a \in Addr : Network(a) \/ Application(a)
    BY <1>3, ReceiveSteps, ResetStatusStep, DepartureSteps, PollStep,
       ConfigRspStep, TrackingRspStep, ApplicationStep DEF Network, DataInd
  <1>4. CASE \E m \in tx, success, delivered \in BOOLEAN :
                DataCnf(m, success, delivered)
    BY <1>4, DataCnfStep
  <1>5. CASE \E t \in {"TRACKING", "CONFIG"} : TimerFires(t)
    BY <1>5, TimerStep
  <1>6. CASE UNCHANGED vars
    BY <1>6 DEF vars, IInv, TypeOK, OneTracked, RoundIsTimed, RoundIsRenewed, TrackingDue,
       InTracking, Alive, OneConfigSent, ConfigSent
  <1> QED
    BY <1>1, <1>2, <1>3, <1>4, <1>5, <1>6 DEF Next

(* The inductive invariant holds in every reachable state of the          *)
(* collector: each handler of its loop and of its callbacks keeps it.      *)
THEOREM Invariance == Spec => []IInv
  BY InitIInv, NextIInv, PTL DEF Spec

(* Every variable keeps its type: handles stay below MSDU_HANDLE_MAX and   *)
(* the table, the device list and the frames in flight hold only known     *)
(* kinds of values.                                                        *)
THEOREM TypeCorrectness == Spec => []TypeOK
  <1>1. IInv => TypeOK
    BY DEF IInv
  <1> QED
    BY <1>1, Invariance, PTL

(* generateTrackingRequests tracks one device at a time, and only members  *)
(* it holds to be alive.                                                   *)
THEOREM OneDeviceIsTracked == Spec => []OneTracked
  <1>1. IInv => OneTracked
    BY DEF IInv
  <1> QED
    BY <1>1, Invariance, PTL

(* A tracking round never waits without a clock or an event to end it,     *)
(* unless sendTrackingRequest failed to send.                              *)
THEOREM RoundsAreTimed == Spec => []RoundIsTimed
  <1>1. IInv => RoundIsTimed
    BY DEF IInv
  <1> QED
    BY <1>1, Invariance, PTL

(* generateConfigRequests leaves at most one device waiting for a confirm. *)
THEOREM OneDeviceIsAsked == Spec => []OneConfigSent
  <1>1. IInv => OneConfigSent
    BY DEF IInv
  <1> QED
    BY <1>1, Invariance, PTL

-----------------------------------------------------------------------------
(* Without resets of the co-processor, the one-at-a-time gate of the       *)
(* configuration requests is never closed for good: while a device waits   *)
(* for its confirm, the co-processor holds a request that it will confirm. *)

ConfigInFlight == \E m \in tx : m.type = "config"

(* sendMsg takes no frame away, and adds the one it reports as queued.     *)
LEMMA SendMsgGate ==
    ASSUME TypeOK, NEW type, NEW dst, NEW outcome, SendMsg(type, dst, outcome)
    PROVE  /\ ConfigInFlight => ConfigInFlight'
           /\ type = "config" /\ outcome # "refused" => ConfigInFlight'
  <1> DEFINE m == [type |-> type, dst |-> dst, counter |-> msduHandle]
  <1>1. m.type = type
    OBVIOUS
  <1>2. tx' = IF outcome = "refused" THEN tx ELSE tx \cup {m}
    BY DEF SendMsg
  <1> HIDE DEF m
  <1> QED
    BY <1>1, <1>2 DEF ConfigInFlight

(* A step that keeps the frames in flight and opens no gate.               *)
LEMMA GateKept ==
    ASSUME GateWillOpen, ConfigInFlight => ConfigInFlight',
           \A s \in Slot : ConfigSent(s)' => ConfigSent(s)
    PROVE  GateWillOpen'
  BY DEF GateWillOpen, ConfigInFlight

(* A tracking event keeps configuration requests in flight.                *)
LEMMA TrackingEventGate ==
    ASSUME IInv, GateWillOpen, TrackingEvent
    PROVE  GateWillOpen'
  <1>1. ConfigInFlight => ConfigInFlight'
    <2>1. CASE UNCHANGED radio
      BY <2>1 DEF radio, ConfigInFlight
    <2>2. CASE \E dst, outcome : SendMsg("tracking", dst, outcome)
      BY <2>2, SendMsgGate DEF IInv
    <2> QED
      BY <2>1, <2>2
      DEF TrackingEvent, RetryTracking, CloseRound, BeginTracking, SendTracking,
          radio
  <1>2. \A s \in Slot : ConfigSent(s)' => ConfigSent(s)
    BY TrackingEventEffect
  <1> QED
    BY <1>1, <1>2, GateKept

(* A configuration event marks the device whose request it has queued.     *)
LEMMA ConfigEventGate ==
    ASSUME IInv, GateWillOpen, ConfigEvent
    PROVE  GateWillOpen'
  <1>1. ASSUME status' = OverdueForgotten, ConfigInFlight => ConfigInFlight'
        PROVE  GateWillOpen'
    <2>1. \A s \in Slot : ConfigSent(s)' => ConfigSent(s)
      BY <1>1 DEF ConfigEvent, OverdueForgotten, ConfigSent, ConfigFlags
    <2> QED
      BY <1>1, <2>1, GateKept
  <1>2. ASSUME NEW dst, NEW outcome, SendMsg("config", dst, outcome)
        PROVE  /\ ConfigInFlight => ConfigInFlight'
               /\ outcome = "queued" => GateWillOpen'
    BY <1>2, SendMsgGate DEF IInv, GateWillOpen, ConfigInFlight
  <1>3. CASE status' = OverdueForgotten /\ UNCHANGED radio
    BY <1>1, <1>3 DEF radio, ConfigInFlight
  <1>4. CASE \E dst, outcome :
                /\ SendMsg("config", dst, outcome)
                /\ outcome # "queued" => status' = OverdueForgotten
    BY <1>1, <1>2, <1>4
  <1> QED
    BY <1>3, <1>4 DEF ConfigEvent, GenerateConfig, radio

(* The confirm that takes the last request away opens the gate.            *)
LEMMA DataCnfGate ==
    ASSUME IInv, GateWillOpen,
           NEW m \in tx, NEW success \in BOOLEAN, NEW delivered \in BOOLEAN,
           DataCnf(m, success, delivered)
    PROVE  GateWillOpen'
  <1>1. CASE MarkedConfig(m) /\ ConfigCnf(success)
    <2>1. \A u \in Slot : ~ConfigSent(u)'
      BY <1>1, ConfigCnfEffect
      DEF DataCnf, ConfigSent
    <2> QED
      BY <2>1 DEF GateWillOpen
  <1>2. CASE ~MarkedConfig(m)
    <2>1. m.type # "config"
      BY <1>2 DEF MarkedConfig
    <2>2. ConfigInFlight => ConfigInFlight'
      BY <2>1 DEF DataCnf, ConfigInFlight
    <2>3. \A s \in Slot : status'[s] \cap ConfigFlags = status[s] \cap ConfigFlags
      <3>1. CASE UNCHANGED <<status, timers>>
        BY <3>1
      <3>2. CASE TrackingCnf(success)
        BY <3>2 DEF TrackingCnf, Clear, ConfigFlags, IInv, TypeOK
      <3> QED
        BY <1>2, <3>1, <3>2 DEF DataCnf
    <2> QED
      BY <2>2, <2>3, GateKept DEF DataCnf, ConfigSent
  <1> QED
    BY <1>1, <1>2 DEF DataCnf

(* The other handlers keep the frames in flight and close no gate.         *)
LEMMA NetworkGate ==
    ASSUME IInv, GateWillOpen,
           \/ Join \/ StartCnf
           \/ MainLoop /\ ~TrackingEvent /\ ~ConfigEvent
           \/ \E a \in Addr : Network(a) \/ Application(a)
           \/ \E t \in {"TRACKING", "CONFIG"} : TimerFires(t)
    PROVE  GateWillOpen'
  <1>1. ConfigInFlight => ConfigInFlight'
    <2>1. CASE \E a \in Addr : Application(a)
      <3>1. \E type, a, outcome : SendMsg(type, a, outcome)
        BY <2>1 DEF Application, AppConfig, AppToggle
      <3> QED
        BY <3>1, SendMsgGate DEF IInv
    <2>2. CASE tx' = tx
      BY <2>2 DEF ConfigInFlight
    <2> QED
      BY <2>1, <2>2
      DEF Join, StartCnf, MainLoop, StartEvent, ClearTracking, ClearConfig,
          CllcProcess, Loop, Network, DataInd, Rejoin, ResetStatus, Leave, RemoveDevice,
          Poll, ConfigRsp, TrackingRsp, TimerFires, radio
  <1>2. \A s \in Slot : ConfigSent(s)' => ConfigSent(s)
    <2>1. CASE status' = status /\ assoc' = assoc
      BY <2>1 DEF ConfigSent
    <2>2. CASE Join \/ StartEvent \/ \E a \in Addr : ResetStatus(a)
      <3>1. \A s \in Slot : \/ status'[s] = status[s] /\ assoc'[s] = assoc[s]
                            \/ status'[s] = {}
        BY <2>2 DEF Join, StartEvent, RestoreNetwork, ResetStatus, IInv, TypeOK
      <3> QED
        BY <3>1 DEF ConfigSent
    <2>3. CASE \E a \in Addr : Leave(a) \/ RemoveDevice(a)
      BY <2>3, FreeSlotEffect DEF Leave, RemoveDevice
    <2>4. CASE \E a \in Addr : Poll(a)
      BY <2>4, DataRetryEffect
      DEF Poll, ConfigSent, IInv, TypeOK, StatusType
    <2>5. CASE \E a \in Addr : ConfigRsp(a) \/ TrackingRsp(a)
      <3>1. \A s \in Slot :
               \/ status'[s] = status[s]
               \/ status'[s] = (status[s] \ {"CONFIG_SENT"}) \cup {"CONFIG_RSP"}
               \/ status'[s] = (status[s] \ {"TRACKING_SENT"})
                                    \cup {"TRACKING_RSP"}
        BY <2>5 DEF ConfigRsp, TrackingRsp, IInv, TypeOK
      <3> QED
        BY <2>5, <3>1 DEF ConfigRsp, TrackingRsp, ConfigSent, ConfigFlags
    <2> QED
      BY <2>1, <2>2, <2>3, <2>4, <2>5
      DEF StartCnf, MainLoop, ClearTracking, ClearConfig, CllcProcess, Loop,
          Network, DataInd, Rejoin, Application, AppConfig, AppToggle, TimerFires, table
  <1> QED
    BY <1>1, <1>2, GateKept

(* A device that waits for the confirm of its configuration request does   *)
(* not wait for nothing, as long as the co-processor is not reset.         *)
THEOREM GateOpens ==
    ASSUME MaxResets = 0
    PROVE  Spec => []GateWillOpen
  <1>1. Init => GateWillOpen
    <2> SUFFICES ASSUME Init PROVE GateWillOpen
      OBVIOUS
    <2>1. \A s \in Slot : ~Valid(s)
      BY DEF Init
    <2> QED
      BY <2>1 DEF GateWillOpen, ConfigSent
  <1>2. IInv /\ GateWillOpen /\ [Next]_vars => GateWillOpen'
    <2> SUFFICES ASSUME IInv, GateWillOpen, [Next]_vars PROVE GateWillOpen'
      OBVIOUS
    <2>1. ~ResetInd
      BY MaxResets = 0 DEF ResetInd, IInv, TypeOK
    <2>2. CASE UNCHANGED vars
      BY <2>2 DEF vars, GateWillOpen, ConfigSent
    <2> QED
      BY <2>1, <2>2, TrackingEventGate, ConfigEventGate, DataCnfGate, NetworkGate
      DEF Next, MainLoop
  <1> QED
    BY <1>1, <1>2, Invariance, PTL DEF Spec
=============================================================================
