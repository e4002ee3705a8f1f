------------------------------ MODULE Trickle ------------------------------
(***************************************************************************)
(* How the link controller (cllc.c) of a network that hops over channels   *)
(* answers those who solicit its advertisement or its configuration.  A    *)
(* trickle timer per kind of frame sets an event from the timer thread;    *)
(* the loop of the collector's thread serves it, sends the frame and then  *)
(* clears it.  What solicitors say of the channels that they listen on     *)
(* decides where the next frame is sent.                                   *)
(***************************************************************************)
EXTENDS Naturals, Sequences, FiniteSets

CONSTANTS
  AsyncChannels,   \* linux_FH_ASYNC_CHANNEL_MASK
  Hopping,         \* said by those whose channel function is not fixed
  Timings,         \* the trickle timers' limits, and whether times are doubled
  Heard,           \* the solicitations: the kind, and the groups of its IEs
  MaxHeard, MaxRestarts   \* bounds

Kinds == {"advert", "config"}
AllChannels == 0 .. 128   \* those below APIMAC_154G_MAX_NUM_CHANNEL

\* A schedule is of one channel, which may be none that there is, or hops.
IEs == [id : {"us"}, is : Nat \cup {Hopping}] \cup [id : {"name"}, is : {"own", "other"}]
Groups == [id : {"wisun", "other", "term", "short"}, ies : Seq(IEs)]

ASSUME TrickleAssumption ==
  /\ AsyncChannels \subseteq AllChannels /\ Hopping \notin Nat
  /\ Timings \subseteq [min : Nat \ {0}, max : Nat \ {0}, double : BOOLEAN]
  /\ \A t \in Timings : t.min <= t.max
  /\ Heard \subseteq [kind : Kinds, groups : Seq(Groups)]
  /\ MaxHeard \in Nat /\ MaxRestarts \in Nat

VARIABLES
  timing,          \* CLLC_FH_MIN_TRICKLE, CLLC_FH_MAX_TRICKLE and
                   \* CONFIG_DOUBLE_TRICKLE_TIMER, which never change
  trickleTime,     \* fhPAtrickleTime, fhPCtrickleTime
  trickleClk,      \* whether their clocks run
  trickleEvents,   \* CLLC_PA_EVT and CLLC_PC_EVT in Cllc_events
  fixedFound, hopFound,   \* optAsyncFlag
  optChMask,       \* optPAChMask, optPCChMask
  networkStarted,
  fhNet,           \* what the co-processor makes of the network
  fhPc,            \* the place of the collector's thread in its loop
  \* Bounds and history.
  solicited, restarts,
  unanswered,         \* what those who solicited since the last start and not
                   \* answered listen on
  missed           \* the kinds whose clock has ended while its event was served

timers == <<trickleTime, trickleClk, trickleEvents>>
targets == <<fixedFound, hopFound, optChMask>>
fhBounds == <<solicited, restarts>>
fhVars == <<timing, timers, targets, networkStarted, fhNet, fhPc, fhBounds, unanswered, missed>>

FhTypeOK ==
  /\ timing \in Timings
  /\ trickleTime \in [Kinds -> Nat]
  /\ trickleClk \in [Kinds -> BOOLEAN]
  /\ trickleEvents \subseteq Kinds /\ missed \subseteq Kinds
  /\ fixedFound \subseteq Kinds /\ hopFound \subseteq Kinds
  /\ optChMask \in [Kinds -> SUBSET AllChannels]
  /\ networkStarted \in BOOLEAN
  /\ fhNet \in {"off", "starting", "failed", "on"}
  /\ fhPc \in {"advert", "sentAdvert", "config", "sentConfig", "state", "receive"}
  /\ unanswered \in [Kinds -> SUBSET (AsyncChannels \cup {Hopping})]

\* The limits are those of the configuration, or one of two of the test mode.
CLLC_LINUX_init ==
  /\ timing \in Timings
  /\ trickleTime = [k \in Kinds |-> IF k = "advert" THEN timing.min ELSE timing.max]

\* Both clocks run from the start, before there is a network.
Csf_initializeTrickleClock == trickleClk = [k \in Kinds |-> TRUE]

FhInit ==
  /\ CLLC_LINUX_init /\ Csf_initializeTrickleClock
  /\ trickleEvents = {} /\ fixedFound = {} /\ hopFound = {}
  /\ optChMask = [k \in Kinds |-> {}]
  /\ networkStarted = FALSE /\ fhNet = "off" /\ fhPc = "advert"
  /\ solicited = 0 /\ restarts = 0
  /\ unanswered = [k \in Kinds |-> {}] /\ missed = {}

FhAt(here, next) == fhPc = here /\ fhPc' = next

(***************************************************************************)
(* Cllc_process: the events of the trickle timers.                         *)
(***************************************************************************)

ServePlace(k) == IF k = "advert" THEN "advert" ELSE "config"
SentPlace(k) == IF k = "advert" THEN "sentAdvert" ELSE "sentConfig"
NextPlace(k) == IF k = "advert" THEN "config" ELSE "state"

Csf_setTrickleClock(k, time) == trickleClk' = [trickleClk EXCEPT ![k] = time > 0]

\* The time is doubled up to its limit, or the clock is not set again.
Doubled(t) == IF 2 * t < timing.max THEN 2 * t ELSE timing.max

setTrickleTime(k) ==
  LET t == IF timing.double THEN Doubled(trickleTime[k]) ELSE 0 IN
  /\ trickleTime' = [trickleTime EXCEPT ![k] = t]
  /\ IF timing.double THEN Csf_setTrickleClock(k, t) ELSE UNCHANGED trickleClk

\* MUTANT: those who hop are forgotten.
TargetsOfFixed(k) == IF k \in fixedFound THEN optChMask[k] ELSE AsyncChannels

\* The channels of those who have solicited, if all of them have one.
TargetsOf(k) ==
  IF k \in fixedFound /\ k \notin hopFound THEN optChMask[k] ELSE AsyncChannels

\* Who hops is reached on all channels, since it listens on any of them.
Reached(channels) ==
  channels \cup (IF AsyncChannels \subseteq channels THEN {Hopping} ELSE {})

\* The status is ignored: a co-processor without a network sends nothing.
sendAsyncReq(k) ==
  IF networkStarted
  THEN /\ optChMask' = [optChMask EXCEPT ![k] = {}]
       /\ fixedFound' = fixedFound \ {k} /\ hopFound' = hopFound \ {k}
       /\ unanswered' = IF fhNet = "on"
                     THEN [unanswered EXCEPT ![k] = @ \ Reached(TargetsOf(k))]
                     ELSE unanswered
  ELSE UNCHANGED <<targets, unanswered>>

TrickleEvent(k) ==
  /\ FhAt(ServePlace(k), SentPlace(k)) /\ k \in trickleEvents
  /\ setTrickleTime(k) /\ sendAsyncReq(k)
  /\ UNCHANGED <<timing, trickleEvents, networkStarted, fhNet, fhBounds, missed>>

\* The event of a clock that has ended since is cleared with the one served.
ClearTrickleEvent(k) ==
  /\ FhAt(SentPlace(k), NextPlace(k)) /\ trickleEvents' = trickleEvents \ {k}
  /\ UNCHANGED <<timing, trickleTime, trickleClk, targets, networkStarted, fhNet, fhBounds,
                 unanswered, missed>>

NoTrickleEvent(k) ==
  /\ FhAt(ServePlace(k), NextPlace(k)) /\ k \notin trickleEvents
  /\ UNCHANGED <<timing, timers, targets, networkStarted, fhNet, fhBounds, unanswered, missed>>

(***************************************************************************)
(* Cllc_process: the start of the network, which does not scan.            *)
(***************************************************************************)

SendFhStart ==
  /\ FhAt("state", "receive") /\ fhNet = "off"
  /\ networkStarted' = TRUE
  /\ fhNet' \in {"starting", "failed"}
  /\ UNCHANGED <<timing, timers, targets, fhBounds, unanswered, missed>>

\* The clocks are set, and the times stay as they are.
FhStarted ==
  /\ FhAt("state", "receive") /\ fhNet = "starting" /\ fhNet' = "on"
  /\ trickleClk' = [k \in Kinds |-> TRUE]
  /\ UNCHANGED <<timing, trickleTime, trickleEvents, targets, networkStarted, fhBounds,
                 unanswered, missed>>

\* A start that has failed is not tried again: what tries it scans, if at all.
NoFhStart ==
  /\ FhAt("state", "receive") /\ fhNet \in {"failed", "on"}
  /\ UNCHANGED <<timing, timers, targets, networkStarted, fhNet, fhBounds, unanswered, missed>>

(***************************************************************************)
(* A solicitation is heard.                                                *)
(***************************************************************************)

\* ApiMac_parsePayloadGroupIEs: the groups up to the one that ends them, or none
\* if a short IE is among them.
Parsed(groups) ==
  LET all  == {n \in 1 .. Len(groups) : \A i \in 1 .. n : groups[i].id # "term"}
  IN  IF \E n \in all : groups[n].id = "short" THEN {} ELSE all

\* Where the IEs of the network are, and before which others they are.
Places(groups) ==
  UNION {{g} \X DOMAIN groups[g].ies : g \in {g \in Parsed(groups) : groups[g].id = "wisun"}}
IeAt(groups, p) == groups[p[1]].ies[p[2]]
IsBefore(p, q) == p[1] < q[1] \/ (p[1] = q[1] /\ p[2] < q[2])

\* Once a name is found, only the first IE of a group is looked at.
Read(groups) ==
  {p \in Places(groups) :
     \/ p[2] = 1
     \/ \A q \in Places(groups) : IsBefore(q, p) => IeAt(groups, q).id # "name"}

Names(groups) == {p \in Read(groups) : IeAt(groups, p).id = "name"}

\* The last name that is read is that of this network.
IsOwn(groups) ==
  \E p \in Names(groups) : /\ IeAt(groups, p).is = "own"
                           /\ \A q \in Names(groups) : ~IsBefore(p, q)

\* What is said of the channels: a channel that there is not is no channel.
SaidBy(groups) ==
  {IeAt(groups, p).is : p \in {q \in Read(groups) : IeAt(groups, q).id = "us"}}
    \cap (AllChannels \cup {Hopping})

\* Also of those of other networks, since the name may come later.
processIncomingAsyncUSIE(k, said) ==
  /\ fixedFound' = IF said \ {Hopping} # {} THEN fixedFound \cup {k} ELSE fixedFound
  /\ hopFound' = IF Hopping \in said THEN hopFound \cup {k} ELSE hopFound
  /\ optChMask' = [optChMask EXCEPT ![k] = @ \cup (said \ {Hopping})]

\* The clock is set again unless the time is the least: it runs then.
processIncomingFHframe(k) ==
  IF trickleTime[k] # timing.min
  THEN /\ trickleTime' = [trickleTime EXCEPT ![k] = timing.min]
       /\ Csf_setTrickleClock(k, timing.min)
  ELSE UNCHANGED <<trickleTime, trickleClk>>

wsAsyncIndCb(frame) ==
  LET k    == frame.kind
      said == SaidBy(frame.groups)
      own  == IsOwn(frame.groups)
  IN  /\ FhAt("receive", "advert") /\ networkStarted /\ solicited < MaxHeard
      /\ solicited' = solicited + 1
      /\ processIncomingAsyncUSIE(k, said)
      /\ IF own THEN processIncomingFHframe(k) ELSE UNCHANGED <<trickleTime, trickleClk>>
      /\ unanswered' = IF own /\ fhNet = "on"
                    THEN [unanswered EXCEPT
                            ![k] = @ \cup (said \cap (AsyncChannels \cup {Hopping}))]
                    ELSE unanswered
      /\ UNCHANGED <<timing, trickleEvents, networkStarted, fhNet, restarts, missed>>

NothingHeard ==
  /\ FhAt("receive", "advert")
  /\ UNCHANGED <<timing, timers, targets, networkStarted, fhNet, fhBounds, unanswered, missed>>

(***************************************************************************)
(* The timer thread and the co-processor.                                  *)
(***************************************************************************)

TrickleTimeout(k) ==
  /\ trickleClk[k] /\ trickleClk' = [trickleClk EXCEPT ![k] = FALSE]
  /\ trickleEvents' = trickleEvents \cup {k}
  /\ missed' = IF fhPc = SentPlace(k) THEN missed \cup {k} ELSE missed
  /\ UNCHANGED <<timing, trickleTime, targets, networkStarted, fhNet, fhPc, fhBounds, unanswered>>

\* After a reset, which resetIndCb answers, the network is started again.  Who
\* waited for it must solicit again.
FhReset ==
  /\ FhAt("receive", "advert") /\ restarts < MaxRestarts /\ restarts' = restarts + 1
  /\ fhNet' = "off" /\ unanswered' = [k \in Kinds |-> {}]
  /\ UNCHANGED <<timing, timers, targets, networkStarted, solicited, missed>>

(***************************************************************************)
(* The specification.                                                      *)
(***************************************************************************)

FhLoop ==
  \/ \E k \in Kinds : TrickleEvent(k) \/ ClearTrickleEvent(k) \/ NoTrickleEvent(k)
  \/ SendFhStart \/ FhStarted \/ NoFhStart
  \/ (\E frame \in Heard : wsAsyncIndCb(frame)) \/ NothingHeard

FhNext == FhLoop \/ FhReset \/ \E k \in Kinds : TrickleTimeout(k)

FhSpec == FhInit /\ [][FhNext]_fhVars

(***************************************************************************)
(* Properties.                                                             *)
(***************************************************************************)

\* The trickle timer of a kind may have stopped for good: its clock ended while its
\* event was served, so that its event was lost, and the time is the least there is
\* and the most, so that no solicitation sets the clock again.
Stopped(k) == k \in missed /\ timing.double /\ timing.min = timing.max

\* A clock runs, or an event is set and not about to be cleared.
Timed(k) == trickleClk[k] \/ (k \in trickleEvents /\ fhPc # SentPlace(k))

\* As long as somebody who has solicited a frame was not sent one on a channel that it
\* listens on, another one will be sent, whoever else is heard and however the clock ends
\* while its event is served (cllc.c:475, 2061), unless the timer has stopped.
WhoWaitsIsTimed == \A k \in Kinds : unanswered[k] # {} => Timed(k) \/ Stopped(k)

\* A frame serves all who have solicited it: the channels that sendAsyncReq chooses are
\* enough for all whom it forgets then (cllc.c:1865).
NobodyIsLeftOut == \A k \in Kinds : fhPc = SentPlace(k) => unanswered[k] = {}
=============================================================================
