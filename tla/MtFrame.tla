------------------------------- MODULE MtFrame -------------------------------
(***************************************************************************)
(* How messages are found among the bytes of the co-processor's port:      *)
(* mt_msg_rx and mt_msg_rx_bytes (mt_msg.c), with the sync byte, the       *)
(* one-byte length and the checksum of uart-interface in collector.cfg.    *)
(*                                                                         *)
(* The line carries whole messages one after the other.  A byte is its     *)
(* position on the line; a sync byte is taken not to occur inside of a     *)
(* message.  The sender may pause in the middle of a message for longer    *)
(* than intersymbol_timeout_mSecs but not for intermsg_timeout_mSecs.      *)
(***************************************************************************)
EXTENDS Integers, Sequences, FiniteSetsExt

(* sync, length, cmd0, cmd1 and the checksum.                              *)
Overhead == 5

CONSTANTS
    Ends,      \* where each message ends on the line; the next begins there
    MaxPauses  \* bound: pauses within a message

ASSUME FrameAssumption ==
    /\ Ends \in Seq(Nat)
    /\ \A m, n \in DOMAIN Ends : m < n => Ends[m] + Overhead <= Ends[n]
    /\ \A m \in DOMAIN Ends : Overhead <= Ends[m]
    /\ MaxPauses \in Nat

Frames == DOMAIN Ends

EndOf(m) == IF m = 0 THEN 0 ELSE Ends[m]

(* The length that the message carries, MT_MSG_tx_raw.                     *)
PayloadOf(m) == EndOf(m) - EndOf(m - 1) - Overhead

LineLength == EndOf(Len(Ends))

VARIABLES
    arrived,  \* bytes that the line has delivered
    start,    \* the position of iobuf[0]
    nvalid,   \* iobuf_nvalid
    nneed,    \* as in mt_msg_rx
    rxAt,       \* where mt_msg_rx is
    passed,   \* the messages it returned
    pauses    \* bound: pauses so far

frameVars == <<arrived, start, nvalid, nneed, rxAt, passed, pauses>>

FrameInit ==
    /\ arrived = 0 /\ start = 0 /\ nvalid = 0 /\ nneed = Overhead
    /\ rxAt = "header" /\ passed = <<>> /\ pauses = 0

-----------------------------------------------------------------------------
(* The line.                                                               *)

Arrive ==
    /\ \E n \in arrived + 1 .. LineLength : arrived' = n
    /\ UNCHANGED <<start, nvalid, nneed, rxAt, passed, pauses>>

BetweenMessages == \E m \in {0} \cup Frames : arrived = EndOf(m)

(* STREAM_rdBytes of what is missing: all of it, or at the end of its time *)
(* what there is.                                                          *)
InTime == start + nneed <= arrived
Late == ~InTime /\ BetweenMessages
LateInside == ~InTime /\ ~BetweenMessages /\ pauses < MaxPauses

(* mt_msg_rx_bytes.                                                        *)
Fetched == IF nvalid >= nneed THEN nvalid
           ELSE IF InTime THEN nneed ELSE arrived - start

-----------------------------------------------------------------------------
(* mt_msg_rx.                                                              *)

SearchOneMore(position) ==
    /\ start' = position
    /\ nvalid' = 0
    /\ nneed' = Overhead + 1
    /\ rxAt' = "header"

(* try_again.                                                              *)
SearchFrom(position) ==
    /\ start' = position
    /\ nvalid' = 0
    /\ nneed' = Overhead
    /\ rxAt' = "header"

(* The first sync byte of the buffer, if there is one.                     *)
Syncs(n) == {p \in {EndOf(m - 1) : m \in Frames} : start <= p /\ p < start + n}

MessageAt(p) == CHOOSE m \in Frames : EndOf(m - 1) = p

(* The header is read.  nneed grows by the expected length, also when the  *)
(* header is read once more after a short read: it holds that length then  *)
(* already.  What exceeds the line makes no difference and is cut.         *)
RxHeader ==
    /\ rxAt = "header" /\ (InTime \/ Late)
    /\ Fetched > 0
    /\ IF Syncs(Fetched) = {}
       THEN SearchFrom(start + Fetched)
       ELSE LET p == Min(Syncs(Fetched))
            IN /\ start' = p
               /\ nvalid' = start + Fetched - p
               /\ IF p # start /\ nneed > nvalid'
                  THEN UNCHANGED <<nneed, rxAt>>
                  ELSE /\ nneed' = Min({nneed + PayloadOf(MessageAt(p)), LineLength + 1})
                       /\ rxAt' = "payload"
    /\ UNCHANGED <<arrived, passed, pauses>>

(* The checksum, MT_MSG_calc_chksum: zero for a whole message, and for     *)
(* more of them if their sync bytes, of which it leaves out the first one  *)
(* only, cancel out.                                                       *)
ChecksumFits ==
    \E m, n \in Frames :
        /\ n >= m /\ (n - m) % 2 = 0
        /\ start = EndOf(m - 1) /\ start + nneed = EndOf(n)

(* The message is passed on, with all that is in its buffer.               *)
RxMessageEnds ==
    /\ rxAt = "payload" /\ InTime
    /\ IF ChecksumFits
       THEN /\ passed' = Append(passed, MessageAt(start))
            /\ SearchFrom(start + nneed)
       ELSE /\ rxAt' = "dump"
            /\ UNCHANGED <<start, nvalid, nneed, passed>>
    /\ UNCHANGED <<arrived, pauses>>

(* The time within a message is over: read_more.                           *)
RxShort ==
    /\ rxAt = "payload" /\ (Late \/ LateInside)
    /\ nvalid' = Fetched
    /\ rxAt' = "header"
    /\ pauses' = pauses + (IF LateInside THEN 1 ELSE 0)
    /\ UNCHANGED <<arrived, start, nneed, passed>>

(* dump_recover: STREAM_rdDump throws away what has come by then.          *)
RxDump ==
    /\ rxAt = "dump"
    /\ SearchFrom(arrived)
    /\ UNCHANGED <<arrived, passed, pauses>>

FrameNext == Arrive \/ RxHeader \/ RxMessageEnds \/ RxShort \/ RxDump

FrameSpec == FrameInit /\ [][FrameNext]_frameVars

-----------------------------------------------------------------------------
(* The messages that are passed on are such as were sent, each once and in *)
(* order, however often the receiver loses its place among the bytes.      *)
PassedInOrder ==
    \A i \in 1 .. Len(passed) - 1 : passed[i] < passed[i + 1]

(* A message whose bytes were taken from the line was passed on: "Short    *)
(* read ... try again..." (mt_msg.c) loses none.                           *)
NothingIsSkipped ==
    \A m \in Frames : EndOf(m) <= start => \E i \in DOMAIN passed : passed[i] = m

(* The same, as long as no message was cut by a pause: neither how the     *)
(* bytes come in pieces nor the silence between messages loses one.        *)
SkippedAfterPausesOnly == pauses = 0 => NothingIsSkipped
=============================================================================
