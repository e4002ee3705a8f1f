----------------------------- MODULE MtFragment -----------------------------
(***************************************************************************)
(* The transmission of a long message in blocks (MT_MSG_tx_fragment) and   *)
(* its reception (handle_data_fragment), each block acknowledged, over a   *)
(* line that loses frames: one with a wrong checksum is dropped.  Frames   *)
(* carry the number of the block and the size of the message, nothing that *)
(* tells one message from another.                                         *)
(*                                                                         *)
(* The extended status that each end sends at the end is only logged by    *)
(* the other one, and left out.                                            *)
(***************************************************************************)
EXTENDS Integers, Sequences

CONSTANTS
    Blocks,     \* the number of blocks of each message
    RetryMax,   \* retry_max
    MaxLosses,  \* bound: frames lost
    MaxEarly    \* bound: timeouts with the answer on its way

ASSUME MtFragmentAssumption ==
    /\ Blocks \in Seq(Nat \ {0})
    /\ RetryMax \in Nat \ {0}
    /\ MaxLosses \in Nat
    /\ MaxEarly \in Nat

Msgs == DOMAIN Blocks

VARIABLES
    step,      \* where the sender is
    msg,       \* the message it sends, or has sent last
    block,     \* tx_frag.block_cur
    try,       \* trynum
    results,   \* history: the result of MT_MSG_tx for each message
    acks,      \* tx_frag.pTxFragAck, the newest first
    ackSem,    \* tx_frag.tx_ack_semaphore
    ackPut,    \* the receive thread has yet to raise it
    data,      \* blocks on the line
    back,      \* acknowledgements on the line
    rxFrag,    \* rx_frag of the other end, blocks is NULL's <<>> or its parts
    received,  \* the messages it has passed on, as the parts they are made of
    losses,
    early,
    readFreed      \* an acknowledgement was read after it was freed

txVars == <<step, msg, block, try, results>>
rxVars == <<rxFrag, received>>
fragVars == <<step, msg, block, try, results, acks, ackSem, ackPut, data,
          back, rxFrag, received, losses, early, readFreed>>

Count == Blocks[msg]
NoRx == [cur |-> 0, count |-> 0, parts |-> <<>>]

FragInit ==
    /\ step = "idle"
    /\ msg = 0
    /\ block = 0
    /\ try = 0
    /\ results = <<>>
    /\ acks = <<>>
    /\ ackSem = 0
    /\ ackPut = FALSE
    /\ data = <<>>
    /\ back = <<>>
    /\ rxFrag = NoRx
    /\ received = <<>>
    /\ losses = 0
    /\ early = 0
    /\ readFreed = FALSE

-----------------------------------------------------------------------------
(* MT_MSG_tx_fragment.                                                     *)

Start ==
    /\ step = "idle"
    /\ msg < Len(Blocks)
    /\ msg' = msg + 1
    /\ block' = 0
    /\ try' = 0
    /\ step' = "send"
    /\ UNCHANGED <<results, acks, ackSem, ackPut, data, back, rxVars, losses,
                   early, readFreed>>

(* frag_tx_one_block.                                                      *)
Send ==
    /\ step = "send"
    /\ data' = Append(data, [block |-> block, count |-> Count, msg |-> msg])
    /\ step' = "wait"
    /\ UNCHANGED <<msg, block, try, results, acks, ackSem, ackPut, back,
                   rxVars, losses, early, readFreed>>

(* wait_for_frag_ack: the semaphore is taken, or the wait times out.       *)
AckWoken ==
    /\ step = "wait"
    /\ ackSem > 0
    /\ ackSem' = ackSem - 1
    /\ step' = "pop"
    /\ UNCHANGED <<msg, block, try, results, acks, ackPut, data, back,
                   rxVars, losses, early, readFreed>>

Quiet == data = <<>> /\ back = <<>> /\ ~ackPut

AckTimedOut ==
    /\ step = "wait"
    /\ ackSem = 0
    /\ \/ /\ Quiet
          /\ early' = early
       \/ /\ ~Quiet
          /\ early < MaxEarly
          /\ early' = early + 1
    /\ step' = "pop"
    /\ UNCHANGED <<msg, block, try, results, acks, ackSem, ackPut, data,
                   back, rxVars, losses, readFreed>>

(* Mutant: a block that was not acknowledged counts as sent.               *)
AgainOnce ==
    IF try + 1 < RetryMax
    THEN /\ try' = try + 1
         /\ step' = "send"
         /\ UNCHANGED <<block, results>>
    ELSE /\ step' = "idle"
         /\ results' = Append(results, "sent")
         /\ UNCHANGED <<block, try>>

(* The block is sent again, retry_max times; and then, since the caller's  *)
(* loop does not advance, as many times again.                             *)
Again ==
    /\ try' = IF try + 1 < RetryMax THEN try + 1 ELSE 0
    /\ step' = "send"
    /\ UNCHANGED <<block, results>>

Finish(r) ==
    /\ step' = "idle"
    /\ results' = Append(results, r)
    /\ UNCHANGED <<block, try>>

Advance ==
    \/ /\ block + 1 < Count
       /\ block' = block + 1
       /\ try' = 0
          /\ step' = "send"
       /\ UNCHANGED results
    \/ /\ block + 1 = Count
       /\ Finish("sent")

(* Which acknowledgements let the sender go on.                            *)
Accepted(a) ==
    \/ a.status = "success"
    \/ a.status = "complete" /\ a.block + 1 = Count

(* MT_MSG_free releases what follows in the list, too.                     *)
FreeRest(as) == [i \in DOMAIN as |-> [as[i] EXCEPT !.freed = TRUE]]

(* The list is dropped at the end of the message.                          *)
RestOfAcks == IF step' = "idle" THEN <<>> ELSE FreeRest(Tail(acks))

Pop ==
    /\ step = "pop"
    /\ \/ /\ acks = <<>>
          /\ Again
          /\ UNCHANGED <<acks, readFreed>>
       \/ /\ acks # <<>>
          /\ Head(acks).freed
          /\ readFreed' = TRUE
          /\ UNCHANGED <<acks, step, block, try, results>>
       \/ /\ acks # <<>>
          /\ ~Head(acks).freed
          /\ Head(acks).block # block
          /\ acks' = Tail(acks)
          /\ step' = "wait"
          /\ UNCHANGED <<readFreed, block, try, results>>
       \/ /\ acks # <<>>
          /\ ~Head(acks).freed
          /\ Head(acks).block = block
          /\ IF Accepted(Head(acks)) THEN Advance ELSE Finish("failed")
          /\ acks' = RestOfAcks
          /\ readFreed' = readFreed
    /\ UNCHANGED <<msg, ackSem, ackPut, data, back, rxVars, losses, early>>

(* The sender's receive thread: handle_extend_packet.                      *)
AckIn ==
    /\ ~ackPut
    /\ back # <<>>
    /\ back' = Tail(back)
    /\ acks' = <<[block |-> Head(back).block, status |-> Head(back).status,
                  freed |-> FALSE]>> \o acks
    /\ ackPut' = TRUE
    /\ UNCHANGED <<txVars, ackSem, data, rxVars, losses, early, readFreed>>

AckPut ==
    /\ ackPut
    /\ ackPut' = FALSE
    /\ ackSem' = ackSem + 1
    /\ UNCHANGED <<txVars, acks, data, back, rxVars, losses, early, readFreed>>

-----------------------------------------------------------------------------
(* The other end: handle_data_fragment.                                    *)

Ack(b, status) == back' = Append(back, [block |-> b, status |-> status])

AckBlock(b, count) == Ack(b, IF b + 1 = count THEN "complete" ELSE "success")

(* Mutant: a block that cannot be the first is dropped without a word.     *)
FirstBlockSilent(d) ==
    \/ /\ d.block # 0
       /\ UNCHANGED <<back, rxVars>>
    \/ /\ d.block = 0
       /\ rxFrag' = [cur |-> 0, count |-> d.count, parts |-> <<d.msg>>]
       /\ AckBlock(0, d.count)
       /\ UNCHANGED received

(* rx_first_frag_block.                                                    *)
FirstBlock(d) ==
    \/ /\ d.block # 0
       /\ Ack(d.block, "outOfOrder")
       /\ UNCHANGED rxVars
    \/ /\ d.block = 0
       /\ rxFrag' = [cur |-> 0, count |-> d.count, parts |-> <<d.msg>>]
       /\ AckBlock(0, d.count)
       /\ UNCHANGED received

Duplicate(d) ==
    /\ d.block = rxFrag.cur
    /\ rxFrag' = NoRx
    /\ UNCHANGED <<back, received>>

Misplaced(d) ==
    /\ d.block # rxFrag.cur
    /\ d.count # rxFrag.count \/ d.block # rxFrag.cur + 1
    /\ Ack(rxFrag.cur, "outOfOrder")
    /\ rxFrag' = NoRx
    /\ UNCHANGED received

NextBlock(d) ==
    /\ d.count = rxFrag.count
    /\ d.block = rxFrag.cur + 1
    /\ AckBlock(d.block, rxFrag.count)
    /\ LET parts == Append(rxFrag.parts, d.msg) IN
       \/ /\ d.block + 1 = rxFrag.count
          /\ received' = Append(received, parts)
          /\ rxFrag' = NoRx
       \/ /\ d.block + 1 # rxFrag.count
          /\ rxFrag' = [rxFrag EXCEPT !.cur = d.block, !.parts = parts]
          /\ UNCHANGED received

DataIn ==
    /\ data # <<>>
    /\ data' = Tail(data)
    /\ LET d == Head(data) IN
       \/ /\ rxFrag = NoRx
          /\ FirstBlock(d)
       \/ /\ rxFrag # NoRx
          /\ Duplicate(d) \/ Misplaced(d) \/ NextBlock(d)
    /\ UNCHANGED <<txVars, acks, ackSem, ackPut, losses, early, readFreed>>

-----------------------------------------------------------------------------
LoseData ==
    /\ data # <<>>
    /\ losses < MaxLosses
    /\ losses' = losses + 1
    /\ data' = Tail(data)
    /\ UNCHANGED <<txVars, acks, ackSem, ackPut, back, rxVars, early, readFreed>>

LoseAck ==
    /\ back # <<>>
    /\ losses < MaxLosses
    /\ losses' = losses + 1
    /\ back' = Tail(back)
    /\ UNCHANGED <<txVars, acks, ackSem, ackPut, data, rxVars, early, readFreed>>

FragSenderStep == Start \/ Send \/ AckWoken \/ AckTimedOut \/ Pop
LineStep == AckIn \/ AckPut \/ DataIn

FragNext ==
    /\ ~readFreed
    /\ FragSenderStep \/ LineStep \/ LoseData \/ LoseAck

FragSpec == FragInit /\ [][FragNext]_fragVars

(* The threads run, and the line delivers what it does not lose; that      *)
(* messages are begun is not fair.                                         *)
FragFairness ==
    /\ WF_fragVars(~readFreed /\ (Send \/ AckWoken \/ AckTimedOut \/ Pop))
    /\ WF_fragVars(~readFreed /\ (AckIn \/ AckPut))
    /\ WF_fragVars(~readFreed /\ DataIn)

FragFairSpec == FragSpec /\ FragFairness

-----------------------------------------------------------------------------
(* The message that was received, 0 if its blocks are not all its own and  *)
(* in their order.                                                         *)
Carried(i) ==
    LET m == received[i][1]
    IN  IF received[i] = [b \in 1..Blocks[m] |-> m] THEN m ELSE 0

(* The sender gets out of its loops if the line loses finitely many        *)
(* frames: a block that the other end does not take is refused.  Else an   *)
(* acknowledgement was read after MT_MSG_free had released it with the one *)
(* before it, which takes a wait that ended with the answer on its way.    *)
EverySendEnds == step # "idle" ~> (step = "idle" \/ (readFreed /\ early > 0))

(* It is the transmission of module Transfer, for messages of two blocks   *)
(* and more: each is received at most once, while it is being sent, with   *)
(* all its blocks and no other's, and the sender's success is never wrong. *)
(* Blocks are told apart by a number only: neither a lost frame nor an     *)
(* acknowledgement that comes late, even during the next message, makes    *)
(* the two ends disagree about whose block it is.                          *)
T == INSTANCE Transfer WITH
        sending <- IF step = "idle" THEN 0 ELSE msg,
        started <- msg,
        delivered <- [i \in DOMAIN received |-> Carried(i)],
        results <- results

ImplementsTransfer == T!Spec

=============================================================================
