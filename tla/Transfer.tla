------------------------------ MODULE Transfer ------------------------------
(***************************************************************************)
(* What the transmission of a message promises: messages go one at a time; *)
(* each is delivered once at most, and only while it is being sent; and    *)
(* one that is reported as sent has been delivered.                        *)
(***************************************************************************)
EXTENDS Naturals, Sequences

VARIABLES
    sending,    \* the number of the message, 0 when there is none
    started,    \* how many messages were begun
    delivered,  \* the messages the other end has received
    results     \* what the sender was told of each

vars == <<sending, started, delivered, results>>

Init ==
    /\ sending = 0
    /\ started = 0
    /\ delivered = <<>>
    /\ results = <<>>

Start ==
    /\ sending = 0
    /\ started' = started + 1
    /\ sending' = started'
    /\ UNCHANGED <<delivered, results>>

Deliver ==
    /\ sending # 0
    /\ \A i \in DOMAIN delivered : delivered[i] # sending
    /\ delivered' = Append(delivered, sending)
    /\ UNCHANGED <<sending, started, results>>

Report(r) ==
    /\ sending # 0
    /\ r = "sent" => \E i \in DOMAIN delivered : delivered[i] = sending
    /\ results' = Append(results, r)
    /\ sending' = 0
    /\ UNCHANGED <<started, delivered>>

Next == Start \/ Deliver \/ \E r \in {"sent", "failed"} : Report(r)

Spec == Init /\ [][Next]_vars

=============================================================================
