-------------------------------- MODULE Pipe --------------------------------
(***************************************************************************)
(* What a serial port promises to the one who reads it: the bytes that     *)
(* have come, each once and in their order.  A byte is its number on the   *)
(* line.                                                                   *)
(***************************************************************************)
EXTENDS Naturals, Sequences

VARIABLES
    came,   \* how many bytes have come
    taken   \* the bytes the reader was given

Init == came = 0 /\ taken = <<>>

Come == came' = came + 1 /\ UNCHANGED taken

(* Several bytes at once.                                                  *)
Take ==
    /\ \E n \in Len(taken) + 1 .. came : taken' = [i \in 1 .. n |-> i]
    /\ UNCHANGED came

Next == Come \/ Take

Spec == Init /\ [][Next]_<<came, taken>>
=============================================================================
