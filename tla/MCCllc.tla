------------------------------- MODULE MCCllc -------------------------------
EXTENDS Cllc

(* Two networks on the first channel: the PAN ids 1 and 2 are taken there. *)
MCNeighbours == {<<1, 1>>, <<1, 2>>}
=============================================================================
