-------------------------------- MODULE MCMt --------------------------------
(***************************************************************************)
(* The MT message layer for the model checker, from the serial port up:    *)
(* the bytes of the port, the messages found among them, the requests, the *)
(* long messages, and the layouts of the messages.  Each layer takes from  *)
(* the one below what that promises, a message as a whole or bytes in      *)
(* order, and a long message is sent within a request's transmission, Tx   *)
(* of MtMsg: no part touches the state of another, and a behaviour is one  *)
(* of one of them.  A part that has not begun has no fair action enabled.  *)
(***************************************************************************)
EXTENDS MtMsg, MtFragment, Codec, MtFrame, SerialPort

VARIABLE part

mtVars == <<part, vars, fragVars, codecVars, frameVars, portVars>>

MtInit ==
    /\ part \in {"requests", "blocks", "messages", "frames", "bytes"}
    /\ Init /\ FragInit /\ CodecInit /\ FrameInit /\ PortInit
    /\ threaded => part = "bytes"  \* one choice is enough for the others

MtNext ==
    /\ \/ part = "requests" /\ Next /\ UNCHANGED <<fragVars, codecVars, frameVars, portVars>>
       \/ part = "blocks" /\ FragNext /\ UNCHANGED <<vars, codecVars, frameVars, portVars>>
       \/ part = "messages" /\ CodecNext /\ UNCHANGED <<vars, fragVars, frameVars, portVars>>
       \/ part = "frames" /\ FrameNext /\ UNCHANGED <<vars, fragVars, codecVars, portVars>>
       \/ part = "bytes" /\ PortNext /\ UNCHANGED <<vars, fragVars, codecVars, frameVars>>
    /\ UNCHANGED part

MtSpec == MtInit /\ [][MtNext]_mtVars /\ Fairness /\ FragFairness

\* Messages of the same and of different sizes after one another.
TwoThreeTwo == <<2, 3, 2>>

\* Nothing, a little, and more than one block of a long message.
SmallSizes == {0, 3, 200}

\* A message that fits, one that is too short and one that is too long.
Around == {-1, 0, 1}

\* A message with a payload of the overhead's size or less, and empty ones.
SixMessages == <<6, 11, 22, 28, 34, 40>>
=============================================================================
