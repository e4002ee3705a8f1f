------------------------------- MODULE MCWeb -------------------------------
(***************************************************************************)
(* The web clients for the model checker: how the server's messages reach  *)
(* all of them, and what the gateway makes of those that reach it.  The    *)
(* two share no state: a behaviour is one of the one or of the other, and  *)
(* each is fair to its own part.                                           *)
(***************************************************************************)
EXTENDS Broadcast, Gateway

Budget(e, b, a) == [events |-> e, breaks |-> b, asks |-> a]

\* What happens to one network before it is told apart from another.
OneEvent == {Budget(1, 0, 0)}

\* A break, with something that happens or with a browser's request.
BreakAndOther == {Budget(1, 1, 0), Budget(0, 1, 1)}

-----------------------------------------------------------------------------
VARIABLE part

webVars == <<part, vars, gwVars>>

\* Next to the broadcasts, one gateway that never begins is enough.
WebInit ==
  /\ part \in {"broadcast", "gateway"} /\ Init /\ GwInit
  /\ part = "broadcast" => ~saved /\ left = Budget(0, 1, 1)

WebNext ==
    \/ part = "broadcast" /\ Next /\ UNCHANGED <<part, gwVars>>
    \/ part = "gateway" /\ GwNext /\ UNCHANGED <<part, vars>>

\* Fairness does nothing where no connection has been made.
WebSpec ==
  /\ WebInit /\ [][WebNext]_webVars
  /\ Fairness
  /\ WF_gwVars(part = "gateway" /\ (Connect \/ ConnectFails))
  /\ WF_gwVars(part = "gateway" /\ Reconnect)
=============================================================================
