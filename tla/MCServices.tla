----------------------------- MODULE MCServices -----------------------------
(***************************************************************************)
(* What serves other programs, for the model checker: the store of the     *)
(* collector's files and the server of the NPI clients.  The two share no  *)
(* state: a behaviour is one of the one or of the other.  A server that    *)
(* has not begun has no fair action enabled.                               *)
(***************************************************************************)
EXTENDS Nvocmp, NpiServer

MCIds == {"a", "b", "c", "d"}
MCVals == {"v", "w"}

(* Items of one length, which may fill the pages.                          *)
Even == [cap |-> 2, ids |-> MCIds, size |-> [v |-> 1], live |-> 4]

(* Items of two lengths, which leave room for another one on a page.       *)
Roomy == [cap |-> 4, ids |-> {"a", "b"}, size |-> [v |-> 1, w |-> 2], live |-> 2]

Usual == {Even, Roomy}

(* One client that is told of things in order, and two that share the port. *)
OneOrTwo == {[clients |-> 1, indications |-> 2], [clients |-> 2, indications |-> 1]}

-----------------------------------------------------------------------------
VARIABLE part

servicesVars == <<part, vars, npiVars>>

ServicesInit ==
    /\ part \in {"store", "npi"} /\ Init /\ NpiInit
    /\ part # "npi" => limit = CHOOSE l \in Limits : TRUE
    /\ part # "store" => layout = CHOOSE l \in Layouts : TRUE

ServicesNext ==
    /\ \/ part = "store" /\ Next /\ UNCHANGED npiVars
       \/ part = "npi" /\ NpiNext /\ UNCHANGED vars
    /\ UNCHANGED part

ServicesSpec == ServicesInit /\ [][ServicesNext]_servicesVars /\ NpiFairness
=============================================================================
