------------------------------- MODULE MCCsf --------------------------------
(***************************************************************************)
(* Four parts of the collector for the model checker that share no state,  *)
(* so that a behaviour is one of one of them: the frame counter, the       *)
(* firmware update and the saved list of devices of csf_linux.c, and the   *)
(* trickle timers, which it keeps for the link controller.                 *)
(***************************************************************************)
EXTENDS FrameCounter, Oad, DeviceList, Trickle

(* A timer that is doubled once, one that cannot be, and one that is not.  *)
MCTimings ==
    {[min |-> 1, max |-> 2, double |-> TRUE], [min |-> 1, max |-> 1, double |-> TRUE],
     [min |-> 1, max |-> 2, double |-> FALSE]}

Group(id, ies) == [id |-> id, ies |-> ies]
Us(chan) == [id |-> "us", is |-> chan]
Name(whose) == [id |-> "name", is |-> whose]

(* Solicitors of either kind that listen on one channel or hop, one of     *)
(* another network, and those whose schedule comes too late or is cut off. *)
MCHeard ==
    [kind : Kinds,
     groups : {<<Group("other", <<>>), Group("wisun", <<Us(c), Name("own")>>),
                 Group("term", <<>>), Group("short", <<>>)>> : c \in {1, Hopping}}]
      \cup [kind : {"config"},
            groups : {<<Group("wisun", <<Us(2), Name("other")>>)>>,
                      <<Group("wisun", <<Name("own"), Us(2)>>)>>,
                      <<Group("wisun", <<Us(2), Name("own")>>), Group("short", <<>>)>>}]

-----------------------------------------------------------------------------
VARIABLE part

csfVars == <<part, fcVars, oadVars, vars, fhVars>>

CsfInit ==
    /\ part \in {"counter", "update", "list", "trickle"}
    /\ FcInit /\ OadInit /\ Init /\ FhInit
    /\ part # "trickle" => timing = CHOOSE t \in Timings : TRUE

CsfNext ==
    /\ \/ part = "counter" /\ FcNext /\ UNCHANGED <<oadVars, vars, fhVars>>
       \/ part = "update" /\ OadNext /\ UNCHANGED <<fcVars, vars, fhVars>>
       \/ part = "list" /\ Next /\ UNCHANGED <<fcVars, oadVars, fhVars>>
       \/ part = "trickle" /\ FhNext /\ UNCHANGED <<fcVars, oadVars, vars>>
    /\ UNCHANGED part

CsfSpec == CsfInit /\ [][CsfNext]_csfVars
=============================================================================
