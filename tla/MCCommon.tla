------------------------------ MODULE MCCommon ------------------------------
(***************************************************************************)
(* The mutex and the timers that the programs have in common               *)
(* (components/common), and the smallest of the programs, the client of    *)
(* the boot loader, for the model checker.  They share no state, since     *)
(* Clocks takes what is done under the lock as a step, which Mutex         *)
(* justifies; so a behaviour is one of one of them.                        *)
(***************************************************************************)
EXTENDS Mutex, Clocks, BootLoader, TLC

MCSettings == {<<0, FALSE>>, <<1, TRUE>>, <<3, FALSE>>}

\* Clocks does not tell these apart.
ClockSymmetry == Permutations(Setters) \cup Permutations(Alarms) \cup Permutations(Timers)

(* Files of the boot loader's client.  A last buffer of one or two units   *)
(* fits into a transfer, one of four does not.                             *)
Binary(a, n, o) == [bin |-> TRUE, start |-> a, size |-> n, records |-> <<>>,
                    options |-> o, locked |-> {}]
Hex(rs, o) == [bin |-> FALSE, start |-> 0, size |-> 0, records |-> rs,
               options |-> o, locked |-> {}]

Data(a, n) == [type |-> "data", at |-> a, size |-> n, base |-> 0]
Linear(b) == [type |-> "linear", at |-> 0, size |-> 0, base |-> b]
End == [type |-> "end", at |-> 0, size |-> 0, base |-> 0]

(* A gap and an address of more than 16 bits, and a section that is longer *)
(* than the buffer.                                                        *)
Gaps == <<Linear(0), Data(0, 2), Data(2, 1), Data(5, 1), Linear(8), Data(0, 2), End>>
Long == <<Data(0, 2), Data(2, 2), Data(4, 2), Data(8, 1), End>>

Options == {{"erase", "program"}, {"erase", "program", "verify"}, {"verify"}}

SmallTasks ==
    {Binary(s[1], s[2], o) : s \in {<<0, 7>>, <<2, 5>>, <<4, 4>>, <<8, 5>>}, o \in Options}
    \cup {Hex(rs, o) : rs \in {Gaps, Long}, o \in Options}
    \cup {[Hex(Gaps, {"erase", "program"}) EXCEPT !.locked = {2}]}

-----------------------------------------------------------------------------
VARIABLE part

CommonInit ==
    /\ part \in {"mutex", "clocks", "boot"}
    /\ Init /\ ClockInit /\ BootInit
    /\ part # "boot" => task = CHOOSE t \in Tasks : TRUE

CommonNext ==
    /\ \/ part = "mutex" /\ Next /\ UNCHANGED <<clockVars, bootVars>>
       \/ part = "clocks" /\ ClockNext /\ UNCHANGED <<vars, bootVars>>
       \/ part = "boot" /\ BootNext /\ UNCHANGED <<vars, clockVars>>
       \/ part = "boot" /\ ~Working /\ UNCHANGED <<vars, clockVars, bootVars>>
    /\ UNCHANGED part

CommonSpec == CommonInit /\ [][CommonNext]_<<part, vars, clockVars, bootVars>>
=============================================================================
