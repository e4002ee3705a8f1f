------------------------------- MODULE Store -------------------------------
(***************************************************************************)
(* What the non-volatile store promises its callers: a map from items to   *)
(* values, of which a copy is saved before a call returns.  While the copy *)
(* is being replaced there is none.                                        *)
(***************************************************************************)
CONSTANTS Ids, Vals, Nothing, Lost

VARIABLES
    map,     \* the items and their values
    saved,   \* the copy, which a restart finds
    busy     \* a call has changed the map and not yet returned

vars == <<map, saved, busy>>

Empty == [id \in Ids |-> Nothing]

Init ==
    /\ map = Empty
    /\ saved = Empty
    /\ busy = FALSE

Write(id, v) ==
    /\ ~busy
    /\ map' = [map EXCEPT ![id] = v]
    /\ busy' = TRUE
    /\ UNCHANGED saved

Delete(id) ==
    /\ ~busy
    /\ map[id] # Nothing
    /\ map' = [map EXCEPT ![id] = Nothing]
    /\ busy' = TRUE
    /\ UNCHANGED saved

Replace ==
    /\ busy
    /\ saved' = Lost
    /\ UNCHANGED <<map, busy>>

Return ==
    /\ busy
    /\ saved' = map
    /\ busy' = FALSE
    /\ UNCHANGED map

Restart ==
    /\ map' = IF saved = Lost THEN Empty ELSE saved
    /\ saved' = map'
    /\ busy' = FALSE

Next ==
    \/ \E id \in Ids : Delete(id) \/ \E v \in Vals : Write(id, v)
    \/ Replace \/ Return \/ Restart

Spec == Init /\ [][Next]_vars

=============================================================================
