----------------------------- MODULE FencedLease -----------------------------
(***************************************************************************)
(* What a claim promises wherever the pipeline hands out work: an item has *)
(* at most one holder, a holder can lose it at any moment, and the item is *)
(* concluded once, either by the one who holds it at that moment or by     *)
(* being closed.  Only a conclusion by the holder has an effect.           *)
(* CursorAuth implements this specification.                               *)
(***************************************************************************)

CONSTANTS Items, Holders, Nobody, Nothing

VARIABLES
    holder,     \* who holds each item
    outcome,    \* of each item: open, done by a holder, or closed
    effect      \* the effect in force: the item and the holder it is from

vars == <<holder, outcome, effect>>

Effects == [item : Items, by : Holders]

Init ==
    /\ holder = [i \in Items |-> Nobody]
    /\ outcome = [i \in Items |-> "open"]
    /\ effect = Nothing

Acquire(i, h) ==
    /\ outcome[i] = "open" /\ holder[i] = Nobody
    /\ holder' = [holder EXCEPT ![i] = h]
    /\ UNCHANGED <<outcome, effect>>

Lapse(i) ==
    /\ outcome[i] = "open"
    /\ holder' = [holder EXCEPT ![i] = Nobody]
    /\ UNCHANGED <<outcome, effect>>

Commit(i, h) ==
    /\ outcome[i] = "open" /\ holder[i] = h
    /\ outcome' = [outcome EXCEPT ![i] = "done"]
    /\ effect' = [item |-> i, by |-> h]
    /\ UNCHANGED holder

Close(i) ==
    /\ outcome[i] = "open"
    /\ outcome' = [outcome EXCEPT ![i] = "closed"]
    /\ UNCHANGED <<holder, effect>>

Withdraw ==
    /\ effect' = Nothing
    /\ UNCHANGED <<holder, outcome>>

Next ==
    \/ \E i \in Items : Lapse(i) \/ Close(i)
    \/ \E i \in Items, h \in Holders : Acquire(i, h) \/ Commit(i, h)
    \/ Withdraw

Spec == Init /\ [][Next]_vars
=============================================================================
