----------------------------- MODULE SlotContract ------------------------------
(***************************************************************************)
(* What the slots of a decision round promise: a slot is asked, revoked    *)
(* and asked again any number of times, at most one request of it is open, *)
(* and the answer that fills it is an answer to the open request.          *)
(***************************************************************************)
EXTENDS Naturals

CONSTANTS Slot, Reply

VARIABLE slot  \* per slot: unasked, or its last request and what became of it

Asked(n)     == [phase |-> "asked", request |-> n]
Revoked(n)   == [phase |-> "revoked", request |-> n]
Filled(n, a) == [phase |-> "filled", request |-> n, answer |-> a]
Unasked      == [phase |-> "unasked"]

Init == slot = [s \in Slot |-> Unasked]

Ask(s) ==
    \/ slot[s] = Unasked /\ slot' = [slot EXCEPT ![s] = Asked(0)]
    \/ /\ slot[s].phase = "revoked"
       /\ slot' = [slot EXCEPT ![s] = Asked(@.request + 1)]

Revoke(s) ==
    /\ slot[s].phase = "asked"
    /\ slot' = [slot EXCEPT ![s] = Revoked(@.request)]

Fill(s, a) ==
    /\ slot[s].phase = "asked"
    /\ slot' = [slot EXCEPT ![s] = Filled(@.request, a)]

Next == \E s \in Slot : Ask(s) \/ Revoke(s) \/ \E a \in Reply : Fill(s, a)

Spec == Init /\ [][Next]_slot

================================================================================
