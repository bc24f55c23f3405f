--------------------------- MODULE IssueDelivery ---------------------------
(***************************************************************************)
(* What the reporting of issues promises, and no more: the issues of a     *)
(* call of RunRules reach the server in the order in which the call        *)
(* produced them, none twice and none skipped.  The calls follow each      *)
(* other, the last ones may not happen, and any suffix of what a call      *)
(* produced may never arrive.                                              *)
(***************************************************************************)
EXTENDS Naturals, Sequences

CONSTANT NCalls

VARIABLES
    current,    \* the call that may produce; NCalls + 1 when all are over
    produced,   \* per call: how many issues it produced
    received    \* per call: the numbers of the issues the server has

vars == <<current, produced, received>>

Calls == 1..NCalls

Init ==
    /\ current = 1
    /\ produced = [k \in Calls |-> 0]
    /\ received = [k \in Calls |-> <<>>]

Produce ==
    /\ current \in Calls
    /\ produced' = [produced EXCEPT ![current] = @ + 1]
    /\ UNCHANGED <<current, received>>

NextCall ==
    /\ current \in Calls
    /\ current' \in (current + 1)..(NCalls + 1)
    /\ UNCHANGED <<produced, received>>

Deliver(k) ==
    /\ Len(received[k]) < produced[k]
    /\ received' = [received EXCEPT ![k] = Append(@, Len(@) + 1)]
    /\ UNCHANGED <<current, produced>>

Next == Produce \/ NextCall \/ \E k \in Calls : Deliver(k)

Spec == Init /\ [][Next]_vars
=============================================================================
