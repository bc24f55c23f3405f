---------------------------- MODULE CachedSchema ----------------------------
(***************************************************************************)
(* What the synchronization of provider schemas promises: the data of a    *)
(* schema is taken for fresh only when a complete pull was stored in it,   *)
(* and is dropped only after it expired.                                   *)
(***************************************************************************)
CONSTANT Schemas

VARIABLES
    full,   \* per schema: its tables hold a complete pull
    fresh   \* per schema: its update time is within the cache time

vars == <<full, fresh>>

Init ==
    /\ full \in [Schemas -> BOOLEAN]
    /\ fresh \in [Schemas -> BOOLEAN]
    /\ \A s \in Schemas : fresh[s] => full[s]

Drop(s) ==
    /\ ~fresh[s]
    /\ full' = [full EXCEPT ![s] = FALSE]
    /\ UNCHANGED fresh

Fill(s) ==
    /\ ~fresh[s]
    /\ full' = [full EXCEPT ![s] = TRUE]
    /\ UNCHANGED fresh

Stamp(s) ==
    /\ full[s]
    /\ fresh' = [fresh EXCEPT ![s] = TRUE]
    /\ UNCHANGED full

\* Time passes, for all the schemas at once.
Expire ==
    /\ fresh' \in [Schemas -> BOOLEAN]
    /\ \A s \in Schemas : fresh'[s] => fresh[s]
    /\ UNCHANGED full

Next == Expire \/ \E s \in Schemas : Drop(s) \/ Fill(s) \/ Stamp(s)

Spec == Init /\ [][Next]_vars
=============================================================================
