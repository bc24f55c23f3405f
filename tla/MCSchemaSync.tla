---------------------------- MODULE MCSchemaSync ----------------------------
(* Instances of SchemaSync for TLC. *)
EXTENDS SchemaSync

CONSTANTS p1, p2, f1,   \* two applies and a fetch
          s1, s2        \* two schemas

Pinned(s) == [pull |-> s, query |-> s]
Latest(s, t) == [pull |-> s, query |-> t]

\* The applies list two providers in opposite orders.
OppositeDecls ==
    [p \in {p1, p2} |-> IF p = p1 THEN <<Pinned(s1), Pinned(s2)>>
                                  ELSE <<Pinned(s2), Pinned(s1)>>]

\* One provider for all; the second apply writes its version as "latest".
SharedDecls ==
    [p \in {p1, p2, f1} |-> IF p = p2 THEN <<Latest(s1, s2)>> ELSE <<Pinned(s1)>>]

CacheOne  == [p \in Procs |-> 1]
AllFaults == {"crash", "error", "unlock", "read"}
NoRead    == {"crash", "error", "unlock"}
Unlocking == {"crash", "error"}
=============================================================================
