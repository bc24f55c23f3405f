------------------------------ MODULE MCSession ------------------------------
(* Instances of Session for TLC. *)
EXTENDS Session

AllKinds  == {"login", "init", "apply", "logout"}
InitOnly  == {"init"}
AllFaults == {"crash", "net", "revoke", "disk"}
TwoTokens == {"t1", "t2"}
=============================================================================
