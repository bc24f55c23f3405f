------------------------- MODULE MCProviderRegistry -------------------------
(* Instances of ProviderRegistry for TLC. *)
EXTENDS ProviderRegistry, TLC

a(v) == [name |-> "a", version |-> v]
b(v) == [name |-> "b", version |-> v]

OneProvider  == {"a"}
TwoProviders == {"a", "b"}

\* A workspace without providers and one with a provider, to which an install adds
\* a pinned one.
Lists == {<<>>, <<a(Latest)>>}
Two   == {<<a(1), b(Latest)>>}

\* The arguments of install and init.
Wanted == {<<a(Latest)>>, <<b(1), a(1)>>}

AllKinds   == {"install", "init", "remove", "update", "fetch", "test", "apply"}
RemoveOnly == {"remove"}
AllFaults  == {"crash", "net", "disk", "release"}
\* The processes are alike: each may run any command in any workspace.
ProcsAlike == Permutations(Procs)
=============================================================================
