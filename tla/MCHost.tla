-------------------------------- MODULE MCHost --------------------------------
(***************************************************************************)
(* Four parts of selefra on one machine: the modules of a workspace, as    *)
(* apply reads them; its configuration, as commands rewrite it; the reports*)
(* of an apply to the cloud; and the database that every process restarts. *)
(* None reads the state of another, so that one run explores the four side *)
(* by side: a behaviour has steps of one part, and the others are at rest. *)
(***************************************************************************)
EXTENDS ModuleExpansion, TaskReport, DbBootstrap, ConfigFiles

-----------------------------------------------------------------------------
(* The workspaces with modules.                                             *)

A == <<"ws", "a">>
B == <<"ws", "m", "b">>
C == <<"home", "p", "c">>
D == <<"home", "p", "d">>
E == <<"home", "q", "e">>

Uses1(n, us) == <<[name |-> n, uses |-> us]>>

\* Workspaces without packages.
OwnA == {Uses1("A", us) : us \in {
            <<<<"r">>>>, <<<<"r">>, B>>, <<B, A>>, <<B, B>>, <<<<"m", "b">>>>,
            <<<<".", "r">>, <<".", "m", "s">>>>, <<<<"url", "u">>, <<"r">>>>}}
        \cup {Uses1("A", <<<<".", "r">>>>) \o Uses1("A2", <<<<".", "r">>>>),
              Uses1("A", <<<<"r">>>>) \o Uses1("A2", <<B>>), <<>>}
OwnB == {Uses1("B", us) : us \in {<<<<"s">>>>, <<<<".", "m", "s">>>>, <<A>>, <<<<"a">>>>}}
        \cup {<<>>}

\* Workspaces with packages: from a module of a workspace, from a module it uses,
\* with modules in the package that use others, each other and the workspace.
PkgA == {Uses1("A", us) : us \in {
            <<<<"selefra", "p", "c">>, <<"r">>>>, <<<<"app", "o", "p", "c">>>>,
            <<<<"selefra", "p", "c">>, <<"selefra", "q", "e">>>>, <<<<"selefra", "p">>>>, <<B>>, <<C>>,
            <<B, <<"home", "p", "t">>>>}}
PkgB == {Uses1("B", us) : us \in {<<<<"s">>>>, <<<<"selefra", "p", "c">>>>}}
PkgC == {Uses1("C", us) : us \in {
            <<<<"t">>>>, <<<<"d">>>>, <<<<"selefra", "p", "d">>>>, <<<<"selefra", "p", "c">>>>, <<A>>}}
OrgA == {Uses1("A", us) : us \in {
            <<<<"r">>, <<"app", "o", "p", "c">>>>, <<<<"selefra", "p", "t">>>>,
            <<<<"app", "o", "p", "t">>, <<"app", "o", "p", "t">>>>}}
PkgD == {Uses1("D", us) : us \in {<<<<"t">>>>, <<<<"c">>>>}}

Tree(a, b, c, d) == (A :> a) @@ (B :> b) @@ (C :> c) @@ (D :> d) @@ (E :> Uses1("E", <<<<"t">>>>))

MCContents ==
    {Tree(w[1], w[2], w[3], w[4]) : w \in
        (OwnA \X OwnB \X {<<>>} \X {<<>>}) \cup (PkgA \X PkgB \X PkgC \X PkgD)
            \cup (OrgA \X {<<>>} \X {<<>>, Uses1("C", <<<<"t">>>>)} \X {<<>>})}

MCRuleFiles == {<<"ws", "r">>, <<"ws", "m", "s">>, <<"home", "p", "t">>, <<"home", "q", "t">>}
MCBroken    == {<<"ws", "m", "s">>}
MCLatest    == ("p" :> "v2") @@ ("q" :> "v1")
MCPublished == ("p" :> {"v1", "v2"}) @@ ("q" :> {"v1"})
MCShelves   ==
    {[recorded |-> ("p" :> s[1]) @@ ("q" :> ""), installed |-> ("p" :> s[2]) @@ ("q" :> "")] :
        s \in {<<"", "">>, <<"v1", "v1">>, <<"v2", "">>, <<"v2", "other">>}}

-----------------------------------------------------------------------------
\* The configurations to begin with: none, one file, one whose providers stand in
\* another file with two groups of settings for one declaration, one in another file
\* whose `selefra` section has a key that is not known, one whose section stands in two
\* files, and one with two jobs that GetSchemaKey gives one schema: a_1100_1100_x.
Group(g, n) == [name |-> g, provider |-> n]
Decl(n)     == [name |-> n, source |-> <<"selefra", n>>, version |-> 1]
Keys        == {"name", "cli_version", "providers"}
Section(keys, decls, groups) ==
    [keys |-> keys, decls |-> decls, grouped |-> groups # <<>>, groups |-> groups,
     code |-> FALSE]
NoSections     == Section({}, <<>>, <<>>)
Workspace(main, other) ==
    [f \in {"selefra.yaml", "module.yaml", "iam_mfa.yaml", "other.yaml"} |->
        CASE f = "selefra.yaml" -> main [] f = "other.yaml" -> other [] OTHER -> NoSections]

\* The provider a in version 1.10.0 with settings 1100_x, and a_1100 with settings x.
MCNameText(n)    == CASE n = "b"    -> <<"a", "_", "1", "1", "0", "0">>
                      [] n = "long" -> <<"1", "1", "0", "0", "_", "x">>
                      [] OTHER      -> <<n>>
MCVersionText(v) == IF v = 1 THEN <<"1", ".", "1", "0", ".", "0">> ELSE <<"2", ".", "0", ".", "0">>

MCWorkspaces ==
    {Workspace(NoSections, NoSections),
     Workspace(Section(Keys, <<Decl("a")>>, <<Group("a", "a")>>), Section({"cloud"}, <<>>, <<>>)),
     Workspace(Section(Keys, <<Decl("a"), Decl("b")>>, <<Group("long", "a"), Group("x", "b")>>),
               NoSections),
     Workspace(Section(Keys, <<Decl("a")>>, <<Group("a", "a")>>), NoSections),
     Workspace(Section(Keys, <<Decl("a")>>, <<>>),
               Section({}, <<>>, <<Group("a", "a"), Group("a1", "a")>>)),
     Workspace(NoSections, Section(Keys \cup {"typo"}, <<Decl("b")>>, <<Group("b", "b")>>))}

-----------------------------------------------------------------------------
(* The parts, at rest: apply has ended, no command is left, no process opens*)
(* a storage.                                                               *)

ModulesRest ==
    /\ files = Tree(<<>>, <<>>, <<>>, <<>>)
    /\ pkgs = [latest |-> None, readable |-> TRUE] @@ CHOOSE s \in Shelves : TRUE
    /\ mpc = "ended" /\ mods = <<>> /\ todo = {}
    /\ stack = <<>> /\ walk = <<>> /\ cycle = <<>> /\ base = <<>>
    /\ used = {} /\ loaded = <<>> /\ rules = <<>>

ConfigRests ==
    /\ yaml = Workspace(NoSections, NoSections) /\ cmd = Idle /\ ran = MaxCommands
    /\ asked = [names |-> {}, twice |-> FALSE] /\ damaged = TRUE

TaskRests ==
    /\ token = FALSE /\ project = FALSE /\ stage = Before /\ client = "none"
    /\ task = [created |-> FALSE, known |-> FALSE]
    /\ status = [s \in Stages |-> ""] /\ shown = {} /\ reports = <<>>
    /\ access = [a \in Actors |-> NoAccess]
    /\ setup = "unset" /\ pc = "ended" /\ round = 0
    /\ workers = [w \in Workers |-> "off"]

DbRests ==
    /\ bin = "none" /\ data = "none" /\ port = "5432" /\ server = "down"
    /\ db = [p \in DbProcs |-> "ok"]
    /\ opens = [p \in DbProcs |-> MaxOpens]
    /\ broken = "no"

HostInit ==
    \/ ModInit /\ ConfigRests /\ TaskRests /\ DbRests
    \/ ModulesRest /\ ConfigInit /\ TaskRests /\ DbRests
    \/ ModulesRest /\ ConfigRests /\ TaskInit /\ DbRests
    \/ ModulesRest /\ ConfigRests /\ TaskRests /\ DbInit

InModules  == UNCHANGED <<configVars, taskVars, dbVars>>
InConfig   == UNCHANGED <<modVars, taskVars, dbVars>>
InTask     == UNCHANGED <<modVars, configVars, dbVars>>
InDatabase == UNCHANGED <<modVars, configVars, taskVars>>

HostNext ==
    \/ InModules /\ \E f \in todo : DiscoverFile(f)
    \/ InModules /\ \E f \in todo : DeepPathModules(f)
    \/ InModules /\ \E f \in todo : CheckFile(f)
    \/ InModules /\ \E f \in todo : LinkFile(f)
    \/ InModules /\ FollowPath
    \/ InModules /\ FollowPackage
    \/ InModules /\ DiscoverReturns
    \/ InModules /\ Assemble
    \/ InModules /\ DeepPathEnds
    \/ InModules /\ CheckPath
    \/ InModules /\ CheckReturns
    \/ InModules /\ CheckEnds
    \/ InModules /\ Flatten
    \/ InModules /\ GetRules
    \/ InModules /\ ReportRefusal
    \/ InConfig /\ InstallBegins
    \/ InConfig /\ InitBegins
    \/ InConfig /\ NextProvider
    \/ InConfig /\ BeginToWrite
    \/ InConfig /\ OpenYaml
    \/ InConfig /\ WriteYaml
    \/ InConfig /\ WriteFails
    \/ InConfig /\ CommandCrashes
    \/ InTask /\ ShouldLogin
    \/ InTask /\ GetConfig
    \/ InTask /\ CreateTask
    \/ InTask /\ CheckConfig
    \/ InTask /\ PrintError
    \/ InTask /\ BeginPull
    \/ InTask /\ ReportPull
    \/ InTask /\ BeginRules
    \/ InTask /\ OpenFails
    \/ InTask /\ GetModulesFails
    \/ InTask /\ RunRules
    \/ InTask /\ RulesEnd
    \/ InTask /\ ReportRules
    \/ InTask /\ Upload
    \/ InTask /\ Unlock
    \/ InTask /\ Leave
    \/ InTask /\ \E a \in Actors : SetStatus(a)
    \/ InTask /\ \E a \in Actors : ReadStatus(a)
    \/ InTask /\ \E a \in Actors : UploadLogStatus(a)
    \/ InTask /\ ConcurrentMapAccess
    \/ InTask /\ \E k \in 1 .. MaxRounds : WatchdogFires(k)
    \/ InTask /\ \E k \in 1 .. MaxRounds : WatchdogReports(k)
    \/ InTask /\ \E k \in 1 .. MaxRounds : WatchdogCancels(k)
    \/ InTask /\ \E k \in 1 .. MaxRounds : SendFails(k)
    \/ InTask /\ \E w \in Workers : WorkerEnds(w)
    \/ InDatabase /\ \E p \in DbProcs : GetDsn(p)
    \/ InDatabase /\ \E p \in DbProcs : StatBin(p)
    \/ InDatabase /\ \E p \in DbProcs : CopyBegins(p)
    \/ InDatabase /\ \E p \in DbProcs : CopyEnds(p)
    \/ InDatabase /\ \E p \in DbProcs : InitdbBegins(p)
    \/ InDatabase /\ \E p \in DbProcs : InitdbEnds(p)
    \/ InDatabase /\ \E p \in DbProcs : ChangePort(p)
    \/ InDatabase /\ \E p \in DbProcs : PgStop(p)
    \/ InDatabase /\ \E p \in DbProcs : PgStart(p)
    \/ InDatabase /\ \E p \in DbProcs : DbCrash(p)

HostSpec == HostInit /\ [][HostNext]_<<modVars, configVars, taskVars, dbVars>>
===============================================================================
