----------------------------- MODULE ConfigFiles -----------------------------
(***************************************************************************)
(* The configuration of a workspace and the commands that read and write   *)
(* it.  The sections `selefra`, `providers`, `variables`, `modules` and    *)
(* `rules` may stand in any of the workspace's yaml files; the sections of *)
(* one name are read as one.  `init` writes selefra.yaml, module.yaml and  *)
(* rules/iam_mfa.yaml; `provider install` reads the whole configuration,   *)
(* adds to it and writes it into the file that has the `selefra` section;  *)
(* `apply` checks it and has one job, with one schema, for every           *)
(* declaration of a provider and every group of its settings.  os.WriteFile*)
(* empties a file before it writes.                                        *)
(***************************************************************************)
EXTENDS Naturals, Sequences, FiniteSets, SequencesExt

CONSTANTS Workspaces,   \* the workspaces to begin with: contents per file
          ProviderNames,
          Releases,     \* the versions that can be installed; Newest is the last one
          NameText(_),    \* the characters of a name of a provider or of settings,
          VersionText(_), \* and those of a version
          MaxCommands,  \* bound on the commands
          ConfigFaults  \* "crash" of a command, "write" of a file, "call" of a server

MainFile   == "selefra.yaml"
ModuleFile == "module.yaml"
RuleFile   == "iam_mfa.yaml"
Newest     == CHOOSE v \in Releases : \A w \in Releases : w <= v
YamlFiles  == {MainFile, ModuleFile, RuleFile, "other.yaml"}

\* What a file says: keys are those of its `selefra` section, {} if it has none;
\* decls and groups are what it lists, code whether it has modules or rules.
Blank == [keys |-> {}, decls |-> <<>>, grouped |-> FALSE, groups |-> <<>>, code |-> FALSE]

\* A source is a path: the namespace, selefra or another, and the provider.
Declarations == [name : ProviderNames, source : Seq({"selefra"} \cup STRING),
                 version : Releases]
Settings     == [name : STRING, provider : ProviderNames]

RequiredKeys == {"name", "cli_version", "providers"}
OptionalKeys == {"cloud", "connection", "log_level"}
AllKeys      == RequiredKeys \cup OptionalKeys \cup {"typo"}

Files == [keys : SUBSET AllKeys, decls : Seq(Declarations), grouped : BOOLEAN,
          groups : Seq(Settings), code : BOOLEAN]

\* The groups of settings stand in a section of their own, the declarations under a
\* key of the `selefra` section.
ASSUME ConfigAssumption ==
    /\ MaxCommands \in Nat
    /\ ProviderNames \subseteq STRING
    /\ Workspaces \subseteq [YamlFiles -> Files]
    /\ \A w \in Workspaces : \A f \in YamlFiles :
        /\ w[f].groups # <<>> => w[f].grouped
        /\ w[f].decls # <<>> => "providers" \in w[f].keys

\* A source is <namespace>/<name>: without a slash GetSchemaKey panics.
PlainDecls(decls) == \A i \in DOMAIN decls : Len(decls[i].source) >= 2

\* JobsAreDistinct is about workspaces whose user has no settings twice in a file.
ASSUME PlainAssumption ==
    \A w \in Workspaces : \A f \in YamlFiles :
        PlainDecls(w[f].decls) /\ IsInjective(w[f].groups)

VARIABLES
    yaml,     \* per file: what it says
    cmd,      \* the command that runs: its step, the arguments it has left, the
              \* configuration in its memory and the files it still has to write
    ran,      \* the commands that ran
    asked,    \* the providers the configuration lists or was asked to list since,
              \* and whether one was listed or asked for twice
    damaged   \* no readable configuration is to be expected: there was none with the
              \* `selefra` section in one file, the writing of a file was cut short,
              \* or an init left another section beside its own

configVars == <<yaml, cmd, ran, asked, damaged>>

-----------------------------------------------------------------------------
(* Reading.                                                                 *)

ClientFiles == {f \in YamlFiles : yaml[f].keys # {}}

\* assembleNode: the lists of all files, one after the other in any order.
Merged(files) == {FlattenSeq([i \in DOMAIN s |-> yaml[s[i]].groups]) : s \in SetToSeqs(files)}

\* GetConfig: the `selefra` sections of all files are one mapping, unless a key is there
\* twice, and the missing `providers` section becomes the text null, which is not read.
Loads ==
    /\ ClientFiles # {}
    /\ \A f, g \in ClientFiles : f # g => yaml[f].keys \cap yaml[g].keys = {}
    /\ \E f \in YamlFiles : yaml[f].grouped

\* The file with the declarations: no other section has their key.
DeclFile == CHOOSE f \in ClientFiles : \A g \in ClientFiles : "providers" \in yaml[g].keys => f = g

Configs ==
    IF ~Loads THEN {}
    ELSE {[decls |-> yaml[DeclFile].decls, groups |-> g] :
              g \in Merged({f \in YamlFiles : yaml[f].groups # <<>>})}

\* checkNode: no key that is not known, and no required one missing.
CheckNode(required, optional, keys) == keys \subseteq required \cup optional /\ required \subseteq keys

TestConfigByNode == \A f \in ClientFiles : CheckNode(RequiredKeys, OptionalKeys, yaml[f].keys)

\* The schema of a job: the name of the provider in its source, without the namespace,
\* and its version, both without dots, and the name of the settings, joined by "_".
GetSchemaKey(j) ==
    SelectSeq(NameText(j.source[2]) \o <<"_">> \o VersionText(j.version), LAMBDA x : x # ".")
        \o <<"_">> \o NameText(j.group)

JobOf(d, g) == [decl |-> d.name, source |-> d.source, version |-> d.version, group |-> g.name]

\* ProvidersByID: the groups of settings of a declaration.
JobsOf(d, groups) ==
    FlattenSeq([j \in DOMAIN groups |->
        IF groups[j].provider = d.name THEN <<JobOf(d, groups[j])>> ELSE <<>>])

\* The jobs of apply: declarations by groups.
Jobs(c) == FlattenSeq([i \in DOMAIN c.decls |-> JobsOf(c.decls[i], c.groups)])

-----------------------------------------------------------------------------
(* Writing.                                                                 *)

Idle == [step |-> "idle", kind |-> "none", args |-> <<>>, decls |-> <<>>, groups |-> <<>>,
         names |-> <<>>, left |-> <<>>, open |-> FALSE]

\* The providers that a file declares, and those that it names at all.
DeclaredIn(f) == [i \in DOMAIN yaml[f].decls |-> yaml[f].decls[i].name]
NamesIn(f)    == ToSet(DeclaredIn(f)) \cup {g.provider : g \in ToSet(yaml[f].groups)}

ConfigInit ==
    /\ yaml \in Workspaces
    /\ cmd = Idle
    /\ ran = 0
    /\ asked = [names |-> UNION {NamesIn(f) : f \in YamlFiles},
                twice |-> \E f \in YamlFiles : ~IsInjective(DeclaredIn(f))]
    /\ damaged = ~(Loads /\ Cardinality(ClientFiles) = 1)

Starts      == cmd = Idle /\ ran < MaxCommands /\ ran' = ran + 1
Ends        == cmd' = Idle
Doing(step) == cmd.step = step
Args        == BoundedSeq([name : ProviderNames, version : Releases], 2) \ {<<>>}

\* The declaration and the group that install and init append for a provider.
NewDecl(a)  == [name |-> a.name, source |-> <<"selefra", a.name>>, version |-> a.version]
NewGroup(a) == [name |-> a.name, provider |-> a.name]

AppendProvider(a) ==
    cmd' = [cmd EXCEPT !.args = Tail(@), !.decls = Append(@, NewDecl(a)),
                       !.groups = Append(@, NewGroup(a)), !.names = Append(@, a.name)]

\* install compares the source of a declaration, selefra/<name>, with the name, and
\* looks for the provider among the scalars of a list of mappings: both tests are
\* for a provider that is there already, and both say that it is not.
AlreadyDeclared(a) ==
    \E i \in DOMAIN cmd.decls : /\ cmd.decls[i].source = <<a.name>>
                                /\ cmd.decls[i].version = a.version

InstallBegins ==
    /\ Starts
    /\ IF Configs = {} THEN Ends
       ELSE \E c \in Configs, args \in Args :
                cmd' = [Idle EXCEPT !.step = "next", !.kind = "install", !.args = args,
                                    !.decls = c.decls, !.groups = c.groups]
    /\ UNCHANGED <<yaml, asked, damaged>>

\* reInit asks before it overwrites a configuration, readable or not; init asks for
\* the providers; it declares their latest version, and at least one.
InitBegins ==
    /\ Starts
    /\ \/ Ends
       \/ \E args \in {a \in Args : \A i \in DOMAIN a : a[i].version = Newest} :
              cmd' = [Idle EXCEPT !.step = "next", !.kind = "init", !.args = args]
    /\ UNCHANGED <<yaml, asked, damaged>>

\* One provider: it is downloaded and asked for its information.  A failure ends
\* the command before anything is written.
NextProvider ==
    /\ Doing("next") /\ cmd.args # <<>>
    /\ \/ IF cmd.kind = "install" /\ AlreadyDeclared(Head(cmd.args))
          THEN cmd' = [cmd EXCEPT !.args = Tail(@)]
          ELSE AppendProvider(Head(cmd.args))
       \/ "call" \in ConfigFaults /\ Ends
    /\ UNCHANGED <<yaml, ran, asked, damaged>>

\* Mutant: the file to write is any file of the workspace.
ConfigPath_Any == {f \in YamlFiles : yaml[f] # Blank}

\* GetConfigPath: any of the files with a `selefra` section.
ConfigPath == ClientFiles

\* The files that the command writes, in order.
Targets == IF cmd.kind = "install" THEN {<<f>> : f \in ConfigPath}
           ELSE {<<RuleFile, ModuleFile, MainFile>>}

BeginToWrite ==
    /\ Doing("next") /\ cmd.args = <<>>
    /\ \E t \in Targets : cmd' = [cmd EXCEPT !.step = "write", !.left = t]
    /\ UNCHANGED <<yaml, ran, asked, damaged>>

\* os.WriteFile: the file is created or emptied, then written.
OpenYaml ==
    /\ Doing("write") /\ ~cmd.open
    /\ yaml' = [yaml EXCEPT ![Head(cmd.left)] = Blank]
    /\ cmd' = [cmd EXCEPT !.open = TRUE]
    /\ UNCHANGED <<ran, asked, damaged>>

\* Mutant: what was asked for is added to a file that has it already.
Groups_Twice == cmd.groups \o [i \in DOMAIN cmd.names |-> [name |-> cmd.names[i],
                                                          provider |-> cmd.names[i]]]

Groups == cmd.groups

\* The keys that are written: install writes all that it knows, init `cloud` to whom is
\* logged in.
KeysOf(kind) == IF kind = "install" THEN {AllKeys \ {"connection", "typo"}}
                ELSE {RequiredKeys, RequiredKeys \cup {"cloud"}}

\* Mutant: the node of the providers is not made a list.
Content_NoSection(f, keys) ==
    IF cmd.kind = "init" /\ f # MainFile THEN [Blank EXCEPT !.code = TRUE]
    ELSE [Blank EXCEPT !.keys = keys, !.decls = cmd.decls, !.groups = Groups]

\* What is written: the whole configuration, without the modules and rules that the
\* file had, or the modules and the rule that init begins with.
Content(f, keys) ==
    IF cmd.kind = "init" /\ f # MainFile THEN [Blank EXCEPT !.code = TRUE]
    ELSE [Blank EXCEPT !.keys = keys, !.decls = cmd.decls, !.grouped = TRUE,
                       !.groups = Groups]

\* What the configuration lists after an init, and after an install.
Named     == [names |-> ToSet(cmd.names), twice |-> ~IsInjective(cmd.names)]
AlsoNamed == [names |-> asked.names \cup Named.names,
              twice |-> asked.twice \/ Named.twice \/ asked.names \cap Named.names # {}]

WriteYaml ==
    /\ Doing("write") /\ cmd.open
    /\ LET f == Head(cmd.left)
       IN  /\ \E keys \in KeysOf(cmd.kind) : yaml' = [yaml EXCEPT ![f] = Content(f, keys)]
           /\ IF Len(cmd.left) > 1
              THEN /\ cmd' = [cmd EXCEPT !.left = Tail(@), !.open = FALSE]
                   /\ UNCHANGED <<asked, damaged>>
              ELSE /\ Ends
                   /\ asked' = IF cmd.kind = "init" THEN Named ELSE AlsoNamed
                   /\ damaged' = IF cmd.kind = "init" THEN ClientFiles \ {f} # {} ELSE damaged
    /\ UNCHANGED ran

\* install and init ignore that the last file could not be written, and init ends
\* when one of the others cannot; the file is empty then.
WriteFails ==
    /\ "write" \in ConfigFaults
    /\ Doing("write") /\ cmd.open
    /\ Ends
    /\ damaged' = TRUE
    /\ UNCHANGED <<yaml, ran, asked>>

\* A file of the workspace was emptied, or one of the three that init writes was.
WriteBegan == Doing("write") /\ (cmd.open \/ (cmd.kind = "init" /\ Len(cmd.left) < 3))

CommandCrashes ==
    /\ "crash" \in ConfigFaults
    /\ cmd # Idle
    /\ Ends
    /\ damaged' = (damaged \/ WriteBegan)
    /\ UNCHANGED <<yaml, ran, asked>>

ConfigNext ==
    \/ InstallBegins \/ InitBegins
    \/ NextProvider \/ BeginToWrite
    \/ OpenYaml \/ WriteYaml \/ WriteFails
    \/ CommandCrashes

ConfigSpec == ConfigInit /\ [][ConfigNext]_configVars

-----------------------------------------------------------------------------
(* The properties.                                                          *)

(* The type of the state; a command that writes has asked for everything.   *)
ConfigTypeOK ==
    /\ \A f \in YamlFiles :
           /\ yaml[f].keys \subseteq RequiredKeys \cup OptionalKeys \cup {"typo"}
           /\ yaml[f].groups # <<>> => yaml[f].grouped
           /\ \A i \in DOMAIN yaml[f].decls : yaml[f].decls[i].name \in ProviderNames
    /\ cmd.step \in {"idle", "next", "write"}
    /\ cmd.kind \in {"none", "install", "init"}
    /\ cmd.step = "write" => cmd.args = <<>> /\ cmd.left # <<>>
    /\ cmd.open => yaml[Head(cmd.left)] = Blank
    /\ ran \in 0 .. MaxCommands
    /\ asked \in [names : SUBSET ProviderNames, twice : BOOLEAN]

(* config.go:397, install.go:148, init.go:232: between two commands a       *)
(* workspace that had a readable configuration, with its `selefra` section  *)
(* in one file, has one, unless writing it was cut short or init wrote its  *)
(* own beside that of another file; and what a command wrote passes the     *)
(* check of `test`, config.go:795.  (A section that stands in two files is  *)
(* read too, but install writes all its keys into one of them.)             *)
ConfigLoads ==
    cmd = Idle /\ ~damaged => Loads /\ (yaml \notin Workspaces => TestConfigByNode)

\* Names and versions that GetSchemaKey keeps apart.
SpelledApart(jobs) ==
    \A i, h \in DOMAIN jobs : GetSchemaKey(jobs[i]) = GetSchemaKey(jobs[h]) => jobs[i] = jobs[h]

(* install.go:69-78, 131-141, sync.go:96-126: apply locks the schema of     *)
(* every job and would wait for itself when two jobs had one.  In a         *)
(* workspace whose configuration can be expected they do not, as long as    *)
(* the settings stand in one file, no provider was asked for twice and the  *)
(* names and versions of different jobs are not spelled as one schema.      *)
JobsAreDistinct ==
    /\ cmd = Idle /\ ~damaged /\ ~asked.twice
    /\ Cardinality({f \in YamlFiles : yaml[f].groups # <<>>}) <= 1
    => \A c \in Configs :
           LET jobs == Jobs(c)
           IN  SpelledApart(jobs) => IsInjective([i \in DOMAIN jobs |-> GetSchemaKey(jobs[i])])
=============================================================================
