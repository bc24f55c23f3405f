-------------------------- MODULE ConfigFilesProofs --------------------------
(***************************************************************************)
(* Proofs about ConfigFiles, for any workspaces, providers, versions,      *)
(* faults and number of commands: who had a readable configuration, with   *)
(* its `selefra` section in one file, has one, unless writing it was cut   *)
(* short; and the commands give a workspace no two jobs with one schema.   *)
(***************************************************************************)
EXTENDS ConfigFiles, SequenceFacts, FiniteSetTheorems

-----------------------------------------------------------------------------
(* The inductive invariants.                                                *)

Command == [step : {"idle", "next", "write"}, kind : {"none", "install", "init"},
            args : Seq([name : ProviderNames, version : Releases]),
            decls : Seq(Declarations), groups : Seq(Settings),
            names : Seq(ProviderNames), left : Seq(YamlFiles), open : BOOLEAN]

TypeInv ==
    /\ yaml \in [YamlFiles -> Files]
    /\ \A f \in YamlFiles : yaml[f].groups # <<>> => yaml[f].grouped
    /\ cmd \in Command
    /\ cmd.step = "write" => cmd.args = <<>> /\ cmd.left # <<>>
    /\ cmd.open => cmd.step = "write" /\ yaml[Head(cmd.left)] = Blank
    /\ ran \in 0 .. MaxCommands
    /\ asked \in [names : SUBSET ProviderNames, twice : BOOLEAN]
    /\ damaged \in BOOLEAN

\* An install writes a file with a `selefra` section, the only one if a configuration
\* is to be expected; an init the three files that it has, the main one last.
ControlInv ==
    /\ cmd.step = "idle" => cmd = Idle
    /\ cmd.kind = "none" => cmd.step = "idle"
    /\ cmd.kind = "install" =>
          /\ cmd.step = "next" => Loads
          /\ cmd.step = "write" =>
                \E f \in YamlFiles :
                    /\ cmd.left = <<f>>
                    /\ ~damaged => ClientFiles = IF cmd.open THEN {} ELSE {f}
    /\ cmd.kind = "init" /\ cmd.step = "write" =>
          cmd.left \in {<<RuleFile, ModuleFile, MainFile>>, <<ModuleFile, MainFile>>, <<MainFile>>}

\* Until a command begins to write, the configuration is as the last one left it.
ReadyInv ==
    ~damaged /\ ~WriteBegan =>
        /\ Loads /\ \E f \in YamlFiles : ClientFiles = {f}
        /\ yaml \in Workspaces \/ TestConfigByNode

-----------------------------------------------------------------------------
(* The files.                                                               *)

LEMMA FilesAreFinite ==
  /\ IsFiniteSet(YamlFiles)
  /\ \A S \in SUBSET YamlFiles :
        /\ IsFiniteSet(S)
        /\ Cardinality(S) = 1 <=> \E f \in YamlFiles : S = {f}
        /\ Cardinality(S) <= 1 <=> S = {} \/ \E f \in YamlFiles : S = {f}
<1>1. IsFiniteSet(YamlFiles)
  <2>1. YamlFiles = ((({} \cup {MainFile}) \cup {ModuleFile}) \cup {RuleFile}) \cup {"other.yaml"}
    BY DEF YamlFiles
  <2>2. IsFiniteSet({} \cup {MainFile})
    BY FS_EmptySet, FS_AddElement
  <2>3. IsFiniteSet(({} \cup {MainFile}) \cup {ModuleFile})
    BY <2>2, FS_AddElement
  <2>4. IsFiniteSet((({} \cup {MainFile}) \cup {ModuleFile}) \cup {RuleFile})
    BY <2>3, FS_AddElement
  <2> QED
    BY <2>1, <2>4, FS_AddElement
<1>2. ASSUME NEW S \in SUBSET YamlFiles
      PROVE  /\ IsFiniteSet(S)
             /\ Cardinality(S) = 1 <=> \E f \in YamlFiles : S = {f}
             /\ Cardinality(S) <= 1 <=> S = {} \/ \E f \in YamlFiles : S = {f}
  <2>1. IsFiniteSet(S)
    BY <1>1, FS_Subset
  <2>2. Cardinality(S) = 1 <=> \E f \in YamlFiles : S = {f}
    BY <2>1, FS_Singleton
  <2>3. Cardinality(S) \in Nat /\ (Cardinality(S) = 0 <=> S = {})
    BY <2>1, FS_CardinalityType, FS_EmptySet
  <2>4. Cardinality(S) <= 1 <=> Cardinality(S) = 0 \/ Cardinality(S) = 1
    BY <2>3
  <2> QED
    BY <2>1, <2>2, <2>3, <2>4
<1> QED
  BY <1>1, <1>2

LEMMA FileTypes ==
  /\ MainFile \in YamlFiles /\ ModuleFile \in YamlFiles /\ RuleFile \in YamlFiles
  /\ MainFile # ModuleFile /\ MainFile # RuleFile /\ ModuleFile # RuleFile
  /\ Blank \in Files /\ Blank.groups = <<>> /\ Blank.keys = {}
  /\ RequiredKeys \in SUBSET AllKeys /\ RequiredKeys # {}
BY DEF MainFile, ModuleFile, RuleFile, YamlFiles, Blank, Files, RequiredKeys, AllKeys

\* What GetConfig reads.
LEMMA ConfigTypes ==
  ASSUME TypeInv, NEW c \in Configs
  PROVE  /\ Loads /\ c.groups \in Seq(Settings) /\ c.decls \in Seq(Declarations)
         /\ \E f \in ClientFiles : c.decls = yaml[f].decls
         /\ \A f : ClientFiles = {f} => c.decls = yaml[f].decls
         /\ c.groups \in Merged({f \in YamlFiles : yaml[f].groups # <<>>})
<1> DEFINE files == {f \in YamlFiles : yaml[f].groups # <<>>}
<1>1. Loads
  BY DEF Configs
<1>2. DeclFile \in ClientFiles
  <2>1. \E f \in ClientFiles : \A g \in ClientFiles : "providers" \in yaml[g].keys => f = g
    <3>1. CASE \E f \in ClientFiles : "providers" \in yaml[f].keys
      BY <1>1, <3>1 DEF Loads
    <3>2. CASE ~\E f \in ClientFiles : "providers" \in yaml[f].keys
      BY <1>1, <3>2 DEF Loads
    <3> QED
      BY <3>1, <3>2
  <2> QED
    BY <2>1 DEF DeclFile
<1>3. PICK g \in Merged(files) : c = [decls |-> yaml[DeclFile].decls, groups |-> g]
  BY <1>1 DEF Configs
<1>4. g \in Seq(Settings)
  <2>1. PICK s \in SetToSeqs(files) : g = FlattenSeq([i \in DOMAIN s |-> yaml[s[i]].groups])
    BY DEF Merged
  <2>2. s \in [1 .. Cardinality(files) -> files]
    BY DEF SetToSeqs
  <2>3. Cardinality(files) \in Nat
    BY FilesAreFinite, FS_CardinalityType
  <2> DEFINE t == [i \in DOMAIN s |-> yaml[s[i]].groups]
  <2>4. \A i \in 1 .. Cardinality(files) : yaml[s[i]].groups \in Seq(Settings)
    BY <2>2 DEF TypeInv, Files
  <2> HIDE DEF files
  <2>5. t \in [1 .. Cardinality(files) -> Seq(Settings)]
    BY <2>2, <2>4
  <2>6. t \in Seq(Seq(Settings))
    BY <2>3, <2>5
  <2> HIDE DEF t
  <2>7. FlattenSeq(t) \in Seq(Settings)
    BY <2>6, FlattenElements
  <2> QED
    BY <2>1, <2>7 DEF t
<1>5. c.groups = g /\ c.decls = yaml[DeclFile].decls
  BY <1>3
<1>6. yaml[DeclFile].decls \in Seq(Declarations)
  BY <1>2 DEF TypeInv, Files, ClientFiles
<1> QED
  BY <1>1, <1>2, <1>3, <1>4, <1>5, <1>6

\* Replacing a file.
LEMMA FileReplaced ==
  ASSUME NEW f \in YamlFiles, NEW new \in Files, yaml \in [YamlFiles -> Files],
         yaml' = [yaml EXCEPT ![f] = new]
  PROVE  /\ yaml' \in [YamlFiles -> Files] /\ yaml'[f] = new
         /\ \A g \in YamlFiles \ {f} : yaml'[g] = yaml[g]
         /\ ClientFiles' = (ClientFiles \ {f}) \cup (IF new.keys # {} THEN {f} ELSE {})
<1>1. /\ yaml' \in [YamlFiles -> Files] /\ yaml'[f] = new
      /\ \A g \in YamlFiles \ {f} : yaml'[g] = yaml[g]
  OBVIOUS
<1> QED
  BY <1>1 DEF ClientFiles

-----------------------------------------------------------------------------
(* Types.                                                                   *)

LEMMA Elements ==
  ASSUME NEW S, NEW s \in Seq(S), NEW i \in DOMAIN s
  PROVE  s[i] \in S
OBVIOUS

LEMMA IdleType ==
  /\ Idle \in Command /\ Idle.step = "idle" /\ Idle.kind = "none" /\ ~Idle.open
  /\ Idle.args = <<>> /\ Idle.decls = <<>> /\ Idle.groups = <<>> /\ Idle.names = <<>>
BY DEF Idle, Command

LEMMA ArgTypes ==
  ASSUME NEW args \in Args
  PROVE  args \in Seq([name : ProviderNames, version : Releases]) /\ args # <<>>
<1> DEFINE S == [name : ProviderNames, version : Releases]
<1>1. PICK m \in 0 .. 2 : args \in [1 .. m -> S]
  BY DEF Args, BoundedSeq, SeqOf
<1>2. args # <<>>
  BY DEF Args
<1> HIDE DEF S
<1>3. args \in Seq(S)
  BY <1>1
<1> QED
  BY <1>2, <1>3 DEF S

LEMMA NewTypes ==
  ASSUME NEW a \in [name : ProviderNames, version : Releases]
  PROVE  NewDecl(a) \in Declarations /\ NewGroup(a) \in Settings /\ a.name \in ProviderNames
<1>1. a.name \in ProviderNames /\ a.version \in Releases /\ a.name \in STRING
  BY ConfigAssumption
<1>2. ASSUME NEW T, NEW x \in T, NEW y \in T
      PROVE  <<x, y>> \in Seq(T)
  OBVIOUS
<1>3. <<"selefra", a.name>> \in Seq({"selefra"} \cup STRING)
  BY <1>1, <1>2
<1> QED
  BY <1>1, <1>3 DEF NewDecl, NewGroup, Declarations, Settings

LEMMA KeyTypes ==
  ASSUME NEW keys \in KeysOf(cmd.kind)
  PROVE  keys \in SUBSET AllKeys /\ keys # {} /\ CheckNode(RequiredKeys, OptionalKeys, keys)
BY FileTypes DEF KeysOf, CheckNode, AllKeys, RequiredKeys, OptionalKeys

LEMMA ContentType ==
  ASSUME TypeInv, NEW f \in YamlFiles, NEW keys \in KeysOf(cmd.kind)
  PROVE  /\ Content(f, keys) \in Files
         /\ Content(f, keys).groups # <<>> => Content(f, keys).grouped
         /\ ~(cmd.kind = "init" /\ f # MainFile) =>
               /\ Content(f, keys).keys = keys /\ Content(f, keys).grouped
               /\ Content(f, keys).decls = cmd.decls /\ Content(f, keys).groups = cmd.groups
         /\ cmd.kind = "init" /\ f # MainFile =>
               /\ Content(f, keys).keys = {} /\ Content(f, keys).groups = <<>>
               /\ Content(f, keys).decls = <<>>
<1>1. cmd.decls \in Seq(Declarations) /\ cmd.groups \in Seq(Settings)
  BY DEF TypeInv, Command
<1>2. CASE cmd.kind = "init" /\ f # MainFile
  <2>1. Content(f, keys) = [keys |-> {}, decls |-> <<>>, grouped |-> FALSE, groups |-> <<>>,
                            code |-> TRUE]
    BY <1>2 DEF Content, Blank
  <2> QED
    BY <1>2, <2>1 DEF Files
<1>3. CASE ~(cmd.kind = "init" /\ f # MainFile)
  <2>1. Content(f, keys) = [keys |-> keys, decls |-> cmd.decls, grouped |-> TRUE,
                            groups |-> cmd.groups, code |-> FALSE]
    BY <1>3 DEF Content, Blank, Groups
  <2> QED
    BY <1>1, <1>3, <2>1, KeyTypes DEF Files
<1> QED
  BY <1>2, <1>3

\* The end of a command that has not written, or could not.
LEMMA IdleCommand ==
  ASSUME TypeInv, cmd' = Idle, yaml' = yaml, ran' \in 0 .. MaxCommands, asked' = asked,
         damaged' \in BOOLEAN
  PROVE  TypeInv' /\ ControlInv' /\ ~WriteBegan'
<1>1. TypeInv'
  BY IdleType DEF TypeInv
<1>2. ControlInv'
  BY IdleType DEF ControlInv
<1>3. ~WriteBegan'
  BY IdleType DEF WriteBegan, Doing
<1> QED
  BY <1>1, <1>2, <1>3

\* The file that is written.
Current == Head(cmd.left)

\* An init goes on with the next file, or the command ends.
LEMMA FileWritten ==
  ASSUME TypeInv, ControlInv, WriteYaml
  PROVE  /\ Current \in YamlFiles /\ yaml[Current] = Blank
         /\ \E keys \in KeysOf(cmd.kind) : yaml' = [yaml EXCEPT ![Current] = Content(Current, keys)]
         /\ \/ /\ cmd' = [cmd EXCEPT !.left = Tail(@), !.open = FALSE]
               /\ cmd.kind = "init" /\ Current # MainFile /\ Len(cmd.left) \in {2, 3}
               /\ Tail(cmd.left) \in {<<ModuleFile, MainFile>>, <<MainFile>>}
               /\ UNCHANGED <<asked, damaged>>
            \/ /\ cmd' = Idle /\ cmd.left = <<Current>> /\ cmd.kind = "install"
               /\ asked' = AlsoNamed /\ damaged' = damaged
            \/ /\ cmd' = Idle /\ cmd.left = <<Current>> /\ cmd.kind = "init" /\ Current = MainFile
               /\ asked' = Named /\ damaged' = (ClientFiles \ {Current} # {})
<1>1. cmd.step = "write" /\ cmd.open /\ cmd.left \in Seq(YamlFiles) /\ cmd.left # <<>>
      /\ cmd.kind \in {"none", "install", "init"}
  BY DEF WriteYaml, Doing, TypeInv, Command
<1>2. Current \in YamlFiles /\ yaml[Current] = Blank
  BY <1>1 DEF TypeInv, Current
<1>3. \E keys \in KeysOf(cmd.kind) : yaml' = [yaml EXCEPT ![Current] = Content(Current, keys)]
  BY DEF WriteYaml, Current
<1>4. CASE cmd.kind = "install"
  <2>1. PICK g \in YamlFiles : cmd.left = <<g>>
    BY <1>1, <1>4 DEF ControlInv
  <2>2. Current = g /\ Len(cmd.left) = 1
    BY <2>1 DEF Current
  <2>3. cmd' = Idle /\ asked' = AlsoNamed /\ damaged' = damaged
    BY <1>4, <2>2 DEF WriteYaml, Ends
  <2> QED
    BY <1>2, <1>3, <1>4, <2>1, <2>2, <2>3
<1>5. CASE cmd.kind = "init"
  <2>1. cmd.left \in {<<RuleFile, ModuleFile, MainFile>>, <<ModuleFile, MainFile>>, <<MainFile>>}
    BY <1>1, <1>5 DEF ControlInv
  <2>2. CASE cmd.left = <<MainFile>>
    <3>1. Current = MainFile /\ Len(cmd.left) = 1
      BY <2>2 DEF Current
    <3>2. cmd' = Idle /\ asked' = Named /\ damaged' = (ClientFiles \ {Current} # {})
      BY <1>5, <3>1 DEF WriteYaml, Ends, Current
    <3> QED
      BY <1>2, <1>3, <1>5, <2>2, <3>1, <3>2
  <2>3. CASE cmd.left = <<ModuleFile, MainFile>>
    <3>1. Current = ModuleFile /\ Len(cmd.left) = 2 /\ Tail(cmd.left) = <<MainFile>>
      BY <2>3 DEF Current
    <3>2. cmd' = [cmd EXCEPT !.left = Tail(@), !.open = FALSE] /\ UNCHANGED <<asked, damaged>>
      BY <3>1 DEF WriteYaml
    <3> QED
      BY <1>2, <1>3, <1>5, <3>1, <3>2, FileTypes
  <2>4. CASE cmd.left = <<RuleFile, ModuleFile, MainFile>>
    <3>1. Current = RuleFile /\ Len(cmd.left) = 3 /\ Tail(cmd.left) = <<ModuleFile, MainFile>>
      BY <2>4 DEF Current
    <3>2. cmd' = [cmd EXCEPT !.left = Tail(@), !.open = FALSE] /\ UNCHANGED <<asked, damaged>>
      BY <3>1 DEF WriteYaml
    <3> QED
      BY <1>2, <1>3, <1>5, <3>1, <3>2, FileTypes
  <2> QED
    BY <2>1, <2>2, <2>3, <2>4
<1> QED
  BY <1>1, <1>4, <1>5 DEF ControlInv

LEMMA NamedTypes ==
  ASSUME TypeInv
  PROVE  /\ Named \in [names : SUBSET ProviderNames, twice : BOOLEAN]
         /\ AlsoNamed \in [names : SUBSET ProviderNames, twice : BOOLEAN]
<1>1. cmd.names \in Seq(ProviderNames)
  BY DEF TypeInv, Command
<1>2. ToSet(cmd.names) \subseteq ProviderNames
  BY <1>1 DEF ToSet
<1>3. Named \in [names : SUBSET ProviderNames, twice : BOOLEAN]
  BY <1>2 DEF Named, IsInjective
<1> QED
  BY <1>3 DEF AlsoNamed, TypeInv


-----------------------------------------------------------------------------
(* The configuration loads.                                                 *)

FilesInv == TypeInv /\ ControlInv /\ ReadyInv

LEMMA InitFiles ==
  ConfigInit => FilesInv
<1> SUFFICES ASSUME ConfigInit PROVE FilesInv
  OBVIOUS
<1>1. yaml \in Workspaces /\ cmd = Idle /\ ran = 0
      /\ damaged = ~(Loads /\ Cardinality(ClientFiles) = 1)
  BY DEF ConfigInit
<1>2. yaml \in [YamlFiles -> Files] /\ \A f \in YamlFiles : yaml[f].groups # <<>> => yaml[f].grouped
  BY <1>1, ConfigAssumption
<1>3. asked \in [names : SUBSET ProviderNames, twice : BOOLEAN]
  <2>1. ASSUME NEW f \in YamlFiles
        PROVE  NamesIn(f) \subseteq ProviderNames
    <3>1. yaml[f].decls \in Seq(Declarations) /\ yaml[f].groups \in Seq(Settings)
      BY <1>2 DEF Files
    <3>2. ASSUME NEW i \in DOMAIN yaml[f].decls
          PROVE  yaml[f].decls[i].name \in ProviderNames
      <4>1. yaml[f].decls[i] \in Declarations
        BY <3>1, Elements
      <4> QED
        BY <4>1 DEF Declarations
    <3>3. ASSUME NEW i \in DOMAIN yaml[f].groups
          PROVE  yaml[f].groups[i].provider \in ProviderNames
      <4>1. yaml[f].groups[i] \in Settings
        BY <3>1, Elements
      <4> QED
        BY <4>1 DEF Settings
    <3> QED
      BY <3>2, <3>3 DEF NamesIn, DeclaredIn, ToSet
  <2>2. asked.names \subseteq ProviderNames /\ asked.twice \in BOOLEAN
    BY <2>1 DEF ConfigInit
  <2>3. asked = [names |-> UNION {NamesIn(f) : f \in YamlFiles},
                 twice |-> \E f \in YamlFiles : ~IsInjective(DeclaredIn(f))]
    BY DEF ConfigInit
  <2> QED
    BY <2>2, <2>3
<1>4. TypeInv
  BY <1>1, <1>2, <1>3, IdleType, ConfigAssumption DEF TypeInv
<1>5. ControlInv
  BY <1>1, IdleType DEF ControlInv
<1>6. ReadyInv
  <2>1. ClientFiles \in SUBSET YamlFiles
    BY DEF ClientFiles
  <2>2. Cardinality(ClientFiles) = 1 => \E f \in YamlFiles : ClientFiles = {f}
    BY <2>1, FilesAreFinite
  <2> QED
    BY <1>1, <2>2 DEF ReadyInv
<1> QED
  BY <1>4, <1>5, <1>6 DEF FilesInv

\* The steps that leave the files alone.
LEMMA UnwrittenStep ==
  ASSUME FilesInv, yaml' = yaml, cmd' \in Command, ran' \in 0 .. MaxCommands, asked' = asked,
         damaged' = damaged, ~cmd'.open, ~WriteBegan, ControlInv',
         cmd'.step = "write" => cmd'.args = <<>> /\ cmd'.left # <<>>
  PROVE  FilesInv'
<1>1. TypeInv'
  BY DEF FilesInv, TypeInv
<1>2. ReadyInv'
  <2>1. Loads' = Loads /\ TestConfigByNode' = TestConfigByNode /\ ClientFiles' = ClientFiles
    BY DEF Loads, TestConfigByNode, ClientFiles
  <2> QED
    BY <2>1 DEF FilesInv, ReadyInv
<1> QED
  BY <1>1, <1>2 DEF FilesInv

\* A command ends, or dies, and has written nothing, or has cut a file short.
LEMMA EndStep ==
  ASSUME FilesInv, cmd' = Idle, yaml' = yaml, ran' \in 0 .. MaxCommands, asked' = asked,
         (damaged' = damaged /\ ~WriteBegan) \/ damaged' = TRUE
  PROVE  FilesInv'
<1>1. TypeInv' /\ ControlInv' /\ ~WriteBegan'
  BY IdleCommand DEF FilesInv, TypeInv
<1>2. Loads' = Loads /\ TestConfigByNode' = TestConfigByNode /\ ClientFiles' = ClientFiles
  BY DEF Loads, TestConfigByNode, ClientFiles
<1>3. ReadyInv'
  BY <1>2 DEF FilesInv, ReadyInv
<1> QED
  BY <1>1, <1>3 DEF FilesInv

LEMMA BeginFiles ==
  ASSUME FilesInv, InstallBegins \/ InitBegins
  PROVE  FilesInv'
<1>1. /\ cmd = Idle /\ ran < MaxCommands /\ ran' = ran + 1
      /\ UNCHANGED <<yaml, asked, damaged>>
  BY DEF InstallBegins, InitBegins, Starts
<1>2. ran' \in 0 .. MaxCommands
  BY <1>1, ConfigAssumption DEF FilesInv, TypeInv
<1>3. ~WriteBegan
  BY <1>1, IdleType DEF WriteBegan, Doing
<1>4. CASE cmd' = Idle
  BY <1>1, <1>2, <1>3, <1>4, EndStep
<1>5. ASSUME cmd' \in Command, cmd'.step = "next", cmd'.kind \in {"install", "init"}, ~cmd'.open,
             cmd'.kind = "install" => Loads
      PROVE  FilesInv'
  <2>1. Loads' = Loads
    BY <1>1 DEF Loads, ClientFiles
  <2>2. ControlInv'
    BY <1>5, <2>1 DEF ControlInv
  <2> QED
    BY <1>1, <1>2, <1>3, <1>5, <2>2, UnwrittenStep
<1>6. CASE InstallBegins /\ cmd' # Idle
  <2>1. PICK c \in Configs, args \in Args :
           cmd' = [Idle EXCEPT !.step = "next", !.kind = "install", !.args = args,
                               !.decls = c.decls, !.groups = c.groups]
    BY <1>6 DEF InstallBegins, Ends
  <2>2. c.decls \in Seq(Declarations) /\ c.groups \in Seq(Settings) /\ Loads
    BY ConfigTypes DEF FilesInv
  <2>3. cmd' \in Command /\ cmd'.step = "next" /\ cmd'.kind = "install" /\ ~cmd'.open
    BY <2>1, <2>2, IdleType, ArgTypes DEF Command
  <2> QED
    BY <1>5, <2>2, <2>3
<1>7. CASE InitBegins /\ cmd' # Idle
  <2>1. PICK args \in Args :
           cmd' = [Idle EXCEPT !.step = "next", !.kind = "init", !.args = args]
    BY <1>7 DEF InitBegins, Ends
  <2>2. cmd' \in Command /\ cmd'.step = "next" /\ cmd'.kind = "init" /\ ~cmd'.open
    BY <2>1, IdleType, ArgTypes DEF Command
  <2> QED
    BY <1>5, <2>2
<1> QED
  BY <1>4, <1>6, <1>7

LEMMA NextProviderFiles ==
  ASSUME FilesInv, NextProvider
  PROVE  FilesInv'
<1>1. cmd.step = "next" /\ cmd.args # <<>> /\ UNCHANGED <<yaml, ran, asked, damaged>>
  BY DEF NextProvider, Doing
<1>2. /\ cmd \in Command /\ ~cmd.open /\ ran \in 0 .. MaxCommands
      /\ cmd.args \in Seq([name : ProviderNames, version : Releases])
      /\ cmd.decls \in Seq(Declarations) /\ cmd.groups \in Seq(Settings)
      /\ cmd.names \in Seq(ProviderNames)
  BY <1>1 DEF FilesInv, TypeInv, Command
<1>3. ~WriteBegan
  BY <1>1 DEF WriteBegan, Doing
<1>4. CASE Ends
  BY <1>1, <1>2, <1>3, <1>4, EndStep DEF Ends
<1>5. ASSUME cmd' \in Command, cmd'.step = "next", cmd'.kind = cmd.kind, ~cmd'.open
      PROVE  FilesInv'
  <2>1. Loads' = Loads
    BY <1>1 DEF Loads, ClientFiles
  <2>2. ControlInv'
    BY <1>1, <1>5, <2>1 DEF FilesInv, ControlInv
  <2> QED
    BY <1>1, <1>2, <1>3, <1>5, <2>2, UnwrittenStep
<1>6. Head(cmd.args) \in [name : ProviderNames, version : Releases]
      /\ Tail(cmd.args) \in Seq([name : ProviderNames, version : Releases])
  <2> DEFINE S == [name : ProviderNames, version : Releases]
  <2>1. cmd.args \in Seq(S)
    BY <1>2
  <2> HIDE DEF S
  <2>2. Head(cmd.args) \in S /\ Tail(cmd.args) \in Seq(S)
    BY <1>1, <2>1
  <2> QED
    BY <2>2 DEF S
<1>7. CASE cmd' = [cmd EXCEPT !.args = Tail(@)]
  BY <1>1, <1>2, <1>5, <1>6, <1>7 DEF Command
<1>8. CASE AppendProvider(Head(cmd.args))
  <2> DEFINE a == Head(cmd.args)
  <2>1. /\ Append(cmd.decls, NewDecl(a)) \in Seq(Declarations)
        /\ Append(cmd.groups, NewGroup(a)) \in Seq(Settings)
        /\ Append(cmd.names, a.name) \in Seq(ProviderNames)
    BY <1>2, <1>6, NewTypes
  <2>2. cmd' = [cmd EXCEPT !.args = Tail(cmd.args), !.decls = Append(cmd.decls, NewDecl(a)),
                           !.groups = Append(cmd.groups, NewGroup(a)),
                           !.names = Append(cmd.names, a.name)]
    BY <1>8 DEF AppendProvider
  <2> HIDE DEF a
  <2> QED
    BY <1>1, <1>2, <1>5, <1>6, <2>1, <2>2 DEF Command
<1> QED
  BY <1>4, <1>7, <1>8 DEF NextProvider

LEMMA BeginToWriteFiles ==
  ASSUME FilesInv, BeginToWrite
  PROVE  FilesInv'
<1>1. PICK t \in Targets : cmd' = [cmd EXCEPT !.step = "write", !.left = t]
  BY DEF BeginToWrite
<1>2. cmd.step = "next" /\ cmd.args = <<>> /\ UNCHANGED <<yaml, ran, asked, damaged>>
  BY DEF BeginToWrite, Doing
<1>3. cmd \in Command /\ ~cmd.open /\ ran \in 0 .. MaxCommands /\ cmd.kind \in {"install", "init"}
  BY <1>2 DEF FilesInv, TypeInv, ControlInv, Command
<1>4. ~WriteBegan
  BY <1>2 DEF WriteBegan, Doing
<1>5. CASE cmd.kind = "install"
  <2>1. PICK f \in ClientFiles : t = <<f>>
    BY <1>1, <1>5 DEF Targets, ConfigPath
  <2>2. f \in YamlFiles
    BY DEF ClientFiles
  <2>3. t \in Seq(YamlFiles) /\ t # <<>>
    BY <2>1, <2>2
  <2>4. cmd' \in Command /\ ~cmd'.open /\ cmd'.step = "write" /\ cmd'.kind = "install"
        /\ cmd'.left = <<f>> /\ cmd'.args = <<>>
    BY <1>1, <1>2, <1>3, <1>5, <2>1, <2>3 DEF Command
  <2>5. ~damaged' => ClientFiles' = {f}
    <3>1. ~damaged => \E g \in YamlFiles : ClientFiles = {g}
      BY <1>4 DEF FilesInv, ReadyInv
    <3>2. ClientFiles' = ClientFiles /\ damaged' = damaged
      BY <1>2 DEF ClientFiles
    <3> QED
      BY <2>1, <3>1, <3>2
  <2>6. ControlInv'
    BY <2>2, <2>4, <2>5 DEF ControlInv
  <2> QED
    BY <1>2, <1>3, <1>4, <2>1, <2>3, <2>4, <2>6, UnwrittenStep
<1>6. CASE cmd.kind = "init"
  <2>1. t = <<RuleFile, ModuleFile, MainFile>>
    BY <1>1, <1>6 DEF Targets
  <2>2. t \in Seq(YamlFiles) /\ t # <<>>
    BY <2>1, FileTypes
  <2>3. cmd' \in Command /\ ~cmd'.open /\ cmd'.step = "write" /\ cmd'.kind = "init"
        /\ cmd'.left = t /\ cmd'.args = <<>>
    BY <1>1, <1>2, <1>3, <1>6, <2>2 DEF Command
  <2>4. ControlInv'
    BY <2>1, <2>3 DEF ControlInv
  <2> QED
    BY <1>2, <1>3, <1>4, <2>2, <2>3, <2>4, UnwrittenStep
<1> QED
  BY <1>3, <1>5, <1>6


LEMMA OpenYamlFiles ==
  ASSUME FilesInv, OpenYaml
  PROVE  FilesInv'
<1>1. /\ cmd.step = "write" /\ ~cmd.open /\ yaml' = [yaml EXCEPT ![Current] = Blank]
      /\ cmd' = [cmd EXCEPT !.open = TRUE] /\ UNCHANGED <<ran, asked, damaged>>
  BY DEF OpenYaml, Doing, Current
<1>2. cmd \in Command /\ cmd.left # <<>> /\ cmd.args = <<>>
  BY <1>1 DEF FilesInv, TypeInv
<1>3. Current \in YamlFiles
  BY <1>2 DEF Current, Command
<1>4. /\ cmd' \in Command /\ cmd'.step = "write" /\ cmd'.open /\ cmd'.left = cmd.left
      /\ cmd'.args = cmd.args /\ cmd'.kind = cmd.kind
  BY <1>1, <1>2 DEF Command
<1>5. /\ yaml' \in [YamlFiles -> Files] /\ yaml'[Current] = Blank
      /\ \A g \in YamlFiles \ {Current} : yaml'[g] = yaml[g]
      /\ ClientFiles' = ClientFiles \ {Current}
  BY <1>1, <1>3, FileReplaced, FileTypes DEF FilesInv, TypeInv
<1>6. TypeInv'
  <2>1. \A f \in YamlFiles : yaml'[f].groups # <<>> => yaml'[f].grouped
    BY <1>5, FileTypes DEF FilesInv, TypeInv
  <2>2. yaml'[Head(cmd'.left)] = Blank
    BY <1>4, <1>5 DEF Current
  <2> QED
    BY <1>1, <1>2, <1>4, <1>5, <2>1, <2>2 DEF FilesInv, TypeInv
<1>7. ControlInv'
  <2>1. ASSUME cmd.kind = "install"
        PROVE  \E f \in YamlFiles : cmd.left = <<f>> /\ (~damaged => ClientFiles' = {})
    <3>1. PICK f \in YamlFiles : cmd.left = <<f>> /\ (~damaged => ClientFiles = {f})
      BY <1>1, <2>1 DEF FilesInv, ControlInv
    <3>2. Current = f
      BY <3>1 DEF Current
    <3> QED
      BY <1>5, <3>1, <3>2
  <2> QED
    BY <1>1, <1>4, <2>1 DEF FilesInv, ControlInv
<1>8. WriteBegan'
  BY <1>4 DEF WriteBegan, Doing
<1> QED
  BY <1>6, <1>7, <1>8 DEF FilesInv, ReadyInv

LEMMA WriteYamlFiles ==
  ASSUME FilesInv, WriteYaml
  PROVE  FilesInv'
<1>1. TypeInv /\ ControlInv
  BY DEF FilesInv
<1>2. /\ Current \in YamlFiles /\ yaml[Current] = Blank
      /\ \E keys \in KeysOf(cmd.kind) : yaml' = [yaml EXCEPT ![Current] = Content(Current, keys)]
  BY <1>1, FileWritten
<1>keys. PICK keys \in KeysOf(cmd.kind) : yaml' = [yaml EXCEPT ![Current] = Content(Current, keys)]
  BY <1>2
<1>3. cmd \in Command /\ cmd.step = "write" /\ cmd.args = <<>> /\ ran' = ran
  BY <1>1 DEF WriteYaml, Doing, TypeInv
<1>4. Content(Current, keys) \in Files /\ (Content(Current, keys).groups # <<>> => Content(Current, keys).grouped)
  BY <1>1, <1>2, ContentType
<1>5. /\ yaml' \in [YamlFiles -> Files] /\ yaml'[Current] = Content(Current, keys)
      /\ \A g \in YamlFiles \ {Current} : yaml'[g] = yaml[g]
      /\ ClientFiles' = (ClientFiles \ {Current})
                        \cup (IF Content(Current, keys).keys # {} THEN {Current} ELSE {})
  BY <1>1, <1>2, <1>keys, <1>4, FileReplaced DEF TypeInv
<1>6. \A f \in YamlFiles : yaml'[f].groups # <<>> => yaml'[f].grouped
  BY <1>1, <1>4, <1>5 DEF TypeInv
<1>7. CASE /\ cmd' = [cmd EXCEPT !.left = Tail(@), !.open = FALSE]
           /\ cmd.kind = "init" /\ Len(cmd.left) \in {2, 3}
           /\ Tail(cmd.left) \in {<<ModuleFile, MainFile>>, <<MainFile>>}
           /\ UNCHANGED <<asked, damaged>>
  <2>1. Tail(cmd.left) \in Seq(YamlFiles) /\ Tail(cmd.left) # <<>> /\ Len(Tail(cmd.left)) < 3
    <3>1. \A t \in {<<ModuleFile, MainFile>>, <<MainFile>>} :
             t \in Seq(YamlFiles) /\ t # <<>> /\ Len(t) < 3
      <4>1. /\ <<ModuleFile, MainFile>> \in Seq(YamlFiles) /\ <<ModuleFile, MainFile>> # <<>>
            /\ Len(<<ModuleFile, MainFile>>) < 3
        BY FileTypes
      <4>2. <<MainFile>> \in Seq(YamlFiles) /\ <<MainFile>> # <<>> /\ Len(<<MainFile>>) < 3
        BY FileTypes
      <4> QED
        BY <4>1, <4>2, Zenon
    <3> QED
      BY <1>7, <3>1, Zenon
  <2>2. /\ cmd' \in Command /\ cmd'.step = "write" /\ ~cmd'.open /\ cmd'.left = Tail(cmd.left)
        /\ cmd'.args = <<>> /\ cmd'.kind = "init"
    BY <1>3, <1>7, <2>1 DEF Command
  <2>3. TypeInv'
    BY <1>1, <1>3, <1>5, <1>6, <1>7, <2>1, <2>2 DEF TypeInv
  <2>4. ControlInv'
    BY <1>7, <2>2 DEF ControlInv
  <2>5. WriteBegan'
    BY <2>1, <2>2 DEF WriteBegan, Doing
  <2> QED
    BY <2>3, <2>4, <2>5 DEF FilesInv, ReadyInv
<1>8. CASE /\ cmd' = Idle /\ cmd.left = <<Current>> /\ ~(cmd.kind = "init" /\ Current # MainFile)
           /\ asked' \in {AlsoNamed, Named} /\ damaged' \in BOOLEAN
           /\ ~damaged' => ClientFiles \ {Current} = {}
  <2>1. TypeInv'
    <3>1. asked' \in [names : SUBSET ProviderNames, twice : BOOLEAN]
      BY <1>1, <1>8, NamedTypes
    <3>2. ran' \in 0 .. MaxCommands
      BY <1>1, <1>3 DEF TypeInv
    <3> QED
      BY <1>5, <1>6, <1>8, <3>1, <3>2, IdleType DEF TypeInv
  <2>2. ControlInv'
    BY <1>8, IdleType DEF ControlInv
  <2>3. ASSUME ~damaged'
        PROVE  Loads' /\ TestConfigByNode' /\ \E f \in YamlFiles : ClientFiles' = {f}
    <3>1. /\ Content(Current, keys).keys = keys /\ Content(Current, keys).grouped
      BY <1>1, <1>2, <1>8, ContentType
    <3>2. ClientFiles' = {Current}
      BY <1>5, <1>8, <2>3, <3>1, KeyTypes
    <3>3. Loads'
      BY <1>2, <1>5, <3>1, <3>2 DEF Loads
    <3>4. TestConfigByNode'
      BY <1>5, <3>1, <3>2, KeyTypes DEF TestConfigByNode
    <3> QED
      BY <1>2, <3>2, <3>3, <3>4
  <2> QED
    BY <2>1, <2>2, <2>3 DEF FilesInv, ReadyInv
<1>9. ASSUME cmd.kind = "install"
      PROVE  ~damaged => ClientFiles = {}
  BY <1>1, <1>3, <1>9 DEF WriteYaml, ControlInv
<1> QED
  <2>1. CASE cmd' = Idle /\ cmd.left = <<Current>> /\ cmd.kind = "install"
             /\ asked' = AlsoNamed /\ damaged' = damaged
    BY <1>1, <1>8, <1>9, <2>1 DEF TypeInv
  <2>2. CASE cmd' = Idle /\ cmd.left = <<Current>> /\ cmd.kind = "init" /\ Current = MainFile
             /\ asked' = Named /\ damaged' = (ClientFiles \ {Current} # {})
    BY <1>8, <2>2
  <2> QED
    BY <1>1, <1>7, <2>1, <2>2, FileWritten

LEMMA FilesInvariant ==
  ConfigSpec => []FilesInv
<1>1. FilesInv /\ [ConfigNext]_configVars => FilesInv'
  <2> SUFFICES ASSUME FilesInv, [ConfigNext]_configVars PROVE FilesInv'
    OBVIOUS
  <2>1. CASE InstallBegins \/ InitBegins
    BY <2>1, BeginFiles
  <2>2. CASE WriteFails
    BY <2>2, EndStep DEF WriteFails, Ends, FilesInv, TypeInv
  <2>3. CASE CommandCrashes
    <3>1. damaged' = (damaged \/ WriteBegan) /\ damaged \in BOOLEAN
      BY <2>3 DEF CommandCrashes, FilesInv, TypeInv
    <3>2. (damaged' = damaged /\ ~WriteBegan) \/ damaged' = TRUE
      BY <3>1
    <3> QED
      BY <2>3, <3>2, EndStep DEF CommandCrashes, Ends, FilesInv, TypeInv
  <2>4. CASE UNCHANGED configVars
    <3>1. yaml' = yaml /\ cmd' = cmd /\ ran' = ran /\ asked' = asked /\ damaged' = damaged
      BY <2>4 DEF configVars
    <3>2. /\ ClientFiles' = ClientFiles /\ Loads' = Loads /\ WriteBegan' = WriteBegan
          /\ TestConfigByNode' = TestConfigByNode
      BY <3>1 DEF ClientFiles, Loads, WriteBegan, Doing, TestConfigByNode
    <3>3. TypeInv' /\ ControlInv' /\ ReadyInv'
      BY <3>1, <3>2 DEF FilesInv, TypeInv, ControlInv, ReadyInv
    <3> QED
      BY <3>3 DEF FilesInv
  <2> QED
    BY <2>1, <2>2, <2>3, <2>4, NextProviderFiles, BeginToWriteFiles, OpenYamlFiles, WriteYamlFiles
       DEF ConfigNext
<1> QED
  BY <1>1, InitFiles, PTL DEF ConfigSpec

(* Every file and the command have their types; a file that a command has  *)
(* open is empty.                                                          *)
THEOREM ConfigTypeCorrect == ConfigSpec => []ConfigTypeOK
<1>1. FilesInv => ConfigTypeOK
  <2> SUFFICES ASSUME FilesInv PROVE ConfigTypeOK
    OBVIOUS
  <2>1. TypeInv
    BY DEF FilesInv
  <2>2. ASSUME NEW f \in YamlFiles
        PROVE  /\ yaml[f].keys \subseteq RequiredKeys \cup OptionalKeys \cup {"typo"}
               /\ \A i \in DOMAIN yaml[f].decls : yaml[f].decls[i].name \in ProviderNames
    <3>1. yaml[f].keys \in SUBSET AllKeys /\ yaml[f].decls \in Seq(Declarations)
      BY <2>1 DEF TypeInv, Files
    <3>2. ASSUME NEW i \in DOMAIN yaml[f].decls
          PROVE  yaml[f].decls[i].name \in ProviderNames
      <4>1. yaml[f].decls[i] \in Declarations
        BY <3>1, Elements
      <4> QED
        BY <4>1 DEF Declarations
    <3> QED
      BY <3>1, <3>2 DEF AllKeys
  <2> QED
    BY <2>1, <2>2 DEF TypeInv, ConfigTypeOK, Command
<1> QED
  BY <1>1, FilesInvariant, PTL

(* A workspace that had a readable configuration, with its `selefra`        *)
(* section in one file, has one after any install or init, and what they    *)
(* wrote passes the check of the keys, unless the writing was cut short or  *)
(* an init left a second configuration.                                     *)
THEOREM ConfigurationLoads == ConfigSpec => []ConfigLoads
<1>1. FilesInv => ConfigLoads
  BY IdleType DEF FilesInv, ReadyInv, ConfigLoads, WriteBegan, Doing
<1> QED
  BY <1>1, FilesInvariant, PTL

-----------------------------------------------------------------------------
(* The jobs of a configuration.                                             *)

\* Declarations and groups without a second one of a kind, of providers of `names`.
Clean(decls, groups, names) ==
    /\ PlainDecls(decls)
    /\ \A i \in DOMAIN decls : decls[i].name \in names
    /\ \A i, h \in DOMAIN decls : decls[i].name = decls[h].name => i = h
    /\ \A j \in DOMAIN groups : groups[j].provider \in names
    /\ IsInjective(groups)

JobRecords == {JobOf(d, g) : d \in Declarations, g \in Settings}

LEMMA JobsOfType ==
  ASSUME NEW d \in Declarations, NEW groups \in Seq(Settings)
  PROVE  /\ JobsOf(d, groups) \in Seq(JobRecords)
         /\ \A k \in DOMAIN JobsOf(d, groups) : \E j \in DOMAIN groups :
               JobsOf(d, groups)[k] = JobOf(d, groups[j])
         /\ IsInjective(groups) => IsInjective(JobsOf(d, groups))
<1> DEFINE t == [j \in DOMAIN groups |->
                    IF groups[j].provider = d.name THEN <<JobOf(d, groups[j])>> ELSE <<>>]
<1>1. JobsOf(d, groups) = FlattenSeq(t)
  BY DEF JobsOf
<1>2. ASSUME NEW j \in DOMAIN groups
      PROVE  /\ t[j] \in Seq(JobRecords) /\ DOMAIN t[j] \subseteq {1}
             /\ \A k \in DOMAIN t[j] : t[j][k] = JobOf(d, groups[j]) /\ groups[j].provider = d.name
  <2>1. groups[j] \in Settings
    BY Elements
  <2>2. JobOf(d, groups[j]) \in JobRecords
    BY <2>1 DEF JobRecords
  <2>3. ASSUME NEW x \in JobRecords
        PROVE  <<x>> \in Seq(JobRecords) /\ DOMAIN <<x>> = {1} /\ <<x>>[1] = x
    OBVIOUS
  <2>4. <<>> \in Seq(JobRecords) /\ DOMAIN <<>> = {}
    OBVIOUS
  <2>5. CASE groups[j].provider = d.name
    <3>1. t[j] = <<JobOf(d, groups[j])>>
      BY <2>5
    <3> HIDE DEF t
    <3> QED
      BY <2>2, <2>3, <2>5, <3>1
  <2>6. CASE groups[j].provider # d.name
    <3>1. t[j] = <<>>
      BY <2>6
    <3> HIDE DEF t
    <3> QED
      BY <2>4, <3>1
  <2> QED
    BY <2>5, <2>6
<1>3. Len(groups) \in Nat /\ DOMAIN groups = 1 .. Len(groups) /\ DOMAIN t = DOMAIN groups
      /\ t = [j \in 1 .. Len(groups) |-> t[j]]
  OBVIOUS
<1> HIDE DEF t
<1>4. t \in Seq(Seq(JobRecords))
  <2>1. \A j \in 1 .. Len(groups) : t[j] \in Seq(JobRecords)
    BY <1>2, <1>3
  <2>2. t \in [1 .. Len(groups) -> Seq(JobRecords)]
    BY <1>3, <2>1
  <2> QED
    BY <1>3, <2>2
<1>5. ASSUME NEW k \in DOMAIN FlattenSeq(t)
      PROVE  \E j \in DOMAIN groups : FlattenSeq(t)[k] = JobOf(d, groups[j])
  <2>1. PICK j \in 1 .. Len(t) : \E h \in DOMAIN t[j] : FlattenSeq(t)[k] = t[j][h]
    BY <1>4, FlattenElements DEF Holds
  <2>2. j \in DOMAIN groups
    BY <1>3, <1>4, <2>1
  <2> QED
    BY <1>2, <2>1, <2>2
<1>6. ASSUME IsInjective(groups)
      PROVE  NoRepeats(t)
  <2>1. ASSUME NEW j \in DOMAIN t
        PROVE  IsInjective(t[j])
    BY <1>2, <1>3 DEF IsInjective
  <2>2. ASSUME NEW j \in DOMAIN t, NEW h \in DOMAIN t, NEW k \in DOMAIN t[j], NEW l \in DOMAIN t[h],
               t[j][k] = t[h][l]
        PROVE  j = h
    <3>1. /\ groups[j].provider = groups[h].provider
          /\ JobOf(d, groups[j]) = JobOf(d, groups[h])
      BY <1>2, <1>3, <2>2
    <3>2. groups[j].name = groups[h].name
      BY <3>1 DEF JobOf
    <3>3. groups[j] \in Settings /\ groups[h] \in Settings
      BY <1>3, Elements
    <3>4. groups[j] = groups[h]
      BY <3>1, <3>2, <3>3 DEF Settings
    <3> QED
      BY <1>3, <1>6, <3>4 DEF IsInjective
  <2> QED
    BY <2>1, <2>2 DEF NoRepeats
<1> QED
  BY <1>1, <1>4, <1>5, <1>6, FlattenElements

LEMMA CleanJobs ==
  ASSUME NEW c, NEW names, c.decls \in Seq(Declarations), c.groups \in Seq(Settings),
         Clean(c.decls, c.groups, names)
  PROVE  IsInjective(Jobs(c))
<1> DEFINE decls == c.decls
           t == [i \in DOMAIN decls |-> JobsOf(decls[i], c.groups)]
<1>1. Jobs(c) = FlattenSeq(t)
  BY DEF Jobs
<1>2. Len(decls) \in Nat /\ DOMAIN decls = 1 .. Len(decls) /\ DOMAIN t = DOMAIN decls
      /\ t = [i \in 1 .. Len(decls) |-> t[i]]
  OBVIOUS
<1>3. ASSUME NEW i \in DOMAIN decls
      PROVE  decls[i] \in Declarations /\ t[i] = JobsOf(decls[i], c.groups)
  <2>1. decls \in Seq(Declarations)
    OBVIOUS
  <2>2. t[i] = JobsOf(decls[i], c.groups)
    OBVIOUS
  <2> HIDE DEF decls
  <2>3. decls[i] \in Declarations
    BY <2>1, Elements
  <2> QED
    BY <2>2, <2>3
<1> HIDE DEF t
<1>4. \A i \in DOMAIN decls : t[i] \in Seq(JobRecords) /\ IsInjective(t[i])
  BY <1>3, JobsOfType DEF Clean
<1>5. t \in Seq(Seq(JobRecords))
  <2>1. \A i \in 1 .. Len(decls) : t[i] \in Seq(JobRecords)
    BY <1>2, <1>4
  <2>2. t \in [1 .. Len(decls) -> Seq(JobRecords)]
    BY <1>2, <2>1
  <2> QED
    BY <1>2, <2>2
<1>6. ASSUME NEW i \in DOMAIN t, NEW h \in DOMAIN t, NEW j \in DOMAIN t[i], NEW k \in DOMAIN t[h],
             t[i][j] = t[h][k]
      PROVE  i = h
  <2>1. /\ decls[i] \in Declarations /\ t[i] = JobsOf(decls[i], c.groups)
        /\ decls[h] \in Declarations /\ t[h] = JobsOf(decls[h], c.groups)
    BY <1>2, <1>3
  <2>2. PICK a : t[i][j] = JobOf(decls[i], a)
    BY <2>1, JobsOfType
  <2>3. PICK b : t[h][k] = JobOf(decls[h], b)
    BY <2>1, JobsOfType
  <2>4. decls[i].name = decls[h].name
    <3>1. JobOf(decls[i], a) = JobOf(decls[h], b)
      BY <1>6, <2>2, <2>3
    <3>2. JobOf(decls[i], a).decl = decls[i].name /\ JobOf(decls[h], b).decl = decls[h].name
      BY DEF JobOf
    <3> QED
      BY <3>1, <3>2
  <2> QED
    BY <1>2, <2>4 DEF Clean
<1>7. NoRepeats(t)
  BY <1>2, <1>4, <1>6 DEF NoRepeats
<1> QED
  BY <1>1, <1>5, <1>7, FlattenElements

\* The other files have no settings.
OnlyIn(f) == \A g \in YamlFiles \ {f} : yaml[g].groups = <<>>

LEMMA ReadGroups ==
  ASSUME TypeInv, NEW f \in YamlFiles, OnlyIn(f),
         NEW g \in Merged({h \in YamlFiles : yaml[h].groups # <<>>})
  PROVE  g = yaml[f].groups
<1> DEFINE files == {h \in YamlFiles : yaml[h].groups # <<>>}
<1>1. PICK s \in SetToSeqs(files) : g = FlattenSeq([i \in DOMAIN s |-> yaml[s[i]].groups])
  BY DEF Merged
<1>2. s \in [1 .. Cardinality(files) -> files]
  BY DEF SetToSeqs
<1> DEFINE t == [i \in DOMAIN s |-> yaml[s[i]].groups]
<1>3. CASE yaml[f].groups = <<>>
  <2>1. files = {}
    BY <1>3 DEF OnlyIn
  <2> HIDE DEF files
  <2>2. DOMAIN s = 1 .. 0
    BY <1>2, <2>1, FS_EmptySet
  <2>3. t = <<>>
    BY <2>2
  <2> HIDE DEF t
  <2>4. FlattenSeq(t) = <<>>
    BY <2>3 DEF FlattenSeq
  <2> QED
    BY <1>1, <1>3, <2>4 DEF t
<1>4. CASE yaml[f].groups # <<>>
  <2>1. files = {f}
    BY <1>4 DEF OnlyIn
  <2> HIDE DEF files
  <2>2. Cardinality(files) = 1
    BY <2>1, FS_Singleton
  <2>3. DOMAIN s = 1 .. 1 /\ s[1] = f
    <3>1. s \in [1 .. 1 -> {f}]
      BY <1>2, <2>1, <2>2
    <3> QED
      BY <3>1
  <2>4. t = [i \in 1 .. 1 |-> yaml[s[i]].groups]
    BY <2>3
  <2>5. Len(t) = 1 /\ t[1] = yaml[f].groups
    BY <2>3, <2>4
  <2> HIDE DEF t
  <2>6. PICK h : Fits(h, t, 1) /\ FlattenSeq(t) = h[1]
    <3>1. Len(t) \in Nat \ {0}
      BY <2>5
    <3>2. \E h : Fits(h, t, Len(t)) /\ FlattenSeq(t) = h[Len(t)]
      BY <3>1, FlattenFits
    <3> QED
      BY <2>5, <3>2
  <2>7. h[1] = t[1]
    BY <2>6, FitsAt
  <2> QED
    BY <1>1, <2>5, <2>6, <2>7 DEF t
<1> QED
  BY <1>3, <1>4

-----------------------------------------------------------------------------
(* No two jobs with one schema.                                             *)

\* What the configuration lists when the command is done, and the file that it
\* will write last if it is an install.
Asking == IF cmd.kind = "init" THEN Named ELSE AlsoNamed
Goal   == IF cmd.step = "write" THEN {Current} ELSE ClientFiles

PlainInv == PlainDecls(cmd.decls) /\ \A f \in YamlFiles : PlainDecls(yaml[f].decls)

\* The configuration in the files is clean unless a command writes them.
NowInv ==
    ~damaged /\ ~WriteBegan /\ ~asked.twice =>
        \A c \in ClientFiles : \A f \in YamlFiles :
            OnlyIn(f) => Clean(yaml[c].decls, yaml[f].groups, asked.names)

\* The one in the memory of a command is, if it will be the only one; and it has
\* settings, or will have some.
CommandInv ==
    cmd.kind # "none" =>
        /\ cmd.args # <<>> \/ cmd.groups # <<>>
        /\ ~Asking.twice /\ (cmd.kind = "install" => ~damaged /\ \E f \in Goal : OnlyIn(f))
           => Clean(cmd.decls, cmd.groups, Asking.names)

JobsInv == FilesInv /\ PlainInv /\ NowInv /\ CommandInv

LEMMA CleanMore ==
  ASSUME NEW decls, NEW groups, NEW names, NEW more, names \subseteq more,
         Clean(decls, groups, names)
  PROVE  Clean(decls, groups, more)
BY DEF Clean

LEMMA CleanEmpty ==
  ASSUME NEW names
  PROVE  PlainDecls(<<>>) /\ Clean(<<>>, <<>>, names)
BY DEF Clean, PlainDecls, IsInjective

\* A provider that is new adds a declaration and settings that are.
LEMMA CleanAppend ==
  ASSUME NEW decls \in Seq(Declarations), NEW groups \in Seq(Settings), NEW names, NEW more,
         NEW a \in [name : ProviderNames, version : Releases],
         names \subseteq more, a.name \notin names, a.name \in more, Clean(decls, groups, names)
  PROVE  Clean(Append(decls, NewDecl(a)), Append(groups, NewGroup(a)), more)
<1> DEFINE D == Append(decls, NewDecl(a))
           G == Append(groups, NewGroup(a))
<1>1. /\ Len(decls) \in Nat /\ DOMAIN decls = 1 .. Len(decls) /\ DOMAIN D = 1 .. Len(decls) + 1
      /\ D[Len(decls) + 1] = NewDecl(a) /\ \A i \in DOMAIN decls : D[i] = decls[i]
  BY NewTypes
<1>2. /\ Len(groups) \in Nat /\ DOMAIN groups = 1 .. Len(groups) /\ DOMAIN G = 1 .. Len(groups) + 1
      /\ G[Len(groups) + 1] = NewGroup(a) /\ \A i \in DOMAIN groups : G[i] = groups[i]
  BY NewTypes
<1>3. /\ NewDecl(a).name = a.name /\ Len(NewDecl(a).source) >= 2
      /\ NewGroup(a).provider = a.name
  BY DEF NewDecl, NewGroup
<1> HIDE DEF D, G
<1>4. PlainDecls(D)
  BY <1>1, <1>3 DEF Clean, PlainDecls
<1>5. \A i \in DOMAIN D : D[i].name \in more
  BY <1>1, <1>3 DEF Clean
<1>6. \A i, h \in DOMAIN D : D[i].name = D[h].name => i = h
  BY <1>1, <1>3 DEF Clean
<1>7. \A j \in DOMAIN G : G[j].provider \in more
  BY <1>2, <1>3 DEF Clean
<1>8. IsInjective(G)
  BY <1>2, <1>3 DEF Clean, IsInjective
<1>9. Clean(D, G, more)
  BY <1>4, <1>5, <1>6, <1>7, <1>8 DEF Clean
<1> QED
  BY <1>9 DEF D, G

\* The command goes on with the provider n.
LEMMA AskingGrows ==
  ASSUME TypeInv, NEW n \in ProviderNames, cmd'.names = Append(cmd.names, n),
         cmd'.kind = cmd.kind, asked' = asked, ~Asking'.twice
  PROVE  /\ ~Asking.twice /\ n \notin Asking.names
         /\ Asking.names \subseteq Asking'.names /\ n \in Asking'.names
<1> DEFINE names == cmd.names
           more  == Append(names, n)
<1>1. names \in Seq(ProviderNames)
  BY DEF TypeInv, Command
<1> HIDE DEF names
<1>2. /\ Len(names) \in Nat /\ DOMAIN names = 1 .. Len(names) /\ DOMAIN more = 1 .. Len(names) + 1
      /\ more[Len(names) + 1] = n /\ \A i \in DOMAIN names : more[i] = names[i]
  BY <1>1
<1> HIDE DEF more
<1>3. ToSet(more) = ToSet(names) \cup {n}
  BY <1>2 DEF ToSet
<1>4. IsInjective(more) => IsInjective(names) /\ n \notin ToSet(names)
  BY <1>2 DEF IsInjective, ToSet
<1>5. /\ Named.names = ToSet(names) /\ Named.twice = ~IsInjective(names)
      /\ Named'.names = ToSet(more) /\ Named'.twice = ~IsInjective(more)
  BY DEF Named, names, more
<1>6. CASE cmd.kind = "init"
  BY <1>3, <1>4, <1>5, <1>6 DEF Asking
<1>7. CASE cmd.kind # "init"
  <2>1. Asking = AlsoNamed /\ Asking' = AlsoNamed'
    BY <1>7 DEF Asking
  <2>2. /\ AlsoNamed.names = asked.names \cup Named.names
        /\ AlsoNamed.twice = (asked.twice \/ Named.twice \/ asked.names \cap Named.names # {})
        /\ AlsoNamed'.names = asked.names \cup Named'.names
        /\ AlsoNamed'.twice = (asked.twice \/ Named'.twice \/ asked.names \cap Named'.names # {})
    BY DEF AlsoNamed
  <2>3. asked.twice \in BOOLEAN
    BY DEF TypeInv
  <2>4. ~Named'.twice /\ ~asked.twice /\ asked.names \cap Named'.names = {}
    BY <2>1, <2>2
  <2>5. ~Named.twice /\ n \notin Named.names /\ Named'.names = Named.names \cup {n}
    BY <1>3, <1>4, <1>5, <2>4
  <2>6. n \notin asked.names /\ asked.names \cap Named.names = {}
    BY <2>4, <2>5
  <2> QED
    BY <2>1, <2>2, <2>4, <2>5, <2>6
<1> QED
  BY <1>6, <1>7

LEMMA SameAsking ==
  ASSUME cmd'.names = cmd.names, cmd'.kind = cmd.kind, asked' = asked
  PROVE  Asking' = Asking
<1>1. Named' = Named
  BY DEF Named
<1>2. AlsoNamed' = AlsoNamed
  BY <1>1 DEF AlsoNamed
<1> QED
  BY <1>1, <1>2 DEF Asking

\* Steps that leave the files alone.
LEMMA SameNow ==
  ASSUME NowInv, PlainInv, yaml' = yaml, asked' = asked,
         (damaged' = damaged /\ ~WriteBegan) \/ damaged' = TRUE, PlainDecls(cmd'.decls)
  PROVE  NowInv' /\ PlainInv' /\ ClientFiles' = ClientFiles /\ \A f : OnlyIn(f)' = OnlyIn(f)
<1>1. ClientFiles' = ClientFiles /\ \A f : OnlyIn(f)' = OnlyIn(f)
  BY DEF ClientFiles, OnlyIn
<1>2. NowInv'
  <2> SUFFICES ASSUME ~damaged', ~asked'.twice, NEW c \in ClientFiles', NEW f \in YamlFiles, OnlyIn(f)'
               PROVE  Clean(yaml'[c].decls, yaml'[f].groups, asked'.names)
    BY DEF NowInv
  <2> QED
    BY <1>1 DEF NowInv
<1> QED
  BY <1>1, <1>2 DEF PlainInv

LEMMA EndJobs ==
  ASSUME JobsInv, FilesInv', cmd' = Idle, yaml' = yaml, asked' = asked,
         (damaged' = damaged /\ ~WriteBegan) \/ damaged' = TRUE
  PROVE  JobsInv'
<1>1. PlainDecls(cmd'.decls) /\ cmd'.kind = "none"
  BY IdleType, CleanEmpty
<1>2. CommandInv'
  BY <1>1 DEF CommandInv
<1> QED
  BY <1>1, <1>2, SameNow DEF JobsInv

LEMMA InitJobs ==
  ConfigInit => JobsInv
<1> SUFFICES ASSUME ConfigInit PROVE JobsInv
  OBVIOUS
<1>1. /\ FilesInv /\ yaml \in Workspaces /\ cmd = Idle
      /\ asked.names = UNION {NamesIn(f) : f \in YamlFiles}
      /\ asked.twice = (\E f \in YamlFiles : ~IsInjective(DeclaredIn(f)))
  BY InitFiles DEF ConfigInit
<1>2. \A f \in YamlFiles : PlainDecls(yaml[f].decls) /\ IsInjective(yaml[f].groups)
  BY <1>1, PlainAssumption
<1>3. PlainInv
  BY <1>1, <1>2, IdleType, CleanEmpty DEF PlainInv
<1>4. CommandInv
  BY <1>1, IdleType DEF CommandInv
<1>5. ASSUME ~asked.twice, NEW c \in YamlFiles, NEW f \in YamlFiles
      PROVE  Clean(yaml[c].decls, yaml[f].groups, asked.names)
  <2>1. \A i \in DOMAIN yaml[c].decls : yaml[c].decls[i].name \in asked.names
    BY <1>1 DEF NamesIn, DeclaredIn, ToSet
  <2>2. \A i, h \in DOMAIN yaml[c].decls : yaml[c].decls[i].name = yaml[c].decls[h].name => i = h
    BY <1>1, <1>5 DEF DeclaredIn, IsInjective
  <2>3. \A j \in DOMAIN yaml[f].groups : yaml[f].groups[j].provider \in asked.names
    BY <1>1 DEF NamesIn, ToSet
  <2> QED
    BY <1>2, <2>1, <2>2, <2>3 DEF Clean
<1>6. NowInv
  BY <1>5 DEF NowInv, ClientFiles
<1> QED
  BY <1>1, <1>3, <1>4, <1>6 DEF JobsInv

LEMMA BeginJobs ==
  ASSUME JobsInv, FilesInv', InstallBegins \/ InitBegins
  PROVE  JobsInv'
<1>1. cmd = Idle /\ UNCHANGED <<yaml, asked, damaged>>
  BY DEF InstallBegins, InitBegins, Starts
<1>2. ~WriteBegan
  BY <1>1, IdleType DEF WriteBegan, Doing
<1>3. TypeInv /\ PlainInv /\ NowInv /\ asked.twice \in BOOLEAN
  BY DEF JobsInv, FilesInv, TypeInv
<1>4. CASE cmd' = Idle
  BY <1>1, <1>2, <1>4, EndJobs
<1>5. CASE InstallBegins /\ cmd' # Idle
  <2>1. PICK c \in Configs, args \in Args :
           cmd' = [Idle EXCEPT !.step = "next", !.kind = "install", !.args = args,
                               !.decls = c.decls, !.groups = c.groups]
    BY <1>5 DEF InstallBegins, Ends
  <2>2. /\ cmd'.step = "next" /\ cmd'.kind = "install" /\ cmd'.args # <<>>
        /\ cmd'.decls = c.decls /\ cmd'.groups = c.groups
    BY <2>1, ArgTypes DEF Idle
  <2>3. /\ \E h \in ClientFiles : c.decls = yaml[h].decls
        /\ \A h : ClientFiles = {h} => c.decls = yaml[h].decls
    BY <1>3, ConfigTypes
  <2>4. c.groups \in Merged({h \in YamlFiles : yaml[h].groups # <<>>})
    BY <1>3, ConfigTypes
  <2>5. PlainDecls(cmd'.decls)
    BY <1>3, <2>2, <2>3 DEF PlainInv, ClientFiles
  <2>6. NowInv' /\ PlainInv' /\ ClientFiles' = ClientFiles /\ \A h : OnlyIn(h)' = OnlyIn(h)
    BY <1>1, <1>2, <1>3, <2>5, SameNow
  <2>7. ASSUME ~Asking'.twice, ~damaged', \E h \in Goal' : OnlyIn(h)'
        PROVE  Clean(cmd'.decls, cmd'.groups, Asking'.names)
    <3>1. PICK f \in YamlFiles : ClientFiles = {f} /\ OnlyIn(f) /\ c.decls = yaml[f].decls
      <4>1. PICK f \in YamlFiles : ClientFiles = {f}
        BY <1>1, <1>2, <2>7 DEF JobsInv, FilesInv, ReadyInv
      <4> QED
        BY <2>2, <2>3, <2>6, <2>7, <4>1 DEF Goal
    <3>2. ~asked.twice /\ asked.names \subseteq Asking'.names
      BY <1>1, <1>3, <2>2, <2>7 DEF Asking, AlsoNamed
    <3>3. Clean(yaml[f].decls, yaml[f].groups, asked.names)
      BY <1>1, <1>2, <1>3, <2>7, <3>1, <3>2 DEF NowInv
    <3>4. c.groups = yaml[f].groups
      BY <1>3, <2>4, <3>1, ReadGroups
    <3> QED
      BY <2>2, <3>1, <3>2, <3>3, <3>4, CleanMore
  <2>8. CommandInv'
    BY <2>2, <2>7 DEF CommandInv
  <2> QED
    BY <2>6, <2>8 DEF JobsInv
<1>6. CASE InitBegins /\ cmd' # Idle
  <2>1. PICK args \in Args :
           cmd' = [Idle EXCEPT !.step = "next", !.kind = "init", !.args = args]
    BY <1>6 DEF InitBegins, Ends
  <2>2. cmd'.kind = "init" /\ cmd'.args # <<>> /\ cmd'.decls = <<>> /\ cmd'.groups = <<>>
    BY <2>1, ArgTypes DEF Idle
  <2>3. NowInv' /\ PlainInv'
    BY <1>1, <1>2, <1>3, <2>2, CleanEmpty, SameNow
  <2>4. CommandInv'
    BY <2>2, CleanEmpty DEF CommandInv
  <2> QED
    BY <2>3, <2>4 DEF JobsInv
<1> QED
  BY <1>4, <1>5, <1>6

LEMMA NextProviderJobs ==
  ASSUME JobsInv, FilesInv', NextProvider
  PROVE  JobsInv'
<1>1. cmd.step = "next" /\ cmd.args # <<>> /\ UNCHANGED <<yaml, ran, asked, damaged>>
  BY DEF NextProvider, Doing
<1>2. /\ TypeInv /\ PlainInv /\ NowInv /\ CommandInv
      /\ cmd.args \in Seq([name : ProviderNames, version : Releases])
      /\ cmd.decls \in Seq(Declarations) /\ cmd.groups \in Seq(Settings)
  BY DEF JobsInv, FilesInv, TypeInv, Command
<1>3. ~WriteBegan
  BY <1>1 DEF WriteBegan, Doing
<1> DEFINE a == Head(cmd.args)
<1>4. a \in [name : ProviderNames, version : Releases]
  <2> DEFINE S == [name : ProviderNames, version : Releases]
  <2>1. cmd.args \in Seq(S)
    BY <1>2
  <2> HIDE DEF S
  <2>2. Head(cmd.args) \in S
    BY <1>1, <2>1
  <2> QED
    BY <2>2 DEF S
<1> HIDE DEF a
<1>5. ~AlreadyDeclared(a)
  <2> SUFFICES ASSUME NEW i \in DOMAIN cmd.decls
               PROVE  cmd.decls[i].source # <<a.name>>
    BY DEF AlreadyDeclared
  <2>1. Len(cmd.decls[i].source) >= 2
    BY <1>2 DEF PlainInv, PlainDecls
  <2>2. ASSUME NEW y
        PROVE  ~(Len(<<y>>) >= 2)
    OBVIOUS
  <2> QED
    BY <2>1, <2>2
<1>6. CASE Ends
  BY <1>1, <1>3, <1>6, EndJobs DEF Ends
<1>7. CASE AppendProvider(a)
  <2>1. /\ cmd'.decls = Append(cmd.decls, NewDecl(a))
        /\ cmd'.groups = Append(cmd.groups, NewGroup(a))
        /\ cmd'.names = Append(cmd.names, a.name)
        /\ cmd'.kind = cmd.kind /\ cmd'.step = cmd.step
    BY <1>2, <1>7 DEF AppendProvider, TypeInv, Command
  <2>2. PlainDecls(cmd'.decls)
    <3>1. NewDecl(a) \in Declarations /\ Len(NewDecl(a).source) >= 2
      BY <1>4, NewTypes DEF NewDecl
    <3>2. PlainDecls(cmd.decls)
      BY <1>2 DEF PlainInv
    <3> DEFINE d == NewDecl(a)
               D == Append(cmd.decls, d)
    <3>3. /\ Len(cmd.decls) \in Nat /\ DOMAIN D = 1 .. Len(cmd.decls) + 1
          /\ DOMAIN cmd.decls = 1 .. Len(cmd.decls)
          /\ D[Len(cmd.decls) + 1] = d /\ \A i \in DOMAIN cmd.decls : D[i] = cmd.decls[i]
      BY <1>2, <3>1
    <3> HIDE DEF D
    <3>4. PlainDecls(D)
      BY <3>1, <3>2, <3>3 DEF PlainDecls
    <3> QED
      BY <2>1, <3>4 DEF D
  <2>3. NowInv' /\ PlainInv' /\ ClientFiles' = ClientFiles /\ \A h : OnlyIn(h)' = OnlyIn(h)
    BY <1>1, <1>2, <1>3, <2>2, SameNow
  <2>4. cmd'.groups # <<>>
    <3>1. NewGroup(a) \in Settings
      BY <1>4, NewTypes
    <3>2. ASSUME NEW S, NEW s \in Seq(S), NEW x \in S
          PROVE  Append(s, x) # <<>>
      <4>1. Len(s) \in Nat /\ Len(Append(s, x)) = Len(s) + 1
        OBVIOUS
      <4>2. Len(<<>>) = 0
        OBVIOUS
      <4> QED
        BY <4>1, <4>2
    <3>3. Append(cmd.groups, NewGroup(a)) # <<>>
      BY <1>2, <3>1, <3>2
    <3> QED
      BY <2>1, <3>3
  <2>5. ASSUME cmd'.kind # "none", ~Asking'.twice,
               cmd'.kind = "install" => ~damaged' /\ \E f \in Goal' : OnlyIn(f)'
        PROVE  Clean(cmd'.decls, cmd'.groups, Asking'.names)
    <3>1. a.name \in ProviderNames
      BY <1>4
    <3>2. /\ ~Asking.twice /\ a.name \notin Asking.names
          /\ Asking.names \subseteq Asking'.names /\ a.name \in Asking'.names
      BY <1>1, <1>2, <2>1, <2>5, <3>1, AskingGrows
    <3>3. Goal' = Goal
      BY <1>1, <2>1, <2>3 DEF Goal
    <3>4. Clean(cmd.decls, cmd.groups, Asking.names)
      BY <1>1, <1>2, <2>1, <2>3, <2>5, <3>2, <3>3 DEF CommandInv
    <3> QED
      BY <1>2, <1>4, <2>1, <3>2, <3>4, CleanAppend
  <2>6. CommandInv'
    BY <2>4, <2>5 DEF CommandInv
  <2> QED
    BY <2>3, <2>6 DEF JobsInv
<1> QED
  BY <1>5, <1>6, <1>7 DEF NextProvider, a

LEMMA BeginToWriteJobs ==
  ASSUME JobsInv, FilesInv', BeginToWrite
  PROVE  JobsInv'
<1>1. PICK t \in Targets : cmd' = [cmd EXCEPT !.step = "write", !.left = t]
  BY DEF BeginToWrite
<1>2. cmd.step = "next" /\ cmd.args = <<>> /\ UNCHANGED <<yaml, ran, asked, damaged>>
  BY DEF BeginToWrite, Doing
<1>3. /\ TypeInv /\ ControlInv /\ PlainInv /\ NowInv /\ CommandInv /\ cmd \in Command
  BY DEF JobsInv, FilesInv, TypeInv
<1>4. ~WriteBegan
  BY <1>2 DEF WriteBegan, Doing
<1>5. /\ cmd'.step = "write" /\ cmd'.left = t
      /\ cmd'.decls = cmd.decls /\ cmd'.groups = cmd.groups /\ cmd'.args = cmd.args
      /\ cmd'.names = cmd.names /\ cmd'.kind = cmd.kind
  BY <1>1, <1>3 DEF Command
<1>6. NowInv' /\ PlainInv' /\ ClientFiles' = ClientFiles /\ \A h : OnlyIn(h)' = OnlyIn(h)
  BY <1>2, <1>3, <1>4, <1>5, SameNow DEF PlainInv
<1>7. Asking' = Asking
  BY <1>2, <1>5, SameAsking
<1>8. ASSUME cmd.kind = "install", ~damaged
      PROVE  Goal' = Goal
  <2>1. PICK f \in YamlFiles : ClientFiles = {f}
    BY <1>4, <1>8 DEF JobsInv, FilesInv, ReadyInv
  <2>2. t = <<f>>
    BY <1>1, <1>8, <2>1 DEF Targets, ConfigPath
  <2>3. Current' = f
    BY <1>5, <2>2 DEF Current
  <2> QED
    BY <1>2, <1>5, <2>1, <2>3 DEF Goal
<1>9. CommandInv'
  BY <1>2, <1>3, <1>5, <1>6, <1>7, <1>8 DEF CommandInv
<1> QED
  BY <1>6, <1>9 DEF JobsInv

LEMMA OpenYamlJobs ==
  ASSUME JobsInv, FilesInv', OpenYaml
  PROVE  JobsInv'
<1>1. /\ cmd.step = "write" /\ ~cmd.open /\ yaml' = [yaml EXCEPT ![Current] = Blank]
      /\ cmd' = [cmd EXCEPT !.open = TRUE] /\ UNCHANGED <<ran, asked, damaged>>
  BY DEF OpenYaml, Doing, Current
<1>2. /\ TypeInv /\ PlainInv /\ CommandInv /\ cmd \in Command /\ Current \in YamlFiles
      /\ yaml \in [YamlFiles -> Files]
  BY <1>1 DEF JobsInv, FilesInv, TypeInv, Command, Current
<1>3. /\ cmd'.step = "write" /\ cmd'.open /\ cmd'.left = cmd.left /\ cmd'.decls = cmd.decls
      /\ cmd'.groups = cmd.groups /\ cmd'.args = cmd.args
      /\ cmd'.names = cmd.names /\ cmd'.kind = cmd.kind
  BY <1>1, <1>2 DEF Command
<1>4. /\ yaml'[Current] = Blank /\ \A g \in YamlFiles \ {Current} : yaml'[g] = yaml[g]
  BY <1>1, <1>2, FileReplaced, FileTypes
<1>5. WriteBegan'
  BY <1>3 DEF WriteBegan, Doing
<1>6. PlainInv'
  <2>1. PlainDecls(Blank.decls)
    BY CleanEmpty DEF Blank
  <2> QED
    BY <1>2, <1>3, <1>4, <2>1 DEF PlainInv
<1>7. CommandInv'
  <2>1. Asking' = Asking
    BY <1>1, <1>3, SameAsking
  <2>2. Goal' = {Current} /\ Goal = {Current}
    BY <1>1, <1>3 DEF Goal, Current
  <2>3. OnlyIn(Current) <=> \A g \in YamlFiles \ {Current} : yaml[g].groups = <<>>
    BY DEF OnlyIn
  <2>4. ASSUME \E f \in Goal' : OnlyIn(f)'
        PROVE  \E f \in Goal : OnlyIn(f)
    BY <1>4, <2>2, <2>4 DEF OnlyIn
  <2> QED
    BY <1>1, <1>2, <1>3, <2>1, <2>4 DEF CommandInv
<1>8. NowInv'
  BY <1>5 DEF NowInv
<1> QED
  BY <1>6, <1>7, <1>8 DEF JobsInv

LEMMA WriteYamlJobs ==
  ASSUME JobsInv, FilesInv', WriteYaml
  PROVE  JobsInv'
<1>1. TypeInv /\ ControlInv /\ PlainInv /\ CommandInv /\ cmd \in Command /\ FilesInv
  BY DEF JobsInv, FilesInv, TypeInv
<1>2. /\ Current \in YamlFiles /\ yaml[Current] = Blank
      /\ \E keys \in KeysOf(cmd.kind) : yaml' = [yaml EXCEPT ![Current] = Content(Current, keys)]
  BY <1>1, FileWritten
<1>keys. PICK keys \in KeysOf(cmd.kind) : yaml' = [yaml EXCEPT ![Current] = Content(Current, keys)]
  BY <1>2
<1>3. cmd.step = "write" /\ cmd.args = <<>>
  BY <1>1 DEF WriteYaml, Doing, TypeInv
<1>4. Content(Current, keys) \in Files
  BY <1>1, <1>2, ContentType
<1>5. /\ yaml'[Current] = Content(Current, keys)
      /\ \A g \in YamlFiles \ {Current} : yaml'[g] = yaml[g]
      /\ ClientFiles' = (ClientFiles \ {Current})
                        \cup (IF Content(Current, keys).keys # {} THEN {Current} ELSE {})
  BY <1>1, <1>2, <1>keys, <1>4, FileReplaced DEF TypeInv
<1>6. \A f \in YamlFiles : PlainDecls(yaml'[f].decls)
  <2>1. Content(Current, keys).decls \in {cmd.decls, <<>>}
    BY <1>1, <1>2, ContentType
  <2>2. PlainDecls(Content(Current, keys).decls)
    BY <1>1, <2>1, CleanEmpty DEF PlainInv
  <2> QED
    BY <1>1, <1>5, <2>2 DEF PlainInv
<1>7. CASE /\ cmd' = [cmd EXCEPT !.left = Tail(@), !.open = FALSE]
           /\ cmd.kind = "init" /\ Len(cmd.left) \in {2, 3}
           /\ UNCHANGED <<asked, damaged>>
  <2>1. /\ cmd'.step = "write" /\ cmd'.left = Tail(cmd.left) /\ cmd'.decls = cmd.decls
        /\ cmd'.groups = cmd.groups /\ cmd'.args = cmd.args
        /\ cmd'.names = cmd.names /\ cmd'.kind = cmd.kind
    BY <1>1, <1>3, <1>7 DEF Command
  <2>2. WriteBegan'
    <3> DEFINE left == cmd.left
    <3>1. left \in Seq(YamlFiles) /\ Len(left) \in {2, 3}
      BY <1>1, <1>7 DEF Command
    <3> HIDE DEF left
    <3>2. left # <<>> /\ Len(left) - 1 < 3
      <4>1. Len(<<>>) = 0
        OBVIOUS
      <4>2. ASSUME NEW n \in {2, 3}
            PROVE  n # 0 /\ n - 1 < 3
        OBVIOUS
      <4>3. Len(left) # 0 /\ Len(left) - 1 < 3
        BY <3>1, <4>2, Zenon
      <4> QED
        BY <4>1, <4>3, Zenon
    <3>3. Len(Tail(left)) = Len(left) - 1
      BY <3>1, <3>2
    <3>4. Len(Tail(cmd.left)) < 3
      BY <3>2, <3>3 DEF left
    <3> QED
      BY <1>7, <2>1, <3>4 DEF WriteBegan, Doing
  <2>3. Asking' = Asking
    BY <1>7, <2>1, SameAsking
  <2>4. CommandInv'
    BY <1>1, <1>7, <2>1, <2>3 DEF CommandInv
  <2>5. PlainInv'
    BY <1>1, <1>6, <2>1 DEF PlainInv
  <2>6. NowInv'
    BY <2>2 DEF NowInv
  <2> QED
    BY <2>4, <2>5, <2>6 DEF JobsInv
<1>8. CASE /\ cmd' = Idle /\ ~(cmd.kind = "init" /\ Current # MainFile)
           /\ cmd.kind \in {"init", "install"} /\ asked' = Asking
           /\ cmd.kind = "install" => damaged' = damaged
           /\ ~damaged' => ClientFiles \ {Current} = {}
  <2>1. PlainInv'
    BY <1>6, <1>8, IdleType, CleanEmpty DEF PlainInv
  <2>2. CommandInv'
    BY <1>8, IdleType DEF CommandInv
  <2>3. ASSUME ~damaged', ~asked'.twice, NEW c \in ClientFiles', NEW f \in YamlFiles, OnlyIn(f)'
        PROVE  Clean(yaml'[c].decls, yaml'[f].groups, asked'.names)
    <3>1. /\ Content(Current, keys).decls = cmd.decls /\ Content(Current, keys).groups = cmd.groups
      BY <1>1, <1>2, <1>8, ContentType
    <3>2. c = Current
      BY <1>5, <1>8, <2>3
    <3>3. cmd.groups # <<>>
      BY <1>1, <1>3, <1>8 DEF CommandInv
    <3>4. f = Current
      BY <1>2, <1>5, <2>3, <3>1, <3>3 DEF OnlyIn
    <3>5. OnlyIn(Current)
      BY <1>5, <2>3, <3>4 DEF OnlyIn
    <3>6. Goal = {Current}
      BY <1>3 DEF Goal
    <3>7. Clean(cmd.decls, cmd.groups, Asking.names)
      BY <1>1, <1>8, <2>3, <3>5, <3>6 DEF CommandInv
    <3> QED
      BY <1>5, <1>8, <3>1, <3>2, <3>4, <3>7
  <2>4. NowInv'
    BY <2>3 DEF NowInv
  <2> QED
    BY <2>1, <2>2, <2>4 DEF JobsInv
<1>9. ASSUME cmd.kind = "install"
      PROVE  (~damaged => ClientFiles = {}) /\ Asking = AlsoNamed
  BY <1>1, <1>3, <1>9 DEF WriteYaml, ControlInv, Asking
<1>10. cmd.kind = "init" => Asking = Named
  BY DEF Asking
<1> QED
  BY <1>1, <1>7, <1>8, <1>9, <1>10, FileWritten

LEMMA JobsInvariant ==
  ConfigSpec => []JobsInv
<1>1. JobsInv /\ FilesInv' /\ [ConfigNext]_configVars => JobsInv'
  <2> SUFFICES ASSUME JobsInv, FilesInv', [ConfigNext]_configVars PROVE JobsInv'
    OBVIOUS
  <2>1. CASE WriteFails
    BY <2>1, EndJobs DEF WriteFails, Ends
  <2>2. CASE CommandCrashes
    <3>1. damaged' = (damaged \/ WriteBegan) /\ damaged \in BOOLEAN
      BY <2>2 DEF CommandCrashes, JobsInv, FilesInv, TypeInv
    <3>2. (damaged' = damaged /\ ~WriteBegan) \/ damaged' = TRUE
      BY <3>1
    <3> QED
      BY <2>2, <3>2, EndJobs DEF CommandCrashes, Ends
  <2>3. CASE UNCHANGED configVars
    <3>1. yaml' = yaml /\ cmd' = cmd /\ asked' = asked /\ damaged' = damaged
      BY <2>3 DEF configVars
    <3>2. /\ ClientFiles' = ClientFiles /\ WriteBegan' = WriteBegan /\ Asking' = Asking
          /\ Goal' = Goal /\ \A f : OnlyIn(f)' = OnlyIn(f)
      BY <3>1, SameAsking DEF ClientFiles, WriteBegan, Doing, Goal, Current, OnlyIn
    <3>3. PlainInv' /\ NowInv'
      BY <3>1, <3>2 DEF JobsInv, PlainInv, NowInv
    <3>4. CommandInv'
      BY <3>1, <3>2 DEF JobsInv, CommandInv
    <3> QED
      BY <3>3, <3>4 DEF JobsInv
  <2> QED
    BY <2>1, <2>2, <2>3, BeginJobs, NextProviderJobs, BeginToWriteJobs, OpenYamlJobs, WriteYamlJobs
       DEF ConfigNext
<1> QED
  BY <1>1, InitJobs, FilesInvariant, PTL DEF ConfigSpec

(* The schemas that apply locks are those of different jobs: it does not    *)
(* wait for itself in a workspace whose configuration only the commands     *)
(* changed, as long as its settings stand in one file, no provider was      *)
(* asked for twice and different jobs are not spelled as one schema.        *)
THEOREM JobsStayDistinct == ConfigSpec => []JobsAreDistinct
<1>1. JobsInv => JobsAreDistinct
  <2> SUFFICES ASSUME JobsInv, cmd = Idle, ~damaged, ~asked.twice,
                      Cardinality({f \in YamlFiles : yaml[f].groups # <<>>}) <= 1,
                      NEW c \in Configs, SpelledApart(Jobs(c))
               PROVE  IsInjective([i \in DOMAIN Jobs(c) |-> GetSchemaKey(Jobs(c)[i])])
    BY DEF JobsAreDistinct
  <2>1. TypeInv /\ NowInv /\ ~WriteBegan
    BY IdleType DEF JobsInv, FilesInv, WriteBegan, Doing
  <2>2. PICK f \in YamlFiles : OnlyIn(f)
    <3> DEFINE files == {h \in YamlFiles : yaml[h].groups # <<>>}
    <3>1. files = {} \/ \E h \in YamlFiles : files = {h}
      BY FilesAreFinite
    <3> QED
      BY <3>1, FileTypes DEF OnlyIn
  <2>3. PICK m \in YamlFiles : ClientFiles = {m} /\ c.decls = yaml[m].decls
    <3>1. PICK m \in YamlFiles : ClientFiles = {m}
      BY <2>1 DEF JobsInv, FilesInv, ReadyInv
    <3> QED
      BY <2>1, <3>1, ConfigTypes
  <2>4. c.groups = yaml[f].groups
    BY <2>1, <2>2, ConfigTypes, ReadGroups
  <2>5. Clean(c.decls, c.groups, asked.names)
    BY <2>1, <2>2, <2>3, <2>4 DEF NowInv
  <2>6. IsInjective(Jobs(c))
    BY <2>1, <2>5, ConfigTypes, CleanJobs
  <2> QED
    BY <2>6 DEF SpelledApart, IsInjective
<1> QED
  BY <1>1, JobsInvariant, PTL

=============================================================================
