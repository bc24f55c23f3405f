-------------------------- MODULE ProviderRegistry --------------------------
(***************************************************************************)
(* How selefra keeps the binaries of its providers.  The home directory of *)
(* the user has a download cache, one directory per provider and version,  *)
(* and config.json, which says for a provider and a version where the      *)
(* binary is; the version of an entry may be "latest".  All the processes  *)
(* of the user share both, whatever workspace they run in.                 *)
(*                                                                         *)
(* `provider install` and `init` download a binary, start it once, and add *)
(* an entry to config.json and a declaration to the workspace.  `provider  *)
(* remove` deletes the binary and the entry of declared providers.         *)
(* `provider update` downloads the latest version and fetches with it.     *)
(* `test` and `fetch` start what config.json names, and so does `apply`,   *)
(* which then resolves "latest" and stores what it resolved.               *)
(*                                                                         *)
(* config.json is changed by reading it, and writing it again: first the   *)
(* file is truncated (remove deletes it before), then it is written.       *)
(* The registry, from which versions are released, is external.            *)
(***************************************************************************)
EXTENDS Naturals, Sequences

CONSTANTS
    Procs,      \* the processes, each of which runs one command
    Names,      \* the providers
    Newest,     \* bound on the versions
    Spaces,     \* the workspaces
    DeclLists,  \* the lists of declarations a workspace may begin with
    Args,       \* the lists of arguments of install and init
    Kinds,      \* the commands that may run
    Faults      \* "crash": of a process; "net": a call fails; "disk": a write or a
                \* removal in the home directory fails; "release": a new version is
                \* released while the commands run

Versions == 1..Newest
Latest   == 0           \* the version "latest"
NoPath   == 0           \* no binary

\* A declaration of the workspace, or an argument of install.
Decl == [name : Names, version : {Latest} \cup Versions]

ASSUME RegistryAssumption ==
    /\ Newest \in Nat \ {0}
    /\ DeclLists \subseteq Seq(Decl)
    /\ Args \subseteq Seq(Decl) \ {<<>>}
    /\ Kinds \subseteq {"install", "init", "remove", "update", "fetch", "test", "apply"}
    /\ Faults \subseteq {"crash", "net", "disk", "release"}

\* What config.json says: for a provider and a version, concrete or latest, the
\* version whose binary the path leads to.
Entries == [Names -> [{Latest} \cup Versions -> {NoPath} \cup Versions]]
NoEntry == [n \in Names |-> [v \in {Latest} \cup Versions |-> NoPath]]

VARIABLES
    newest,     \* per provider: the latest version in the registry
    binary,     \* per provider and version: what the download cache holds
    file,       \* config.json: absent, blank (truncated, not written yet),
                \* garbage (two writes went into it, or part of one) or ok
    entries,    \* what it says when it is ok
    decls,      \* per workspace: its provider declarations
    proc,       \* per process: see Process
    alone,      \* the commands run one after the other
    removed,    \* the providers that a remove was asked to remove
    released,   \* the providers with a release since the commands began
    failed,     \* a write or a removal in the home directory failed
    wholeOnce   \* the binaries that were complete at some time

cacheVars  == <<binary, wholeOnce>>
configVars == <<file, entries>>
restVars   == <<newest, decls, alone, removed, released, failed>>
vars       == <<cacheVars, configVars, restVars, proc>>

Steps  == {"home", "create", "fill", "next", "lookup", "stat", "extract",
           "extracting", "start", "delete", "read", "unlink", "open", "put"}
Ended  == {"done", "crashed"}
AtRest == {"idle"} \cup Ended

Loaded == [name : Names, version : {Latest} \cup Versions, path : {NoPath} \cup Versions]

Process ==
    [kind : Kinds,
     pc : AtRest \cup Steps,
     then : Steps,                      \* what follows utils.Home
     handle : {"none", "open", "stale"},\* the file it opened for writing
     space : Spaces,
     list : Seq(Loaded),                \* its copy of the declarations
     todo : Seq(Decl),                  \* the arguments of install and init, for
                                        \* apply the declarations as written
     names : SUBSET Names,              \* the arguments of remove and update
     turn : Nat \ {0},                  \* of the loop it is in
     version : {Latest} \cup Versions,  \* the version that Download resolved
     path : {NoPath} \cup Versions,     \* the binary it works with
     map : Entries,                     \* config.json as it read and changed it
     checked : BOOLEAN,                 \* apply: all the plugins have started
     errored : BOOLEAN,                 \* test, apply: a plugin did not start
     nowhere : BOOLEAN]                 \* remove: deletedMap holds the empty path

TypeOK ==
    /\ newest \in [Names -> Versions]
    /\ binary \in [Names -> [Versions -> {"none", "partial", "whole"}]]
    /\ file \in {"absent", "blank", "garbage", "ok"}
    /\ entries \in Entries
    /\ decls \in [Spaces -> Seq(Decl)]
    /\ proc \in [Procs -> Process]
    /\ alone \in BOOLEAN
    /\ removed \subseteq Names
    /\ released \subseteq Names
    /\ failed \in BOOLEAN
    /\ wholeOnce \subseteq Names \X Versions

WholeOnes == {b \in Names \X Versions : binary[b[1]][b[2]] = "whole"}

\* No command has begun.  Earlier commands left a config.json in which every entry
\* has its binary, "latest" the latest one, and every declaration an entry.
Init ==
    /\ newest \in [Names -> Versions]
    /\ binary \in [Names -> [Versions -> {"none", "whole"}]]
    /\ wholeOnce = WholeOnes
    /\ \A b \in WholeOnes : b[2] <= newest[b[1]]
    /\ entries \in Entries
    /\ \A n \in Names : \A v \in Versions :
          entries[n][v] = IF binary[n][v] = "whole" THEN v ELSE NoPath
    /\ \A n \in Names : entries[n][Latest] \in {NoPath, entries[n][newest[n]]}
    /\ file \in IF entries = NoEntry THEN {"absent", "ok"} ELSE {"ok"}
    /\ decls \in [Spaces -> DeclLists]
    /\ \A w \in Spaces : \A i \in DOMAIN decls[w] :
          entries[decls[w][i].name][decls[w][i].version] # NoPath
    /\ alone \in BOOLEAN
    /\ removed = {} /\ released = {} /\ failed = FALSE
    /\ \E kind \in [Procs -> Kinds], space \in [Procs -> Spaces] :
        proc = [p \in Procs |->
                  [kind |-> kind[p], pc |-> "idle", then |-> "next",
                   handle |-> "none", space |-> space[p], list |-> <<>>,
                   todo |-> <<>>, names |-> {}, turn |-> 1, version |-> Latest,
                   path |-> NoPath, map |-> NoEntry, checked |-> FALSE,
                   errored |-> FALSE, nowhere |-> FALSE]]

-----------------------------------------------------------------------------

At(p, step) == proc[p].pc = step

Goto(p, step) == proc' = [proc EXCEPT ![p].pc = step]

\* utils.Home, which creates config.json if there is none, and then step.
Home(p, step) == proc' = [proc EXCEPT ![p].pc = "home", ![p].then = step]

Installs(p) == proc[p].kind \in {"install", "init"}
Checks(p)   == proc[p].kind \in {"test", "apply"} /\ ~proc[p].checked

Over(p) == proc[p].turn > Len(IF Installs(p) THEN proc[p].todo ELSE proc[p].list)

\* The declaration or argument that the loop is at.
Item(p) == IF Installs(p) THEN proc[p].todo[proc[p].turn] ELSE proc[p].list[proc[p].turn]

\* The next turn of the loop.
Continue(p) == proc' = [proc EXCEPT ![p].pc = "next", ![p].turn = @ + 1]

Begin(p) ==
    /\ At(p, "idle")
    /\ alone => \A q \in Procs \ {p} : proc[q].pc \in AtRest
    /\ LET kind  == proc[p].kind
           given == decls[proc[p].space]
           list  == [i \in DOMAIN given |-> [name |-> given[i].name,
                        version |-> given[i].version, path |-> NoPath]]
       IN \E todo \in  IF Installs(p) THEN Args ELSE {given},
             names \in IF kind \in {"remove", "update"} THEN SUBSET Names ELSE {{}} :
            /\ kind = "init" => \A i \in DOMAIN todo : todo[i].version = Latest
            /\ proc' = [proc EXCEPT
                  ![p].list = IF kind = "init" THEN <<>> ELSE list,
                  ![p].todo = todo, ![p].names = names,
                  ![p].pc = IF kind \in {"fetch", "test", "apply"} THEN "next" ELSE "home"]
            /\ removed' = IF kind = "remove" THEN removed \cup names ELSE removed
    /\ UNCHANGED <<cacheVars, configVars, newest, decls, alone, released, failed>>

-----------------------------------------------------------------------------
(* config.json. *)

\* os.WriteFile creates or truncates the file.
OpenFile(p, step) ==
    /\ file' = "blank" /\ entries' = NoEntry
    /\ proc' = [proc EXCEPT ![p].pc = step, ![p].handle = "open"]

\* ... and writes content in the file it opened.  A shorter text leaves the end of
\* a longer one that somebody wrote meanwhile.
WriteFile(p, content) ==
    \/ /\ proc[p].handle = "stale"
       /\ UNCHANGED configVars
    \/ /\ proc[p].handle = "open"
       /\ file' = "ok" /\ entries' = content
    \/ /\ proc[p].handle = "open" /\ file # "blank"
       /\ file' = "garbage" /\ entries' = NoEntry

StatConfig(p) ==
    /\ At(p, "home")
    /\ Goto(p, IF file = "absent" THEN "create" ELSE proc[p].then)
    /\ UNCHANGED <<cacheVars, configVars, restVars>>

CreateConfig(p) ==
    /\ At(p, "create")
    /\ OpenFile(p, "fill")
    /\ UNCHANGED <<cacheVars, restVars>>

FillConfig(p) ==
    /\ At(p, "fill")
    /\ WriteFile(p, NoEntry)
    /\ proc' = [proc EXCEPT ![p].pc = proc[p].then, ![p].handle = "none"]
    /\ UNCHANGED <<cacheVars, restVars>>

\* GetPathBySource, after Home.
PathOf(name, version) == IF file = "ok" THEN entries[name][version] ELSE NoPath

\* Mutant: a latest version is entered as latest only.
WithEntry_LatestOnly(p, map) ==
    [map EXCEPT ![Item(p).name][proc[p].todo[proc[p].turn].version] = proc[p].path]

\* AppendProviderDecl enters the path for the resolved version, and for latest if
\* that is what was asked for.
WithEntry(p, map) ==
    LET name    == Item(p).name
        entered == [map EXCEPT ![name][proc[p].version] = proc[p].path]
    IN IF proc[p].todo[proc[p].turn].version = Latest
         THEN [entered EXCEPT ![name][Latest] = proc[p].path]
         ELSE entered

\* AppendProviderDecl takes a file that is no JSON for one without entries.
ReadToAdd(p) ==
    /\ At(p, "read") /\ proc[p].kind # "remove"
    /\ IF file # "absent"
         THEN proc' = [proc EXCEPT ![p].pc = "open", ![p].map = WithEntry(p, entries)]
         ELSE IF Installs(p) THEN Goto(p, "done")
         ELSE Continue(p)
    /\ UNCHANGED <<cacheVars, configVars, restVars>>

\* Remove gives up when the file is no JSON, and does without when there is none.
ReadToRemove(p) ==
    /\ At(p, "read") /\ proc[p].kind = "remove"
    /\ \/ /\ file = "ok"
          /\ proc' = [proc EXCEPT ![p].pc = "unlink",
                ![p].map = [entries EXCEPT ![Item(p).name][Item(p).version] = NoPath]]
       \/ file \in {"blank", "garbage"} /\ Goto(p, "done")
       \/ file = "absent" /\ Continue(p)
    /\ UNCHANGED <<cacheVars, configVars, restVars>>

\* Who has the file open goes on writing to one that nobody finds.
UnlinkConfig(p) ==
    /\ At(p, "unlink")
    /\ IF file = "absent"
         THEN Goto(p, "done") /\ UNCHANGED configVars
         ELSE /\ file' = "absent" /\ entries' = NoEntry
              /\ proc' = [q \in Procs |->
                    IF q = p THEN [proc[q] EXCEPT !.pc = "open"]
                    ELSE IF proc[q].pc \in {"fill", "put"}
                      THEN [proc[q] EXCEPT !.handle = "stale"] ELSE proc[q]]
    /\ UNCHANGED <<cacheVars, restVars>>

OpenConfig(p) ==
    /\ At(p, "open")
    /\ OpenFile(p, "put")
    /\ UNCHANGED <<cacheVars, restVars>>

\* After the write install adds a declaration, and remove notes the path.
Entered(p) ==
    LET q   == [proc[p] EXCEPT !.pc = "next", !.turn = @ + 1, !.handle = "none",
                               !.map = NoEntry]
        new == [name |-> Item(p).name, version |-> proc[p].version, path |-> NoPath]
    IN proc' = [proc EXCEPT ![p] =
        IF Installs(p) THEN [q EXCEPT !.list = Append(@, new)]
        ELSE IF q.kind = "remove" /\ q.path = NoPath THEN [q EXCEPT !.nowhere = TRUE]
        ELSE q]

PutConfig(p) ==
    /\ At(p, "put")
    /\ WriteFile(p, proc[p].map)
    /\ Entered(p)
    /\ UNCHANGED <<cacheVars, restVars>>

-----------------------------------------------------------------------------
(* The download cache and the plugins. *)

\* Mutant: a binary that is there is entered without having started.
StatBinary_Trusts(p) ==
    /\ At(p, "stat")
    /\ IF binary[Item(p).name][proc[p].version] = "none"
         THEN Goto(p, "extract")
         ELSE proc' = [proc EXCEPT ![p].path = proc[p].version, ![p].pc = "read"]
    /\ UNCHANGED <<cacheVars, configVars, restVars>>

\* Mutant: the binary of whatever version of the provider is there is taken.
StatBinary_AnyVersion(p) ==
    /\ At(p, "stat")
    /\ \/ /\ \A v \in Versions : binary[Item(p).name][v] = "none"
          /\ Goto(p, "extract")
       \/ \E v \in Versions :
             /\ binary[Item(p).name][v] # "none"
             /\ proc' = [proc EXCEPT ![p].path = v, ![p].pc = "start"]
    /\ UNCHANGED <<cacheVars, configVars, restVars>>

\* The cache has the binary, whether or not it is complete, or it is downloaded.
StatBinary(p) ==
    /\ At(p, "stat")
    /\ IF binary[Item(p).name][proc[p].version] = "none"
         THEN Goto(p, "extract")
         ELSE proc' = [proc EXCEPT ![p].path = proc[p].version, ![p].pc = "start"]
    /\ UNCHANGED <<cacheVars, configVars, restVars>>

\* Whoever extracts the same binary continues with a file that p truncates, or
\* that somebody removes.
Overtaken(p, name, version) ==
    [q \in Procs |->
        IF /\ q # p /\ proc[q].pc = "extracting"
           /\ Item(q).name = name /\ proc[q].version = version
          THEN [proc[q] EXCEPT !.handle = "stale"] ELSE proc[q]]

\* The archive has been downloaded, and its extraction creates the binary.
Extract(p) ==
    /\ At(p, "extract")
    /\ LET name == Item(p).name  version == proc[p].version
       IN /\ binary' = [binary EXCEPT ![name][version] = "partial"]
          /\ proc' = [Overtaken(p, name, version) EXCEPT
                          ![p].pc = "extracting", ![p].handle = "open"]
    /\ UNCHANGED <<wholeOnce, configVars, restVars>>

DownloadFails(p) ==
    /\ "net" \in Faults
    /\ At(p, "extract")
    /\ Goto(p, "done")
    /\ UNCHANGED <<cacheVars, configVars, restVars>>

Extracted(p) ==
    /\ At(p, "extracting")
    /\ LET name == Item(p).name  version == proc[p].version
       IN IF proc[p].handle = "open"
            THEN /\ binary' = [binary EXCEPT ![name][version] = "whole"]
                 /\ wholeOnce' = wholeOnce \cup {<<name, version>>}
            ELSE UNCHANGED cacheVars
    /\ proc' = [proc EXCEPT ![p].handle = "none", ![p].path = proc[p].version,
                            ![p].pc = "start"]
    /\ UNCHANGED <<configVars, restVars>>

Works(name, path) == path # NoPath /\ binary[name][path] = "whole"

\* NewManagedPlugin runs the binary, and its handshake succeeds.
StartPlugin(p) ==
    /\ At(p, "start")
    /\ Works(Item(p).name, proc[p].path)
    /\ IF Installs(p) THEN Home(p, "read") ELSE Continue(p)
    /\ UNCHANGED <<cacheVars, configVars, restVars>>

\* There is no binary, or it is not complete, or a later call to the plugin fails.
StartFails(p) ==
    /\ At(p, "start")
    /\ ~Works(Item(p).name, proc[p].path) \/ "net" \in Faults
    /\ IF Checks(p)
         THEN proc' = [proc EXCEPT ![p].errored = TRUE, ![p].pc = "next", ![p].turn = @ + 1]
         ELSE Goto(p, "done")
    /\ UNCHANGED <<cacheVars, configVars, restVars>>

\* DeleteProvider removes the directory of the binary.
DeleteBinary(p) ==
    /\ At(p, "delete")
    /\ LET name == Item(p).name  path == proc[p].path
       IN IF path # NoPath
            THEN /\ binary' = [binary EXCEPT ![name][path] = "none"]
                 /\ proc' = [Overtaken(p, name, path) EXCEPT
                                ![p].pc = "home", ![p].then = "read"]
            ELSE Home(p, "read") /\ UNCHANGED binary
    /\ UNCHANGED <<wholeOnce, configVars, restVars>>

-----------------------------------------------------------------------------
(* The loops of the commands. *)

Resolved(p) == IF Item(p).version = Latest THEN newest[Item(p).name] ELSE Item(p).version

\* install, init: the version is resolved; one that was not released is not found.
ResolveToInstall(p) ==
    /\ At(p, "next") /\ Installs(p) /\ ~Over(p)
    /\ \/ /\ Resolved(p) <= newest[Item(p).name]
          /\ proc' = [proc EXCEPT ![p].version = Resolved(p), ![p].pc = "stat"]
       \/ /\ Resolved(p) > newest[Item(p).name] \/ "net" \in Faults
          /\ Goto(p, "done")
    /\ UNCHANGED <<cacheVars, configVars, restVars>>

\* update: the loop ends at the first declaration that is not named.  CheckUpdate
\* returns an empty binary when the version is the latest one, with which Fetch
\* fails, and an error when the registry does not answer.
CheckUpdate(p) ==
    /\ At(p, "next") /\ proc[p].kind = "update" /\ ~Over(p)
    /\ LET item == Item(p)
           named == proc[p].names = {} \/ item.name \in proc[p].names
       IN \/ /\ named /\ item.version # newest[item.name]
             /\ proc' = [proc EXCEPT ![p].version = newest[item.name], ![p].pc = "stat"]
          \/ /\ named /\ item.version = newest[item.name]
             /\ proc' = [proc EXCEPT ![p].path = NoPath, ![p].pc = "home", ![p].then = "start"]
          \/ /\ ~named \/ "net" \in Faults
             /\ Goto(p, "done")
    /\ UNCHANGED <<cacheVars, configVars, restVars>>

\* fetch, test, remove, and the check of apply: the path comes from config.json.
FindPath(p) ==
    /\ At(p, "next") /\ ~Over(p)
    /\ proc[p].kind \in {"fetch", "remove"} \/ Checks(p)
    /\ Home(p, "lookup")
    /\ UNCHANGED <<cacheVars, configVars, restVars>>

Found(p, path) ==
    proc' = [proc EXCEPT ![p].path = path, ![p].list[proc[p].turn].path = path,
                         ![p].pc = "start"]

LookUp(p) ==
    /\ At(p, "lookup") /\ proc[p].kind # "remove"
    /\ Found(p, PathOf(Item(p).name, Item(p).version))
    /\ UNCHANGED <<cacheVars, configVars, restVars>>

\* remove: the loop ends at the first declaration that is not named.
FoundToRemove(p, path) ==
    IF Item(p).name \in proc[p].names /\ ~proc[p].nowhere
      THEN proc' = [proc EXCEPT ![p].path = path, ![p].pc = "delete"]
      ELSE Goto(p, "done")

LookUpToRemove(p) ==
    /\ At(p, "lookup") /\ proc[p].kind = "remove"
    /\ FoundToRemove(p, PathOf(Item(p).name, Item(p).version))
    /\ UNCHANGED <<cacheVars, configVars, restVars>>

\* apply, after the check: Download resolves latest, and returns the path that the
\* check found in config.json.
ResolveToApply(p) ==
    /\ At(p, "next") /\ proc[p].kind = "apply" /\ proc[p].checked /\ ~Over(p)
    /\ \/ proc' = [proc EXCEPT ![p].version = Resolved(p), ![p].path = Item(p).path,
                               ![p].list[proc[p].turn].version = Resolved(p),
                               ![p].pc = "home", ![p].then = "read"]
       \/ "net" \in Faults /\ Item(p).version = Latest /\ Continue(p)
    /\ UNCHANGED <<cacheVars, configVars, restVars>>

\* Mutant: the second loop of apply begins with declaration zero.
CheckEnds_FromZero(p) ==
    /\ At(p, "next") /\ Checks(p) /\ Over(p)
    /\ IF proc[p].kind = "apply" /\ ~proc[p].errored
         THEN proc' = [proc EXCEPT ![p].checked = TRUE, ![p].turn = 0,
                                   ![p].pc = "home", ![p].then = "next"]
         ELSE Goto(p, "done")
    /\ UNCHANGED <<cacheVars, configVars, restVars>>

\* apply goes on only when all the plugins started.
CheckEnds(p) ==
    /\ At(p, "next") /\ Checks(p) /\ Over(p)
    /\ IF proc[p].kind = "apply" /\ ~proc[p].errored
         THEN proc' = [proc EXCEPT ![p].checked = TRUE, ![p].turn = 1,
                                   ![p].pc = "home", ![p].then = "next"]
         ELSE Goto(p, "done")
    /\ UNCHANGED <<cacheVars, configVars, restVars>>

\* install and init write the declarations to the workspace.
WriteWorkspace(p) ==
    /\ At(p, "next") /\ Installs(p) /\ Over(p)
    /\ decls' = [decls EXCEPT ![proc[p].space] =
                    [i \in DOMAIN proc[p].list |->
                        [name |-> proc[p].list[i].name,
                         version |-> proc[p].list[i].version]]]
    /\ Goto(p, "done")
    /\ UNCHANGED <<cacheVars, configVars, newest, alone, removed, released, failed>>

CommandEnds(p) ==
    /\ At(p, "next") /\ ~Installs(p) /\ ~Checks(p) /\ Over(p)
    /\ Goto(p, "done")
    /\ UNCHANGED <<cacheVars, configVars, restVars>>

-----------------------------------------------------------------------------
(* The home directory cannot be written. *)

\* config.json is as it was: not opened, not removed, or opened and nothing written.
\* Or part of the text went into the file.
WriteFails(p) ==
    /\ "disk" \in Faults
    /\ failed' = TRUE
    /\ \/ UNCHANGED configVars
       \/ /\ proc[p].pc \in {"fill", "put"} /\ proc[p].handle = "open"
          /\ file' = "garbage" /\ entries' = NoEntry
    /\ UNCHANGED <<cacheVars, newest, decls, alone, removed, released>>

\* utils.Home fails when it cannot create config.json: GetPathBySource then has no
\* path, apply goes on without an entry, the plugin of update starts without the
\* directory, and other commands end.
HomeFails(p) ==
    /\ proc[p].pc \in {"create", "fill"}
    /\ WriteFails(p)
    /\ CASE proc[p].then = "lookup" ->
              IF proc[p].kind = "remove" THEN FoundToRemove(p, NoPath) ELSE Found(p, NoPath)
         [] proc[p].then = "read" ->
              IF proc[p].kind = "apply" THEN Continue(p) ELSE Goto(p, "done")
         [] proc[p].then = "start" -> Goto(p, "start")
         [] OTHER -> Goto(p, "done")

\* AppendProviderDecl does not look at the error of os.WriteFile: install declares
\* the provider without its entry.
EntryNotWritten(p) ==
    /\ proc[p].pc \in {"open", "put"} /\ proc[p].kind # "remove"
    /\ WriteFails(p)
    /\ Entered(p)

\* Remove ends, after it deleted the binary.
RemoveFails(p) ==
    /\ proc[p].pc \in {"unlink", "open", "put"} /\ proc[p].kind = "remove"
    /\ WriteFails(p)
    /\ Goto(p, "done")

\* The binary stays incomplete.
ExtractFails(p) ==
    /\ At(p, "extracting")
    /\ WriteFails(p)
    /\ Goto(p, "done")

\* Remove only warns when it cannot delete the binary.
DeleteFails(p) ==
    /\ At(p, "delete")
    /\ WriteFails(p)
    /\ Home(p, "read")

-----------------------------------------------------------------------------
(* The environment. *)

Crash(p) ==
    /\ "crash" \in Faults
    /\ proc[p].pc \notin AtRest
    /\ Goto(p, "crashed")
    /\ UNCHANGED <<cacheVars, configVars, restVars>>

Release(n) ==
    /\ "release" \in Faults
    /\ newest[n] < Newest
    /\ newest' = [newest EXCEPT ![n] = @ + 1]
    /\ released' = released \cup {n}
    /\ UNCHANGED <<cacheVars, configVars, decls, alone, removed, failed, proc>>

Config(p) ==
    \/ StatConfig(p) \/ CreateConfig(p) \/ FillConfig(p) \/ ReadToAdd(p)
    \/ ReadToRemove(p) \/ UnlinkConfig(p) \/ OpenConfig(p) \/ PutConfig(p)

Binary(p) ==
    \/ StatBinary(p) \/ Extract(p) \/ DownloadFails(p) \/ Extracted(p)
    \/ StartPlugin(p) \/ StartFails(p) \/ DeleteBinary(p)

Command(p) ==
    \/ Begin(p) \/ ResolveToInstall(p) \/ CheckUpdate(p) \/ FindPath(p)
    \/ LookUp(p) \/ LookUpToRemove(p) \/ ResolveToApply(p) \/ CheckEnds(p)
    \/ WriteWorkspace(p) \/ CommandEnds(p)

Run(p) == Config(p) \/ Binary(p) \/ Command(p)

Fails(p) ==
    \/ HomeFails(p) \/ EntryNotWritten(p) \/ RemoveFails(p)
    \/ ExtractFails(p) \/ DeleteFails(p)

Next ==
    \/ \E p \in Procs : Run(p) \/ Fails(p) \/ Crash(p)
    \/ \E n \in Names : Release(n)

Spec == Init /\ [][Next]_vars

-----------------------------------------------------------------------------
(* Properties. *)

NobodyRuns    == \A p \in Procs : proc[p].pc \in AtRest
NobodyCrashed == \A p \in Procs : ~At(p, "crashed")

\* An entry of config.json for a version leads to the binary of that version or of
\* an older one, and to that of the version itself while nothing is released,
\* whatever the processes do to the file at the same time and wherever they crash.
\* (An apply that finds a release enters the binary it had under the new version.)
EntryIsOwn ==
    file = "ok" =>
        \A n \in Names : \A v \in Versions :
            LET path == entries[n][v]
            IN path \in {NoPath, v} \/ (path < v /\ n \in released)

\* An entry leads to a binary that was complete once, also when two processes
\* extracted it at the same time or one died extracting it.
EntryWasWhole ==
    file = "ok" =>
        \A n \in Names : \A v \in {Latest} \cup Versions :
            entries[n][v] # NoPath => <<n, entries[n][v]>> \in wholeOnce

\* When the commands run one after the other, none crashes and the home directory can
\* be written, the plugin of every declaration of every workspace starts, unless
\* somebody asked for its removal.
DeclaredWorks ==
    alone /\ NobodyRuns /\ NobodyCrashed /\ ~failed =>
        \A w \in Spaces : \A i \in DOMAIN decls[w] :
            LET d == decls[w][i]
            IN d.name \notin removed => Works(d.name, PathOf(d.name, d.version))

\* "Remove one or more plugins from the download cache": when a remove ended, no
\* provider that it was asked to remove and that is declared has an entry any more.
RemovesAll ==
    \A p \in Procs :
        proc[p].kind = "remove" /\ At(p, "done") /\ NobodyRuns /\ file = "ok" =>
            \A i \in DOMAIN proc[p].list :
                LET d == proc[p].list[i]
                IN d.name \in proc[p].names => entries[d.name][d.version] = NoPath
=============================================================================
