--------------------------- MODULE ModuleExpansion ---------------------------
(***************************************************************************)
(* How apply turns the modules of a workspace into rules: it discovers the *)
(* module files that the workspace's files use (installing the packages of *)
(* the module registry they name), multiplies modules with dotted uses,    *)
(* looks for cycles, links users to the used, flattens the links into one  *)
(* list of modules and reads the rules of each.                            *)
(*                                                                         *)
(* A path is the sequence of its components, so that filepath.Join is the  *)
(* concatenation it is in Go, of absolute paths too, and a use is a path:  *)
(* absolute, relative, "selefra/<package>/...", "app.selefra.io/<org>/     *)
(* <package>/..." or a URL.  The maps of the code are iterated in any      *)
(* order, and every order is a behaviour.  Files do not change while apply *)
(* reads them; a module file begins with its `modules` section.            *)
(***************************************************************************)
EXTENDS Naturals, FiniteSets, Sequences, SequencesExt, Relation

CONSTANTS Contents,    \* the files with modules: functions from their absolute
                       \* paths to sequences of [name, uses]
          RuleFiles,   \* the absolute paths of the files with one rule each
          BrokenRules, \* those whose query is the name of a missing file
          Latest,      \* the latest version of every package of the registry
          Published,   \* the versions a package was published in
          Shelves      \* what may be installed before: [recorded, installed]

WS   == <<"ws">>       \* the workspace
HOME == <<"home">>     \* the home's download/modules
None == ""             \* no version
Other == "other"       \* no version of the registry: an organization's module that is
                       \* called as the package, or what a failing step left

\* The components of paths: any strings, with those that the model names spelled
\* out for the provers.
Words == STRING \cup {"ws", "home", ".", "/", "url", "selefra", "app"}
Paths == Seq(Words)

\* A file is in a directory, it has modules or a rule, and there are finitely many.
ASSUME ModAssumption ==
    /\ \A c \in Contents : /\ IsFiniteSet(DOMAIN c) /\ DOMAIN c \subseteq Paths \ ({<<>>} \cup RuleFiles)
                          /\ \A f \in DOMAIN c : c[f] \in Seq([name : STRING, uses : Seq(Paths)])
    /\ IsFiniteSet(RuleFiles) /\ RuleFiles \subseteq Paths \ {<<>>}

Packages == DOMAIN Latest
Versions == {Latest[p] : p \in Packages} \cup UNION {Published[p] : p \in Packages}
Shelf == [Packages -> Versions \cup {None, Other}]

\* Where config.json records the latest version stands no older one: it, what an
\* organization's module of that name or a failing step left in its place, or nothing.
ASSUME PackageAssumption ==
    /\ Packages \subseteq STRING /\ Shelves \subseteq [recorded : Shelf, installed : Shelf]
    /\ \A s \in Shelves : \A p \in Packages :
           s.recorded[p] = Latest[p] => s.installed[p] \in {Latest[p], None, Other}

VARIABLES
    files,   \* the files with modules; those under HOME need their package
    pkgs,    \* latest: LatestVersion; recorded: config.json, when it is readable;
             \* installed: the disk
    mpc,     \* where GetModulesStr, makeUsesModule and GetRules are
    todo,    \* the files that the current loop over a map has left
    stack,   \* the calls of getAllModules and what each has left
    mods,    \* moduleMap: per known file its modules
    base,    \* the file that assembleNode took first
    walk,    \* the calls of checkCycle and what each has left
    cycle,   \* cyclePathList
    used,    \* usedModuleMap
    loaded,  \* the modules GetModules returns
    rules    \* the rules that will run: [module, path]

modVars == <<files, pkgs, mpc, todo, stack, mods, base, walk, cycle, used,
             loaded, rules>>

known == DOMAIN mods

-----------------------------------------------------------------------------
(* Paths.                                                                   *)

\* The elements of a sequence that are in a set.
Those(s, T) == FlattenSeq([i \in DOMAIN s |-> IF s[i] \in T THEN <<s[i]>> ELSE <<>>])

Begins(p, q) == Len(q) <= Len(p) /\ SubSeq(p, 1, Len(q)) = q
Rest(p, n)   == SubSeq(p, n + 1, Len(p))
Dir(p)       == Front(p)
Join(d, p)   == Those(d \o p, ToSet(d \o p) \ {"."})
IsAbs(p)     == Begins(p, WS) \/ Begins(p, HOME)
IsDotted(p)  == Begins(p, <<".">>)
IsURL(p)     == Begins(p, <<"url">>)
IsOrg(u)     == Begins(u, <<"app">>)
IsHome(u)    == Begins(u, <<"selefra">>) \/ IsOrg(u)
PackageOf(u) == IF IsOrg(u) THEN u[3] ELSE u[2]
InHome(u)    == HOME \o Rest(u, IF IsOrg(u) THEN 2 ELSE 1)

\* A file is in the workspace or the home and no directory, no package is called ".",
\* and a use of a package names one.
ASSUME UseAssumption ==
    /\ \A c \in Contents : \A f, g \in DOMAIN c \cup RuleFiles :
           IsAbs(f) /\ Len(f) > 1 /\ Dir(f) # g
    /\ "." \notin Packages
    /\ \A c \in Contents : \A f \in DOMAIN c : \A i \in DOMAIN c[f] :
           \A k \in DOMAIN c[f][i].uses : LET u == c[f][i].uses[k]
               IN  IsHome(u) => Len(u) >= IF IsOrg(u) THEN 3 ELSE 2

\* A package that is not installed has no files.
OnDisk(s)  == {p \in DOMAIN files \cup RuleFiles :
                  Begins(p, HOME) => s.installed[p[2]] # None}
AllFiles   == OnDisk(pkgs)
FilesIn(d) == {p \in AllFiles : Dir(p) = d}

Uses(f) == FlattenSeq([i \in DOMAIN files[f] |-> files[f][i].uses])

-----------------------------------------------------------------------------
(* ModulesUpdate: the ways in which it can end.  LatestVersion is fetched   *)
(* for the first package only.  A version is there to download only for the *)
(* package that published it.  An org's module is fetched every time, into  *)
(* the directory of the package of its name, and nothing records it.        *)

Left(s, p, v) == [s EXCEPT !.installed[p] = v]

\* A failing removal or download leaves all, a part or nothing in the directory.
Torn(s, p) == {[ok |-> FALSE, pkgs |-> Left(s, p, v)] : v \in {s.installed[p], None, Other}}

UpdateOrg(s, p) == Torn(s, p) \cup {[ok |-> TRUE, pkgs |-> Left(s, p, Other)]}

\* config.json is removed and written with the version; the error of the writing is lost
\* and leaves the file away, so that Home makes an empty one, or cut short.
Recorded(s, p, v) ==
    {[ok |-> FALSE, pkgs |-> s]}
    \cup {[ok |-> TRUE, pkgs |-> t] :
             t \in {[s EXCEPT !.recorded[p] = v], [s EXCEPT !.recorded = [q \in Packages |-> None]],
                    [s EXCEPT !.readable = FALSE]}}

\* Mutant: any version that is there will do.
UpToDate_AnyVersion(s, p, v) == s.installed[p] # None

UpToDate(s, p, v) == s.recorded[p] = v /\ s.installed[p] # None

UpdatePackage(s, p) ==
    LET v == IF s.latest = None THEN Latest[p] ELSE s.latest
        t == [s EXCEPT !.latest = v]
    IN  IF UpToDate(s, p, v) THEN {[ok |-> TRUE, pkgs |-> t]}
        ELSE Torn(t, p) \cup (IF v \in Published[p] THEN Recorded(Left(t, p, v), p, v) ELSE {})

ModulesUpdate(s, u) ==
    {[ok |-> FALSE, pkgs |-> s]}
    \cup IF PackageOf(u) \notin Packages \/ ~s.readable THEN {}
         ELSE IF IsOrg(u) THEN UpdateOrg(s, PackageOf(u)) ELSE UpdatePackage(s, PackageOf(u))

-----------------------------------------------------------------------------
(* getAllModules and checkModuleFile.                                       *)

ModInit ==
    /\ files \in Contents
    /\ pkgs \in {[latest |-> None, recorded |-> s.recorded, installed |-> s.installed,
                   readable |-> TRUE] : s \in Shelves}
    /\ mods = [f \in {g \in DOMAIN files : Begins(g, WS)} |-> <<>>]
    /\ todo = {g \in DOMAIN files : Begins(g, WS)}
    /\ mpc = "discover"
    /\ stack = <<>> /\ walk = <<>> /\ cycle = <<>> /\ base = <<>>
    /\ used = {} /\ loaded = <<>> /\ rules = <<>>

\* A call for a file goes on with its uses, one for a directory with its files.
Call(at, ws, disk) ==
    [at |-> at, ws |-> ws,
     left |-> IF at \in DOMAIN files THEN Uses(at) ELSE SetToSeq({f \in disk : Dir(f) = at})]

Top     == Last(stack)
Skipped == [stack EXCEPT ![Len(stack)].left = Tail(@)]
Pending == mpc = "discover" /\ stack # <<>> /\ Top.left # <<>>

\* The loop of GetModulesStr over the files of the workspace.
DiscoverFile(f) ==
    /\ mpc = "discover" /\ stack = <<>> /\ f \in todo
    /\ todo' = todo \ {f}
    /\ stack' = <<Call(f, WS, AllFiles)>>
    /\ UNCHANGED <<files, pkgs, mpc, mods, base, walk, cycle, used, loaded, rules>>

\* The recursive call for a file or directory.  Nothing stops a recursion into
\* one whose call is still open, so that it ends with the stack of the process.
Enter(at, ws, disk) ==
    IF \E i \in DOMAIN stack : stack[i].at = at
    THEN mpc' = "overflow" /\ UNCHANGED <<stack, mods>>
    ELSE /\ stack' = IF at \in (disk \cap DOMAIN files) \cup {Dir(f) : f \in disk}
                     THEN Append(Skipped, Call(at, ws, disk)) ELSE Skipped
         /\ mods' = [f \in known \cup ({at} \cap disk \cap DOMAIN files) |-> <<>>]
         /\ UNCHANGED mpc

FollowPath ==
    /\ Pending /\ ~IsHome(Head(Top.left))
    /\ LET u == Head(Top.left)
       IN  Enter(IF Top.at \in DOMAIN files THEN Join(Top.ws, u) ELSE u, Top.ws, AllFiles)
    /\ UNCHANGED <<files, pkgs, todo, base, walk, cycle, used, loaded, rules>>

\* A use of a package installs it first; when that fails the path leads nowhere.
FollowPackage ==
    /\ Pending /\ IsHome(Head(Top.left))
    /\ LET u == Head(Top.left)
       IN  \E r \in ModulesUpdate(pkgs, u) :
               /\ pkgs' = r.pkgs
               /\ IF r.ok THEN Enter(InHome(u), HOME \o <<PackageOf(u)>>, OnDisk(r.pkgs))
                          ELSE stack' = Skipped /\ UNCHANGED <<mpc, mods>>
    /\ UNCHANGED <<files, todo, base, walk, cycle, used, loaded, rules>>

DiscoverReturns ==
    /\ mpc = "discover" /\ stack # <<>> /\ Top.left = <<>>
    /\ stack' = Front(stack)
    /\ UNCHANGED <<files, pkgs, mpc, todo, mods, base, walk, cycle, used, loaded, rules>>

-----------------------------------------------------------------------------
(* assembleNode, fmtNodePath and deepPathModules.                           *)

\* fmtNodePath joins the file's directory to the value of the `uses` node, once
\* for every dotted use; the value of a list is empty, and the copy that is made
\* of the first file loses it.
UsesValue(f, m, b) ==
    IF f = b THEN <<>>
    ELSE FlattenSeq([i \in DOMAIN m.uses |-> IF IsDotted(m.uses[i]) THEN Dir(f) ELSE <<>>])

Assemble ==
    /\ mpc = "discover" /\ stack = <<>> /\ todo = {}
    /\ \E b \in IF known = {} THEN {<<>>} ELSE known :
        /\ base' = b
        /\ mods' = [f \in known |-> [i \in DOMAIN files[f] |->
                        [name |-> <<files[f][i].name>>, uses |-> files[f][i].uses,
                         value |-> UsesValue(f, files[f][i], b), children |-> <<>>]]]
    /\ mpc' = "deep" /\ todo' = known
    /\ UNCHANGED <<files, pkgs, stack, walk, cycle, used, loaded, rules>>

\* One turn of the inner loop: a module whose value names a directory is replaced
\* by one copy per other file in it, at the end of the list that the loop runs on.
DeepPathModule(f, s, i) ==
    LET others == FilesIn(s.list[i].value) \ {f}
        copies == [j \in 1 .. Cardinality(others) |->
                      [s.list[i] EXCEPT !.value = SetToSeq(others)[j]]]
    IN  IF s.stop \/ s.list[i].value \in AllFiles THEN s
        ELSE IF FilesIn(s.list[i].value) = {} THEN [s EXCEPT !.stop = TRUE]
        ELSE IF others = {} THEN s
        ELSE [s EXCEPT !.list = RemoveAt(@, i) \o copies]

DeepPathLoop(f) ==
    LET s[i \in 0 .. Len(mods[f])] == IF i = 0 THEN [list |-> mods[f], stop |-> FALSE]
                                      ELSE DeepPathModule(f, s[i - 1], i)
    IN  s

\* An error ends the loop over the files; nobody looks at it.
DeepPathModules(f) ==
    /\ mpc = "deep" /\ f \in todo
    /\ LET s == DeepPathLoop(f)[Len(mods[f])]
       IN  /\ mods' = [mods EXCEPT ![f] = s.list]
           /\ todo' = IF s.stop THEN {} ELSE todo \ {f}
    /\ UNCHANGED <<files, pkgs, mpc, stack, base, walk, cycle, used, loaded, rules>>

DeepPathEnds ==
    /\ mpc = "deep" /\ todo = {}
    /\ mpc' = "cycle" /\ todo' = known
    /\ UNCHANGED <<files, pkgs, stack, mods, base, walk, cycle, used, loaded, rules>>

-----------------------------------------------------------------------------
(* makeCyclePathMap and checkCycle.                                         *)

\* cyclePathMap: an edge is a use that is, as it is written, a known file.
Edges(f) == FlattenSeq([i \in DOMAIN mods[f] |-> Those(mods[f][i].uses, known)])

Turn  == Last(walk)
Start == Head(walk).at

\* Mutant: the check starts at one file only.
CheckFile_First(f) ==
    /\ mpc = "cycle" /\ walk = <<>> /\ f \in todo
    /\ todo' = {}
    /\ walk' = <<[at |-> f, left |-> Edges(f)]>>
    /\ cycle' = <<f>>
    /\ UNCHANGED <<files, pkgs, mpc, stack, mods, base, used, loaded, rules>>

CheckFile(f) ==
    /\ mpc = "cycle" /\ walk = <<>> /\ f \in todo
    /\ todo' = todo \ {f}
    /\ walk' = <<[at |-> f, left |-> Edges(f)]>>
    /\ cycle' = <<f>>
    /\ UNCHANGED <<files, pkgs, mpc, stack, mods, base, used, loaded, rules>>

\* Mutant: the recursive call gets the list of its caller.
CallFor_SameList(p) == [at |-> p, left |-> Edges(Turn.at)]

CallFor(p) == [at |-> p, left |-> Edges(p)]

\* The next path of pathList: the start closes a cycle; otherwise the check goes
\* on from it, for ever when it is on a cycle that the start is not on.
CheckPath ==
    /\ mpc = "cycle" /\ walk # <<>> /\ Turn.left # <<>>
    /\ LET p    == Head(Turn.left)
           rest == [walk EXCEPT ![Len(walk)].left = Tail(@)]
       IN  /\ cycle' = Append(cycle, p)
           /\ walk' = Append(rest, CallFor(p))
           /\ mpc' = IF p = Start THEN "refused"
                     ELSE IF \E i \in DOMAIN walk : walk[i].at = p THEN "overflow"
                     ELSE "cycle"
    /\ UNCHANGED <<files, pkgs, todo, stack, mods, base, used, loaded, rules>>

\* Mutant: the path of a dead end stays in the list.
CheckReturns_KeepsPath ==
    /\ mpc = "cycle" /\ walk # <<>> /\ Turn.left = <<>>
    /\ walk' = Front(walk)
    /\ UNCHANGED <<files, pkgs, mpc, todo, stack, mods, base, cycle, used, loaded, rules>>

CheckReturns ==
    /\ mpc = "cycle" /\ walk # <<>> /\ Turn.left = <<>>
    /\ walk' = Front(walk)
    /\ cycle' = Front(cycle)
    /\ UNCHANGED <<files, pkgs, mpc, todo, stack, mods, base, used, loaded, rules>>

CheckEnds ==
    /\ mpc = "cycle" /\ walk = <<>> /\ todo = {}
    /\ mpc' = "uses" /\ todo' = known
    /\ UNCHANGED <<files, pkgs, stack, mods, base, walk, cycle, used, loaded, rules>>

-----------------------------------------------------------------------------
(* makeUsesModule.                                                          *)

\* The updates that rewriting the uses of f makes; when that of an org's module
\* fails its path leads nowhere, when another one fails GetModules does.
Rewriting(S, u, at) ==
    UNION {IF ~s.ok THEN {s}
           ELSE {[ok |-> r.ok \/ IsOrg(u), pkgs |-> r.pkgs,
                  lost |-> IF r.ok THEN s.lost ELSE s.lost \cup {at}] :
                     r \in ModulesUpdate(s.pkgs, u)} : s \in S}

UseAt(f, at) == mods[f][at[1]].uses[at[2]]

Rewritings(f) ==
    LET all   == FlattenSeq([i \in DOMAIN mods[f] |-> [k \in DOMAIN mods[f][i].uses |-> <<i, k>>]])
        homes == Those(all, {at \in ToSet(all) : IsHome(UseAt(f, at))})
        S[k \in 0 .. Len(homes)] == IF k = 0 THEN {[ok |-> TRUE, pkgs |-> pkgs, lost |-> {}]}
                                    ELSE Rewriting(S[k - 1], UseAt(f, homes[k]), homes[k])
    IN  S[Len(homes)]

Rewritten(u, lost) ==
    IF lost THEN <<"/">> \o Rest(u, 2) ELSE IF IsHome(u) THEN InHome(u) ELSE u

\* Mutant: a use counts as a module whether or not there is such a file.
LinkUse_Unchecked(f, i, s, k) == [s EXCEPT ![f][i].children = Append(@, s[f][i].uses[k])]

\* One turn of the second loop: the file u becomes a child of module i of f, and
\* the uses of all its modules are joined to its directory, whatever they are.
Rebased(list, d) ==
    [j \in DOMAIN list |-> [list[j] EXCEPT !.uses = [n \in DOMAIN @ |-> Join(d, @[n])]]]

LinkUse(f, i, s, k) ==
    LET u == s[f][i].uses[k]
        t == [s EXCEPT ![u] = Rebased(@, Dir(u))]
    IN  IF u \notin known THEN s ELSE [t EXCEPT ![f][i].children = Append(@, u)]

LinkModule(f, s, i) ==
    LET n == Len(s[f][i].uses)
        t[k \in 0 .. n] == IF k = 0 THEN s ELSE LinkUse(f, i, t[k - 1], k)
    IN  t[n]

LinkedFrom(f, s) == UNION {ToSet(s[f][i].children) : i \in DOMAIN s[f]}

LinkModules(f, m) ==
    LET s[i \in 0 .. Len(m)] == IF i = 0 THEN [mods EXCEPT ![f] = m] ELSE LinkModule(f, s[i - 1], i)
    IN  s[Len(m)]

LinkFile(f) ==
    /\ mpc = "uses" /\ f \in todo
    /\ \E r \in Rewritings(f) :
        LET m == [i \in DOMAIN mods[f] |->
                     [mods[f][i] EXCEPT !.uses = [k \in DOMAIN @ |-> Rewritten(@[k], <<i, k>> \in r.lost)]]]
            s == LinkModules(f, m)
        IN  /\ pkgs' = r.pkgs
            /\ IF r.ok
               THEN /\ mods' = s
                    /\ used' = used \cup LinkedFrom(f, s)
                    /\ todo' = todo \ {f}
                    /\ UNCHANGED mpc
               ELSE mpc' = "refused" /\ UNCHANGED <<mods, used, todo>>
    /\ UNCHANGED <<files, stack, base, walk, cycle, loaded, rules>>

\* A list of modules, with the name of their user before their own.
Under(user, list) == [j \in DOMAIN list |-> [list[j] EXCEPT !.name = user \o @]]

\* deepFmtModules for every module of a file: the modules of its children, as deep as
\* the links go, and then the module without its uses of modules.
DeepFmt[depth \in 0 .. Cardinality(known)] ==
    [f \in known |->
        LET below(m) == IF depth = 0 THEN <<>>
                        ELSE FlattenSeq([k \in DOMAIN m.children |->
                                 Under(m.name, DeepFmt[depth - 1][m.children[k]])])
            own(m)   == [name |-> m.name, uses |-> Those(m.uses, ToSet(m.uses) \ used)]
        IN  FlattenSeq([i \in DOMAIN mods[f] |-> Append(below(mods[f][i]), own(mods[f][i]))])]

Child == [p \in known \X known |-> p[2] \in LinkedFrom(p[1], mods)]

Cyclic(R, f) == LET C == TransitiveClosure(R, known)
                IN  \E g \in known : C[g, g] /\ (g = f \/ C[f, g])

\* Mutant: the files that others use are not skipped.
Roots_All == known

Roots == known \ used

\* The files that nobody uses are copied through JSON, which refuses a cycle.
Flatten ==
    /\ mpc = "uses" /\ todo = {}
    /\ IF \E f \in Roots : Cyclic(Child, f)
       THEN mpc' = "refused" /\ UNCHANGED loaded
       ELSE /\ mpc' = "load"
            /\ loaded' = LET roots == SetToSeq(Roots)
                         IN  FlattenSeq([i \in DOMAIN roots |-> DeepFmt[Cardinality(known)][roots[i]]])
    /\ UNCHANGED <<files, pkgs, todo, stack, mods, base, walk, cycle, used, rules>>

-----------------------------------------------------------------------------
(* GetAllRules, GetRules and GetModuleRules.                                *)

ReadAs(u) == IF IsAbs(u) \/ IsURL(u) THEN u ELSE Join(WS, u)

\* One unreadable use and the module has no rules.
ModuleRules(m, net) ==
    LET paths == [k \in DOMAIN m.uses |-> ReadAs(m.uses[k])]
        there == AllFiles \cup {u \in ToSet(paths) : IsURL(u) /\ net}
        found == Those(paths, ToSet(paths) \ DOMAIN files)
    IN  IF ToSet(paths) \subseteq there
        THEN [k \in DOMAIN found |-> [module |-> m.name, path |-> found[k]]]
        ELSE <<>>

\* Without modules: one missing query and the workspace has no rules.
WorkspaceRules ==
    LET all == {p \in RuleFiles : Begins(p, WS)}
    IN  IF all \cap BrokenRules # {} THEN <<>>
        ELSE [k \in 1 .. Cardinality(all) |-> [module |-> <<>>, path |-> SetToSeq(all)[k]]]

GetRules ==
    /\ mpc = "load"
    /\ \E net \in BOOLEAN :
        rules' = IF loaded = <<>> THEN WorkspaceRules
                 ELSE FlattenSeq([i \in DOMAIN loaded |-> ModuleRules(loaded[i], net)])
    /\ mpc' = "loaded"
    /\ UNCHANGED <<files, pkgs, todo, stack, mods, base, walk, cycle, used, loaded>>

\* apply reports the failure of GetModules and prints its error; the variable
\* holds the error of the report by then, and apply panics when there is none.
ReportRefusal ==
    /\ mpc = "refused"
    /\ mpc' \in {"ended", "panicked"}
    /\ UNCHANGED <<files, pkgs, todo, stack, mods, base, walk, cycle, used, loaded, rules>>

ModNext ==
    \/ \E f \in todo : DiscoverFile(f)
    \/ \E f \in todo : DeepPathModules(f)
    \/ \E f \in todo : CheckFile(f)
    \/ \E f \in todo : LinkFile(f)
    \/ FollowPath \/ FollowPackage \/ DiscoverReturns
    \/ Assemble \/ DeepPathEnds
    \/ CheckPath \/ CheckReturns \/ CheckEnds
    \/ Flatten \/ GetRules \/ ReportRefusal

ModSpec == ModInit /\ [][ModNext]_modVars

-----------------------------------------------------------------------------
(* The properties.                                                          *)

Reads == {"discover", "deep", "cycle", "uses", "load"}

(* The type of the state; a child, or a used file, is always a known file.  *)
ModTypeOK ==
    /\ files \in Contents
    /\ pkgs \in [latest : Versions \cup {None}, recorded : Shelf, installed : Shelf,
                 readable : BOOLEAN]
    /\ mpc \in Reads \cup {"loaded", "overflow", "refused", "ended", "panicked"}
    /\ known \subseteq DOMAIN files
    /\ \A f \in known : LinkedFrom(f, mods) \subseteq known
    /\ todo \subseteq known
    /\ used \subseteq known
    /\ base \in known \cup {<<>>}
    /\ mpc # "discover" => stack = <<>> \/ mpc = "overflow"
    /\ \A r \in ToSet(rules) : ~IsDotted(r.path)

\* The files that a module file uses, from the source's point of view: Target is
\* where a use leads, whether or not its package could be installed.
BaseOf(f)    == IF Begins(f, HOME) THEN SubSeq(f, 1, 2) ELSE WS
Target(f, u) == IF IsHome(u) THEN InHome(u) ELSE Join(BaseOf(f), u)
Follows == [p \in (DOMAIN files) \X (DOMAIN files) |->
               \E u \in ToSet(Uses(p[1])) :
                   LET t == Target(p[1], u) IN p[2] = t \/ Dir(p[2]) = t]
Names   == [p \in (DOMAIN files) \X (DOMAIN files) |-> p[2] \in ToSet(Uses(p[1]))]

Onward(R, S) == {g \in DOMAIN files : \E f \in S : R[<<f, g>>]}

\* The files that are in every set of files which they lead to and nothing leads out of.
OnCycle(R) == {f \in DOMAIN files : \A S \in SUBSET DOMAIN files :
                   Onward(R, {f}) \subseteq S /\ Onward(R, S) \subseteq S => f \in S}

(* config.go:461-466: a reported cycle is one, from the file that the check *)
(* started at back to it along uses, without the files of dead ends.        *)
CycleIsReal ==
    mpc \in {"refused", "ended", "panicked"} /\ walk # <<>> =>
        /\ Len(cycle) > 1 /\ cycle[1] = Last(cycle)
        /\ \A i \in 1 .. Len(cycle) - 1 : Names[<<cycle[i], cycle[i + 1]>>]

(* config.go:504, 743: the two recursions without a visited set end when    *)
(* nothing uses itself, directly or through others.                         *)
OverflowHasCycle ==
    mpc = "overflow" => (OnCycle(Follows) \cup OnCycle(Names)) # {}

(* config.go:460: no module on a cycle of absolute uses gets into the list  *)
(* of modules, whichever file the check starts at.  A file that nobody      *)
(* discovered is on no cycle.                                               *)
NamesKnown == [p \in (DOMAIN files) \X (DOMAIN files) |-> Names[p] /\ {p[1], p[2]} \subseteq known]

CycleIsRefused ==
    mpc = "load" => OnCycle(NamesKnown) = {}

\* The uses of the known files, as [file, module, use].
UseSites == UNION {UNION {{<<f, i, k>> : k \in DOMAIN files[f][i].uses} :
                              i \in DOMAIN files[f]} : f \in known}
Site(t)     == files[t[1]][t[2]].uses[t[3]]
Linked(t)   == IF IsHome(Site(t)) THEN InHome(Site(t)) ELSE Site(t)
LinkSites   == {t \in UseSites : Linked(t) \in known}
LinksTo(f)  == {t \in LinkSites : Linked(t) = f}

\* What the module of a rule is called and where the rule is, by its declaration.
Declared(t) ==
    LET f == t[1]
        m == files[f][t[2]].name
    IN  IF LinksTo(f) = {} THEN [module |-> <<m>>, path |-> ReadAs(Linked(t))]
        ELSE LET l == CHOOSE l \in LinksTo(f) : TRUE
             IN  [module |-> <<files[l[1]][l[2]].name, m>>, path |-> Join(Dir(f), Site(t))]

\* The workspaces that the expansion is made for: no use begins with a dot, a file has
\* one user, what is used uses rules by relative paths only; and every rule is there.
Tame ==
    /\ \A t \in UseSites : ~IsDotted(Site(t))
    /\ \A f \in known : Cardinality(LinksTo(f)) <= 1
    /\ \A t \in UseSites : LinksTo(t[1]) # {} =>
           /\ t \notin LinkSites /\ ~IsHome(Site(t)) /\ ~IsAbs(Site(t)) /\ ~IsURL(Site(t))
           /\ Join(Dir(t[1]), Site(t)) \notin known
RulesThere == \A t \in UseSites \ LinkSites : Declared(t).path \in AllFiles \cap RuleFiles

\* No module of an organization failed to be fetched when it was linked, which apply
\* tells the user only.
Fetched == \A t \in UseSites : IsOrg(Site(t)) => UseAt(t[1], <<t[2], t[3]>>) = Linked(t)

(* config.go:619, 696, apply.go:413: in a tame workspace every rule that a  *)
(* module declares is loaded once, from where it is, under the names of its *)
(* users and its module, in whatever order the maps are iterated.           *)
LoadedAsDeclared ==
    mpc = "loaded" /\ loaded # <<>> /\ Tame /\ RulesThere /\ Fetched =>
        LET sites == UseSites \ LinkSites
            all   == ToSet(rules) \cup {Declared(t) : t \in sites}
        IN  \A e \in all : Cardinality({k \in DOMAIN rules : rules[k] = e})
                           = Cardinality({t \in sites : Declared(t) = e})

(* home.go:252-297: a workspace that uses one package of the registry, by  *)
(* the name that updates it, runs its rules in no version but the latest.   *)
(* (Where the latest is recorded, an organization's module of that name, or *)
(* what a failing step left, may have taken its place, and counts as it.    *)
(* With two packages the second is compared with the latest version of the  *)
(* first, and an absolute path to an installed package does not update it.) *)
RulesAreLatest ==
    mpc = "loaded" =>
        LET uses == {Site(t) : t \in UseSites}
            pkg  == {PackageOf(u) : u \in {w \in uses : IsHome(w)}}
        IN  \A p \in pkg : pkg = {p} /\ (\A u \in uses : ~IsOrg(u) /\ ~Begins(u, HOME)) =>
                \A r \in ToSet(rules) : Begins(r.path, HOME) /\ r.path[2] = p =>
                    pkgs.installed[p] \in {Latest[p], Other}
=============================================================================
