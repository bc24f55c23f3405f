----------------------- MODULE ProviderRegistryProofs -----------------------
(***************************************************************************)
(* Proofs about ProviderRegistry, for any processes, providers, versions,  *)
(* workspaces, commands and faults: whatever the processes do to           *)
(* config.json at the same time, its entries lead to binaries that were    *)
(* complete once, and are those of the versions they stand for; and while  *)
(* commands run one at a time, what the workspaces declare works.          *)
(***************************************************************************)
EXTENDS ProviderRegistry, SequenceTheorems, TLAPS

-----------------------------------------------------------------------------
(* The inductive invariant. *)

Opening == {"home", "create", "fill"}

\* What a process does, or goes on with when utils.Home returns.
Stage(p) == IF proc[p].pc \in Opening THEN proc[p].then ELSE proc[p].pc

\* It is about to change config.json.
Entering == {"read", "unlink", "open", "put"}

\* It is in a turn of its loop, and so has an item.
InTurn == Entering \cup {"lookup", "stat", "extract", "extracting", "start", "delete"}

\* Where a command may be, and with what.
ControlOf(p) ==
    /\ Stage(p) \in InTurn => proc[p].turn \in DOMAIN proc[p].todo
    /\ proc[p].then \in {"next", "lookup", "start", "read"}
    /\ proc[p].pc = "idle" => proc[p].then = "next"
    /\ Stage(p) \in {"stat", "extract", "extracting"} =>
          proc[p].kind \in {"install", "init", "update"} /\ proc[p].version \in Versions
    /\ Stage(p) \in {"delete", "unlink"} => proc[p].kind = "remove"
    /\ Stage(p) = "lookup" => proc[p].kind \in {"remove", "fetch"} \/ Checks(p)
    /\ Stage(p) = "start" =>
          proc[p].kind # "remove" /\ (Installs(p) => proc[p].version \in Versions)
    /\ Stage(p) \in Entering =>
          \/ proc[p].kind = "remove"
          \/ proc[p].kind \in {"install", "init", "apply"} /\ proc[p].version \in Versions

\* What a command that reads the declarations knows of them.
Mirrors(p) ==
    /\ proc[p].checked => proc[p].kind = "apply"
    /\ ~Installs(p) =>
          /\ DOMAIN proc[p].list = DOMAIN proc[p].todo
          /\ \A i \in DOMAIN proc[p].todo :
                /\ proc[p].list[i].name = proc[p].todo[i].name
                /\ ~proc[p].checked => proc[p].list[i].version = proc[p].todo[i].version

\* The versions of a provider that may pass for its latest one, ...
FreshOnes ==
    [n \in Names |-> {v \in Versions : v = newest[n] \/ (v < newest[n] /\ n \in released)}]

\* ... and the paths that may stand in config.json for a version.
Paths ==
    [n \in Names |-> [v \in {Latest} \cup Versions |->
        {NoPath} \cup
        IF v = Latest THEN {path \in FreshOnes[n] : <<n, path>> \in wholeOnce}
        ELSE {path \in Versions :
                 <<n, path>> \in wholeOnce /\ (path = v \/ (path < v /\ n \in released))}]]

SoundMap(map) == \A n \in Names : \A v \in {Latest} \cup Versions : map[n][v] \in Paths[n][v]

\* The paths in the hands of a command: those it looked up for the declarations, ...
SoundList(p) ==
    ~Installs(p) =>
        \A i \in DOMAIN proc[p].list :
            LET d == proc[p].list[i]
            IN  /\ d.path \in Paths[d.name][d.version]
                /\ proc[p].todo[i].version = Latest => d.path \in Paths[d.name][Latest]

\* ... the version it resolved, and the path it is about to enter.
SoundTurn(p) ==
    /\ Installs(p) /\ Stage(p) \in InTurn =>
          /\ proc[p].todo[proc[p].turn].version = Latest => proc[p].version \in FreshOnes[Item(p).name]
          /\ Stage(p) \in Entering \cup {"start"} => proc[p].path = proc[p].version
    /\ Stage(p) \in Entering /\ proc[p].kind # "remove" =>
          /\ proc[p].path \in Paths[Item(p).name][proc[p].version]
          /\ proc[p].todo[proc[p].turn].version = Latest => proc[p].path \in Paths[Item(p).name][Latest]

RegistryInv ==
    /\ TypeOK
    /\ \A p \in Procs : ControlOf(p) /\ Mirrors(p)
    /\ WholeOnes \subseteq wholeOnce
    /\ SoundMap(entries)
    /\ \A p \in Procs : SoundMap(proc[p].map) /\ SoundList(p) /\ SoundTurn(p)

-----------------------------------------------------------------------------
(* Types. *)

LEMMA VersionTypes ==
  /\ Newest \in Nat \ {0} /\ Versions \subseteq Nat \ {0}
  /\ NoPath \notin Versions /\ Latest \notin Versions /\ NoPath = 0 /\ Latest = 0
  /\ NoEntry \in Entries
  /\ \A n \in Names : \A v \in {Latest} \cup Versions : NoEntry[n][v] = NoPath
  /\ \A v \in Versions : v < Newest => v + 1 \in Versions
<1>1. Newest \in Nat \ {0}
  BY RegistryAssumption
<1>2. Versions \subseteq Nat \ {0} /\ 0 \notin Versions
  BY <1>1 DEF Versions
<1>3. NoEntry \in Entries /\ \A n \in Names : \A v \in {Latest} \cup Versions : NoEntry[n][v] = NoPath
  BY DEF NoEntry, Entries
<1>4. \A v \in Versions : v < Newest => v + 1 \in Versions
  BY <1>1 DEF Versions
<1> QED
  BY <1>1, <1>2, <1>3, <1>4 DEF NoPath, Latest

LEMMA Mapped ==
  ASSUME NEW S, NEW T, NEW s \in Seq(S), NEW f, DOMAIN f = DOMAIN s, f = [i \in DOMAIN f |-> f[i]],
         \A i \in DOMAIN s : f[i] \in T
  PROVE  f \in Seq(T)
<1>1. Len(s) \in Nat /\ DOMAIN s = 1 .. Len(s)
  OBVIOUS
<1>2. f \in [1 .. Len(s) -> T]
  BY <1>1
<1> QED
  BY <1>1, <1>2, SeqDef

LEMMA Updated ==
  ASSUME NEW S, NEW s \in Seq(S), NEW i \in DOMAIN s, NEW e \in S
  PROVE  /\ [s EXCEPT ![i] = e] \in Seq(S) /\ DOMAIN [s EXCEPT ![i] = e] = DOMAIN s
         /\ \A j \in DOMAIN s : [s EXCEPT ![i] = e][j] = IF j = i THEN e ELSE s[j]
<1>1. DOMAIN [s EXCEPT ![i] = e] = DOMAIN s
  OBVIOUS
<1>2. \A j \in DOMAIN s : [s EXCEPT ![i] = e][j] = IF j = i THEN e ELSE s[j]
  OBVIOUS
<1>3. [s EXCEPT ![i] = e] \in Seq(S)
  BY <1>1, <1>2, Mapped
<1> QED
  BY <1>1, <1>2, <1>3

\* The item of who is in a turn.
LEMMA ItemTypes ==
  ASSUME TypeOK, NEW p \in Procs, ~Over(p)
  PROVE  /\ Item(p).name \in Names /\ Item(p).version \in {Latest} \cup Versions
         /\ Installs(p) => proc[p].turn \in DOMAIN proc[p].todo /\ Item(p) \in Decl
         /\ ~Installs(p) => proc[p].turn \in DOMAIN proc[p].list /\ Item(p) \in Loaded
<1>1. proc[p].list \in Seq(Loaded) /\ proc[p].todo \in Seq(Decl) /\ proc[p].turn \in Nat \ {0}
  BY DEF TypeOK, Process
<1>2. CASE Installs(p)
  <2>1. proc[p].turn \in DOMAIN proc[p].todo
    BY <1>1, <1>2 DEF Over
  <2>2. Item(p) \in Decl
    BY <1>1, <1>2, <2>1 DEF Item
  <2> QED
    BY <1>2, <2>1, <2>2 DEF Decl
<1>3. CASE ~Installs(p)
  <2>1. proc[p].turn \in DOMAIN proc[p].list
    BY <1>1, <1>3 DEF Over
  <2>2. Item(p) \in Loaded
    BY <1>1, <1>3, <2>1 DEF Item
  <2> QED
    BY <1>3, <2>1, <2>2 DEF Loaded
<1> QED
  BY <1>2, <1>3

LEMMA TurnHasItem ==
  ASSUME TypeOK, NEW p \in Procs, ControlOf(p), Mirrors(p), Stage(p) \in InTurn
  PROVE  ~Over(p)
<1>1. proc[p].list \in Seq(Loaded) /\ proc[p].todo \in Seq(Decl) /\ proc[p].turn \in Nat \ {0}
  BY DEF TypeOK, Process
<1>2. proc[p].turn \in DOMAIN proc[p].todo /\ (~Installs(p) => DOMAIN proc[p].list = DOMAIN proc[p].todo)
  BY DEF ControlOf, Mirrors
<1> QED
  BY <1>1, <1>2 DEF Over

\* A step of p leaves the others where they are: it only makes what they have open
\* stale.
Kept(q) ==
    \/ proc'[q] = proc[q]
    \/ /\ proc[q].pc \in {"fill", "put", "extracting"}
       /\ proc'[q] = [proc[q] EXCEPT !.handle = "stale"]

LEMMA OthersKept ==
  ASSUME TypeOK, NEW p \in Procs, Run(p) \/ Crash(p), NEW q \in Procs, q # p
  PROVE  Kept(q)
<1> USE DEF TypeOK, Kept, Goto, Home, Continue
<1>1. CASE UnlinkConfig(p) \/ Extract(p) \/ DeleteBinary(p)
  BY <1>1 DEF UnlinkConfig, Extract, DeleteBinary, Overtaken
<1>2. CASE StatConfig(p) \/ CreateConfig(p) \/ FillConfig(p) \/ ReadToAdd(p) \/ ReadToRemove(p)
           \/ OpenConfig(p)
  BY <1>2 DEF StatConfig, CreateConfig, FillConfig, ReadToAdd, ReadToRemove, OpenConfig, OpenFile
<1>3. CASE PutConfig(p)
  BY <1>3 DEF PutConfig, Entered
<1>4. CASE StatBinary(p) \/ DownloadFails(p) \/ Extracted(p) \/ StartPlugin(p) \/ StartFails(p)
  BY <1>4 DEF StatBinary, DownloadFails, Extracted, StartPlugin, StartFails
<1>5. CASE Begin(p)
  BY <1>5 DEF Begin
<1>6. CASE ResolveToInstall(p) \/ CheckUpdate(p) \/ FindPath(p) \/ LookUp(p) \/ LookUpToRemove(p)
  BY <1>6 DEF ResolveToInstall, CheckUpdate, FindPath, LookUp, Found, LookUpToRemove, FoundToRemove
<1>7. CASE ResolveToApply(p) \/ CheckEnds(p) \/ WriteWorkspace(p) \/ CommandEnds(p) \/ Crash(p)
  BY <1>7 DEF ResolveToApply, CheckEnds, WriteWorkspace, CommandEnds, Crash
<1> QED
  BY <1>1, <1>2, <1>3, <1>4, <1>5, <1>6, <1>7 DEF Run, Config, Binary, Command

\* The list of declarations that a command begins with.
LEMMA ListBegun ==
  ASSUME TypeOK, NEW w \in Spaces, NEW list,
         list = [i \in DOMAIN decls[w] |-> [name |-> decls[w][i].name,
                     version |-> decls[w][i].version, path |-> NoPath]]
  PROVE  list \in Seq(Loaded) /\ DOMAIN list = DOMAIN decls[w]
<1>1. decls[w] \in Seq(Decl)
  BY DEF TypeOK
<1>2. \A i \in DOMAIN decls[w] : decls[w][i] \in Decl
  BY <1>1
<1>3. \A i \in DOMAIN decls[w] : list[i] \in Loaded
  BY <1>2 DEF Decl, Loaded
<1>4. list = [i \in DOMAIN list |-> list[i]] /\ DOMAIN list = DOMAIN decls[w]
  OBVIOUS
<1> QED
  BY <1>1, <1>3, <1>4, Mapped

LEMMA ListWritten ==
  ASSUME NEW list \in Seq(Loaded), NEW written,
         written = [i \in DOMAIN list |-> [name |-> list[i].name, version |-> list[i].version]]
  PROVE  written \in Seq(Decl) /\ DOMAIN written = DOMAIN list
<1>1. \A i \in DOMAIN list : list[i] \in Loaded
  OBVIOUS
<1>2. \A i \in DOMAIN list : written[i] \in Decl
  BY <1>1 DEF Decl, Loaded
<1>3. written = [i \in DOMAIN written |-> written[i]] /\ DOMAIN written = DOMAIN list
  OBVIOUS
<1> QED
  BY <1>2, <1>3, Mapped

\* What the steps that change more than the place of p do to its record.
LEMMA BeginRecord ==
  ASSUME TypeOK, NEW p \in Procs, Begin(p)
  PROVE  /\ proc'[p] \in Process
         /\ proc'[p].kind = proc[p].kind /\ proc'[p].space = proc[p].space
         /\ proc[p].pc = "idle" /\ proc'[p].pc \in {"home", "next"}
         /\ \A x \in {"then", "turn", "version", "path", "map", "checked", "errored", "handle"} :
               proc'[p][x] = proc[p][x]
         /\ ~Installs(p) => proc'[p].todo = decls[proc[p].space]
         /\ proc[p].kind # "init" =>
               /\ DOMAIN proc'[p].list = DOMAIN decls[proc[p].space]
               /\ \A i \in DOMAIN decls[proc[p].space] :
                     /\ proc'[p].list[i].name = decls[proc[p].space][i].name
                     /\ proc'[p].list[i].version = decls[proc[p].space][i].version
                     /\ proc'[p].list[i].path = NoPath
         /\ proc[p].kind = "init" => proc'[p].list = <<>>
         /\ proc[p].kind = "remove" => removed' = removed \cup proc'[p].names
         /\ removed \subseteq removed' /\ removed' \subseteq Names
<1> DEFINE given == decls[proc[p].space]
           list  == [i \in DOMAIN given |-> [name |-> given[i].name,
                        version |-> given[i].version, path |-> NoPath]]
<1>1. PICK todo \in (IF Installs(p) THEN Args ELSE {given}),
           names \in (IF proc[p].kind \in {"remove", "update"} THEN SUBSET Names ELSE {{}}) :
        /\ proc' = [proc EXCEPT
              ![p].list = IF proc[p].kind = "init" THEN <<>> ELSE list,
              ![p].todo = todo, ![p].names = names,
              ![p].pc = IF proc[p].kind \in {"fetch", "test", "apply"} THEN "next" ELSE "home"]
        /\ removed' = IF proc[p].kind = "remove" THEN removed \cup names ELSE removed
  BY DEF Begin
<1>2. proc[p] \in Process /\ proc[p].space \in Spaces /\ removed \subseteq Names
  BY DEF TypeOK, Process
<1>3. given \in Seq(Decl) /\ list \in Seq(Loaded) /\ DOMAIN list = DOMAIN given
  BY <1>2, ListBegun DEF TypeOK
<1>4. \A i \in DOMAIN given : /\ list[i].name = given[i].name
                              /\ list[i].version = given[i].version /\ list[i].path = NoPath
  OBVIOUS
<1>5. <<>> \in Seq(Loaded)
  OBVIOUS
<1>6. todo \in Seq(Decl) /\ names \in SUBSET Names
  BY <1>3, RegistryAssumption
<1>7. proc[p].pc = "idle"
  BY DEF Begin, At
<1> HIDE DEF list, given
<1>8. (IF proc[p].kind = "init" THEN <<>> ELSE list) \in Seq(Loaded)
  BY <1>3, <1>5
<1> DEFINE began == IF proc[p].kind = "init" THEN <<>> ELSE list
           place == IF proc[p].kind \in {"fetch", "test", "apply"} THEN "next" ELSE "home"
<1>9. proc'[p] = [proc[p] EXCEPT !.list = began, !.todo = todo, !.names = names, !.pc = place]
  BY <1>1 DEF TypeOK
<1>10. began \in Seq(Loaded) /\ place \in {"home", "next"}
  BY <1>8
<1>11. (proc[p].kind = "init" => began = <<>>) /\ (proc[p].kind # "init" => began = list)
  OBVIOUS
<1> HIDE DEF began, place
<1>12. /\ proc'[p] \in Process /\ proc'[p].list = began /\ proc'[p].todo = todo
       /\ proc'[p].names = names /\ proc'[p].pc = place
  BY <1>2, <1>6, <1>9, <1>10 DEF Process, AtRest, Steps
<1>13. /\ proc'[p].kind = proc[p].kind /\ proc'[p].space = proc[p].space
       /\ \A x \in {"then", "turn", "version", "path", "map", "checked", "errored", "handle"} :
             proc'[p][x] = proc[p][x]
  BY <1>2, <1>9 DEF Process
<1>14. ~Installs(p) => todo = given
  BY <1>1
<1> QED
  BY <1>1, <1>2, <1>3, <1>4, <1>6, <1>7, <1>10, <1>11, <1>12, <1>13, <1>14 DEF given

LEMMA EntryWritten ==
  ASSUME NEW map \in Entries, NEW n \in Names, NEW v \in {Latest} \cup Versions,
         NEW path \in {NoPath} \cup Versions
  PROVE  /\ [map EXCEPT ![n][v] = path] \in Entries
         /\ \A m \in Names : \A w \in {Latest} \cup Versions :
               [map EXCEPT ![n][v] = path][m][w] = IF m = n /\ w = v THEN path ELSE map[m][w]
<1> DEFINE written == [map EXCEPT ![n][v] = path]
<1>1. \A m \in Names : map[m] \in [{Latest} \cup Versions -> {NoPath} \cup Versions]
  BY DEF Entries
<1>2. \A m \in Names : written[m] = IF m = n THEN [map[n] EXCEPT ![v] = path] ELSE map[m]
  BY DEF Entries
<1>3. written = [m \in Names |-> written[m]]
  BY DEF Entries
<1> HIDE DEF written
<1>4. \A m \in Names : written[m] \in [{Latest} \cup Versions -> {NoPath} \cup Versions]
  BY <1>1, <1>2
<1>5. written \in Entries
  BY <1>3, <1>4 DEF Entries
<1>6. \A m \in Names : \A w \in {Latest} \cup Versions :
         written[m][w] = IF m = n /\ w = v THEN path ELSE map[m][w]
  BY <1>1, <1>2
<1> QED
  BY <1>5, <1>6 DEF written

LEMMA EntryAdded ==
  ASSUME TypeOK, NEW p \in Procs, ~Over(p), proc[p].version \in Versions, NEW map \in Entries
  PROVE  /\ WithEntry(p, map) \in Entries
         /\ \A m \in Names : \A w \in {Latest} \cup Versions :
               WithEntry(p, map)[m][w] =
                  IF m = Item(p).name
                       /\ (w = proc[p].version
                             \/ (w = Latest /\ proc[p].todo[proc[p].turn].version = Latest))
                    THEN proc[p].path ELSE map[m][w]
<1> DEFINE n == Item(p).name
           v == proc[p].version
           path == proc[p].path
           one == [map EXCEPT ![n][v] = path]
           two == [one EXCEPT ![n][Latest] = path]
<1>1. n \in Names /\ path \in {NoPath} \cup Versions /\ v \in {Latest} \cup Versions
  BY ItemTypes DEF TypeOK, Process
<1>2. /\ proc[p].todo[proc[p].turn].version = Latest => WithEntry(p, map) = two
      /\ proc[p].todo[proc[p].turn].version # Latest => WithEntry(p, map) = one
  BY Zenon DEF WithEntry
<1> HIDE DEF n, v, path
<1>3. /\ one \in Entries
      /\ \A m \in Names : \A w \in {Latest} \cup Versions :
            one[m][w] = IF m = n /\ w = v THEN path ELSE map[m][w]
  BY <1>1, EntryWritten
<1> HIDE DEF one
<1>4. Latest \in {Latest} \cup Versions
  OBVIOUS
<1>5. /\ two \in Entries
      /\ \A m \in Names : \A w \in {Latest} \cup Versions :
            two[m][w] = IF m = n /\ w = Latest THEN path ELSE one[m][w]
  BY <1>1, <1>3, <1>4, EntryWritten
<1> HIDE DEF two
<1>6. ASSUME NEW m \in Names, NEW w \in {Latest} \cup Versions
      PROVE  WithEntry(p, map)[m][w] = IF m = n /\ (w = v \/ (w = Latest
                                                 /\ proc[p].todo[proc[p].turn].version = Latest))
                                         THEN path ELSE map[m][w]
  <2>1. CASE proc[p].todo[proc[p].turn].version = Latest
    BY <1>2, <1>3, <1>5, <2>1
  <2>2. CASE proc[p].todo[proc[p].turn].version # Latest
    BY <1>2, <1>3, <2>2
  <2> QED
    BY <2>1, <2>2
<1>7. WithEntry(p, map) \in Entries
  BY <1>2, <1>3, <1>5
<1> QED
  BY <1>6, <1>7 DEF n, v, path

\* The records that the steps make.
LEMMA RecordGoes ==
  ASSUME NEW r \in Process, NEW pc \in AtRest \cup Steps
  PROVE  [r EXCEPT !.pc = pc] \in Process
BY DEF Process

LEMMA RecordGoesThen ==
  ASSUME NEW r \in Process, NEW pc \in Steps, NEW then \in Steps
  PROVE  [r EXCEPT !.pc = pc, !.then = then] \in Process
BY DEF Process

LEMMA RecordOpens ==
  ASSUME NEW r \in Process, NEW pc \in Steps, NEW handle \in {"none", "open", "stale"}
  PROVE  [r EXCEPT !.pc = pc, !.handle = handle] \in Process
BY DEF Process

LEMMA RecordTurns ==
  ASSUME NEW r \in Process
  PROVE  /\ [r EXCEPT !.pc = "next", !.turn = @ + 1] \in Process
         /\ [r EXCEPT !.errored = TRUE, !.pc = "next", !.turn = @ + 1] \in Process
         /\ [r EXCEPT !.checked = TRUE, !.turn = 1, !.pc = "home", !.then = "next"] \in Process
<1>4. /\ "next" \in Steps /\ "home" \in Steps /\ "stat" \in Steps /\ "start" \in Steps
      /\ r.turn + 1 \in Nat \ {0} /\ 1 \in Nat \ {0}
  BY DEF Steps, Process
<1>5. [r EXCEPT !.pc = "next", !.turn = @ + 1] \in Process
  <2>1. ASSUME NEW pc \in Steps, NEW t \in Nat \ {0}
        PROVE  [r EXCEPT !.pc = pc, !.turn = t] \in Process
    BY Zenon DEF Process
  <2>2. [r EXCEPT !.pc = "next", !.turn = @ + 1] = [r EXCEPT !.pc = "next", !.turn = r.turn + 1]
    BY DEF Process
  <2> QED
    BY <1>4, <2>1, <2>2
<1>6. [r EXCEPT !.errored = TRUE, !.pc = "next", !.turn = @ + 1] \in Process
  <2>1. ASSUME NEW pc \in Steps, NEW t \in Nat \ {0}
        PROVE  [r EXCEPT !.errored = TRUE, !.pc = pc, !.turn = t] \in Process
    BY Zenon DEF Process
  <2>2. [r EXCEPT !.errored = TRUE, !.pc = "next", !.turn = @ + 1]
           = [r EXCEPT !.errored = TRUE, !.pc = "next", !.turn = r.turn + 1]
    BY DEF Process
  <2> QED
    BY <1>4, <2>1, <2>2
<1>7. [r EXCEPT !.checked = TRUE, !.turn = 1, !.pc = "home", !.then = "next"] \in Process
  <2>1. ASSUME NEW t \in Nat \ {0}, NEW pc \in Steps, NEW then \in Steps
        PROVE  [r EXCEPT !.checked = TRUE, !.turn = t, !.pc = pc, !.then = then] \in Process
    BY Zenon DEF Process
  <2> QED
    BY <1>4, <2>1
<1> QED
  BY <1>5, <1>6, <1>7

LEMMA RecordReads ==
  ASSUME NEW r \in Process, NEW pc \in Steps, NEW map \in Entries
  PROVE  [r EXCEPT !.pc = pc, !.map = map] \in Process
BY DEF Process

LEMMA RecordFinds ==
  ASSUME NEW r \in Process, NEW pc \in Steps, NEW path \in {NoPath} \cup Versions
  PROVE  /\ [r EXCEPT !.path = path, !.pc = pc] \in Process
         /\ [r EXCEPT !.handle = "none", !.path = path, !.pc = pc] \in Process
         /\ \A then \in Steps : [r EXCEPT !.path = path, !.pc = pc, !.then = then] \in Process
<1>1. [r EXCEPT !.path = path, !.pc = pc] \in Process
  BY DEF Process
<1>2. [r EXCEPT !.handle = "none", !.path = path, !.pc = pc] \in Process
  BY DEF Process
<1>3. \A then \in Steps : [r EXCEPT !.path = path, !.pc = pc, !.then = then] \in Process
  BY DEF Process
<1> QED
  BY <1>1, <1>2, <1>3

LEMMA RecordResolves ==
  ASSUME NEW r \in Process, NEW pc \in Steps, NEW v \in {Latest} \cup Versions
  PROVE  [r EXCEPT !.version = v, !.pc = pc] \in Process
BY DEF Process

-----------------------------------------------------------------------------
(* What the steps do to the record of their process. *)

Fields == {"kind", "pc", "then", "handle", "space", "list", "todo", "names", "turn", "version",
           "path", "map", "checked", "errored", "nowhere"}

Same(p, changed) == \A x \in Fields \ changed : proc'[p][x] = proc[p][x]

Stops(p)    == proc'[p].pc \in Ended /\ Same(p, {"pc"})
NextTurn(p) == proc'[p].pc = "next" /\ proc'[p].turn = proc[p].turn + 1 /\ Same(p, {"pc", "turn"})

LEMMA Gone ==
  ASSUME proc \in [Procs -> Process], NEW p \in Procs
  PROVE  /\ \A pc \in AtRest \cup Steps : Goto(p, pc) =>
               proc'[p] \in Process /\ proc'[p].pc = pc /\ Same(p, {"pc"})
         /\ Goto(p, "done") \/ Goto(p, "crashed") => proc'[p] \in Process /\ Stops(p)
         /\ \A step \in Steps : Home(p, step) =>
               /\ proc'[p] \in Process /\ proc'[p].pc = "home" /\ proc'[p].then = step
               /\ Same(p, {"pc", "then"})
         /\ Continue(p) => proc'[p] \in Process /\ NextTurn(p)
<1> USE DEF Same, Fields
<1>1. proc[p] \in Process
  OBVIOUS
<1>2. ASSUME NEW pc \in AtRest \cup Steps, Goto(p, pc)
      PROVE  proc'[p] \in Process /\ proc'[p].pc = pc /\ Same(p, {"pc"})
  <2>1. proc'[p] = [proc[p] EXCEPT !.pc = pc]
    BY <1>2 DEF Goto
  <2>2. proc'[p] \in Process
    BY <1>1, <2>1, RecordGoes
  <2> QED
    BY <1>1, <2>1, <2>2 DEF Process
<1>3. ASSUME Goto(p, "done") \/ Goto(p, "crashed")
      PROVE  proc'[p] \in Process /\ Stops(p)
  <2>1. "done" \in AtRest \cup Steps /\ "crashed" \in AtRest \cup Steps
    BY DEF AtRest, Ended
  <2> QED
    BY <1>2, <1>3, <2>1 DEF Stops, Ended
<1>4. ASSUME NEW step \in Steps, Home(p, step)
      PROVE  /\ proc'[p] \in Process /\ proc'[p].pc = "home" /\ proc'[p].then = step
             /\ Same(p, {"pc", "then"})
  <2>1. proc'[p] = [proc[p] EXCEPT !.pc = "home", !.then = step] /\ "home" \in Steps
    BY <1>4 DEF Home, Steps
  <2>2. proc'[p] \in Process
    BY <1>1, <1>4, <2>1, RecordGoesThen
  <2> QED
    BY <1>1, <2>1, <2>2 DEF Process
<1>5. ASSUME Continue(p)
      PROVE  proc'[p] \in Process /\ NextTurn(p)
  <2>1. proc'[p] = [proc[p] EXCEPT !.pc = "next", !.turn = @ + 1]
    BY <1>5 DEF Continue
  <2>2. proc'[p] \in Process
    BY <1>1, <2>1, RecordTurns
  <2> QED
    BY <1>1, <2>1, <2>2 DEF Process, NextTurn
<1> QED
  BY <1>2, <1>3, <1>4, <1>5

LEMMA StepNames ==
  /\ {"home", "create", "fill", "next", "lookup", "stat", "extract", "extracting", "start", "delete",
      "read", "unlink", "open", "put"} \subseteq Steps
  /\ "done" \in Ended /\ "crashed" \in Ended /\ Ended \subseteq AtRest
  /\ \A x \in Steps : x \notin AtRest
BY DEF Steps, Ended, AtRest

LEMMA StatConfigMoves ==
  ASSUME TypeOK, NEW p \in Procs, ControlOf(p), StatConfig(p)
  PROVE  /\ proc'[p] \in Process /\ Same(p, {"pc"}) /\ proc[p].pc = "home"
         /\ proc'[p].pc = IF file = "absent" THEN "create" ELSE proc[p].then
<1>1. proc \in [Procs -> Process] /\ proc[p].then \in Steps
  BY DEF TypeOK, Process
<1>2. PICK pc \in Steps : Goto(p, pc) /\ pc = IF file = "absent" THEN "create" ELSE proc[p].then
  BY <1>1, StepNames DEF StatConfig
<1>3. proc[p].pc = "home"
  BY DEF StatConfig, At
<1> QED
  BY <1>1, <1>2, <1>3, Gone

LEMMA OpenMoves ==
  ASSUME TypeOK, NEW p \in Procs, NEW step \in Steps, OpenFile(p, step)
  PROVE  /\ proc'[p] \in Process /\ Same(p, {"pc", "handle"})
         /\ proc'[p].pc = step /\ proc'[p].handle = "open"
<1>1. proc \in [Procs -> Process] /\ proc[p] \in Process
  BY DEF TypeOK
<1>2. proc'[p] = [proc[p] EXCEPT !.pc = step, !.handle = "open"]
  BY <1>1 DEF OpenFile
<1>3. proc'[p] \in Process
  BY <1>1, <1>2, RecordOpens
<1> QED
  BY <1>1, <1>2, <1>3 DEF Process, Same, Fields

LEMMA FillConfigMoves ==
  ASSUME TypeOK, NEW p \in Procs, FillConfig(p)
  PROVE  /\ proc'[p] \in Process /\ Same(p, {"pc", "handle"}) /\ proc[p].pc = "fill"
         /\ proc'[p].pc = proc[p].then /\ proc'[p].handle = "none"
<1>1. proc \in [Procs -> Process] /\ proc[p] \in Process /\ proc[p].then \in Steps
  BY DEF TypeOK, Process
<1>2. proc'[p] = [proc[p] EXCEPT !.pc = proc[p].then, !.handle = "none"] /\ proc[p].pc = "fill"
  BY <1>1 DEF FillConfig, At
<1>3. proc'[p] \in Process
  BY <1>1, <1>2, RecordOpens
<1> QED
  BY <1>1, <1>2, <1>3 DEF Process, Same, Fields

LEMMA ReadToAddMoves ==
  ASSUME TypeOK, NEW p \in Procs, ControlOf(p), Mirrors(p), ReadToAdd(p)
  PROVE  /\ proc'[p] \in Process /\ proc[p].pc = "read" /\ proc[p].kind # "remove"
         /\ \/ /\ file # "absent" /\ proc'[p].pc = "open" /\ Same(p, {"pc", "map"})
               /\ proc'[p].map = WithEntry(p, entries)
            \/ Stops(p)
            \/ ~Installs(p) /\ NextTurn(p)
<1>1. proc \in [Procs -> Process] /\ proc[p] \in Process /\ entries \in Entries
  BY DEF TypeOK
<1>2. proc[p].pc = "read" /\ proc[p].kind # "remove"
  BY DEF ReadToAdd, At
<1>3. proc[p].version \in Versions /\ ~Over(p)
  BY <1>2, TurnHasItem DEF ControlOf, Stage, Opening, Entering, InTurn
<1>4. WithEntry(p, entries) \in Entries
  BY <1>1, <1>3, EntryAdded
<1>5. CASE file # "absent"
  <2>1. proc'[p] = [proc[p] EXCEPT !.pc = "open", !.map = WithEntry(p, entries)] /\ "open" \in Steps
    BY <1>1, <1>5 DEF ReadToAdd, Steps
  <2>2. proc'[p] \in Process
    BY <1>1, <1>4, <2>1, RecordReads
  <2> QED
    BY <1>1, <1>2, <1>5, <2>1, <2>2 DEF Process, Same, Fields
<1>6. CASE file = "absent"
  BY <1>1, <1>2, <1>6, Gone DEF ReadToAdd
<1> QED
  BY <1>5, <1>6

LEMMA ReadToRemoveMoves ==
  ASSUME TypeOK, NEW p \in Procs, ControlOf(p), Mirrors(p), ReadToRemove(p)
  PROVE  /\ proc'[p] \in Process /\ proc[p].pc = "read" /\ proc[p].kind = "remove"
         /\ \/ /\ file = "ok" /\ proc'[p].pc = "unlink" /\ Same(p, {"pc", "map"})
               /\ Item(p).name \in Names /\ Item(p).version \in {Latest} \cup Versions
               /\ proc'[p].map = [entries EXCEPT ![Item(p).name][Item(p).version] = NoPath]
            \/ Stops(p)
            \/ NextTurn(p)
<1>1. proc \in [Procs -> Process] /\ proc[p] \in Process /\ entries \in Entries
  BY DEF TypeOK
<1>2. proc[p].pc = "read" /\ proc[p].kind = "remove"
  BY DEF ReadToRemove, At
<1>3. ~Over(p)
  BY <1>2, TurnHasItem DEF Stage, Opening, Entering, InTurn
<1>4. /\ Item(p).name \in Names /\ Item(p).version \in {Latest} \cup Versions
  BY <1>3, ItemTypes
<1> DEFINE map == [entries EXCEPT ![Item(p).name][Item(p).version] = NoPath]
<1>5. NoPath \in {NoPath} \cup Versions
  OBVIOUS
<1>6. map \in Entries
  BY <1>1, <1>4, <1>5, EntryWritten
<1>7. \/ file = "ok" /\ proc'[p] = [proc[p] EXCEPT !.pc = "unlink", !.map = map]
      \/ Goto(p, "done")
      \/ Continue(p)
  BY <1>1 DEF ReadToRemove
<1> HIDE DEF map
<1>8. CASE file = "ok" /\ proc'[p] = [proc[p] EXCEPT !.pc = "unlink", !.map = map]
  <2>1. "unlink" \in Steps
    BY DEF Steps
  <2>2. proc'[p] \in Process
    BY <1>1, <1>6, <1>8, <2>1, RecordReads
  <2>3. proc'[p].pc = "unlink" /\ proc'[p].map = map /\ Same(p, {"pc", "map"})
    BY <1>1, <1>8, <2>2 DEF Process, Same, Fields
  <2> QED
    BY <1>2, <1>4, <1>8, <2>2, <2>3 DEF map
<1>9. CASE Goto(p, "done") \/ Continue(p)
  BY <1>1, <1>2, <1>9, Gone
<1> QED
  BY <1>7, <1>8, <1>9

LEMMA UnlinkConfigMoves ==
  ASSUME TypeOK, NEW p \in Procs, UnlinkConfig(p)
  PROVE  /\ proc'[p] \in Process /\ proc[p].pc = "unlink"
         /\ \/ file # "absent" /\ proc'[p].pc = "open" /\ Same(p, {"pc"})
            \/ Stops(p)
<1>1. proc \in [Procs -> Process] /\ proc[p] \in Process
  BY DEF TypeOK
<1>2. proc[p].pc = "unlink"
  BY DEF UnlinkConfig, At
<1>3. CASE file = "absent"
  BY <1>1, <1>2, <1>3, Gone DEF UnlinkConfig
<1>4. CASE file # "absent"
  <2>1. proc'[p] = [proc[p] EXCEPT !.pc = "open"] /\ "open" \in AtRest \cup Steps
    BY <1>1, <1>4 DEF UnlinkConfig, Steps
  <2>2. proc'[p] \in Process
    BY <1>1, <2>1, RecordGoes
  <2> QED
    BY <1>1, <1>2, <1>4, <2>1, <2>2 DEF Process, Same, Fields
<1> QED
  BY <1>3, <1>4

\* The declaration that install adds to its list.
Added(p) == [name |-> Item(p).name, version |-> proc[p].version, path |-> NoPath]

LEMMA EnteredMoves ==
  ASSUME TypeOK, NEW p \in Procs, ControlOf(p), Mirrors(p), proc[p].pc \in {"open", "put"}, Entered(p)
  PROVE  /\ proc'[p] \in Process
         /\ proc'[p].pc = "next" /\ proc'[p].turn = proc[p].turn + 1 /\ proc'[p].map = NoEntry
         /\ proc'[p].handle = "none"
         /\ Same(p, {"pc", "turn", "map", "handle", "list", "nowhere"})
         /\ proc'[p].list = IF Installs(p) THEN Append(proc[p].list, Added(p)) ELSE proc[p].list
         /\ Added(p) \in Loaded
<1> DEFINE q == [proc[p] EXCEPT !.pc = "next", !.turn = @ + 1, !.handle = "none", !.map = NoEntry]
<1>1. proc \in [Procs -> Process] /\ proc[p] \in Process
  BY DEF TypeOK
<1>2. Added(p) \in Loaded
  <2>1. ~Over(p)
    BY TurnHasItem DEF Stage, Opening, Entering, InTurn
  <2>2. Item(p).name \in Names
    BY <2>1, ItemTypes
  <2> QED
    BY <1>1, <2>2 DEF Added, Loaded, Process
<1>3. proc'[p] = IF Installs(p) THEN [q EXCEPT !.list = Append(@, Added(p))]
                 ELSE IF q.kind = "remove" /\ q.path = NoPath THEN [q EXCEPT !.nowhere = TRUE]
                 ELSE q
  BY <1>1 DEF Entered, Added
<1>4. /\ q \in Process
      /\ q.pc = "next" /\ q.turn = proc[p].turn + 1 /\ q.map = NoEntry /\ q.handle = "none"
      /\ \A x \in Fields \ {"pc", "turn", "map", "handle"} : q[x] = proc[p][x]
  <2>1. [proc[p] EXCEPT !.pc = "next", !.turn = @ + 1] \in Process
    BY <1>1, RecordTurns
  <2> DEFINE r == [proc[p] EXCEPT !.pc = "next", !.turn = @ + 1]
  <2>2. q = [r EXCEPT !.handle = "none", !.map = NoEntry]
    BY <1>1 DEF Process
  <2>3. /\ r.pc = "next" /\ r.turn = proc[p].turn + 1
        /\ \A x \in Fields \ {"pc", "turn"} : r[x] = proc[p][x]
    BY <1>1 DEF Process, Fields
  <2> HIDE DEF r, q
  <2>4. r \in Process /\ NoEntry \in Entries
    BY <2>1, VersionTypes DEF r
  <2>5. q \in Process
    BY <2>2, <2>4 DEF Process
  <2>6. /\ q.pc = r.pc /\ q.turn = r.turn /\ q.map = NoEntry /\ q.handle = "none"
        /\ \A x \in Fields \ {"pc", "turn", "map", "handle"} : q[x] = r[x]
    BY <2>2, <2>4 DEF Process, Fields
  <2> QED
    BY <2>3, <2>5, <2>6
<1> HIDE DEF q
<1>5. q.list \in Seq(Loaded) /\ Append(q.list, Added(p)) \in Seq(Loaded)
  BY <1>2, <1>4 DEF Process
<1>6. CASE Installs(p)
  <2>1. proc'[p] = [q EXCEPT !.list = Append(q.list, Added(p))]
    BY <1>3, <1>6
  <2>2. proc'[p] \in Process
    BY <1>4, <1>5, <2>1 DEF Process
  <2>3. /\ proc'[p].list = Append(q.list, Added(p))
        /\ \A x \in Fields \ {"list"} : proc'[p][x] = q[x]
    BY <1>4, <2>1, <2>2 DEF Process, Fields
  <2>4. q.list = proc[p].list
    BY <1>4 DEF Fields
  <2> QED
    BY <1>1, <1>2, <1>4, <1>6, <2>2, <2>3, <2>4 DEF Same, Fields
<1>7. CASE ~Installs(p)
  <2>1. proc'[p] \in {q, [q EXCEPT !.nowhere = TRUE]}
    BY <1>3, <1>7
  <2>2. proc'[p] \in Process
    BY <1>4, <2>1 DEF Process
  <2>3. \A x \in Fields \ {"nowhere"} : proc'[p][x] = q[x]
    BY <1>4, <2>1, <2>2 DEF Process, Fields
  <2> QED
    BY <1>1, <1>2, <1>4, <1>7, <2>2, <2>3 DEF Same, Fields
<1> QED
  BY <1>6, <1>7

LEMMA PutConfigMoves ==
  ASSUME TypeOK, NEW p \in Procs, ControlOf(p), Mirrors(p), PutConfig(p)
  PROVE  /\ proc'[p] \in Process /\ proc[p].pc = "put"
         /\ proc'[p].pc = "next" /\ proc'[p].turn = proc[p].turn + 1 /\ proc'[p].map = NoEntry
         /\ proc'[p].handle = "none"
         /\ Same(p, {"pc", "turn", "map", "handle", "list", "nowhere"})
         /\ proc'[p].list = IF Installs(p) THEN Append(proc[p].list, Added(p)) ELSE proc[p].list
         /\ Added(p) \in Loaded
<1>1. proc[p].pc = "put" /\ Entered(p)
  BY DEF PutConfig, At
<1> QED
  BY <1>1, EnteredMoves

LEMMA StatBinaryMoves ==
  ASSUME TypeOK, NEW p \in Procs, ControlOf(p), StatBinary(p)
  PROVE  /\ proc'[p] \in Process /\ proc[p].pc = "stat" /\ proc[p].version \in Versions
         /\ \/ /\ binary[Item(p).name][proc[p].version] = "none"
               /\ proc'[p].pc = "extract" /\ Same(p, {"pc"})
            \/ /\ proc'[p].pc = "start" /\ proc'[p].path = proc[p].version
               /\ Same(p, {"pc", "path"})
<1>1. proc \in [Procs -> Process] /\ proc[p] \in Process /\ proc[p].pc = "stat"
  BY DEF TypeOK, StatBinary, At
<1>2. proc[p].version \in Versions
  BY <1>1 DEF ControlOf, Stage, Opening
<1>3. "extract" \in Steps /\ "start" \in Steps
  BY StepNames
<1>4. CASE binary[Item(p).name][proc[p].version] = "none"
  BY <1>1, <1>2, <1>3, <1>4, Gone DEF StatBinary
<1>5. CASE binary[Item(p).name][proc[p].version] # "none"
  <2>1. proc'[p] = [proc[p] EXCEPT !.path = proc[p].version, !.pc = "start"]
    BY <1>1, <1>5 DEF StatBinary
  <2>2. proc'[p] \in Process
    <3>1. [proc[p] EXCEPT !.path = proc[p].version, !.pc = "start"] \in Process
      BY Zenon, <1>1, <1>2, <1>3, RecordFinds
    <3> QED
      BY Zenon, <2>1, <3>1
  <2> QED
    BY <1>1, <1>2, <2>1, <2>2 DEF Process, Same, Fields
<1> QED
  BY <1>4, <1>5

LEMMA ExtractMoves ==
  ASSUME TypeOK, NEW p \in Procs, Extract(p)
  PROVE  /\ proc'[p] \in Process /\ proc[p].pc = "extract"
         /\ proc'[p].pc = "extracting" /\ proc'[p].handle = "open" /\ Same(p, {"pc", "handle"})
<1>1. proc \in [Procs -> Process] /\ proc[p] \in Process /\ proc[p].pc = "extract"
  BY DEF TypeOK, Extract, At
<1>2. proc'[p] = [proc[p] EXCEPT !.pc = "extracting", !.handle = "open"]
  BY <1>1 DEF Extract, Overtaken
<1>3. "extracting" \in Steps
  BY StepNames
<1>4. proc'[p] \in Process
  BY <1>1, <1>2, <1>3, RecordOpens
<1> QED
  BY <1>1, <1>2, <1>4 DEF Process, Same, Fields

LEMMA ExtractedMoves ==
  ASSUME TypeOK, NEW p \in Procs, ControlOf(p), Extracted(p)
  PROVE  /\ proc'[p] \in Process /\ proc[p].pc = "extracting" /\ proc[p].version \in Versions
         /\ proc'[p].pc = "start" /\ proc'[p].path = proc[p].version /\ proc'[p].handle = "none"
         /\ Same(p, {"pc", "path", "handle"})
<1>1. proc \in [Procs -> Process] /\ proc[p] \in Process /\ proc[p].pc = "extracting"
  BY DEF TypeOK, Extracted, At
<1>2. proc[p].version \in Versions /\ "start" \in Steps
  BY <1>1, StepNames DEF ControlOf, Stage, Opening
<1>3. proc'[p] = [proc[p] EXCEPT !.handle = "none", !.path = proc[p].version, !.pc = "start"]
  BY <1>1 DEF Extracted
<1>4. proc'[p] \in Process
  <2>1. [proc[p] EXCEPT !.handle = "none", !.path = proc[p].version, !.pc = "start"] \in Process
    BY Zenon, <1>1, <1>2, RecordFinds
  <2> QED
    BY Zenon, <1>3, <2>1
<1> QED
  BY <1>1, <1>2, <1>3, <1>4 DEF Process, Same, Fields

LEMMA StartPluginMoves ==
  ASSUME TypeOK, NEW p \in Procs, StartPlugin(p)
  PROVE  /\ proc'[p] \in Process /\ proc[p].pc = "start"
         /\ \/ /\ Installs(p) /\ proc'[p].pc = "home" /\ proc'[p].then = "read"
               /\ Same(p, {"pc", "then"})
            \/ ~Installs(p) /\ NextTurn(p)
<1>1. proc \in [Procs -> Process] /\ proc[p].pc = "start" /\ "read" \in Steps
  BY StepNames DEF TypeOK, StartPlugin, At
<1>2. CASE Installs(p)
  BY <1>1, <1>2, Gone DEF StartPlugin
<1>3. CASE ~Installs(p)
  BY <1>1, <1>3, Gone DEF StartPlugin
<1> QED
  BY <1>2, <1>3

LEMMA StartFailsMoves ==
  ASSUME TypeOK, NEW p \in Procs, StartFails(p)
  PROVE  /\ proc'[p] \in Process /\ proc[p].pc = "start"
         /\ \/ /\ Checks(p) /\ proc'[p].pc = "next" /\ proc'[p].turn = proc[p].turn + 1
               /\ proc'[p].errored = TRUE /\ Same(p, {"pc", "turn", "errored"})
            \/ ~Checks(p) /\ Stops(p)
<1>1. proc \in [Procs -> Process] /\ proc[p] \in Process /\ proc[p].pc = "start"
  BY DEF TypeOK, StartFails, At
<1>2. CASE Checks(p)
  <2>1. proc'[p] = [proc[p] EXCEPT !.errored = TRUE, !.pc = "next", !.turn = @ + 1]
    BY <1>1, <1>2 DEF StartFails
  <2>2. proc'[p] \in Process
    BY <1>1, <2>1, RecordTurns
  <2> QED
    BY <1>1, <1>2, <2>1, <2>2 DEF Process, Same, Fields
<1>3. CASE ~Checks(p)
  BY <1>1, <1>3, Gone DEF StartFails
<1> QED
  BY <1>2, <1>3

LEMMA DeleteBinaryMoves ==
  ASSUME TypeOK, NEW p \in Procs, DeleteBinary(p)
  PROVE  /\ proc'[p] \in Process /\ proc[p].pc = "delete"
         /\ proc'[p].pc = "home" /\ proc'[p].then = "read" /\ Same(p, {"pc", "then"})
<1>1. proc \in [Procs -> Process] /\ proc[p] \in Process /\ proc[p].pc = "delete"
  BY DEF TypeOK, DeleteBinary, At
<1>2. proc'[p] = [proc[p] EXCEPT !.pc = "home", !.then = "read"]
  BY <1>1 DEF DeleteBinary, Overtaken, Home
<1>3. "home" \in Steps /\ "read" \in Steps
  BY StepNames
<1>4. proc'[p] \in Process
  <2>1. [proc[p] EXCEPT !.pc = "home", !.then = "read"] \in Process
    BY Zenon, <1>1, <1>3, RecordGoesThen
  <2> QED
    BY Zenon, <1>2, <2>1
<1> QED
  BY <1>1, <1>2, <1>4 DEF Process, Same, Fields

LEMMA ResolvedTypes ==
  ASSUME TypeOK, NEW p \in Procs, ~Over(p)
  PROVE  Item(p).name \in Names /\ newest[Item(p).name] \in Versions /\ Resolved(p) \in Versions
<1>1. Item(p).name \in Names /\ Item(p).version \in {Latest} \cup Versions
  BY ItemTypes
<1> QED
  BY <1>1 DEF TypeOK, Resolved

LEMMA ResolveToInstallMoves ==
  ASSUME TypeOK, NEW p \in Procs, ResolveToInstall(p)
  PROVE  /\ proc'[p] \in Process /\ proc[p].pc = "next" /\ Installs(p) /\ ~Over(p)
         /\ \/ /\ proc'[p].pc = "stat" /\ proc'[p].version = Resolved(p)
               /\ Resolved(p) <= newest[Item(p).name] /\ Same(p, {"pc", "version"})
            \/ Stops(p)
<1>1. proc \in [Procs -> Process] /\ proc[p] \in Process /\ proc[p].pc = "next" /\ Installs(p)
      /\ ~Over(p)
  BY DEF TypeOK, ResolveToInstall, At
<1>2. \/ proc' = [proc EXCEPT ![p].version = Resolved(p), ![p].pc = "stat"]
         /\ Resolved(p) <= newest[Item(p).name]
      \/ Goto(p, "done")
  BY DEF ResolveToInstall
<1>3. CASE proc' = [proc EXCEPT ![p].version = Resolved(p), ![p].pc = "stat"]
           /\ Resolved(p) <= newest[Item(p).name]
  <2>1. proc'[p] = [proc[p] EXCEPT !.version = Resolved(p), !.pc = "stat"]
    BY <1>1, <1>3
  <2>2. Resolved(p) \in Versions /\ "stat" \in Steps
    BY <1>1, ResolvedTypes, StepNames
  <2>3. proc'[p] \in Process
    <3>1. [proc[p] EXCEPT !.version = Resolved(p), !.pc = "stat"] \in Process
      BY Zenon, <1>1, <2>2, RecordResolves
    <3> QED
      BY Zenon, <2>1, <3>1
  <2> QED
    BY <1>1, <1>3, <2>1, <2>3 DEF Process, Same, Fields
<1>4. CASE Goto(p, "done")
  BY <1>1, <1>4, Gone
<1> QED
  BY <1>2, <1>3, <1>4

LEMMA CheckUpdateMoves ==
  ASSUME TypeOK, NEW p \in Procs, CheckUpdate(p)
  PROVE  /\ proc'[p] \in Process /\ proc[p].pc = "next" /\ proc[p].kind = "update" /\ ~Over(p)
         /\ \/ /\ proc'[p].pc = "stat" /\ proc'[p].version = newest[Item(p).name]
               /\ Same(p, {"pc", "version"})
            \/ /\ proc'[p].pc = "home" /\ proc'[p].then = "start" /\ proc'[p].path = NoPath
               /\ Same(p, {"pc", "then", "path"})
            \/ Stops(p)
<1>1. proc \in [Procs -> Process] /\ proc[p] \in Process /\ proc[p].pc = "next"
      /\ proc[p].kind = "update" /\ ~Over(p)
  BY DEF TypeOK, CheckUpdate, At
<1>2. \/ proc' = [proc EXCEPT ![p].version = newest[Item(p).name], ![p].pc = "stat"]
      \/ proc' = [proc EXCEPT ![p].path = NoPath, ![p].pc = "home", ![p].then = "start"]
      \/ Goto(p, "done")
  BY Zenon DEF CheckUpdate
<1>3. "home" \in Steps /\ "start" \in Steps /\ "stat" \in Steps /\ newest[Item(p).name] \in Versions
  BY <1>1, StepNames, ResolvedTypes
<1>4. CASE proc' = [proc EXCEPT ![p].version = newest[Item(p).name], ![p].pc = "stat"]
  <2>1. proc'[p] = [proc[p] EXCEPT !.version = newest[Item(p).name], !.pc = "stat"]
    BY <1>1, <1>4
  <2>2. proc'[p] \in Process
    <3>1. [proc[p] EXCEPT !.version = newest[Item(p).name], !.pc = "stat"] \in Process
      BY Zenon, <1>1, <1>3, RecordResolves
    <3> QED
      BY Zenon, <2>1, <3>1
  <2> QED
    BY <1>1, <2>1, <2>2 DEF Process, Same, Fields
<1>5. CASE proc' = [proc EXCEPT ![p].path = NoPath, ![p].pc = "home", ![p].then = "start"]
  <2>1. proc'[p] = [proc[p] EXCEPT !.path = NoPath, !.pc = "home", !.then = "start"]
    BY <1>1, <1>5
  <2>2. NoPath \in {NoPath} \cup Versions
    OBVIOUS
  <2>3. proc'[p] \in Process
    <3>1. [proc[p] EXCEPT !.path = NoPath, !.pc = "home", !.then = "start"] \in Process
      BY Zenon, <1>1, <1>3, <2>2, RecordFinds
    <3> QED
      BY Zenon, <2>1, <3>1
  <2> QED
    BY <1>1, <2>1, <2>3 DEF Process, Same, Fields
<1>6. CASE Goto(p, "done")
  BY <1>1, <1>6, Gone
<1> QED
  BY <1>2, <1>4, <1>5, <1>6

LEMMA FindPathMoves ==
  ASSUME TypeOK, NEW p \in Procs, FindPath(p)
  PROVE  /\ proc'[p] \in Process /\ proc[p].pc = "next" /\ ~Over(p)
         /\ proc[p].kind \in {"fetch", "remove"} \/ Checks(p)
         /\ proc'[p].pc = "home" /\ proc'[p].then = "lookup" /\ Same(p, {"pc", "then"})
<1>1. proc \in [Procs -> Process] /\ Home(p, "lookup") /\ "lookup" \in Steps
  BY StepNames DEF TypeOK, FindPath
<1> QED
  BY <1>1, Gone DEF FindPath, At

LEMMA ReaderHasItem ==
  ASSUME TypeOK, NEW p \in Procs, ~Over(p), ~Installs(p)
  PROVE  /\ proc[p].list \in Seq(Loaded) /\ proc[p].turn \in DOMAIN proc[p].list
         /\ Item(p) = proc[p].list[proc[p].turn] /\ Item(p) \in Loaded
         /\ Item(p).name \in Names /\ Item(p).version \in {Latest} \cup Versions
         /\ Item(p).path \in {NoPath} \cup Versions
<1>1. proc[p].turn \in DOMAIN proc[p].list /\ Item(p) \in Loaded /\ proc[p].list \in Seq(Loaded)
  BY ItemTypes DEF TypeOK, Process
<1> QED
  BY <1>1 DEF Item, Loaded

LEMMA PathOfTypes ==
  ASSUME TypeOK, NEW n \in Names, NEW v \in {Latest} \cup Versions
  PROVE  PathOf(n, v) \in {NoPath} \cup Versions
BY DEF TypeOK, PathOf, Entries

LEMMA FoundMoves ==
  ASSUME TypeOK, NEW p \in Procs, ControlOf(p), Mirrors(p), Stage(p) = "lookup",
         proc[p].kind # "remove", NEW path \in {NoPath} \cup Versions, Found(p, path)
  PROVE  /\ proc'[p] \in Process /\ ~Installs(p) /\ ~Over(p)
         /\ proc[p].kind = "fetch" \/ Checks(p)
         /\ proc'[p].pc = "start" /\ proc'[p].path = path
         /\ Same(p, {"pc", "path", "list"})
         /\ DOMAIN proc'[p].list = DOMAIN proc[p].list
         /\ \A i \in DOMAIN proc[p].list : proc'[p].list[i] =
               IF i = proc[p].turn THEN [proc[p].list[i] EXCEPT !.path = proc'[p].path]
               ELSE proc[p].list[i]
<1> DEFINE item == [proc[p].list[proc[p].turn] EXCEPT !.path = path]
           list == [proc[p].list EXCEPT ![proc[p].turn] = item]
<1>1. proc \in [Procs -> Process] /\ proc[p] \in Process
  BY DEF TypeOK
<1>2. ~Over(p) /\ (proc[p].kind = "fetch" \/ Checks(p)) /\ ~Installs(p)
  <2>1. ~Over(p)
    BY TurnHasItem DEF InTurn, Entering
  <2>3. proc[p].kind = "fetch" \/ Checks(p)
    BY DEF ControlOf
  <2> QED
    BY <2>1, <2>3 DEF Checks, Installs
<1>3. /\ proc[p].list \in Seq(Loaded) /\ proc[p].turn \in DOMAIN proc[p].list
      /\ proc[p].list[proc[p].turn] \in Loaded
  BY <1>2, ReaderHasItem
<1>4. path \in {NoPath} \cup Versions
  OBVIOUS
<1>5. proc'[p] = [proc[p] EXCEPT !.path = path, !.list = list, !.pc = "start"]
  <2>1. proc' = [proc EXCEPT ![p].path = path, ![p].list[proc[p].turn].path = path, ![p].pc = "start"]
    BY Zenon DEF Found
  <2>2. proc'[p] = [proc[p] EXCEPT !.path = path, !.list[proc[p].turn].path = path, !.pc = "start"]
    BY <1>1, <2>1
  <2> QED
    BY <1>1, <2>2 DEF Process
<1>6. item \in Loaded
  BY <1>3, <1>4 DEF Loaded
<1>7. item = [proc[p].list[proc[p].turn] EXCEPT !.path = path]
  OBVIOUS
<1> HIDE DEF item
<1>8. list \in Seq(Loaded) /\ DOMAIN list = DOMAIN proc[p].list
      /\ \A i \in DOMAIN proc[p].list : list[i] = IF i = proc[p].turn THEN item ELSE proc[p].list[i]
  BY <1>3, <1>6, Updated
<1> HIDE DEF list
<1>9. [proc[p] EXCEPT !.path = path, !.list = list, !.pc = "start"] \in Process
  <2>1. "start" \in AtRest \cup Steps
    BY StepNames
  <2> QED
    BY Zenon, <1>1, <1>4, <1>8, <2>1 DEF Process
<1>10. proc'[p] \in Process
  BY Zenon, <1>5, <1>9
<1>11. /\ proc'[p].pc = "start" /\ proc'[p].path = path /\ proc'[p].list = list
       /\ Same(p, {"pc", "path", "list"})
  BY <1>1, <1>5, <1>10 DEF Process, Same, Fields
<1> QED
  BY <1>1, <1>2, <1>7, <1>8, <1>10, <1>11

LEMMA LookUpMoves ==
  ASSUME TypeOK, NEW p \in Procs, ControlOf(p), Mirrors(p), LookUp(p)
  PROVE  /\ proc'[p] \in Process /\ proc[p].pc = "lookup" /\ ~Installs(p) /\ ~Over(p)
         /\ proc[p].kind = "fetch" \/ Checks(p)
         /\ proc'[p].pc = "start" /\ proc'[p].path = PathOf(Item(p).name, Item(p).version)
         /\ Same(p, {"pc", "path", "list"})
         /\ DOMAIN proc'[p].list = DOMAIN proc[p].list
         /\ \A i \in DOMAIN proc[p].list : proc'[p].list[i] =
               IF i = proc[p].turn THEN [proc[p].list[i] EXCEPT !.path = proc'[p].path]
               ELSE proc[p].list[i]
<1> DEFINE path == PathOf(Item(p).name, Item(p).version)
<1>1. proc[p].pc = "lookup" /\ proc[p].kind # "remove" /\ Found(p, path)
  BY Zenon DEF LookUp, At
<1>2. Stage(p) = "lookup"
  BY <1>1 DEF Stage, Opening
<1>3. path \in {NoPath} \cup Versions
  BY <1>2, TurnHasItem, ItemTypes, PathOfTypes DEF InTurn
<1> HIDE DEF path
<1>4. /\ proc'[p] \in Process /\ ~Installs(p) /\ ~Over(p)
      /\ proc[p].kind = "fetch" \/ Checks(p)
      /\ proc'[p].pc = "start" /\ proc'[p].path = path /\ Same(p, {"pc", "path", "list"})
      /\ DOMAIN proc'[p].list = DOMAIN proc[p].list
      /\ \A i \in DOMAIN proc[p].list : proc'[p].list[i] =
            IF i = proc[p].turn THEN [proc[p].list[i] EXCEPT !.path = proc'[p].path]
            ELSE proc[p].list[i]
  BY Zenon, <1>1, <1>2, <1>3, FoundMoves
<1> QED
  BY <1>1, <1>4 DEF path

LEMMA FoundToRemoveMoves ==
  ASSUME TypeOK, NEW p \in Procs, ControlOf(p), Mirrors(p), Stage(p) = "lookup",
         proc[p].kind = "remove", NEW path \in {NoPath} \cup Versions, FoundToRemove(p, path)
  PROVE  /\ proc'[p] \in Process /\ ~Over(p)
         /\ \/ /\ Item(p).name \in proc[p].names
               /\ proc'[p].pc = "delete" /\ Same(p, {"pc", "path"})
               /\ proc'[p].path = path
            \/ Stops(p)
<1>1. proc \in [Procs -> Process] /\ proc[p] \in Process
  BY DEF TypeOK
<1>2. ~Over(p)
  BY TurnHasItem DEF InTurn, Entering
<1>3. path \in {NoPath} \cup Versions /\ "delete" \in Steps
  BY StepNames
<1>4. \/ /\ Item(p).name \in proc[p].names
         /\ proc' = [proc EXCEPT ![p].path = path, ![p].pc = "delete"]
      \/ Goto(p, "done")
  BY Zenon DEF FoundToRemove
<1>5. CASE Item(p).name \in proc[p].names /\ proc' = [proc EXCEPT ![p].path = path, ![p].pc = "delete"]
  <2>1. proc'[p] = [proc[p] EXCEPT !.path = path, !.pc = "delete"]
    BY <1>1, <1>5
  <2>2. [proc[p] EXCEPT !.path = path, !.pc = "delete"] \in Process
    BY Zenon, <1>1, <1>3, RecordFinds
  <2>3. proc'[p] \in Process
    BY Zenon, <2>1, <2>2
  <2>4. proc'[p].path = path /\ proc'[p].pc = "delete" /\ Same(p, {"pc", "path"})
    BY <1>1, <2>1, <2>3 DEF Process, Same, Fields
  <2> QED
    BY <1>1, <1>2, <1>5, <2>3, <2>4
<1>6. CASE Goto(p, "done")
  BY <1>1, <1>2, <1>6, Gone
<1> QED
  BY <1>4, <1>5, <1>6

LEMMA LookUpToRemoveMoves ==
  ASSUME TypeOK, NEW p \in Procs, ControlOf(p), Mirrors(p), LookUpToRemove(p)
  PROVE  /\ proc'[p] \in Process /\ proc[p].pc = "lookup" /\ proc[p].kind = "remove" /\ ~Over(p)
         /\ \/ /\ Item(p).name \in proc[p].names
               /\ proc'[p].pc = "delete" /\ Same(p, {"pc", "path"})
               /\ proc'[p].path = PathOf(Item(p).name, Item(p).version)
            \/ Stops(p)
<1> DEFINE path == PathOf(Item(p).name, Item(p).version)
<1>1. proc[p].pc = "lookup" /\ proc[p].kind = "remove" /\ FoundToRemove(p, path)
  BY Zenon DEF LookUpToRemove, At
<1>2. Stage(p) = "lookup"
  BY <1>1 DEF Stage, Opening
<1>3. path \in {NoPath} \cup Versions
  BY <1>2, TurnHasItem, ItemTypes, PathOfTypes DEF InTurn
<1> HIDE DEF path
<1>4. /\ proc'[p] \in Process /\ ~Over(p)
      /\ \/ /\ Item(p).name \in proc[p].names
            /\ proc'[p].pc = "delete" /\ Same(p, {"pc", "path"}) /\ proc'[p].path = path
         \/ Stops(p)
  BY Zenon, <1>1, <1>2, <1>3, FoundToRemoveMoves
<1> QED
  BY <1>1, <1>4 DEF path

LEMMA ResolveToApplyMoves ==
  ASSUME TypeOK, NEW p \in Procs, ResolveToApply(p)
  PROVE  /\ proc'[p] \in Process /\ proc[p].pc = "next" /\ proc[p].kind = "apply" /\ proc[p].checked
         /\ ~Over(p)
         /\ \/ /\ proc'[p].pc = "home" /\ proc'[p].then = "read"
               /\ proc'[p].version = Resolved(p) /\ proc'[p].path = Item(p).path
               /\ Same(p, {"pc", "then", "version", "path", "list"})
               /\ DOMAIN proc'[p].list = DOMAIN proc[p].list
               /\ \A i \in DOMAIN proc[p].list : proc'[p].list[i] =
                     IF i = proc[p].turn THEN [proc[p].list[i] EXCEPT !.version = Resolved(p)]
                     ELSE proc[p].list[i]
            \/ NextTurn(p)
<1> DEFINE item == [proc[p].list[proc[p].turn] EXCEPT !.version = Resolved(p)]
           list == [proc[p].list EXCEPT ![proc[p].turn] = item]
<1>1. /\ proc \in [Procs -> Process] /\ proc[p] \in Process /\ proc[p].pc = "next"
      /\ proc[p].kind = "apply" /\ proc[p].checked /\ ~Over(p) /\ ~Installs(p)
  BY DEF TypeOK, ResolveToApply, At, Installs
<1>2. /\ proc[p].list \in Seq(Loaded) /\ proc[p].turn \in DOMAIN proc[p].list
      /\ proc[p].list[proc[p].turn] \in Loaded /\ Item(p).path \in {NoPath} \cup Versions
      /\ Resolved(p) \in {Latest} \cup Versions
  BY <1>1, ReaderHasItem, ResolvedTypes
<1>3. \/ proc' = [proc EXCEPT ![p].version = Resolved(p), ![p].path = Item(p).path,
                              ![p].list[proc[p].turn].version = Resolved(p),
                              ![p].pc = "home", ![p].then = "read"]
      \/ Continue(p)
  BY Zenon DEF ResolveToApply
<1>4. item \in Loaded
  BY <1>2 DEF Loaded
<1>5. item = [proc[p].list[proc[p].turn] EXCEPT !.version = Resolved(p)]
  OBVIOUS
<1>6. CASE proc' = [proc EXCEPT ![p].version = Resolved(p), ![p].path = Item(p).path,
                                ![p].list[proc[p].turn].version = Resolved(p),
                                ![p].pc = "home", ![p].then = "read"]
  <2> DEFINE v == Resolved(p)
             path == Item(p).path
  <2>1. proc'[p] = [proc[p] EXCEPT !.version = v, !.path = path, !.list = list, !.pc = "home",
                                   !.then = "read"]
    <3>1. proc'[p] = [proc[p] EXCEPT !.version = v, !.path = path,
                                     !.list[proc[p].turn].version = v, !.pc = "home", !.then = "read"]
      BY <1>1, <1>6
    <3> QED
      BY <1>1, <3>1 DEF Process
  <2>2. v \in {Latest} \cup Versions /\ path \in {NoPath} \cup Versions
    BY <1>2
  <2> HIDE DEF v, path, item
  <2>3. list \in Seq(Loaded) /\ DOMAIN list = DOMAIN proc[p].list
        /\ \A i \in DOMAIN proc[p].list : list[i] = IF i = proc[p].turn THEN item ELSE proc[p].list[i]
    BY <1>2, <1>4, Updated
  <2> HIDE DEF list
  <2>4. [proc[p] EXCEPT !.version = v, !.path = path, !.list = list, !.pc = "home", !.then = "read"]
           \in Process
    <3>1. "home" \in AtRest \cup Steps /\ "read" \in Steps
      BY StepNames
    <3> QED
      BY Zenon, <1>1, <2>2, <2>3, <3>1 DEF Process
  <2>5. proc'[p] \in Process
    BY Zenon, <2>1, <2>4
  <2>6. /\ proc'[p].pc = "home" /\ proc'[p].then = "read" /\ proc'[p].version = v
        /\ proc'[p].path = path /\ proc'[p].list = list
        /\ Same(p, {"pc", "then", "version", "path", "list"})
    BY <1>1, <2>1, <2>5 DEF Process, Same, Fields
  <2>7. v = Resolved(p) /\ path = Item(p).path
    BY DEF v, path
  <2> QED
    BY <1>1, <1>5, <2>3, <2>5, <2>6, <2>7
<1>7. CASE Continue(p)
  BY <1>1, <1>7, Gone
<1> QED
  BY <1>3, <1>6, <1>7

LEMMA CheckEndsMoves ==
  ASSUME TypeOK, NEW p \in Procs, CheckEnds(p)
  PROVE  /\ proc'[p] \in Process /\ proc[p].pc = "next" /\ Checks(p) /\ Over(p)
         /\ \/ /\ proc[p].kind = "apply" /\ ~proc[p].errored
               /\ proc'[p].pc = "home" /\ proc'[p].then = "next"
               /\ proc'[p].checked = TRUE /\ proc'[p].turn = 1
               /\ Same(p, {"pc", "then", "checked", "turn"})
            \/ Stops(p)
<1>1. proc \in [Procs -> Process] /\ proc[p] \in Process /\ proc[p].pc = "next" /\ Checks(p) /\ Over(p)
  BY DEF TypeOK, CheckEnds, At
<1>2. CASE proc[p].kind = "apply" /\ ~proc[p].errored
  <2>1. proc'[p] = [proc[p] EXCEPT !.checked = TRUE, !.turn = 1, !.pc = "home", !.then = "next"]
    BY <1>1, <1>2 DEF CheckEnds
  <2>2. proc'[p] \in Process
    BY <1>1, <2>1, RecordTurns
  <2> QED
    BY <1>1, <1>2, <2>1, <2>2 DEF Process, Same, Fields
<1>3. CASE ~(proc[p].kind = "apply" /\ ~proc[p].errored)
  BY <1>1, <1>3, Gone DEF CheckEnds
<1> QED
  BY <1>2, <1>3

\* The steps with which a command only ends.
LEMMA EndingMoves ==
  ASSUME TypeOK, NEW p \in Procs,
         DownloadFails(p) \/ WriteWorkspace(p) \/ CommandEnds(p) \/ Crash(p)
  PROVE  proc'[p] \in Process /\ Stops(p)
<1>1. proc \in [Procs -> Process] /\ (Goto(p, "done") \/ Goto(p, "crashed"))
  BY DEF TypeOK, DownloadFails, WriteWorkspace, CommandEnds, Crash
<1> QED
  BY <1>1, Gone

-----------------------------------------------------------------------------
(* Where a command may be, and with what. *)

\* The step does not change the lists of declarations of p.
Steady(p) ==
    /\ proc'[p].kind = proc[p].kind /\ proc'[p].list = proc[p].list
    /\ proc'[p].todo = proc[p].todo /\ proc'[p].checked = proc[p].checked

LEMMA SteadyMirrors ==
  ASSUME NEW p \in Procs, Mirrors(p), Steady(p)
  PROVE  Mirrors(p)'
BY DEF Mirrors, Steady, Installs

LEMMA PlacesTold ==
  /\ Entering = {"read", "unlink", "open", "put"} /\ Opening = {"home", "create", "fill"}
  /\ InTurn = {"read", "unlink", "open", "put", "lookup", "stat", "extract", "extracting", "start",
               "delete"}
BY DEF Entering, Opening, InTurn

\* A step within a turn, or one that leaves it.
LEMMA ControlGoesOn ==
  ASSUME NEW p \in Procs, ControlOf(p), Steady(p),
         proc'[p].then \in {"next", "lookup", "start", "read"}, proc'[p].pc # "idle",
         \/ Stage(p)' \notin InTurn
         \/ /\ Stage(p) \in InTurn /\ proc'[p].turn = proc[p].turn /\ proc'[p].version = proc[p].version
            /\ \/ Stage(p)' = Stage(p)
               \/ /\ Stage(p) \in {"stat", "extract", "extracting"}
                  /\ Stage(p)' \in {"extract", "extracting", "start"}
               \/ Stage(p) \in Entering /\ Stage(p)' \in Entering /\ Stage(p)' # "unlink"
               \/ proc[p].kind = "remove" /\ Stage(p)' \in Entering \cup {"delete"}
               \/ Installs(p) /\ Stage(p) = "start" /\ Stage(p)' = "read"
  PROVE  ControlOf(p)'
<1>1. /\ proc'[p].kind = proc[p].kind /\ proc'[p].checked = proc[p].checked
      /\ proc'[p].todo = proc[p].todo
  BY DEF Steady
<1>2. CASE Stage(p)' \notin InTurn
  BY <1>2, PlacesTold DEF ControlOf
<1>3. CASE Stage(p) \in InTurn /\ Stage(p)' \in InTurn
  <2>1. proc'[p].turn \in DOMAIN proc'[p].todo
    BY <1>1, <1>3 DEF ControlOf
  <2>2. proc'[p].version = proc[p].version
    BY <1>3
  <2>3. CASE Stage(p)' = Stage(p)
    BY <1>1, <2>1, <2>2, <2>3 DEF ControlOf, Checks, Installs
  <2>4. CASE Stage(p) \in {"stat", "extract", "extracting"} /\ Stage(p)' \in {"extract", "extracting", "start"}
    BY <1>1, <2>1, <2>2, <2>4, PlacesTold DEF ControlOf, Installs
  <2>5. CASE Stage(p) \in Entering /\ Stage(p)' \in Entering /\ Stage(p)' # "unlink"
    BY <1>1, <2>1, <2>2, <2>5, PlacesTold DEF ControlOf
  <2>6. CASE proc[p].kind = "remove" /\ Stage(p)' \in Entering \cup {"delete"}
    BY <1>1, <2>1, <2>2, <2>6, PlacesTold DEF ControlOf
  <2>7. CASE Installs(p) /\ Stage(p) = "start" /\ Stage(p)' = "read"
    BY <1>1, <2>1, <2>2, <2>7, PlacesTold DEF ControlOf, Installs
  <2> QED
    BY <1>3, <2>3, <2>4, <2>5, <2>6, <2>7
<1> QED
  BY <1>2, <1>3

LEMMA StageTold ==
  ASSUME NEW p \in Procs
  PROVE  /\ Stage(p) = IF proc[p].pc \in {"home", "create", "fill"} THEN proc[p].then ELSE proc[p].pc
         /\ Stage(p)' = IF proc'[p].pc \in {"home", "create", "fill"} THEN proc'[p].then
                        ELSE proc'[p].pc
BY DEF Stage, Opening

LEMMA SameTold ==
  ASSUME NEW p \in Procs, NEW changed, Same(p, changed)
  PROVE  /\ changed \cap {"kind", "list", "todo", "checked"} = {} => Steady(p)
         /\ "then" \notin changed => proc'[p].then = proc[p].then
         /\ "turn" \notin changed => proc'[p].turn = proc[p].turn
         /\ "version" \notin changed => proc'[p].version = proc[p].version
         /\ "path" \notin changed => proc'[p].path = proc[p].path
         /\ "map" \notin changed => proc'[p].map = proc[p].map
         /\ "kind" \notin changed => proc'[p].kind = proc[p].kind
         /\ "todo" \notin changed => proc'[p].todo = proc[p].todo
         /\ "list" \notin changed => proc'[p].list = proc[p].list
         /\ "checked" \notin changed => proc'[p].checked = proc[p].checked
         /\ "names" \notin changed => proc'[p].names = proc[p].names
         /\ "handle" \notin changed => proc'[p].handle = proc[p].handle
         /\ "errored" \notin changed => proc'[p].errored = proc[p].errored
         /\ "space" \notin changed => proc'[p].space = proc[p].space
BY DEF Same, Fields, Steady

LEMMA EndsTold ==
  ASSUME NEW p \in Procs, ControlOf(p), Stops(p) \/ NextTurn(p)
  PROVE  /\ Steady(p) /\ Stage(p)' \in {"next", "done", "crashed"} /\ proc'[p].pc # "idle"
         /\ proc'[p].then \in {"next", "lookup", "start", "read"}
         /\ Stage(p)' \notin InTurn /\ Stage(p)' \notin Entering
         /\ proc'[p].map = proc[p].map
<1>1. proc[p].then \in {"next", "lookup", "start", "read"}
  BY DEF ControlOf
<1>2. CASE Stops(p)
  BY <1>1, <1>2, SameTold, StageTold, PlacesTold DEF Stops, Ended
<1>3. CASE NextTurn(p)
  BY <1>1, <1>3, SameTold, StageTold, PlacesTold DEF NextTurn
<1> QED
  BY <1>2, <1>3

\* The steps that change config.json or the cache keep the control.
LEMMA ControlOfConfig ==
  ASSUME TypeOK, NEW p \in Procs, ControlOf(p), Mirrors(p), Config(p)
  PROVE  proc'[p] \in Process /\ ControlOf(p)' /\ Mirrors(p)'
<1>0. proc[p].then \in {"next", "lookup", "start", "read"}
  BY DEF ControlOf
<1>1. CASE StatConfig(p) \/ CreateConfig(p) \/ FillConfig(p)
  <2>1. /\ proc'[p] \in Process /\ Steady(p) /\ proc'[p].then = proc[p].then /\ Stage(p)' = Stage(p)
        /\ proc'[p].turn = proc[p].turn /\ proc'[p].version = proc[p].version
        /\ proc'[p].pc # "idle"
    <3>1. CASE StatConfig(p)
      BY <1>0, <3>1, StatConfigMoves, SameTold, StageTold
    <3>2. CASE CreateConfig(p)
      <4>1. proc[p].pc = "create" /\ OpenFile(p, "fill") /\ "fill" \in Steps
        BY <3>2, StepNames DEF CreateConfig, At
      <4> QED
        BY <1>0, <4>1, OpenMoves, SameTold, StageTold
    <3>3. CASE FillConfig(p)
      BY <1>0, <3>3, FillConfigMoves, SameTold, StageTold
    <3> QED
      BY <1>1, <3>1, <3>2, <3>3
  <2> QED
    BY <1>0, <2>1, ControlGoesOn, SteadyMirrors
<1>2. CASE ReadToAdd(p) \/ ReadToRemove(p) \/ UnlinkConfig(p)
  <2>1. /\ proc'[p] \in Process
        /\ \/ /\ Steady(p) /\ proc'[p].then = proc[p].then
              /\ proc'[p].turn = proc[p].turn /\ proc'[p].version = proc[p].version
              /\ Stage(p) \in Entering /\ Stage(p)' \in Entering
              /\ Stage(p)' # "unlink" \/ proc[p].kind = "remove"
              /\ proc'[p].pc # "idle"
           \/ Stops(p) \/ NextTurn(p)
    <3>1. CASE ReadToAdd(p)
      BY <3>1, ReadToAddMoves, SameTold, StageTold, PlacesTold
    <3>2. CASE ReadToRemove(p)
      <4>1. /\ proc'[p] \in Process /\ proc[p].pc = "read" /\ proc[p].kind = "remove"
            /\ \/ proc'[p].pc = "unlink" /\ Same(p, {"pc", "map"})
               \/ Stops(p) \/ NextTurn(p)
        BY <3>2, ReadToRemoveMoves
      <4> QED
        BY <4>1, SameTold, StageTold, PlacesTold
    <3>3. CASE UnlinkConfig(p)
      BY <3>3, UnlinkConfigMoves, SameTold, StageTold, PlacesTold
    <3> QED
      BY <1>2, <3>1, <3>2, <3>3
  <2>2. Steady(p) /\ proc'[p].pc # "idle" /\ proc'[p].then \in {"next", "lookup", "start", "read"}
    BY <1>0, <2>1, EndsTold
  <2>3. Entering \subseteq InTurn
    BY PlacesTold
  <2> QED
    BY <2>1, <2>2, <2>3, ControlGoesOn, SteadyMirrors, EndsTold
<1>3. CASE OpenConfig(p)
  <2>1. proc[p].pc = "open" /\ OpenFile(p, "put") /\ "put" \in Steps
    BY <1>3, StepNames DEF OpenConfig, At
  <2>2. /\ proc'[p] \in Process /\ Steady(p) /\ proc'[p].then = proc[p].then
        /\ proc'[p].turn = proc[p].turn /\ proc'[p].version = proc[p].version
        /\ Stage(p) = "open" /\ Stage(p)' = "put" /\ proc'[p].pc # "idle"
    BY <2>1, OpenMoves, SameTold, StageTold
  <2> QED
    BY <1>0, <2>2, ControlGoesOn, SteadyMirrors, PlacesTold
<1>4. CASE PutConfig(p)
  <2>1. /\ proc'[p] \in Process /\ Stage(p)' = "next" /\ proc'[p].pc # "idle"
        /\ proc'[p].then = proc[p].then /\ proc'[p].kind = proc[p].kind
        /\ proc'[p].todo = proc[p].todo /\ proc'[p].checked = proc[p].checked
        /\ ~Installs(p) => proc'[p].list = proc[p].list
    BY <1>4, PutConfigMoves, SameTold, StageTold
  <2>2. ControlOf(p)'
    BY <1>0, <2>1, PlacesTold DEF ControlOf
  <2>3. Mirrors(p)'
    BY <2>1 DEF Mirrors, Installs
  <2> QED
    BY <2>1, <2>2, <2>3
<1> QED
  BY <1>1, <1>2, <1>3, <1>4 DEF Config

LEMMA ControlOfBinary ==
  ASSUME TypeOK, NEW p \in Procs, ControlOf(p), Mirrors(p), Binary(p)
  PROVE  proc'[p] \in Process /\ ControlOf(p)' /\ Mirrors(p)'
<1>0. proc[p].then \in {"next", "lookup", "start", "read"}
  BY DEF ControlOf
<1>1. CASE StatBinary(p) \/ Extract(p) \/ Extracted(p)
  <2>1. /\ proc'[p] \in Process /\ Steady(p) /\ proc'[p].then = proc[p].then
        /\ proc'[p].turn = proc[p].turn /\ proc'[p].version = proc[p].version
        /\ Stage(p) \in {"stat", "extract", "extracting"}
        /\ Stage(p)' \in {"extract", "extracting", "start"} /\ proc'[p].pc # "idle"
    <3>1. CASE StatBinary(p)
      BY <3>1, StatBinaryMoves, SameTold, StageTold
    <3>2. CASE Extract(p)
      BY <3>2, ExtractMoves, SameTold, StageTold
    <3>3. CASE Extracted(p)
      BY <3>3, ExtractedMoves, SameTold, StageTold
    <3> QED
      BY <1>1, <3>1, <3>2, <3>3
  <2> QED
    BY <1>0, <2>1, ControlGoesOn, SteadyMirrors, PlacesTold
<1>2. CASE DownloadFails(p)
  <2>1. proc'[p] \in Process /\ Stops(p)
    BY <1>2, EndingMoves
  <2> QED
    BY <2>1, EndsTold, ControlGoesOn, SteadyMirrors
<1>3. CASE StartPlugin(p) \/ StartFails(p)
  <2>1. /\ proc'[p] \in Process
        /\ \/ /\ Steady(p) /\ proc'[p].then \in {"next", "lookup", "start", "read"}
              /\ proc'[p].pc # "idle" /\ Stage(p)' \notin InTurn
           \/ /\ Steady(p) /\ proc'[p].then = "read" /\ proc'[p].pc # "idle"
              /\ Installs(p) /\ Stage(p) = "start" /\ Stage(p)' = "read"
              /\ proc'[p].turn = proc[p].turn /\ proc'[p].version = proc[p].version
           \/ Stops(p) \/ NextTurn(p)
    <3>1. CASE StartPlugin(p)
      BY <3>1, StartPluginMoves, SameTold, StageTold
    <3>2. CASE StartFails(p)
      <4>1. \/ proc'[p].pc = "next" /\ Same(p, {"pc", "turn", "errored"})
            \/ Stops(p)
        BY <3>2, StartFailsMoves
      <4>2. proc'[p] \in Process
        BY <3>2, StartFailsMoves
      <4> QED
        BY <1>0, <4>1, <4>2, SameTold, StageTold, PlacesTold
    <3> QED
      BY <1>3, <3>1, <3>2
  <2>2. CASE Stage(p)' \notin InTurn /\ Steady(p) /\ proc'[p].then \in {"next", "lookup", "start", "read"}
             /\ proc'[p].pc # "idle"
    BY <2>1, <2>2, ControlGoesOn, SteadyMirrors
  <2>3. CASE Stops(p) \/ NextTurn(p)
    BY <2>1, <2>3, EndsTold, ControlGoesOn, SteadyMirrors
  <2>4. CASE /\ Steady(p) /\ proc'[p].then = "read" /\ proc'[p].pc # "idle"
             /\ Installs(p) /\ Stage(p) = "start" /\ Stage(p)' = "read"
             /\ proc'[p].turn = proc[p].turn /\ proc'[p].version = proc[p].version
    BY <2>1, <2>4, ControlGoesOn, SteadyMirrors, PlacesTold
  <2> QED
    BY <2>1, <2>2, <2>3, <2>4
<1>4. CASE DeleteBinary(p)
  <2>1. /\ proc'[p] \in Process /\ Steady(p) /\ proc'[p].then = "read"
        /\ proc'[p].turn = proc[p].turn /\ proc'[p].version = proc[p].version
        /\ Stage(p) = "delete" /\ Stage(p)' = "read" /\ proc'[p].pc # "idle"
    BY <1>4, DeleteBinaryMoves, SameTold, StageTold
  <2>2. proc[p].kind = "remove"
    BY <2>1 DEF ControlOf
  <2> QED
    BY <2>1, <2>2, ControlGoesOn, SteadyMirrors, PlacesTold
<1> QED
  BY <1>1, <1>2, <1>3, <1>4 DEF Binary

\* A step that begins a turn.
LEMMA ControlTurns ==
  ASSUME NEW p \in Procs, Mirrors(p)', proc'[p].kind = proc[p].kind, proc'[p].pc # "idle",
         proc'[p].then \in {"next", "lookup", "start", "read"},
         proc'[p].turn \in DOMAIN proc'[p].todo,
         \/ /\ Stage(p)' = "stat" /\ proc[p].kind \in {"install", "init", "update"}
            /\ proc'[p].version \in Versions
         \/ Stage(p)' = "lookup" /\ (proc[p].kind \in {"remove", "fetch"} \/ Checks(p)')
         \/ Stage(p)' = "start" /\ proc[p].kind # "remove" /\ ~Installs(p)
         \/ Stage(p)' = "delete" /\ proc[p].kind = "remove"
         \/ Stage(p)' = "read" /\ proc[p].kind = "apply" /\ proc'[p].version \in Versions
  PROVE  ControlOf(p)'
<1>1. Installs(p)' = Installs(p)
  BY DEF Installs
<1>2. CASE Stage(p)' = "stat" /\ proc[p].kind \in {"install", "init", "update"} /\ proc'[p].version \in Versions
  BY <1>2, PlacesTold DEF ControlOf
<1>3. CASE Stage(p)' = "lookup" /\ (proc[p].kind \in {"remove", "fetch"} \/ Checks(p)')
  BY <1>3, PlacesTold DEF ControlOf
<1>4. CASE Stage(p)' = "start" /\ proc[p].kind # "remove" /\ ~Installs(p)
  BY <1>1, <1>4, PlacesTold DEF ControlOf
<1>5. CASE Stage(p)' = "delete" /\ proc[p].kind = "remove"
  BY <1>5, PlacesTold DEF ControlOf
<1>6. CASE Stage(p)' = "read" /\ proc[p].kind = "apply" /\ proc'[p].version \in Versions
  BY <1>6, PlacesTold DEF ControlOf
<1> QED
  BY <1>2, <1>3, <1>4, <1>5, <1>6

LEMMA TurnInTodo ==
  ASSUME TypeOK, NEW p \in Procs, Mirrors(p), ~Over(p)
  PROVE  proc[p].turn \in DOMAIN proc[p].todo
BY ItemTypes DEF Mirrors

LEMMA ControlOfCommand ==
  ASSUME TypeOK, NEW p \in Procs, ControlOf(p), Mirrors(p), Command(p) \/ Crash(p)
  PROVE  proc'[p] \in Process /\ ControlOf(p)' /\ Mirrors(p)'
<1>0. proc[p].then \in {"next", "lookup", "start", "read"}
  BY DEF ControlOf
<1>1. CASE Begin(p)
  <2>1. /\ proc'[p] \in Process /\ proc'[p].kind = proc[p].kind /\ proc[p].pc = "idle"
        /\ proc'[p].pc \in {"home", "next"} /\ proc'[p].then = proc[p].then
    BY <1>1, BeginRecord
  <2>2. Stage(p)' = "next" /\ proc'[p].then = "next"
    BY <2>1, StageTold DEF ControlOf
  <2>3. ControlOf(p)'
    BY <2>1, <2>2, PlacesTold DEF ControlOf
  <2>4. ASSUME ~Installs(p)'
        PROVE  /\ DOMAIN proc'[p].list = DOMAIN proc'[p].todo
               /\ \A i \in DOMAIN proc'[p].todo :
                     /\ proc'[p].list[i].name = proc'[p].todo[i].name
                     /\ proc'[p].list[i].version = proc'[p].todo[i].version
    <3>1. ~Installs(p) /\ proc[p].kind # "init"
      BY <2>1, <2>4 DEF Installs
    <3> QED
      BY <1>1, <3>1, BeginRecord
  <2>5. proc'[p].checked => proc'[p].kind = "apply"
    BY <1>1, <2>1, BeginRecord DEF Mirrors
  <2> QED
    BY <2>1, <2>3, <2>4, <2>5 DEF Mirrors
<1>2. CASE ResolveToInstall(p) \/ CheckUpdate(p)
  <2>1. /\ proc'[p] \in Process /\ ~Over(p) /\ (Installs(p) \/ proc[p].kind = "update")
        /\ \/ /\ Stage(p)' = "stat" /\ proc'[p].version \in Versions
              /\ Steady(p) /\ proc'[p].then = proc[p].then /\ proc'[p].turn = proc[p].turn
              /\ proc'[p].pc # "idle"
           \/ /\ Stage(p)' = "start" /\ proc[p].kind = "update"
              /\ Steady(p) /\ proc'[p].then = "start" /\ proc'[p].turn = proc[p].turn
              /\ proc'[p].pc # "idle"
           \/ Stops(p)
    <3>1. CASE ResolveToInstall(p)
      BY <3>1, ResolveToInstallMoves, ResolvedTypes, SameTold, StageTold
    <3>2. CASE CheckUpdate(p)
      BY <3>2, CheckUpdateMoves, ResolvedTypes, SameTold, StageTold
    <3> QED
      BY <1>2, <3>1, <3>2
  <2>2. proc[p].turn \in DOMAIN proc[p].todo
    BY <2>1, TurnInTodo
  <2>3. CASE Stops(p)
    BY <2>1, <2>3, EndsTold, ControlGoesOn, SteadyMirrors
  <2>4. CASE ~Stops(p)
    <3>1. /\ Mirrors(p)' /\ proc'[p].kind = proc[p].kind /\ proc'[p].todo = proc[p].todo
          /\ proc'[p].turn = proc[p].turn /\ proc'[p].pc # "idle"
          /\ proc'[p].then \in {"next", "lookup", "start", "read"}
          /\ \/ Stage(p)' = "stat" /\ proc'[p].version \in Versions
             \/ Stage(p)' = "start" /\ proc[p].kind = "update"
      BY <1>0, <2>1, <2>4, SteadyMirrors DEF Steady
    <3> QED
      BY <2>1, <2>2, <3>1, ControlTurns DEF Installs
  <2> QED
    BY <2>3, <2>4
<1>3. CASE FindPath(p)
  <2>1. /\ proc'[p] \in Process /\ ~Over(p) /\ Steady(p)
        /\ proc'[p].then = "lookup" /\ Stage(p)' = "lookup" /\ proc'[p].pc # "idle"
        /\ proc'[p].turn = proc[p].turn /\ (proc[p].kind \in {"fetch", "remove"} \/ Checks(p))
    BY <1>3, FindPathMoves, SameTold, StageTold
  <2>2. proc[p].turn \in DOMAIN proc[p].todo /\ Mirrors(p)'
    BY <2>1, TurnInTodo, SteadyMirrors
  <2>3. proc'[p].kind = proc[p].kind /\ proc'[p].todo = proc[p].todo /\ Checks(p)' = Checks(p)
    BY <2>1 DEF Steady, Checks
  <2> QED
    BY <2>1, <2>2, <2>3, ControlTurns
<1>4. CASE LookUp(p)
  <2>1. /\ proc'[p] \in Process /\ ~Over(p) /\ proc'[p].pc # "idle"
        /\ Stage(p)' = "start" /\ proc'[p].turn = proc[p].turn /\ proc'[p].then = proc[p].then
        /\ proc'[p].kind = proc[p].kind /\ proc'[p].todo = proc[p].todo
        /\ proc'[p].checked = proc[p].checked
        /\ proc[p].kind # "remove" /\ ~Installs(p)
    <3>1. /\ proc'[p] \in Process /\ ~Over(p) /\ ~Installs(p) /\ proc'[p].pc = "start"
          /\ Same(p, {"pc", "path", "list"}) /\ (proc[p].kind = "fetch" \/ Checks(p))
      BY <1>4, LookUpMoves
    <3> QED
      BY <3>1, SameTold, StageTold DEF Checks
  <2>2. /\ DOMAIN proc'[p].list = DOMAIN proc[p].list
        /\ \A i \in DOMAIN proc[p].list : /\ proc'[p].list[i].name = proc[p].list[i].name
                                          /\ proc'[p].list[i].version = proc[p].list[i].version
    <3>1. proc[p].list \in Seq(Loaded)
      BY DEF TypeOK, Process
    <3>2. \A i \in DOMAIN proc[p].list : proc[p].list[i] \in Loaded
      BY <3>1
    <3>3. /\ DOMAIN proc'[p].list = DOMAIN proc[p].list
          /\ \A i \in DOMAIN proc[p].list : proc'[p].list[i] =
               IF i = proc[p].turn THEN [proc[p].list[i] EXCEPT !.path = proc'[p].path]
               ELSE proc[p].list[i]
      BY <1>4, LookUpMoves
    <3> QED
      BY <3>2, <3>3 DEF Loaded
  <2>3. Mirrors(p)'
    BY <2>1, <2>2 DEF Mirrors, Installs
  <2>4. proc[p].turn \in DOMAIN proc[p].todo
    BY <2>1, TurnInTodo
  <2> QED
    BY <1>0, <2>1, <2>3, <2>4, ControlTurns
<1>5. CASE LookUpToRemove(p)
  <2>1. /\ proc'[p] \in Process /\ ~Over(p) /\ proc[p].kind = "remove"
        /\ \/ /\ Steady(p) /\ Stage(p)' = "delete" /\ proc'[p].pc # "idle"
              /\ proc'[p].turn = proc[p].turn /\ proc'[p].then = proc[p].then
           \/ Stops(p)
    BY <1>5, LookUpToRemoveMoves, SameTold, StageTold
  <2>2. proc[p].turn \in DOMAIN proc[p].todo
    BY <2>1, TurnInTodo
  <2>3. CASE Stops(p)
    BY <2>1, <2>3, EndsTold, ControlGoesOn, SteadyMirrors
  <2>4. CASE ~Stops(p)
    <3>1. /\ Mirrors(p)' /\ proc'[p].kind = proc[p].kind /\ proc'[p].todo = proc[p].todo
      BY <2>1, <2>4, SteadyMirrors DEF Steady
    <3> QED
      BY <1>0, <2>1, <2>2, <2>4, <3>1, ControlTurns
  <2> QED
    BY <2>3, <2>4
<1>6. CASE ResolveToApply(p)
  <2>1. /\ proc'[p] \in Process /\ ~Over(p) /\ proc[p].kind = "apply" /\ proc[p].checked
        /\ \/ /\ Stage(p)' = "read" /\ proc'[p].pc # "idle" /\ proc'[p].version = Resolved(p)
              /\ proc'[p].turn = proc[p].turn /\ proc'[p].then = "read"
              /\ proc'[p].kind = proc[p].kind /\ proc'[p].todo = proc[p].todo
              /\ proc'[p].checked = proc[p].checked
           \/ NextTurn(p)
    <3>1. /\ proc'[p] \in Process /\ ~Over(p) /\ proc[p].kind = "apply" /\ proc[p].checked
          /\ \/ /\ proc'[p].pc = "home" /\ proc'[p].then = "read" /\ proc'[p].version = Resolved(p)
                /\ Same(p, {"pc", "then", "version", "path", "list"})
             \/ NextTurn(p)
      BY <1>6, ResolveToApplyMoves
    <3>2. CASE NextTurn(p)
      BY <3>1, <3>2
    <3>3. CASE /\ proc'[p].pc = "home" /\ proc'[p].then = "read" /\ proc'[p].version = Resolved(p)
               /\ Same(p, {"pc", "then", "version", "path", "list"})
      <4>1. /\ proc'[p].turn = proc[p].turn /\ proc'[p].kind = proc[p].kind
            /\ proc'[p].todo = proc[p].todo /\ proc'[p].checked = proc[p].checked
        BY <3>3, SameTold
      <4>2. Stage(p)' = "read"
        BY <3>3, StageTold
      <4> QED
        BY <3>1, <3>3, <4>1, <4>2
    <3> QED
      BY <3>1, <3>2, <3>3
  <2>2. proc[p].turn \in DOMAIN proc[p].todo /\ Resolved(p) \in Versions
    BY <2>1, TurnInTodo, ResolvedTypes
  <2>3. CASE NextTurn(p)
    BY <2>1, <2>3, EndsTold, ControlGoesOn, SteadyMirrors
  <2>4. CASE ~NextTurn(p)
    <3>1. proc[p].list \in Seq(Loaded)
      BY DEF TypeOK, Process
    <3>2. \A i \in DOMAIN proc[p].list : proc[p].list[i] \in Loaded
      BY <3>1
    <3>3. /\ DOMAIN proc'[p].list = DOMAIN proc[p].list
          /\ \A i \in DOMAIN proc[p].list : proc'[p].list[i] =
               IF i = proc[p].turn THEN [proc[p].list[i] EXCEPT !.version = Resolved(p)]
               ELSE proc[p].list[i]
      BY <1>6, <2>4, ResolveToApplyMoves
    <3>4. /\ DOMAIN proc'[p].list = DOMAIN proc[p].list
          /\ \A i \in DOMAIN proc[p].list : proc'[p].list[i].name = proc[p].list[i].name
      BY <3>2, <3>3 DEF Loaded
    <3>5. Mirrors(p)'
      BY <2>1, <2>4, <3>4 DEF Mirrors, Installs
    <3> QED
      BY <2>1, <2>2, <2>4, <3>5, ControlTurns
  <2> QED
    BY <2>3, <2>4
<1>7. CASE CheckEnds(p)
  <2>1. /\ proc'[p] \in Process
        /\ \/ /\ Stage(p)' = "next" /\ proc'[p].pc # "idle" /\ proc'[p].then = "next"
              /\ proc'[p].kind = proc[p].kind /\ proc'[p].list = proc[p].list
              /\ proc'[p].todo = proc[p].todo /\ proc'[p].checked /\ proc[p].kind = "apply"
           \/ Stops(p)
    <3>1. /\ proc'[p] \in Process
          /\ \/ /\ proc'[p].pc = "home" /\ proc'[p].then = "next" /\ proc'[p].checked = TRUE
                /\ proc[p].kind = "apply"
                /\ Same(p, {"pc", "then", "checked", "turn"})
             \/ Stops(p)
      BY <1>7, CheckEndsMoves
    <3>2. CASE /\ proc'[p].pc = "home" /\ proc'[p].then = "next" /\ proc'[p].checked = TRUE
               /\ proc[p].kind = "apply"
               /\ Same(p, {"pc", "then", "checked", "turn"})
      <4>1. /\ proc'[p].kind = proc[p].kind /\ proc'[p].list = proc[p].list
            /\ proc'[p].todo = proc[p].todo
        BY <3>2, SameTold
      <4>2. Stage(p)' = "next"
        BY <3>2, StageTold
      <4> QED
        BY <3>1, <3>2, <4>1, <4>2
    <3> QED
      BY <3>1, <3>2
  <2>2. CASE Stops(p)
    BY <2>1, <2>2, EndsTold, ControlGoesOn, SteadyMirrors
  <2>3. CASE ~Stops(p)
    <3>1. ControlOf(p)'
      BY <2>1, <2>3, PlacesTold DEF ControlOf
    <3>2. Mirrors(p)'
      BY <2>1, <2>3 DEF Mirrors, Installs
    <3> QED
      BY <2>1, <3>1, <3>2
  <2> QED
    BY <2>2, <2>3
<1>8. CASE WriteWorkspace(p) \/ CommandEnds(p) \/ Crash(p)
  <2>1. proc'[p] \in Process /\ Stops(p)
    BY <1>8, EndingMoves
  <2> QED
    BY <2>1, EndsTold, ControlGoesOn, SteadyMirrors
<1> QED
  BY <1>1, <1>2, <1>3, <1>4, <1>5, <1>6, <1>7, <1>8 DEF Command

LEMMA ControlKept ==
  ASSUME TypeOK, NEW p \in Procs, ControlOf(p), Mirrors(p), Run(p) \/ Crash(p)
  PROVE  proc'[p] \in Process /\ ControlOf(p)' /\ Mirrors(p)'
BY ControlOfConfig, ControlOfBinary, ControlOfCommand DEF Run

LEMMA KeptFields ==
  ASSUME TypeOK, NEW q \in Procs, Kept(q)
  PROVE  /\ proc'[q] \in Process /\ Same(q, {"handle"})
         /\ proc'[q].handle = "stale" \/ proc'[q].handle = proc[q].handle
<1>1. proc[q] \in Process
  BY DEF TypeOK
<1>2. CASE proc'[q] = proc[q]
  BY <1>1, <1>2 DEF Same
<1>3. CASE proc'[q] = [proc[q] EXCEPT !.handle = "stale"]
  <2>1. proc'[q] \in Process
    BY <1>1, <1>3 DEF Process
  <2> QED
    BY <1>1, <1>3, <2>1 DEF Process, Same, Fields
<1> QED
  BY <1>2, <1>3 DEF Kept

LEMMA KeptFacts ==
  ASSUME TypeOK, NEW q \in Procs, Kept(q)
  PROVE  /\ proc'[q].kind = proc[q].kind /\ proc'[q].pc = proc[q].pc /\ proc'[q].then = proc[q].then
         /\ proc'[q].space = proc[q].space /\ proc'[q].list = proc[q].list
         /\ proc'[q].todo = proc[q].todo /\ proc'[q].names = proc[q].names
         /\ proc'[q].turn = proc[q].turn /\ proc'[q].version = proc[q].version
         /\ proc'[q].path = proc[q].path /\ proc'[q].map = proc[q].map
         /\ proc'[q].checked = proc[q].checked /\ proc'[q].errored = proc[q].errored
         /\ Stage(q)' = Stage(q) /\ Item(q)' = Item(q) /\ Installs(q)' = Installs(q)
<1>1. Same(q, {"handle"})
  BY KeptFields
<1>2. /\ proc'[q].kind = proc[q].kind /\ proc'[q].pc = proc[q].pc /\ proc'[q].then = proc[q].then
      /\ proc'[q].space = proc[q].space /\ proc'[q].list = proc[q].list
      /\ proc'[q].todo = proc[q].todo /\ proc'[q].names = proc[q].names
      /\ proc'[q].turn = proc[q].turn /\ proc'[q].version = proc[q].version
      /\ proc'[q].path = proc[q].path /\ proc'[q].map = proc[q].map
      /\ proc'[q].checked = proc[q].checked /\ proc'[q].errored = proc[q].errored
  BY <1>1 DEF Same, Fields
<1>3. Stage(q)' = Stage(q) /\ Installs(q)' = Installs(q)
  BY <1>2 DEF Stage, Installs
<1>4. Item(q)' = Item(q)
  BY <1>2 DEF Item, Installs
<1> QED
  BY <1>2, <1>3, <1>4

LEMMA KeptControl ==
  ASSUME TypeOK, NEW q \in Procs, Kept(q), ControlOf(q), Mirrors(q)
  PROVE  ControlOf(q)' /\ Mirrors(q)'
<1>1. Steady(q)
  BY KeptFacts DEF Steady
<1>2. Checks(q)' = Checks(q)
  BY KeptFacts DEF Checks
<1>3. ControlOf(q)'
  BY KeptFacts, <1>2 DEF ControlOf
<1> QED
  BY <1>1, <1>3, SteadyMirrors

LEMMA ProcsTyped ==
  ASSUME TypeOK, NEW p \in Procs, \A q \in Procs : ControlOf(q) /\ Mirrors(q), Run(p) \/ Crash(p)
  PROVE  proc' \in [Procs -> Process] /\ \A q \in Procs : (ControlOf(q) /\ Mirrors(q))'
<1>1. proc' = [q \in Procs |-> proc'[q]]
  <2>1. proc = [q \in Procs |-> proc[q]]
    BY DEF TypeOK
  <2> USE DEF Goto, Home, Continue
  <2>2. CASE Config(p)
    BY <2>1, <2>2 DEF Config, StatConfig, CreateConfig, FillConfig, ReadToAdd, ReadToRemove,
                      UnlinkConfig, OpenConfig, OpenFile, PutConfig, Entered
  <2>3. CASE Binary(p)
    BY <2>1, <2>3 DEF Binary, StatBinary, Extract, DownloadFails, Extracted, StartPlugin, StartFails,
                      DeleteBinary, Overtaken
  <2>4. CASE Begin(p)
    BY <2>1, <2>4 DEF Begin
  <2>5. CASE ResolveToInstall(p) \/ CheckUpdate(p) \/ FindPath(p) \/ LookUp(p) \/ LookUpToRemove(p)
    BY <2>1, <2>5 DEF ResolveToInstall, CheckUpdate, FindPath, LookUp, Found, LookUpToRemove, FoundToRemove
  <2>6. CASE ResolveToApply(p) \/ CheckEnds(p) \/ WriteWorkspace(p) \/ CommandEnds(p) \/ Crash(p)
    BY <2>1, <2>6 DEF ResolveToApply, CheckEnds, WriteWorkspace, CommandEnds, Crash
  <2> QED
    BY <2>2, <2>3, <2>4, <2>5, <2>6 DEF Run, Command
<1>2. ASSUME NEW q \in Procs
      PROVE  proc'[q] \in Process /\ (ControlOf(q) /\ Mirrors(q))'
  <2>1. CASE q = p
    BY <2>1, ControlKept
  <2>2. CASE q # p
    <3>1. Kept(q)
      BY <2>2, OthersKept
    <3> QED
      BY <3>1, KeptFields, KeptControl
  <2> QED
    BY <2>1, <2>2
<1>3. proc' \in [Procs -> Process]
  BY <1>1, <1>2
<1> QED
  BY <1>2, <1>3

\* What a step writes to config.json.
LEMMA ConfigWritten ==
  ASSUME TypeOK, NEW p \in Procs, Run(p) \/ Crash(p)
  PROVE  /\ entries' \in {entries, NoEntry, proc[p].map}
         /\ file' \in {"absent", "blank", "garbage", "ok"}
<1> USE DEF TypeOK, WriteFile, OpenFile, cacheVars, configVars, restVars
<1>1. CASE Config(p)
  BY <1>1 DEF Config, StatConfig, CreateConfig, FillConfig, ReadToAdd, ReadToRemove, UnlinkConfig,
              OpenConfig, PutConfig, Entered
<1>2. CASE Binary(p) \/ Command(p) \/ Crash(p)
  BY <1>2 DEF Binary, Command, StatBinary, Extract, DownloadFails, Extracted, StartPlugin, StartFails,
              DeleteBinary, Begin, ResolveToInstall, CheckUpdate, FindPath, LookUp, Found,
         LookUpToRemove, FoundToRemove,
              ResolveToApply, CheckEnds, WriteWorkspace, CommandEnds, Crash
<1> QED
  BY <1>1, <1>2 DEF Run

LEMMA BinaryUpdated ==
  ASSUME NEW S, NEW b \in [Names -> [Versions -> S]], NEW n \in Names, NEW v \in Versions, NEW x \in S
  PROVE  /\ [b EXCEPT ![n][v] = x] \in [Names -> [Versions -> S]]
         /\ \A m \in Names, w \in Versions :
               [b EXCEPT ![n][v] = x][m][w] = IF m = n /\ w = v THEN x ELSE b[m][w]
<1> DEFINE c == [b EXCEPT ![n][v] = x]
<1>1. \A m \in Names : c[m] = IF m = n THEN [b[n] EXCEPT ![v] = x] ELSE b[m]
  OBVIOUS
<1>2. c = [m \in Names |-> c[m]]
  OBVIOUS
<1> HIDE DEF c
<1>3. \A m \in Names : b[m] \in [Versions -> S]
  OBVIOUS
<1>4. \A m \in Names : c[m] \in [Versions -> S]
  BY <1>1, <1>3
<1>5. c \in [Names -> [Versions -> S]]
  BY <1>2, <1>4
<1>6. \A m \in Names, w \in Versions : c[m][w] = IF m = n /\ w = v THEN x ELSE b[m][w]
  BY <1>1, <1>3
<1> QED
  BY <1>5, <1>6 DEF c

\* What it leaves alone, and what it does to the cache.
LEMMA CacheWritten ==
  ASSUME TypeOK, NEW p \in Procs, ControlOf(p), Mirrors(p), WholeOnes \subseteq wholeOnce,
         Run(p) \/ Crash(p)
  PROVE  /\ newest' = newest /\ released' = released /\ alone' = alone /\ failed' = failed
         /\ removed' \subseteq Names /\ removed \subseteq removed'
         /\ binary' \in [Names -> [Versions -> {"none", "partial", "whole"}]]
         /\ wholeOnce \subseteq wholeOnce' /\ wholeOnce' \subseteq Names \X Versions
         /\ WholeOnes' \subseteq wholeOnce'
<1>1. newest' = newest /\ released' = released /\ alone' = alone /\ failed' = failed
  BY DEF Run, Config, StatConfig, CreateConfig, FillConfig, ReadToAdd, ReadToRemove, UnlinkConfig,
         OpenConfig, PutConfig, Entered, Binary, Command, StatBinary, Extract, DownloadFails, Extracted,
         StartPlugin, StartFails, DeleteBinary, Begin, ResolveToInstall, CheckUpdate, FindPath,
         LookUp, Found, LookUpToRemove, FoundToRemove, ResolveToApply, CheckEnds,
         WriteWorkspace, CommandEnds, Crash, restVars
<1>2. removed' \subseteq Names /\ removed \subseteq removed'
  <2>1. CASE Begin(p)
    BY <2>1, BeginRecord
  <2>2. CASE ~Begin(p)
    <3>1. removed' = removed
      BY <2>2 DEF Run, Config, StatConfig, CreateConfig, FillConfig, ReadToAdd, ReadToRemove,
         UnlinkConfig, OpenConfig, PutConfig, Entered, Binary, Command, StatBinary, Extract, DownloadFails,
         Extracted, StartPlugin, StartFails, DeleteBinary, ResolveToInstall, CheckUpdate, FindPath,
         LookUp, Found, LookUpToRemove, FoundToRemove, ResolveToApply, CheckEnds,
         WriteWorkspace, CommandEnds, Crash, restVars
    <3> QED
      BY <3>1 DEF TypeOK
  <2> QED
    BY <2>1, <2>2
<1>3. CASE Extract(p) \/ Extracted(p)
  <2>1. proc[p].version \in Versions /\ Item(p).name \in Names
    <3>1. proc[p].pc \in {"extract", "extracting"}
      BY <1>3 DEF Extract, Extracted, At
    <3>2. Stage(p) \in {"extract", "extracting"} /\ Stage(p) \in InTurn
      BY <3>1, StageTold, PlacesTold
    <3>3. ~Over(p)
      BY <3>2, TurnHasItem
    <3> QED
      BY <3>2, <3>3, ItemTypes DEF ControlOf
  <2>2. PICK n \in Names, v \in Versions, x \in {"partial", "whole"} :
            /\ binary' = [binary EXCEPT ![n][v] = x] \/ binary' = binary
            /\ \/ x = "whole" /\ wholeOnce' = wholeOnce \cup {<<n, v>>} /\ binary' = [binary EXCEPT ![n][v] = x]
               \/ wholeOnce' = wholeOnce /\ (x = "partial" \/ binary' = binary)
    <3>1. CASE Extract(p)
      BY <2>1, <3>1 DEF Extract
    <3>2. CASE Extracted(p)
      BY <2>1, <3>2 DEF Extracted, cacheVars
    <3> QED
      BY <1>3, <3>1, <3>2
  <2>3. /\ binary' \in [Names -> [Versions -> {"none", "partial", "whole"}]]
        /\ \A m \in Names, w \in Versions : binary'[m][w] = "whole" =>
              binary[m][w] = "whole" \/ (binary' # binary /\ x = "whole" /\ m = n /\ w = v)
    <3>1. binary \in [Names -> [Versions -> {"none", "partial", "whole"}]]
      BY DEF TypeOK
    <3>2. CASE binary' = binary
      BY <3>1, <3>2
    <3>3. CASE binary' = [binary EXCEPT ![n][v] = x] /\ binary' # binary
      <4>1. x \in {"none", "partial", "whole"}
        OBVIOUS
      <4> DEFINE b == [binary EXCEPT ![n][v] = x]
      <4>2. /\ b \in [Names -> [Versions -> {"none", "partial", "whole"}]]
            /\ \A m \in Names, w \in Versions : b[m][w] = IF m = n /\ w = v THEN x ELSE binary[m][w]
        BY <3>1, <4>1, BinaryUpdated
      <4> HIDE DEF b
      <4>3. binary' = b
        BY <3>3 DEF b
      <4> QED
        BY <3>3, <4>2, <4>3
    <3> QED
      BY <2>2, <3>2, <3>3
  <2>7. wholeOnce \subseteq wholeOnce' /\ wholeOnce' \subseteq Names \X Versions
    BY <2>2 DEF TypeOK
  <2>4. \A m \in Names, w \in Versions : binary'[m][w] = "whole" =>
            binary[m][w] = "whole" \/ <<m, w>> \in wholeOnce'
    BY <2>2, <2>3
  <2>5. WholeOnes' \subseteq wholeOnce'
    BY <2>4, <2>7 DEF WholeOnes
  <2> QED
    BY <1>1, <1>2, <2>3, <2>5, <2>7
<1>4. CASE DeleteBinary(p)
  <2>1. wholeOnce' = wholeOnce
    BY <1>4 DEF DeleteBinary
  <2>2. binary' = binary \/ \E v \in Versions : binary' = [binary EXCEPT ![Item(p).name][v] = "none"]
    <3>1. proc[p].path \in {NoPath} \cup Versions
      BY DEF TypeOK, Process
    <3> QED
      BY <1>4, <3>1 DEF DeleteBinary
  <2>3. /\ binary' \in [Names -> [Versions -> {"none", "partial", "whole"}]]
        /\ \A m \in Names, w \in Versions : binary'[m][w] = "whole" => binary[m][w] = "whole"
    <3>1. binary \in [Names -> [Versions -> {"none", "partial", "whole"}]]
      BY DEF TypeOK
    <3>2. CASE binary' = binary
      BY <3>1, <3>2
    <3>3. CASE binary' # binary
      <4>1. PICK v \in Versions : binary' = [binary EXCEPT ![Item(p).name][v] = "none"]
        BY <2>2, <3>3
      <4>2. Item(p).name \in Names
        <5>1. Stage(p) \in InTurn
          BY <1>4, StageTold, PlacesTold DEF DeleteBinary, At
        <5> QED
          BY <5>1, TurnHasItem, ItemTypes
      <4>3. "none" \in {"none", "partial", "whole"}
        OBVIOUS
      <4> DEFINE n == Item(p).name
                 b == [binary EXCEPT ![n][v] = "none"]
      <4> HIDE DEF n
      <4>4. n \in Names
        BY <4>2 DEF n
      <4>5. /\ b \in [Names -> [Versions -> {"none", "partial", "whole"}]]
            /\ \A m \in Names, w \in Versions :
                  b[m][w] = IF m = n /\ w = v THEN "none" ELSE binary[m][w]
        BY <3>1, <4>3, <4>4, BinaryUpdated
      <4> HIDE DEF b
      <4>6. binary' = b
        BY <4>1 DEF b, n
      <4> QED
        BY <4>5, <4>6
    <3> QED
      BY <3>2, <3>3
  <2>4. WholeOnes' \subseteq wholeOnce'
    BY <2>1, <2>3 DEF WholeOnes
  <2> QED
    BY <1>1, <1>2, <2>1, <2>3, <2>4 DEF TypeOK
<1>5. CASE ~Extract(p) /\ ~Extracted(p) /\ ~DeleteBinary(p)
  <2>1. UNCHANGED cacheVars
    BY <1>5 DEF Run, Config, StatConfig, CreateConfig, FillConfig, ReadToAdd, ReadToRemove,
         UnlinkConfig, OpenConfig, PutConfig, Entered, Binary, Command, StatBinary, DownloadFails,
         StartPlugin, StartFails, Begin, ResolveToInstall, CheckUpdate, FindPath,
         LookUp, Found, LookUpToRemove, FoundToRemove, ResolveToApply, CheckEnds,
         WriteWorkspace, CommandEnds, Crash
  <2>2. binary' = binary /\ wholeOnce' = wholeOnce
    BY <2>1 DEF cacheVars
  <2>3. WholeOnes' = WholeOnes
    BY <2>2 DEF WholeOnes
  <2> QED
    BY <1>1, <1>2, <2>2, <2>3 DEF TypeOK
<1> QED
  BY <1>3, <1>4, <1>5

LEMMA DeclsWritten ==
  ASSUME TypeOK, NEW p \in Procs, Run(p) \/ Crash(p)
  PROVE  decls' \in [Spaces -> Seq(Decl)]
<1>1. CASE WriteWorkspace(p)
  <2> DEFINE list == proc[p].list
             written == [i \in DOMAIN list |-> [name |-> list[i].name, version |-> list[i].version]]
  <2>1. list \in Seq(Loaded) /\ proc[p].space \in Spaces /\ decls \in [Spaces -> Seq(Decl)]
    BY DEF TypeOK, Process
  <2>2. decls' = [decls EXCEPT ![proc[p].space] = written]
    BY <1>1 DEF WriteWorkspace
  <2> HIDE DEF list
  <2>3. written \in Seq(Decl)
    BY <2>1, ListWritten
  <2> HIDE DEF written
  <2> QED
    BY <2>1, <2>2, <2>3
<1>2. CASE ~WriteWorkspace(p)
  <2>1. decls' = decls
    BY <1>2 DEF Run, Config, StatConfig, CreateConfig, FillConfig, ReadToAdd, ReadToRemove,
         UnlinkConfig, OpenConfig, PutConfig, Entered, Binary, Command, StatBinary, Extract, DownloadFails,
         Extracted, StartPlugin, StartFails, DeleteBinary, Begin, ResolveToInstall, CheckUpdate,
         FindPath, LookUp, Found,
         LookUpToRemove, FoundToRemove, ResolveToApply, CheckEnds, CommandEnds, Crash, restVars
  <2> QED
    BY <2>1 DEF TypeOK
<1> QED
  BY <1>1, <1>2

LEMMA TypeKept ==
  ASSUME TypeOK, NEW p \in Procs, \A q \in Procs : ControlOf(q) /\ Mirrors(q),
         WholeOnes \subseteq wholeOnce, Run(p) \/ Crash(p)
  PROVE  TypeOK'
<1>1. proc' \in [Procs -> Process]
  BY ProcsTyped
<1>2. entries' \in Entries
  <2>1. proc[p].map \in Entries /\ entries \in Entries /\ NoEntry \in Entries
    BY VersionTypes DEF TypeOK, Process
  <2> QED
    BY <2>1, ConfigWritten
<1>3. /\ newest' \in [Names -> Versions] /\ released' \subseteq Names /\ alone' \in BOOLEAN
      /\ failed' \in BOOLEAN
  BY CacheWritten DEF TypeOK
<1> QED
  BY <1>1, <1>2, <1>3, ConfigWritten, CacheWritten, DeclsWritten DEF TypeOK

-----------------------------------------------------------------------------
(* The paths are sound. *)

\* What may stand in config.json may stand there after the step.
Grown ==
    /\ \A n \in Names : \A v \in {Latest} \cup Versions : Paths[n][v] \subseteq Paths'[n][v]
    /\ \A n \in Names : FreshOnes[n] \subseteq FreshOnes'[n]

LEMMA PathsTold ==
  ASSUME NEW n \in Names, NEW v \in Versions
  PROVE  /\ Paths[n][v] = {NoPath} \cup {path \in Versions :
            <<n, path>> \in wholeOnce /\ (path = v \/ (path < v /\ n \in released))}
         /\ Paths[n][Latest] = {NoPath} \cup {path \in FreshOnes[n] : <<n, path>> \in wholeOnce}
         /\ Paths'[n][v] = {NoPath} \cup {path \in Versions :
            <<n, path>> \in wholeOnce' /\ (path = v \/ (path < v /\ n \in released'))}
         /\ Paths'[n][Latest] = {NoPath} \cup {path \in FreshOnes'[n] : <<n, path>> \in wholeOnce'}
<1>1. v # Latest /\ v \in {Latest} \cup Versions /\ Latest \in {Latest} \cup Versions
  BY VersionTypes
<1> DEFINE old == {path \in Versions :
            <<n, path>> \in wholeOnce /\ (path = v \/ (path < v /\ n \in released))}
           new == {path \in Versions :
            <<n, path>> \in wholeOnce' /\ (path = v \/ (path < v /\ n \in released'))}
<1>2. /\ Paths[n][v] = {NoPath} \cup
            (IF v = Latest THEN {path \in FreshOnes[n] : <<n, path>> \in wholeOnce} ELSE old)
      /\ Paths[n][Latest] = {NoPath} \cup {path \in FreshOnes[n] : <<n, path>> \in wholeOnce}
  BY Zenon, <1>1 DEF Paths
<1>3. /\ Paths'[n][v] = {NoPath} \cup
            (IF v = Latest THEN {path \in FreshOnes'[n] : <<n, path>> \in wholeOnce'} ELSE new)
      /\ Paths'[n][Latest] = {NoPath} \cup {path \in FreshOnes'[n] : <<n, path>> \in wholeOnce'}
  BY Zenon, <1>1 DEF Paths
<1> HIDE DEF old, new
<1>5. Paths[n][v] = {NoPath} \cup old
  BY Zenon, <1>1, <1>2
<1>6. Paths'[n][v] = {NoPath} \cup new
  BY Zenon, <1>1, <1>3
<1>7. /\ Paths[n][Latest] = {NoPath} \cup {path \in FreshOnes[n] : <<n, path>> \in wholeOnce}
      /\ Paths'[n][Latest] = {NoPath} \cup {path \in FreshOnes'[n] : <<n, path>> \in wholeOnce'}
  BY Zenon, <1>2, <1>3
<1> QED
  BY Zenon, <1>5, <1>6, <1>7 DEF old, new

LEMMA PathsGrow ==
  ASSUME newest \in [Names -> Versions], newest' \in [Names -> Versions],
         released \subseteq released', wholeOnce \subseteq wholeOnce',
         \A n \in Names : newest'[n] = newest[n] \/ (newest[n] < newest'[n] /\ n \in released')
  PROVE  Grown
<1>0. Versions \subseteq Nat
  BY VersionTypes
<1>1. ASSUME NEW n \in Names
      PROVE  FreshOnes[n] \subseteq FreshOnes'[n]
  <2>1. newest[n] \in Nat /\ newest'[n] \in Nat
    BY <1>0
  <2>2. FreshOnes'[n] = {w \in Versions : w = newest'[n] \/ (w < newest'[n] /\ n \in released')}
    BY DEF FreshOnes
  <2>3. FreshOnes[n] = {w \in Versions : w = newest[n] \/ (w < newest[n] /\ n \in released)}
    BY DEF FreshOnes
  <2>4. newest'[n] = newest[n] \/ (newest[n] < newest'[n] /\ n \in released')
    OBVIOUS
  <2> DEFINE k == newest[n]
             m == newest'[n]
  <2> HIDE DEF k, m
  <2>5. ASSUME NEW w \in Nat, w = k \/ (w < k /\ n \in released)
        PROVE  w = m \/ (w < m /\ n \in released')
    <3>1. k \in Nat /\ m \in Nat /\ (m = k \/ (k < m /\ n \in released'))
      BY <2>1, <2>4 DEF k, m
    <3>2. n \in released => n \in released'
      OBVIOUS
    <3> QED
      BY <2>5, <3>1, <3>2
  <2> QED
    BY <1>0, <2>2, <2>3, <2>5 DEF k, m
<1>2. ASSUME NEW n \in Names, NEW v \in Versions
      PROVE  Paths[n][v] \subseteq Paths'[n][v] /\ Paths[n][Latest] \subseteq Paths'[n][Latest]
  <2>1. /\ Paths[n][v] = {NoPath} \cup {path \in Versions :
            <<n, path>> \in wholeOnce /\ (path = v \/ (path < v /\ n \in released))}
        /\ Paths'[n][v] = {NoPath} \cup {path \in Versions :
            <<n, path>> \in wholeOnce' /\ (path = v \/ (path < v /\ n \in released'))}
    BY Zenon, PathsTold
  <2>2. /\ Paths[n][Latest] = {NoPath} \cup {path \in FreshOnes[n] : <<n, path>> \in wholeOnce}
        /\ Paths'[n][Latest] = {NoPath} \cup {path \in FreshOnes'[n] : <<n, path>> \in wholeOnce'}
    BY Zenon, PathsTold
  <2> QED
    BY <1>1, <2>1, <2>2
<1>3. \A n \in Names : newest[n] \in Versions
  OBVIOUS
<1> QED
  BY <1>1, <1>2, <1>3 DEF Grown

LEMMA NoPathSound ==
  \A n \in Names : \A v \in {Latest} \cup Versions : NoPath \in Paths[n][v]
BY DEF Paths

LEMMA SoundNoEntry ==
  SoundMap(NoEntry)
BY NoPathSound, VersionTypes DEF SoundMap

LEMMA SoundListSteady ==
  ASSUME TypeOK, Grown, NEW q \in Procs, SoundList(q), proc'[q].kind = proc[q].kind,
         proc'[q].list = proc[q].list, proc'[q].todo = proc[q].todo
  PROVE  SoundList(q)'
<1>1. proc'[q].list = proc[q].list /\ proc'[q].todo = proc[q].todo /\ Installs(q)' = Installs(q)
  BY DEF Installs
<1>2. \A i \in DOMAIN proc[q].list : proc[q].list[i] \in Loaded
  BY DEF TypeOK, Process
<1> DEFINE list == proc[q].list
           todo == proc[q].todo
<1>3. ASSUME ~Installs(q), NEW i \in DOMAIN list
      PROVE  /\ list[i].path \in Paths'[list[i].name][list[i].version]
             /\ todo[i].version = Latest => list[i].path \in Paths'[list[i].name][Latest]
  <2>1. /\ list[i].path \in Paths[list[i].name][list[i].version]
        /\ todo[i].version = Latest => list[i].path \in Paths[list[i].name][Latest]
    BY <1>3 DEF SoundList
  <2>2. list[i].name \in Names /\ list[i].version \in {Latest} \cup Versions
    BY <1>2 DEF Loaded
  <2> QED
    BY <2>1, <2>2 DEF Grown
<1> QED
  BY <1>1, <1>3 DEF SoundList

LEMMA SoundMapKept ==
  ASSUME Grown, NEW map \in Entries, SoundMap(map)
  PROVE  \A n \in Names : \A v \in {Latest} \cup Versions : map[n][v] \in Paths'[n][v]
BY DEF SoundMap, Grown

LEMMA SoundTurnLeft ==
  ASSUME NEW p \in Procs, Stage(p)' \notin InTurn
  PROVE  SoundTurn(p)'
BY PlacesTold DEF SoundTurn

\* Who is not about to enter a path, and does not install, has none to be sound.
LEMMA SoundTurnIdle ==
  ASSUME NEW p \in Procs, proc'[p].kind = proc[p].kind, ~Installs(p),
         Stage(p)' \notin Entering \/ proc[p].kind = "remove"
  PROVE  SoundTurn(p)'
BY PlacesTold DEF SoundTurn, Installs

LEMMA SteadyItem ==
  ASSUME NEW p \in Procs, Steady(p), proc'[p].turn = proc[p].turn
  PROVE  Item(p)' = Item(p) /\ Installs(p)' = Installs(p)
<1>1. Installs(p)' = Installs(p)
  BY DEF Steady, Installs
<1> QED
  BY <1>1 DEF Steady, Item

LEMMA SoundTurnGoesOn ==
  ASSUME TypeOK, Grown, NEW p \in Procs, ControlOf(p), Mirrors(p), SoundTurn(p),
         Steady(p), proc'[p].turn = proc[p].turn, proc'[p].version = proc[p].version,
         proc'[p].path = proc[p].path,
         Stage(p)' \in InTurn => Stage(p) \in InTurn,
         Stage(p)' \in Entering => Stage(p) \in Entering,
         Stage(p)' = "start" => Stage(p) \in Entering \cup {"start"}
  PROVE  SoundTurn(p)'
<1>1. Item(p)' = Item(p) /\ Installs(p)' = Installs(p)
  BY SteadyItem
<1>2. proc'[p].kind = proc[p].kind /\ proc'[p].todo = proc[p].todo
  BY DEF Steady
<1>3. CASE Stage(p)' \notin InTurn
  BY <1>3, SoundTurnLeft
<1>4. CASE Stage(p)' \in InTurn
  <2> DEFINE n == Item(p).name
             v == proc[p].version
             path == proc[p].path
             asked == proc[p].todo[proc[p].turn].version
  <2>1. n \in Names
    BY <1>4, TurnHasItem, ItemTypes
  <2>2. ASSUME Installs(p)
        PROVE  /\ asked = Latest => v \in FreshOnes'[n]
               /\ Stage(p)' \in Entering \cup {"start"} => path = v
    <3>1. /\ asked = Latest => v \in FreshOnes[n]
          /\ Stage(p) \in Entering \cup {"start"} => path = v
      BY <1>4, <2>2 DEF SoundTurn
    <3> QED
      BY <2>1, <3>1 DEF Grown
  <2>3. ASSUME Stage(p)' \in Entering, proc[p].kind # "remove"
        PROVE  /\ path \in Paths'[n][v]
               /\ asked = Latest => path \in Paths'[n][Latest]
    <3>1. /\ path \in Paths[n][v]
          /\ asked = Latest => path \in Paths[n][Latest]
      BY <2>3 DEF SoundTurn
    <3>2. v \in {Latest} \cup Versions
      BY DEF TypeOK, Process
    <3> QED
      BY <2>1, <3>1, <3>2 DEF Grown
  <2> HIDE DEF n, v, path, asked
  <2>4. /\ Item(p)'.name = n /\ proc'[p].version = v /\ proc'[p].path = path
        /\ proc'[p].todo[proc'[p].turn].version = asked
    BY <1>1, <1>2 DEF n, v, path, asked
  <2> QED
    BY <1>1, <1>2, <2>2, <2>3, <2>4 DEF SoundTurn
<1> QED
  BY <1>3, <1>4

\* The steps that change neither the declarations nor the configuration of p.
LEMMA MostAreSteady ==
  ASSUME TypeOK, NEW p \in Procs, ControlOf(p), Mirrors(p), Run(p) \/ Crash(p),
         ~Begin(p), ~LookUp(p), ~ResolveToApply(p), ~PutConfig(p), ~CheckEnds(p), ~ReadToAdd(p),
         ~ReadToRemove(p)
  PROVE  Steady(p) /\ proc'[p].map = proc[p].map
<1>1. CASE StatConfig(p)
  BY <1>1, StatConfigMoves, SameTold
<1>2. CASE CreateConfig(p) \/ OpenConfig(p)
  <2>1. \E step \in Steps : OpenFile(p, step)
    BY <1>2, StepNames DEF CreateConfig, OpenConfig
  <2> QED
    BY <2>1, OpenMoves, SameTold
<1>3. CASE FillConfig(p)
  BY <1>3, FillConfigMoves, SameTold
<1>4. CASE UnlinkConfig(p)
  BY <1>4, UnlinkConfigMoves, SameTold, EndsTold
<1>5. CASE StatBinary(p)
  BY <1>5, StatBinaryMoves, SameTold
<1>6. CASE Extract(p) \/ Extracted(p)
  BY <1>6, ExtractMoves, ExtractedMoves, SameTold
<1>7. CASE StartPlugin(p)
  BY <1>7, StartPluginMoves, SameTold, EndsTold
<1>8. CASE StartFails(p)
  <2>1. Same(p, {"pc", "turn", "errored"}) \/ Stops(p)
    BY <1>8, StartFailsMoves
  <2> QED
    BY <2>1, SameTold, EndsTold
<1>9. CASE DeleteBinary(p)
  BY <1>9, DeleteBinaryMoves, SameTold
<1>10. CASE ResolveToInstall(p)
  BY <1>10, ResolveToInstallMoves, SameTold, EndsTold
<1>11. CASE CheckUpdate(p)
  <2>1. Same(p, {"pc", "version"}) \/ Same(p, {"pc", "then", "path"}) \/ Stops(p)
    BY <1>11, CheckUpdateMoves
  <2> QED
    BY <2>1, SameTold, EndsTold
<1>12. CASE FindPath(p)
  BY <1>12, FindPathMoves, SameTold
<1>13. CASE LookUpToRemove(p)
  BY <1>13, LookUpToRemoveMoves, SameTold, EndsTold
<1>14. CASE DownloadFails(p) \/ WriteWorkspace(p) \/ CommandEnds(p) \/ Crash(p)
  BY <1>14, EndingMoves, EndsTold
<1> QED
  BY <1>1, <1>2, <1>3, <1>4, <1>5, <1>6, <1>7, <1>8, <1>9, <1>10, <1>11, <1>12, <1>13, <1>14
     DEF Run, Config, Binary, Command

LEMMA SoundMapStep ==
  ASSUME TypeOK, Grown, NEW p \in Procs, ControlOf(p), Mirrors(p), SoundTurn(p),
         SoundMap(entries), SoundMap(proc[p].map), Run(p) \/ Crash(p)
  PROVE  SoundMap(proc[p].map)'
<1>0. proc[p].map \in Entries /\ entries \in Entries
  BY DEF TypeOK, Process
<1>1. CASE proc'[p].map = proc[p].map
  BY <1>0, <1>1, SoundMapKept DEF SoundMap
<1>2. CASE ReadToAdd(p) /\ proc'[p].map # proc[p].map
  <2> DEFINE n == Item(p).name
             v == proc[p].version
             path == proc[p].path
             asked == proc[p].todo[proc[p].turn].version
  <2>1. proc'[p].map = WithEntry(p, entries) /\ proc[p].pc = "read" /\ proc[p].kind # "remove"
    BY <1>2, ReadToAddMoves, EndsTold
  <2>2. Stage(p) \in Entering /\ Stage(p) \in InTurn
    BY <2>1, StageTold, PlacesTold
  <2>3. ~Over(p) /\ v \in Versions /\ n \in Names
    BY <2>1, <2>2, TurnHasItem, ItemTypes DEF ControlOf
  <2>4. /\ path \in Paths[n][v]
        /\ asked = Latest => path \in Paths[n][Latest]
    BY <2>1, <2>2 DEF SoundTurn
  <2>5. \A m \in Names : \A w \in {Latest} \cup Versions :
           WithEntry(p, entries)[m][w] =
              IF m = n /\ (w = v \/ (w = Latest /\ asked = Latest)) THEN path ELSE entries[m][w]
    BY <1>0, <2>3, EntryAdded
  <2> HIDE DEF n, v, path, asked
  <2>6. \A m \in Names : \A w \in {Latest} \cup Versions : WithEntry(p, entries)[m][w] \in Paths[m][w]
    BY <2>4, <2>5 DEF SoundMap
  <2>7. v \in {Latest} \cup Versions
    BY <2>3
  <2> QED
    BY <2>1, <2>6 DEF SoundMap, Grown
<1>3. CASE ReadToRemove(p) /\ proc'[p].map # proc[p].map
  <2> DEFINE n == Item(p).name
             v == Item(p).version
  <2>1. /\ n \in Names /\ v \in {Latest} \cup Versions
        /\ proc'[p].map = [entries EXCEPT ![n][v] = NoPath]
    BY <1>3, ReadToRemoveMoves, EndsTold
  <2>2. NoPath \in {NoPath} \cup Versions
    OBVIOUS
  <2> HIDE DEF n, v
  <2>3. \A m \in Names : \A w \in {Latest} \cup Versions :
           proc'[p].map[m][w] = IF m = n /\ w = v THEN NoPath ELSE entries[m][w]
    BY <1>0, <2>1, <2>2, EntryWritten
  <2>4. \A m \in Names : \A w \in {Latest} \cup Versions : proc'[p].map[m][w] \in Paths[m][w]
    BY <2>3, NoPathSound DEF SoundMap
  <2> QED
    BY <2>4 DEF SoundMap, Grown
<1>4. CASE PutConfig(p)
  <2>1. proc'[p].map = NoEntry
    BY <1>4, PutConfigMoves
  <2>2. \A n \in Names : \A v \in {Latest} \cup Versions : NoEntry[n][v] \in Paths[n][v]
    BY SoundNoEntry DEF SoundMap
  <2> QED
    BY <2>1, <2>2 DEF SoundMap, Grown
<1>5. CASE Begin(p) \/ LookUp(p) \/ ResolveToApply(p) \/ CheckEnds(p)
  <2>1. proc'[p].map = proc[p].map
    <3>1. CASE Begin(p)
      BY <3>1, BeginRecord
    <3>2. CASE LookUp(p)
      <4>1. Same(p, {"pc", "path", "list"})
        BY <3>2, LookUpMoves
      <4> QED
        BY <4>1, SameTold
    <3>3. CASE ResolveToApply(p)
      <4>1. Same(p, {"pc", "then", "version", "path", "list"}) \/ NextTurn(p)
        BY <3>3, ResolveToApplyMoves
      <4> QED
        BY <4>1, SameTold, EndsTold
    <3>4. CASE CheckEnds(p)
      <4>1. Same(p, {"pc", "then", "checked", "turn"}) \/ Stops(p)
        BY <3>4, CheckEndsMoves
      <4> QED
        BY <4>1, SameTold, EndsTold
    <3> QED
      BY <1>5, <3>1, <3>2, <3>3, <3>4
  <2> QED
    BY <1>1, <2>1
<1> QED
  BY <1>1, <1>2, <1>3, <1>4, <1>5, MostAreSteady

LEMMA SoundListStep ==
  ASSUME TypeOK, Grown, NEW p \in Procs, ControlOf(p), Mirrors(p), SoundList(p),
         SoundMap(entries), Run(p) \/ Crash(p)
  PROVE  SoundList(p)'
<1>1. CASE ReadToAdd(p) \/ ReadToRemove(p) \/ CheckEnds(p)
  <2>1. proc'[p].kind = proc[p].kind /\ proc'[p].list = proc[p].list /\ proc'[p].todo = proc[p].todo
    <3>1. CASE ReadToAdd(p) \/ ReadToRemove(p)
      <4>1. Same(p, {"pc", "map"}) \/ Stops(p) \/ NextTurn(p)
        BY <3>1, ReadToAddMoves, ReadToRemoveMoves
      <4> QED
        BY <4>1, SameTold DEF Stops, NextTurn
    <3>2. CASE CheckEnds(p)
      <4>1. Same(p, {"pc", "then", "checked", "turn"}) \/ Stops(p)
        BY <3>2, CheckEndsMoves
      <4> QED
        BY <4>1, SameTold DEF Stops
    <3> QED
      BY <1>1, <3>1, <3>2
  <2> QED
    BY <2>1, SoundListSteady
<1>2. CASE PutConfig(p)
  <2>1. /\ proc'[p].kind = proc[p].kind /\ proc'[p].todo = proc[p].todo
        /\ ~Installs(p) => proc'[p].list = proc[p].list
    BY <1>2, PutConfigMoves, SameTold
  <2>2. CASE Installs(p)
    BY <2>1, <2>2 DEF SoundList, Installs
  <2>3. CASE ~Installs(p)
    BY <2>1, <2>3, SoundListSteady
  <2> QED
    BY <2>2, <2>3
<1>3. CASE Begin(p)
  <2>1. proc'[p].kind = proc[p].kind /\ decls[proc[p].space] \in Seq(Decl)
    BY <1>3, BeginRecord DEF TypeOK, Process
  <2>2. ASSUME ~Installs(p)'
        PROVE  /\ DOMAIN proc'[p].list = DOMAIN decls[proc[p].space]
               /\ \A i \in DOMAIN decls[proc[p].space] :
                     /\ proc'[p].list[i].name \in Names
                     /\ proc'[p].list[i].version \in {Latest} \cup Versions
                     /\ proc'[p].list[i].path = NoPath
    <3>1. proc[p].kind # "init"
      BY <2>1, <2>2 DEF Installs
    <3>2. /\ DOMAIN proc'[p].list = DOMAIN decls[proc[p].space]
          /\ \A i \in DOMAIN decls[proc[p].space] :
                     /\ proc'[p].list[i].name = decls[proc[p].space][i].name
                     /\ proc'[p].list[i].version = decls[proc[p].space][i].version
                     /\ proc'[p].list[i].path = NoPath
      BY <1>3, <3>1, BeginRecord
    <3>3. \A i \in DOMAIN decls[proc[p].space] : decls[proc[p].space][i] \in Decl
      BY <2>1
    <3> QED
      BY <3>2, <3>3 DEF Decl
  <2>3. \A n \in Names : \A v \in {Latest} \cup Versions : NoPath \in Paths'[n][v]
    BY NoPathSound DEF Grown
  <2>4. Latest \in {Latest} \cup Versions
    OBVIOUS
  <2> QED
    BY <2>2, <2>3, <2>4 DEF SoundList
<1>4. CASE LookUp(p)
  <2> DEFINE list == proc[p].list
             turn == proc[p].turn
             path == PathOf(Item(p).name, Item(p).version)
  <2>1. /\ ~Over(p) /\ ~Installs(p) /\ (proc[p].kind = "fetch" \/ Checks(p))
        /\ Same(p, {"pc", "path", "list"}) /\ proc'[p].path = path
    BY <1>4, LookUpMoves
  <2>2. /\ DOMAIN proc'[p].list = DOMAIN list
        /\ \A i \in DOMAIN list : proc'[p].list[i] =
               IF i = turn THEN [list[i] EXCEPT !.path = path] ELSE list[i]
    BY <1>4, <2>1, LookUpMoves
  <2>3. proc'[p].todo = proc[p].todo /\ proc'[p].kind = proc[p].kind
    BY <2>1, SameTold
  <2>4. ~proc[p].checked
    BY <2>1 DEF Checks, Mirrors
  <2>5. /\ turn \in DOMAIN list /\ Item(p) = list[turn]
        /\ Item(p).name \in Names /\ Item(p).version \in {Latest} \cup Versions
    BY <2>1, ReaderHasItem
  <2>6. \A i \in DOMAIN list : list[i] \in Loaded
    BY DEF TypeOK, Process
  <2>7. path \in Paths[Item(p).name][Item(p).version]
    BY <2>5, NoPathSound DEF PathOf, SoundMap
  <2>8. proc[p].todo[turn].version = Item(p).version
    BY <2>1, <2>4, <2>5 DEF Mirrors
  <2>9. \A i \in DOMAIN list : /\ list[i].path \in Paths[list[i].name][list[i].version]
                               /\ proc[p].todo[i].version = Latest => list[i].path \in Paths[list[i].name][Latest]
    BY <2>1 DEF SoundList
  <2> HIDE DEF path
  <2>10. \A i \in DOMAIN list :
           /\ proc'[p].list[i].name = list[i].name /\ proc'[p].list[i].version = list[i].version
           /\ proc'[p].list[i].path = IF i = turn THEN path ELSE list[i].path
    BY <2>2, <2>6 DEF Loaded
  <2>11. \A i \in DOMAIN list :
           /\ list[i].name \in Names /\ list[i].version \in {Latest} \cup Versions
    BY <2>6 DEF Loaded
  <2> DEFINE at(i) == IF i = turn THEN path ELSE list[i].path
  <2>12. ASSUME NEW i \in DOMAIN list
         PROVE  /\ at(i) \in Paths[list[i].name][list[i].version]
                /\ proc[p].todo[i].version = Latest => at(i) \in Paths[list[i].name][Latest]
    <3>1. CASE i = turn
      BY <2>5, <2>7, <2>8, <3>1
    <3>2. CASE i # turn
      BY <2>9, <3>2
    <3> QED
      BY <3>1, <3>2
  <2>13. ASSUME NEW i \in DOMAIN list
         PROVE  /\ at(i) \in Paths'[list[i].name][list[i].version]
                /\ proc[p].todo[i].version = Latest => at(i) \in Paths'[list[i].name][Latest]
    BY <2>11, <2>12 DEF Grown
  <2>14. \A i \in DOMAIN list : proc'[p].list[i].path = at(i)
    BY <2>10
  <2> HIDE DEF at, list, turn
  <2>15. \A i \in DOMAIN proc'[p].list :
            /\ proc'[p].list[i].path \in Paths'[proc'[p].list[i].name][proc'[p].list[i].version]
            /\ proc'[p].todo[i].version = Latest =>
                  proc'[p].list[i].path \in Paths'[proc'[p].list[i].name][Latest]
    BY <2>2, <2>3, <2>10, <2>13, <2>14
  <2> QED
    BY <2>15 DEF SoundList
<1>5. CASE ResolveToApply(p)
  <2>1. CASE NextTurn(p)
    BY <2>1, EndsTold, SoundListSteady DEF Steady
  <2>2. CASE ~NextTurn(p)
    <3> DEFINE list == proc[p].list
               turn == proc[p].turn
               v == Resolved(p)
    <3>1. /\ ~Over(p) /\ proc[p].kind = "apply" /\ Same(p, {"pc", "then", "version", "path", "list"})
          /\ DOMAIN proc'[p].list = DOMAIN list
          /\ \A i \in DOMAIN list : proc'[p].list[i] =
                 IF i = turn THEN [list[i] EXCEPT !.version = v] ELSE list[i]
      BY <1>5, <2>2, ResolveToApplyMoves
    <3>2. ~Installs(p) /\ proc'[p].todo = proc[p].todo
      BY <3>1, SameTold DEF Installs
    <3>3. /\ turn \in DOMAIN list /\ Item(p) = list[turn]
          /\ Item(p).name \in Names /\ Item(p).version \in {Latest} \cup Versions
          /\ v \in Versions /\ newest[Item(p).name] \in Versions
      BY <3>1, <3>2, ReaderHasItem, ResolvedTypes
    <3>4. \A i \in DOMAIN list : list[i] \in Loaded
      BY DEF TypeOK, Process
    <3>5. \A i \in DOMAIN list : /\ list[i].path \in Paths[list[i].name][list[i].version]
                                 /\ proc[p].todo[i].version = Latest => list[i].path \in Paths[list[i].name][Latest]
      BY <3>2 DEF SoundList
    <3>6. list[turn].path \in Paths[list[turn].name][v]
      <4>1. CASE Item(p).version # Latest
        BY <3>3, <3>5, <4>1 DEF Resolved
      <4>2. CASE Item(p).version = Latest
        <5> DEFINE n == Item(p).name
        <5>1. v = newest[n] /\ list[turn].path \in Paths[n][Latest] /\ n = list[turn].name
          BY <3>3, <3>5, <4>2 DEF Resolved
        <5>2. n \in Names /\ v \in Versions
          BY <3>3
        <5> HIDE DEF n, v
        <5>3. /\ Paths[n][v] = {NoPath} \cup {path \in Versions :
                    <<n, path>> \in wholeOnce /\ (path = v \/ (path < v /\ n \in released))}
              /\ Paths[n][Latest] = {NoPath} \cup {path \in FreshOnes[n] : <<n, path>> \in wholeOnce}
          BY Zenon, <5>2, PathsTold
        <5>4. FreshOnes[n] = {w \in Versions : w = newest[n] \/ (w < newest[n] /\ n \in released)}
          BY <5>2 DEF FreshOnes
        <5> QED
          BY <5>1, <5>3, <5>4
      <4> QED
        BY <4>1, <4>2
    <3> HIDE DEF v
    <3>7. \A i \in DOMAIN list :
             /\ proc'[p].list[i].name = list[i].name /\ proc'[p].list[i].path = list[i].path
             /\ proc'[p].list[i].version = IF i = turn THEN v ELSE list[i].version
      BY <3>1, <3>4 DEF Loaded
    <3>8. \A i \in DOMAIN list :
             list[i].name \in Names /\ list[i].version \in {Latest} \cup Versions
      BY <3>4 DEF Loaded
    <3> DEFINE at(i) == IF i = turn THEN v ELSE list[i].version
    <3>9. \A i \in DOMAIN list : at(i) \in {Latest} \cup Versions /\ proc'[p].list[i].version = at(i)
      BY <3>3, <3>7, <3>8
    <3>10. ASSUME NEW i \in DOMAIN list
           PROVE  list[i].path \in Paths[list[i].name][at(i)]
      BY <3>5, <3>6
    <3> HIDE DEF at
    <3>11. \A i \in DOMAIN list :
             /\ list[i].path \in Paths'[list[i].name][at(i)]
             /\ proc[p].todo[i].version = Latest => list[i].path \in Paths'[list[i].name][Latest]
      BY <3>5, <3>8, <3>9, <3>10 DEF Grown
    <3> HIDE DEF list, turn
    <3>12. DOMAIN proc'[p].list = DOMAIN list
      BY <3>1
    <3>13. \A i \in DOMAIN proc'[p].list :
             /\ proc'[p].list[i].path \in Paths'[proc'[p].list[i].name][proc'[p].list[i].version]
             /\ proc'[p].todo[i].version = Latest =>
                   proc'[p].list[i].path \in Paths'[proc'[p].list[i].name][Latest]
      BY <3>2, <3>7, <3>9, <3>11, <3>12
    <3> QED
      BY <3>13 DEF SoundList
  <2> QED
    BY <2>1, <2>2
<1>6. CASE Steady(p)
  BY <1>6, SoundListSteady DEF Steady
<1> QED
  BY <1>1, <1>2, <1>3, <1>4, <1>5, <1>6, MostAreSteady

LEMMA SoundTurnStep ==
  ASSUME TypeOK, Grown, NEW p \in Procs, ControlOf(p), Mirrors(p), WholeOnes \subseteq wholeOnce,
         newest' = newest, SoundMap(entries), SoundTurn(p), SoundList(p), Run(p) \/ Crash(p)
  PROVE  SoundTurn(p)'
<1>0. proc[p].then \in {"next", "lookup", "start", "read"}
  BY DEF ControlOf
<1>1. CASE Stops(p) \/ NextTurn(p)
  BY <1>1, EndsTold, SoundTurnLeft
<1>2. CASE StatConfig(p) \/ CreateConfig(p) \/ FillConfig(p)
  <2>1. /\ Steady(p) /\ proc'[p].turn = proc[p].turn /\ proc'[p].version = proc[p].version
        /\ proc'[p].path = proc[p].path /\ Stage(p)' = Stage(p)
    <3>1. CASE StatConfig(p)
      BY <1>0, <3>1, StatConfigMoves, SameTold, StageTold
    <3>2. CASE CreateConfig(p)
      <4>1. proc[p].pc = "create" /\ OpenFile(p, "fill") /\ "fill" \in Steps
        BY <3>2, StepNames DEF CreateConfig, At
      <4> QED
        BY <1>0, <4>1, OpenMoves, SameTold, StageTold
    <3>3. CASE FillConfig(p)
      BY <1>0, <3>3, FillConfigMoves, SameTold, StageTold
    <3> QED
      BY <1>2, <3>1, <3>2, <3>3
  <2> QED
    BY <2>1, SoundTurnGoesOn, PlacesTold
<1>3. CASE (ReadToAdd(p) \/ ReadToRemove(p) \/ UnlinkConfig(p) \/ OpenConfig(p))
           /\ ~Stops(p) /\ ~NextTurn(p)
  <2>1. /\ Same(p, {"pc", "map", "handle"})
        /\ proc[p].pc \in {"read", "unlink", "open"} /\ proc'[p].pc \in {"unlink", "open", "put"}
    <3>1. CASE ReadToAdd(p) \/ ReadToRemove(p) \/ UnlinkConfig(p)
      <4>1. /\ Same(p, {"pc", "map"}) \/ Same(p, {"pc"})
            /\ proc[p].pc \in {"read", "unlink"} /\ proc'[p].pc \in {"unlink", "open"}
        BY <1>3, <3>1, ReadToAddMoves, ReadToRemoveMoves, UnlinkConfigMoves
      <4> QED
        BY <4>1 DEF Same
    <3>2. CASE OpenConfig(p)
      <4>1. proc[p].pc = "open" /\ OpenFile(p, "put") /\ "put" \in Steps
        BY <3>2, StepNames DEF OpenConfig, At
      <4>2. Same(p, {"pc", "handle"}) /\ proc'[p].pc = "put"
        BY <4>1, OpenMoves
      <4> QED
        BY <4>1, <4>2 DEF Same
    <3> QED
      BY <1>3, <3>1, <3>2
  <2>2. /\ Steady(p) /\ proc'[p].turn = proc[p].turn /\ proc'[p].version = proc[p].version
        /\ proc'[p].path = proc[p].path
    BY <2>1, SameTold
  <2>3. Stage(p) \in Entering /\ Stage(p) \in InTurn
    BY <2>1, StageTold, PlacesTold
  <2> QED
    BY <2>2, <2>3, SoundTurnGoesOn
<1>4. CASE PutConfig(p)
  BY <1>4, PutConfigMoves, StageTold, SoundTurnLeft, PlacesTold
<1>5. CASE StatBinary(p) \/ Extract(p) \/ Extracted(p)
  <2>1. /\ Steady(p) /\ proc'[p].turn = proc[p].turn /\ proc'[p].version = proc[p].version
        /\ Stage(p) \in {"stat", "extract", "extracting"}
        /\ \/ Stage(p)' \in {"extract", "extracting"} /\ proc'[p].path = proc[p].path
           \/ Stage(p)' = "start" /\ proc'[p].path = proc[p].version
    <3>1. CASE StatBinary(p)
      BY <3>1, StatBinaryMoves, SameTold, StageTold
    <3>2. CASE Extract(p)
      BY <3>2, ExtractMoves, SameTold, StageTold
    <3>3. CASE Extracted(p)
      BY <3>3, ExtractedMoves, SameTold, StageTold
    <3> QED
      BY <1>5, <3>1, <3>2, <3>3
  <2>2. CASE Stage(p)' \in {"extract", "extracting"} /\ proc'[p].path = proc[p].path
    BY <2>1, <2>2, SoundTurnGoesOn, PlacesTold
  <2>3. CASE Stage(p)' = "start" /\ proc'[p].path = proc[p].version
    <3>1. Item(p)' = Item(p) /\ Installs(p)' = Installs(p) /\ proc'[p].todo = proc[p].todo
      BY <2>1, SteadyItem DEF Steady
    <3>2. Item(p).name \in Names
      BY <2>1, PlacesTold, TurnHasItem, ItemTypes
    <3>3. Installs(p) /\ proc[p].todo[proc[p].turn].version = Latest =>
             proc[p].version \in FreshOnes'[Item(p).name]
      BY <2>1, <3>2, PlacesTold DEF SoundTurn, Grown
    <3> QED
      BY <2>1, <2>3, <3>1, <3>3, PlacesTold DEF SoundTurn
  <2> QED
    BY <2>1, <2>2, <2>3
<1>6. CASE StartPlugin(p) /\ ~NextTurn(p)
  <2>1. /\ Installs(p) /\ proc[p].pc = "start" /\ proc'[p].pc = "home" /\ proc'[p].then = "read"
        /\ Same(p, {"pc", "then"})
    BY <1>6, StartPluginMoves
  <2>2. /\ Steady(p) /\ proc'[p].turn = proc[p].turn /\ proc'[p].version = proc[p].version
        /\ proc'[p].path = proc[p].path /\ proc'[p].kind = proc[p].kind /\ proc'[p].todo = proc[p].todo
    BY <2>1, SameTold
  <2>3. Stage(p) = "start" /\ Stage(p)' = "read" /\ Stage(p) \in InTurn
    BY <2>1, StageTold, PlacesTold
  <2>4. Item(p)' = Item(p) /\ Installs(p)' = Installs(p)
    BY <2>2, SteadyItem
  <2> DEFINE n == Item(p).name
             v == proc[p].version
             asked == proc[p].todo[proc[p].turn].version
  <2>5. n \in Names /\ v \in Versions /\ v # NoPath
    BY <2>1, <2>3, TurnHasItem, ItemTypes, VersionTypes DEF ControlOf
  <2>6. proc[p].path = v /\ (asked = Latest => v \in FreshOnes[n])
    BY <2>1, <2>3 DEF SoundTurn
  <2>7. <<n, v>> \in wholeOnce
    BY <1>6, <2>5, <2>6 DEF StartPlugin, Works, WholeOnes
  <2> HIDE DEF n, v, asked
  <2>8. v \in Paths[n][v] /\ (asked = Latest => v \in Paths[n][Latest])
    <3>1. /\ Paths[n][v] = {NoPath} \cup {path \in Versions :
                <<n, path>> \in wholeOnce /\ (path = v \/ (path < v /\ n \in released))}
          /\ Paths[n][Latest] = {NoPath} \cup {path \in FreshOnes[n] : <<n, path>> \in wholeOnce}
      BY Zenon, <2>5, PathsTold
    <3> QED
      BY <2>5, <2>6, <2>7, <3>1
  <2>9. v \in {Latest} \cup Versions /\ Latest \in {Latest} \cup Versions
    BY <2>5
  <2>10. /\ v \in Paths'[n][v] /\ (asked = Latest => v \in Paths'[n][Latest])
         /\ asked = Latest => v \in FreshOnes'[n]
    BY <2>5, <2>6, <2>8, <2>9 DEF Grown
  <2>11. /\ Item(p)'.name = n /\ proc'[p].version = v /\ proc'[p].path = v
         /\ proc'[p].todo[proc'[p].turn].version = asked
    BY <2>2, <2>4, <2>6 DEF n, v, asked
  <2> QED
    BY <2>3, <2>10, <2>11 DEF SoundTurn
<1>7. CASE StartFails(p)
  <2>1. proc'[p].pc = "next" \/ Stops(p)
    BY <1>7, StartFailsMoves
  <2> QED
    BY <1>1, <2>1, StageTold, SoundTurnLeft, PlacesTold
<1>8. CASE DeleteBinary(p)
  <2>1. proc'[p].kind = proc[p].kind /\ proc[p].pc = "delete"
    BY <1>8, DeleteBinaryMoves, SameTold
  <2>2. proc[p].kind = "remove" /\ ~Installs(p)
    BY <2>1, StageTold DEF ControlOf, Installs
  <2> QED
    BY <2>1, <2>2, SoundTurnIdle
<1>9. CASE Begin(p)
  <2>1. Stage(p)' = "next"
    BY <1>9, BeginRecord, StageTold DEF ControlOf
  <2> QED
    BY <2>1, SoundTurnLeft, PlacesTold
<1>10. CASE ResolveToInstall(p) /\ ~Stops(p)
  <2>1. /\ ~Over(p) /\ Installs(p) /\ proc'[p].pc = "stat" /\ proc'[p].version = Resolved(p)
        /\ Same(p, {"pc", "version"})
    BY <1>10, ResolveToInstallMoves
  <2>2. /\ Steady(p) /\ proc'[p].turn = proc[p].turn /\ proc'[p].todo = proc[p].todo
    BY <2>1, SameTold
  <2>3. Stage(p)' = "stat" /\ Item(p)' = Item(p) /\ Item(p) = proc[p].todo[proc[p].turn]
    BY <2>1, <2>2, StageTold, SteadyItem DEF Item
  <2>4. Item(p).name \in Names /\ newest[Item(p).name] \in Versions
    BY <2>1, ResolvedTypes
  <2>5. Item(p).version = Latest => Resolved(p) \in FreshOnes'[Item(p).name]
    BY <2>4 DEF Resolved, FreshOnes, Grown
  <2> QED
    BY <2>1, <2>2, <2>3, <2>5, PlacesTold DEF SoundTurn
<1>11. CASE CheckUpdate(p) \/ FindPath(p) \/ LookUp(p) \/ (LookUpToRemove(p) /\ ~Stops(p))
  <2>1. /\ ~Installs(p) /\ proc'[p].kind = proc[p].kind
        /\ Stage(p)' \notin Entering
    <3>1. CASE CheckUpdate(p)
      <4>1. /\ proc[p].kind = "update" /\ (proc'[p].pc = "stat" \/ (proc'[p].pc = "home" /\ proc'[p].then = "start")
                                              \/ Stops(p))
            /\ Same(p, {"pc", "version"}) \/ Same(p, {"pc", "then", "path"}) \/ Stops(p)
        BY <3>1, CheckUpdateMoves
      <4>2. proc'[p].kind = proc[p].kind
        BY <4>1, SameTold DEF Stops
      <4> QED
        BY <4>1, <4>2, StageTold, PlacesTold, EndsTold DEF Installs
    <3>2. CASE FindPath(p)
      BY <3>2, FindPathMoves, SameTold, StageTold, PlacesTold DEF Installs, Checks
    <3>3. CASE LookUp(p)
      <4>1. ~Installs(p) /\ proc'[p].pc = "start" /\ Same(p, {"pc", "path", "list"})
        BY <3>3, LookUpMoves
      <4> QED
        BY <4>1, SameTold, StageTold, PlacesTold
    <3>4. CASE LookUpToRemove(p) /\ ~Stops(p)
      <4>1. proc[p].kind = "remove" /\ proc'[p].pc = "delete" /\ Same(p, {"pc", "path"})
        BY <3>4, LookUpToRemoveMoves
      <4> QED
        BY <4>1, SameTold, StageTold, PlacesTold DEF Installs
    <3> QED
      BY <1>11, <3>1, <3>2, <3>3, <3>4
  <2> QED
    BY <2>1, SoundTurnIdle
<1>12. CASE ResolveToApply(p) /\ ~NextTurn(p)
  <2> DEFINE list == proc[p].list
             turn == proc[p].turn
             v == Resolved(p)
             path == list[turn].path
             asked == proc[p].todo[turn].version
  <2>1. /\ ~Over(p) /\ proc[p].kind = "apply" /\ Same(p, {"pc", "then", "version", "path", "list"})
        /\ proc'[p].pc = "home" /\ proc'[p].then = "read"
        /\ proc'[p].version = v /\ proc'[p].path = Item(p).path
        /\ DOMAIN proc'[p].list = DOMAIN list
        /\ \A i \in DOMAIN list : proc'[p].list[i] =
                 IF i = turn THEN [list[i] EXCEPT !.version = v] ELSE list[i]
    BY <1>12, ResolveToApplyMoves
  <2>2. /\ ~Installs(p) /\ proc'[p].todo = proc[p].todo /\ proc'[p].turn = turn
        /\ proc'[p].kind = proc[p].kind
    BY <2>1, SameTold DEF Installs
  <2>3. turn \in DOMAIN list /\ Item(p) = list[turn] /\ v \in Versions /\ list[turn] \in Loaded
    BY <2>1, <2>2, ReaderHasItem, ResolvedTypes
  <2>4. proc'[p].list[turn] = [list[turn] EXCEPT !.version = v]
    BY <2>1, <2>3
  <2>5. /\ proc'[p].list[turn].name = list[turn].name /\ proc'[p].list[turn].version = v
        /\ proc'[p].list[turn].path = path
    BY <2>3, <2>4 DEF Loaded
  <2>6. Installs(p)' = FALSE /\ Item(p)' = proc'[p].list[turn]
    BY <2>2 DEF Item, Installs
  <2>7. SoundList(p)'
    BY SoundListStep
  <2>8. /\ path \in Paths'[list[turn].name][v]
        /\ asked = Latest => path \in Paths'[list[turn].name][Latest]
    <3>1. turn \in DOMAIN proc'[p].list
      BY <2>1, <2>3
    <3>2. /\ proc'[p].list[turn].path \in Paths'[proc'[p].list[turn].name][proc'[p].list[turn].version]
          /\ proc'[p].todo[turn].version = Latest =>
                proc'[p].list[turn].path \in Paths'[proc'[p].list[turn].name][Latest]
      BY <2>6, <2>7, <3>1 DEF SoundList
    <3> QED
      BY <2>2, <2>5, <3>2
  <2>9. Item(p)'.name = list[turn].name /\ proc'[p].path = path /\ proc'[p].version = v
        /\ proc'[p].todo[proc'[p].turn].version = asked
    BY <2>1, <2>2, <2>3, <2>5, <2>6
  <2> HIDE DEF list, turn, v, path, asked
  <2> QED
    BY <2>6, <2>8, <2>9 DEF SoundTurn
<1>13. CASE CheckEnds(p) /\ ~Stops(p)
  <2>1. Stage(p)' = "next"
    BY <1>13, CheckEndsMoves, StageTold
  <2> QED
    BY <2>1, SoundTurnLeft, PlacesTold
<1>14. CASE DownloadFails(p) \/ WriteWorkspace(p) \/ CommandEnds(p) \/ Crash(p)
  BY <1>1, <1>14, EndingMoves
<1> QED
  BY <1>1, <1>2, <1>3, <1>4, <1>5, <1>6, <1>7, <1>8, <1>9, <1>10, <1>11, <1>12, <1>13, <1>14
     DEF Run, Config, Binary, Command

-----------------------------------------------------------------------------
(* RegistryInv. *)

LEMMA KeptSound ==
  ASSUME TypeOK, Grown, NEW q \in Procs, Kept(q), ControlOf(q), Mirrors(q),
         SoundMap(proc[q].map), SoundList(q), SoundTurn(q)
  PROVE  (SoundMap(proc[q].map) /\ SoundList(q) /\ SoundTurn(q))'
<1>1. /\ Steady(q) /\ proc'[q].turn = proc[q].turn /\ proc'[q].version = proc[q].version
      /\ proc'[q].path = proc[q].path /\ proc'[q].map = proc[q].map /\ Stage(q)' = Stage(q)
  BY KeptFacts DEF Steady
<1>2. SoundTurn(q)'
  BY <1>1, SoundTurnGoesOn, PlacesTold
<1>3. SoundList(q)'
  BY <1>1, SoundListSteady DEF Steady
<1>4. proc[q].map \in Entries
  BY DEF TypeOK, Process
<1>5. SoundMap(proc[q].map)'
  BY <1>1, <1>4, SoundMapKept DEF SoundMap
<1> QED
  BY <1>2, <1>3, <1>5

LEMMA RunRegistry ==
  ASSUME RegistryInv, NEW p \in Procs, Run(p) \/ Crash(p)
  PROVE  RegistryInv'
<1>1. /\ TypeOK /\ WholeOnes \subseteq wholeOnce /\ SoundMap(entries)
      /\ \A q \in Procs : ControlOf(q) /\ Mirrors(q)
      /\ \A q \in Procs : SoundMap(proc[q].map) /\ SoundList(q) /\ SoundTurn(q)
  BY DEF RegistryInv
<1>2. TypeOK'
  BY <1>1, TypeKept
<1>3. \A q \in Procs : (ControlOf(q) /\ Mirrors(q))'
  BY <1>1, ProcsTyped
<1>4. /\ newest' = newest /\ released' = released /\ wholeOnce \subseteq wholeOnce'
      /\ WholeOnes' \subseteq wholeOnce'
  BY <1>1, CacheWritten
<1>5. newest \in [Names -> Versions]
  BY <1>1 DEF TypeOK
<1>6. Grown
  BY <1>4, <1>5, PathsGrow
<1>7. SoundMap(entries)'
  <2>1. \A map \in {entries, NoEntry, proc[p].map} :
           \A n \in Names : \A v \in {Latest} \cup Versions : map[n][v] \in Paths'[n][v]
    BY <1>1, <1>6, SoundNoEntry DEF SoundMap, Grown
  <2>2. entries' \in {entries, NoEntry, proc[p].map}
    BY <1>1, ConfigWritten
  <2> QED
    BY <2>1, <2>2 DEF SoundMap
<1>8. ASSUME NEW q \in Procs
      PROVE  (SoundMap(proc[q].map) /\ SoundList(q) /\ SoundTurn(q))'
  <2>1. CASE q = p
    <3>1. SoundMap(proc[p].map)'
      BY <1>1, <1>6, SoundMapStep
    <3>2. SoundList(p)'
      BY <1>1, <1>6, SoundListStep
    <3>3. SoundTurn(p)'
      BY <1>1, <1>4, <1>6, SoundTurnStep
    <3> QED
      BY <2>1, <3>1, <3>2, <3>3
  <2>2. CASE q # p
    <3>1. Kept(q)
      BY <1>1, <2>2, OthersKept
    <3> QED
      BY <1>1, <1>6, <3>1, KeptSound
  <2> QED
    BY <2>1, <2>2
<1> QED
  BY <1>2, <1>3, <1>4, <1>7, <1>8 DEF RegistryInv

(* The steps that fail to write. *)

LEMMA FailsMoves ==
  ASSUME TypeOK, NEW p \in Procs, ControlOf(p), Mirrors(p), Fails(p)
  PROVE  /\ failed' = TRUE /\ binary' = binary /\ wholeOnce' = wholeOnce /\ newest' = newest
         /\ decls' = decls /\ alone' = alone /\ removed' = removed /\ released' = released
         /\ entries' \in {entries, NoEntry} /\ file' \in {file, "garbage"}
         /\ proc' = [q \in Procs |-> IF q = p THEN proc'[p] ELSE proc[q]]
         /\ \/ proc'[p] \in Process /\ (Stops(p) \/ NextTurn(p))
            \/ /\ Stage(p) = "start" /\ proc'[p].pc = "start"
               /\ proc'[p] \in Process /\ Same(p, {"pc"})
            \/ Stage(p) = "lookup" /\ proc[p].kind # "remove" /\ Found(p, NoPath)
            \/ Stage(p) = "lookup" /\ proc[p].kind = "remove" /\ FoundToRemove(p, NoPath)
            \/ proc[p].pc \in {"open", "put"} /\ Entered(p)
            \/ /\ proc[p].pc = "delete" /\ proc'[p].pc = "home" /\ proc'[p].then = "read"
               /\ proc'[p] \in Process /\ Same(p, {"pc", "then"})
<1>1. proc \in [Procs -> Process] /\ proc[p] \in Process
  BY DEF TypeOK
<1>2. proc[p].then \in {"next", "lookup", "start", "read"}
  BY DEF ControlOf
<1>3. WriteFails(p)
  BY DEF Fails, HomeFails, EntryNotWritten, RemoveFails, ExtractFails, DeleteFails
<1>4. /\ failed' = TRUE /\ binary' = binary /\ wholeOnce' = wholeOnce /\ newest' = newest
      /\ decls' = decls /\ alone' = alone /\ removed' = removed /\ released' = released
      /\ entries' \in {entries, NoEntry} /\ file' \in {file, "garbage"}
  BY <1>3 DEF WriteFails, cacheVars, configVars
<1>5. "start" \in AtRest \cup Steps /\ "read" \in Steps
  BY StepNames
<1>6. /\ Goto(p, "done") => proc'[p] \in Process /\ Stops(p)
      /\ Continue(p) => proc'[p] \in Process /\ NextTurn(p)
      /\ Goto(p, "start") => proc'[p] \in Process /\ proc'[p].pc = "start" /\ Same(p, {"pc"})
      /\ Home(p, "read") =>
            /\ proc'[p] \in Process /\ proc'[p].pc = "home" /\ proc'[p].then = "read"
            /\ Same(p, {"pc", "then"})
  BY <1>1, <1>5, Gone
<1>7. CASE HomeFails(p)
  <2>1. Stage(p) = proc[p].then
    BY <1>7 DEF HomeFails, Stage, Opening
  <2>2. \/ Goto(p, "done") \/ Continue(p)
        \/ proc[p].then = "start" /\ Goto(p, "start")
        \/ proc[p].then = "lookup" /\ proc[p].kind # "remove" /\ Found(p, NoPath)
        \/ proc[p].then = "lookup" /\ proc[p].kind = "remove" /\ FoundToRemove(p, NoPath)
    BY <1>2, <1>7 DEF HomeFails
  <2>3. proc' = [q \in Procs |-> IF q = p THEN proc'[p] ELSE proc[q]]
    BY <1>1, <2>2 DEF Goto, Continue, Found, FoundToRemove
  <2> QED
    BY <1>4, <1>6, <2>1, <2>2, <2>3
<1>8. CASE EntryNotWritten(p)
  <2>1. proc[p].pc \in {"open", "put"} /\ Entered(p)
    BY <1>8 DEF EntryNotWritten
  <2>2. proc' = [q \in Procs |-> IF q = p THEN proc'[p] ELSE proc[q]]
    BY <1>1, <2>1 DEF Entered
  <2> QED
    BY <1>4, <2>1, <2>2
<1>9. CASE RemoveFails(p) \/ ExtractFails(p)
  <2>1. Goto(p, "done")
    BY <1>9 DEF RemoveFails, ExtractFails
  <2>2. proc' = [q \in Procs |-> IF q = p THEN proc'[p] ELSE proc[q]]
    BY <1>1, <2>1 DEF Goto
  <2> QED
    BY <1>4, <1>6, <2>1, <2>2
<1>10. CASE DeleteFails(p)
  <2>1. Home(p, "read") /\ proc[p].pc = "delete"
    BY <1>10 DEF DeleteFails, At
  <2>2. proc' = [q \in Procs |-> IF q = p THEN proc'[p] ELSE proc[q]]
    BY <1>1, <2>1 DEF Home
  <2> QED
    BY <1>4, <1>6, <2>1, <2>2
<1> QED
  BY <1>7, <1>8, <1>9, <1>10 DEF Fails

\* p has left its turn, goes on in it with the same lists, has no path for the
\* declaration, or has gone on without an entry.
FailsTo(p) ==
    \/ Steady(p) /\ Stage(p)' \notin InTurn
    \/ /\ Steady(p) /\ proc'[p].turn = proc[p].turn /\ proc'[p].version = proc[p].version
       /\ \/ Stage(p) = "start" /\ Stage(p)' = "start" /\ proc'[p].path = proc[p].path
          \/ /\ proc[p].kind = "remove" /\ Stage(p) \in InTurn /\ ~Over(p)
             /\ Stage(p)' \in {"delete", "read"}
    \/ /\ ~Installs(p) /\ ~Over(p) /\ proc[p].kind # "remove"
       /\ Stage(p)' = "start" /\ proc'[p].turn = proc[p].turn
       /\ DOMAIN proc'[p].list = DOMAIN proc[p].list
       /\ \A i \in DOMAIN proc[p].list : proc'[p].list[i] =
             IF i = proc[p].turn THEN [proc[p].list[i] EXCEPT !.path = NoPath] ELSE proc[p].list[i]
    \/ Stage(p)' = "next" /\ (~Installs(p) => proc'[p].list = proc[p].list)

LEMMA FailsTold ==
  ASSUME TypeOK, NEW p \in Procs, ControlOf(p), Mirrors(p), Fails(p)
  PROVE  /\ proc'[p] \in Process /\ proc'[p].pc # "idle"
         /\ proc'[p].then \in {"next", "lookup", "start", "read"}
         /\ proc'[p].kind = proc[p].kind /\ proc'[p].todo = proc[p].todo
         /\ proc'[p].checked = proc[p].checked /\ proc'[p].map \in {proc[p].map, NoEntry}
         /\ FailsTo(p)
<1>0. proc[p].then \in {"next", "lookup", "start", "read"} /\ NoPath \in {NoPath} \cup Versions
  BY DEF ControlOf
<1>1. CASE proc'[p] \in Process /\ (Stops(p) \/ NextTurn(p))
  BY <1>1, EndsTold DEF Steady, FailsTo
<1>2. CASE /\ Stage(p) = "start" /\ proc'[p].pc = "start"
           /\ proc'[p] \in Process /\ Same(p, {"pc"})
  BY <1>0, <1>2, SameTold, StageTold DEF FailsTo
<1>3. CASE Stage(p) = "lookup" /\ proc[p].kind # "remove" /\ Found(p, NoPath)
  <2>1. /\ proc'[p] \in Process /\ ~Installs(p) /\ ~Over(p) /\ proc'[p].pc = "start"
        /\ proc'[p].path = NoPath /\ Same(p, {"pc", "path", "list"})
        /\ DOMAIN proc'[p].list = DOMAIN proc[p].list
        /\ \A i \in DOMAIN proc[p].list : proc'[p].list[i] =
              IF i = proc[p].turn THEN [proc[p].list[i] EXCEPT !.path = proc'[p].path]
              ELSE proc[p].list[i]
    BY <1>0, <1>3, FoundMoves
  <2> QED
    BY <1>0, <1>3, <2>1, SameTold, StageTold DEF FailsTo
<1>4. CASE Stage(p) = "lookup" /\ proc[p].kind = "remove" /\ FoundToRemove(p, NoPath)
  <2>1. /\ proc'[p] \in Process /\ ~Over(p)
        /\ Stops(p) \/ (proc'[p].pc = "delete" /\ Same(p, {"pc", "path"}))
    BY <1>0, <1>4, FoundToRemoveMoves
  <2>2. CASE ~Stops(p)
    BY <1>0, <1>4, <2>1, <2>2, SameTold, StageTold, PlacesTold DEF FailsTo
  <2> QED
    BY <1>1, <2>1, <2>2
<1>5. CASE proc[p].pc \in {"open", "put"} /\ Entered(p)
  <2>1. /\ proc'[p] \in Process /\ proc'[p].pc = "next" /\ proc'[p].map = NoEntry
        /\ Same(p, {"pc", "turn", "map", "handle", "list", "nowhere"})
        /\ ~Installs(p) => proc'[p].list = proc[p].list
    BY <1>5, EnteredMoves
  <2> QED
    BY <1>0, <2>1, SameTold, StageTold DEF FailsTo
<1>6. CASE /\ proc[p].pc = "delete" /\ proc'[p].pc = "home" /\ proc'[p].then = "read"
           /\ proc'[p] \in Process /\ Same(p, {"pc", "then"})
  <2>1. /\ Stage(p) = "delete" /\ Stage(p)' = "read" /\ Stage(p) \in InTurn
    BY <1>6, StageTold, PlacesTold
  <2>2. proc[p].kind = "remove" /\ ~Over(p)
    BY <2>1, TurnHasItem DEF ControlOf
  <2> QED
    BY <1>0, <1>6, <2>1, <2>2, SameTold DEF FailsTo
<1> QED
  BY <1>1, <1>2, <1>3, <1>4, <1>5, <1>6, FailsMoves

LEMMA FailsControl ==
  ASSUME TypeOK, NEW p \in Procs, ControlOf(p), Mirrors(p), Fails(p)
  PROVE  ControlOf(p)' /\ Mirrors(p)'
<1>1. /\ proc'[p].pc # "idle" /\ proc'[p].then \in {"next", "lookup", "start", "read"}
      /\ proc'[p].kind = proc[p].kind /\ proc'[p].todo = proc[p].todo
      /\ proc'[p].checked = proc[p].checked /\ FailsTo(p)
  BY FailsTold
<1>2. CASE Steady(p) /\ Stage(p)' \notin InTurn
  BY <1>1, <1>2, ControlGoesOn, SteadyMirrors
<1>3. CASE /\ Steady(p) /\ proc'[p].turn = proc[p].turn /\ proc'[p].version = proc[p].version
           /\ \/ Stage(p) = "start" /\ Stage(p)' = "start"
              \/ proc[p].kind = "remove" /\ Stage(p) \in InTurn /\ Stage(p)' \in {"delete", "read"}
  BY <1>1, <1>3, ControlGoesOn, SteadyMirrors, PlacesTold
<1>4. CASE /\ ~Installs(p) /\ ~Over(p) /\ proc[p].kind # "remove"
           /\ Stage(p)' = "start" /\ proc'[p].turn = proc[p].turn
           /\ DOMAIN proc'[p].list = DOMAIN proc[p].list
           /\ \A i \in DOMAIN proc[p].list : proc'[p].list[i] =
                 IF i = proc[p].turn THEN [proc[p].list[i] EXCEPT !.path = NoPath] ELSE proc[p].list[i]
  <2>1. \A i \in DOMAIN proc[p].list : proc[p].list[i] \in Loaded
    BY DEF TypeOK, Process
  <2>2. \A i \in DOMAIN proc[p].list : /\ proc'[p].list[i].name = proc[p].list[i].name
                                       /\ proc'[p].list[i].version = proc[p].list[i].version
    BY <1>4, <2>1 DEF Loaded
  <2>3. Mirrors(p)'
    BY <1>1, <1>4, <2>2 DEF Mirrors, Installs
  <2>4. proc[p].turn \in DOMAIN proc[p].todo
    BY <1>4, TurnInTodo
  <2> QED
    BY <1>1, <1>4, <2>3, <2>4, ControlTurns
<1>5. CASE Stage(p)' = "next" /\ (~Installs(p) => proc'[p].list = proc[p].list)
  <2>1. ControlOf(p)'
    BY <1>1, <1>5, PlacesTold DEF ControlOf
  <2>2. Mirrors(p)'
    BY <1>1, <1>5 DEF Mirrors, Installs
  <2> QED
    BY <2>1, <2>2
<1> QED
  BY <1>1, <1>2, <1>3, <1>4, <1>5 DEF FailsTo

LEMMA FailsSoundList ==
  ASSUME TypeOK, Grown, NEW p \in Procs, ControlOf(p), Mirrors(p), SoundList(p), Fails(p)
  PROVE  SoundList(p)'
<1>1. proc'[p].kind = proc[p].kind /\ proc'[p].todo = proc[p].todo /\ FailsTo(p)
  BY FailsTold
<1>2. CASE Installs(p)
  BY <1>1, <1>2 DEF SoundList, Installs
<1>3. CASE proc'[p].list = proc[p].list
  BY <1>1, <1>3, SoundListSteady
<1>4. CASE /\ ~Installs(p) /\ DOMAIN proc'[p].list = DOMAIN proc[p].list
           /\ \A i \in DOMAIN proc[p].list : proc'[p].list[i] =
                 IF i = proc[p].turn THEN [proc[p].list[i] EXCEPT !.path = NoPath] ELSE proc[p].list[i]
  <2> DEFINE list == proc[p].list
  <2>1. \A i \in DOMAIN list : list[i] \in Loaded
    BY DEF TypeOK, Process
  <2>2. \A i \in DOMAIN list : /\ list[i].path \in Paths[list[i].name][list[i].version]
                               /\ proc[p].todo[i].version = Latest =>
                                     list[i].path \in Paths[list[i].name][Latest]
    BY <1>4 DEF SoundList
  <2>3. \A i \in DOMAIN list :
           /\ proc'[p].list[i].name = list[i].name /\ proc'[p].list[i].version = list[i].version
           /\ proc'[p].list[i].path \in {NoPath, list[i].path}
           /\ list[i].name \in Names /\ list[i].version \in {Latest} \cup Versions
    BY <1>4, <2>1 DEF Loaded
  <2>4. ASSUME NEW i \in DOMAIN list
        PROVE  /\ proc'[p].list[i].path \in Paths'[list[i].name][list[i].version]
               /\ proc[p].todo[i].version = Latest =>
                     proc'[p].list[i].path \in Paths'[list[i].name][Latest]
    <3>1. /\ list[i].path \in Paths'[list[i].name][list[i].version]
          /\ proc[p].todo[i].version = Latest => list[i].path \in Paths'[list[i].name][Latest]
      BY <2>2, <2>3 DEF Grown
    <3>2. NoPath \in Paths'[list[i].name][list[i].version] /\ NoPath \in Paths'[list[i].name][Latest]
      BY <2>3, NoPathSound DEF Grown
    <3> QED
      BY <2>3, <3>1, <3>2
  <2> HIDE DEF list
  <2>5. DOMAIN proc'[p].list = DOMAIN list
    BY <1>4 DEF list
  <2> QED
    BY <1>1, <2>3, <2>4, <2>5 DEF SoundList
<1> QED
  BY <1>1, <1>2, <1>3, <1>4 DEF FailsTo, Steady

LEMMA FailsSoundTurn ==
  ASSUME TypeOK, Grown, NEW p \in Procs, ControlOf(p), Mirrors(p), SoundTurn(p), Fails(p)
  PROVE  SoundTurn(p)'
<1>1. proc'[p].kind = proc[p].kind /\ FailsTo(p)
  BY FailsTold
<1>2. CASE Stage(p)' \notin InTurn
  BY <1>2, SoundTurnLeft
<1>3. CASE /\ Steady(p) /\ proc'[p].turn = proc[p].turn /\ proc'[p].version = proc[p].version
           /\ Stage(p) = "start" /\ Stage(p)' = "start" /\ proc'[p].path = proc[p].path
  BY <1>3, SoundTurnGoesOn, PlacesTold
<1>4. CASE proc[p].kind = "remove"
  BY <1>1, <1>4, SoundTurnIdle DEF Installs
<1>5. CASE ~Installs(p) /\ Stage(p)' = "start"
  BY <1>1, <1>5, SoundTurnIdle, PlacesTold
<1> QED
  BY <1>1, <1>2, <1>3, <1>4, <1>5, PlacesTold DEF FailsTo

LEMMA FailRegistry ==
  ASSUME RegistryInv, NEW p \in Procs, Fails(p)
  PROVE  RegistryInv'
<1>1. /\ TypeOK /\ WholeOnes \subseteq wholeOnce /\ SoundMap(entries)
      /\ \A q \in Procs : ControlOf(q) /\ Mirrors(q)
      /\ \A q \in Procs : SoundMap(proc[q].map) /\ SoundList(q) /\ SoundTurn(q)
  BY DEF RegistryInv
<1>2. /\ failed' = TRUE /\ binary' = binary /\ wholeOnce' = wholeOnce /\ newest' = newest
      /\ decls' = decls /\ alone' = alone /\ removed' = removed /\ released' = released
      /\ entries' \in {entries, NoEntry} /\ file' \in {file, "garbage"}
      /\ proc' = [q \in Procs |-> IF q = p THEN proc'[p] ELSE proc[q]]
  BY <1>1, FailsMoves
<1>3. proc'[p] \in Process /\ proc'[p].map \in {proc[p].map, NoEntry}
  BY <1>1, FailsTold
<1>4. \A q \in Procs \ {p} : proc'[q] = proc[q]
  BY <1>2
<1>5. TypeOK'
  <2>1. proc' \in [Procs -> Process]
    BY <1>1, <1>2, <1>3 DEF TypeOK
  <2>2. entries' \in Entries
    BY <1>1, <1>2, VersionTypes DEF TypeOK
  <2> QED
    BY <1>1, <1>2, <2>1, <2>2 DEF TypeOK
<1>6. newest \in [Names -> Versions]
  BY <1>1 DEF TypeOK
<1>7. Grown
  BY <1>2, <1>6, PathsGrow
<1>8. WholeOnes' \subseteq wholeOnce'
  BY <1>1, <1>2 DEF WholeOnes
<1>9. \A map \in {entries, NoEntry, proc[p].map} :
         \A n \in Names : \A v \in {Latest} \cup Versions : map[n][v] \in Paths'[n][v]
  BY <1>1, <1>7, SoundNoEntry DEF SoundMap, Grown
<1>10. SoundMap(entries)' /\ SoundMap(proc[p].map)'
  BY <1>2, <1>3, <1>9 DEF SoundMap
<1>11. ASSUME NEW q \in Procs
       PROVE  /\ (ControlOf(q) /\ Mirrors(q))'
              /\ (SoundMap(proc[q].map) /\ SoundList(q) /\ SoundTurn(q))'
  <2>1. CASE q = p
    BY <1>1, <1>7, <1>10, <2>1, FailsControl, FailsSoundList, FailsSoundTurn
  <2>2. CASE q # p
    <3>1. Kept(q)
      BY <1>4, <2>2 DEF Kept
    <3> QED
      BY <1>1, <1>7, <3>1, KeptSound, KeptControl
  <2> QED
    BY <2>1, <2>2
<1> QED
  BY <1>5, <1>8, <1>10, <1>11 DEF RegistryInv

-----------------------------------------------------------------------------
LEMMA ReleaseRegistry ==
  ASSUME RegistryInv, NEW n \in Names, Release(n)
  PROVE  RegistryInv'
<1>1. /\ TypeOK /\ WholeOnes \subseteq wholeOnce /\ SoundMap(entries)
      /\ \A q \in Procs : ControlOf(q) /\ Mirrors(q)
      /\ \A q \in Procs : SoundMap(proc[q].map) /\ SoundList(q) /\ SoundTurn(q)
  BY DEF RegistryInv
<1>2. /\ newest' = [newest EXCEPT ![n] = newest[n] + 1] /\ newest[n] < Newest
      /\ released' = released \cup {n} /\ proc' = proc
      /\ binary' = binary /\ wholeOnce' = wholeOnce /\ file' = file /\ entries' = entries
      /\ decls' = decls /\ alone' = alone /\ removed' = removed /\ failed' = failed
  BY DEF Release, cacheVars, configVars
<1>3. newest \in [Names -> Versions] /\ newest[n] \in Versions /\ newest[n] \in Nat
      /\ newest[n] + 1 \in Versions
  BY <1>1, <1>2, VersionTypes DEF TypeOK
<1> DEFINE next == newest[n] + 1
<1>4. next \in Versions /\ newest[n] < next
  BY <1>3
<1>5. newest' = [newest EXCEPT ![n] = next]
  BY <1>2
<1> HIDE DEF next
<1>6. newest' \in [Names -> Versions]
  BY <1>3, <1>4, <1>5
<1>7. TypeOK'
  BY <1>1, <1>2, <1>6 DEF TypeOK
<1>8. \A m \in Names : newest'[m] = newest[m] \/ (newest[m] < newest'[m] /\ m \in released')
  BY <1>2, <1>3, <1>4, <1>5
<1>9. Grown
  BY <1>2, <1>3, <1>6, <1>8, PathsGrow
<1>10. \A q \in Procs : Kept(q)
  BY <1>2 DEF Kept
<1>11. \A q \in Procs : (ControlOf(q) /\ Mirrors(q))'
  BY <1>1, <1>10, KeptControl
<1>12. \A q \in Procs : (SoundMap(proc[q].map) /\ SoundList(q) /\ SoundTurn(q))'
  BY <1>1, <1>9, <1>10, KeptSound
<1>13. WholeOnes' \subseteq wholeOnce'
  BY <1>1, <1>2 DEF WholeOnes
<1>14. SoundMap(entries)'
  BY <1>1, <1>2, <1>9 DEF SoundMap, Grown
<1> QED
  BY <1>7, <1>11, <1>12, <1>13, <1>14 DEF RegistryInv

LEMMA StutterRegistry ==
  ASSUME RegistryInv, UNCHANGED vars
  PROVE  RegistryInv'
<1>1. /\ newest' = newest /\ released' = released /\ proc' = proc
      /\ binary' = binary /\ wholeOnce' = wholeOnce /\ file' = file /\ entries' = entries
      /\ decls' = decls /\ alone' = alone /\ removed' = removed /\ failed' = failed
  BY DEF vars, cacheVars, configVars, restVars
<1>2. TypeOK' /\ WholeOnes' = WholeOnes /\ Paths' = Paths /\ FreshOnes' = FreshOnes
  <2>1. FreshOnes' = FreshOnes
    BY <1>1 DEF FreshOnes
  <2>2. Paths' = Paths
    BY <1>1, <2>1 DEF Paths
  <2> QED
    BY <1>1, <2>1, <2>2 DEF RegistryInv, TypeOK, WholeOnes
<1>3. Grown
  BY <1>2 DEF Grown
<1>4. \A q \in Procs : Kept(q)
  BY <1>1 DEF Kept
<1>5. TypeOK
  BY DEF RegistryInv
<1>6. \A q \in Procs : (ControlOf(q) /\ Mirrors(q))'
  BY <1>4, <1>5, KeptControl DEF RegistryInv
<1>7. \A q \in Procs : (SoundMap(proc[q].map) /\ SoundList(q) /\ SoundTurn(q))'
  BY <1>3, <1>4, <1>5, KeptSound DEF RegistryInv
<1>8. SoundMap(entries)'
  BY <1>1, <1>2 DEF SoundMap, RegistryInv
<1> QED
  BY <1>1, <1>2, <1>6, <1>7, <1>8 DEF RegistryInv

\* The entries that earlier commands left.
LEMMA InitEntries ==
  ASSUME Init
  PROVE  SoundMap(entries)
<1>1. /\ newest \in [Names -> Versions] /\ wholeOnce = WholeOnes
      /\ \A n \in Names : \A v \in Versions :
            entries[n][v] = IF binary[n][v] = "whole" THEN v ELSE NoPath
      /\ \A n \in Names : entries[n][Latest] \in {NoPath, entries[n][newest[n]]}
  BY DEF Init
<1>2. ASSUME NEW n \in Names, NEW v \in Versions
      PROVE  entries[n][v] = NoPath \/ (entries[n][v] = v /\ <<n, v>> \in wholeOnce)
  <2>1. CASE binary[n][v] = "whole"
    <3>1. <<n, v>> \in WholeOnes
      BY <2>1 DEF WholeOnes
    <3> QED
      BY <1>1, <2>1, <3>1
  <2>2. CASE binary[n][v] # "whole"
    BY <1>1, <2>2
  <2> QED
    BY <2>1, <2>2
<1>3. ASSUME NEW n \in Names, NEW v \in Versions
      PROVE  entries[n][v] \in Paths[n][v]
  <2>1. Paths[n][v] = {NoPath} \cup {path \in Versions :
            <<n, path>> \in wholeOnce /\ (path = v \/ (path < v /\ n \in released))}
    BY Zenon, PathsTold
  <2> QED
    BY <1>2, <2>1
<1>4. ASSUME NEW n \in Names
      PROVE  entries[n][Latest] \in Paths[n][Latest]
  <2>1. newest[n] \in Versions
    BY <1>1
  <2>2. newest[n] \in FreshOnes[n]
    BY <2>1 DEF FreshOnes
  <2>3. Paths[n][Latest] = {NoPath} \cup {path \in FreshOnes[n] : <<n, path>> \in wholeOnce}
    BY Zenon, <2>1, PathsTold
  <2>4. entries[n][newest[n]] = NoPath
          \/ (entries[n][newest[n]] = newest[n] /\ <<n, newest[n]>> \in wholeOnce)
    BY <1>2, <2>1
  <2>5. entries[n][Latest] = NoPath \/ entries[n][Latest] = entries[n][newest[n]]
    BY <1>1
  <2> QED
    BY <2>2, <2>3, <2>4, <2>5
<1> QED
  BY <1>3, <1>4 DEF SoundMap

LEMMA InitRecord ==
  ASSUME Init, NEW p \in Procs
  PROVE  /\ proc[p] \in Process /\ proc[p].pc = "idle" /\ proc[p].then = "next"
         /\ proc[p].list = <<>> /\ proc[p].todo = <<>> /\ proc[p].turn = 1
         /\ ~proc[p].checked /\ proc[p].map = NoEntry
<1>1. PICK kind \in [Procs -> Kinds], space \in [Procs -> Spaces] :
        proc = [q \in Procs |->
                  [kind |-> kind[q], pc |-> "idle", then |-> "next",
                   handle |-> "none", space |-> space[q], list |-> <<>>,
                   todo |-> <<>>, names |-> {}, turn |-> 1, version |-> Latest,
                   path |-> NoPath, map |-> NoEntry, checked |-> FALSE,
                   errored |-> FALSE, nowhere |-> FALSE]]
  BY DEF Init
<1>2. proc[p] = [kind |-> kind[p], pc |-> "idle", then |-> "next",
                   handle |-> "none", space |-> space[p], list |-> <<>>,
                   todo |-> <<>>, names |-> {}, turn |-> 1, version |-> Latest,
                   path |-> NoPath, map |-> NoEntry, checked |-> FALSE,
                   errored |-> FALSE, nowhere |-> FALSE]
  BY <1>1
<1>3. kind[p] \in Kinds /\ space[p] \in Spaces
  OBVIOUS
<1>4. NoEntry \in Entries
  BY VersionTypes
<1>5. <<>> \in Seq(Loaded) /\ <<>> \in Seq(Decl)
  OBVIOUS
<1> QED
  BY <1>2, <1>3, <1>4, <1>5 DEF Process, AtRest, Steps

LEMMA InitRegistry ==
  Init => RegistryInv
<1> SUFFICES ASSUME Init PROVE RegistryInv
  OBVIOUS
<1>1. TypeOK
  <2>1. /\ newest \in [Names -> Versions] /\ binary \in [Names -> [Versions -> {"none", "whole"}]]
        /\ wholeOnce = WholeOnes /\ entries \in Entries
        /\ file \in {"absent", "ok"} /\ decls \in [Spaces -> DeclLists] /\ alone \in BOOLEAN
        /\ removed = {} /\ released = {} /\ failed \in BOOLEAN
    <3>1. file \in IF entries = NoEntry THEN {"absent", "ok"} ELSE {"ok"}
      BY DEF Init
    <3> QED
      BY <3>1 DEF Init
  <2>2. binary \in [Names -> [Versions -> {"none", "partial", "whole"}]]
    BY <2>1
  <2>3. decls \in [Spaces -> Seq(Decl)]
    BY <2>1, RegistryAssumption
  <2>4. proc \in [Procs -> Process]
    <3>1. \A p \in Procs : proc[p] \in Process
      BY InitRecord
    <3>2. proc = [p \in Procs |-> proc[p]]
      BY DEF Init
    <3> QED
      BY <3>1, <3>2
  <2>5. wholeOnce \subseteq Names \X Versions
    BY <2>1 DEF WholeOnes
  <2>6. file \in {"absent", "blank", "garbage", "ok"}
    BY <2>1
  <2> QED
    BY <2>1, <2>2, <2>3, <2>4, <2>5, <2>6 DEF TypeOK
<1>2. WholeOnes \subseteq wholeOnce
  BY DEF Init
<1>3. ASSUME NEW p \in Procs
      PROVE  /\ ControlOf(p) /\ Mirrors(p)
             /\ SoundMap(proc[p].map) /\ SoundList(p) /\ SoundTurn(p)
  <2>1. /\ proc[p].pc = "idle" /\ proc[p].then = "next"
        /\ proc[p].list = <<>> /\ proc[p].todo = <<>> /\ proc[p].turn = 1
        /\ ~proc[p].checked /\ proc[p].map = NoEntry
    BY InitRecord
  <2>2. Stage(p) = "idle"
    BY <2>1 DEF Stage, Opening
  <2>3. ControlOf(p)
    BY <2>1, <2>2 DEF ControlOf, InTurn, Entering
  <2>4. Mirrors(p)
    BY <2>1 DEF Mirrors
  <2>5. SoundMap(proc[p].map)
    BY <2>1, SoundNoEntry
  <2>6. SoundList(p)
    BY <2>1 DEF SoundList
  <2>7. SoundTurn(p)
    BY <2>2 DEF SoundTurn, InTurn, Entering
  <2> QED
    BY <2>3, <2>4, <2>5, <2>6, <2>7
<1> QED
  BY <1>1, <1>2, <1>3, InitEntries DEF RegistryInv

LEMMA NextRegistry ==
  RegistryInv /\ [Next]_vars => RegistryInv'
BY RunRegistry, FailRegistry, ReleaseRegistry, StutterRegistry DEF Next

LEMMA RegistryInvariant ==
  Spec => []RegistryInv
BY InitRegistry, NextRegistry, PTL DEF Spec

\* The records of the processes, the files and the caches always have their types,
\* so that no loop of a command leaves its list of declarations or arguments.
THEOREM TypeCorrect ==
  Spec => []TypeOK
<1>1. RegistryInv => TypeOK
  BY DEF RegistryInv
<1> QED
  BY <1>1, RegistryInvariant, PTL

\* AppendProviderDecl, and the rewrite of config.json by remove, never let the entry
\* of a version lead to the binary of another one, except of an older one after a
\* release, whatever else the processes write into the file, and wherever they crash.
THEOREM EntriesAreOwn ==
  Spec => []EntryIsOwn
<1>1. RegistryInv => EntryIsOwn
  <2> SUFFICES ASSUME RegistryInv, NEW n \in Names, NEW v \in Versions
               PROVE  entries[n][v] \in {NoPath, v} \/ (entries[n][v] < v /\ n \in released)
    BY DEF EntryIsOwn
  <2>1. entries[n][v] \in Paths[n][v]
    BY DEF RegistryInv, SoundMap
  <2>2. Paths[n][v] = {NoPath} \cup {path \in Versions :
            <<n, path>> \in wholeOnce /\ (path = v \/ (path < v /\ n \in released))}
    BY Zenon, PathsTold
  <2> QED
    BY <2>1, <2>2
<1> QED
  BY <1>1, RegistryInvariant, PTL

\* No entry of config.json leads to a binary that was never complete: a command
\* enters a path only after the plugin started from it, and a binary that somebody
\* truncates while it is extracted is complete again or does not start.
THEOREM EntriesWereWhole ==
  Spec => []EntryWasWhole
<1>1. RegistryInv => EntryWasWhole
  <2> SUFFICES ASSUME RegistryInv, NEW n \in Names, NEW v \in {Latest} \cup Versions,
                      entries[n][v] # NoPath
               PROVE  <<n, entries[n][v]>> \in wholeOnce
    BY DEF EntryWasWhole
  <2>1. entries[n][v] \in Paths[n][v]
    BY DEF RegistryInv, SoundMap
  <2>2. CASE v = Latest
    <3>1. newest[n] \in Versions
      BY DEF RegistryInv, TypeOK
    <3>2. Paths[n][Latest] = {NoPath} \cup {path \in FreshOnes[n] : <<n, path>> \in wholeOnce}
      BY Zenon, <3>1, PathsTold
    <3> QED
      BY <2>1, <2>2, <3>2
  <2>3. CASE v \in Versions
    <3>1. Paths[n][v] = {NoPath} \cup {path \in Versions :
            <<n, path>> \in wholeOnce /\ (path = v \/ (path < v /\ n \in released))}
      BY Zenon, <2>3, PathsTold
    <3> QED
      BY <2>1, <3>1
  <2> QED
    BY <2>2, <2>3
<1> QED
  BY <1>1, RegistryInvariant, PTL

-----------------------------------------------------------------------------
(* When the commands run one after the other, none crashes and the home     *)
(* directory can be written: whatever they install, update, remove and      *)
(* apply, what the workspaces declare works, unless somebody asked for its  *)
(* removal.  The only command is       *)
(* followed through the times at which config.json is gone, empty, or not   *)
(* yet what the command is about to make of it.                             *)

\* What config.json says when p, the only command that runs, has written it.
Says(p) == IF proc[p].pc \in {"open", "put"} THEN proc[p].map ELSE entries

\* With the cache b, a map leads a declaration to a binary that works; the removal
\* of the providers of gone was asked for.
Led(b, gone, map, d) ==
    d.name \notin gone =>
        LET path == map[d.name][d.version] IN path # NoPath /\ b[d.name][path] = "whole"

AllLed(b, gone, map, all) ==
    \A w \in Spaces : \A i \in DOMAIN all[w] : Led(b, gone, map, all[w][i])

\* The file that the command writes is there, empty or not, when it should be.
FileOf(p) ==
    /\ file # "garbage" /\ (file # "ok" => entries = NoEntry)
    /\ file = "blank" <=> proc[p].pc \in {"fill", "put"}
    /\ proc[p].pc \in {"fill", "put", "extracting"} => proc[p].handle = "open"
    /\ proc[p].pc = "create" => file = "absent"

\* What is declared is led to binaries that work by what config.json is going to
\* say, and so is what an install has entered, which it is going to declare.
LeadOf(p) ==
    /\ AllLed(binary, removed, Says(p), decls)
    /\ proc[p].pc = "unlink" => AllLed(binary, removed, proc[p].map, decls)
    /\ Installs(p) =>
          /\ \A i \in DOMAIN proc[p].list : Led(binary, removed, Says(p), proc[p].list[i])
          /\ proc[p].pc \in {"open", "put"} =>
                proc[p].map[Item(p).name][proc[p].version] = proc[p].path

\* No binary that works is replaced, and none is deleted whose removal nobody asked
\* for.
CacheOf(p) ==
    /\ proc[p].pc = "extract" => binary[Item(p).name][proc[p].version] = "none"
    /\ proc[p].kind = "remove" =>
          /\ proc[p].names \subseteq removed
          /\ Stage(p) \in Entering \cup {"delete"} => Item(p).name \in removed

\* What is entered works; an apply has started it before.
WorkOf(p) ==
    /\ Stage(p) \in Entering /\ proc[p].kind # "remove" => Works(Item(p).name, proc[p].path)
    /\ proc[p].checked => ~proc[p].errored
    /\ proc[p].kind = "apply" =>
          /\ Stage(p) \in Entering => proc[p].checked
          /\ Stage(p) = "start" => proc[p].path = proc[p].list[proc[p].turn].path
          /\ \A i \in DOMAIN proc[p].list :
                ~proc[p].errored /\ (proc[p].checked \/ i < proc[p].turn) =>
                    Works(proc[p].list[i].name, proc[p].list[i].path)

SoloOf(p) == FileOf(p) /\ LeadOf(p) /\ CacheOf(p) /\ WorkOf(p)

Resting ==
    /\ file \in {"absent", "ok"} /\ (file # "ok" => entries = NoEntry)
    /\ AllLed(binary, removed, entries, decls)

Fresh(p) == proc[p].list = <<>> /\ ~proc[p].checked /\ proc[p].turn = 1

SoloInv ==
    alone /\ NobodyCrashed /\ ~failed =>
        /\ NobodyRuns => Resting
        /\ \A p \in Procs :
              /\ proc[p].pc \notin AtRest => SoloOf(p) /\ \A q \in Procs \ {p} : proc[q].pc \in AtRest
              /\ proc[p].pc = "idle" => Fresh(p)

-----------------------------------------------------------------------------
(* What the steps leave alone. *)

LEMMA ConfigKept ==
  ASSUME NEW p \in Procs, Run(p), ~CreateConfig(p), ~FillConfig(p), ~UnlinkConfig(p),
         ~OpenConfig(p), ~PutConfig(p)
  PROVE  file' = file /\ entries' = entries
BY DEF Run, Config, StatConfig, ReadToAdd, ReadToRemove, Binary, Command, StatBinary, Extract,
       DownloadFails, Extracted, StartPlugin, StartFails, DeleteBinary, Begin, ResolveToInstall,
       CheckUpdate, FindPath, LookUp, Found,
         LookUpToRemove, FoundToRemove, ResolveToApply, CheckEnds, WriteWorkspace,
       CommandEnds, configVars

LEMMA BinaryKept ==
  ASSUME NEW p \in Procs, Run(p), ~Extract(p), ~Extracted(p), ~DeleteBinary(p)
  PROVE  binary' = binary
BY DEF Run, Config, StatConfig, CreateConfig, FillConfig, ReadToAdd, ReadToRemove, UnlinkConfig,
       OpenConfig, PutConfig, Entered, Binary, Command, StatBinary, DownloadFails, StartPlugin, StartFails,
       Begin, ResolveToInstall, CheckUpdate, FindPath, LookUp, Found,
         LookUpToRemove, FoundToRemove, ResolveToApply,
       CheckEnds, WriteWorkspace, CommandEnds, cacheVars

LEMMA DeclsKept ==
  ASSUME NEW p \in Procs, Run(p), ~WriteWorkspace(p)
  PROVE  decls' = decls
BY DEF Run, Config, StatConfig, CreateConfig, FillConfig, ReadToAdd, ReadToRemove, UnlinkConfig,
       OpenConfig, PutConfig, Entered, Binary, Command, StatBinary, Extract, DownloadFails, Extracted,
       StartPlugin, StartFails, DeleteBinary, Begin, ResolveToInstall, CheckUpdate, FindPath,
       LookUp, Found, LookUpToRemove, FoundToRemove, ResolveToApply, CheckEnds, CommandEnds, restVars

LEMMA RemovedKept ==
  ASSUME NEW p \in Procs, Run(p), ~Begin(p)
  PROVE  removed' = removed
BY DEF Run, Config, StatConfig, CreateConfig, FillConfig, ReadToAdd, ReadToRemove, UnlinkConfig,
       OpenConfig, PutConfig, Entered, Binary, Command, StatBinary, Extract, DownloadFails, Extracted,
       StartPlugin, StartFails, DeleteBinary, ResolveToInstall, CheckUpdate, FindPath,
       LookUp, Found, LookUpToRemove, FoundToRemove, ResolveToApply, CheckEnds, WriteWorkspace, CommandEnds, restVars

\* The step leaves the binaries that work, but those whose removal was asked for.
Still(p) ==
    /\ removed \subseteq removed'
    /\ \A n \in Names : \A v \in Versions :
          binary[n][v] = "whole" /\ (proc[p].kind # "remove" \/ n \notin removed) => binary'[n][v] = "whole"

LEMMA StillThere ==
  ASSUME TypeOK, NEW p \in Procs, ControlOf(p), Mirrors(p), CacheOf(p), Run(p), ~Begin(p)
  PROVE  Still(p)
<1> DEFINE n == Item(p).name
           v == proc[p].version
<1>0. removed' = removed
  BY RemovedKept
<1>1. binary \in [Names -> [Versions -> {"none", "partial", "whole"}]]
  BY DEF TypeOK
<1>2. CASE Extract(p) \/ (Extracted(p) /\ binary' # binary)
  <2>1. proc[p].pc \in {"extract", "extracting"}
    BY <1>2 DEF Extract, Extracted, At
  <2>2. Stage(p) \in {"extract", "extracting"} /\ Stage(p) \in InTurn
    BY <2>1, StageTold, PlacesTold
  <2>3. n \in Names /\ v \in Versions
    BY <2>2, TurnHasItem, ItemTypes DEF ControlOf
  <2>4. \/ binary[n][v] = "none" /\ binary' = [binary EXCEPT ![n][v] = "partial"]
        \/ binary' = [binary EXCEPT ![n][v] = "whole"]
    BY <1>2 DEF Extract, Extracted, CacheOf, At, cacheVars
  <2> HIDE DEF n, v
  <2>5. ASSUME NEW x \in {"none", "partial", "whole"}, binary' = [binary EXCEPT ![n][v] = x],
               x = "whole" \/ binary[n][v] = "none"
        PROVE  Still(p)
    <3> DEFINE b == [binary EXCEPT ![n][v] = x]
    <3>1. \A m \in Names, w \in Versions : b[m][w] = IF m = n /\ w = v THEN x ELSE binary[m][w]
      BY <1>1, <2>3, BinaryUpdated
    <3> HIDE DEF b
    <3>2. binary' = b
      BY <2>5 DEF b
    <3> QED
      BY <1>0, <2>5, <3>1, <3>2 DEF Still
  <2> QED
    BY <2>4, <2>5
<1>3. CASE DeleteBinary(p) /\ binary' # binary
  <2>1. proc[p].pc = "delete"
    BY <1>3 DEF DeleteBinary, At
  <2>2. Stage(p) = "delete" /\ Stage(p) \in InTurn
    BY <2>1, StageTold, PlacesTold
  <2>3. n \in Names /\ proc[p].kind = "remove" /\ n \in removed
    BY <2>2, TurnHasItem, ItemTypes DEF ControlOf, CacheOf
  <2>4. proc[p].path \in Versions /\ binary' = [binary EXCEPT ![n][proc[p].path] = "none"]
    BY <1>3 DEF DeleteBinary, TypeOK, Process
  <2> DEFINE path == proc[p].path
             b == [binary EXCEPT ![n][path] = "none"]
  <2> HIDE DEF n, path
  <2>5. \A m \in Names, w \in Versions : b[m][w] = IF m = n /\ w = path THEN "none" ELSE binary[m][w]
    <3>1. "none" \in {"none", "partial", "whole"}
      OBVIOUS
    <3>2. path \in Versions
      BY <2>4 DEF path
    <3> QED
      BY <1>1, <2>3, <3>1, <3>2, BinaryUpdated
  <2> HIDE DEF b
  <2>6. binary' = b
    BY <2>4 DEF b, path
  <2> QED
    BY <1>0, <2>3, <2>5, <2>6 DEF Still
<1>4. CASE binary' = binary
  BY <1>0, <1>4 DEF Still
<1> QED
  BY <1>2, <1>3, <1>4, BinaryKept

LEMMA LedStill ==
  ASSUME NEW p \in Procs, Still(p), NEW map \in Entries, NEW d, d.name \in Names,
         d.version \in {Latest} \cup Versions, Led(binary, removed, map, d)
  PROVE  Led(binary', removed', map, d)
<1>1. map[d.name][d.version] \in {NoPath} \cup Versions
  BY DEF Entries
<1> QED
  BY <1>1 DEF Led, Still

LEMMA AllLedStill ==
  ASSUME TypeOK, NEW p \in Procs, Still(p), NEW map \in Entries, AllLed(binary, removed, map, decls)
  PROVE  AllLed(binary', removed', map, decls)
<1> SUFFICES ASSUME NEW w \in Spaces, NEW i \in DOMAIN decls[w]
             PROVE  Led(binary', removed', map, decls[w][i])
  BY DEF AllLed
<1>1. decls[w][i] \in Decl
  BY DEF TypeOK
<1>2. decls[w][i].name \in Names /\ decls[w][i].version \in {Latest} \cup Versions
  BY <1>1 DEF Decl
<1>3. Led(binary, removed, map, decls[w][i])
  BY DEF AllLed
<1> QED
  BY <1>2, <1>3, LedStill

LEMMA WorksStill ==
  ASSUME NEW p \in Procs, Still(p), NEW n \in Names, NEW path \in {NoPath} \cup Versions,
         proc[p].kind # "remove", path # NoPath, binary[n][path] = "whole"
  PROVE  binary'[n][path] = "whole"
BY DEF Still

-----------------------------------------------------------------------------
(* The file. *)

\* Where the steps are that do not change config.json.
LEMMA PlacesApart ==
  ASSUME TypeOK, NEW p \in Procs, ControlOf(p), Mirrors(p), Run(p), ~CreateConfig(p), ~FillConfig(p),
         ~UnlinkConfig(p), ~OpenConfig(p), ~PutConfig(p), ~Begin(p)
  PROVE  /\ proc[p].pc \notin {"fill", "put", "unlink", "open"}
         /\ proc'[p].pc \notin {"fill", "put", "idle"}
         /\ proc'[p].pc \in {"unlink", "open"} => ReadToAdd(p) \/ ReadToRemove(p)
         /\ proc'[p].pc = "create" => file = "absent"
         /\ proc'[p].pc = "extracting" => proc'[p].handle = "open"
<1> DEFINE Apart == /\ proc[p].pc \notin {"fill", "put", "unlink", "open"}
                    /\ proc'[p].pc \notin {"fill", "put", "idle"}
                    /\ proc'[p].pc \in {"unlink", "open"} => ReadToAdd(p) \/ ReadToRemove(p)
                    /\ proc'[p].pc = "create" => file = "absent"
                    /\ proc'[p].pc = "extracting" => proc'[p].handle = "open"
<1>0. proc[p].then \in {"next", "lookup", "start", "read"}
  BY DEF ControlOf
<1>1. ASSUME proc[p].pc \notin {"fill", "put", "unlink", "open"}, Stops(p) \/ NextTurn(p)
      PROVE  Apart
  BY <1>1 DEF Stops, NextTurn, Ended
<1>2. CASE StatConfig(p)
  BY <1>0, <1>2, StatConfigMoves
<1>3. CASE ReadToAdd(p)
  BY <1>1, <1>3, ReadToAddMoves
<1>4. CASE ReadToRemove(p)
  BY <1>1, <1>4, ReadToRemoveMoves
<1>5. CASE StatBinary(p)
  BY <1>5, StatBinaryMoves
<1>6. CASE Extract(p) \/ Extracted(p)
  BY <1>6, ExtractMoves, ExtractedMoves
<1>7. CASE DownloadFails(p)
  BY <1>1, <1>7, EndingMoves DEF DownloadFails, At
<1>8. CASE StartPlugin(p)
  BY <1>1, <1>8, StartPluginMoves
<1>9. CASE StartFails(p)
  BY <1>1, <1>9, StartFailsMoves
<1>10. CASE DeleteBinary(p)
  BY <1>10, DeleteBinaryMoves
<1>11. CASE ResolveToInstall(p)
  BY <1>1, <1>11, ResolveToInstallMoves
<1>12. CASE CheckUpdate(p)
  BY <1>1, <1>12, CheckUpdateMoves
<1>13. CASE FindPath(p)
  BY <1>13, FindPathMoves
<1>14. CASE LookUp(p)
  <2>1. proc[p].pc = "lookup" /\ proc'[p].pc = "start"
    BY <1>14, LookUpMoves
  <2> QED
    BY <2>1
<1>15. CASE LookUpToRemove(p)
  BY <1>1, <1>15, LookUpToRemoveMoves
<1>16. CASE ResolveToApply(p)
  <2>1. proc[p].pc = "next" /\ (proc'[p].pc = "home" \/ NextTurn(p))
    BY <1>16, ResolveToApplyMoves
  <2> QED
    BY <1>1, <2>1
<1>17. CASE CheckEnds(p)
  BY <1>1, <1>17, CheckEndsMoves
<1>18. CASE WriteWorkspace(p) \/ CommandEnds(p)
  BY <1>1, <1>18, EndingMoves DEF WriteWorkspace, CommandEnds, At
<1> QED
  BY <1>2, <1>3, <1>4, <1>5, <1>6, <1>7, <1>8, <1>9, <1>10, <1>11, <1>12, <1>13, <1>14, <1>15,
     <1>16, <1>17, <1>18 DEF Run, Config, Binary, Command

LEMMA RunFile ==
  ASSUME TypeOK, NEW p \in Procs, ControlOf(p), Mirrors(p), FileOf(p), Run(p), ~Begin(p)
  PROVE  FileOf(p)'
<1>0. proc[p].then \in {"next", "lookup", "start", "read"}
  BY DEF ControlOf
<1>1. /\ file # "garbage" /\ (file # "ok" => entries = NoEntry)
      /\ file = "blank" <=> proc[p].pc \in {"fill", "put"}
      /\ proc[p].pc \in {"fill", "put", "extracting"} => proc[p].handle = "open"
      /\ proc[p].pc = "create" => file = "absent"
  BY DEF FileOf
<1>2. CASE CreateConfig(p) \/ OpenConfig(p)
  <2>1. PICK step \in {"fill", "put"} : OpenFile(p, step)
    BY <1>2 DEF CreateConfig, OpenConfig
  <2>2. proc'[p].pc = step /\ proc'[p].handle = "open"
    BY <2>1, StepNames, OpenMoves
  <2>3. file' = "blank" /\ entries' = NoEntry
    BY <2>1 DEF OpenFile
  <2> QED
    BY <2>2, <2>3 DEF FileOf
<1>3. CASE FillConfig(p)
  <2>1. proc[p].pc = "fill" /\ proc'[p].pc = proc[p].then
    BY <1>3, FillConfigMoves
  <2>2. WriteFile(p, NoEntry)
    BY <1>3 DEF FillConfig
  <2>3. file' = "ok"
    BY <1>1, <2>1, <2>2 DEF WriteFile
  <2> QED
    BY <1>0, <2>1, <2>3 DEF FileOf
<1>4. CASE PutConfig(p)
  <2>1. proc[p].pc = "put" /\ proc'[p].pc = "next"
    BY <1>4, PutConfigMoves
  <2>2. WriteFile(p, proc[p].map)
    BY <1>4 DEF PutConfig
  <2>3. file' = "ok"
    BY <1>1, <2>1, <2>2 DEF WriteFile
  <2> QED
    BY <2>1, <2>3 DEF FileOf
<1>5. CASE UnlinkConfig(p)
  <2>1. proc[p].pc = "unlink" /\ proc'[p].pc \in {"open"} \cup Ended
    BY <1>5, UnlinkConfigMoves DEF Stops
  <2>2. (file' = file /\ entries' = entries) \/ (file' = "absent" /\ entries' = NoEntry)
    BY <1>5 DEF UnlinkConfig, configVars
  <2> QED
    BY <1>1, <2>1, <2>2 DEF FileOf, Ended
<1>6. CASE ~CreateConfig(p) /\ ~FillConfig(p) /\ ~UnlinkConfig(p) /\ ~OpenConfig(p) /\ ~PutConfig(p)
  <2>1. file' = file /\ entries' = entries
    BY <1>6, ConfigKept
  <2>2. /\ proc[p].pc \notin {"fill", "put"} /\ proc'[p].pc \notin {"fill", "put"}
        /\ proc'[p].pc = "create" => file = "absent"
        /\ proc'[p].pc = "extracting" => proc'[p].handle = "open"
    BY <1>6, PlacesApart
  <2> QED
    BY <1>1, <2>1, <2>2 DEF FileOf
<1> QED
  BY <1>2, <1>3, <1>4, <1>5, <1>6

-----------------------------------------------------------------------------
(* The cache, and the removal. *)

\* A step that keeps the item of its turn.
LEMMA ItemStays ==
  ASSUME NEW p \in Procs, NEW changed, Same(p, changed),
         changed \cap {"kind", "list", "todo", "checked", "turn"} = {}
  PROVE  Item(p)' = Item(p) /\ Installs(p)' = Installs(p)
<1>1. Steady(p) /\ proc'[p].turn = proc[p].turn
  BY SameTold
<1> QED
  BY <1>1, SteadyItem

\* To be shown of a step: what it has to do with the cache.
CacheStep(p) ==
    /\ proc'[p].kind = proc[p].kind /\ proc'[p].names = proc[p].names
    /\ proc'[p].pc = "extract" => binary'[Item(p)'.name][proc'[p].version] = "none"
    /\ proc[p].kind = "remove" /\ Stage(p)' \in Entering \cup {"delete"} =>
          /\ Item(p)'.name = Item(p).name
          /\ Stage(p) \in Entering \cup {"delete"} \/ Item(p).name \in proc[p].names

LEMMA CacheLeft ==
  ASSUME NEW p \in Procs, Stops(p) \/ NextTurn(p)
  PROVE  CacheStep(p)
<1>1. proc'[p].kind = proc[p].kind /\ proc'[p].names = proc[p].names
  BY SameTold DEF Stops, NextTurn
<1>2. proc'[p].pc \in Ended \cup {"next"}
  BY DEF Stops, NextTurn
<1> QED
  BY <1>1, <1>2, StageTold, PlacesTold DEF CacheStep, Ended

LEMMA ConfigSteps ==
  ASSUME TypeOK, NEW p \in Procs, ControlOf(p), Mirrors(p), Config(p)
  PROVE  CacheStep(p)
<1>0. proc[p].then \in {"next", "lookup", "start", "read"}
  BY DEF ControlOf
<1>1. ASSUME NEW changed, Same(p, changed),
             changed \cap {"kind", "list", "todo", "checked", "turn", "names"} = {},
             proc'[p].pc # "extract",
             Stage(p)' \in Entering => Stage(p) \in Entering,
             Stage(p)' = "delete" => Stage(p) = "delete"
      PROVE  CacheStep(p)
  <2>1. proc'[p].kind = proc[p].kind /\ proc'[p].names = proc[p].names
    BY <1>1, SameTold
  <2>2. Item(p)' = Item(p)
    BY <1>1, ItemStays
  <2> QED
    BY <1>1, <2>1, <2>2 DEF CacheStep
<1>2. CASE StatConfig(p) \/ FillConfig(p)
  <2>1. Same(p, {"pc"}) \/ Same(p, {"pc", "handle"})
    BY <1>2, StatConfigMoves, FillConfigMoves
  <2>2. proc'[p].pc # "extract" /\ Stage(p)' = Stage(p)
    <3>1. CASE StatConfig(p)
      BY <1>0, <3>1, StatConfigMoves, SameTold, StageTold
    <3>2. CASE FillConfig(p)
      BY <1>0, <3>2, FillConfigMoves, SameTold, StageTold
    <3> QED
      BY <1>2, <3>1, <3>2
  <2> QED
    BY <1>1, <2>1, <2>2
<1>3. CASE CreateConfig(p)
  <2>1. proc[p].pc = "create" /\ OpenFile(p, "fill") /\ "fill" \in Steps
    BY <1>3, StepNames DEF CreateConfig, At
  <2>2. Same(p, {"pc", "handle"}) /\ proc'[p].pc = "fill"
    BY <2>1, OpenMoves
  <2>3. Stage(p)' = Stage(p)
    BY <2>1, <2>2, SameTold, StageTold
  <2> QED
    BY <1>1, <2>2, <2>3
<1>4. CASE OpenConfig(p)
  <2>1. proc[p].pc = "open" /\ OpenFile(p, "put") /\ "put" \in Steps
    BY <1>4, StepNames DEF OpenConfig, At
  <2>2. Same(p, {"pc", "handle"}) /\ proc'[p].pc = "put"
    BY <2>1, OpenMoves
  <2>3. Stage(p)' = "put" /\ Stage(p) = "open"
    BY <2>1, <2>2, StageTold
  <2> QED
    BY <1>1, <2>2, <2>3, PlacesTold
<1>5. CASE (ReadToAdd(p) \/ ReadToRemove(p) \/ UnlinkConfig(p)) /\ ~Stops(p) /\ ~NextTurn(p)
  <2>1. /\ Same(p, {"pc", "map"}) \/ Same(p, {"pc"})
        /\ proc[p].pc \in {"read", "unlink"} /\ proc'[p].pc \in {"unlink", "open"}
    BY <1>5, ReadToAddMoves, ReadToRemoveMoves, UnlinkConfigMoves
  <2>2. Stage(p) \in Entering /\ Stage(p)' \in Entering /\ Stage(p)' # "delete"
    BY <2>1, StageTold, PlacesTold
  <2> QED
    BY <1>1, <2>1, <2>2
<1>6. CASE PutConfig(p)
  <2>1. proc'[p].pc = "next" /\ proc'[p].kind = proc[p].kind /\ proc'[p].names = proc[p].names
    BY <1>6, PutConfigMoves, SameTold
  <2>2. Stage(p)' = "next"
    BY <2>1, StageTold
  <2> QED
    BY <2>1, <2>2, PlacesTold DEF CacheStep
<1>7. CASE Stops(p) \/ NextTurn(p)
  BY <1>7, CacheLeft
<1> QED
  BY <1>2, <1>3, <1>4, <1>5, <1>6, <1>7 DEF Config

LEMMA OtherSteps ==
  ASSUME TypeOK, NEW p \in Procs, ControlOf(p), Mirrors(p), Binary(p) \/ Command(p), ~Begin(p)
  PROVE  CacheStep(p)
<1>1. ASSUME NEW changed, Same(p, changed), changed \cap {"kind", "names"} = {},
             proc'[p].pc # "extract",
             proc[p].kind # "remove" \/ Stage(p)' \notin Entering \cup {"delete"}
      PROVE  CacheStep(p)
  <2>1. proc'[p].kind = proc[p].kind /\ proc'[p].names = proc[p].names
    BY <1>1, SameTold
  <2> QED
    BY <1>1, <2>1 DEF CacheStep
<1>2. CASE StatBinary(p) \/ Extract(p) \/ Extracted(p)
  <2>1. Stage(p) \in {"stat", "extract", "extracting"}
    BY <1>2, StageTold DEF StatBinary, Extract, Extracted, At
  <2>2. proc[p].kind # "remove"
    BY <2>1 DEF ControlOf
  <2>3. CASE Extract(p) \/ Extracted(p)
    <3>1. /\ Same(p, {"pc", "handle"}) \/ Same(p, {"pc", "path", "handle"})
          /\ proc'[p].pc # "extract"
      BY <2>3, ExtractMoves, ExtractedMoves
    <3> QED
      BY <1>1, <2>2, <3>1
  <2>4. CASE StatBinary(p) /\ proc'[p].pc = "extract"
    <3>1. binary[Item(p).name][proc[p].version] = "none" /\ Same(p, {"pc"})
      BY <2>4, StatBinaryMoves
    <3>2. binary' = binary
      BY <2>4 DEF StatBinary, cacheVars
    <3>3. Item(p)' = Item(p) /\ proc'[p].version = proc[p].version
          /\ proc'[p].kind = proc[p].kind /\ proc'[p].names = proc[p].names
      BY <3>1, ItemStays, SameTold
    <3> QED
      BY <2>2, <3>1, <3>2, <3>3 DEF CacheStep
  <2>5. CASE StatBinary(p) /\ proc'[p].pc # "extract"
    <3>1. Same(p, {"pc", "path"})
      BY <2>5, StatBinaryMoves
    <3> QED
      BY <1>1, <2>2, <2>5, <3>1
  <2> QED
    BY <1>2, <2>3, <2>4, <2>5
<1>3. CASE StartPlugin(p) /\ ~NextTurn(p)
  <2>1. Installs(p) /\ proc'[p].pc = "home" /\ Same(p, {"pc", "then"})
    BY <1>3, StartPluginMoves
  <2> QED
    BY <1>1, <2>1 DEF Installs
<1>4. CASE StartFails(p) /\ ~Stops(p)
  <2>1. Checks(p) /\ proc'[p].pc = "next" /\ Same(p, {"pc", "turn", "errored"})
    BY <1>4, StartFailsMoves
  <2> QED
    BY <1>1, <2>1 DEF Checks
<1>5. CASE DeleteBinary(p)
  <2>1. proc[p].pc = "delete" /\ proc'[p].pc = "home" /\ Same(p, {"pc", "then"})
    BY <1>5, DeleteBinaryMoves
  <2>2. Item(p)' = Item(p) /\ proc'[p].kind = proc[p].kind /\ proc'[p].names = proc[p].names
    BY <2>1, ItemStays, SameTold
  <2>3. Stage(p) = "delete"
    BY <2>1, StageTold
  <2> QED
    BY <2>1, <2>2, <2>3 DEF CacheStep
<1>6. CASE (ResolveToInstall(p) \/ CheckUpdate(p)) /\ ~Stops(p)
  <2>1. /\ Same(p, {"pc", "version"}) \/ Same(p, {"pc", "then", "path"})
        /\ proc'[p].pc # "extract" /\ proc[p].kind # "remove"
    BY <1>6, ResolveToInstallMoves, CheckUpdateMoves DEF Installs
  <2> QED
    BY <1>1, <2>1
<1>7. CASE FindPath(p)
  <2>1. proc'[p].pc = "home" /\ proc'[p].then = "lookup" /\ Same(p, {"pc", "then"})
    BY <1>7, FindPathMoves
  <2>2. Stage(p)' = "lookup"
    BY <2>1, StageTold
  <2> QED
    BY <1>1, <2>1, <2>2, PlacesTold
<1>8. CASE LookUp(p)
  <2>1. proc'[p].pc = "start" /\ Same(p, {"pc", "path", "list"})
    BY <1>8, LookUpMoves
  <2>2. Stage(p)' = "start"
    BY <2>1, StageTold
  <2> QED
    BY <1>1, <2>1, <2>2, PlacesTold
<1>9. CASE LookUpToRemove(p) /\ ~Stops(p)
  <2>1. Item(p).name \in proc[p].names /\ proc'[p].pc = "delete" /\ Same(p, {"pc", "path"})
    BY <1>9, LookUpToRemoveMoves
  <2>2. Item(p)' = Item(p) /\ proc'[p].kind = proc[p].kind /\ proc'[p].names = proc[p].names
    BY <2>1, ItemStays, SameTold
  <2> QED
    BY <2>1, <2>2 DEF CacheStep
<1>10. CASE ResolveToApply(p) /\ ~NextTurn(p)
  <2>1. /\ proc[p].kind = "apply" /\ proc'[p].pc = "home"
        /\ Same(p, {"pc", "then", "version", "path", "list"})
    BY <1>10, ResolveToApplyMoves
  <2> QED
    BY <1>1, <2>1
<1>11. CASE CheckEnds(p) /\ ~Stops(p)
  <2>1. proc[p].kind = "apply" /\ proc'[p].pc = "home" /\ Same(p, {"pc", "then", "checked", "turn"})
    BY <1>11, CheckEndsMoves
  <2> QED
    BY <1>1, <2>1
<1>12. CASE DownloadFails(p) \/ WriteWorkspace(p) \/ CommandEnds(p)
  BY <1>12, EndingMoves, CacheLeft
<1>13. CASE Stops(p) \/ NextTurn(p)
  BY <1>13, CacheLeft
<1> QED
  BY <1>2, <1>3, <1>4, <1>5, <1>6, <1>7, <1>8, <1>9, <1>10, <1>11, <1>12, <1>13
     DEF Binary, Command

LEMMA RunCache ==
  ASSUME TypeOK, NEW p \in Procs, ControlOf(p), Mirrors(p), CacheOf(p), Run(p), ~Begin(p)
  PROVE  CacheOf(p)'
<1>1. CacheStep(p)
  BY ConfigSteps, OtherSteps DEF Run
<1>2. removed' = removed
  BY RemovedKept
<1> QED
  BY <1>1, <1>2 DEF CacheStep, CacheOf

-----------------------------------------------------------------------------
(* What is entered works. *)

LEMMA Listed ==
  ASSUME TypeOK, NEW p \in Procs, NEW i \in DOMAIN proc[p].list
  PROVE  /\ proc[p].list[i] \in Loaded /\ proc[p].list[i].name \in Names
         /\ proc[p].list[i].version \in {Latest} \cup Versions
         /\ proc[p].list[i].path \in {NoPath} \cup Versions
         /\ i \in Nat \ {0}
<1>1. proc[p].list \in Seq(Loaded)
  BY DEF TypeOK, Process
<1>2. proc[p].list[i] \in Loaded /\ i \in Nat \ {0}
  BY <1>1
<1> QED
  BY <1>2 DEF Loaded

\* Commands but apply only enter a path that works.
LEMMA WorkElse ==
  ASSUME NEW p \in Procs, Mirrors(p)', proc'[p].kind # "apply",
         Stage(p)' \in Entering /\ proc'[p].kind # "remove" => Works(Item(p).name, proc[p].path)'
  PROVE  WorkOf(p)'
BY DEF WorkOf, Mirrors

\* A step that leaves the declarations that an apply found as they are.
LEMMA WorkList ==
  ASSUME TypeOK, NEW p \in Procs, WorkOf(p), Still(p), proc[p].kind = "apply",
         proc'[p].list = proc[p].list, proc'[p].errored = proc[p].errored,
         NEW i \in DOMAIN proc[p].list, ~proc[p].errored, proc[p].checked \/ i < proc[p].turn
  PROVE  Works(proc[p].list[i].name, proc[p].list[i].path)'
<1> DEFINE n == proc[p].list[i].name
           path == proc[p].list[i].path
<1>1. Works(n, path) /\ n \in Names /\ path \in {NoPath} \cup Versions
  BY Listed DEF WorkOf
<1>2. n' = n /\ path' = path
  OBVIOUS
<1> HIDE DEF n, path
<1>3. path # NoPath /\ binary'[n][path] = "whole"
  BY <1>1, WorksStill DEF Works
<1>4. Works(n, path)'
  BY <1>2, <1>3 DEF Works
<1> QED
  BY <1>4 DEF n, path

\* A step within a turn, or one that leaves it.
LEMMA WorkGoesOn ==
  ASSUME TypeOK, NEW p \in Procs, ControlOf(p), Mirrors(p), Mirrors(p)', WorkOf(p), Still(p),
         Steady(p), proc'[p].turn = proc[p].turn, proc'[p].path = proc[p].path,
         proc'[p].errored = proc[p].errored,
         Stage(p)' \in Entering => Stage(p) \in Entering,
         Stage(p)' = "start" => Stage(p) = "start" \/ proc[p].kind # "apply"
  PROVE  WorkOf(p)'
<1>1. /\ proc'[p].kind = proc[p].kind /\ proc'[p].list = proc[p].list
      /\ proc'[p].checked = proc[p].checked
  BY DEF Steady
<1>2. Item(p)' = Item(p)
  BY SteadyItem
<1>3. ASSUME Stage(p)' \in Entering, proc[p].kind # "remove"
      PROVE  Works(Item(p).name, proc[p].path)'
  <2> DEFINE n == Item(p).name
             path == proc[p].path
  <2>1. Stage(p) \in Entering /\ Stage(p) \in InTurn
    BY <1>3, PlacesTold
  <2>2. n \in Names /\ path \in {NoPath} \cup Versions
    BY <2>1, TurnHasItem, ItemTypes DEF TypeOK, Process
  <2>3. Works(n, path)
    BY <1>3, <2>1 DEF WorkOf
  <2>4. Item(p)'.name = n /\ proc'[p].path = path
    BY <1>2
  <2> HIDE DEF n, path
  <2>5. path # NoPath /\ binary'[n][path] = "whole"
    BY <1>3, <2>2, <2>3, WorksStill DEF Works
  <2> QED
    BY <2>4, <2>5 DEF Works
<1>4. ASSUME proc[p].kind = "apply"
      PROVE  /\ Stage(p)' \in Entering => proc'[p].checked
             /\ Stage(p)' = "start" => proc'[p].path = proc'[p].list[proc'[p].turn].path
             /\ \A i \in DOMAIN proc'[p].list :
                   ~proc'[p].errored /\ (proc'[p].checked \/ i < proc'[p].turn) =>
                      Works(proc[p].list[i].name, proc[p].list[i].path)'
  <2>1. Stage(p)' \in Entering => proc'[p].checked
    BY <1>1, <1>4 DEF WorkOf
  <2>2. Stage(p)' = "start" => proc'[p].path = proc'[p].list[proc'[p].turn].path
    BY <1>1, <1>4 DEF WorkOf
  <2>3. ASSUME NEW i \in DOMAIN proc[p].list, ~proc[p].errored, proc[p].checked \/ i < proc[p].turn
        PROVE  Works(proc[p].list[i].name, proc[p].list[i].path)'
    BY <1>1, <1>4, <2>3, WorkList
  <2> QED
    BY <1>1, <2>1, <2>2, <2>3
<1>5. proc'[p].checked => ~proc'[p].errored
  BY <1>1 DEF WorkOf
<1> QED
  BY <1>1, <1>3, <1>4, <1>5 DEF WorkOf

\* A step of apply to the next turn.
LEMMA WorkTurns ==
  ASSUME TypeOK, NEW p \in Procs, WorkOf(p), Still(p), Mirrors(p)', proc'[p].kind = proc[p].kind,
         proc[p].kind = "apply" =>
             /\ proc'[p].list = proc[p].list /\ proc'[p].checked = proc[p].checked
             /\ proc'[p].errored = proc[p].errored /\ proc'[p].turn = proc[p].turn + 1,
         Stage(p)' \notin Entering, Stage(p)' # "start",
         proc[p].kind = "apply" /\ ~proc[p].checked =>
             Works(proc[p].list[proc[p].turn].name, proc[p].list[proc[p].turn].path)
  PROVE  WorkOf(p)'
<1>1. CASE proc[p].kind # "apply"
  BY <1>1, WorkElse
<1>2. CASE proc[p].kind = "apply"
  <2>1. /\ proc'[p].list = proc[p].list /\ proc'[p].checked = proc[p].checked
        /\ proc'[p].errored = proc[p].errored /\ proc'[p].turn = proc[p].turn + 1
    BY <1>2
  <2>2. ASSUME NEW i \in DOMAIN proc[p].list, ~proc[p].errored, proc[p].checked \/ i < proc'[p].turn
        PROVE  Works(proc[p].list[i].name, proc[p].list[i].path)'
    <3>1. CASE proc[p].checked \/ i < proc[p].turn
      BY <1>2, <2>1, <2>2, <3>1, WorkList
    <3>2. CASE ~proc[p].checked /\ i = proc[p].turn
      <4> DEFINE n == proc[p].list[i].name
                 path == proc[p].list[i].path
      <4>1. Works(n, path) /\ n \in Names /\ path \in {NoPath} \cup Versions
        BY <1>2, <3>2, Listed
      <4>2. proc'[p].list[i].name = n /\ proc'[p].list[i].path = path
        BY <2>1
      <4> HIDE DEF n, path
      <4>3. path # NoPath /\ binary'[n][path] = "whole"
        BY <1>2, <4>1, WorksStill DEF Works
      <4> QED
        BY <4>2, <4>3 DEF Works
    <3>3. proc[p].turn \in Nat /\ i \in Nat
      BY Listed DEF TypeOK, Process
    <3> QED
      BY <2>1, <2>2, <3>1, <3>2, <3>3
  <2>3. proc'[p].checked => ~proc'[p].errored
    BY <2>1 DEF WorkOf
  <2> QED
    BY <1>2, <2>1, <2>2, <2>3 DEF WorkOf
<1> QED
  BY <1>1, <1>2

LEMMA WorkStays ==
  ASSUME TypeOK, NEW p \in Procs, ControlOf(p), Mirrors(p), Mirrors(p)', WorkOf(p), Still(p),
         NEW changed, Same(p, changed),
         changed \cap {"kind", "list", "todo", "checked", "turn", "path", "errored"} = {},
         Stage(p)' \in Entering => Stage(p) \in Entering,
         Stage(p)' = "start" => Stage(p) = "start" \/ proc[p].kind # "apply"
  PROVE  WorkOf(p)'
<1>1. /\ Steady(p) /\ proc'[p].turn = proc[p].turn /\ proc'[p].path = proc[p].path
      /\ proc'[p].errored = proc[p].errored
  BY SameTold
<1> QED
  BY <1>1, WorkGoesOn

LEMMA WorkStops ==
  ASSUME TypeOK, NEW p \in Procs, ControlOf(p), Mirrors(p), Mirrors(p)', WorkOf(p), Still(p), Stops(p)
  PROVE  WorkOf(p)'
<1>1. Stage(p)' \in {"next", "done", "crashed"}
  BY EndsTold
<1> QED
  BY <1>1, WorkStays, PlacesTold DEF Stops

\* The next turn, when there is nothing to show for a check.
LEMMA WorkContinues ==
  ASSUME TypeOK, NEW p \in Procs, ControlOf(p), Mirrors(p), Mirrors(p)', WorkOf(p), Still(p),
         NextTurn(p),
         proc[p].kind = "apply" /\ ~proc[p].checked =>
             Works(proc[p].list[proc[p].turn].name, proc[p].list[proc[p].turn].path)
  PROVE  WorkOf(p)'
<1>1. Stage(p)' \in {"next", "done", "crashed"}
  BY EndsTold
<1>2. /\ proc'[p].kind = proc[p].kind /\ proc'[p].list = proc[p].list
      /\ proc'[p].checked = proc[p].checked /\ proc'[p].errored = proc[p].errored
      /\ proc'[p].turn = proc[p].turn + 1
  BY SameTold DEF NextTurn
<1> QED
  BY <1>1, <1>2, WorkTurns, PlacesTold

LEMMA WorkOfConfig ==
  ASSUME TypeOK, NEW p \in Procs, ControlOf(p), Mirrors(p), Mirrors(p)', WorkOf(p), Still(p), Config(p)
  PROVE  WorkOf(p)'
<1>0. proc[p].then \in {"next", "lookup", "start", "read"}
  BY DEF ControlOf
<1>2. CASE StatConfig(p) \/ FillConfig(p)
  <2>1. Same(p, {"pc"}) \/ Same(p, {"pc", "handle"})
    BY <1>2, StatConfigMoves, FillConfigMoves
  <2>2. Stage(p)' = Stage(p)
    <3>1. CASE StatConfig(p)
      BY <1>0, <3>1, StatConfigMoves, SameTold, StageTold
    <3>2. CASE FillConfig(p)
      BY <1>0, <3>2, FillConfigMoves, SameTold, StageTold
    <3> QED
      BY <1>2, <3>1, <3>2
  <2> QED
    BY <2>1, <2>2, WorkStays
<1>3. CASE CreateConfig(p)
  <2>1. proc[p].pc = "create" /\ OpenFile(p, "fill") /\ "fill" \in Steps
    BY <1>3, StepNames DEF CreateConfig, At
  <2>2. Same(p, {"pc", "handle"}) /\ proc'[p].pc = "fill"
    BY <2>1, OpenMoves
  <2>3. Stage(p)' = Stage(p)
    BY <2>1, <2>2, SameTold, StageTold
  <2> QED
    BY <2>2, <2>3, WorkStays
<1>4. CASE OpenConfig(p)
  <2>1. proc[p].pc = "open" /\ OpenFile(p, "put") /\ "put" \in Steps
    BY <1>4, StepNames DEF OpenConfig, At
  <2>2. Same(p, {"pc", "handle"}) /\ proc'[p].pc = "put"
    BY <2>1, OpenMoves
  <2>3. Stage(p)' = "put" /\ Stage(p) = "open"
    BY <2>1, <2>2, StageTold
  <2> QED
    BY <2>2, <2>3, PlacesTold, WorkStays
<1>5. CASE (ReadToAdd(p) \/ ReadToRemove(p) \/ UnlinkConfig(p)) /\ ~Stops(p) /\ ~NextTurn(p)
  <2>1. /\ Same(p, {"pc", "map"}) \/ Same(p, {"pc"})
        /\ proc[p].pc \in {"read", "unlink"} /\ proc'[p].pc \in {"unlink", "open"}
    BY <1>5, ReadToAddMoves, ReadToRemoveMoves, UnlinkConfigMoves
  <2>2. Stage(p) \in Entering /\ Stage(p)' \in Entering /\ Stage(p)' # "start"
    BY <2>1, StageTold, PlacesTold
  <2> QED
    BY <2>1, <2>2, WorkStays
<1>6. CASE (ReadToAdd(p) \/ ReadToRemove(p) \/ UnlinkConfig(p)) /\ NextTurn(p)
  <2>1. proc[p].pc \in {"read", "unlink"}
    BY <1>6, ReadToAddMoves, ReadToRemoveMoves, UnlinkConfigMoves
  <2>2. Stage(p) \in Entering
    BY <2>1, StageTold, PlacesTold
  <2>3. proc[p].kind = "apply" => proc[p].checked
    BY <2>2 DEF WorkOf
  <2> QED
    BY <1>6, <2>3, WorkContinues
<1>7. CASE PutConfig(p)
  <2>1. /\ proc[p].pc = "put" /\ proc'[p].pc = "next" /\ proc'[p].turn = proc[p].turn + 1
        /\ Same(p, {"pc", "turn", "map", "handle", "list", "nowhere"})
        /\ proc'[p].list = IF Installs(p) THEN Append(proc[p].list, Added(p)) ELSE proc[p].list
    BY <1>7, PutConfigMoves
  <2>2. /\ proc'[p].kind = proc[p].kind /\ proc'[p].checked = proc[p].checked
        /\ proc'[p].errored = proc[p].errored
    BY <2>1, SameTold
  <2>3. Stage(p)' = "next" /\ Stage(p) \in Entering
    BY <2>1, StageTold, PlacesTold
  <2>4. proc[p].kind = "apply" => proc[p].checked /\ proc'[p].list = proc[p].list
    BY <2>1, <2>3 DEF WorkOf, Installs
  <2> QED
    BY <2>1, <2>2, <2>3, <2>4, WorkTurns, PlacesTold
<1>8. CASE Stops(p)
  BY <1>8, WorkStops
<1> QED
  BY <1>2, <1>3, <1>4, <1>5, <1>6, <1>7, <1>8, UnlinkConfigMoves DEF Config

LEMMA WorkOfBinary ==
  ASSUME TypeOK, NEW p \in Procs, ControlOf(p), Mirrors(p), Mirrors(p)', WorkOf(p), Still(p), Binary(p)
  PROVE  WorkOf(p)'
<1>1. CASE StatBinary(p) \/ Extract(p) \/ Extracted(p)
  <2>1. Stage(p) \in {"stat", "extract", "extracting"}
    BY <1>1, StageTold DEF StatBinary, Extract, Extracted, At
  <2>2. proc[p].kind \in {"install", "init", "update"}
    BY <2>1 DEF ControlOf
  <2>3. proc'[p].kind = proc[p].kind /\ proc'[p].pc \in {"extract", "extracting", "start"}
    BY <1>1, StatBinaryMoves, ExtractMoves, ExtractedMoves, SameTold
  <2>4. Stage(p)' \notin Entering
    BY <2>3, StageTold, PlacesTold
  <2> QED
    BY <2>2, <2>3, <2>4, WorkElse
<1>2. CASE StartPlugin(p) /\ ~NextTurn(p)
  <2>1. Installs(p) /\ proc[p].pc = "start" /\ Same(p, {"pc", "then"})
    BY <1>2, StartPluginMoves
  <2>2. Item(p)' = Item(p) /\ proc'[p].kind = proc[p].kind /\ proc'[p].path = proc[p].path
    BY <2>1, ItemStays, SameTold
  <2>3. Works(Item(p).name, proc[p].path) /\ binary' = binary
    BY <1>2 DEF StartPlugin, cacheVars
  <2>4. Works(Item(p).name, proc[p].path)'
    BY <2>2, <2>3 DEF Works
  <2>5. proc'[p].kind # "apply"
    BY <2>1, <2>2 DEF Installs
  <2> QED
    BY <2>4, <2>5, WorkElse
<1>3. CASE StartPlugin(p) /\ NextTurn(p)
  <2>1. proc[p].pc = "start" /\ Works(Item(p).name, proc[p].path)
    BY <1>3 DEF StartPlugin, At
  <2>2. Stage(p) = "start"
    BY <2>1, StageTold
  <2>3. proc[p].kind = "apply" => /\ proc[p].path = proc[p].list[proc[p].turn].path
                                  /\ Item(p) = proc[p].list[proc[p].turn]
    BY <2>2 DEF WorkOf, Item, Installs
  <2> QED
    BY <1>3, <2>1, <2>3, WorkContinues
<1>4. CASE StartFails(p) /\ ~Stops(p)
  <2>1. /\ Checks(p) /\ proc'[p].pc = "next" /\ proc'[p].errored = TRUE
        /\ Same(p, {"pc", "turn", "errored"})
    BY <1>4, StartFailsMoves
  <2>2. proc'[p].kind = proc[p].kind /\ ~proc'[p].checked /\ Stage(p)' = "next"
    BY <2>1, SameTold, StageTold DEF Checks
  <2> QED
    BY <2>1, <2>2, PlacesTold DEF WorkOf
<1>5. CASE DeleteBinary(p)
  <2>1. proc[p].pc = "delete" /\ Same(p, {"pc", "then"})
    BY <1>5, DeleteBinaryMoves
  <2>2. proc[p].kind = "remove" /\ proc'[p].kind = proc[p].kind
    BY <2>1, StageTold, SameTold DEF ControlOf
  <2> QED
    BY <2>2, WorkElse
<1>6. CASE DownloadFails(p) \/ Stops(p)
  BY <1>6, EndingMoves, WorkStops
<1> QED
  BY <1>1, <1>2, <1>3, <1>4, <1>5, <1>6 DEF Binary

LEMMA WorkOfCommand ==
  ASSUME TypeOK, NEW p \in Procs, ControlOf(p), Mirrors(p), Mirrors(p)', WorkOf(p), Still(p),
         Command(p), ~Begin(p)
  PROVE  WorkOf(p)'
<1>1. CASE (ResolveToInstall(p) \/ CheckUpdate(p)) /\ ~Stops(p)
  <2>1. /\ Same(p, {"pc", "version"}) \/ Same(p, {"pc", "then", "path"})
        /\ proc'[p].pc = "stat" \/ (proc'[p].pc = "home" /\ proc'[p].then = "start")
        /\ Installs(p) \/ proc[p].kind = "update"
    BY <1>1, ResolveToInstallMoves, CheckUpdateMoves
  <2>2. Stage(p)' \notin Entering /\ proc'[p].kind = proc[p].kind
    BY <2>1, StageTold, PlacesTold, SameTold
  <2> QED
    BY <2>1, <2>2, WorkElse DEF Installs
<1>2. CASE FindPath(p)
  <2>1. proc'[p].pc = "home" /\ proc'[p].then = "lookup" /\ Same(p, {"pc", "then"})
    BY <1>2, FindPathMoves
  <2>2. Stage(p)' = "lookup"
    BY <2>1, StageTold
  <2> QED
    BY <2>1, <2>2, WorkStays, PlacesTold
<1>3. CASE LookUp(p)
  <2> DEFINE list == proc[p].list
             turn == proc[p].turn
  <2>1. /\ ~Over(p) /\ ~Installs(p) /\ proc'[p].pc = "start" /\ Same(p, {"pc", "path", "list"})
        /\ (proc[p].kind = "fetch" \/ Checks(p))
    BY <1>3, LookUpMoves
  <2>2. /\ DOMAIN proc'[p].list = DOMAIN list
        /\ \A i \in DOMAIN list : proc'[p].list[i] =
               IF i = turn THEN [list[i] EXCEPT !.path = proc'[p].path] ELSE list[i]
    BY <1>3, LookUpMoves
  <2>3. /\ proc'[p].kind = proc[p].kind /\ proc'[p].turn = turn /\ proc'[p].checked = proc[p].checked
        /\ proc'[p].errored = proc[p].errored
    BY <2>1, SameTold
  <2>4. Stage(p)' = "start"
    BY <2>1, StageTold
  <2>5. CASE proc[p].kind # "apply"
    BY <2>3, <2>4, <2>5, WorkElse, PlacesTold
  <2>6. CASE proc[p].kind = "apply"
    <3>1. ~proc[p].checked /\ turn \in DOMAIN list /\ turn \in Nat
      BY <2>1, <2>6, ReaderHasItem DEF Checks, TypeOK, Process
    <3>2. list[turn] \in Loaded
      BY <3>1, Listed
    <3>3. proc'[p].list[turn].path = proc'[p].path
      BY <2>2, <3>1, <3>2 DEF Loaded
    <3>4. ASSUME NEW i \in DOMAIN list, ~proc[p].errored, i < turn
          PROVE  Works(proc[p].list[i].name, proc[p].list[i].path)'
      <4> DEFINE n == list[i].name
                 path == list[i].path
      <4>1. Works(n, path) /\ n \in Names /\ path \in {NoPath} \cup Versions /\ i \in Nat
        BY <2>6, <3>4, Listed DEF WorkOf
      <4>4. i # turn
        BY <3>1, <3>4, <4>1
      <4>2. proc'[p].list[i].name = n /\ proc'[p].list[i].path = path
        BY <2>2, <4>4
      <4> HIDE DEF n, path
      <4>3. path # NoPath /\ binary'[n][path] = "whole"
        BY <2>6, <4>1, WorksStill DEF Works
      <4> QED
        BY <4>2, <4>3 DEF Works
    <3>5. \A i \in DOMAIN proc'[p].list :
             ~proc'[p].errored /\ (proc'[p].checked \/ i < proc'[p].turn) =>
                 Works(proc[p].list[i].name, proc[p].list[i].path)'
      BY <2>2, <2>3, <3>1, <3>4
    <3>6. proc'[p].path = proc'[p].list[proc'[p].turn].path
      BY <2>3, <3>3
    <3>7. ~proc'[p].checked /\ Stage(p)' \notin Entering
      BY <2>3, <2>4, <3>1, PlacesTold
    <3> QED
      BY <2>3, <3>5, <3>6, <3>7 DEF WorkOf
  <2> QED
    BY <2>5, <2>6
<1>4. CASE LookUpToRemove(p) /\ ~Stops(p)
  <2>1. proc[p].kind = "remove" /\ Same(p, {"pc", "path"})
    BY <1>4, LookUpToRemoveMoves
  <2>2. proc'[p].kind = "remove"
    BY <2>1, SameTold
  <2> QED
    BY <2>2, WorkElse
<1>5. CASE ResolveToApply(p) /\ NextTurn(p)
  <2>1. proc[p].checked
    BY <1>5 DEF ResolveToApply
  <2> QED
    BY <1>5, <2>1, WorkContinues
<1>6. CASE ResolveToApply(p) /\ ~NextTurn(p)
  <2> DEFINE list == proc[p].list
             turn == proc[p].turn
             v == Resolved(p)
  <2>1. /\ ~Over(p) /\ proc[p].kind = "apply" /\ proc[p].checked
        /\ Same(p, {"pc", "then", "version", "path", "list"})
        /\ proc'[p].pc = "home" /\ proc'[p].then = "read" /\ proc'[p].path = Item(p).path
        /\ DOMAIN proc'[p].list = DOMAIN list
        /\ \A i \in DOMAIN list : proc'[p].list[i] =
                 IF i = turn THEN [list[i] EXCEPT !.version = v] ELSE list[i]
    BY <1>6, ResolveToApplyMoves
  <2>2. /\ ~Installs(p) /\ proc'[p].turn = turn /\ proc'[p].kind = proc[p].kind
        /\ proc'[p].checked = proc[p].checked /\ proc'[p].errored = proc[p].errored
    <3>1. Same(p, {"pc", "then", "version", "path", "list"}) /\ proc[p].kind = "apply"
      BY <2>1
    <3> QED
      BY <3>1, SameTold DEF Installs
  <2>3. turn \in DOMAIN list /\ Item(p) = list[turn]
    BY <2>1, <2>2, ReaderHasItem
  <2>4. \A i \in DOMAIN list : list[i] \in Loaded
    BY Listed
  <2>5. \A i \in DOMAIN list : /\ proc'[p].list[i].name = list[i].name
                               /\ proc'[p].list[i].path = list[i].path
    BY <2>1, <2>4 DEF Loaded
  <2>6. ~proc[p].errored /\ Stage(p)' = "read"
    BY <2>1, StageTold DEF WorkOf
  <2>7. ASSUME NEW i \in DOMAIN list
        PROVE  /\ proc'[p].list[i].path # NoPath
               /\ binary'[proc'[p].list[i].name][proc'[p].list[i].path] = "whole"
    <3> DEFINE n == list[i].name
               path == list[i].path
    <3>1. Works(n, path) /\ n \in Names /\ path \in {NoPath} \cup Versions
      BY <2>1, <2>6, Listed DEF WorkOf
    <3>2. proc'[p].list[i].name = n /\ proc'[p].list[i].path = path
      BY <2>5
    <3> HIDE DEF n, path
    <3>3. path # NoPath /\ binary'[n][path] = "whole"
      BY <2>1, <3>1, WorksStill DEF Works
    <3> QED
      BY <3>2, <3>3
  <2>8. Works(Item(p).name, proc[p].path)'
    <3>1. Item(p)' = proc'[p].list[turn]
      BY <2>1, <2>2 DEF Item, Installs
    <3>2. proc'[p].path = proc'[p].list[turn].path
      BY <2>1, <2>3, <2>5
    <3>3. /\ proc'[p].list[turn].path # NoPath
          /\ binary'[proc'[p].list[turn].name][proc'[p].list[turn].path] = "whole"
      BY <2>3, <2>7
    <3> QED
      BY <3>1, <3>2, <3>3 DEF Works
  <2>9. /\ DOMAIN proc'[p].list = DOMAIN list /\ proc[p].checked /\ proc[p].kind = "apply"
    BY <2>1
  <2> HIDE DEF v
  <2> QED
    BY <2>2, <2>6, <2>7, <2>8, <2>9, PlacesTold DEF WorkOf, Works
<1>7. CASE CheckEnds(p) /\ ~Stops(p)
  <2>1. /\ Over(p) /\ proc[p].kind = "apply" /\ ~proc[p].errored
        /\ proc'[p].pc = "home" /\ proc'[p].then = "next"
        /\ proc'[p].checked = TRUE /\ Same(p, {"pc", "then", "checked", "turn"})
    BY <1>7, CheckEndsMoves
  <2>2. /\ proc'[p].list = proc[p].list /\ proc'[p].errored = proc[p].errored
        /\ proc'[p].kind = proc[p].kind
    BY <2>1, SameTold
  <2>3. Stage(p)' = "next"
    BY <2>1, StageTold
  <2>4. \A i \in DOMAIN proc[p].list : i < proc[p].turn
    <3>1. proc[p].list \in Seq(Loaded) /\ proc[p].turn \in Nat /\ proc[p].turn > Len(proc[p].list)
      BY <2>1 DEF Over, Installs, TypeOK, Process
    <3> QED
      BY <3>1
  <2>5. \A i \in DOMAIN proc[p].list : Works(proc[p].list[i].name, proc[p].list[i].path)'
    BY <2>1, <2>2, <2>4, WorkList
  <2> QED
    BY <2>1, <2>2, <2>3, <2>5, PlacesTold DEF WorkOf
<1>8. CASE WriteWorkspace(p) \/ CommandEnds(p) \/ Stops(p)
  BY <1>8, EndingMoves, WorkStops
<1> QED
  BY <1>1, <1>2, <1>3, <1>4, <1>5, <1>6, <1>7, <1>8 DEF Command

-----------------------------------------------------------------------------
(* What is declared is led to what works. *)

LEMMA SaysTypes ==
  ASSUME TypeOK, NEW p \in Procs
  PROVE  Says(p) \in Entries /\ entries \in Entries /\ proc[p].map \in Entries
BY DEF TypeOK, Process, Says

\* The steps that keep the list of an install.
LEMMA ListStays ==
  ASSUME TypeOK, NEW p \in Procs, ControlOf(p), Mirrors(p), Run(p), ~Begin(p), ~PutConfig(p)
  PROVE  proc'[p].kind = proc[p].kind /\ (Installs(p) => proc'[p].list = proc[p].list)
<1>1. CacheStep(p)
  BY ConfigSteps, OtherSteps DEF Run
<1>2. CASE ReadToAdd(p) \/ ReadToRemove(p)
  <2>1. Same(p, {"pc", "map"}) \/ Stops(p) \/ NextTurn(p)
    BY <1>2, ReadToAddMoves, ReadToRemoveMoves
  <2> QED
    BY <2>1, SameTold DEF Stops, NextTurn
<1>3. CASE LookUp(p) \/ ResolveToApply(p) \/ CheckEnds(p)
  <2>1. ~Installs(p)
    BY <1>3, LookUpMoves DEF ResolveToApply, CheckEnds, Checks, Installs
  <2> QED
    BY <1>1, <2>1 DEF CacheStep
<1>4. CASE ~(ReadToAdd(p) \/ ReadToRemove(p) \/ LookUp(p) \/ ResolveToApply(p) \/ CheckEnds(p))
  BY <1>4, MostAreSteady DEF Steady
<1> QED
  BY <1>2, <1>3, <1>4

\* A step that changes neither what config.json is going to say nor what is declared.
LEMMA LeadStays ==
  ASSUME TypeOK, NEW p \in Procs, LeadOf(p), Still(p), decls' = decls,
         proc'[p].kind = proc[p].kind, Installs(p) => proc'[p].list = proc[p].list,
         Says(p)' = Says(p), proc'[p].pc # "unlink",
         proc'[p].pc \in {"open", "put"} /\ Installs(p) =>
             proc'[p].map[Item(p)'.name][proc'[p].version] = proc'[p].path
  PROVE  LeadOf(p)'
<1> DEFINE map == Says(p)
<1>1. map \in Entries
  BY SaysTypes
<1>2. AllLed(binary, removed, map, decls)
  BY DEF LeadOf
<1>3. Installs(p)' = Installs(p)
  BY DEF Installs
<1>4. ASSUME Installs(p), NEW i \in DOMAIN proc[p].list
      PROVE  Led(binary', removed', map, proc[p].list[i])
  <2>1. Led(binary, removed, map, proc[p].list[i])
    BY <1>4 DEF LeadOf
  <2> HIDE DEF map
  <2> QED
    BY <1>1, <1>4, <2>1, Listed, LedStill
<1>5. Says(p)' = map
  OBVIOUS
<1> HIDE DEF map
<1>6. AllLed(binary', removed', map, decls)
  BY <1>1, <1>2, AllLedStill
<1>7. AllLed(binary', removed', Says(p)', decls')
  BY <1>5, <1>6
<1>8. Installs(p) => \A i \in DOMAIN proc'[p].list : Led(binary', removed', Says(p)', proc'[p].list[i])
  BY <1>4, <1>5
<1> QED
  BY <1>3, <1>7, <1>8 DEF LeadOf

\* One map leads whatever works to the same as another, or to something that works.
LEMMA AllLedBy ==
  ASSUME TypeOK, NEW map, NEW other, AllLed(binary, removed, map, decls),
         \A d \in Decl : Led(binary, removed, map, d) => Led(binary, removed, other, d)
  PROVE  AllLed(binary, removed, other, decls)
<1>1. \A w \in Spaces : \A i \in DOMAIN decls[w] : decls[w][i] \in Decl
  BY DEF TypeOK
<1> QED
  BY <1>1 DEF AllLed

LEMMA LeadOfRead ==
  ASSUME TypeOK, NEW p \in Procs, ControlOf(p), Mirrors(p), LeadOf(p), WorkOf(p), ReadToAdd(p),
         ~Stops(p), ~NextTurn(p)
  PROVE  LeadOf(p)'
<1> DEFINE n == Item(p).name
           v == proc[p].version
           path == proc[p].path
           asked == proc[p].todo[proc[p].turn].version
           map == WithEntry(p, entries)
<1>1. /\ proc[p].pc = "read" /\ proc[p].kind # "remove" /\ proc'[p].pc = "open"
      /\ Same(p, {"pc", "map"}) /\ proc'[p].map = map
  BY ReadToAddMoves
<1>2. /\ Item(p)' = Item(p) /\ Installs(p)' = Installs(p) /\ proc'[p].version = v
      /\ proc'[p].path = path /\ proc'[p].list = proc[p].list
  BY <1>1, ItemStays, SameTold
<1>3. Stage(p) \in Entering /\ Stage(p) \in InTurn
  BY <1>1, StageTold, PlacesTold
<1>4. ~Over(p) /\ v \in Versions /\ n \in Names /\ Works(n, path)
  BY <1>1, <1>3, TurnHasItem, ItemTypes DEF ControlOf, WorkOf
<1>5. \A m \in Names : \A w \in {Latest} \cup Versions :
         map[m][w] = IF m = n /\ (w = v \/ (w = Latest /\ asked = Latest)) THEN path ELSE entries[m][w]
  BY <1>4, EntryAdded, SaysTypes
<1>6. Says(p) = entries /\ Says(p)' = map
  BY <1>1 DEF Says
<1>7. binary' = binary /\ removed' = removed /\ decls' = decls
  BY DEF ReadToAdd, cacheVars, restVars
<1> HIDE DEF n, v, path, asked, map
<1>8. ASSUME NEW d, d.name \in Names, d.version \in {Latest} \cup Versions,
             Led(binary, removed, entries, d)
      PROVE  Led(binary, removed, map, d)
  <2>1. \/ map[d.name][d.version] = path /\ d.name = n
        \/ map[d.name][d.version] = entries[d.name][d.version]
    BY <1>5, <1>8
  <2> QED
    BY <1>4, <1>8, <2>1 DEF Led, Works
<1>9. \A d \in Decl : Led(binary, removed, entries, d) => Led(binary, removed, map, d)
  BY <1>8 DEF Decl
<1>10. AllLed(binary, removed, map, decls)
  BY <1>6, <1>9, AllLedBy DEF LeadOf
<1>11. ASSUME Installs(p), NEW i \in DOMAIN proc[p].list
       PROVE  Led(binary, removed, map, proc[p].list[i])
  <2>1. Led(binary, removed, entries, proc[p].list[i])
    BY <1>6, <1>11 DEF LeadOf
  <2> QED
    BY <1>8, <1>11, <2>1, Listed
<1>12. map[n][v] = path
  BY <1>4, <1>5
<1>13. proc'[p].map[Item(p)'.name][proc'[p].version] = proc'[p].path
  BY <1>1, <1>2, <1>12 DEF n
<1>14. AllLed(binary', removed', Says(p)', decls')
  BY <1>6, <1>7, <1>10
<1>15. Installs(p)' => \A i \in DOMAIN proc'[p].list : Led(binary', removed', Says(p)', proc'[p].list[i])
  BY <1>2, <1>6, <1>7, <1>11
<1> QED
  BY <1>1, <1>13, <1>14, <1>15 DEF LeadOf

\* What remove reads, without the entry, still leads what nobody asked to remove.
LEMMA LeadOfForget ==
  ASSUME TypeOK, NEW p \in Procs, ControlOf(p), Mirrors(p), LeadOf(p), CacheOf(p), ReadToRemove(p),
         ~Stops(p), ~NextTurn(p)
  PROVE  LeadOf(p)'
<1> DEFINE n == Item(p).name
           v == Item(p).version
           map == [entries EXCEPT ![n][v] = NoPath]
<1>1. /\ proc[p].pc = "read" /\ proc[p].kind = "remove" /\ proc'[p].pc = "unlink"
      /\ Same(p, {"pc", "map"}) /\ proc'[p].map = map
      /\ n \in Names /\ v \in {Latest} \cup Versions
  BY ReadToRemoveMoves
<1>2. ~Installs(p)'
  BY <1>1, SameTold DEF Installs
<1>3. Stage(p) \in Entering
  BY <1>1, StageTold, PlacesTold
<1>4. n \in removed
  BY <1>1, <1>3 DEF CacheOf
<1>5. Says(p) = entries /\ Says(p)' = entries'
  BY <1>1 DEF Says
<1>6. binary' = binary /\ removed' = removed /\ decls' = decls /\ entries' = entries
  BY DEF ReadToRemove, cacheVars, restVars, configVars
<1> HIDE DEF n, v
<1>7. \A m \in Names : \A w \in {Latest} \cup Versions :
         map[m][w] = IF m = n /\ w = v THEN NoPath ELSE entries[m][w]
  <2>1. NoPath \in {NoPath} \cup Versions
    OBVIOUS
  <2> QED
    BY <1>1, <2>1, SaysTypes, EntryWritten
<1> HIDE DEF map
<1>8. \A d \in Decl : Led(binary, removed, entries, d) => Led(binary, removed, map, d)
  BY <1>4, <1>7 DEF Led, Decl
<1>9. AllLed(binary, removed, entries, decls)
  BY <1>5 DEF LeadOf
<1>10. AllLed(binary, removed, map, decls)
  BY <1>8, <1>9, AllLedBy
<1>11. AllLed(binary', removed', Says(p)', decls') /\ AllLed(binary', removed', proc'[p].map, decls')
  BY <1>1, <1>5, <1>6, <1>9, <1>10
<1> QED
  BY <1>1, <1>2, <1>11 DEF LeadOf

\* install declares what it has entered.
LEMMA LeadOfPut ==
  ASSUME TypeOK, NEW p \in Procs, ControlOf(p), Mirrors(p), FileOf(p), LeadOf(p), WorkOf(p), Still(p),
         PutConfig(p)
  PROVE  LeadOf(p)'
<1> DEFINE n == Item(p).name
           v == proc[p].version
           path == proc[p].path
           map == proc[p].map
           list == proc[p].list
<1>1. /\ proc[p].pc = "put" /\ proc'[p].pc = "next"
      /\ Same(p, {"pc", "turn", "map", "handle", "list", "nowhere"})
      /\ proc'[p].list = IF Installs(p) THEN Append(list, Added(p)) ELSE list
      /\ Added(p) \in Loaded
  BY PutConfigMoves
<1>2. proc'[p].kind = proc[p].kind /\ Installs(p)' = Installs(p)
  BY <1>1, SameTold DEF Installs
<1>3. /\ binary' = binary /\ removed' = removed /\ decls' = decls /\ WriteFile(p, map)
      /\ file = "blank" /\ proc[p].handle = "open"
  BY <1>1 DEF PutConfig, cacheVars, restVars, FileOf
<1>4. entries' = map
  BY <1>3 DEF WriteFile
<1>5. Says(p) = map /\ Says(p)' = map
  BY <1>1, <1>4 DEF Says
<1>6. Stage(p) \in Entering /\ Stage(p) \in InTurn
  BY <1>1, StageTold, PlacesTold
<1>7. AllLed(binary', removed', Says(p)', decls')
  BY <1>3, <1>5 DEF LeadOf
<1>8. ASSUME Installs(p)
      PROVE  \A i \in DOMAIN proc'[p].list : Led(binary, removed, map, proc'[p].list[i])
  <2>1. \A i \in DOMAIN list : Led(binary, removed, map, list[i])
    BY <1>5, <1>8 DEF LeadOf
  <2>2. map[n][v] = path
    BY <1>1, <1>8 DEF LeadOf
  <2>3. Works(n, path)
    BY <1>6, <1>8 DEF WorkOf, Installs
  <2>4. Added(p).name = n /\ Added(p).version = v
    BY DEF Added
  <2> HIDE DEF n, v, path, map
  <2>5. Led(binary, removed, map, Added(p))
    BY <2>2, <2>3, <2>4 DEF Led, Works
  <2>6. list \in Seq(Loaded) /\ proc'[p].list = Append(list, Added(p))
    BY <1>1, <1>8 DEF TypeOK, Process
  <2> HIDE DEF list
  <2>7. \A i \in DOMAIN proc'[p].list :
            (i \in DOMAIN list /\ proc'[p].list[i] = list[i]) \/ proc'[p].list[i] = Added(p)
    BY <1>1, <2>6
  <2> QED
    BY <2>1, <2>5, <2>7
<1> HIDE DEF n, v, path, map, list
<1>9. Installs(p)' => \A i \in DOMAIN proc'[p].list : Led(binary', removed', Says(p)', proc'[p].list[i])
  BY <1>2, <1>3, <1>5, <1>8
<1> QED
  BY <1>1, <1>7, <1>9 DEF LeadOf

\* ... in its workspace.
LEMMA LeadOfWorkspace ==
  ASSUME TypeOK, NEW p \in Procs, LeadOf(p), WriteWorkspace(p)
  PROVE  LeadOf(p)'
<1> DEFINE list == proc[p].list
           written == [i \in DOMAIN list |-> [name |-> list[i].name, version |-> list[i].version]]
<1>1. /\ proc[p].pc = "next" /\ Installs(p) /\ decls' = [decls EXCEPT ![proc[p].space] = written]
      /\ binary' = binary /\ entries' = entries /\ removed' = removed
  BY DEF WriteWorkspace, At, cacheVars, configVars
<1>2. Stops(p)
  BY EndingMoves
<1>3. proc'[p].list = list /\ proc'[p].pc \in Ended
  BY <1>2, SameTold DEF Stops
<1>4. Says(p) = entries /\ Says(p)' = entries
  BY <1>1, <1>3 DEF Says, Ended
<1>5. \A i \in DOMAIN list : Led(binary, removed, entries, list[i])
  BY <1>1, <1>4 DEF LeadOf
<1>6. \A i \in DOMAIN written : Led(binary, removed, entries, written[i])
  BY <1>5 DEF Led
<1>7. AllLed(binary, removed, entries, decls)
  BY <1>4 DEF LeadOf
<1>8. decls \in [Spaces -> Seq(Decl)]
  BY DEF TypeOK
<1> HIDE DEF written, list
<1>9. \A w \in Spaces : decls'[w] = decls[w] \/ decls'[w] = written
  BY <1>1, <1>8
<1>10. AllLed(binary, removed, entries, decls')
  <2> SUFFICES ASSUME NEW w \in Spaces, NEW i \in DOMAIN decls'[w]
               PROVE  Led(binary, removed, entries, decls'[w][i])
    BY DEF AllLed
  <2>1. CASE decls'[w] = decls[w]
    BY <1>7, <2>1 DEF AllLed
  <2>2. CASE decls'[w] = written
    BY <1>6, <2>2
  <2> QED
    BY <1>9, <2>1, <2>2
<1>11. AllLed(binary', removed', Says(p)', decls')
  BY <1>1, <1>4, <1>10
<1>12. \A i \in DOMAIN proc'[p].list : Led(binary', removed', Says(p)', proc'[p].list[i])
  BY <1>1, <1>3, <1>4, <1>5
<1> QED
  BY <1>3, <1>11, <1>12 DEF LeadOf, Ended

LEMMA RunLead ==
  ASSUME TypeOK, NEW p \in Procs, ControlOf(p), Mirrors(p), FileOf(p), LeadOf(p), CacheOf(p), WorkOf(p),
         Still(p), Run(p), ~Begin(p)
  PROVE  LeadOf(p)'
<1>0. proc[p].then \in {"next", "lookup", "start", "read"}
  BY DEF ControlOf
<1>1. CASE CreateConfig(p) \/ FillConfig(p)
  <2>1. /\ proc[p].pc \in {"create", "fill"} /\ proc'[p].pc \in {"fill", "next", "lookup", "start", "read"}
    <3>1. CASE CreateConfig(p)
      <4>1. proc[p].pc = "create" /\ OpenFile(p, "fill") /\ "fill" \in Steps
        BY <3>1, StepNames DEF CreateConfig, At
      <4> QED
        BY <4>1, OpenMoves
    <3>2. CASE FillConfig(p)
      BY <1>0, <3>2, FillConfigMoves
    <3> QED
      BY <1>1, <3>1, <3>2
  <2>2. entries = NoEntry
    BY <2>1 DEF FileOf
  <2>3. entries' = NoEntry
    BY <1>1, <2>2 DEF CreateConfig, FillConfig, OpenFile, WriteFile, configVars
  <2>4. Says(p) = entries /\ Says(p)' = entries
    BY <2>1, <2>2, <2>3 DEF Says
  <2>5. decls' = decls
    BY <1>1 DEF CreateConfig, FillConfig, restVars
  <2>6. proc'[p].kind = proc[p].kind /\ (Installs(p) => proc'[p].list = proc[p].list)
    <3>1. ~PutConfig(p)
      BY <2>1, PutConfigMoves
    <3> QED
      BY <3>1, ListStays
  <2> QED
    BY <2>1, <2>4, <2>5, <2>6, LeadStays
<1>2. CASE OpenConfig(p)
  <2>1. proc[p].pc = "open" /\ OpenFile(p, "put") /\ "put" \in Steps
    BY <1>2, StepNames DEF OpenConfig, At
  <2>2. Same(p, {"pc", "handle"}) /\ proc'[p].pc = "put"
    BY <2>1, OpenMoves
  <2>3. /\ proc'[p].map = proc[p].map /\ proc'[p].version = proc[p].version
        /\ proc'[p].path = proc[p].path /\ proc'[p].list = proc[p].list
        /\ proc'[p].kind = proc[p].kind
    BY <2>2, SameTold
  <2>4. Item(p)' = Item(p)
    BY <2>2, ItemStays
  <2>5. Says(p)' = Says(p)
    BY <2>1, <2>2, <2>3 DEF Says
  <2>6. Installs(p) => proc'[p].map[Item(p)'.name][proc'[p].version] = proc'[p].path
    BY <2>1, <2>3, <2>4 DEF LeadOf
  <2>7. decls' = decls
    BY <1>2 DEF OpenConfig, restVars
  <2> QED
    BY <2>2, <2>3, <2>5, <2>6, <2>7, LeadStays
<1>3. CASE UnlinkConfig(p) /\ ~Stops(p)
  <2>1. proc[p].pc = "unlink" /\ file # "absent" /\ proc'[p].pc = "open" /\ Same(p, {"pc"})
    BY <1>3, UnlinkConfigMoves
  <2>2. Stage(p) = "unlink"
    BY <2>1, StageTold
  <2>3. proc[p].kind = "remove" /\ proc'[p].kind = "remove" /\ proc'[p].map = proc[p].map
    BY <2>1, <2>2, SameTold DEF ControlOf
  <2>4. Says(p)' = proc[p].map
    BY <2>1, <2>3 DEF Says
  <2>5. binary' = binary /\ removed' = removed /\ decls' = decls
    BY <1>3 DEF UnlinkConfig, cacheVars, restVars
  <2>6. AllLed(binary, removed, proc[p].map, decls)
    BY <2>1 DEF LeadOf
  <2>7. AllLed(binary', removed', Says(p)', decls')
    BY <2>4, <2>5, <2>6
  <2>8. ~Installs(p)'
    BY <2>3 DEF Installs
  <2> QED
    BY <2>1, <2>7, <2>8 DEF LeadOf
<1>4. CASE UnlinkConfig(p) /\ Stops(p)
  <2>1. proc[p].pc = "unlink" /\ proc'[p].pc \in Ended
    BY <1>4, UnlinkConfigMoves DEF Stops
  <2>2. file = "absent" => entries' = entries
    BY <1>4 DEF UnlinkConfig, configVars
  <2>3. file = "absent"
    <3>1. proc \in [Procs -> Process]
      BY DEF TypeOK
    <3>2. file # "absent" => proc'[p].pc = "open"
      BY <1>4, <3>1 DEF UnlinkConfig, Process
    <3> QED
      BY <2>1, <3>2 DEF Ended
  <2>4. Says(p)' = Says(p) /\ decls' = decls /\ proc'[p].kind = proc[p].kind /\ proc'[p].list = proc[p].list
    BY <1>4, <2>1, <2>2, <2>3, SameTold DEF Says, Ended, UnlinkConfig, restVars, Stops
  <2> QED
    BY <2>1, <2>4, LeadStays DEF Ended
<1>5. CASE PutConfig(p)
  BY <1>5, LeadOfPut
<1>6. CASE WriteWorkspace(p)
  BY <1>6, LeadOfWorkspace
<1>7. CASE ReadToAdd(p) /\ ~Stops(p) /\ ~NextTurn(p)
  BY <1>7, LeadOfRead
<1>8. CASE ReadToRemove(p) /\ ~Stops(p) /\ ~NextTurn(p)
  BY <1>8, LeadOfForget
<1>9. CASE /\ ~CreateConfig(p) /\ ~FillConfig(p) /\ ~OpenConfig(p) /\ ~UnlinkConfig(p) /\ ~PutConfig(p)
           /\ ~WriteWorkspace(p)
           /\ ReadToAdd(p) \/ ReadToRemove(p) => Stops(p) \/ NextTurn(p)
  <2>1. proc[p].pc \notin {"open", "put"} /\ proc'[p].pc \notin {"unlink", "open", "put"}
    BY <1>9, PlacesApart DEF Stops, NextTurn, Ended
  <2>2. entries' = entries /\ decls' = decls
    BY <1>9, ConfigKept, DeclsKept
  <2>3. Says(p)' = Says(p)
    BY <2>1, <2>2 DEF Says
  <2>4. proc'[p].kind = proc[p].kind /\ (Installs(p) => proc'[p].list = proc[p].list)
    BY <1>9, ListStays
  <2> QED
    BY <2>1, <2>2, <2>3, <2>4, LeadStays
<1> QED
  BY <1>1, <1>2, <1>3, <1>4, <1>5, <1>6, <1>7, <1>8, <1>9

-----------------------------------------------------------------------------
(* SoloInv. *)

\* The steps are made where a command is running.
LEMMA StartsSomewhere ==
  ASSUME NEW p \in Procs, Run(p)
  PROVE  proc[p].pc # "crashed" /\ (~Begin(p) => proc[p].pc \notin AtRest)
BY DEF Run, Config, StatConfig, CreateConfig, FillConfig, ReadToAdd, ReadToRemove, UnlinkConfig,
       OpenConfig, PutConfig, Entered, Binary, Command, StatBinary, Extract, DownloadFails, Extracted,
       StartPlugin, StartFails, DeleteBinary, Begin, ResolveToInstall, CheckUpdate, FindPath,
       LookUp, Found, LookUpToRemove, FoundToRemove, ResolveToApply, CheckEnds, WriteWorkspace, CommandEnds, At, AtRest,
       Ended

LEMMA NeverIdle ==
  ASSUME TypeOK, NEW p \in Procs, ControlOf(p), Mirrors(p), Run(p)
  PROVE  proc'[p].pc # "idle"
<1>1. CASE CreateConfig(p) \/ OpenConfig(p)
  <2>1. \E step \in {"fill", "put"} : OpenFile(p, step)
    BY <1>1 DEF CreateConfig, OpenConfig
  <2> QED
    BY <2>1, StepNames, OpenMoves
<1>2. CASE FillConfig(p)
  BY <1>2, FillConfigMoves DEF ControlOf
<1>3. CASE UnlinkConfig(p)
  BY <1>3, UnlinkConfigMoves DEF Stops, Ended
<1>4. CASE PutConfig(p)
  BY <1>4, PutConfigMoves
<1>5. CASE Begin(p)
  BY <1>5, BeginRecord
<1> QED
  BY <1>1, <1>2, <1>3, <1>4, <1>5, PlacesApart

LEMMA BeginSolo ==
  ASSUME TypeOK, NEW p \in Procs, ControlOf(p), Mirrors(p), Fresh(p), Resting, Begin(p)
  PROVE  SoloOf(p)'
<1>1. /\ proc[p].pc = "idle" /\ proc'[p].pc \in {"home", "next"} /\ proc'[p].then = proc[p].then
      /\ proc'[p].kind = proc[p].kind /\ proc'[p].turn = 1 /\ ~proc'[p].checked
      /\ removed \subseteq removed'
      /\ proc[p].kind = "remove" => removed' = removed \cup proc'[p].names
  BY BeginRecord DEF Fresh
<1>2. Stage(p)' = "next"
  BY <1>1, StageTold DEF ControlOf
<1>3. file' = file /\ entries' = entries /\ binary' = binary /\ decls' = decls
  BY DEF Begin, cacheVars, configVars
<1>4. FileOf(p)'
  BY <1>1, <1>3 DEF FileOf, Resting
<1>5. Says(p)' = entries
  BY <1>1, <1>3 DEF Says
<1>6. ASSUME NEW d, Led(binary, removed, entries, d)
      PROVE  Led(binary', removed', Says(p)', d)
  BY <1>1, <1>3, <1>5, <1>6 DEF Led
<1>7. \A w \in Spaces : \A i \in DOMAIN decls[w] : Led(binary', removed', Says(p)', decls[w][i])
  BY <1>6 DEF Resting, AllLed
<1>8. AllLed(binary', removed', Says(p)', decls')
  BY <1>3, <1>7 DEF AllLed
<1>9. ASSUME NEW i \in DOMAIN proc'[p].list
      PROVE  Led(binary', removed', Says(p)', proc'[p].list[i])
  <2>1. CASE proc[p].kind = "init"
    <3>1. proc'[p].list = <<>>
      BY <2>1, BeginRecord
    <3> QED
      BY <1>9, <3>1
  <2>2. CASE proc[p].kind # "init"
    <3> DEFINE d == decls[proc[p].space][i]
    <3>1. proc[p].space \in Spaces
      BY DEF TypeOK, Process
    <3>2. /\ i \in DOMAIN decls[proc[p].space]
          /\ proc'[p].list[i].name = d.name /\ proc'[p].list[i].version = d.version
      BY <1>9, <2>2, BeginRecord
    <3>3. Led(binary', removed', Says(p)', d)
      BY <1>7, <3>1, <3>2
    <3> HIDE DEF d
    <3> QED
      BY <3>2, <3>3 DEF Led
  <2> QED
    BY <2>1, <2>2
<1>10. LeadOf(p)'
  BY <1>1, <1>8, <1>9 DEF LeadOf
<1>11. CacheOf(p)'
  BY <1>1, <1>2, PlacesTold DEF CacheOf
<1>12. WorkOf(p)'
  <2>1. \A i \in DOMAIN proc'[p].list : proc[p].kind = "apply" => ~(i < proc'[p].turn)
    <3>2. proc'[p] \in Process
      BY BeginRecord
    <3>3. proc'[p].list \in Seq(Loaded)
      BY <3>2 DEF Process
    <3>4. \A i \in DOMAIN proc'[p].list : i \in Nat \ {0}
      BY <3>3
    <3> QED
      BY <1>1, <3>4
  <2> QED
    BY <1>1, <1>2, <2>1, PlacesTold DEF WorkOf
<1> QED
  BY <1>4, <1>10, <1>11, <1>12 DEF SoloOf

LEMMA RunSolo ==
  ASSUME TypeOK, NEW p \in Procs, ControlOf(p), Mirrors(p), Mirrors(p)', SoloOf(p), Run(p), ~Begin(p)
  PROVE  SoloOf(p)'
<1>1. FileOf(p) /\ LeadOf(p) /\ CacheOf(p) /\ WorkOf(p)
  BY DEF SoloOf
<1>2. Still(p)
  BY <1>1, StillThere
<1>3. FileOf(p)'
  BY <1>1, RunFile
<1>4. LeadOf(p)'
  BY <1>1, <1>2, RunLead
<1>5. CacheOf(p)'
  BY <1>1, RunCache
<1>6. WorkOf(p)'
  BY <1>1, <1>2, WorkOfConfig, WorkOfBinary, WorkOfCommand DEF Run
<1> QED
  BY <1>3, <1>4, <1>5, <1>6 DEF SoloOf

LEMMA EndSolo ==
  ASSUME TypeOK', NEW p \in Procs, SoloOf(p)', proc'[p].pc \in AtRest
  PROVE  Resting'
<1>1. proc'[p].pc \notin {"fill", "put", "open"}
  BY DEF AtRest, Ended
<1>2. Says(p)' = entries'
  BY <1>1 DEF Says
<1>3. AllLed(binary', removed', entries', decls')
  BY <1>2 DEF SoloOf, LeadOf
<1>4. file' \in {"absent", "ok"} /\ (file' # "ok" => entries' = NoEntry)
  BY <1>1 DEF SoloOf, FileOf, TypeOK
<1> QED
  BY <1>3, <1>4 DEF Resting

LEMMA RunSoloInv ==
  ASSUME RegistryInv, RegistryInv', SoloInv, NEW p \in Procs, Run(p)
  PROVE  SoloInv'
<1> SUFFICES ASSUME (alone /\ NobodyCrashed /\ ~failed)'
             PROVE  /\ NobodyRuns' => Resting'
                    /\ \A q \in Procs :
                          /\ proc'[q].pc \notin AtRest =>
                                SoloOf(q)' /\ \A r \in Procs \ {q} : proc'[r].pc \in AtRest
                          /\ proc'[q].pc = "idle" => Fresh(q)'
  BY DEF SoloInv
<1>1. TypeOK /\ TypeOK' /\ ControlOf(p) /\ Mirrors(p) /\ Mirrors(p)'
  BY DEF RegistryInv
<1>2. alone /\ ~failed
  BY <1>1, CacheWritten DEF RegistryInv
<1>3. \A q \in Procs \ {p} : Kept(q)
  BY <1>1, OthersKept
<1>4. \A q \in Procs \ {p} : proc'[q].pc = proc[q].pc /\ proc'[q].list = proc[q].list
                             /\ proc'[q].checked = proc[q].checked /\ proc'[q].turn = proc[q].turn
  BY <1>1, <1>3, KeptFacts
<1>5. proc[p].pc # "crashed"
  BY StartsSomewhere
<1>6. NobodyCrashed
  BY <1>4, <1>5 DEF NobodyCrashed, At
<1>7. /\ NobodyRuns => Resting
      /\ \A q \in Procs :
            /\ proc[q].pc \notin AtRest => SoloOf(q) /\ \A r \in Procs \ {q} : proc[r].pc \in AtRest
            /\ proc[q].pc = "idle" => Fresh(q)
  BY <1>2, <1>6 DEF SoloInv
<1>8. SoloOf(p)' /\ \A q \in Procs \ {p} : proc[q].pc \in AtRest
  <2>1. CASE Begin(p)
    <3>1. proc[p].pc = "idle" /\ \A q \in Procs \ {p} : proc[q].pc \in AtRest
      BY <1>2, <2>1 DEF Begin, At
    <3>2. NobodyRuns
      BY <3>1 DEF NobodyRuns, AtRest
    <3> QED
      BY <1>1, <1>7, <2>1, <3>1, <3>2, BeginSolo
  <2>2. CASE ~Begin(p)
    <3>1. proc[p].pc \notin AtRest
      BY <2>2, StartsSomewhere
    <3> QED
      BY <1>1, <1>7, <2>2, <3>1, RunSolo
  <2> QED
    BY <2>1, <2>2
<1>9. NobodyRuns' => Resting'
  BY <1>1, <1>8, EndSolo DEF NobodyRuns
<1>10. proc'[p].pc # "idle"
  BY <1>1, NeverIdle
<1>11. ASSUME NEW q \in Procs
       PROVE  /\ proc'[q].pc \notin AtRest =>
                    SoloOf(q)' /\ \A r \in Procs \ {q} : proc'[r].pc \in AtRest
              /\ proc'[q].pc = "idle" => Fresh(q)'
  <2>1. CASE q = p
    BY <1>4, <1>8, <1>10, <2>1
  <2>2. CASE q # p
    BY <1>4, <1>7, <1>8, <2>2 DEF Fresh
  <2> QED
    BY <2>1, <2>2
<1> QED
  BY <1>9, <1>11

\* A release, and a step of nobody.
LEMMA RestSolo ==
  ASSUME SoloInv,
         proc' = proc, binary' = binary, file' = file, entries' = entries,
         decls' = decls, alone' = alone, removed' = removed, failed' = failed
  PROVE  SoloInv'
<1>1. /\ proc' = proc /\ binary' = binary /\ file' = file /\ entries' = entries
      /\ decls' = decls /\ alone' = alone /\ removed' = removed /\ failed' = failed
  OBVIOUS
<1>2. ASSUME NEW p \in Procs
      PROVE  SoloOf(p)' = SoloOf(p) /\ Fresh(p)' = Fresh(p)
  <2>1. /\ Says(p)' = Says(p) /\ Item(p)' = Item(p) /\ Installs(p)' = Installs(p)
        /\ Stage(p)' = Stage(p) /\ Fresh(p)' = Fresh(p)
    BY <1>1 DEF Says, Item, Installs, Stage, Fresh
  <2>2. FileOf(p)' = FileOf(p)
    BY <1>1 DEF FileOf
  <2>3. LeadOf(p)' = LeadOf(p)
    BY <1>1, <2>1 DEF LeadOf
  <2>4. CacheOf(p)' = CacheOf(p)
    BY <1>1, <2>1 DEF CacheOf
  <2>5. WorkOf(p)' = WorkOf(p)
    BY <1>1, <2>1 DEF WorkOf, Works
  <2> QED
    BY <2>1, <2>2, <2>3, <2>4, <2>5 DEF SoloOf
<1>3. Resting' = Resting /\ NobodyRuns' = NobodyRuns /\ NobodyCrashed' = NobodyCrashed
  BY <1>1 DEF Resting, NobodyRuns, NobodyCrashed, At
<1> QED
  BY <1>1, <1>2, <1>3 DEF SoloInv

LEMMA CrashSolo ==
  ASSUME TypeOK, NEW p \in Procs, Crash(p)
  PROVE  SoloInv'
<1>1. proc'[p].pc = "crashed"
  BY DEF Crash, Goto, TypeOK, Process
<1>2. ~NobodyCrashed'
  BY <1>1 DEF NobodyCrashed, At
<1> QED
  BY <1>2 DEF SoloInv

LEMMA InitSolo ==
  Init => SoloInv
<1> SUFFICES ASSUME Init PROVE SoloInv
  OBVIOUS
<1>1. \A p \in Procs : proc[p].pc = "idle" /\ Fresh(p)
  BY InitRecord DEF Fresh
<1>2. /\ newest \in [Names -> Versions] /\ decls \in [Spaces -> Seq(Decl)]
  BY InitRegistry DEF RegistryInv, TypeOK
<1>3. ASSUME NEW n \in Names, NEW v \in Versions, entries[n][v] # NoPath
      PROVE  entries[n][v] = v /\ binary[n][v] = "whole"
  BY <1>3 DEF Init
<1>4. ASSUME NEW n \in Names, NEW v \in {Latest} \cup Versions, entries[n][v] # NoPath
      PROVE  binary[n][entries[n][v]] = "whole"
  <2>1. CASE v \in Versions
    BY <1>3, <1>4, <2>1
  <2>2. CASE v = Latest
    <3>1. entries[n][Latest] = entries[n][newest[n]] /\ newest[n] \in Versions
      BY <1>2, <1>4, <2>2 DEF Init
    <3> QED
      BY <1>3, <1>4, <2>2, <3>1
  <2> QED
    BY <2>1, <2>2
<1>5. AllLed(binary, removed, entries, decls)
  <2> SUFFICES ASSUME NEW w \in Spaces, NEW i \in DOMAIN decls[w]
               PROVE  Led(binary, removed, entries, decls[w][i])
    BY DEF AllLed
  <2> DEFINE d == decls[w][i]
  <2>1. d \in Decl
    BY <1>2
  <2>2. entries[d.name][d.version] # NoPath
    BY DEF Init
  <2> HIDE DEF d
  <2>3. d.name \in Names /\ d.version \in {Latest} \cup Versions
    BY <2>1 DEF Decl
  <2>4. Led(binary, removed, entries, d)
    BY <1>4, <2>2, <2>3 DEF Led
  <2> QED
    BY <2>4 DEF d
<1>6. Resting
  <2>1. file \in IF entries = NoEntry THEN {"absent", "ok"} ELSE {"ok"}
    BY DEF Init
  <2> QED
    BY <1>5, <2>1 DEF Resting
<1> QED
  BY <1>1, <1>6 DEF SoloInv, AtRest

LEMMA SoloInvariant ==
  Spec => [](RegistryInv /\ SoloInv)
<1>1. Init => RegistryInv /\ SoloInv
  BY InitRegistry, InitSolo
<1>2. RegistryInv /\ SoloInv /\ [Next]_vars => (RegistryInv /\ SoloInv)'
  <2> SUFFICES ASSUME RegistryInv, SoloInv, [Next]_vars
               PROVE  RegistryInv' /\ SoloInv'
    OBVIOUS
  <2>1. RegistryInv'
    BY NextRegistry
  <2>2. ASSUME NEW p \in Procs, Run(p)
        PROVE  SoloInv'
    BY <2>1, <2>2, RunSoloInv
  <2>3. ASSUME NEW p \in Procs, Crash(p)
        PROVE  SoloInv'
    BY <2>3, CrashSolo DEF RegistryInv
  <2>6. ASSUME NEW p \in Procs, Fails(p)
        PROVE  SoloInv'
    BY <2>6, FailsMoves DEF SoloInv, RegistryInv
  <2>4. ASSUME NEW n \in Names, Release(n)
        PROVE  SoloInv'
    <3>1. /\ proc' = proc /\ binary' = binary /\ file' = file /\ entries' = entries
          /\ decls' = decls /\ alone' = alone /\ removed' = removed /\ failed' = failed
      BY <2>4 DEF Release, cacheVars, configVars
    <3> QED
      BY <3>1, RestSolo
  <2>5. CASE UNCHANGED vars
    <3>1. /\ proc' = proc /\ binary' = binary /\ file' = file /\ entries' = entries
          /\ decls' = decls /\ alone' = alone /\ removed' = removed /\ failed' = failed
      BY <2>5 DEF vars, cacheVars, configVars, restVars
    <3> QED
      BY <2>1, <3>1, RestSolo
  <2> QED
    BY <2>1, <2>2, <2>3, <2>4, <2>5, <2>6 DEF Next
<1> QED
  BY <1>1, <1>2, PTL DEF Spec

\* When the commands run one after the other, none crashes and no write to the home
\* directory fails, every plugin that a workspace declares starts from the path that
\* config.json has for it, except those that a remove was asked to remove: also when the versions are released meanwhile,
\* calls to the registry fail, and updates and other workspaces use the same cache.
THEOREM WhatIsDeclaredWorks ==
  Spec => []DeclaredWorks
<1>1. RegistryInv /\ SoloInv => DeclaredWorks
  <2> SUFFICES ASSUME RegistryInv, SoloInv, alone, NobodyRuns, NobodyCrashed, ~failed, NEW w \in Spaces,
                      NEW i \in DOMAIN decls[w], decls[w][i].name \notin removed
               PROVE  Works(decls[w][i].name, PathOf(decls[w][i].name, decls[w][i].version))
    BY DEF DeclaredWorks
  <2> DEFINE d == decls[w][i]
             path == entries[d.name][d.version]
  <2>1. Resting
    BY DEF SoloInv
  <2>2. path # NoPath /\ binary[d.name][path] = "whole"
    BY <2>1 DEF Resting, AllLed, Led
  <2>3. file = "ok"
    <3>1. d \in Decl
      BY DEF RegistryInv, TypeOK
    <3>2. d.name \in Names /\ d.version \in {Latest} \cup Versions
      BY <3>1 DEF Decl
    <3> QED
      BY <2>1, <2>2, <3>2, VersionTypes DEF Resting
  <2> QED
    BY <2>2, <2>3 DEF PathOf, Works
<1> QED
  BY <1>1, SoloInvariant, PTL

=============================================================================
