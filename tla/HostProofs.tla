------------------------------ MODULE HostProofs ------------------------------
(***************************************************************************)
(* Proofs about DbBootstrap, for any number of processes and of openings,  *)
(* and TaskReport, for any number of calls of RunRules, under any faults:  *)
(* when all are done the database runs, on the port they connect to,       *)
(* unless it was broken and nothing has started it since; and whoever is   *)
(* logged in has a client, the status that the cloud is told of a stage is *)
(* the one that the lines of the stage make, and it is told of the stages  *)
(* in their order.                                                         *)
(***************************************************************************)
EXTENDS DbBootstrap, TaskReport, TLAPS

-----------------------------------------------------------------------------
(* DbBootstrap: the inductive invariant.                                    *)

DbPlaces == {"ok", "error", "stat", "copy", "copying", "copied", "initdb", "port",
             "stop", "start"}

\* One process at most runs initdb, and the data is partial while it does.
DbTypeInv ==
    /\ bin \in {"none", "part", "whole"} /\ data \in {"none", "part", "ready"}
    /\ port \in {"5432", "15432"} /\ server \in {"down", "5432", "15432"}
    /\ server # "down" => data = "ready"
    /\ db \in [DbProcs -> DbPlaces]
    /\ opens \in [DbProcs -> 0 .. MaxOpens]
    /\ broken \in {"no", "until a start", "for good"}
    /\ \A p \in DbProcs : db[p] = "initdb" => data = "part"
    /\ \A p, q \in DbProcs : db[p] = "initdb" /\ db[q] = "initdb" => p = q

\* Some process is in one of these places.
Someone(places) == \E p \in DbProcs : db[p] \in places

\* While no installation was cut short, one that began is ready, or somebody is at it.
InstallInv ==
    /\ bin = "none" => data = "none"
    /\ broken # "for good" /\ bin # "none" =>
          \/ data = "ready"
          \/ data = "part" /\ Someone({"initdb"})
          \/ data = "none" /\ Someone({"copying", "copied"})
    /\ broken # "for good" /\ data = "ready" /\ port = "5432" => Someone({"port"})

\* While nothing is broken, a server that is down, or listens on the wrong port, has
\* somebody who is about to start it, or to stop it and start it.
ServerInv ==
    broken = "no" =>
        /\ data # "none" => bin = "whole"
        /\ data = "ready" /\ port = "15432" =>
              \/ server = "15432"
              \/ server = "5432" /\ Someone({"stop"})
              \/ server = "down" /\ Someone({"stop", "start"})

DbInv == DbTypeInv /\ InstallInv /\ ServerInv

-----------------------------------------------------------------------------

LEMMA DbInitInv == DbInit => DbInv
  BY OpensAssumption DEF DbInit, DbInv, DbTypeInv, DbPlaces, InstallInv, ServerInv

\* Who is not p stays, and where p goes somebody is.
LEMMA OneGoes ==
  ASSUME DbTypeInv, NEW p \in DbProcs, NEW place \in DbPlaces, Go(p, place)
  PROVE  /\ db' \in [DbProcs -> DbPlaces]
         /\ db'[p] = place
         /\ \A q \in DbProcs : q # p => db'[q] = db[q]
         /\ \A places : place \in places => Someone(places)'
         /\ \A places : Someone(places) /\ db[p] \notin places => Someone(places)'
  BY DEF DbTypeInv, Go, Someone

LEMMA OpensBounded ==
  ASSUME NEW p \in DbProcs, opens \in [DbProcs -> 0 .. MaxOpens], GetDsn(p)
  PROVE  opens' \in [DbProcs -> 0 .. MaxOpens]
<1>1. opens[p] \in 0 .. MaxOpens /\ opens[p] < MaxOpens
  BY DEF GetDsn
<1>2. opens[p] + 1 \in 0 .. MaxOpens
  BY <1>1, OpensAssumption
<1> QED
  BY <1>2 DEF GetDsn

LEMMA DbStepInv ==
  ASSUME DbInv, [DbNext]_dbVars
  PROVE  DbInv'
<1> USE OpensAssumption DEF DbInv, DbTypeInv, InstallInv, ServerInv, Breaks, DbPlaces
<1>1. ASSUME NEW p \in DbProcs, GetDsn(p)
      PROVE  DbInv'
  <2>1. PICK place \in {"stat", "error"} : Go(p, place)
    BY <1>1 DEF GetDsn
  <2>2. /\ opens' \in [DbProcs -> 0 .. MaxOpens]
        /\ UNCHANGED <<bin, data, port, server, broken>> /\ db[p] \in {"ok", "error"}
    BY <1>1, OpensBounded DEF GetDsn, Returned
  <2>3. /\ db' \in [DbProcs -> DbPlaces] /\ db'[p] = place
        /\ \A q \in DbProcs : q # p => db'[q] = db[q]
        /\ \A places : Someone(places) /\ db[p] \notin places => Someone(places)'
    BY <2>1, OneGoes
  <2>4. DbTypeInv'
    BY <2>1, <2>2, <2>3
  <2> QED
    BY <2>2, <2>3, <2>4
<1>2. ASSUME NEW p \in DbProcs, StatBin(p)
      PROVE  DbInv'
  BY <1>2, OneGoes DEF StatBin
<1>3. ASSUME NEW p \in DbProcs, CopyBegins(p)
      PROVE  DbInv'
  BY <1>3, OneGoes DEF CopyBegins
<1>4. ASSUME NEW p \in DbProcs, CopyEnds(p)
      PROVE  DbInv'
  BY <1>4, OneGoes DEF CopyEnds
<1>5. ASSUME NEW p \in DbProcs, InitdbBegins(p)
      PROVE  DbInv'
  BY <1>5, OneGoes DEF InitdbBegins
<1>6. ASSUME NEW p \in DbProcs, InitdbEnds(p)
      PROVE  DbInv'
  BY <1>6, OneGoes DEF InitdbEnds
<1>7. ASSUME NEW p \in DbProcs, ChangePort(p)
      PROVE  DbInv'
  BY <1>7, OneGoes DEF ChangePort
<1>8. ASSUME NEW p \in DbProcs, PgStop(p)
      PROVE  DbInv'
  BY <1>8, OneGoes DEF PgStop
<1>9. ASSUME NEW p \in DbProcs, PgStart(p)
      PROVE  DbInv'
  BY <1>9, OneGoes DEF PgStart, Startable
<1>10. ASSUME NEW p \in DbProcs, DbCrash(p)
       PROVE  DbInv'
  BY <1>10, OneGoes DEF DbCrash, Returned, Installs
<1>11. CASE UNCHANGED dbVars
  BY <1>11 DEF dbVars, Someone
<1> QED
  BY <1>1, <1>2, <1>3, <1>4, <1>5, <1>6, <1>7, <1>8, <1>9, <1>10, <1>11 DEF DbNext

LEMMA DbInvariant == DbSpec => []DbInv
<1>1. DbInv /\ [DbNext]_dbVars => DbInv'
  BY DbStepInv
<1> QED
  BY DbInitInv, <1>1, PTL DEF DbSpec

(* The state has its type, a server runs on whole data only, and data that  *)
(* is ready names the wrong port only until ChangePort has run, unless an   *)
(* installation was cut short.                                              *)
THEOREM DbTypeCorrect == DbSpec => []DbTypeOK
<1>1. DbInv => DbTypeOK
  BY DEF DbInv, DbTypeInv, InstallInv, Someone, DbTypeOK
<1> QED
  BY <1>1, DbInvariant, PTL

(* When all the processes are done with RunDB the database is installed    *)
(* and runs, on the port they connect to, unless an installation was cut   *)
(* short or disturbed, or a process died between its stop and its start.   *)
THEOREM DatabaseIsUp == DbSpec => []QuietIsUp
<1>1. ASSUME DbInv, \A p \in DbProcs : Returned(p), broken = "no", bin # "none"
      PROVE  data = "ready" /\ server = "15432"
  <2>1. ASSUME NEW places, Someone(places)
        PROVE  "ok" \in places \/ "error" \in places
    BY <1>1, <2>1 DEF Someone, Returned
  <2>2. data = "ready"
    BY <1>1, <2>1 DEF DbInv, InstallInv
  <2>3. port = "15432"
    BY <1>1, <2>1, <2>2 DEF DbInv, DbTypeInv, InstallInv
  <2> QED
    BY <1>1, <2>1, <2>2, <2>3 DEF DbInv, ServerInv
<1>2. DbInv => QuietIsUp
  BY <1>1 DEF QuietIsUp
<1> QED
  BY <1>2, DbInvariant, PTL

-----------------------------------------------------------------------------
(* TaskReport: the inductive invariants.                                    *)

Places == {"login", "config", "task", "sync", "decls", "pull", "pulled", "loop", "rules",
           "upload", "nil error", "nil map", "unlock", "leave", "ended", "panicked", "fatal"}

Says   == {"", "error"}
Access == [op : {"none", "write", "read", "send"}, stage : Stages, says : Says, due : BOOLEAN]
Told   == [stage : Stages, says : Says, due : BOOLEAN, by : Actors, task : BOOLEAN,
           answered : BOOLEAN]

\* Where main is tells the stage, and RunRules is called in the last one only.
PlaceInv ==
    /\ pc \in Places
    /\ stage \in Stages
    /\ round \in 0 .. MaxRounds
    /\ pc \in {"login", "config", "task", "leave"} => stage = Before
    /\ pc \in {"sync", "decls"} => stage = "initializing"
    /\ pc \in {"pull", "pulled"} <=> stage = "pull" /\ pc # "fatal"
    /\ pc \in {"loop", "rules", "upload", "nil error", "nil map"} => stage = "infrastructure"
    /\ round > 0 => stage = "infrastructure"

WorkerInv ==
    /\ workers \in [Workers -> {"off", "on", "cancelled", "fired", "reported", "done"}]
    /\ \A w \in Workers : workers[w] = "off" <=> w[2] > round

\* The client of who is logged in.
ClientInv ==
    /\ token \in BOOLEAN /\ project \in BOOLEAN
    /\ client \in {"unset", "none", "failed", "open"}
    /\ client = "none" => ~token
    /\ pc = "login" => client = "unset"
    /\ task \in [created : BOOLEAN, known : BOOLEAN]
    /\ task.known => task.created
    /\ task.created => token /\ project
    /\ setup \in {"unset", "failed"}

\* Who uses the map has a client, and does so for the stage that main is in.
AccessInv ==
    /\ access \in [Actors -> Access]
    /\ \A a \in Actors :
           ~Free(a) => client = "open" /\ access[a].stage = stage /\ (a # Main => round > 0)

\* An error line that was complete when a report was begun is in what it says, and
\* what it says is in the lines.
Honest(a) ==
    /\ access[a].due => access[a].stage \in shown
    /\ access[a].says = "error" => access[a].stage \in shown
    /\ access[a].op = "send" /\ access[a].due => access[a].says = "error"

StatusInv ==
    /\ status \in [Stages -> Says] /\ shown \subseteq Stages
    /\ \A s \in Stages : s \in shown <=> status[s] = "error"
    /\ \A a \in Actors : Honest(a)
    /\ reports \in Seq(Told)
    /\ \A i \in DOMAIN reports :
           /\ reports[i].due => reports[i].says = "error"
           /\ reports[i].says = "error" => reports[i].stage \in shown

\* The pull is reported by main when it is over, after which nobody prints an error
\* line of it before the next stage but of the report itself.
Early        == {"login", "config", "task", "sync", "decls", "pull"}
PullReported == \E i \in DOMAIN reports : reports[i].stage = "pull"
PullAnswered == \E i \in DOMAIN reports : reports[i].stage = "pull" /\ reports[i].answered

PullInv ==
    /\ PullReported => pc \notin Early /\ (stage = "pull" => access[Main].op \in {"none", "write"})
    /\ PullAnswered /\ stage = "pull" => Free(Main)
    /\ stage = "pull" /\ access[Main].op \in {"read", "send"} => pc # "pull"
    /\ stage = "pull" /\ access[Main].op = "send" /\ "pull" \in shown
          => access[Main].says = "error"
    /\ \A i \in DOMAIN reports :
           reports[i].stage = "pull" /\ reports[i].answered /\ "pull" \in shown
               => reports[i].says = "error"

TaskInv == PlaceInv /\ WorkerInv /\ ClientInv /\ AccessInv /\ StatusInv /\ PullInv

-----------------------------------------------------------------------------
(* Where main is. *)

LEMMA StageNames ==
  /\ Stages = {"", "initializing", "pull", "infrastructure"}
  /\ Before = ""
<1>1. DOMAIN Order = {1, 2, 3} /\ Order[1] = "initializing" /\ Order[2] = "pull"
      /\ Order[3] = "infrastructure"
  BY DEF Order
<1> QED
  BY <1>1 DEF Stages, Before

LEMMA Rounds ==
  /\ \A r \in 0 .. MaxRounds : r < MaxRounds => r + 1 \in 0 .. MaxRounds
  /\ \A r \in 0 .. MaxRounds, k \in 1 .. MaxRounds : k <= r <=> ~(k > r)
  /\ \A r \in 0 .. MaxRounds, k \in 1 .. MaxRounds : k <= r => r > 0
  /\ 0 \in 0 .. MaxRounds /\ ~(0 > 0) /\ \A k \in 1 .. MaxRounds : k > 0
  BY RoundsAssumption

LEMMA NextPlace ==
  ASSUME PlaceInv, [TaskNext]_taskVars
  PROVE  PlaceInv'
<1> USE StageNames, RoundsAssumption DEF PlaceInv, Places, At, Worker, UnchangedMain, ProcessEnds
<1>1. CASE ShouldLogin \/ GetConfig
  BY <1>1 DEF ShouldLogin, GetConfig
<1>2. CASE CreateTask
  BY <1>2 DEF CreateTask
<1>3. CASE CheckConfig \/ PrintError \/ BeginPull \/ ReportPull \/ BeginRules
  BY <1>3 DEF CheckConfig, PrintError, BeginPull, ReportPull, BeginRules
<1>4. CASE OpenFails \/ GetModulesFails \/ RulesEnd \/ ReportRules \/ Upload
  BY <1>4 DEF OpenFails, GetModulesFails, RulesEnd, ReportRules, Upload, FileMap
<1>5. CASE RunRules
  <2>1. round' \in 0 .. MaxRounds
    <3>1. round < MaxRounds /\ round' = round + 1
      BY <1>5 DEF RunRules
    <3> QED
      BY <3>1, Rounds
  <2> QED
    BY <1>5, <2>1 DEF RunRules
<1>6. CASE Unlock \/ Leave \/ ConcurrentMapAccess
  BY <1>6 DEF Unlock, Leave, ConcurrentMapAccess, Panics, Alive
<1>7. ASSUME NEW a \in Actors, SetStatus(a) \/ ReadStatus(a) \/ UploadLogStatus(a)
      PROVE  PlaceInv'
  BY <1>7 DEF SetStatus, ReadStatus, UploadLogStatus
<1>8. ASSUME NEW k \in 1 .. MaxRounds,
             WatchdogFires(k) \/ WatchdogReports(k) \/ WatchdogCancels(k) \/ SendFails(k)
      PROVE  PlaceInv'
  BY <1>8 DEF WatchdogFires, WatchdogReports, WatchdogCancels, SendFails
<1>9. ASSUME NEW w \in Workers, WorkerEnds(w)
      PROVE  PlaceInv'
  BY <1>9 DEF WorkerEnds
<1>10. CASE UNCHANGED taskVars
  BY <1>10 DEF taskVars
<1> QED
  BY <1>1, <1>2, <1>3, <1>4, <1>5, <1>6, <1>7, <1>8, <1>9, <1>10 DEF TaskNext

LEMMA NextWorker ==
  ASSUME PlaceInv, WorkerInv, [TaskNext]_taskVars
  PROVE  WorkerInv'
<1> USE RoundsAssumption DEF WorkerInv, At
<1> DEFINE W == {"off", "on", "cancelled", "fired", "reported", "done"}
<1>1. \A w \in Workers : w[2] \in 1 .. MaxRounds
  BY DEF Workers
<1>2. CASE UNCHANGED <<workers, round>>
  BY <1>2
<1>3. CASE RunRules
  BY <1>1, <1>3 DEF RunRules, PlaceInv
<1>4. CASE RulesEnd
  BY <1>4 DEF RulesEnd, Cancelled
<1>5. CASE Leave \/ ConcurrentMapAccess
  <2>1. round' = round /\ workers' = [w \in Workers |-> IF w[2] <= round THEN "done" ELSE "off"]
    BY <1>5 DEF Leave, ConcurrentMapAccess, ProcessEnds
  <2> QED
    <3>1. \A w \in Workers : w[2] <= round <=> ~(w[2] > round)
      BY <1>1, Rounds DEF PlaceInv
    <3>2. \A w \in Workers : workers'[w] = IF w[2] <= round THEN "done" ELSE "off"
      BY <2>1
    <3> QED
      BY <2>1, <3>1, <3>2
<1>6. ASSUME NEW w \in Workers, NEW from, NEW to \in W \ {"off"}, "off" \notin from,
             Worker(w, from, to), UnchangedMain
      PROVE  WorkerInv'
  BY <1>6 DEF Worker, UnchangedMain
<1>7. ASSUME NEW k \in 1 .. MaxRounds,
             WatchdogFires(k) \/ WatchdogReports(k) \/ SendFails(k)
      PROVE  WorkerInv'
  <2>1. <<"watchdog", k>> \in Workers /\ <<"uploader", k>> \in Workers
    BY DEF Workers
  <2> QED
    BY <1>6, <1>7, <2>1 DEF WatchdogFires, WatchdogReports, SendFails
<1>8. ASSUME NEW k \in 1 .. MaxRounds, WatchdogCancels(k)
      PROVE  WorkerInv'
  <2>1. <<"watchdog", k>> \in Workers
    BY DEF Workers
  <2> QED
    BY <1>8, <2>1 DEF WatchdogCancels, Cancelled, UnchangedMain
<1>9. ASSUME NEW w \in Workers, WorkerEnds(w)
      PROVE  WorkerInv'
  BY <1>6, <1>9 DEF WorkerEnds
<1>10. ASSUME ShouldLogin \/ GetConfig \/ CreateTask \/ CheckConfig \/ PrintError \/ BeginPull
             \/ ReportPull \/ BeginRules \/ OpenFails \/ GetModulesFails \/ ReportRules \/ Upload
             \/ Unlock \/ UNCHANGED taskVars
       PROVE  UNCHANGED <<workers, round>>
  BY <1>10 DEF ShouldLogin, GetConfig, CreateTask, CheckConfig, PrintError, BeginPull, ReportPull,
       BeginRules, OpenFails, GetModulesFails, ReportRules, Upload, Unlock, taskVars
<1>11. ASSUME NEW a \in Actors, SetStatus(a) \/ ReadStatus(a) \/ UploadLogStatus(a)
       PROVE  UNCHANGED <<workers, round>>
  BY <1>11 DEF SetStatus, ReadStatus, UploadLogStatus
<1> QED
  BY <1>2, <1>3, <1>4, <1>5, <1>7, <1>8, <1>9, <1>10, <1>11 DEF TaskNext

-----------------------------------------------------------------------------
(* Who begins to use the map. *)

Reading == [op |-> "read", stage |-> stage, says |-> "", due |-> stage \in shown]

\* A step in which a, which did not use the map, begins to, or does not.
Begins(a) ==
    /\ Free(a)
    /\ access' = [access EXCEPT ![a] = access'[a]]
    /\ access'[a] \in {NoAccess, Writing, Reading}
    /\ access'[a] # NoAccess => client' = "open"
    /\ client = "open" => client' = "open"
    /\ UNCHANGED <<status, shown, reports>>

MainStep ==
    \/ ShouldLogin \/ GetConfig \/ CreateTask \/ CheckConfig \/ PrintError \/ BeginPull
    \/ ReportPull \/ BeginRules \/ OpenFails \/ GetModulesFails \/ RunRules \/ RulesEnd
    \/ ReportRules \/ Upload \/ Unlock

WorkerStep(w) ==
    \/ w[1] = "watchdog" /\ (WatchdogFires(w[2]) \/ WatchdogReports(w[2]) \/ WatchdogCancels(w[2]))
    \/ w[1] = "uploader" /\ SendFails(w[2])
    \/ WorkerEnds(w)

LEMMA LineBegins ==
  ASSUME access \in [Actors -> Access], NEW a \in Actors, Free(a), ErrorLine(a) \/ Report(a),
         UnchangedMap
  PROVE  Begins(a)
  BY DEF ErrorLine, Report, Begins, UnchangedMap, Clients, Reading

LEMMA SilenceBegins ==
  ASSUME access \in [Actors -> Access], NEW a \in Actors, Free(a), UNCHANGED access, UnchangedMap,
         client = "open" => client' = "open"
  PROVE  Begins(a)
  BY DEF Begins, UnchangedMap, Free

LEMMA MainBegins ==
  ASSUME access \in [Actors -> Access], MainStep
  PROVE  Begins(Main)
<1>1. Main \in Actors
  BY DEF Actors
<1>2. Free(Main) /\ UnchangedMap
  BY DEF MainStep, At, ShouldLogin, GetConfig, CreateTask, CheckConfig, PrintError, BeginPull,
         ReportPull, BeginRules, OpenFails, GetModulesFails, RunRules, RulesEnd, ReportRules,
         Upload, Unlock
<1>3. CASE ErrorLine(Main) \/ Report(Main)
  BY <1>1, <1>2, <1>3, LineBegins
<1>4. CASE access' = access /\ (client = "open" => client' = "open")
  BY <1>1, <1>2, <1>4, SilenceBegins
<1>5. CASE ShouldLogin
  <2>1. CASE Welcome /\ UNCHANGED access
    BY <1>4, <2>1 DEF Welcome, Clients
  <2>2. CASE Welcome /\ client' = "open" /\ access' = [access EXCEPT ![Main] = Writing]
    BY <1>1, <1>2, <2>2 DEF Begins, UnchangedMap
  <2> QED
    BY <1>3, <1>4, <1>5, <2>1, <2>2 DEF ShouldLogin, NoLine
<1>6. CASE MainStep /\ ~ShouldLogin
  BY <1>3, <1>4, <1>6
     DEF MainStep, GetConfig, CreateTask, CheckConfig, PrintError, BeginPull, SetTaskID, Clients,
         ReportPull, BeginRules, OpenFails, GetModulesFails, RunRules, RulesEnd, ReportRules,
         Upload, Unlock, NoLine, FileMap
<1> QED
  BY <1>5, <1>6

LEMMA WorkerBegins ==
  ASSUME access \in [Actors -> Access], NEW w \in Workers, WorkerStep(w)
  PROVE  Begins(w)
<1>1. w \in Actors /\ w = <<w[1], w[2]>>
  BY DEF Actors, Workers
<1>2. Free(w) /\ UnchangedMap
  BY <1>1 DEF WorkerStep, WatchdogFires, WatchdogReports, WatchdogCancels, SendFails, WorkerEnds, Worker
<1>3. ErrorLine(w) \/ Report(w) \/ UNCHANGED <<access, client>>
  BY <1>1 DEF WorkerStep, WatchdogFires, WatchdogReports, WatchdogCancels, SendFails, WorkerEnds
<1> QED
  BY <1>1, <1>2, <1>3, LineBegins, SilenceBegins

\* The steps, by what they do to the map and its users.
LEMMA StepKinds ==
  ASSUME [TaskNext]_taskVars
  PROVE  \/ MainStep
         \/ \E w \in Workers : WorkerStep(w)
         \/ \E a \in Actors : SetStatus(a) \/ ReadStatus(a) \/ UploadLogStatus(a)
         \/ Leave \/ ConcurrentMapAccess
         \/ UNCHANGED taskVars
<1>1. ASSUME NEW k \in 1 .. MaxRounds,
             WatchdogFires(k) \/ WatchdogReports(k) \/ WatchdogCancels(k) \/ SendFails(k)
      PROVE  \E w \in Workers : WorkerStep(w)
  <2>1. CASE SendFails(k)
    <3>1. <<"uploader", k>> \in Workers
      BY DEF Workers
    <3> QED
      BY <2>1, <3>1 DEF WorkerStep
  <2>2. CASE ~SendFails(k)
    <3>1. <<"watchdog", k>> \in Workers
      BY DEF Workers
    <3> QED
      BY <1>1, <2>2, <3>1 DEF WorkerStep
  <2> QED
    BY <2>1, <2>2
<1>2. ASSUME NEW w \in Workers, WorkerEnds(w)
      PROVE  \E v \in Workers : WorkerStep(v)
  BY <1>2 DEF WorkerStep
<1> QED
  BY <1>1, <1>2 DEF TaskNext, MainStep

-----------------------------------------------------------------------------
(* The client. *)

\* A message creates the client, if there is none, for the token of the moment.
LEMMA MessageClient ==
  ASSUME ClientInv, client' \in Clients(token)
  PROVE  /\ client' \in {"unset", "none", "failed", "open"}
         /\ client' = "none" => ~token
  BY DEF ClientInv, Clients

\* What a step may do to the client, the token and the task.
ClientStep ==
    /\ client' \in {"unset", "none", "failed", "open"}
    /\ client' = "none" => ~token'
    /\ token' \in BOOLEAN /\ (token => token') /\ project' = project
    /\ setup' \in {"unset", "failed"}
    /\ pc' = "login" => client' = client /\ pc = "login"
    /\ task' = task \/ (task' = [created |-> TRUE, known |-> client' = "open"] /\ token /\ project)

LEMMA ClientOfLogin ==
  ASSUME ClientInv, ShouldLogin
  PROVE  ClientStep
<1>1. token' = token \/ token' = TRUE
  BY DEF ShouldLogin, Welcome
<1>2. client' \in {"unset", "none", "failed", "open"} /\ (client' = "none" => ~token')
  BY DEF ClientInv, ShouldLogin, Welcome, ErrorLine, NoLine, Clients, At
<1>3. UNCHANGED <<project, task, setup>> /\ pc' = "config"
  BY DEF ShouldLogin
<1> QED
  BY <1>1, <1>2, <1>3 DEF ClientStep, ClientInv

LEMMA ClientOfMain ==
  ASSUME ClientInv, MainStep, ~ShouldLogin
  PROVE  ClientStep
<1>1. client' = client \/ client' \in Clients(token)
  BY DEF MainStep, GetConfig, CreateTask, CheckConfig, PrintError, BeginPull, ReportPull, BeginRules,
         OpenFails, GetModulesFails, RunRules, RulesEnd, ReportRules, Upload, Unlock,
         FileMap, NoLine, SetTaskID, ErrorLine, Report
<1>2. UNCHANGED <<token, project>>
  BY DEF MainStep, GetConfig, CreateTask, CheckConfig, PrintError, BeginPull, ReportPull, BeginRules,
         OpenFails, GetModulesFails, RunRules, RulesEnd, ReportRules, Upload, Unlock
<1>3. setup' = setup \/ setup' = "failed"
  BY DEF MainStep, GetConfig, CreateTask, CheckConfig, PrintError, BeginPull, ReportPull, BeginRules,
         OpenFails, GetModulesFails, RunRules, RulesEnd, ReportRules, Upload, Unlock,
         FileMap, TrySetUpStage
<1>4. pc' # "login"
  BY DEF MainStep, GetConfig, CreateTask, CheckConfig, PrintError, BeginPull, ReportPull, BeginRules,
         OpenFails, GetModulesFails, RunRules, RulesEnd, ReportRules, Upload, Unlock,
         FileMap, At, Panics
<1>5. task' = task \/ (task' = [created |-> TRUE, known |-> client' = "open"] /\ token /\ project)
  BY DEF MainStep, GetConfig, CreateTask, CheckConfig, PrintError, BeginPull, ReportPull, BeginRules,
         OpenFails, GetModulesFails, RunRules, RulesEnd, ReportRules, Upload, Unlock, SetTaskID
<1>6. client' \in {"unset", "none", "failed", "open"} /\ (client' = "none" => ~token)
  BY <1>1, MessageClient DEF ClientInv
<1> QED
  BY <1>2, <1>3, <1>4, <1>5, <1>6 DEF ClientStep, ClientInv

LEMMA ClientOfRest ==
  ASSUME PlaceInv, WorkerInv, ClientInv, AccessInv, [TaskNext]_taskVars, ~MainStep
  PROVE  ClientStep
<1>1. ASSUME NEW w \in Workers, WorkerStep(w)
      PROVE  /\ UNCHANGED <<token, project, task, setup, pc>> /\ pc # "login"
             /\ client' = client \/ client' \in Clients(token)
  <2>1. workers[w] # "off" /\ UNCHANGED <<token, project, task, setup, pc>>
    BY <1>1 DEF Workers, WorkerStep, WatchdogFires, WatchdogReports, WatchdogCancels, SendFails,
                WorkerEnds, UnchangedMain, Worker
  <2>2. round > 0
    <3>1. w[2] \in 1 .. MaxRounds /\ round \in 0 .. MaxRounds /\ ~(w[2] > round)
      BY <2>1 DEF WorkerInv, PlaceInv, Workers
    <3> QED
      BY <3>1, Rounds
  <2>3. client' = client \/ client' \in Clients(token)
    BY <1>1 DEF WorkerStep, WatchdogFires, WatchdogReports, WatchdogCancels, SendFails,
                WorkerEnds, ErrorLine, Report
  <2> QED
    BY <2>1, <2>2, <2>3 DEF PlaceInv, Before
<1>2. ASSUME NEW a \in Actors, SetStatus(a) \/ ReadStatus(a) \/ UploadLogStatus(a)
      PROVE  UNCHANGED <<token, project, task, setup, pc, client>>
  <2>1. ~Free(a)
    <3>1. access[a].op # "none"
      BY <1>2 DEF SetStatus, ReadStatus, UploadLogStatus
    <3>2. NoAccess.op = "none"
      BY DEF NoAccess
    <3> QED
      BY <3>1, <3>2 DEF Free
  <2>2. client = "open"
    BY <2>1 DEF AccessInv
  <2> QED
    BY <1>2, <2>2 DEF SetStatus, ReadStatus, UploadLogStatus, ErrorLine, Clients
<1>3. ASSUME Leave \/ ConcurrentMapAccess
      PROVE  UNCHANGED <<token, project, task, setup, client>> /\ pc' # "login"
  BY <1>3 DEF Leave, ConcurrentMapAccess, ProcessEnds, Panics
<1>4. ASSUME UNCHANGED taskVars
      PROVE  UNCHANGED <<token, project, task, setup, pc, client>>
  BY <1>4 DEF taskVars
<1>5. CASE UNCHANGED <<token, project, task, setup, client>> /\ (pc' = pc \/ pc' # "login")
  BY <1>5 DEF ClientStep, ClientInv
<1>6. ASSUME NEW w \in Workers, WorkerStep(w)
      PROVE  ClientStep
  <2>1. client' \in {"unset", "none", "failed", "open"} /\ (client' = "none" => ~token)
    BY <1>1, <1>6, MessageClient DEF ClientInv
  <2> QED
    BY <1>1, <1>6, <2>1 DEF ClientStep, ClientInv
<1> QED
  BY <1>2, <1>3, <1>4, <1>5, <1>6, StepKinds

LEMMA NextClient ==
  ASSUME PlaceInv, WorkerInv, ClientInv, AccessInv, [TaskNext]_taskVars
  PROVE  ClientInv'
<1>1. ClientStep
  BY ClientOfLogin, ClientOfMain, ClientOfRest
<1>2. /\ task' \in [created : BOOLEAN, known : BOOLEAN]
      /\ task'.known => task'.created
      /\ task'.created => token' /\ project'
  <2>1. CASE task' = task
    BY <1>1, <2>1 DEF ClientStep, ClientInv
  <2>2. CASE task' = [created |-> TRUE, known |-> client' = "open"] /\ token /\ project
    BY <1>1, <2>2 DEF ClientStep
  <2> QED
    BY <1>1, <2>1, <2>2 DEF ClientStep
<1> QED
  BY <1>1, <1>2 DEF ClientStep, ClientInv

-----------------------------------------------------------------------------
(* The users of the map and the status. *)

LEMMA AccessTypes ==
  ASSUME stage \in Stages
  PROVE  /\ NoAccess \in Access /\ NoAccess.op = "none" /\ ~NoAccess.due /\ NoAccess.says = ""
         /\ Writing \in Access /\ Writing.stage = stage /\ Writing.op = "write" /\ ~Writing.due
         /\ Writing.says = ""
         /\ Reading \in Access /\ Reading.stage = stage /\ Reading.op = "read"
         /\ Reading.due <=> stage \in shown
         /\ Reading.says = ""
<1>1. Before \in Stages
  BY StageNames
<1>2. NoAccess \in Access /\ NoAccess.op = "none" /\ ~NoAccess.due /\ NoAccess.says = ""
  BY <1>1 DEF NoAccess, Access, Says
<1>3. /\ Writing \in Access /\ Writing.stage = stage /\ Writing.op = "write" /\ ~Writing.due
      /\ Writing.says = ""
  BY <1>1 DEF NoAccess, Writing, Access, Says
<1>4. Reading.stage = stage /\ Reading.op = "read" /\ Reading.says = ""
  BY DEF Reading
<1>5. Reading.due <=> stage \in shown
  BY DEF Reading
<1>6. Reading \in Access
  <2>1. (stage \in shown) \in BOOLEAN
    OBVIOUS
  <2> QED
    BY <2>1 DEF Reading, Access, Says
<1> QED
  BY <1>2, <1>3, <1>4, <1>5, <1>6

LEMMA StaysHonest ==
  ASSUME stage \in Stages, NEW a \in Actors, Honest(a), shown \subseteq shown',
         access'[a] = access[a] \/ access'[a] \in {NoAccess, Writing}
  PROVE  Honest(a)'
  BY AccessTypes DEF Honest

\* main changes the stage only when nobody uses the map.
LEMMA StageChanges ==
  ASSUME PlaceInv, AccessInv, MainStep
  PROVE  /\ stage' = stage \/ (UNCHANGED access /\ \A a \in Actors : Free(a))
         /\ round > 0 => round' > 0
<1>1. stage' = stage \/ (UNCHANGED access /\ pc \in {"task", "decls", "pulled"} /\ Free(Main))
  BY DEF MainStep, ShouldLogin, GetConfig, CreateTask, CheckConfig, PrintError, BeginPull, At,
         ReportPull, BeginRules, OpenFails, GetModulesFails, RunRules, RulesEnd, ReportRules,
         Upload, Unlock, NoLine
<1>2. ASSUME pc \in {"task", "decls", "pulled"}, Free(Main)
      PROVE  \A a \in Actors : Free(a)
  <2>1. ~(round > 0)
    BY <1>2 DEF PlaceInv, Before
  <2> QED
    BY <1>2, <2>1 DEF AccessInv
<1>3. round' = round \/ round' = round + 1
  BY DEF MainStep, ShouldLogin, GetConfig, CreateTask, CheckConfig, PrintError, BeginPull,
         ReportPull, BeginRules, OpenFails, GetModulesFails, RunRules, RulesEnd, ReportRules,
         Upload, Unlock
<1>4. round > 0 => round' > 0
  BY <1>3, RoundsAssumption DEF PlaceInv
<1> QED
  BY <1>1, <1>2, <1>4

LEMMA WorkerRuns ==
  ASSUME PlaceInv, WorkerInv, NEW w \in Workers, WorkerStep(w)
  PROVE  UNCHANGED <<stage, round, pc>> /\ round > 0 /\ Alive
<1>1. workers[w] # "off" /\ UNCHANGED <<stage, round, pc>> /\ Alive
  BY DEF Workers, WorkerStep, WatchdogFires, WatchdogReports, WatchdogCancels, SendFails,
         WorkerEnds, UnchangedMain, Worker
<1>2. w[2] \in 1 .. MaxRounds /\ round \in 0 .. MaxRounds /\ ~(w[2] > round)
  BY <1>1 DEF WorkerInv, PlaceInv, Workers
<1> QED
  BY <1>1, <1>2, Rounds

\* After a step in which a does not use the map, or begins to.
LEMMA BeginsKeeps ==
  ASSUME PlaceInv, AccessInv, StatusInv, NEW a \in Actors, Begins(a),
         stage' = stage \/ (UNCHANGED access /\ \A b \in Actors : Free(b)),
         round > 0 => round' > 0, a = Main \/ round > 0
  PROVE  AccessInv' /\ StatusInv'
<1>1. stage \in Stages
  BY DEF PlaceInv
<1>2. access' \in [Actors -> Access] /\ \A b \in Actors : b # a => access'[b] = access[b]
  <2>1. access'[a] \in Access
    BY <1>1, AccessTypes DEF Begins
  <2> QED
    BY <2>1 DEF Begins, AccessInv
<1>3. AccessInv'
  <2>1. CASE stage' = stage
    <3>1. ASSUME NEW b \in Actors, b # a, ~Free(b)'
          PROVE  client' = "open" /\ access'[b].stage = stage' /\ (b # Main => round' > 0)
      BY <1>2, <2>1, <3>1 DEF AccessInv, Begins, Free
    <3>2. ASSUME ~Free(a)'
          PROVE  client' = "open" /\ access'[a].stage = stage' /\ (a # Main => round' > 0)
      BY <1>1, <2>1, <3>2, AccessTypes DEF Begins, Free
    <3> QED
      BY <1>2, <3>1, <3>2 DEF AccessInv
  <2>2. CASE UNCHANGED access /\ \A b \in Actors : Free(b)
    BY <1>2, <2>2 DEF AccessInv, Free
  <2> QED
    BY <2>1, <2>2
<1>4. StatusInv'
  <2>1. UNCHANGED <<status, shown, reports>>
    BY DEF Begins
  <2>2. /\ access'[a].due => access'[a].stage \in shown
        /\ access'[a].says # "error" /\ access'[a].op # "send"
    BY <1>1, AccessTypes DEF Begins
  <2> QED
    BY <1>2, <2>1, <2>2 DEF StatusInv, Honest
<1> QED
  BY <1>3, <1>4

LEMMA NextStatus ==
  ASSUME PlaceInv, WorkerInv, ClientInv, AccessInv, StatusInv, [TaskNext]_taskVars
  PROVE  AccessInv' /\ StatusInv'
<1>1. stage \in Stages
  BY DEF PlaceInv
<1>2. CASE MainStep
  <2>1. Main \in Actors /\ access \in [Actors -> Access]
    BY DEF Actors, AccessInv
  <2> QED
    BY <1>2, <2>1, MainBegins, StageChanges, BeginsKeeps
<1>3. ASSUME NEW w \in Workers, WorkerStep(w)
      PROVE  AccessInv' /\ StatusInv'
  <2>1. w \in Actors /\ access \in [Actors -> Access]
    BY DEF Actors, AccessInv
  <2>2. Begins(w) /\ UNCHANGED <<stage, round>> /\ round > 0
    BY <1>3, <2>1, WorkerBegins, WorkerRuns
  <2> QED
    BY <2>1, <2>2, BeginsKeeps
<1>4. ASSUME NEW a \in Actors, access[a].op # "none", UNCHANGED <<stage, client, round>>,
             access' = [access EXCEPT ![a] = access'[a]],
             \/ access'[a] \in {NoAccess, Writing}
             \/ access'[a] \in Access /\ access'[a].stage = access[a].stage
      PROVE  AccessInv'
  <2>1. ~Free(a)
    BY <1>1, <1>4, AccessTypes DEF Free
  <2>2. access'[a] \in Access
    BY <1>1, <1>4, AccessTypes
  <2>3. access' \in [Actors -> Access] /\ \A b \in Actors : b # a => access'[b] = access[b]
    BY <1>4, <2>2 DEF AccessInv
  <2>4. access'[a].stage = stage \/ Free(a)'
    BY <1>1, <1>4, <2>1, AccessTypes DEF AccessInv, Free
  <2> QED
    BY <1>4, <2>1, <2>3, <2>4 DEF AccessInv, Free
<1>5. ASSUME NEW a \in Actors, SetStatus(a)
      PROVE  AccessInv' /\ StatusInv'
  <2>1. AccessInv'
    BY <1>4, <1>5 DEF SetStatus, AccessInv
  <2>2. StatusInv'
    <3>1. access[a].stage \in Stages
      BY DEF AccessInv, Access
    <3>2. /\ status' = [status EXCEPT ![access[a].stage] = "error"]
          /\ shown' = shown \cup {access[a].stage} /\ UNCHANGED reports
          /\ access' = [access EXCEPT ![a] = NoAccess]
      BY <1>5 DEF SetStatus, Key
    <3>3. \A b \in Actors : access'[b] = access[b] \/ access'[b] = NoAccess
      BY <3>2 DEF AccessInv
    <3>4. status' \in [Stages -> Says] /\ shown' \subseteq Stages
          /\ \A s \in Stages : s \in shown' <=> status'[s] = "error"
      BY <3>1, <3>2 DEF StatusInv, Says
    <3> QED
      BY <1>1, <3>2, <3>3, <3>4, StaysHonest DEF StatusInv
  <2> QED
    BY <2>1, <2>2
<1>6. ASSUME NEW a \in Actors, ReadStatus(a)
      PROVE  AccessInv' /\ StatusInv'
  <2> DEFINE s == access[a].stage
  <2>1. /\ access[a] \in Access /\ s \in Stages /\ status[s] \in Says
        /\ access[a].due => status[s] = "error"
        /\ status[s] = "error" => s \in shown
    BY DEF AccessInv, Access, StatusInv, Honest
  <2>2. /\ access' = [access EXCEPT ![a] = [access[a] EXCEPT !.op = "send", !.says = status[s]]]
        /\ UNCHANGED <<status, shown, reports, stage, client, round>> /\ access[a].op = "read"
    BY <1>6 DEF ReadStatus, Key, AccessInv
  <2>3. /\ access'[a] = [access[a] EXCEPT !.op = "send", !.says = status[s]]
        /\ \A b \in Actors : b # a => access'[b] = access[b]
    BY <2>2 DEF AccessInv
  <2>4. /\ access'[a] \in Access /\ access'[a].stage = s /\ access'[a].due = access[a].due
        /\ access'[a].says = status[s]
    BY <2>1, <2>3 DEF Access
  <2>5. AccessInv'
    BY <1>4, <2>2, <2>3, <2>4
  <2>6. StatusInv'
    <3>1. Honest(a)'
      BY <2>1, <2>2, <2>4 DEF StatusInv, Honest
    <3>2. \A b \in Actors : b # a => Honest(b)'
      BY <2>2, <2>3 DEF StatusInv, Honest
    <3> QED
      BY <2>2, <3>1, <3>2 DEF StatusInv
  <2> QED
    BY <2>5, <2>6
<1>7. ASSUME NEW a \in Actors, UploadLogStatus(a)
      PROVE  AccessInv' /\ StatusInv'
  <2>1. access[a].op = "send" /\ access[a] \in Access
    BY <1>7 DEF UploadLogStatus, AccessInv
  <2>2. client = "open"
    BY <1>1, <2>1, AccessTypes DEF AccessInv, Free
  <2>3. /\ access' = [access EXCEPT ![a] = access'[a]] /\ access'[a] \in {NoAccess, Writing}
        /\ UNCHANGED <<stage, client, round, status, shown>>
    BY <1>7, <2>2 DEF UploadLogStatus, ErrorLine, Clients, AccessInv
  <2>4. AccessInv'
    BY <1>4, <2>1, <2>3
  <2>5. \A b \in Actors : access'[b] = access[b] \/ access'[b] \in {NoAccess, Writing}
    BY <2>3 DEF AccessInv
  <2>6. \A b \in Actors : Honest(b)'
    BY <1>1, <2>3, <2>5, StaysHonest DEF StatusInv
  <2>7. UNCHANGED <<status, shown>>
    BY <2>3
  <2>8. CASE UNCHANGED reports
    BY <2>4, <2>8, <2>6, <2>7 DEF StatusInv
  <2>9. ASSUME NEW answered \in BOOLEAN, reports' = Append(reports, Sent(a, answered))
        PROVE  AccessInv' /\ StatusInv'
    <3> DEFINE r == Sent(a, answered)
    <3>1. /\ r \in Told /\ (r.due => r.says = "error")
          /\ r.says = "error" => r.stage \in shown
      BY <2>1 DEF Sent, Told, Access, StatusInv, Honest, ClientInv
    <3>2. reports \in Seq(Told) /\ reports' = Append(reports, r)
      BY <2>9 DEF StatusInv
    <3>3. /\ reports' \in Seq(Told)
          /\ \A i \in DOMAIN reports' : reports'[i] = r \/ (i \in DOMAIN reports /\ reports'[i] = reports[i])
      <4> HIDE DEF r
      <4> QED
        BY <3>1, <3>2
    <3>4. \A i \in DOMAIN reports' :
              /\ reports'[i].due => reports'[i].says = "error"
              /\ reports'[i].says = "error" => reports'[i].stage \in shown
      <4> HIDE DEF r
      <4> QED
        BY <3>1, <3>3 DEF StatusInv
    <3> QED
      BY <2>4, <2>6, <2>7, <3>3, <3>4 DEF StatusInv
  <2> QED
    BY <1>7, <2>8, <2>9 DEF UploadLogStatus
<1>8. CASE Leave \/ ConcurrentMapAccess
  <2>1. UNCHANGED <<status, shown, reports>> /\ access' = [a \in Actors |-> NoAccess]
    BY <1>8 DEF Leave, ConcurrentMapAccess, ProcessEnds, UnchangedMap
  <2> QED
    BY <1>1, <2>1, AccessTypes DEF AccessInv, StatusInv, Free, Honest
<1>9. CASE UNCHANGED taskVars
  BY <1>9 DEF taskVars, AccessInv, StatusInv, Free, Honest
<1> QED
  BY <1>2, <1>3, <1>5, <1>6, <1>7, <1>8, <1>9, StepKinds

-----------------------------------------------------------------------------
(* The report of the pull. *)

\* main does not go back, and while it is in the pull it prints error lines before
\* its report and none after it.
LEMMA MainInPull ==
  ASSUME PlaceInv, AccessInv, MainStep
  PROVE  /\ pc \notin Early => pc' \notin Early
         /\ Free(Main)
         /\ stage' = "pull" =>
               \/ UNCHANGED access
               \/ stage = "pull" /\ pc = "pull" /\ access' = [access EXCEPT ![Main] = access'[Main]]
                  /\ (pc' # "pull" \/ access'[Main] \in {NoAccess, Writing})
<1> USE StageNames DEF At
<1>1. Free(Main)
  BY DEF MainStep, ShouldLogin, GetConfig, CreateTask, CheckConfig, PrintError, BeginPull,
         ReportPull, BeginRules, OpenFails, GetModulesFails, RunRules, RulesEnd, ReportRules,
         Upload, Unlock
<1>2. pc \notin Early => pc' \notin Early
  BY DEF MainStep, ShouldLogin, GetConfig, CreateTask, CheckConfig, PrintError, BeginPull,
         ReportPull, BeginRules, OpenFails, GetModulesFails, RunRules, RulesEnd, ReportRules,
         Upload, Unlock, FileMap, Early, Panics
<1>3. stage' = "pull" => BeginPull \/ (stage = "pull" /\ (PrintError \/ ReportPull))
  BY DEF MainStep, ShouldLogin, GetConfig, CreateTask, CheckConfig, PrintError, BeginPull,
         ReportPull, BeginRules, OpenFails, GetModulesFails, RunRules, RulesEnd, ReportRules,
         Upload, Unlock, PlaceInv, Panics
<1>4. ASSUME stage = "pull", PrintError \/ ReportPull
      PROVE  /\ pc = "pull" /\ access' = [access EXCEPT ![Main] = access'[Main]]
             /\ pc' # "pull" \/ access'[Main] \in {NoAccess, Writing}
  <2>1. access \in [Actors -> Access] /\ Main \in Actors
    BY DEF AccessInv, Actors
  <2>2. CASE PrintError
    <3>1. pc = "pull"
      BY <1>4, <2>2 DEF PrintError, PlaceInv
    <3> QED
      BY <2>1, <2>2, <3>1 DEF PrintError, ErrorLine
  <2>3. CASE ReportPull
    BY <2>1, <2>3 DEF ReportPull, Report
  <2> QED
    BY <1>4, <2>2, <2>3
<1> QED
  BY <1>1, <1>2, <1>3, <1>4 DEF BeginPull

\* Who uses the map in the pull is main.
LEMMA MainPulls ==
  ASSUME PlaceInv, AccessInv, NEW a \in Actors, access[a].op # "none", access[a].stage = "pull"
  PROVE  a = Main /\ stage = "pull" /\ ~Free(Main)
<1>1. ~Free(a)
  BY AccessTypes DEF Free, PlaceInv
<1>2. stage = "pull" /\ (a # Main => round > 0)
  BY <1>1 DEF AccessInv
<1> QED
  BY <1>1, <1>2 DEF PlaceInv

LEMMA NextPull ==
  ASSUME TaskInv, [TaskNext]_taskVars
  PROVE  PullInv'
<1> USE DEF TaskInv
<1>1. Main \in Actors /\ access \in [Actors -> Access] /\ stage \in Stages
  BY DEF Actors, AccessInv, PlaceInv
<1>2. CASE MainStep
  <2>1. /\ access'[Main] \in {NoAccess, Writing, Reading}
        /\ UNCHANGED <<status, shown, reports>>
    BY <1>1, <1>2, MainBegins DEF Begins
  <2>2. access'[Main].op # "send"
    BY <1>1, <2>1, AccessTypes
  <2>3. Free(Main) => access[Main].op = "none"
    BY <1>1, AccessTypes DEF Free
  <2>4. PullReported' => pc' \notin Early /\ (stage' = "pull" => Free(Main)')
    BY <1>2, <2>1, MainInPull DEF PullInv, PullReported, Early, Free
  <2>6. Free(Main)' => access'[Main].op = "none"
    BY <1>1, <2>1, AccessTypes DEF Free
  <2>7. PullAnswered' => PullReported'
    BY DEF PullAnswered, PullReported
  <2>5. stage' = "pull" /\ access'[Main].op \in {"read", "send"} => pc' # "pull"
    BY <1>1, <1>2, <2>1, <2>3, MainInPull, AccessTypes
  <2> QED
    BY <2>1, <2>2, <2>4, <2>5, <2>6, <2>7 DEF PullInv
<1>3. ASSUME stage # "pull", stage' = stage, UNCHANGED pc,
             PullReported' => PullReported
      PROVE  /\ PullReported' => /\ pc' \notin Early
                                 /\ stage' = "pull" => access'[Main].op \in {"none", "write"}
             /\ PullAnswered' /\ stage' = "pull" => Free(Main)'
             /\ stage' = "pull" /\ access'[Main].op \in {"read", "send"} => pc' # "pull"
             /\ stage' = "pull" /\ access'[Main].op = "send" /\ "pull" \in shown'
                   => access'[Main].says = "error"
  BY <1>3 DEF PullInv
<1>4. ASSUME NEW w \in Workers, WorkerStep(w)
      PROVE  PullInv'
  <2>1. UNCHANGED <<stage, round, pc, shown, reports>> /\ round > 0
    BY <1>1, <1>4, WorkerBegins, WorkerRuns DEF Begins, Actors
  <2>2. stage # "pull"
    BY <2>1 DEF PlaceInv
  <2>3. PullReported' => PullReported
    BY <2>1 DEF PullReported
  <2> QED
    BY <1>3, <2>1, <2>2, <2>3 DEF PullInv
<1>5. ASSUME NEW a \in Actors, SetStatus(a)
      PROVE  PullInv'
  <2>1. /\ UNCHANGED <<stage, pc, reports>> /\ access[a].op = "write"
        /\ shown' = shown \cup {access[a].stage}
        /\ access' = [access EXCEPT ![a] = NoAccess]
    BY <1>5 DEF SetStatus
  <2>2. (PullReported' <=> PullReported) /\ (PullAnswered' <=> PullAnswered)
    BY <2>1 DEF PullReported, PullAnswered
  <2>3. CASE access[a].stage = "pull"
    <3>1. a = Main /\ stage = "pull" /\ ~Free(Main)
      BY <2>1, <2>3, MainPulls
    <3>2. ~PullAnswered
      BY <3>1 DEF PullInv
    <3>3. access'[Main] = NoAccess
      BY <1>1, <2>1, <3>1
    <3> QED
      BY <1>1, <2>1, <2>2, <3>2, <3>3, AccessTypes DEF PullInv, PullAnswered
  <2>4. CASE access[a].stage # "pull"
    <3>1. "pull" \in shown' <=> "pull" \in shown
      BY <2>1, <2>4
    <3>2. access'[Main] = access[Main] \/ access'[Main] = NoAccess
      BY <1>1, <2>1
    <3> QED
      BY <1>1, <2>1, <2>2, <3>1, <3>2, AccessTypes DEF PullInv, Free
  <2> QED
    BY <2>3, <2>4
<1>6. ASSUME NEW a \in Actors, ReadStatus(a)
      PROVE  PullInv'
  <2>1. /\ UNCHANGED <<stage, pc, shown, reports>> /\ access[a].op = "read"
        /\ access' = [access EXCEPT ![a] = [access[a] EXCEPT !.op = "send",
                                                             !.says = status[access[a].stage]]]
    BY <1>1, <1>6 DEF ReadStatus, Key
  <2>2. (PullReported' <=> PullReported) /\ (PullAnswered' <=> PullAnswered)
    BY <2>1 DEF PullReported, PullAnswered
  <2>3. CASE stage = "pull"
    <3>1. ~Free(a) /\ access[a].stage = "pull"
      BY <1>1, <2>1, <2>3, AccessTypes DEF AccessInv, Free
    <3>2. a = Main /\ ~Free(Main)
      BY <2>1, <3>1, MainPulls
    <3>3. ~PullReported /\ ~PullAnswered
      BY <2>1, <2>3, <3>2 DEF PullInv, PullReported, PullAnswered
    <3>4. pc # "pull"
      BY <2>1, <2>3, <3>2 DEF PullInv
    <3>5. "pull" \in shown => access'[Main].says = "error"
      <4>1. status["pull"] = "error" <=> "pull" \in shown
        BY StageNames DEF StatusInv
      <4>2. access'[Main].says = status["pull"]
        BY <1>1, <2>1, <3>1, <3>2 DEF Access
      <4> QED
        BY <4>1, <4>2
    <3> QED
      BY <2>1, <2>2, <3>3, <3>4, <3>5 DEF PullInv
  <2>4. CASE stage # "pull"
    BY <1>3, <2>1, <2>2, <2>4 DEF PullInv
  <2> QED
    BY <2>3, <2>4
<1>7. ASSUME NEW a \in Actors, UploadLogStatus(a)
      PROVE  PullInv'
  <2>0. PICK answered \in BOOLEAN :
           \/ UNCHANGED reports
           \/ /\ reports' = Append(reports, Sent(a, answered))
              /\ answered => access' = [access EXCEPT ![a] = NoAccess]
    BY <1>7 DEF UploadLogStatus
  <2> DEFINE r == Sent(a, answered)
  <2>1. UNCHANGED <<stage, pc, shown>> /\ access[a].op = "send" /\ access[a] \in Access
        /\ Alive
    BY <1>1, <1>7 DEF UploadLogStatus
  <2>2. access[a].stage = stage
    BY <1>1, <2>1, AccessTypes DEF AccessInv, Free
  <2>3. UNCHANGED reports \/ (reports' = Append(reports, r) /\ (answered => access'[a] = NoAccess))
    BY <1>1, <2>0
  <2>4. access'[a] \in {NoAccess, Writing}
    BY <1>1, <1>7 DEF UploadLogStatus, ErrorLine
  <2>5. r.stage = stage /\ r.says = access[a].says /\ r.answered = answered
    BY <2>2 DEF Sent
  <2>6. \A i \in DOMAIN reports' : (i \in DOMAIN reports /\ reports'[i] = reports[i])
           \/ (reports'[i] = r /\ (answered => access'[a] = NoAccess))
    <3>1. reports \in Seq(Told)
      BY DEF StatusInv
    <3> HIDE DEF r
    <3> QED
      BY <2>3, <3>1
  <2>7. CASE stage = "pull"
    <3>1. a = Main /\ ~Free(Main)
      BY <2>1, <2>2, <2>7, MainPulls
    <3>2. ~PullReported
      BY <2>1, <2>7, <3>1 DEF PullInv
    <3>3. pc = "pulled"
      BY <2>1, <2>7, <3>1 DEF PullInv, PlaceInv, Alive
    <3>4. "pull" \in shown => access[Main].says = "error"
      BY <2>1, <2>7, <3>1 DEF PullInv
    <3>5. access'[Main].op \in {"none", "write"}
      BY <1>1, <2>4, <3>1, AccessTypes
    <3>6. PullAnswered' => access'[Main] = NoAccess
      <4> HIDE DEF r
      <4> QED
        BY <2>5, <2>6, <3>1, <3>2 DEF PullReported, PullAnswered
    <3>7. \A i \in DOMAIN reports' :
             reports'[i].stage = "pull" /\ reports'[i].answered /\ "pull" \in shown'
                 => reports'[i].says = "error"
      <4> HIDE DEF r
      <4> QED
        BY <2>1, <2>5, <2>6, <3>1, <3>4 DEF PullInv
    <3> QED
      BY <2>1, <3>3, <3>5, <3>6, <3>7 DEF PullInv, Early, Free
  <2>8. CASE stage # "pull"
    <3> HIDE DEF r
    <3>1. PullReported' => PullReported
      BY <2>5, <2>6, <2>8 DEF PullReported
    <3>2. \A i \in DOMAIN reports' :
             reports'[i].stage = "pull" /\ reports'[i].answered /\ "pull" \in shown'
                 => reports'[i].says = "error"
      BY <2>1, <2>5, <2>6, <2>8 DEF PullInv
    <3> QED
      BY <1>3, <2>1, <2>8, <3>1, <3>2 DEF PullInv
  <2> QED
    BY <2>7, <2>8
<1>8. CASE Leave \/ ConcurrentMapAccess
  <2>1. UNCHANGED <<shown, reports>> /\ access' = [a \in Actors |-> NoAccess] /\ pc' \notin Early
    BY <1>8 DEF Leave, ConcurrentMapAccess, ProcessEnds, UnchangedMap, Early, Panics
  <2>2. access'[Main] = NoAccess /\ access'[Main].op = "none"
    BY <1>1, <2>1, AccessTypes
  <2> QED
    BY <2>1, <2>2 DEF PullInv, PullReported, PullAnswered, Free
<1>9. CASE UNCHANGED taskVars
  BY <1>9 DEF taskVars, PullInv, PullReported, PullAnswered, Free
<1> QED
  BY <1>2, <1>4, <1>5, <1>6, <1>7, <1>8, <1>9, StepKinds

-----------------------------------------------------------------------------
(* The order of the reports. *)

\* Where main is before it reports the stage, and before there can be a task.
Untold   == {"login", "config", "task", "sync", "pull", "loop", "rules"}
Taskless == {"login", "config", "task"}

\* A stage of which the cloud has a report of main.
MainTold(s) == \E i \in DOMAIN reports : reports[i].by = Main /\ reports[i].stage = s

OrderInv ==
    /\ ReportsFollowTask
    /\ \A i \in DOMAIN reports :
           reports[i].by = Main => /\ stage # Before /\ reports[i].stage # Before
                                   /\ Place(reports[i].stage) <= Place(stage)
    /\ pc \in Untold => ~MainTold(stage)
    /\ access[Main].op \in {"read", "send"} => pc \notin Untold /\ stage # Before /\ ~MainTold(stage)
    /\ pc \in Taskless => reports = <<>>
    /\ task.created => client # "unset" /\ (client = "open" => task.known)

LEMMA NoReports == <<>> \in Seq(Told) /\ DOMAIN <<>> = {}
<1>1. <<>> \in Seq(Told)
  OBVIOUS
<1>2. DOMAIN <<>> = {}
  OBVIOUS
<1> QED
  BY <1>1, <1>2

LEMMA PlaceValues ==
  /\ Place("initializing") = 1 /\ Place("pull") = 2 /\ Place("infrastructure") = 3
  /\ \A s \in Stages \ {Before} : Place(s) \in {1, 2, 3}
  /\ \A s, t \in Stages \ {Before} : s # t /\ Place(s) <= Place(t) => Place(s) < Place(t)
  /\ 1 < 2 /\ 2 < 3
<1>1. DOMAIN Order = {1, 2, 3} /\ Order[1] = "initializing" /\ Order[2] = "pull"
      /\ Order[3] = "infrastructure"
  BY DEF Order
<1>2. Place("initializing") = 1
  BY <1>1 DEF Place
<1>3. Place("pull") = 2
  BY <1>1 DEF Place
<1>4. Place("infrastructure") = 3
  BY <1>1 DEF Place
<1>5. \A s \in Stages \ {Before} : s \in {"initializing", "pull", "infrastructure"}
  BY StageNames
<1>6. \A s, t \in Stages \ {Before} : s # t /\ Place(s) <= Place(t) => Place(s) < Place(t)
  BY <1>2, <1>3, <1>4, <1>5
<1> QED
  BY <1>2, <1>3, <1>4, <1>5, <1>6

\* The client is created once.
LEMMA ClientOnce ==
  ASSUME client # "unset", [TaskNext]_taskVars
  PROVE  client' = client
<1>1. \A t : Clients(t) = {client}
  BY DEF Clients
<1>2. CASE MainStep
  BY <1>1, <1>2 DEF MainStep, ShouldLogin, GetConfig, CreateTask, CheckConfig, PrintError, BeginPull,
         ReportPull, BeginRules, OpenFails, GetModulesFails, RunRules, RulesEnd, ReportRules, Upload,
         Unlock, FileMap, NoLine, SetTaskID, ErrorLine, Report, Welcome
<1>3. ASSUME NEW w \in Workers, WorkerStep(w)
      PROVE  client' = client
  BY <1>1, <1>3 DEF WorkerStep, WatchdogFires, WatchdogReports, WatchdogCancels, SendFails,
                WorkerEnds, ErrorLine, Report
<1>4. ASSUME NEW a \in Actors, SetStatus(a) \/ ReadStatus(a) \/ UploadLogStatus(a)
      PROVE  client' = client
  BY <1>1, <1>4 DEF SetStatus, ReadStatus, UploadLogStatus, ErrorLine
<1>5. CASE Leave \/ ConcurrentMapAccess \/ UNCHANGED taskVars
  BY <1>5 DEF Leave, ConcurrentMapAccess, taskVars
<1> QED
  BY <1>2, <1>3, <1>4, <1>5, StepKinds

\* main reports a stage when it leaves the places before that, and goes to the next
\* stage only; the task is created before the first report.
LEMMA MainTells ==
  ASSUME PlaceInv, AccessInv, MainStep
  PROVE  /\ access'[Main].op \in {"read", "send"} =>
               stage' = stage /\ pc \in Untold \ Taskless /\ pc' \notin Untold
         /\ pc' \in Untold /\ stage' = stage => pc \in Untold
         /\ pc' \in Taskless => pc \in Taskless
         /\ stage' # stage => /\ stage' # Before /\ UNCHANGED access /\ Free(Main)
                              /\ stage = Before \/ Place(stage) < Place(stage')
         /\ task' = task \/ (/\ task' = [created |-> TRUE, known |-> client' = "open"]
                             /\ pc = "task" /\ client' \in Clients(token))
<1> USE StageNames DEF At
<1>1. Free(Main) /\ access \in [Actors -> Access] /\ Main \in Actors /\ access[Main] = NoAccess
  BY DEF MainStep, ShouldLogin, GetConfig, CreateTask, CheckConfig, PrintError, BeginPull,
         ReportPull, BeginRules, OpenFails, GetModulesFails, RunRules, RulesEnd, ReportRules,
         Upload, Unlock, AccessInv, Actors, Free
<1>2. ASSUME access'[Main].op \in {"read", "send"}
      PROVE  stage' = stage /\ pc \in Untold \ Taskless /\ pc' \notin Untold
  <2>1. ~ErrorLine(Main) /\ access' # access /\ access' # [access EXCEPT ![Main] = Writing]
    BY <1>1, <1>2, AccessTypes DEF ErrorLine, PlaceInv
  <2>2. (CheckConfig \/ ReportPull \/ ReportRules) /\ Report(Main)
    BY <2>1 DEF MainStep, ShouldLogin, GetConfig, CreateTask, CheckConfig, PrintError, BeginPull,
         ReportPull, BeginRules, OpenFails, GetModulesFails, RunRules, RulesEnd, ReportRules,
         Upload, Unlock, NoLine, FileMap
  <2> QED
    BY <2>1, <2>2 DEF CheckConfig, ReportPull, ReportRules, Untold, Taskless
<1>3. (pc' \in Untold /\ stage' = stage => pc \in Untold) /\ (pc' \in Taskless => pc \in Taskless)
  BY DEF MainStep, ShouldLogin, GetConfig, CreateTask, CheckConfig, PrintError, BeginPull,
         ReportPull, BeginRules, OpenFails, GetModulesFails, RunRules, RulesEnd, ReportRules,
         Upload, Unlock, FileMap, Untold, Taskless, Panics, PlaceInv
<1>4. ASSUME stage' # stage
      PROVE  /\ stage' # Before /\ UNCHANGED access /\ Free(Main)
             /\ stage = Before \/ Place(stage) < Place(stage')
  <2>1. /\ stage' # Before /\ UNCHANGED access
        /\ \/ stage = Before
           \/ stage = "initializing" /\ stage' = "pull"
           \/ stage = "pull" /\ stage' = "infrastructure"
    BY <1>4 DEF MainStep, ShouldLogin, GetConfig, CreateTask, CheckConfig, PrintError, BeginPull,
         ReportPull, BeginRules, OpenFails, GetModulesFails, RunRules, RulesEnd, ReportRules,
         Upload, Unlock, PlaceInv
  <2>2. stage = Before \/ Place(stage) < Place(stage')
    BY <2>1, PlaceValues
  <2> QED
    BY <1>1, <2>1, <2>2
<1>5. task' = task \/ (/\ task' = [created |-> TRUE, known |-> client' = "open"]
                       /\ pc = "task" /\ client' \in Clients(token))
  BY DEF MainStep, ShouldLogin, GetConfig, CreateTask, CheckConfig, PrintError, BeginPull,
         ReportPull, BeginRules, OpenFails, GetModulesFails, RunRules, RulesEnd, ReportRules,
         Upload, Unlock, SetTaskID
<1> QED
  BY <1>2, <1>3, <1>4, <1>5

\* A step that reports nothing, and in which main begins no report, keeps the order.
LEMMA SilenceKeepsOrder ==
  ASSUME TaskInv, OrderInv, [TaskNext]_taskVars, UNCHANGED <<stage, task, reports>>,
         pc' \in Untold => pc \in Untold, pc' \in Taskless => pc \in Taskless,
         access'[Main].op \in {"read", "send"} => access[Main].op \in {"read", "send"} /\ pc' = pc
  PROVE  OrderInv'
<1>1. MainTold(stage)' <=> MainTold(stage)
  BY DEF MainTold
<1>2. task.created => client' = client
  BY ClientOnce DEF OrderInv
<1> QED
  BY <1>1, <1>2 DEF OrderInv, ReportsFollowTask

LEMMA NextOrder ==
  ASSUME TaskInv, OrderInv, [TaskNext]_taskVars
  PROVE  OrderInv'
<1> USE DEF TaskInv
<1>1. /\ Main \in Actors /\ access \in [Actors -> Access] /\ stage \in Stages
      /\ reports \in Seq(Told)
  BY DEF Actors, AccessInv, PlaceInv, StatusInv
<1>2. CASE MainStep
  <2>1. UNCHANGED reports
    BY <1>1, <1>2, MainBegins DEF Begins
  <2>2. /\ access'[Main].op \in {"read", "send"} =>
               stage' = stage /\ pc \in Untold \ Taskless /\ pc' \notin Untold
        /\ pc' \in Untold /\ stage' = stage => pc \in Untold
        /\ pc' \in Taskless => pc \in Taskless
        /\ stage' # stage => /\ stage' # Before /\ UNCHANGED access /\ Free(Main)
                             /\ stage = Before \/ Place(stage) < Place(stage')
    BY <1>2, MainTells
  <2>3. task'.created => client' # "unset" /\ (client' = "open" => task'.known)
    <3>1. CASE task' = task
      BY <3>1, ClientOnce DEF OrderInv
    <3>2. CASE task' = [created |-> TRUE, known |-> client' = "open"] /\ client' \in Clients(token)
      BY <3>2 DEF Clients
    <3> QED
      BY <1>2, <3>1, <3>2, MainTells
  <2>4. ReportsFollowTask'
    <3>1. CASE task' = task
      BY <2>1, <3>1 DEF OrderInv, ReportsFollowTask
    <3>2. CASE pc = "task"
      <4>1. reports = <<>>
        BY <3>2 DEF OrderInv, Taskless
      <4>2. DOMAIN reports' = {}
        BY <2>1, <4>1, NoReports
      <4> QED
        BY <4>2 DEF ReportsFollowTask
    <3> QED
      BY <1>2, <3>1, <3>2, MainTells
  <2>5. \A i \in DOMAIN reports : reports[i].by = Main =>
          /\ stage' # Before /\ reports[i].stage # Before
          /\ Place(reports[i].stage) <= Place(stage')
          /\ stage' # stage => reports[i].stage # stage'
    <3> SUFFICES ASSUME NEW i \in DOMAIN reports, reports[i].by = Main
                 PROVE  /\ stage' # Before /\ reports[i].stage # Before
                        /\ Place(reports[i].stage) <= Place(stage')
                        /\ stage' # stage => reports[i].stage # stage'
      OBVIOUS
    <3>1. /\ stage # Before /\ reports[i].stage # Before
          /\ Place(reports[i].stage) <= Place(stage)
      BY DEF OrderInv
    <3>2. Place(reports[i].stage) \in {1, 2, 3} /\ Place(stage) \in {1, 2, 3}
      <4>1. reports[i] \in Told
        BY <1>1
      <4> QED
        BY <1>1, <3>1, <4>1, PlaceValues DEF Told
    <3>3. stage' \in Stages
      BY NextPlace DEF PlaceInv
    <3>4. CASE stage' # stage
      <4>1. Place(stage) < Place(stage') /\ Place(stage') \in {1, 2, 3}
        BY <2>2, <3>1, <3>3, <3>4, PlaceValues
      <4>2. Place(reports[i].stage) < Place(stage')
        BY <3>1, <3>2, <4>1
      <4> QED
        BY <2>2, <3>1, <3>2, <3>4, <4>1, <4>2
    <3> QED
      BY <3>1, <3>4
  <2>6. MainTold(stage)' => stage' = stage /\ MainTold(stage)
    BY <2>1, <2>5 DEF MainTold
  <2>7. access'[Main].op \in {"read", "send"} => pc' \notin Untold /\ stage' # Before
    <3>1. pc \in Untold \ Taskless => stage # Before
      BY StageNames DEF Untold, Taskless, PlaceInv
    <3> QED
      BY <2>2, <3>1
  <2> QED
    BY <2>1, <2>2, <2>3, <2>4, <2>5, <2>6, <2>7 DEF OrderInv
<1>3. ASSUME NEW w \in Workers, WorkerStep(w)
      PROVE  OrderInv'
  <2>1. w \in Actors /\ w # Main
    BY DEF Actors, Workers, Main
  <2>2. UNCHANGED <<stage, pc, reports>> /\ access'[Main] = access[Main]
    BY <1>1, <1>3, <2>1, WorkerBegins, WorkerRuns DEF Begins
  <2>3. UNCHANGED task
    BY <1>3 DEF WorkerStep, WatchdogFires, WatchdogReports, WatchdogCancels, SendFails, WorkerEnds,
         UnchangedMain
  <2> QED
    BY <2>2, <2>3, SilenceKeepsOrder
<1>4. ASSUME NEW a \in Actors, SetStatus(a) \/ ReadStatus(a)
      PROVE  OrderInv'
  <2>1. UNCHANGED <<stage, task, reports, pc>>
    BY <1>4 DEF SetStatus, ReadStatus
  <2>2. access'[Main].op \in {"read", "send"} => access[Main].op \in {"read", "send"}
    <3>1. CASE a = Main
      BY <1>1, <1>4, <3>1, AccessTypes DEF SetStatus, ReadStatus
    <3>2. CASE a # Main
      BY <1>1, <1>4, <3>2 DEF SetStatus, ReadStatus
    <3> QED
      BY <3>1, <3>2
  <2> QED
    BY <2>1, <2>2, SilenceKeepsOrder
<1>5. ASSUME NEW a \in Actors, UploadLogStatus(a)
      PROVE  OrderInv'
  <2>0. PICK answered \in BOOLEAN :
           UNCHANGED reports \/ reports' = Append(reports, Sent(a, answered))
    BY <1>5 DEF UploadLogStatus
  <2> DEFINE r == Sent(a, answered)
  <2>1. /\ UNCHANGED <<stage, pc, task>> /\ access[a].op = "send" /\ access[a] \in Access
        /\ UNCHANGED reports \/ reports' = Append(reports, r)
    BY <1>1, <1>5, <2>0 DEF UploadLogStatus
  <2>2. /\ access[a].stage = stage /\ client = "open"
        /\ a # Main => stage = "infrastructure" /\ pc \notin Taskless
    BY <1>1, <2>1, AccessTypes, StageNames DEF AccessInv, Free, PlaceInv, Taskless
  <2>3. access'[a] \in {NoAccess, Writing} /\ \A b \in Actors : b # a => access'[b] = access[b]
    BY <1>1, <1>5 DEF UploadLogStatus, ErrorLine
  <2>4. access'[Main].op \in {"read", "send"} => a # Main /\ access[Main].op \in {"read", "send"}
    BY <1>1, <2>3, AccessTypes
  <2>5. CASE UNCHANGED reports
    BY <2>1, <2>4, <2>5, SilenceKeepsOrder
  <2>6. CASE reports' = Append(reports, r)
    <3>1. /\ r.stage = stage /\ r.by = a /\ r.task = task.known
          /\ task.created => r.task
      BY <2>2 DEF OrderInv, Sent
    <3>2. a = Main => pc \notin Untold /\ stage # Before /\ ~MainTold(stage)
      BY <2>1 DEF OrderInv
    <3> HIDE DEF r
    <3>3. /\ Len(reports) \in Nat /\ DOMAIN reports = 1 .. Len(reports)
          /\ DOMAIN reports' = 1 .. Len(reports) + 1 /\ reports'[Len(reports) + 1] = r
          /\ \A i \in DOMAIN reports : reports'[i] = reports[i]
      BY <1>1, <2>6
    <3>4. \A i \in DOMAIN reports' : i \in DOMAIN reports \/ i = Len(reports) + 1
      BY <3>3
    <3>5. ASSUME NEW i \in DOMAIN reports', NEW j \in DOMAIN reports', i < j,
                 reports'[i].by = Main, reports'[j].by = Main
          PROVE  Place(reports'[i].stage) < Place(reports'[j].stage)
      <4>1. i \in DOMAIN reports
        BY <3>3, <3>4, <3>5
      <4>2. CASE j \in DOMAIN reports
        BY <3>3, <3>5, <4>1, <4>2 DEF OrderInv, ReportsFollowTask
      <4>3. CASE j = Len(reports) + 1
        <5>1. a = Main /\ reports'[j].stage = stage
          BY <3>1, <3>3, <3>5, <4>3
        <5>2. /\ reports[i].stage # Before /\ reports[i].stage # stage
              /\ Place(reports[i].stage) <= Place(stage)
          BY <3>2, <3>3, <3>5, <4>1, <5>1 DEF OrderInv, MainTold
        <5>3. reports[i].stage \in Stages
          <6>1. reports[i] \in Told
            BY <1>1, <4>1
          <6> QED
            BY <6>1 DEF Told
        <5>4. Place(reports[i].stage) < Place(stage)
          BY <1>1, <3>2, <5>1, <5>2, <5>3, PlaceValues
        <5> QED
          BY <3>3, <4>1, <5>1, <5>4
      <4> QED
        BY <3>4, <4>2, <4>3
    <3>6. ASSUME NEW i \in DOMAIN reports'
          PROVE  /\ reports'[i].by # Main => reports'[i].stage = "infrastructure"
                 /\ task'.created => reports'[i].task
                 /\ reports'[i].by = Main => /\ stage' # Before /\ reports'[i].stage # Before
                                             /\ Place(reports'[i].stage) <= Place(stage')
      <4>1. CASE i \in DOMAIN reports
        BY <2>1, <3>3, <4>1 DEF OrderInv, ReportsFollowTask
      <4>2. CASE i = Len(reports) + 1
        <5>1. stage # Before => Place(stage) <= Place(stage)
          BY <1>1, PlaceValues
        <5> QED
          BY <2>1, <2>2, <3>1, <3>2, <3>3, <4>2, <5>1
      <4> QED
        BY <3>4, <4>1, <4>2
    <3>7. pc \notin Taskless
      BY <2>2, <3>2 DEF Untold, Taskless
    <3>8. MainTold(stage)' => MainTold(stage) \/ a = Main
      BY <2>1, <3>1, <3>3, <3>4 DEF MainTold
    <3>9. UNCHANGED client
      BY <2>2, ClientOnce
    <3>10. ReportsFollowTask'
      BY <3>5, <3>6 DEF ReportsFollowTask
    <3> QED
      BY <2>1, <2>4, <3>2, <3>6, <3>7, <3>8, <3>9, <3>10 DEF OrderInv
  <2> QED
    BY <2>1, <2>5, <2>6
<1>6. CASE Leave \/ ConcurrentMapAccess
  <2>1. /\ UNCHANGED <<stage, task, reports>> /\ access' = [a \in Actors |-> NoAccess]
        /\ pc' \notin Untold /\ pc' \notin Taskless
    BY <1>6 DEF Leave, ConcurrentMapAccess, ProcessEnds, UnchangedMap, Untold, Taskless
  <2>2. access'[Main].op = "none"
    BY <1>1, <2>1, AccessTypes
  <2> QED
    BY <2>1, <2>2, SilenceKeepsOrder
<1>7. CASE UNCHANGED taskVars
  BY <1>7, SilenceKeepsOrder DEF taskVars
<1> QED
  BY <1>2, <1>3, <1>4, <1>5, <1>6, <1>7, StepKinds

-----------------------------------------------------------------------------
(* The theorems. *)

LEMMA InitTask ==
  ASSUME TaskInit
  PROVE  TaskInv
<1> USE StageNames DEF TaskInit
<1>1. stage \in Stages
  BY DEF Before
<1>2. PlaceInv
  BY Rounds DEF PlaceInv, Places
<1>3. WorkerInv
  <2>1. \A w \in Workers : w[2] \in 1 .. MaxRounds
    BY DEF Workers
  <2>2. \A w \in Workers : w[2] > round
    BY <2>1, Rounds
  <2> QED
    BY <2>2 DEF WorkerInv
<1>4. ClientInv
  BY DEF ClientInv
<1>5. AccessInv
  BY <1>1, AccessTypes DEF AccessInv, Free
<1>6. StatusInv
  <2>1. reports \in Seq(Told) /\ DOMAIN reports = {}
    BY NoReports
  <2> QED
    BY <1>1, <2>1, AccessTypes DEF StatusInv, Says, Honest
<1>7. PullInv
  <2>1. Main \in Actors /\ DOMAIN reports = {}
    BY NoReports DEF Actors
  <2>2. access[Main].op = "none"
    BY <1>1, <2>1, AccessTypes
  <2> QED
    BY <2>1, <2>2 DEF PullInv, PullReported, PullAnswered
<1> QED
  BY <1>2, <1>3, <1>4, <1>5, <1>6, <1>7 DEF TaskInv

LEMMA TaskInvariant == TaskSpec => []TaskInv
<1>1. TaskInv /\ [TaskNext]_taskVars => TaskInv'
  <2> SUFFICES ASSUME TaskInv, [TaskNext]_taskVars
               PROVE  TaskInv'
    OBVIOUS
  <2>1. PlaceInv' /\ WorkerInv' /\ ClientInv'
    BY NextPlace, NextWorker, NextClient DEF TaskInv
  <2>2. AccessInv' /\ StatusInv'
    BY NextStatus DEF TaskInv
  <2>3. PullInv'
    BY NextPull
  <2> QED
    BY <2>1, <2>2, <2>3 DEF TaskInv
<1> QED
  BY <1>1, InitTask, PTL DEF TaskSpec

LEMMA OrderInvariant == TaskSpec => []OrderInv
<1>1. TaskInit => OrderInv
  <2> SUFFICES ASSUME TaskInit PROVE OrderInv
    OBVIOUS
  <2>1. reports = <<>> /\ DOMAIN reports = {} /\ ~task.created
    BY NoReports DEF TaskInit
  <2>2. access[Main].op = "none"
    BY AccessTypes, StageNames DEF TaskInit, Actors
  <2> QED
    BY <2>1, <2>2 DEF OrderInv, ReportsFollowTask, MainTold
<1>2. TaskInv /\ OrderInv /\ [TaskNext]_taskVars => OrderInv'
  BY NextOrder
<1> QED
  BY <1>1, <1>2, TaskInvariant, PTL DEF TaskSpec

(* The state of apply has its types, a worker is off exactly until its call *)
(* of RunRules begins, and nobody uses the map without an open client.      *)
THEOREM TaskTypeCorrect == TaskSpec => []TaskTypeOK
<1>1. TaskInv => TaskTypeOK
  BY DEF TaskInv, PlaceInv, WorkerInv, ClientInv, AccessInv, StatusInv, Says, TaskTypeOK
<1> QED
  BY <1>1, TaskInvariant, PTL

(* The first message, which creates the client for good, comes after the    *)
(* token is set: nobody is logged in without a client for lack of a token.  *)
THEOREM LoggedInHasClient == TaskSpec => []ClientMatchesToken
<1>1. TaskInv => ClientMatchesToken
  BY DEF TaskInv, ClientInv, ClientMatchesToken
<1> QED
  BY <1>1, TaskInvariant, PTL

(* A report of a stage says error if a line of it was shown in time, says   *)
(* error only if one was, and no line of the pull comes after its report    *)
(* but the one that says that the report failed.                            *)
THEOREM StatusIsTold == TaskSpec => []StatusIsTrue
<1>1. TaskInv => StatusIsTrue
  BY DEF TaskInv, StatusInv, PullInv, StatusIsTrue
<1> QED
  BY <1>1, TaskInvariant, PTL

(* main reports every stage at most once, in the order of the stages, a     *)
(* watchdog only the last one, and every report names the task, if there is *)
(* one.                                                                     *)
THEOREM ReportsAreInOrder == TaskSpec => []ReportsFollowTask
<1>1. OrderInv => ReportsFollowTask
  BY DEF OrderInv
<1> QED
  BY <1>1, OrderInvariant, PTL

===============================================================================
