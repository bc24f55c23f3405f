------------------------------ MODULE TaskReport ------------------------------
(***************************************************************************)
(* What the selefra cloud is told of an apply: the client of the log       *)
(* stream, which the first message creates, the status of every stage,     *)
(* which an error line sets, the task that the reports name and the stage  *)
(* of the project.  main runs the stages one after the other; every call   *)
(* of RunRules leaves a watchdog and an uploader behind, which print lines *)
(* too, and none of them locks statusMap.                                  *)
(*                                                                         *)
(* Of the lines that are no errors only the first one of the process       *)
(* matters, since it creates the client.                                   *)
(***************************************************************************)
EXTENDS Naturals, Sequences, FiniteSets

CONSTANTS MaxRounds,   \* bound on the calls of RunRules
          CloudFaults  \* "call": an HTTP call, "stream": opening the streams,
                       \* "report": UploadLogStatus, or its answer, "race": overlapping accesses

ASSUME RoundsAssumption == MaxRounds \in Nat

Before  == ""          \* the stage before the first
Order   == <<"initializing", "pull", "infrastructure">>
Stages  == {Before} \cup {Order[i] : i \in DOMAIN Order}
Workers == {"watchdog", "uploader"} \X (1 .. MaxRounds)
Main    == <<"main", 0>>
Actors  == {Main} \cup Workers

VARIABLES
    token,    \* global.Token: whether there is one
    project,  \* RelvPrjName: whether the configuration names one
    stage,    \* global.Stage
    client,   \* the client of grpcClient: unset, none or failed for ever, or open
    task,     \* created: the cloud has a task; known: the client has its id
    status,   \* statusMap
    shown,    \* the stages that an error line was printed in, with a client
    access,   \* per actor: what it does with statusMap, in which stage; of a report
              \* what it says, and what had been shown when it was begun
    reports,  \* the status reports that the cloud has got, answered or not
    setup,    \* the stage of the project in the cloud
    pc,       \* where main is
    round,    \* the calls of RunRules that began
    workers   \* per watchdog and uploader: off, on, cancelled, ..., done

taskVars == <<token, project, stage, client, task, status, shown, access, reports,
              setup, pc, round, workers>>

-----------------------------------------------------------------------------
(* The client and the status.                                               *)

\* shouldClient: the first call finds a token or not and can open the streams or
\* not; no later call tries again.
Clients(t) ==
    IF client # "unset" THEN {client}
    ELSE IF ~t THEN {"none"}
    ELSE {"open"} \cup (IF "stream" \in CloudFaults THEN {"failed"} ELSE {})

NoAccess == [op |-> "none", stage |-> Before, says |-> "", due |-> FALSE]
Writing == [NoAccess EXCEPT !.op = "write", !.stage = stage]
Free(a) == access[a] = NoAccess
Alive   == pc \notin {"ended", "panicked", "fatal"}
Panics  == pc \in {"nil error", "nil map"}

\* Mutant: the key of the map is the command and not the stage.
Key_Command(s) == Before

Key(s) == s

\* sync of the ui: an error line reads the stage and, with a client, sets its status.
ErrorLine(a) ==
    /\ client' \in Clients(token)
    /\ access' = [access EXCEPT ![a] = IF client' = "open" THEN Writing ELSE NoAccess]

SetStatus(a) ==
    /\ Alive /\ access[a].op = "write"
    /\ shown' = shown \cup {access[a].stage}
    /\ status' = [status EXCEPT ![Key(access[a].stage)] = "error"]
    /\ access' = [access EXCEPT ![a] = NoAccess]
    /\ UNCHANGED <<token, project, stage, client, task, reports, setup, pc, round, workers>>

\* Mutant: the client is used without a test that it is there.
Report_NoTest(a) ==
    /\ client' \in Clients(token)
    /\ access' = [access EXCEPT ![a] =
                     [op |-> "read", stage |-> stage, says |-> "", due |-> stage \in shown]]

\* UploadLogStatus: without a client nothing; otherwise the status is read, and sent.
Report(a) ==
    /\ client' \in Clients(token)
    /\ access' = [access EXCEPT ![a] =
                     IF client' # "open" THEN NoAccess
                     ELSE [op |-> "read", stage |-> stage, says |-> "", due |-> stage \in shown]]

ReadStatus(a) ==
    /\ Alive /\ access[a].op = "read"
    /\ access' = [access EXCEPT ![a].op = "send", ![a].says = status[Key(access[a].stage)]]
    /\ UNCHANGED <<token, project, stage, client, task, status, shown, reports, setup, pc,
                   round, workers>>

\* What the cloud gets; answered: whether the caller gets its answer.
Sent(a, answered) ==
    [stage |-> access[a].stage, says |-> access[a].says, due |-> access[a].due, by |-> a,
     task |-> task.known, answered |-> answered]

\* The report may not arrive, or only its answer may be lost: the call returns an error
\* for both, which main prints and the watchdog does not.
UploadLogStatus(a) ==
    /\ Alive /\ access[a].op = "send"
    /\ \E arrives, answered \in BOOLEAN :
           /\ answered => arrives
           /\ answered \/ "report" \in CloudFaults
           /\ reports' = IF arrives THEN Append(reports, Sent(a, answered)) ELSE reports
           /\ IF a = Main /\ ~answered THEN ErrorLine(a)
              ELSE access' = [access EXCEPT ![a] = NoAccess] /\ UNCHANGED client
    /\ UNCHANGED <<token, project, stage, task, status, shown, setup, pc, round, workers>>

\* The goroutines end with the process.
ProcessEnds(how) ==
    /\ pc' = how
    /\ access' = [a \in Actors |-> NoAccess]
    /\ workers' = [w \in Workers |-> IF w[2] <= round THEN "done" ELSE "off"]

\* Two accesses to a Go map at once, one of them a write: the runtime may stop the
\* process; otherwise a read sees the map before or after the write.
ConcurrentMapAccess ==
    /\ "race" \in CloudFaults
    /\ Alive
    /\ \E a, b \in Actors : /\ a # b
                            /\ access[a].op = "write" /\ access[b].op \in {"write", "read"}
    /\ ProcessEnds("fatal")
    /\ UNCHANGED <<token, project, stage, client, task, status, shown, reports, setup, round>>

-----------------------------------------------------------------------------
(* main: apply and Sync.                                                    *)

TaskInit ==
    /\ token = FALSE /\ client = "unset"
    /\ project \in BOOLEAN
    /\ stage = Before /\ setup = "unset"
    /\ task = [created |-> FALSE, known |-> FALSE]
    /\ status = [s \in Stages |-> ""]
    /\ shown = {} /\ reports = <<>>
    /\ access = [a \in Actors |-> NoAccess]
    /\ pc = "login" /\ round = 0
    /\ workers = [w \in Workers |-> "off"]

At(p)     == pc = p /\ Free(Main)
Fails(f)  == f \in CloudFaults
NoLine    == UNCHANGED <<client, access>>

\* The rest of the state, for the steps of main.
UnchangedMap == UNCHANGED <<status, shown, reports>>

\* Mutant: the welcome is printed before the token is set.
Welcome_First == token' = TRUE /\ client' \in Clients(token)

\* displayLoginSuccess: the token is set, and the first line is printed.
Welcome == token' = TRUE /\ client' \in Clients(TRUE)

\* ShouldLogin, whose result apply ignores: the credentials cannot be read; there
\* are none; the token, which is the global one already, is refused, without a
\* line; or it is accepted, and may not be stored.
ShouldLogin ==
    /\ At("login")
    /\ \/ ErrorLine(Main) /\ UNCHANGED token
       \/ NoLine /\ UNCHANGED token
       \/ Fails("call") /\ NoLine /\ token' = TRUE
       \/ Welcome /\ UNCHANGED access
       \/ Welcome /\ client' = "open" /\ access' = [access EXCEPT ![Main] = Writing]
    /\ pc' = "config"
    /\ UnchangedMap /\ UNCHANGED <<project, stage, task, setup, round, workers>>

\* A file that cannot be read is a line before (PrintError), and ends nothing by itself.
GetConfig ==
    /\ At("config")
    /\ \/ ErrorLine(Main) /\ pc' = "leave"
       \/ NoLine /\ pc' = "task"
    /\ UnchangedMap /\ UNCHANGED <<token, project, stage, task, setup, round, workers>>

\* Mutant: a client that is not there yet is not created.
SetTaskID_IfThere == UNCHANGED client /\ task' = [created |-> TRUE, known |-> client = "open"]

SetTaskID == client' \in Clients(token) /\ task' = [created |-> TRUE, known |-> client' = "open"]

\* TryCreateProject and TryCreateTask: only for who is logged in, the task also only
\* for a project.
CreateTask ==
    /\ At("task")
    /\ \/ /\ token /\ Fails("call")
          /\ ErrorLine(Main) /\ pc' = "leave"
          /\ UNCHANGED <<task, stage>>
       \/ /\ IF token /\ project THEN SetTaskID ELSE UNCHANGED <<client, task>>
          /\ stage' = "initializing" /\ pc' = "sync"
          /\ UNCHANGED access
    /\ UnchangedMap /\ UNCHANGED <<token, project, setup, round, workers>>

\* TrySetUpStage(Failed): whether it returns nil.
TrySetUpStage(ok) ==
    /\ ok \/ (token /\ project /\ Fails("call"))
    /\ setup' = IF ok /\ token /\ project THEN "failed" ELSE setup

\* The configuration is read again, and checked; a failure is reported as the stage
\* of the project, and printed.  (Without a database the plugins refuse to start, so
\* that an error line of getDsn comes with a failure.)
CheckConfig ==
    /\ At("sync")
    /\ \/ (\E ok \in BOOLEAN : TrySetUpStage(ok)) /\ ErrorLine(Main) /\ pc' = "unlock"
       \/ Report(Main) /\ pc' = "decls" /\ UNCHANGED setup
    /\ UnchangedMap /\ UNCHANGED <<token, project, stage, task, round, workers>>

\* A line that tells of a file of the workspace that cannot be read, of a database that
\* cannot be reached, of a provider that cannot be downloaded, of a schema that cannot be
\* opened or pulled, or of a module or rule that cannot be read or run; all go on.
PrintError ==
    /\ \E p \in {"config", "sync", "decls", "pull", "loop", "rules"} : At(p)
    /\ ErrorLine(Main)
    /\ UnchangedMap
    /\ UNCHANGED <<token, project, stage, task, setup, pc, round, workers>>

\* effectiveDecls ends.
BeginPull ==
    /\ At("decls")
    /\ stage' = "pull" /\ pc' = "pull"
    /\ UnchangedMap
    /\ UNCHANGED <<token, project, client, access, task, setup, round, workers>>

\* Sync returns.
ReportPull ==
    /\ At("pull")
    /\ Report(Main) /\ pc' = "pulled"
    /\ UnchangedMap /\ UNCHANGED <<token, project, stage, task, setup, round, workers>>

BeginRules ==
    /\ At("pulled")
    /\ stage' = "infrastructure" /\ pc' = "loop"
    /\ UnchangedMap
    /\ UNCHANGED <<token, project, client, access, task, setup, round, workers>>

\* The storage cannot be opened.
OpenFails ==
    /\ At("loop") /\ round < MaxRounds
    /\ ErrorLine(Main) /\ pc' = "unlock"
    /\ UnchangedMap /\ UNCHANGED <<token, project, stage, task, setup, round, workers>>

\* GetModules fails: the error that is printed is that of the report of it, and apply
\* panics when there is none.
GetModulesFails ==
    /\ At("loop") /\ round < MaxRounds
    /\ \/ TrySetUpStage(TRUE) /\ pc' = "nil error" /\ NoLine
       \/ TrySetUpStage(FALSE) /\ pc' = "unlock" /\ ErrorLine(Main)
    /\ UnchangedMap /\ UNCHANGED <<token, project, stage, task, round, workers>>

RunRules ==
    /\ At("loop") /\ round < MaxRounds
    /\ round' = round + 1 /\ pc' = "rules"
    /\ workers' = [w \in Workers |-> IF w[2] = round' THEN "on" ELSE workers[w]]
    /\ UnchangedMap /\ UNCHANGED <<token, project, stage, client, access, task, setup>>

Cancelled(k) ==
    [w \in Workers |-> IF w[2] = k /\ workers[w] = "on" THEN "cancelled" ELSE workers[w]]

\* RunRules returns, and cancels; after an error apply reports no status.
RulesEnd ==
    /\ At("rules")
    /\ workers' = Cancelled(round)
    /\ \/ pc' = "loop" /\ NoLine
       \/ pc' = "unlock" /\ ErrorLine(Main)
    /\ UnchangedMap /\ UNCHANGED <<token, project, stage, task, setup, round>>

ReportRules ==
    /\ At("loop")
    /\ Report(Main) /\ pc' = "upload"
    /\ UnchangedMap /\ UNCHANGED <<token, project, stage, task, setup, round, workers>>

\* FileMap writes the first yaml file that it finds to a map that nobody made.
FileMap == pc' = "nil map" /\ NoLine /\ UNCHANGED setup

\* UploadWorkspace gets no further than FileMap, which panics, or cannot read a
\* directory or the first file.
Upload ==
    /\ At("upload")
    /\ \/ FileMap
       \/ pc' = "unlock" /\ ErrorLine(Main) /\ \E ok \in BOOLEAN : TrySetUpStage(ok)
    /\ UnchangedMap /\ UNCHANGED <<token, project, stage, task, round, workers>>

\* The deferred unlocking of the schemas, in a panic too: a line per lock that cannot
\* be given back.
Unlock ==
    /\ At("unlock") \/ (Panics /\ Free(Main))
    /\ ErrorLine(Main)
    /\ UnchangedMap /\ UNCHANGED <<token, project, stage, task, setup, pc, round, workers>>

\* The end of the process.
Leave ==
    /\ At("unlock") \/ At("leave") \/ (Panics /\ Free(Main))
    /\ ProcessEnds(IF Panics THEN "panicked" ELSE "ended")
    /\ UnchangedMap
    /\ UNCHANGED <<token, project, stage, client, task, setup, round>>

-----------------------------------------------------------------------------
(* The watchdog and the uploader of a call of RunRules.                     *)

Worker(w, from, to) == Alive /\ Free(w) /\ workers[w] \in from
                       /\ workers' = [workers EXCEPT ![w] = to]
UnchangedMain == UNCHANGED <<token, project, stage, task, setup, pc, round>>

\* The tick may have come before the cancellation and be taken after it.
WatchdogFires(k) ==
    /\ Worker(<<"watchdog", k>>, {"on", "cancelled"}, "fired")
    /\ ErrorLine(<<"watchdog", k>>)
    /\ UnchangedMap /\ UnchangedMain

WatchdogReports(k) ==
    /\ Worker(<<"watchdog", k>>, {"fired"}, "reported")
    /\ Report(<<"watchdog", k>>)
    /\ UnchangedMap /\ UnchangedMain

WatchdogCancels(k) ==
    /\ Alive /\ Free(<<"watchdog", k>>) /\ workers[<<"watchdog", k>>] = "reported"
    /\ workers' = [Cancelled(k) EXCEPT ![<<"watchdog", k>>] = "done"]
    /\ UnchangedMap /\ UnchangedMain /\ UNCHANGED <<client, access>>

\* The uploader prints an error when a send fails, and no error when it is cancelled.
SendFails(k) ==
    /\ client = "open" /\ Fails("stream")
    /\ Worker(<<"uploader", k>>, {"on", "cancelled"}, "done")
    /\ ErrorLine(<<"uploader", k>>)
    /\ UnchangedMap /\ UnchangedMain

WorkerEnds(w) ==
    /\ Worker(w, {"cancelled"}, "done")
    /\ UnchangedMap /\ UnchangedMain /\ UNCHANGED <<client, access>>

TaskNext ==
    \/ ShouldLogin \/ GetConfig \/ CreateTask \/ CheckConfig \/ PrintError \/ BeginPull
    \/ ReportPull \/ BeginRules \/ OpenFails \/ GetModulesFails \/ RunRules \/ RulesEnd
    \/ ReportRules \/ Upload \/ Unlock \/ Leave
    \/ \E a \in Actors : SetStatus(a)
    \/ \E a \in Actors : ReadStatus(a)
    \/ \E a \in Actors : UploadLogStatus(a)
    \/ ConcurrentMapAccess
    \/ \E k \in 1 .. MaxRounds : WatchdogFires(k)
    \/ \E k \in 1 .. MaxRounds : WatchdogReports(k)
    \/ \E k \in 1 .. MaxRounds : WatchdogCancels(k)
    \/ \E k \in 1 .. MaxRounds : SendFails(k)
    \/ \E w \in Workers : WorkerEnds(w)

TaskSpec == TaskInit /\ [][TaskNext]_taskVars

-----------------------------------------------------------------------------
(* The properties.                                                          *)

(* The type of the state; only with an open client is the map used.         *)
TaskTypeOK ==
    /\ token \in BOOLEAN /\ project \in BOOLEAN
    /\ stage \in Stages
    /\ client \in {"unset", "none", "failed", "open"}
    /\ task.known => task.created
    /\ task.created => token /\ project
    /\ status \in [Stages -> {"", "error"}]
    /\ shown \subseteq Stages
    /\ \A a \in Actors : ~Free(a) => client = "open"
    /\ \A w \in Workers : workers[w] = "off" <=> w[2] > round
    /\ setup \in {"unset", "failed"}
    /\ round \in 0 .. MaxRounds

(* grpcClient/client.go:138, 206, print.go:97, watchdog and uploader        *)
(* included: a report says error if an error line of its stage was complete *)
(* when it was begun, and only if one was printed; no line of the pull      *)
(* comes after its report but that which says that the report failed,       *)
(* apply.go:96, though only its answer may have been lost.                  *)
StatusIsTrue ==
    \A i \in DOMAIN reports :
        LET r == reports[i]
        IN  /\ r.due => r.says = "error"
            /\ r.says = "error" => r.stage \in shown
            /\ r.stage = "pull" /\ r.answered /\ "pull" \in shown => r.says = "error"

Place(s) == CHOOSE i \in DOMAIN Order : Order[i] = s

(* apply.go:58-68, 95, 141, sync.go:85, with the reports of the watchdogs:  *)
(* the cloud gets at most one report of a stage from main, in the order of  *)
(* the stages, none of a watchdog but on the last stage, and every one      *)
(* names the task, if there is one.                                         *)
ReportsFollowTask ==
    /\ \A i, j \in DOMAIN reports :
           i < j /\ reports[i].by = Main /\ reports[j].by = Main
               => Place(reports[i].stage) < Place(reports[j].stage)
    /\ \A i \in DOMAIN reports :
           /\ reports[i].by # Main => reports[i].stage = "infrastructure"
           /\ task.created => reports[i].task

(* grpcClient/client.go:41, login.go:98: the client is created once, by the *)
(* first message of the process; in apply none comes before the token, so   *)
(* that whoever is logged in has a client, unless the cloud did not answer. *)
ClientMatchesToken == client = "none" => ~token

(* config_test.go:11: FileMap returns the files of a workspace.             *)
FileMapReturns == pc # "nil map"
===============================================================================
