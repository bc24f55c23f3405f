----------------------------- MODULE DbBootstrap -----------------------------
(***************************************************************************)
(* The database of the machine, which every opening of a storage installs  *)
(* if its program is not there, and stops and starts in any case: RunDB,   *)
(* from several selefra processes at once, with crashes and failing calls. *)
(* The server listens on the port that its file named when it started;     *)
(* initdb writes 5432, ChangePort 15432, and every process connects to     *)
(* 15432.                                                                  *)
(***************************************************************************)
EXTENDS Naturals, FiniteSets

CONSTANTS DbProcs,    \* the selefra processes of the machine
          MaxOpens,   \* bound on the openings of a process
          DbFaults    \* "crash", "call" of the cloud, "copy", "initdb", "stop"

ASSUME OpensAssumption == MaxOpens \in Nat

VARIABLES
    bin,     \* pgsql/bin: none, part or whole
    data,    \* pgsql/data: none, part or ready
    port,    \* the port in postgresql.conf
    server,  \* down, or the port that the server listens on
    db,      \* per process: where getDsn is; "ok" and "error" are its returns
    opens,   \* per process: the openings that began
    broken   \* no, until a start, or for good: see Breaks

dbVars == <<bin, data, port, server, db, opens, broken>>

DbInit ==
    /\ bin = "none" /\ data = "none" /\ port = "5432" /\ server = "down"
    /\ db = [p \in DbProcs |-> "ok"]
    /\ opens = [p \in DbProcs |-> 0]
    /\ broken = "no"

Returned(p)   == db[p] \in {"ok", "error"}
Go(p, place)  == db' = [db EXCEPT ![p] = place]
Installs(p)   == db[p] \in {"copying", "copied", "initdb", "port"}

\* What a fault leaves behind.  An installation that is cut short is never made
\* again, since its program is there; a server that is not stopped, or stopped and
\* not started, is started by the next opening.
Breaks(how) == broken' = IF broken = "for good" THEN broken ELSE how

-----------------------------------------------------------------------------
\* getDsn: with a token and a project the cloud is asked first, for an answer that
\* is not used.
GetDsn(p) ==
    /\ Returned(p) /\ opens[p] < MaxOpens
    /\ opens' = [opens EXCEPT ![p] = @ + 1]
    /\ Go(p, "stat") \/ ("call" \in DbFaults /\ Go(p, "error"))
    /\ UNCHANGED <<bin, data, port, server, broken>>

\* os.Stat of pgsql/bin, and the beginning of the copy, which makes it.
StatBin(p) ==
    /\ db[p] = "stat"
    /\ Go(p, IF bin = "none" THEN "copy" ELSE "stop")
    /\ UNCHANGED <<bin, data, port, server, opens, broken>>

\* Two processes that copy at once disturb each other.
CopyBegins(p) ==
    /\ db[p] = "copy"
    /\ Go(p, "copying")
    /\ bin' = "part"
    /\ IF bin # "none" THEN Breaks("until a start") ELSE UNCHANGED broken
    /\ UNCHANGED <<data, port, server, opens>>

CopyEnds(p) ==
    /\ db[p] = "copying"
    /\ \/ Go(p, "copied") /\ bin' = "whole" /\ UNCHANGED broken
       \/ "copy" \in DbFaults /\ Go(p, "error") /\ Breaks("for good") /\ UNCHANGED bin
    /\ UNCHANGED <<data, port, server, opens>>

\* initdb refuses a directory that is there, and removes what it made when it fails.
InitdbBegins(p) ==
    /\ db[p] = "copied"
    /\ \/ data = "none" /\ bin = "whole" /\ Go(p, "initdb") /\ data' = "part" /\ UNCHANGED broken
       \/ data # "none" /\ Go(p, "error") /\ UNCHANGED <<data, broken>>
       \/ bin # "whole" /\ Go(p, "error") /\ Breaks("for good") /\ UNCHANGED data
    /\ UNCHANGED <<bin, port, server, opens>>

InitdbEnds(p) ==
    /\ db[p] = "initdb"
    /\ \/ Go(p, "port") /\ data' = "ready" /\ port' = "5432" /\ UNCHANGED broken
       \/ /\ "initdb" \in DbFaults
          /\ Go(p, "error") /\ data' = "none" /\ Breaks("for good") /\ UNCHANGED port
    /\ UNCHANGED <<bin, server, opens>>

\* Mutant: the port is changed for the next start only if the server does not run.
ChangePort_IfDown(p) ==
    /\ db[p] = "port"
    /\ Go(p, "stop")
    /\ port' = IF server = "down" THEN "15432" ELSE port
    /\ UNCHANGED <<bin, data, server, opens, broken>>

ChangePort(p) ==
    /\ db[p] = "port"
    /\ Go(p, "stop")
    /\ port' = "15432"
    /\ UNCHANGED <<bin, data, server, opens, broken>>

\* pg_ctl stop, whose failure is ignored.
PgStop(p) ==
    /\ db[p] = "stop"
    /\ Go(p, "start")
    /\ \/ server' = (IF bin = "whole" THEN "down" ELSE server) /\ UNCHANGED broken
       \/ "stop" \in DbFaults /\ Breaks("until a start") /\ UNCHANGED server
    /\ UNCHANGED <<bin, data, port, opens>>

\* pg_ctl start: it fails when the server runs, or the program or the data is not
\* there.
Startable == bin = "whole" /\ data = "ready" /\ server = "down"

PgStart(p) ==
    /\ db[p] = "start"
    /\ IF Startable
       THEN /\ Go(p, "ok") /\ server' = port
            /\ broken' = IF broken = "for good" \/ port = "5432" THEN broken ELSE "no"
       ELSE /\ Go(p, "error")
            /\ UNCHANGED <<server, broken>>
    /\ UNCHANGED <<bin, data, port, opens>>

\* The death of a process, between two openings or in one.
DbCrash(p) ==
    /\ "crash" \in DbFaults
    /\ ~Returned(p)
    /\ Go(p, "error")
    /\ IF Installs(p) THEN Breaks("for good")
       ELSE IF db[p] \in {"stop", "start"} /\ server # "15432" THEN Breaks("until a start")
       ELSE UNCHANGED broken
    /\ UNCHANGED <<bin, data, port, server, opens>>

DbNext ==
    \E p \in DbProcs :
        \/ GetDsn(p) \/ StatBin(p) \/ CopyBegins(p) \/ CopyEnds(p) \/ InitdbBegins(p)
        \/ InitdbEnds(p) \/ ChangePort(p) \/ PgStop(p) \/ PgStart(p) \/ DbCrash(p)

DbSpec == DbInit /\ [][DbNext]_dbVars

-----------------------------------------------------------------------------
(* The properties.                                                          *)

(* The type of the state; a server runs on whole data only, and the file    *)
(* of the data names the wrong port only until ChangePort has run, unless   *)
(* an installation was cut short (downloader.go:60-72, 91-116).             *)
DbTypeOK ==
    /\ bin \in {"none", "part", "whole"}
    /\ data \in {"none", "part", "ready"}
    /\ port \in {"5432", "15432"}
    /\ server \in {"down", "5432", "15432"}
    /\ server # "down" => data = "ready"
    /\ data = "ready" /\ port = "5432" /\ broken # "for good" => \E p \in DbProcs : db[p] = "port"
    /\ \A p \in DbProcs : opens[p] \in 0 .. MaxOpens

(* downloader.go:35-88, pgstorage.go:99: however many processes install,    *)
(* stop and start the database at once, when all of them are done it runs,  *)
(* on the port they connect to, unless an installation was cut short or     *)
(* disturbed, or a process died between its stop and its start.             *)
QuietIsUp ==
    (\A p \in DbProcs : Returned(p)) /\ broken = "no" /\ bin # "none" =>
        data = "ready" /\ server = "15432"
=============================================================================
