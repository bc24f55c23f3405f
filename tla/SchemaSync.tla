----------------------------- MODULE SchemaSync -----------------------------
(***************************************************************************)
(* How several selefra processes share the schemas of one database.  Each  *)
(* `selefra apply` first synchronizes: for every provider it locks the     *)
(* provider's schema, looks whether the data in it has expired, and if so  *)
(* has the provider plugin drop, create and pull the tables and stores the *)
(* update time.  It then runs the rules on the schemas and releases the    *)
(* locks when it returns.  `selefra fetch` (and `provider update`) pulls   *)
(* the tables without taking a lock and without storing an update time.    *)
(*                                                                         *)
(* The database with its lock and key-value tables, and the plugins, are   *)
(* external: they are modelled from how the code uses them.  The bound on  *)
(* time is MaxAge.                                                         *)
(***************************************************************************)
EXTENDS Integers, Sequences, FiniteSets

CONSTANTS
    Procs,      \* the processes
    NoProc,     \* nobody: the owner of a free lock
    Applies,    \* those that run `apply`; the others run `fetch`
    Schemas,    \* the schemas of the database
    Decls,      \* per process: its provider declarations, in order.  pull is
                \* the schema of the resolved version of the provider, query the
                \* schema of the version as the configuration writes it
    Cache,      \* per process: the cache time of its configuration, 0 for none
    MaxAge,     \* bound on the age of an update time
    Faults      \* what may fail: a process ("crash"), a call ("error"), the
                \* release of a lock ("unlock"), the reading of an update time
                \* ("read")

Decl == [pull : Schemas, query : Schemas]

ASSUME SyncAssumption ==
    /\ Applies \subseteq Procs
    /\ NoProc \notin Procs
    /\ IsFiniteSet(Procs)
    /\ Decls \in [Procs -> Seq(Decl)]
    /\ Cache \in [Procs -> Nat]
    /\ MaxAge \in Nat
    /\ Faults \subseteq {"crash", "error", "unlock", "read"}

VARIABLES
    pc,         \* per process: the step it is about to make
    decl,       \* per process: the declaration it works on
    held,       \* per process: lockSlice, the declarations whose lock it took
    missed,     \* per process: the declarations that effectiveDecls left out
    errored,    \* per process: Sync met an error and says so at its end
    lock,       \* per schema: the process and declaration that own its lock
    full,       \* per schema: its tables hold one complete pull
    writer,     \* per schema: the process that alone fills or filled its tables
                \* since they were dropped, NoProc if there is no such process
    age         \* per schema: the age of its update time, NoTime if it has none

procVars == <<pc, decl, held, missed, errored>>
dbVars   == <<lock, full, writer, age>>
vars     == <<procVars, dbVars>>

NoTime   == -1
Free     == <<NoProc, 0>>

FetchSteps == {"start", "drop", "create", "pull"}
SyncSteps  == {"open", "lock", "check", "stamp"} \cup FetchSteps
Gone       == {"done", "crashed"}
Steps      == SyncSteps \cup {"run", "unlock"} \cup Gone

TypeOK ==
    /\ pc \in [Procs -> Steps]
    /\ decl \in [Procs -> Nat \ {0}]
    /\ held \in [Procs -> Seq(Nat \ {0})]
    /\ missed \in [Procs -> SUBSET Nat]
    /\ errored \in [Procs -> BOOLEAN]
    /\ lock \in [Schemas -> (Procs \X (Nat \ {0})) \cup {Free}]
    /\ full \in [Schemas -> BOOLEAN]
    /\ writer \in [Schemas -> Procs \cup {NoProc}]
    /\ age \in [Schemas -> Int]

\* No process has begun.  A schema is empty, or an earlier apply stored a complete
\* pull and its update time in it.
Init ==
    /\ pc = [p \in Procs |-> IF p \in Applies THEN "open" ELSE "start"]
    /\ decl = [p \in Procs |-> 1]
    /\ held = [p \in Procs |-> <<>>]
    /\ missed = [p \in Procs |-> {}]
    /\ errored = [p \in Procs |-> FALSE]
    /\ lock = [s \in Schemas |-> Free]
    /\ age \in [Schemas -> {NoTime} \cup 0..MaxAge]
    /\ full = [s \in Schemas |-> age[s] # NoTime]
    /\ writer = [s \in Schemas |-> NoProc]

More(p)   == decl[p] <= Len(Decls[p])
Pulled(p) == Decls[p][decl[p]].pull
Asked(p)  == Decls[p][decl[p]].query

\* CacheExpired: no update time, no cache time, or too old.
CacheExpired(p, s) == age[s] = NoTime \/ Cache[p] = 0 \/ age[s] > Cache[p]

Goto(p, step) == pc' = [pc EXCEPT ![p] = step] /\ UNCHANGED decl

\* The next turn of a loop over the declarations, which begins with step.
Continue(p, step) ==
    /\ pc' = [pc EXCEPT ![p] = step]
    /\ decl' = [decl EXCEPT ![p] = @ + 1]

\* Mutant: the declarations are counted from zero.
LoopEnds_FromZero(p, step) ==
    /\ ~More(p)
    /\ pc' = [pc EXCEPT ![p] = step]
    /\ decl' = [decl EXCEPT ![p] = 0]

\* A loop over the declarations is over; what follows begins with step.
LoopEnds(p, step) ==
    /\ ~More(p)
    /\ pc' = [pc EXCEPT ![p] = step]
    /\ decl' = [decl EXCEPT ![p] = 1]

Fail(p) == errored' = [errored EXCEPT ![p] = TRUE]

-----------------------------------------------------------------------------
(* Sync. *)

\* effectiveDecls leaves out a provider it cannot download.  The error it notes
\* never reaches Sync.
DownloadFails(p) ==
    /\ "error" \in Faults
    /\ pc[p] = "open" /\ More(p)
    /\ missed' = [missed EXCEPT ![p] = @ \cup {decl[p]}]
    /\ Continue(p, "open")
    /\ UNCHANGED <<held, errored, dbVars>>

OpenStorage(p) ==
    /\ pc[p] = "open" /\ More(p)
    /\ Goto(p, "lock")
    /\ UNCHANGED <<held, missed, errored, dbVars>>

OpenFails(p) ==
    /\ "error" \in Faults
    /\ pc[p] = "open" /\ More(p)
    /\ Fail(p)
    /\ Continue(p, "open")
    /\ UNCHANGED <<held, missed, dbVars>>

\* Mutant: the lock is tried once, and Sync goes on without it.
LockSchema_Once(p) ==
    /\ pc[p] = "lock"
    /\ IF lock[Pulled(p)] = Free
         THEN /\ lock' = [lock EXCEPT ![Pulled(p)] = <<p, decl[p]>>]
              /\ held' = [held EXCEPT ![p] = Append(@, decl[p])]
         ELSE UNCHANGED <<lock, held>>
    /\ Goto(p, "check")
    /\ UNCHANGED <<missed, errored, full, writer, age>>

\* The loop around Lock: it tries every five seconds until it succeeds.
LockSchema(p) ==
    /\ pc[p] = "lock"
    /\ lock[Pulled(p)] = Free
    /\ lock' = [lock EXCEPT ![Pulled(p)] = <<p, decl[p]>>]
    /\ held' = [held EXCEPT ![p] = Append(@, decl[p])]
    /\ Goto(p, "check")
    /\ UNCHANGED <<missed, errored, full, writer, age>>

\* Mutant: the update time is stored before the tables are pulled.
CacheIsOld_Stamps(p) ==
    /\ pc[p] = "check"
    /\ CacheExpired(p, Pulled(p)) \/ "read" \in Faults
    /\ age' = [age EXCEPT ![Pulled(p)] = 0]
    /\ Goto(p, "start")
    /\ UNCHANGED <<held, missed, errored, lock, full, writer>>

\* The data expired, or its update time cannot be read: Sync ignores the error
\* and CacheExpired answers yes.
CacheIsOld(p) ==
    /\ pc[p] = "check"
    /\ CacheExpired(p, Pulled(p)) \/ "read" \in Faults
    /\ Goto(p, "start")
    /\ UNCHANGED <<held, missed, errored, dbVars>>

UseCache(p) ==
    /\ pc[p] = "check"
    /\ ~CacheExpired(p, Pulled(p))
    /\ Continue(p, "open")
    /\ UNCHANGED <<held, missed, errored, dbVars>>

SetUpdateTime(p) ==
    /\ pc[p] = "stamp"
    /\ age' = [age EXCEPT ![Pulled(p)] = 0]
    /\ Continue(p, "open")
    /\ UNCHANGED <<held, missed, errored, lock, full, writer>>

SetUpdateTimeFails(p) ==
    /\ "error" \in Faults
    /\ pc[p] = "stamp"
    /\ Fail(p)
    /\ Continue(p, "open")
    /\ UNCHANGED <<held, missed, dbVars>>

\* Sync returns its locks and no error, whatever went wrong.
SyncReturns(p) ==
    /\ pc[p] = "open"
    /\ LoopEnds(p, "run")
    /\ UNCHANGED <<held, missed, errored, dbVars>>

-----------------------------------------------------------------------------
(* Fetch, called by Sync with the schema locked and by the fetch command     *)
(* without.                                                                  *)

FetchReturns(p) ==
    IF p \in Applies THEN Goto(p, "stamp") ELSE Continue(p, "start")

\* Mutant: Sync stores an update time although Fetch failed.
FetchGivesUp_Stamps(p) ==
    /\ Fail(p)
    /\ IF p \in Applies THEN Goto(p, "stamp") ELSE Goto(p, "done")

\* Mutant: the error of Fetch is not noted.
FetchGivesUp_Silently(p) ==
    /\ IF p \in Applies THEN Continue(p, "open") ELSE Goto(p, "done")
    /\ UNCHANGED errored

\* Sync goes on with the next declaration, the fetch command gives up.
FetchGivesUp(p) ==
    /\ Fail(p)
    /\ IF p \in Applies THEN Continue(p, "open") ELSE Goto(p, "done")

StartPlugin(p) ==
    /\ pc[p] = "start" /\ More(p)
    /\ Goto(p, "drop")
    /\ UNCHANGED <<held, missed, errored, dbVars>>

\* Another process is pulling into the tables.
Disturbed(p) == \E q \in Procs \ {p} : pc[q] = "pull" /\ Pulled(q) = Pulled(p)

DropTables(p) ==
    /\ pc[p] = "drop"
    /\ full' = [full EXCEPT ![Pulled(p)] = FALSE]
    /\ writer' = [writer EXCEPT ![Pulled(p)] = IF Disturbed(p) THEN NoProc ELSE p]
    /\ Goto(p, "create")
    /\ UNCHANGED <<held, missed, errored, lock, age>>

\* What p will pull is added to the tables of the process that dropped them last.
CreateTables(p) ==
    /\ pc[p] = "create"
    /\ Goto(p, "pull")
    /\ IF writer[Pulled(p)] = p
         THEN UNCHANGED <<full, writer>>
         ELSE /\ full' = [full EXCEPT ![Pulled(p)] = FALSE]
              /\ writer' = [writer EXCEPT ![Pulled(p)] = NoProc]
    /\ UNCHANGED <<held, missed, errored, lock, age>>

\* The plugin ended its stream.  The tables hold one complete pull if p dropped
\* them and nobody else touched them since; otherwise they hold a mixture.
PullTables(p) ==
    /\ pc[p] = "pull"
    /\ full' = [full EXCEPT ![Pulled(p)] = writer[Pulled(p)] = p]
    /\ FetchReturns(p)
    /\ UNCHANGED <<held, missed, errored, lock, writer, age>>

\* A call to the plugin fails.  A drop that fails may have dropped some tables,
\* and what is done stays done.
FetchFails(p) ==
    /\ "error" \in Faults
    /\ pc[p] \in FetchSteps /\ More(p)
    /\ FetchGivesUp(p)
    /\ \/ UNCHANGED <<full, writer>>
       \/ /\ pc[p] = "drop"
          /\ full' = [full EXCEPT ![Pulled(p)] = FALSE]
          /\ writer' = [writer EXCEPT ![Pulled(p)] = NoProc]
    /\ UNCHANGED <<held, missed, lock, age>>

FetchCommandEnds(p) ==
    /\ pc[p] = "start"
    /\ LoopEnds(p, "done")
    /\ UNCHANGED <<held, missed, errored, dbVars>>

-----------------------------------------------------------------------------
(* The rest of apply. *)

\* RunRules reads the schema that the declaration as written names.
RunRules(p) ==
    /\ pc[p] = "run" /\ More(p)
    /\ Continue(p, "run")
    /\ UNCHANGED <<held, missed, errored, dbVars>>

\* Mutant: the locks are not released after a Sync that met an error.
ApplyReturns_KeepsLocks(p) ==
    /\ pc[p] = "run"
    /\ ~More(p) \/ "error" \in Faults
    /\ pc' = [pc EXCEPT ![p] = IF errored[p] THEN "done" ELSE "unlock"]
    /\ UNCHANGED <<decl, held, missed, errored, dbVars>>

\* All the schemas are done, or one of them made apply return early.
ApplyReturns(p) ==
    /\ pc[p] = "run"
    /\ ~More(p) \/ "error" \in Faults
    /\ pc' = [pc EXCEPT ![p] = "unlock"]
    /\ UNCHANGED <<decl, held, missed, errored, dbVars>>

\* The deferred function releases the locks in the order of lockSlice.  When
\* UnLock fails it prints the error and goes on with the next one.
UnlockSchema(p) ==
    /\ pc[p] = "unlock" /\ held[p] # <<>>
    /\ LET s == Decls[p][Head(held[p])].pull
       IN \/ lock' = [lock EXCEPT ![s] = Free]
          \/ "unlock" \in Faults /\ UNCHANGED lock
    /\ held' = [held EXCEPT ![p] = Tail(@)]
    /\ UNCHANGED <<pc, decl, missed, errored, full, writer, age>>

Exit(p) ==
    /\ pc[p] = "unlock" /\ held[p] = <<>>
    /\ Goto(p, "done")
    /\ UNCHANGED <<held, missed, errored, dbVars>>

-----------------------------------------------------------------------------
(* The environment. *)

\* The process dies between two steps; its locks stay behind.
Crash(p) ==
    /\ "crash" \in Faults
    /\ pc[p] \notin Gone
    /\ Goto(p, "crashed")
    /\ UNCHANGED <<held, missed, errored, dbVars>>

\* The database, or its administrator, may free a lock whose owner is gone.
FreeLeftLock(s) ==
    /\ lock[s] # Free /\ pc[lock[s][1]] \in Gone
    /\ lock' = [lock EXCEPT ![s] = Free]
    /\ UNCHANGED <<procVars, full, writer, age>>

TimePasses ==
    /\ \E s \in Schemas : age[s] \in 0..(MaxAge - 1)
    /\ age' = [s \in Schemas |-> IF age[s] \in 0..(MaxAge - 1)
                                 THEN age[s] + 1 ELSE age[s]]
    /\ UNCHANGED <<procVars, lock, full, writer>>

-----------------------------------------------------------------------------

Sync(p) ==
    \/ DownloadFails(p) \/ OpenStorage(p) \/ OpenFails(p) \/ LockSchema(p)
    \/ CacheIsOld(p) \/ UseCache(p) \/ SetUpdateTime(p)
    \/ SetUpdateTimeFails(p) \/ SyncReturns(p)

Fetch(p) ==
    \/ StartPlugin(p) \/ DropTables(p) \/ CreateTables(p) \/ PullTables(p)
    \/ FetchFails(p) \/ FetchCommandEnds(p)

Finish(p) ==
    \/ RunRules(p) \/ ApplyReturns(p) \/ UnlockSchema(p) \/ Exit(p)

Run(p) == Sync(p) \/ Fetch(p) \/ Finish(p)

Next ==
    \/ \E p \in Procs : Run(p) \/ Crash(p)
    \/ \E s \in Schemas : FreeLeftLock(s)
    \/ TimePasses

\* A process that can go on does: calls to the plugin and to the database return
\* and the loop around Lock keeps trying.  Nothing makes a process crash, a left
\* lock be freed or time pass.
Spec     == Init /\ [][Next]_vars
FairSpec == Spec /\ \A p \in Procs : WF_vars(Run(p))

-----------------------------------------------------------------------------
(* Properties. *)

Holds(p, i) == \E n \in DOMAIN held[p] : held[p][n] = i

\* Apply p works on the data of schema s: Sync decides about it or writes it, or
\* the rules read it in the schema that Sync locked for the same declaration.
Uses(p, s) ==
    /\ p \in Applies /\ More(p)
    /\ \/ pc[p] \in {"check", "stamp"} \cup FetchSteps /\ Pulled(p) = s
       \/ pc[p] = "run" /\ Holds(p, decl[p]) /\ Pulled(p) = s /\ Asked(p) = s

\* Two applies never use the same schema at the same time: neither pulls into it
\* while the other reads it, decides on its age or pulls into it too.
ExclusiveUse ==
    \A s \in Schemas : \A p, q \in Procs : Uses(p, s) /\ Uses(q, s) => p = q

Fresh(s) == \E p \in Applies : ~CacheExpired(p, s)

\* When all processes are applies with one cache time, data that an apply would
\* take from the cache is one complete pull, also after crashes and failed pulls.
FreshIsPulled == \A s \in Schemas : Fresh(s) => full[s]

\* Such an apply runs rules over tables that are not one complete pull only if it
\* met an error it reports, could not download the provider, or asks for a schema
\* that Sync did not work on.
PartialIsReported ==
    \A p \in Applies :
        pc[p] = "run" /\ More(p) =>
            \/ full[Asked(p)] \/ errored[p]
            \/ decl[p] \in missed[p] \/ Asked(p) # Pulled(p)

\* q, which takes no lock, drops the tables of s, creates them or pulls into them.
Intrudes(q, s) ==
    /\ q \in Procs \ Applies
    /\ pc[q] \in {"drop", "create", "pull"} /\ Pulled(q) = s
    /\ <<pc[q], decl[q]>>' # <<pc[q], decl[q]>>

\* While the rules of an apply read a schema that it locked, no apply changes the
\* tables: only a fetch or an update, which take no lock, can.
StableWhileRead ==
    [][\A p \in Applies, s \in Schemas :
          pc[p] = "run" /\ Uses(p, s) =>
              \/ full'[s] = full[s] /\ writer'[s] = writer[s]
              \/ \E q \in Procs : Intrudes(q, s)]_vars

\* The chain of the processes that wait for each other's locks, from p on.
WaitsFor(p) ==
    IF pc[p] = "lock" /\ lock[Pulled(p)] # Free THEN {lock[Pulled(p)][1]} ELSE {}

Chain(p) ==
    LET chain[n \in 0..Cardinality(Procs)] ==
            IF n = 0 THEN {p} ELSE UNION {WaitsFor(q) : q \in chain[n - 1]}
    IN chain

\* p waits for a lock that its owner could not release, because it died or UnLock
\* failed, or for a process that, waiting in its turn, waits for itself.
Doomed(p) ==
    \E n \in 1..Cardinality(Procs) :
        \E q \in Chain(p)[n] :
            \/ pc[q] = "crashed"
            \/ pc[q] = "done" /\ "unlock" \in Faults
            \/ n = Cardinality(Procs)

\* A process ends, unless it waits for a lock that its owner could not release or in
\* a cycle of processes that took their locks in different orders: apply releases
\* its locks on every path on which it returns, also after errors of Sync.
EndsOrDoomed == \A p \in Procs : <>(pc[p] \in Gone \/ Doomed(p))

Synced == INSTANCE CachedSchema WITH fresh <- [s \in Schemas |-> Fresh(s)]

CachedSchemaSpec == Synced!Spec
=============================================================================
