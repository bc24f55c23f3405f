-------------------------- MODULE SchemaSyncProofs --------------------------
(***************************************************************************)
(* Proofs about SchemaSync, for any processes, schemas, declarations and   *)
(* cache times: who uses a schema owns its lock; while the processes are   *)
(* applies with one cache time, data that is taken for fresh is one        *)
(* complete pull.                                                          *)
(***************************************************************************)
EXTENDS SchemaSync, TLAPS

-----------------------------------------------------------------------------
(* The inductive invariants. *)

\* Only an apply is in Sync or runs rules, and a step about a declaration has one.
StepInv ==
    \A p \in Procs :
        /\ pc[p] \in {"open", "lock", "check", "stamp", "run", "unlock"} => p \in Applies
        /\ pc[p] \in {"lock", "check", "drop", "create", "pull", "stamp"} => More(p)
        /\ p \in Applies /\ pc[p] = "start" => More(p)

\* A process owns the lock of every declaration in its lockSlice, which has each
\* declaration once.
Owns(p, i) == i \in 1..Len(Decls[p]) /\ lock[Decls[p][i].pull] = <<p, i>>

Keeps(p) ==
    /\ \A n \in DOMAIN held[p] : Owns(p, held[p][n])
    /\ \A m, n \in DOMAIN held[p] : held[p][m] = held[p][n] => m = n

LockInv == \A p \in Procs : pc[p] \notin Gone => Keeps(p)

\* From the locking to the end of its turn Sync holds the lock of the declaration.
Works(p) == pc[p] \in {"check", "stamp"} \cup FetchSteps

WorkInv == \A p \in Applies : Works(p) => Holds(p, decl[p])

SyncInv == TypeOK /\ StepInv /\ LockInv /\ WorkInv

\* Of applies with one cache time, which can read the update time: while a schema
\* is pulled its data counts as expired, nobody else fills it, and it is complete
\* when its update time is to be stored.
Uniform ==
    /\ Applies = Procs
    /\ \A p, q \in Procs : Cache[p] = Cache[q]
    /\ "read" \notin Faults

PullInv ==
    \A p \in Procs :
        /\ pc[p] \in {"stamp"} \cup FetchSteps => CacheExpired(p, Pulled(p))
        /\ pc[p] \in {"create", "pull"} => writer[Pulled(p)] = p
        /\ pc[p] = "stamp" => full[Pulled(p)]

\* What Sync is done with is complete and locked, or an error was noted, or the
\* provider was left out.
Settled(p, i) ==
    \/ i \in missed[p] \/ errored[p]
    \/ Holds(p, i) /\ full[Decls[p][i].pull]

DoneInv ==
    \A p \in Procs : \A i \in 1..Len(Decls[p]) :
        (pc[p] \in SyncSteps /\ i < decl[p]) \/ pc[p] = "run" => Settled(p, i)

DataInv == FreshIsPulled /\ PullInv /\ DoneInv

-----------------------------------------------------------------------------
(* Types. *)

LEMMA InitType == Init => TypeOK
  BY SyncAssumption DEF Init, TypeOK, Steps, SyncSteps, FetchSteps, Gone, NoTime, Free

LEMMA StoreType ==
  ASSUME NEW S, NEW T, NEW f \in [S -> T], NEW x, NEW v \in T
  PROVE  [f EXCEPT ![x] = v] \in [S -> T]
  OBVIOUS

\* The two ways in which a process goes on keep the types of pc and decl.
LEMMA GoOnType ==
  ASSUME TypeOK, NEW p \in Procs, NEW step \in Steps, Goto(p, step) \/ Continue(p, step)
  PROVE  pc' \in [Procs -> Steps] /\ decl' \in [Procs -> Nat \ {0}]
<1>1. CASE Goto(p, step)
  BY <1>1 DEF TypeOK, Goto
<1>2. CASE Continue(p, step)
  BY <1>2 DEF TypeOK, Continue
<1> QED
  BY <1>1, <1>2

LEMMA NextType ==
  ASSUME TypeOK, [Next]_vars
  PROVE  TypeOK'
<1> USE SyncAssumption
    DEF TypeOK, Steps, SyncSteps, FetchSteps, Gone, Goto, Continue, LoopEnds, Fail,
        procVars, dbVars
<1>1. ASSUME NEW p \in Procs, Sync(p)
      PROVE  TypeOK'
  <2>1. CASE DownloadFails(p)
    BY <2>1 DEF DownloadFails
  <2>2. CASE OpenStorage(p) \/ OpenFails(p)
    <3>1. CASE OpenStorage(p)
      BY <3>1 DEF OpenStorage
    <3>2. CASE OpenFails(p)
      BY <3>2 DEF OpenFails
    <3> QED
      BY <2>2, <3>1, <3>2
  <2>3. CASE LockSchema(p)
    <3>1. <<p, decl[p]>> \in Procs \X (Nat \ {0})
      OBVIOUS
    <3>2. lock' \in [Schemas -> (Procs \X (Nat \ {0})) \cup {Free}]
      BY <2>3, <3>1 DEF LockSchema
    <3>3. held' \in [Procs -> Seq(Nat \ {0})]
      BY <2>3 DEF LockSchema
    <3> QED
      BY <2>3, <3>2, <3>3 DEF LockSchema
  <2>4. CASE CacheIsOld(p) \/ UseCache(p) \/ SyncReturns(p)
    <3>1. CASE CacheIsOld(p)
      BY <3>1 DEF CacheIsOld
    <3>2. CASE UseCache(p)
      BY <3>2 DEF UseCache
    <3>3. CASE SyncReturns(p)
      BY <3>3 DEF SyncReturns
    <3> QED
      BY <2>4, <3>1, <3>2, <3>3
  <2>5. CASE SetUpdateTime(p) \/ SetUpdateTimeFails(p)
    <3>1. CASE SetUpdateTime(p)
      <4>1. age' \in [Schemas -> Int]
        BY <3>1, StoreType, 0 \in Int DEF SetUpdateTime
      <4>2. Continue(p, "open") /\ "open" \in Steps
        BY <3>1 DEF SetUpdateTime
      <4>4. pc' \in [Procs -> Steps] /\ decl' \in [Procs -> Nat \ {0}]
        BY <4>2, GoOnType
      <4>3. UNCHANGED <<held, missed, errored, lock, full, writer>>
        BY <3>1 DEF SetUpdateTime
      <4> QED
        BY <4>1, <4>3, <4>4
    <3>2. CASE SetUpdateTimeFails(p)
      BY <3>2 DEF SetUpdateTimeFails
    <3> QED
      BY <2>5, <3>1, <3>2
  <2> QED
    BY <1>1, <2>1, <2>2, <2>3, <2>4, <2>5 DEF Sync
<1>2. ASSUME NEW p \in Procs, Fetch(p)
      PROVE  TypeOK'
  <2>1. CASE StartPlugin(p) \/ FetchCommandEnds(p)
    <3>1. CASE StartPlugin(p)
      BY <3>1 DEF StartPlugin
    <3>2. CASE FetchCommandEnds(p)
      BY <3>2 DEF FetchCommandEnds
    <3> QED
      BY <2>1, <3>1, <3>2
  <2>2. CASE DropTables(p)
    BY <2>2 DEF DropTables
  <2>3. CASE CreateTables(p)
    BY <2>3 DEF CreateTables
  <2>4. CASE PullTables(p)
    <3>1. full' \in [Schemas -> BOOLEAN]
      <4>1. PICK b \in BOOLEAN : full' = [full EXCEPT ![Pulled(p)] = b]
        BY <2>4, Zenon DEF PullTables
      <4> QED
        BY <4>1
    <3>2. pc' \in [Procs -> Steps] /\ decl' \in [Procs -> Nat \ {0}]
      <4>1. Goto(p, "stamp") \/ Continue(p, "start")
        BY <2>4 DEF PullTables, FetchReturns
      <4> QED
        BY <4>1, GoOnType
    <3>3. UNCHANGED <<held, missed, errored, lock, writer, age>>
      BY <2>4 DEF PullTables
    <3> QED
      BY <3>1, <3>2, <3>3
  <2>5. CASE FetchFails(p)
    <3>1. full' \in [Schemas -> BOOLEAN] /\ writer' \in [Schemas -> Procs \cup {NoProc}]
      <4>1. CASE UNCHANGED <<full, writer>>
        BY <4>1
      <4>2. CASE ~UNCHANGED <<full, writer>>
        BY <2>5, <4>2 DEF FetchFails
      <4> QED
        BY <4>1, <4>2
    <3>2. pc' \in [Procs -> Steps] /\ decl' \in [Procs -> Nat \ {0}]
      <4>1. Goto(p, "done") \/ Continue(p, "open")
        BY <2>5 DEF FetchFails, FetchGivesUp
      <4> QED
        BY <4>1, GoOnType
    <3>3. errored' \in [Procs -> BOOLEAN]
      BY <2>5 DEF FetchFails, FetchGivesUp
    <3>4. UNCHANGED <<held, missed, lock, age>>
      BY <2>5 DEF FetchFails
    <3> QED
      BY <3>1, <3>2, <3>3, <3>4
  <2> QED
    BY <1>2, <2>1, <2>2, <2>3, <2>4, <2>5 DEF Fetch
<1>3. ASSUME NEW p \in Procs, Finish(p)
      PROVE  TypeOK'
  <2>1. CASE RunRules(p) \/ ApplyReturns(p) \/ Exit(p)
    <3>1. CASE RunRules(p)
      BY <3>1 DEF RunRules
    <3>2. CASE ApplyReturns(p)
      BY <3>2 DEF ApplyReturns
    <3>3. CASE Exit(p)
      BY <3>3 DEF Exit
    <3> QED
      BY <2>1, <3>1, <3>2, <3>3
  <2>2. CASE UnlockSchema(p)
    <3>1. held' \in [Procs -> Seq(Nat \ {0})]
      BY <2>2 DEF UnlockSchema
    <3>2. lock' \in [Schemas -> (Procs \X (Nat \ {0})) \cup {Free}]
      BY <2>2 DEF UnlockSchema
    <3> QED
      BY <2>2, <3>1, <3>2 DEF UnlockSchema
  <2> QED
    BY <1>3, <2>1, <2>2 DEF Finish
<1>4. ASSUME NEW p \in Procs, Crash(p)
      PROVE  TypeOK'
  BY <1>4 DEF Crash
<1>5. ASSUME NEW s \in Schemas, FreeLeftLock(s)
      PROVE  TypeOK'
  BY <1>5 DEF FreeLeftLock
<1>6. CASE TimePasses
  <2>1. age' \in [Schemas -> Int]
    BY <1>6 DEF TimePasses
  <2> QED
    BY <1>6, <2>1 DEF TimePasses
<1>7. CASE UNCHANGED vars
  BY <1>7 DEF vars
<1> QED
  BY <1>1, <1>2, <1>3, <1>4, <1>5, <1>6, <1>7 DEF Next, Run

(* The state has its type: SchemaSync.TypeOK. *)
THEOREM TypeCorrect == Spec => []TypeOK
<1>1. Init => TypeOK
  BY InitType
<1>2. TypeOK /\ [Next]_vars => TypeOK'
  BY NextType
<1> QED
  BY <1>1, <1>2, PTL DEF Spec

-----------------------------------------------------------------------------
(* Who owns the locks. *)

LEMMA InitSync == Init => SyncInv
<1> SUFFICES ASSUME Init PROVE SyncInv
  OBVIOUS
<1>1. TypeOK
  BY InitType
<1>2. StepInv
  BY SyncAssumption DEF Init, StepInv
<1>3. LockInv /\ WorkInv
  BY SyncAssumption DEF Init, LockInv, Keeps, WorkInv, Works, FetchSteps
<1> QED
  BY <1>1, <1>2, <1>3 DEF SyncInv

\* A step of p leaves the other processes where they are.
Still(q) ==
    /\ pc'[q] = pc[q] /\ decl'[q] = decl[q] /\ held'[q] = held[q]
    /\ missed'[q] = missed[q] /\ errored'[q] = errored[q]

LEMMA OneMoves ==
  ASSUME TypeOK, NEW p \in Procs, Run(p) \/ Crash(p), NEW q \in Procs, q # p
  PROVE  Still(q)
<1> USE DEF TypeOK, Still, Goto, Continue, LoopEnds, Fail, procVars, dbVars
<1>1. CASE Sync(p)
  <2>1. CASE DownloadFails(p)
    BY <2>1 DEF DownloadFails
  <2>2. CASE OpenStorage(p)
    BY <2>2 DEF OpenStorage
  <2>3. CASE OpenFails(p)
    BY <2>3 DEF OpenFails
  <2>4. CASE LockSchema(p)
    BY <2>4 DEF LockSchema
  <2>5. CASE CacheIsOld(p)
    BY <2>5 DEF CacheIsOld
  <2>6. CASE UseCache(p)
    BY <2>6 DEF UseCache
  <2>7. CASE SetUpdateTime(p)
    BY <2>7 DEF SetUpdateTime
  <2>8. CASE SetUpdateTimeFails(p)
    BY <2>8 DEF SetUpdateTimeFails
  <2>9. CASE SyncReturns(p)
    BY <2>9 DEF SyncReturns
  <2> QED
    BY <1>1, <2>1, <2>2, <2>3, <2>4, <2>5, <2>6, <2>7, <2>8, <2>9 DEF Sync
<1>2. CASE Fetch(p)
  <2>1. CASE StartPlugin(p)
    BY <2>1 DEF StartPlugin
  <2>2. CASE DropTables(p)
    BY <2>2 DEF DropTables
  <2>3. CASE CreateTables(p)
    BY <2>3 DEF CreateTables
  <2>4. CASE PullTables(p)
    BY <2>4 DEF PullTables, FetchReturns
  <2>5. CASE FetchFails(p)
    BY <2>5 DEF FetchFails, FetchGivesUp
  <2>6. CASE FetchCommandEnds(p)
    BY <2>6 DEF FetchCommandEnds
  <2> QED
    BY <1>2, <2>1, <2>2, <2>3, <2>4, <2>5, <2>6 DEF Fetch
<1>3. CASE Finish(p)
  <2>1. CASE RunRules(p)
    BY <2>1 DEF RunRules
  <2>2. CASE ApplyReturns(p)
    BY <2>2 DEF ApplyReturns
  <2>3. CASE UnlockSchema(p)
    BY <2>3 DEF UnlockSchema
  <2>4. CASE Exit(p)
    BY <2>4 DEF Exit
  <2> QED
    BY <1>3, <2>1, <2>2, <2>3, <2>4 DEF Finish
<1>4. CASE Crash(p)
  BY <1>4 DEF Crash
<1> QED
  BY <1>1, <1>2, <1>3, <1>4 DEF Run

\* The steps of p, by what they do to its place.
LEMMA StepOfOne ==
  ASSUME TypeOK, StepInv, NEW p \in Procs, Run(p) \/ Crash(p)
  PROVE  StepInv'
<1> USE DEF TypeOK, Goto, Continue, LoopEnds, FetchSteps
<1> DEFINE Good(q) ==
        /\ pc[q] \in {"open", "lock", "check", "stamp", "run", "unlock"} => q \in Applies
        /\ pc[q] \in {"lock", "check", "drop", "create", "pull", "stamp"} => More(q)
        /\ q \in Applies /\ pc[q] = "start" => More(q)
<1>1. Good(p)'
  <2> USE DEF StepInv, More
  <2>1. CASE Sync(p)
    <3>1. CASE DownloadFails(p)
      BY <3>1 DEF DownloadFails
    <3>2. CASE OpenStorage(p)
      BY <3>2 DEF OpenStorage
    <3>3. CASE OpenFails(p)
      BY <3>3 DEF OpenFails
    <3>4. CASE LockSchema(p)
      BY <3>4 DEF LockSchema
    <3>5. CASE CacheIsOld(p)
      BY <3>5 DEF CacheIsOld
    <3>6. CASE UseCache(p)
      BY <3>6 DEF UseCache
    <3>7. CASE SetUpdateTime(p)
      BY <3>7 DEF SetUpdateTime
    <3>8. CASE SetUpdateTimeFails(p)
      BY <3>8 DEF SetUpdateTimeFails
    <3>9. CASE SyncReturns(p)
      BY <3>9 DEF SyncReturns
    <3> QED
      BY <2>1, <3>1, <3>2, <3>3, <3>4, <3>5, <3>6, <3>7, <3>8, <3>9 DEF Sync
  <2>2. CASE Fetch(p)
    <3>1. CASE StartPlugin(p)
      BY <3>1 DEF StartPlugin
    <3>2. CASE DropTables(p)
      BY <3>2 DEF DropTables
    <3>3. CASE CreateTables(p)
      BY <3>3 DEF CreateTables
    <3>4. CASE PullTables(p)
      BY <3>4 DEF PullTables, FetchReturns
    <3>5. CASE FetchFails(p)
      BY <3>5 DEF FetchFails, FetchGivesUp
    <3>6. CASE FetchCommandEnds(p)
      BY <3>6 DEF FetchCommandEnds
    <3> QED
      BY <2>2, <3>1, <3>2, <3>3, <3>4, <3>5, <3>6 DEF Fetch
  <2>3. CASE Finish(p)
    <3>1. CASE RunRules(p)
      BY <3>1 DEF RunRules
    <3>2. CASE ApplyReturns(p)
      BY <3>2 DEF ApplyReturns
    <3>3. CASE UnlockSchema(p)
      BY <3>3 DEF UnlockSchema
    <3>4. CASE Exit(p)
      BY <3>4 DEF Exit
    <3> QED
      BY <2>3, <3>1, <3>2, <3>3, <3>4 DEF Finish
  <2>4. CASE Crash(p)
    BY <2>4 DEF Crash
  <2> QED
    BY <2>1, <2>2, <2>3, <2>4 DEF Run
<1>2. ASSUME NEW q \in Procs, q # p
      PROVE  Good(q)'
  <2>1. Still(q)
    BY <1>2, OneMoves
  <2> QED
    BY <2>1, <1>2 DEF StepInv, Still, More
<1> QED
  BY <1>1, <1>2 DEF StepInv

\* Only two steps of a process change a lock or its list of locks.
LEMMA LocksStay ==
  ASSUME NEW p \in Procs, Run(p) \/ Crash(p), ~LockSchema(p), ~UnlockSchema(p)
  PROVE  UNCHANGED <<lock, held>>
  BY DEF Run, Sync, Fetch, Finish, Crash, DownloadFails, OpenStorage, OpenFails, CacheIsOld,
         UseCache, SetUpdateTime, SetUpdateTimeFails, SyncReturns, StartPlugin, DropTables,
         CreateTables, PullTables, FetchFails, FetchCommandEnds, RunRules, ApplyReturns, Exit,
         dbVars

LEMMA NotGone ==
  ASSUME NEW p \in Procs, Run(p) \/ Crash(p)
  PROVE  pc[p] \notin Gone
  BY DEF Run, Sync, Fetch, Finish, Crash, DownloadFails, OpenStorage, OpenFails, CacheIsOld,
         UseCache, SetUpdateTime, SetUpdateTimeFails, SyncReturns, StartPlugin, DropTables,
         CreateTables, PullTables, FetchFails, FetchCommandEnds, RunRules, ApplyReturns, Exit,
         LockSchema, UnlockSchema, Gone, FetchSteps

LEMMA PullIsSchema ==
  ASSUME NEW q \in Procs, NEW i \in 1..Len(Decls[q])
  PROVE  Decls[q][i].pull \in Schemas /\ Decls[q][i].query \in Schemas
<1>1. Decls[q] \in Seq(Decl)
  BY SyncAssumption
<1>2. Decls[q][i] \in Decl
  BY <1>1
<1> QED
  BY <1>2 DEF Decl

LEMMA TailElements ==
  ASSUME NEW S, NEW l \in Seq(S), l # <<>>, NEW n \in DOMAIN Tail(l)
  PROVE  n \in Nat \ {0} /\ n + 1 \in DOMAIN l /\ Tail(l)[n] = l[n + 1]
  OBVIOUS

\* p owns the lock of declaration i after the step.
OwnsNext(p, i) == i \in 1..Len(Decls[p]) /\ lock'[Decls[p][i].pull] = <<p, i>>

LEMMA LocksOfOne ==
  ASSUME TypeOK, StepInv, LockInv, NEW p \in Procs, Run(p) \/ Crash(p)
  PROVE  LockInv'
<1> USE SyncAssumption
<1>1. ASSUME NEW q \in Procs, pc'[q] \notin Gone
      PROVE  pc[q] \notin Gone
  BY <1>1, NotGone, OneMoves DEF Still
<1>2. CASE LockSchema(p)
  <2> DEFINE s == Pulled(p)
  <2>1. /\ lock[s] = Free /\ More(p) /\ s \in Schemas
        /\ lock' = [lock EXCEPT ![s] = <<p, decl[p]>>]
        /\ held' = [held EXCEPT ![p] = Append(@, decl[p])]
    <3>1. pc[p] = "lock"
      BY <1>2 DEF LockSchema
    <3>2. More(p)
      BY <3>1 DEF StepInv
    <3>3. decl[p] \in 1..Len(Decls[p]) /\ Decls[p] \in Seq(Decl)
      BY <3>2 DEF TypeOK, More
    <3>4. Decls[p][decl[p]] \in Decl
      BY <3>3
    <3> QED
      BY <1>2, <3>2, <3>4 DEF LockSchema, Pulled, Decl
  <2>2. ASSUME NEW q \in Procs, NEW i, Owns(q, i)
        PROVE  OwnsNext(q, i) /\ <<q, i>> # <<p, decl[p]>>
    <3>1. lock[Decls[q][i].pull] = <<q, i>> /\ q # NoProc
      BY <2>2 DEF Owns
    <3>2. Decls[q][i].pull # s
      BY <3>1, <2>1 DEF Free
    <3> QED
      BY <2>1, <2>2, <3>1, <3>2 DEF Owns, OwnsNext, TypeOK, Pulled
  <2>3. OwnsNext(p, decl[p])
    BY <2>1 DEF OwnsNext, More, Pulled, TypeOK
  <2>4. ASSUME NEW q \in Procs, q # p, pc'[q] \notin Gone
        PROVE  Keeps(q)'
    <3>1. Keeps(q) /\ held'[q] = held[q]
      BY <2>4, <1>1, <2>1 DEF LockInv, TypeOK
    <3>2. \A n \in DOMAIN held[q] : OwnsNext(q, held[q][n])
      BY <3>1, <2>2, <2>4 DEF Keeps
    <3> QED
      BY <3>1, <3>2 DEF Keeps, Owns, OwnsNext
  <2>5. ASSUME pc'[p] \notin Gone
        PROVE  Keeps(p)'
    <3>1. Keeps(p)
      BY <2>5, <1>1 DEF LockInv
    <3>2. held[p] \in Seq(Nat \ {0}) /\ decl[p] \in Nat \ {0}
      BY DEF TypeOK
    <3>3. held'[p] = Append(held[p], decl[p])
      BY <2>1 DEF TypeOK
    <3>4. DOMAIN held'[p] = DOMAIN held[p] \cup {Len(held[p]) + 1}
      BY <3>2, <3>3
    <3>5. \A n \in DOMAIN held[p] : held'[p][n] = held[p][n] /\ n # Len(held[p]) + 1
      BY <3>2, <3>3
    <3>6. held'[p][Len(held[p]) + 1] = decl[p]
      BY <3>2, <3>3
    <3>7. ASSUME NEW n \in DOMAIN held[p]
          PROVE  OwnsNext(p, held[p][n]) /\ held[p][n] # decl[p]
      <4>1. Owns(p, held[p][n])
        BY <3>1 DEF Keeps
      <4> QED
        BY <4>1, <2>2
    <3>8. \A n \in DOMAIN held'[p] : OwnsNext(p, held'[p][n])
      BY <3>4, <3>5, <3>6, <3>7, <2>3
    <3>9. \A m, n \in DOMAIN held'[p] : held'[p][m] = held'[p][n] => m = n
      BY <3>1, <3>4, <3>5, <3>6, <3>7 DEF Keeps
    <3> QED
      BY <3>8, <3>9 DEF Keeps, OwnsNext, Owns
  <2> QED
    BY <2>4, <2>5, <1>1 DEF LockInv
<1>3. CASE UnlockSchema(p)
  <2> DEFINE i0 == Head(held[p])
             s  == Decls[p][i0].pull
  <2>1. /\ held[p] # <<>> /\ held' = [held EXCEPT ![p] = Tail(@)]
        /\ lock' = [lock EXCEPT ![s] = Free] \/ lock' = lock
        /\ pc[p] = "unlock" /\ pc' = pc /\ Keeps(p)
    BY <1>3 DEF UnlockSchema, LockInv, Gone
  <2>2. held[p] \in Seq(Nat \ {0}) /\ 1 \in DOMAIN held[p] /\ i0 = held[p][1]
    BY <2>1 DEF TypeOK
  <2>3. lock[s] = <<p, i0>>
    BY <2>1, <2>2 DEF Keeps, Owns
  <2>4. ASSUME NEW q \in Procs, NEW i, Owns(q, i), <<q, i>> # <<p, i0>>
        PROVE  OwnsNext(q, i)
    <3>1. Decls[q][i].pull # s
      BY <2>3, <2>4 DEF Owns
    <3>2. Decls[q][i].pull \in Schemas
      BY <2>4, PullIsSchema DEF Owns
    <3> QED
      BY <2>1, <2>4, <3>1, <3>2 DEF Owns, OwnsNext, TypeOK
  <2>5. ASSUME NEW q \in Procs, q # p, pc'[q] \notin Gone
        PROVE  Keeps(q)'
    <3>1. Keeps(q) /\ held'[q] = held[q]
      BY <2>5, <1>1, <2>1 DEF LockInv, TypeOK
    <3>2. \A n \in DOMAIN held[q] : OwnsNext(q, held[q][n])
      BY <3>1, <2>4, <2>5 DEF Keeps
    <3> QED
      BY <3>1, <3>2 DEF Keeps, Owns, OwnsNext
  <2>6. Keeps(p)'
    <3>1. held'[p] = Tail(held[p])
      BY <2>1 DEF TypeOK
    <3>2. \A n \in DOMAIN held'[p] :
              n + 1 \in DOMAIN held[p] /\ held'[p][n] = held[p][n + 1] /\ n \in Nat \ {0}
      <4>1. held[p] \in Seq(Nat \ {0}) /\ held[p] # <<>>
        BY <2>1, <2>2
      <4>2. ASSUME NEW n \in DOMAIN Tail(held[p])
            PROVE  /\ n \in Nat \ {0} /\ n + 1 \in DOMAIN held[p]
                   /\ Tail(held[p])[n] = held[p][n + 1]
        BY <4>1, <4>2, TailElements
      <4> QED
        BY <3>1, <4>2
    <3>3. ASSUME NEW n \in DOMAIN held'[p]
          PROVE  OwnsNext(p, held'[p][n])
      <4>1. n + 1 \in DOMAIN held[p] /\ n + 1 # 1 /\ held'[p][n] = held[p][n + 1]
        BY <3>2
      <4>2. held[p][n + 1] # i0 /\ Owns(p, held[p][n + 1])
        BY <4>1, <2>1, <2>2 DEF Keeps
      <4> QED
        BY <4>1, <4>2, <2>4
    <3>4. ASSUME NEW m \in DOMAIN held'[p], NEW n \in DOMAIN held'[p],
                 held'[p][m] = held'[p][n]
          PROVE  m = n
      <4>1. m + 1 = n + 1 /\ m \in Nat /\ n \in Nat
        BY <3>2, <3>4, <2>1 DEF Keeps
      <4> QED
        BY <4>1
    <3> QED
      BY <3>3, <3>4 DEF Keeps, Owns, OwnsNext
  <2> QED
    BY <2>5, <2>6 DEF LockInv
<1>4. CASE ~LockSchema(p) /\ ~UnlockSchema(p)
  <2>1. UNCHANGED <<lock, held>>
    BY <1>4, LocksStay
  <2> QED
    BY <2>1, <1>1 DEF LockInv, Keeps, Owns
<1> QED
  BY <1>2, <1>3, <1>4

LEMMA WorkOfOne ==
  ASSUME TypeOK, WorkInv, NEW p \in Procs, Run(p) \/ Crash(p)
  PROVE  WorkInv'
<1>1. ASSUME NEW q \in Applies, q # p, Works(q)'
      PROVE  Holds(q, decl[q])'
  <2>1. q \in Procs /\ Still(q)
    BY <1>1, OneMoves, SyncAssumption
  <2> QED
    BY <1>1, <2>1 DEF WorkInv, Works, Holds, Still
<1>2. ASSUME p \in Applies, Works(p)'
      PROVE  Holds(p, decl[p])'
  <2> USE <1>2 DEF Works, TypeOK, Goto, Continue, LoopEnds, FetchSteps
  <2>1. CASE LockSchema(p)
    <3>1. held'[p] = Append(held[p], decl[p]) /\ decl' = decl
      BY <2>1 DEF LockSchema
    <3>2. held[p] \in Seq(Nat \ {0})
      OBVIOUS
    <3>3. Len(held[p]) + 1 \in DOMAIN held'[p] /\ held'[p][Len(held[p]) + 1] = decl[p]
      BY <3>1, <3>2
    <3> QED
      BY <3>1, <3>3 DEF Holds
  <2>2. CASE ~LockSchema(p)
    <3>1. CASE Sync(p)
      <4>1. CASE CacheIsOld(p)
        BY <4>1 DEF CacheIsOld, WorkInv, Holds
      <4> QED
        BY <3>1, <2>2, <4>1 DEF Sync, DownloadFails, OpenStorage, OpenFails, UseCache,
                               SetUpdateTime, SetUpdateTimeFails, SyncReturns
    <3>2. CASE Fetch(p)
      <4>1. CASE StartPlugin(p)
        BY <4>1 DEF StartPlugin, WorkInv, Holds
      <4>2. CASE DropTables(p)
        BY <4>2 DEF DropTables, WorkInv, Holds
      <4>3. CASE CreateTables(p)
        BY <4>3 DEF CreateTables, WorkInv, Holds
      <4>4. CASE PullTables(p)
        BY <4>4 DEF PullTables, FetchReturns, WorkInv, Holds
      <4>5. CASE FetchFails(p) \/ FetchCommandEnds(p)
        BY <4>5 DEF FetchFails, FetchGivesUp, FetchCommandEnds
      <4> QED
        BY <3>2, <4>1, <4>2, <4>3, <4>4, <4>5 DEF Fetch
    <3>3. CASE Finish(p) \/ Crash(p)
      BY <3>3 DEF Finish, RunRules, ApplyReturns, UnlockSchema, Exit, Crash
    <3> QED
      BY <3>1, <3>2, <3>3 DEF Run
  <2> QED
    BY <2>1, <2>2
<1> QED
  BY <1>1, <1>2 DEF WorkInv

LEMMA NextSync ==
  ASSUME SyncInv, [Next]_vars
  PROVE  SyncInv'
<1> USE DEF SyncInv
<1>1. TypeOK'
  BY NextType
<1>2. ASSUME NEW p \in Procs, Run(p) \/ Crash(p)
      PROVE  StepInv' /\ LockInv' /\ WorkInv'
  BY <1>2, StepOfOne, LocksOfOne, WorkOfOne
<1>3. ASSUME NEW s \in Schemas, FreeLeftLock(s)
      PROVE  StepInv' /\ LockInv' /\ WorkInv'
  <2>1. /\ lock[s][1] \notin {p \in Procs : pc[p] \notin Gone}
        /\ lock' = [lock EXCEPT ![s] = Free] /\ UNCHANGED <<pc, decl, held>>
    BY <1>3 DEF FreeLeftLock, procVars
  <2>2. StepInv' /\ WorkInv'
    BY <2>1 DEF StepInv, WorkInv, Works, Holds, More
  <2>3. ASSUME NEW q \in Procs, pc[q] \notin Gone
        PROVE  Keeps(q)'
    <3>1. ASSUME NEW i, Owns(q, i)
          PROVE  OwnsNext(q, i)
      <4>1. Decls[q][i].pull \in Schemas /\ Decls[q][i].pull # s
        BY <2>1, <2>3, <3>1, PullIsSchema DEF Owns
      <4> QED
        BY <2>1, <3>1, <4>1 DEF Owns, OwnsNext, TypeOK
    <3>2. Keeps(q)
      BY <2>3 DEF LockInv
    <3> QED
      BY <2>1, <3>1, <3>2 DEF Keeps, Owns, OwnsNext
  <2> QED
    BY <2>1, <2>2, <2>3 DEF LockInv
<1>4. CASE TimePasses \/ UNCHANGED vars
  <2>1. UNCHANGED <<pc, decl, held, lock>>
    BY <1>4 DEF TimePasses, vars, procVars, dbVars
  <2>2. StepInv' /\ WorkInv'
    BY <2>1 DEF StepInv, WorkInv, Works, Holds, More
  <2>3. ASSUME NEW q \in Procs, pc[q] \notin Gone
        PROVE  Keeps(q)'
    <3>1. Keeps(q)
      BY <2>3 DEF LockInv
    <3> QED
      BY <2>1, <3>1 DEF Keeps, Owns
  <2> QED
    BY <1>1, <2>1, <2>2, <2>3 DEF LockInv
<1> QED
  BY <1>1, <1>2, <1>3, <1>4 DEF Next

LEMMA SyncInvariant == Spec => []SyncInv
<1>1. SyncInv /\ [Next]_vars => SyncInv'
  BY NextSync
<1> QED
  BY InitSync, <1>1, PTL DEF Spec

\* Who uses a schema owns its lock.
LEMMA UserOwns ==
  ASSUME SyncInv, NEW p \in Procs, NEW s, Uses(p, s)
  PROVE  s \in Schemas /\ lock[s] = <<p, decl[p]>> /\ Pulled(p) = s
<1>1. p \in Applies /\ Holds(p, decl[p]) /\ Pulled(p) = s /\ pc[p] \notin Gone
  BY DEF Uses, SyncInv, WorkInv, Works, Gone, FetchSteps
<1>2. Owns(p, decl[p])
  BY <1>1 DEF SyncInv, LockInv, Keeps, Holds
<1>3. decl[p] \in 1..Len(Decls[p]) /\ lock[Decls[p][decl[p]].pull] = <<p, decl[p]>>
  BY <1>2 DEF Owns
<1> QED
  BY <1>1, <1>3, PullIsSchema DEF Pulled

(* No schema is used by two applies at once: neither pulls into it while   *)
(* the other reads it, decides on its age or pulls into it too.            *)
THEOREM SchemasAreExclusive == Spec => []ExclusiveUse
<1>1. ASSUME SyncInv
      PROVE  ExclusiveUse
  <2>1. ASSUME NEW s \in Schemas, NEW p \in Procs, NEW q \in Procs, Uses(p, s), Uses(q, s)
        PROVE  p = q
    <3>1. lock[s] = <<p, decl[p]>> /\ lock[s] = <<q, decl[q]>>
      BY <1>1, <2>1, UserOwns
    <3> QED
      BY <3>1
  <2> QED
    BY <2>1 DEF ExclusiveUse
<1> QED
  BY <1>1, SyncInvariant, PTL

-----------------------------------------------------------------------------
(* Who changes the data of a schema. *)

Same(s) == full'[s] = full[s] /\ writer'[s] = writer[s] /\ age'[s] = age[s]

\* Only a process that pulls the schema does, in four of its steps, and goes on.
LEMMA ChangerPulls ==
  ASSUME TypeOK, NEW p \in Procs, Run(p) \/ Crash(p), NEW s \in Schemas, ~Same(s)
  PROVE  /\ pc[p] \in {"drop", "create", "pull", "stamp"} /\ Pulled(p) = s
         /\ <<pc[p], decl[p]>>' # <<pc[p], decl[p]>>
         /\ pc[p] = "stamp" => full'[s] = full[s] /\ writer'[s] = writer[s]
<1> USE DEF TypeOK, Same, Goto, Continue, dbVars
<1>1. CASE DropTables(p)
  BY <1>1 DEF DropTables
<1>2. CASE CreateTables(p)
  BY <1>2 DEF CreateTables
<1>3. CASE PullTables(p)
  BY <1>3 DEF PullTables, FetchReturns
<1>4. CASE FetchFails(p)
  BY <1>4 DEF FetchFails, FetchGivesUp
<1>5. CASE SetUpdateTime(p)
  BY <1>5 DEF SetUpdateTime
<1>6. CASE Sync(p) /\ ~SetUpdateTime(p)
  BY <1>6 DEF Sync, DownloadFails, OpenStorage, OpenFails, LockSchema, CacheIsOld, UseCache,
              SetUpdateTimeFails, SyncReturns
<1>7. CASE StartPlugin(p) \/ FetchCommandEnds(p) \/ Finish(p) \/ Crash(p)
  BY <1>7 DEF StartPlugin, FetchCommandEnds, Finish, RunRules, ApplyReturns, UnlockSchema,
              Exit, Crash
<1> QED
  BY <1>1, <1>2, <1>3, <1>4, <1>5, <1>6, <1>7 DEF Run, Fetch

LEMMA ChangerUses ==
  ASSUME SyncInv, NEW p \in Applies, Run(p) \/ Crash(p), NEW s \in Schemas, ~Same(s)
  PROVE  Uses(p, s) /\ lock[s] = <<p, decl[p]>>
<1>1. p \in Procs
  BY SyncAssumption
<1>2. pc[p] \in {"drop", "create", "pull", "stamp"} /\ Pulled(p) = s
  BY <1>1, ChangerPulls DEF SyncInv
<1>3. Uses(p, s)
  BY <1>1, <1>2 DEF SyncInv, StepInv, Uses, FetchSteps
<1> QED
  BY <1>1, <1>3, UserOwns

(* The tables that the rules of an apply read, in the schema that it       *)
(* locked, are changed by no apply: only by a fetch or an update.          *)
THEOREM ReadersAreUndisturbed == Spec => StableWhileRead
<1> DEFINE Stable ==
        \A p \in Applies, s \in Schemas :
            pc[p] = "run" /\ Uses(p, s) =>
                \/ full'[s] = full[s] /\ writer'[s] = writer[s]
                \/ \E q \in Procs : Intrudes(q, s)
<1>1. ASSUME SyncInv, [Next]_vars
      PROVE  Stable
  <2>1. ASSUME NEW p \in Applies, NEW s \in Schemas, pc[p] = "run", Uses(p, s),
               ~(full'[s] = full[s] /\ writer'[s] = writer[s])
        PROVE  \E q \in Procs : Intrudes(q, s)
    <3>1. PICK q \in Procs : Run(q) \/ Crash(q)
      BY <1>1, <2>1 DEF Next, FreeLeftLock, TimePasses, vars, dbVars
    <3>2. ~Same(s)
      BY <2>1 DEF Same
    <3>3. /\ pc[q] \in {"drop", "create", "pull"} /\ Pulled(q) = s
          /\ <<pc[q], decl[q]>>' # <<pc[q], decl[q]>>
      BY <1>1, <2>1, <3>1, <3>2, ChangerPulls DEF SyncInv
    <3>4. q \notin Applies
      <4>1. SUFFICES ASSUME q \in Applies PROVE FALSE
        OBVIOUS
      <4>2. lock[s] = <<q, decl[q]>> /\ lock[s] = <<p, decl[p]>>
        BY <1>1, <2>1, <3>1, <3>2, <4>1, ChangerUses, UserOwns, SyncAssumption
      <4> QED
        BY <2>1, <3>3, <4>2
    <3> QED
      BY <3>3, <3>4 DEF Intrudes
  <2> QED
    BY <2>1
<1> QED
  BY <1>1, SyncInvariant, PTL DEF Spec, StableWhileRead

-----------------------------------------------------------------------------
(* Applies with one cache time: what is taken for fresh is complete.         *)

LEMMA FreshNotExpired ==
  ASSUME Uniform, NEW p \in Procs, NEW s
  PROVE  Fresh(s) <=> ~CacheExpired(p, s)
  BY DEF Uniform, Fresh, CacheExpired

\* What is expired stays expired until its update time is stored.
LEMMA ExpiryLasts ==
  ASSUME TypeOK, NEW p \in Procs, NEW s \in Schemas, CacheExpired(p, s),
         age'[s] = age[s] \/ (age[s] \in 0..(MaxAge - 1) /\ age'[s] = age[s] + 1)
  PROVE  CacheExpired(p, s)'
  BY SyncAssumption DEF TypeOK, CacheExpired, NoTime

LEMMA InitData == ASSUME Uniform, Init PROVE DataInv
<1>1. FreshIsPulled
  BY SyncAssumption DEF Uniform, Init, FreshIsPulled, Fresh, CacheExpired
<1>2. PullInv /\ DoneInv
  BY SyncAssumption DEF Uniform, Init, PullInv, DoneInv, FetchSteps, SyncSteps
<1> QED
  BY <1>1, <1>2 DEF DataInv

\* What is said of one process in PullInv and in DoneInv.
Pulls(p) ==
    /\ pc[p] \in {"stamp"} \cup FetchSteps => CacheExpired(p, Pulled(p))
    /\ pc[p] \in {"create", "pull"} => writer[Pulled(p)] = p
    /\ pc[p] = "stamp" => full[Pulled(p)]

Did(p) ==
    \A i \in 1..Len(Decls[p]) :
        (pc[p] \in SyncSteps /\ i < decl[p]) \/ pc[p] = "run" => Settled(p, i)

\* A step of q leaves what p works on and what p has done.
LEMMA OthersKeep ==
  ASSUME Uniform, SyncInv, DataInv, NEW p \in Procs, NEW q \in Procs, p # q,
         Run(q) \/ Crash(q)
  PROVE  Pulls(p)' /\ Did(p)'
<1> USE DEF SyncInv
<1>1. Still(p)
  BY OneMoves
<1>2. ASSUME NEW s \in Schemas, lock[s][1] = p
      PROVE  Same(s)
  <2>1. SUFFICES ASSUME ~Same(s) PROVE FALSE
    OBVIOUS
  <2>2. lock[s] = <<q, decl[q]>>
    BY <2>1, ChangerUses DEF Uniform
  <2> QED
    BY <1>2, <2>2
<1>3. Pulls(p)'
  <2>1. SUFFICES ASSUME pc[p] \in {"stamp"} \cup FetchSteps
                 PROVE  Pulls(p)'
    BY <1>1 DEF Pulls, Still, FetchSteps
  <2>2. Uses(p, Pulled(p))
    BY <2>1 DEF Uniform, StepInv, Uses, FetchSteps
  <2>3. Pulled(p) \in Schemas /\ Same(Pulled(p))
    BY <1>2, <2>2, UserOwns
  <2>4. CacheExpired(p, Pulled(p))' /\ Pulled(p)' = Pulled(p)
    BY <1>1, <2>1, <2>3 DEF DataInv, PullInv, CacheExpired, Pulled, Still, Same
  <2> QED
    BY <1>1, <2>3, <2>4 DEF DataInv, PullInv, Pulls, Still, Same, Pulled
<1>4. Did(p)'
  <2>1. ASSUME NEW i \in 1..Len(Decls[p]), pc[p] \notin Gone, Settled(p, i)
        PROVE  Settled(p, i)'
    <3>1. CASE i \in missed[p] \/ errored[p]
      BY <1>1, <3>1 DEF Settled, Still
    <3>2. CASE Holds(p, i) /\ full[Decls[p][i].pull]
      <4>1. Owns(p, i)
        BY <2>1, <3>2 DEF LockInv, Keeps, Holds
      <4>2. Decls[p][i].pull \in Schemas /\ Same(Decls[p][i].pull)
        BY <1>2, <4>1, PullIsSchema DEF Owns
      <4> QED
        BY <1>1, <3>2, <4>2 DEF Settled, Holds, Still, Same
    <3> QED
      BY <2>1, <3>1, <3>2 DEF Settled
  <2> QED
    BY <1>1, <2>1 DEF DataInv, DoneInv, Did, Still, SyncSteps, FetchSteps, Gone
<1> QED
  BY <1>3, <1>4

\* A step of p keeps what p pulls complete, and expired until it is.
LEMMA OwnPulls ==
  ASSUME Uniform, SyncInv, DataInv, NEW p \in Procs, Run(p) \/ Crash(p)
  PROVE  Pulls(p)'
<1> USE DEF SyncInv, TypeOK, Goto, Continue, LoopEnds, FetchSteps
<1>1. CASE Sync(p) /\ ~CacheIsOld(p)
  BY <1>1 DEF Sync, DownloadFails, OpenStorage, OpenFails, LockSchema, UseCache,
              SetUpdateTime, SetUpdateTimeFails, SyncReturns, Pulls
<1>2. CASE CacheIsOld(p)
  BY <1>2 DEF CacheIsOld, Pulls, Uniform, CacheExpired, Pulled, dbVars
<1>3. CASE StartPlugin(p)
  BY <1>3 DEF StartPlugin, Pulls, DataInv, PullInv, CacheExpired, Pulled, dbVars
<1>4. CASE DropTables(p)
  <2>1. Uses(p, Pulled(p))
    BY <1>4 DEF DropTables, Uniform, StepInv, Uses
  <2>2. ASSUME NEW q \in Procs \ {p}, pc[q] = "pull", Pulled(q) = Pulled(p)
        PROVE  FALSE
    <3>1. Uses(q, Pulled(p))
      BY <2>2 DEF Uniform, StepInv, Uses
    <3>2. lock[Pulled(p)] = <<p, decl[p]>> /\ lock[Pulled(p)] = <<q, decl[q]>>
      BY <2>1, <2>2, <3>1, UserOwns
    <3> QED
      BY <2>2, <3>2
  <2>3. ~Disturbed(p)
    BY <2>2 DEF Disturbed
  <2>4. Pulled(p) \in Schemas
    BY <2>1, UserOwns
  <2>5. /\ writer'[Pulled(p)] = p /\ pc'[p] = "create" /\ Pulled(p)' = Pulled(p)
        /\ age' = age
    BY <1>4, <2>3, <2>4 DEF DropTables, Pulled
  <2>6. CacheExpired(p, Pulled(p))
    BY <1>4 DEF DropTables, DataInv, PullInv
  <2> QED
    BY <2>5, <2>6 DEF Pulls, CacheExpired
<1>5. CASE CreateTables(p)
  BY <1>5 DEF CreateTables, Pulls, DataInv, PullInv, CacheExpired, Pulled
<1>6. CASE PullTables(p)
  <2>1. Uses(p, Pulled(p))
    BY <1>6 DEF PullTables, Uniform, StepInv, Uses
  <2>2. Pulled(p) \in Schemas
    BY <2>1, UserOwns
  <2>3. writer[Pulled(p)] = p /\ CacheExpired(p, Pulled(p))
    BY <1>6 DEF PullTables, DataInv, PullInv
  <2>4. pc'[p] = "stamp" /\ age' = age /\ Pulled(p)' = Pulled(p)
    BY <1>6 DEF PullTables, FetchReturns, Uniform, Pulled
  <2>5. full'[Pulled(p)]
    BY <1>6, <2>2, <2>3 DEF PullTables
  <2> QED
    BY <2>3, <2>4, <2>5 DEF Pulls, CacheExpired
<1>7. CASE FetchFails(p)
  BY <1>7 DEF FetchFails, FetchGivesUp, Uniform, Pulls
<1>8. CASE FetchCommandEnds(p)
  BY <1>8 DEF FetchCommandEnds, Pulls
<1>9. CASE Finish(p) \/ Crash(p)
  BY <1>9 DEF Finish, RunRules, ApplyReturns, UnlockSchema, Exit, Crash, Pulls
<1> QED
  BY <1>1, <1>2, <1>3, <1>4, <1>5, <1>6, <1>7, <1>8, <1>9 DEF Run, Fetch

\* What p is done with stays done, but for the declaration that it works on.
LEMMA OwnSettled ==
  ASSUME Uniform, SyncInv, NEW p \in Procs, Run(p) \/ Crash(p),
         NEW i \in 1..Len(Decls[p]), i # decl[p] \/ pc[p] = "run", Settled(p, i),
         ~UnlockSchema(p)
  PROVE  Settled(p, i)'
<1> USE DEF SyncInv
<1>1. /\ i \in missed[p] => i \in missed'[p]
      /\ errored[p] => errored'[p]
  BY DEF TypeOK, Run, Sync, Fetch, Finish, Crash, DownloadFails, OpenStorage, OpenFails,
         CacheIsOld, UseCache, SetUpdateTime, SetUpdateTimeFails, SyncReturns, LockSchema,
         StartPlugin, DropTables, CreateTables, PullTables, FetchFails, FetchGivesUp,
         FetchCommandEnds, RunRules, ApplyReturns, UnlockSchema, Exit, Fail, dbVars
<1>2. CASE Holds(p, i) /\ full[Decls[p][i].pull]
  <2>1. Holds(p, i)'
    <3>1. CASE LockSchema(p)
      <4>1. held'[p] = Append(held[p], decl[p]) /\ held[p] \in Seq(Nat \ {0})
        BY <3>1 DEF LockSchema, TypeOK
      <4>2. \A n \in DOMAIN held[p] : n \in DOMAIN held'[p] /\ held'[p][n] = held[p][n]
        BY <4>1
      <4> QED
        BY <1>2, <4>2 DEF Holds
    <3>2. CASE ~LockSchema(p)
      BY <1>2, <3>2, LocksStay DEF Holds
    <3> QED
      BY <3>1, <3>2
  <2>2. Owns(p, i)
    BY <1>2, NotGone DEF LockInv, Keeps, Holds
  <2>3. Decls[p][i].pull \in Schemas
    BY PullIsSchema
  <2>4. Same(Decls[p][i].pull)
    <3>1. SUFFICES ASSUME ~Same(Decls[p][i].pull) PROVE FALSE
      OBVIOUS
    <3>2. lock[Decls[p][i].pull] = <<p, decl[p]>> /\ pc[p] # "run"
      BY <2>3, <3>1, ChangerUses, ChangerPulls DEF Uniform
    <3> QED
      BY <2>2, <3>2 DEF Owns
  <2> QED
    BY <1>2, <2>1, <2>4 DEF Settled, Same
<1> QED
  BY <1>1, <1>2 DEF Settled

\* What p is done with after a step it was done with before, or has just done.
LEMMA OwnDid ==
  ASSUME Uniform, SyncInv, DataInv, NEW p \in Procs, Run(p) \/ Crash(p)
  PROVE  Did(p)'
<1> USE DEF SyncInv
<1> DEFINE Past(i) == (pc[p] \in SyncSteps /\ i < decl[p]) \/ pc[p] = "run"
           Due(i)  == (pc'[p] \in SyncSteps /\ i < decl'[p]) \/ pc'[p] = "run"
           Turn    == \/ DownloadFails(p) \/ OpenFails(p) \/ UseCache(p)
                      \/ SetUpdateTime(p) \/ SetUpdateTimeFails(p) \/ FetchFails(p)
<1>1. ASSUME NEW i \in 1..Len(Decls[p]), Due(i), ~(i = decl[p] /\ Turn)
      PROVE  Past(i) /\ (i # decl[p] \/ pc[p] = "run") /\ ~UnlockSchema(p)
  <2> USE <1>1 DEF TypeOK, Goto, Continue, LoopEnds, SyncSteps, FetchSteps
  <2>1. CASE Sync(p)
    <3>1. CASE DownloadFails(p)
      BY <3>1 DEF DownloadFails, UnlockSchema
    <3>2. CASE OpenStorage(p)
      BY <3>2 DEF OpenStorage, UnlockSchema
    <3>3. CASE OpenFails(p)
      BY <3>3 DEF OpenFails, UnlockSchema
    <3>4. CASE LockSchema(p)
      BY <3>4 DEF LockSchema, UnlockSchema
    <3>5. CASE CacheIsOld(p)
      BY <3>5 DEF CacheIsOld, UnlockSchema
    <3>6. CASE UseCache(p)
      BY <3>6 DEF UseCache, UnlockSchema
    <3>7. CASE SetUpdateTime(p)
      BY <3>7 DEF SetUpdateTime, UnlockSchema
    <3>8. CASE SetUpdateTimeFails(p)
      BY <3>8 DEF SetUpdateTimeFails, UnlockSchema
    <3>9. CASE SyncReturns(p)
      BY <3>9 DEF SyncReturns, UnlockSchema, More
    <3> QED
      BY <2>1, <3>1, <3>2, <3>3, <3>4, <3>5, <3>6, <3>7, <3>8, <3>9 DEF Sync
  <2>2. CASE Fetch(p)
    <3>1. CASE StartPlugin(p)
      BY <3>1 DEF StartPlugin, UnlockSchema
    <3>2. CASE DropTables(p)
      BY <3>2 DEF DropTables, UnlockSchema
    <3>3. CASE CreateTables(p)
      BY <3>3 DEF CreateTables, UnlockSchema
    <3>4. CASE PullTables(p)
      BY <3>4 DEF PullTables, FetchReturns, Uniform, UnlockSchema
    <3>5. CASE FetchFails(p)
      BY <3>5 DEF FetchFails, FetchGivesUp, Uniform, UnlockSchema
    <3>6. CASE FetchCommandEnds(p)
      BY <3>6 DEF FetchCommandEnds
    <3> QED
      BY <2>2, <3>1, <3>2, <3>3, <3>4, <3>5, <3>6 DEF Fetch
  <2>3. CASE Finish(p) \/ Crash(p)
    BY <2>3 DEF Finish, RunRules, ApplyReturns, UnlockSchema, Exit, Crash
  <2> QED
    BY <2>1, <2>2, <2>3 DEF Run
<1>2. ASSUME NEW i \in 1..Len(Decls[p]), i = decl[p], Turn
      PROVE  Settled(p, i)'
  <2>1. CASE DownloadFails(p)
    BY <1>2, <2>1 DEF DownloadFails, Settled, TypeOK
  <2>2. CASE OpenFails(p)
    BY <1>2, <2>2 DEF OpenFails, Fail, Settled, TypeOK
  <2>3. CASE SetUpdateTimeFails(p)
    BY <1>2, <2>3 DEF SetUpdateTimeFails, Fail, Settled, TypeOK
  <2>4. CASE FetchFails(p)
    BY <1>2, <2>4 DEF FetchFails, FetchGivesUp, Fail, Settled, TypeOK
  <2>5. ASSUME UseCache(p) \/ SetUpdateTime(p)
        PROVE  full[Pulled(p)] /\ Holds(p, decl[p]) /\ UNCHANGED <<held, full>>
    <3>1. Holds(p, decl[p]) /\ UNCHANGED <<held, full>>
      BY <2>5 DEF UseCache, SetUpdateTime, dbVars, Uniform, WorkInv, Works
    <3>2. CASE UseCache(p)
      <4>1. Fresh(Pulled(p))
        BY <3>2, FreshNotExpired DEF UseCache
      <4>2. Pulled(p) \in Schemas
        BY <1>2, PullIsSchema DEF Pulled
      <4> QED
        BY <3>1, <4>1, <4>2 DEF DataInv, FreshIsPulled
    <3>3. CASE SetUpdateTime(p)
      BY <3>1, <3>3 DEF SetUpdateTime, DataInv, PullInv
    <3> QED
      BY <2>5, <3>2, <3>3
  <2>6. CASE UseCache(p) \/ SetUpdateTime(p)
    BY <1>2, <2>5, <2>6 DEF Settled, Holds, Pulled
  <2> QED
    BY <1>2, <2>1, <2>2, <2>3, <2>4, <2>6
<1>3. ASSUME NEW i \in 1..Len(Decls[p]), Due(i)
      PROVE  Settled(p, i)'
  <2>1. CASE i = decl[p] /\ Turn
    BY <1>2, <2>1
  <2>2. CASE ~(i = decl[p] /\ Turn)
    <3>1. Past(i) /\ (i # decl[p] \/ pc[p] = "run") /\ ~UnlockSchema(p)
      BY <1>1, <1>3, <2>2
    <3>2. Settled(p, i)
      BY <3>1 DEF DataInv, DoneInv
    <3> QED
      BY <3>1, <3>2, OwnSettled
  <2> QED
    BY <2>1, <2>2
<1> QED
  BY <1>3 DEF Did

\* No step makes data fresh that is not complete.
LEMMA FreshOfOne ==
  ASSUME Uniform, SyncInv, DataInv, NEW p \in Procs, Run(p) \/ Crash(p), NEW s \in Schemas,
         ~Same(s)
  PROVE  /\ Fresh(s)' => full'[s]
         /\ ~Fresh(s)
         /\ pc[p] # "stamp" => ~Fresh(s)'
         /\ pc[p] = "stamp" => full[s] /\ full'[s] = full[s]
<1> USE DEF SyncInv
<1>1. pc[p] \in {"drop", "create", "pull", "stamp"} /\ Pulled(p) = s
  BY ChangerPulls
<1>2. CacheExpired(p, s)
  BY <1>1 DEF DataInv, PullInv, FetchSteps
<1>3. CASE pc[p] = "stamp"
  <2>1. full[s] /\ full'[s] = full[s]
    BY <1>1, <1>3, ChangerPulls DEF DataInv, PullInv
  <2> QED
    BY <1>2, <1>3, <2>1, FreshNotExpired
<1>4. CASE pc[p] # "stamp"
  <2>1. UNCHANGED age
    BY <1>1, <1>4 DEF Run, Sync, Fetch, Finish, Crash, DownloadFails, OpenStorage, OpenFails,
         CacheIsOld, UseCache, SetUpdateTime, SetUpdateTimeFails, SyncReturns, LockSchema,
         StartPlugin, DropTables, CreateTables, PullTables, FetchFails,
         FetchCommandEnds, RunRules, ApplyReturns, UnlockSchema, Exit, dbVars
  <2>2. ~Fresh(s) /\ (Fresh(s)' <=> Fresh(s))
    BY <1>2, <2>1, FreshNotExpired DEF Fresh, CacheExpired
  <2> QED
    BY <1>4, <2>2
<1> QED
  BY <1>3, <1>4

LEMMA NextData ==
  ASSUME Uniform, SyncInv, DataInv, [Next]_vars
  PROVE  DataInv'
<1> USE DEF SyncInv
<1>1. ASSUME NEW p \in Procs, Run(p) \/ Crash(p)
      PROVE  DataInv'
  <2>1. ASSUME NEW s \in Schemas, Fresh(s)'
        PROVE  full'[s]
    <3>1. CASE Same(s)
      <4>1. Fresh(s)
        BY <2>1, <3>1 DEF Same, Fresh, CacheExpired
      <4> QED
        BY <3>1, <4>1 DEF Same, DataInv, FreshIsPulled
    <3>2. CASE ~Same(s)
      BY <1>1, <2>1, <3>2, FreshOfOne
    <3> QED
      BY <3>1, <3>2
  <2>2. ASSUME NEW q \in Procs
        PROVE  Pulls(q)' /\ Did(q)'
    <3>1. CASE q = p
      BY <1>1, <3>1, OwnPulls, OwnDid
    <3>2. CASE q # p
      BY <1>1, <3>2, OthersKeep
    <3> QED
      BY <3>1, <3>2
  <2> QED
    BY <2>1, <2>2 DEF DataInv, FreshIsPulled, PullInv, DoneInv, Pulls, Did
<1>2. CASE UNCHANGED <<procVars, full, writer, age>>
  BY <1>2 DEF DataInv, FreshIsPulled, Fresh, PullInv, DoneInv, Settled, Holds, CacheExpired,
              Pulled, procVars
<1>3. CASE TimePasses
  <2>1. UNCHANGED <<procVars, full, writer>>
    BY <1>3 DEF TimePasses
  <2>2. ASSUME NEW p \in Procs, NEW s \in Schemas, CacheExpired(p, s)
        PROVE  CacheExpired(p, s)'
    <3>1. age'[s] = age[s] \/ (age[s] \in 0..(MaxAge - 1) /\ age'[s] = age[s] + 1)
      BY <1>3 DEF TimePasses
    <3> QED
      BY <2>2, <3>1, ExpiryLasts
  <2>3. FreshIsPulled'
    BY <2>1, <2>2, SyncAssumption DEF DataInv, FreshIsPulled, Fresh
  <2>4. PullInv'
    <3>1. ASSUME NEW p \in Procs, pc[p] \in {"stamp"} \cup FetchSteps
          PROVE  Pulled(p) \in Schemas /\ Pulled(p)' = Pulled(p)
      <4>1. Uses(p, Pulled(p))
        BY <3>1 DEF Uniform, StepInv, Uses, FetchSteps
      <4> QED
        BY <2>1, <4>1, UserOwns DEF Pulled, procVars
    <3> QED
      BY <2>1, <2>2, <3>1 DEF DataInv, PullInv, procVars, FetchSteps
  <2>5. DoneInv'
    BY <2>1 DEF DataInv, DoneInv, Settled, Holds, procVars
  <2> QED
    BY <2>3, <2>4, <2>5 DEF DataInv
<1>4. ASSUME NEW s \in Schemas, FreeLeftLock(s)
      PROVE  DataInv'
  BY <1>2, <1>4 DEF FreeLeftLock
<1>5. CASE UNCHANGED vars
  BY <1>2, <1>5 DEF vars, dbVars
<1> QED
  BY <1>1, <1>3, <1>4, <1>5 DEF Next

LEMMA DataInvariant ==
  ASSUME Uniform
  PROVE  Spec => [](SyncInv /\ DataInv)
<1>1. Init => DataInv
  BY InitData
<1>2. SyncInv /\ DataInv /\ [Next]_vars => DataInv'
  BY NextData
<1> QED
  BY <1>1, <1>2, SyncInvariant, PTL DEF Spec

(* When all the processes are applies with one cache time, which can read  *)
(* the update time, the data that one of them would take from the cache is *)
(* one complete pull, also after crashes and failed pulls.                 *)
THEOREM FreshIsComplete ==
  ASSUME Uniform
  PROVE  Spec => []FreshIsPulled
<1>1. DataInv => FreshIsPulled
  BY DEF DataInv
<1> QED
  BY <1>1, DataInvariant, PTL

(* Such an apply runs rules over tables that are not one complete pull     *)
(* only if it met an error, could not download the provider, or asks for a *)
(* schema that Sync did not work on.                                       *)
THEOREM PartialIsTold ==
  ASSUME Uniform
  PROVE  Spec => []PartialIsReported
<1>1. ASSUME SyncInv, DataInv
      PROVE  PartialIsReported
  <2>1. ASSUME NEW p \in Procs, pc[p] = "run", More(p)
        PROVE  decl[p] \in 1..Len(Decls[p])
    BY <1>1, <2>1, SyncAssumption DEF SyncInv, TypeOK, More
  <2> QED
    BY <1>1, <2>1, SyncAssumption
       DEF DataInv, DoneInv, PartialIsReported, Settled, Pulled, Asked
<1> QED
  BY <1>1, DataInvariant, PTL

-----------------------------------------------------------------------------
(* The refinement.                                                           *)

Freshness == [s \in Schemas |-> Fresh(s)]

\* A step of a process changes one schema at most.
LEMMA OneSchema ==
  ASSUME TypeOK, NEW p \in Procs, Run(p) \/ Crash(p), NEW s \in Schemas, s # Pulled(p)
  PROVE  Same(s)
  BY ChangerPulls

\* Freshness after a step, by what happened to each schema.
LEMMA FreshnessNext ==
  ASSUME NEW F, F \in [Schemas -> BOOLEAN], \A s \in Schemas : F[s] <=> Fresh(s)'
  PROVE  Freshness' = F
<1>1. \A s \in Schemas : F[s] = Fresh(s)'
  BY DEF Fresh
<1>2. Freshness' = [s \in Schemas |-> F[s]]
  BY <1>1, Zenon DEF Freshness
<1> QED
  BY <1>2

LEMMA StepOfCache ==
  ASSUME Uniform, SyncInv, DataInv, [Next]_vars
  PROVE  Synced!Next \/ UNCHANGED <<full, Freshness>>
<1> USE DEF SyncInv
<1>1. ASSUME NEW s \in Schemas, Same(s)
      PROVE  full'[s] = full[s] /\ (Fresh(s)' <=> Fresh(s))
  BY <1>1 DEF Same, Fresh, CacheExpired
<1>2. full \in [Schemas -> BOOLEAN] /\ full' \in [Schemas -> BOOLEAN]
  BY NextType DEF TypeOK
<1>3. /\ Freshness \in [Schemas -> BOOLEAN]
      /\ \A s \in Schemas : Freshness[s] <=> Fresh(s)
  BY DEF Freshness, Fresh
<1>4. ASSUME \A s \in Schemas : full'[s] = full[s] /\ (Fresh(s)' <=> Fresh(s))
      PROVE  UNCHANGED <<full, Freshness>>
  <2>1. full' = full
    BY <1>2, <1>4
  <2>2. Freshness' = Freshness
    BY <1>3, <1>4, FreshnessNext
  <2> QED
    BY <2>1, <2>2
<1>5. ASSUME NEW p \in Procs, Run(p) \/ Crash(p), NEW s \in Schemas, ~Same(s)
      PROVE  Synced!Next
  <2>1. \A t \in Schemas : t # s => full'[t] = full[t] /\ (Fresh(t)' <=> Fresh(t))
    <3>1. Pulled(p) = s
      BY <1>5, ChangerPulls
    <3> QED
      BY <1>1, <1>5, <3>1, OneSchema
  <2>2. ~Fresh(s) /\ (Fresh(s)' => full'[s])
    BY <1>5, FreshOfOne
  <2>3. CASE ~Fresh(s)'
    <3>1. Freshness' = Freshness
      BY <1>3, <2>1, <2>2, <2>3, FreshnessNext
    <3>2. CASE full'[s]
      <4>1. full' = [full EXCEPT ![s] = TRUE]
        BY <1>2, <2>1, <3>2
      <4>2. Synced!Fill(s)
        BY <1>3, <2>2, <3>1, <4>1 DEF Synced!Fill, Freshness
      <4> QED
        BY <4>2 DEF Synced!Next
    <3>3. CASE ~full'[s]
      <4>1. full' = [full EXCEPT ![s] = FALSE]
        BY <1>2, <2>1, <3>3
      <4>2. Synced!Drop(s)
        BY <1>3, <2>2, <3>1, <4>1 DEF Synced!Drop, Freshness
      <4> QED
        BY <4>2 DEF Synced!Next
    <3> QED
      BY <3>2, <3>3
  <2>4. CASE Fresh(s)'
    <3>1. full[s] /\ full'[s] = full[s]
      BY <1>5, <2>4, FreshOfOne
    <3>2. full' = full
      <4>1. \A t \in Schemas : full'[t] = full[t]
        BY <2>1, <3>1
      <4> QED
        BY <1>2, <4>1
    <3>3. Freshness' = [Freshness EXCEPT ![s] = TRUE]
      BY <1>3, <2>1, <2>4, FreshnessNext
    <3>4. Synced!Stamp(s)
      BY <3>1, <3>2, <3>3 DEF Synced!Stamp, Freshness
    <3> QED
      BY <3>4 DEF Synced!Next
  <2> QED
    BY <2>3, <2>4
<1>6. CASE TimePasses
  <2>1. UNCHANGED full
    BY <1>6 DEF TimePasses
  <2>2. ASSUME NEW s \in Schemas, Fresh(s)'
        PROVE  Fresh(s)
    <3>1. age'[s] = age[s] \/ (age[s] \in 0..(MaxAge - 1) /\ age'[s] = age[s] + 1)
      BY <1>6 DEF TimePasses
    <3> QED
      BY <2>2, <3>1, ExpiryLasts, SyncAssumption DEF Fresh
  <2>3. Freshness' \in [Schemas -> BOOLEAN]
    BY DEF Freshness, Fresh
  <2>4. \A s \in Schemas : Freshness'[s] => Freshness[s]
    BY <1>3, <2>2 DEF Freshness
  <2> QED
    BY <2>1, <2>3, <2>4 DEF Synced!Next, Synced!Expire, Freshness
<1>7. ASSUME UNCHANGED <<full, age>>
      PROVE  UNCHANGED <<full, Freshness>>
  <2>1. \A s \in Schemas : full'[s] = full[s] /\ (Fresh(s)' <=> Fresh(s))
    BY <1>7 DEF Fresh, CacheExpired
  <2> QED
    BY <1>4, <2>1
<1>8. ASSUME NEW s \in Schemas, FreeLeftLock(s)
      PROVE  UNCHANGED <<full, age>>
  BY <1>8 DEF FreeLeftLock
<1>9. CASE UNCHANGED vars
  BY <1>7, <1>9 DEF vars, dbVars
<1>10. ASSUME NEW p \in Procs, Run(p) \/ Crash(p)
       PROVE  Synced!Next \/ UNCHANGED <<full, Freshness>>
  BY <1>1, <1>4, <1>5, <1>10
<1> QED
  BY <1>6, <1>7, <1>8, <1>9, <1>10 DEF Next

(* Such applies do what CachedSchema promises: the data of a schema is     *)
(* stamped fresh only when a complete pull is stored in it, and dropped    *)
(* only after it expired.                                                  *)
THEOREM ImplementsCachedSchema ==
  ASSUME Uniform
  PROVE  Spec => CachedSchemaSpec
<1>1. ASSUME Init
      PROVE  Synced!Init
  <2>1. full \in [Schemas -> BOOLEAN]
    BY <1>1, InitType DEF TypeOK
  <2>2. \A s \in Schemas : Fresh(s) => full[s]
    BY <1>1, InitData DEF DataInv, FreshIsPulled
  <2>3. /\ Freshness \in [Schemas -> BOOLEAN]
        /\ \A s \in Schemas : Freshness[s] <=> Fresh(s)
    BY DEF Freshness, Fresh
  <2> QED
    BY <2>1, <2>2, <2>3 DEF Synced!Init, Freshness
<1>2. ASSUME SyncInv, DataInv, [Next]_vars
      PROVE  [Synced!Next]_(Synced!vars)
  BY <1>2, StepOfCache DEF Synced!vars, Freshness
<1> QED
  BY <1>1, <1>2, DataInvariant, PTL DEF Spec, CachedSchemaSpec, Synced!Spec
=============================================================================
