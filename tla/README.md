# Selefra in TLA+

A verification development for the Go command line tool in `../src`. It holds
TLA+ models of the parts of selefra in which several goroutines, processes or
services interact, TLC configurations that check them on small instances, and
theorems about them that TLAPS proves for every value of the constants.

Contents: [the system](#the-system), [the modules](#the-modules),
[what the runs check](#what-the-runs-check), [what is proved](#what-is-proved),
[assumptions about the environment](#assumptions-about-the-environment),
[what is not modelled](#what-is-not-modelled), [plan](#plan).

## The system

Selefra is a command line program. A workspace of YAML files declares providers
(plugins that download cloud inventory into PostgreSQL schemas), modules and
rules (SQL queries over those schemas). `selefra apply` brings the schemas up to
date and runs the rules; every row that a rule matches is an issue, which is
printed and streamed to selefra cloud. Several selefra processes may run at once
on one machine or one database.

| component | state it keeps | operations | interacts with | what makes it correct |
|---|---|---|---|---|
| issue pipeline: `cmd/apply/apply.go` `RunRules`, `UploadIssueFunc`; `pkg/grpcClient/client.go` | the channel, context and ticker of each call; the one issue stream of the process | produce, take, send, reset, time out, cancel, close | three goroutines per schema; the gRPC stream; the cloud | issues arrive in order and once; none is lost while the stream works; `RunRules` returns |
| schema synchronization: `cmd/provider/sync.go`, `cmd/fetch/fetch.go`, `pkg/pgstorage` | locks, tables and update times in the database; the slice of locks of a process | lock, check the age, drop, create, pull, stamp, run rules, unlock | other processes through the database; provider plugins | no two applies use a schema at once; data taken for fresh is one complete pull; locks are given back |
| session: `cmd/login`, `cmd/logout`, `pkg/utils/home.go`, `global/flag.go`, `pkg/httpClient` | the credentials file; the global token | log in, ask for a token, store, read, log out | other processes through the file; the cloud | the file holds what the server accepted last; the global token is that of the session |
| provider registry: `pkg/registry`, `cmd/provider/{install,remove,update,list}.go`, `cmd/tools` | `config.json`, the cache of downloaded binaries, the declarations in the workspace | download, check for an update, install, remove | other processes through the files; GitHub | an entry leads to the binary of its version, which was complete; what a workspace declares starts |
| configuration: `config/config.go`, `cmd/init/init.go`, `cmd/provider/install.go` | the YAML files of the workspace | find the files, merge them, check them, ask and write them anew | everything | who had a readable configuration has one; two jobs have two schemas |
| modules: `config/config.go` `GetModules`, `pkg/utils/home.go` `ModulesUpdate`, `apply.go` `GetAllRules` | the map of module files, the path being followed; the packages on disk | expand `uses`, install packages, find cycles, link, flatten, read the rules | the configuration; the registry of modules | a reported cycle is one, and none gets through; each rule is loaded once, under the names of its users, in its latest version |
| cache time: `cmd/tools/providers.go` | none | `parseDuration`, `CacheExpired` | synchronization | a duration means what it says |
| database bootstrap: `pkg/oci/downloader.go`, `pkg/pgstorage` `getDsn` | the PostgreSQL instance of the machine | copy, initialize, change the port, stop, start | every opening of a storage, by every process | when nobody is at it the database runs, on the port that all connect to |
| plugin lifecycle: `pkg/plugin` | plugin processes | start, initialize, close | `Fetch`, `install`, `init`, `test` | a plugin ends with the process that started it |
| console and task status: `ui/print.go`, `pkg/grpcClient/client.go`, `pkg/httpClient` | the client, the status map, the stage, the task | print, set and upload a status, set the task | all goroutines of `apply`; the cloud | each report says what its stage came to, of the right task, in order |
| rule tables: `apply.go` `match`, `getSqlTables` | none | find the tables that a query names | the metadata of issues | the tables of the query, and only those |
| rules and templates, workspace init, progress bars, query console, logging, file download, version, generated code | little or none | text, terminal and file I/O | | |

Hard behaviours, each with its line in `PROJECT.json` under `hazards`:

- *Concurrency.* Three goroutines per call of `RunRules`, and the uploaders of
  several calls on one stream; several processes on one database, one
  `config.json`, one credentials file, one PostgreSQL instance.
- *Failure.* A stream that breaks while the channel is full; a pull that stops
  after the tables were dropped; a process that dies with its locks.
- *Ordering.* Locks taken in the order of the declarations; closing functions
  called in the order of a map; a stream that one call closes and the next uses.
- *Time.* A watchdog that may be late, or early; a cache time.

## The modules

| module | what it is |
|---|---|
| `IssuePipeline` | the issue pipeline |
| `IssueDelivery` | the abstract specification that `IssuePipeline` implements |
| `IssuePipelineProofs` | theorems about `IssuePipeline` |
| `SchemaSync` | the synchronization of schemas by several processes |
| `SchemaSyncProofs` | theorems about `SchemaSync` |
| `CachedSchema` | the abstract specification that `SchemaSync` implements |
| `Session` | login, logout and the credentials file |
| `SessionProofs` | theorems about `Session` |
| `ProviderRegistry` | the download cache of providers and `config.json` |
| `ProviderRegistryProofs` | theorems about `ProviderRegistry`, for commands in any interleaving and for commands that run one after the other |
| `ModuleExpansion` | the modules of a workspace and the rules they give |
| `ModuleExpansionProofs` | theorems about `ModuleExpansion` |
| `ConfigFiles` | the configuration files, as `init` and `install` rewrite them |
| `ConfigFilesProofs` | theorems about `ConfigFiles` |
| `SequenceFacts` | what `FlattenSeq` and loops that are written as recursive functions return, and induction on the natural numbers, for the proofs |
| `TaskReport` | what the cloud is told of an `apply` |
| `DbBootstrap` | the database that every process stops and starts |
| `HostProofs` | theorems about `TaskReport` and `DbBootstrap` |
| `MCIssuePipeline`, `MCSchemaSync`, `MCSession`, `MCProviderRegistry` | the instances for TLC |
| `MCHost` | the instance of `ModuleExpansion`, `ConfigFiles`, `TaskReport` and `DbBootstrap`, side by side |

A definition whose comment begins with "Mutant:" is a plausible bug of the
definition that follows it. No specification uses it; put in that definition's
place, it makes TLC refute the property that `PROJECT.json` lists with it under
`mutants`, which shows that the property depends on the code. `PROJECT.json`
also maps each definition to the lines it translates.

### IssuePipeline

`main`, `call`, `rule` and `left` are where the goroutine of `apply` is: the schema
it works on (the loop at `apply.go:101`), the rule in that call, and the rows of its
result that are left. `queue`, `cancelled`, `armed` and `tick` are `issueChan`,
`issueCtx`, the ticker and the ticker's own one-place channel; `uploader`, `hand`
and `watchdog` are the two goroutines of the call. `stream`, `wire` and `received`
are the stream of the gRPC client, what it carries and what the server read; the
stream takes `Window` issues before the server reads one; `closers` are the
functions that `utils.Close` still has to call.

Things in the code that the model keeps apart because they matter:

- The `select` with a `default` at `apply.go:374` looks at the context
  (`StopReporting`, `PrepareIssue`) and only then does the send wait for room in
  the channel (`PutIssue`), without looking at the context again.
- The uploader's `select` may take a request or the cancellation when both are
  there (`TakeIssue`, `IssueStreamClose`). When a send fails the goroutine
  returns and nobody is told (`SendFails`).
- The watchdog uploads a status *before* it cancels (`WatchdogTimeout`,
  `WatchdogCancel`), and the producer may return in between.
- A send on the stream has no deadline and does not know `issueCtx`
  (`client.go:102`): when the server does not read, it waits (`Blocked`), for ever if
  need be, and the channel behind it fills.
- All calls share one stream. The uploader of a call that returned closes it for
  sending, and drains its channel while the next call is already running.
- An early return of `RunRules` ends `apply` (`Return(TRUE)`), which still
  releases its locks; an error that `main` sees skips `utils.Close`.

### SchemaSync

`pc` and `decl` are the step and the loop variable of each process; `held` is
`lockSlice`; `lock`, `full`, `writer` and `age` are the database: who owns the
lock, whether the tables hold one complete pull, who alone wrote them since they
were dropped, and how old the stored update time is. A declaration has two
schemas: `pull`, named after the resolved version, which `Sync` works on, and
`query`, named after the version as written, which the rules read. For `latest`
they differ. An apply runs `Sync`, then the rule loop as a reader of schemas,
then the deferred release of the locks (`UnlockSchema`, `apply.go:74`). A fetch
runs the same `Fetch` without the lock. `Sync` counts a declaration it could not
work on as an error but returns nil (`Fail`, `SyncReturns`), and does not even
count a provider that could not be downloaded (`DownloadFails`).

### Session

Every process runs one command: `login` (with a token or without), `init` (with
`--relevance`), `apply` (`init` without `--relevance` logs in the same way) or
`logout`. The credentials file is modelled as the file system shows it to several
processes: `os.WriteFile` creates or truncates the file and then writes; `os.Remove`
leaves a process that has the old file open with a file that nobody finds (`handle =
"stale"`); a shorter text written over a longer one leaves its end (`Garbage`). Any
of these calls may fail in a process that lives (`"disk"`): what was read or removed
before stays so, and a write leaves the file as it was opened or with a part of the
text (`WriteFails`). `GetCredentialsPath` ignores such an error, `SetCredentials`
returns it, and the commands print it and go on as if the token had been stored
(`SetCredentialsFails`). `tried` is the token that `ShouldLogin` sends to the
server, `token` is `global.Token()`. The two differ where the code makes them
differ: `GetCredentialsToken` sets the global token as soon as it has read one, and
`displayLoginSuccess` sets it only if it is empty. `session`, `accepted`, `told` and
`failed` are history variables: the token of the last login the server accepted, all
the tokens it accepted, whether the last `SetCredentials` printed an error, and
whether a write of the file has failed.

### ProviderRegistry

Every process runs one of the seven commands that use the cache. `binary` is the
download cache: per provider and version nothing, a partial or a whole binary.
`file` and `entries` are `config.json`: whether it is there, empty, torn or
good, and for each provider and version, `latest` included, the binary its entry
leads to. `decls` are the declarations of each workspace; `list` is a process's
own copy of them, to whose paths `CheckSelefraConfig` writes. `turn` is the loop
variable, whatever the loop. Points at which the code differs from what one
expects:

- `utils.Home` creates `config.json`, and it is called at the head of every
  helper (`Home(p, step)` goes through `StatConfig` to `step`), so a command may
  create the file that another has just deleted in order to write it.
- `Remove` deletes the file and writes it again; `AppendProviderDecl` writes over
  it, and takes a text that is no JSON for one without entries.
- `download` takes any binary that is there (`StatBinary`), and any path that the
  declaration carries: after the check of `apply`, the path from `config.json`
  (`ResolveToApply`). So a new release gets an entry that leads to the old
  binary; `EntryIsOwn` says so.
- `Remove` and `update` leave their loop (`break`) at the first declaration that
  is not among their arguments; `deletedMap` is asked for `p.Path`, which is
  empty, so it stops `Remove` once it holds the empty path (`nowhere`).
- A failing write of `config.json`, or a removal, leaves the file as it was, away, empty
  or torn (`WriteFails`). `AppendProviderDecl` does not look at the error
  (`tools/providers.go:165`), so that `install` declares a provider without an entry
  (`EntryNotWritten`); `Remove` ends with it, after it deleted the binary
  (`RemoveFails`); and each command goes on in its own way when `utils.Home` fails
  (`HomeFails`).
- `CheckUpdate` of an up-to-date provider returns no binary, with which the fetch
  of `update` then fails.

The check of `install` for a provider that is already declared compares a name
with a source, `selefra/` and the name, and never holds; the model has no such
branch. `removed`, `released`, `failed` and `wholeOnce` are history variables.

### ModuleExpansion

`mpc` is the function of `GetModules` that runs: the discovery of module files
(`getAllModules` and `checkModuleFile`, whose open calls are `stack`), the
multiplication of modules with dotted uses (`deepPathModules`), the search for
cycles (`checkCycle`, whose open calls are `walk` and whose list of paths is
`cycle`), the linking of users to the used (`makeUsesModule`) and the flattening
into `loaded`. Then `GetRules` reads the `rules`. `todo` holds what a loop over a
map has left: Go iterates in any order, and so does the model. A path is the
sequence of its components, which makes `filepath.Join` a concatenation, of
absolute paths too, as in Go. Points at which the code differs from what one
expects:

- A use is joined to the workspace when it is discovered, but compared as it is
  written in `checkCycle` and `makeUsesModule`: only an absolute use, or one of a
  package once it is rewritten, links modules.
- Neither recursion keeps a set of what it has seen; one that enters a call that
  is still open ends with the stack (`mpc = "overflow"`).
- `assembleNode` loses the values of the first file of the map; the value of
  a list of uses is the directory of its file, once per dotted use (`UsesValue`).
- `makeUsesModule` joins the uses of a used file to its directory, again for
  every user, whatever kind of uses they are (`LinkUse`).
- A module of an organization that cannot be fetched when it is linked is an error
  that `apply` only prints: the use is left with its path below the root of the file
  system, and the rules of that module are not loaded (`Fetched` excludes it).
- `LatestVersion` is one variable for all packages (`pkgs.latest`).
- The module of an organization is put in the directory of the package of its name, and
  what `config.json` records of that package stays (`UpdateOrg`, `home.go:243-256`): the
  next use of the package takes it for the latest version. A removal or a download that
  fails leaves all, a part or nothing (`Torn`). All of this is the value `Other` of
  `pkgs.installed`, no version of the package. The error of writing `config.json` is lost
  (`Recorded`, `home.go:293`).
- When `GetModules` fails, `apply` prints the error of the *report* of the
  failure, and panics when there is none (`ReportRefusal`).

### ConfigFiles

`yaml` says of every file which keys its `selefra` section has and which
declarations and groups of settings it lists; `cmd` is the command that runs and
what it has in memory. `GetConfig` joins the `selefra` sections of all files, and
reads them unless a key is there twice (`Loads`); `install` then writes all the keys
into one of the files. `GetSchemaKey` is modelled by what it does to the characters
of names and versions: it drops the namespace and the dots, and joins with `_`, so
that different jobs may have one schema (version 1.10.0 of `a` with settings
`1100_x`, and of `a_1100` with settings `x`; one workspace of the run has both).
`os.WriteFile` is two steps, and both commands ignore its error (`WriteFails`). The
test of `install` for a provider that is declared already compares `selefra/` and
the name with the name, and never holds (`AlreadyDeclared`). `asked` and `damaged`
are history variables. `asked` has the providers that the configuration lists or was
asked to list, and whether one of them was listed or asked for twice; an `init` that
ends starts a new configuration, and `asked` with it. `damaged` says that no
readable configuration is to be expected, because there was none with its `selefra`
section in one file, a write was cut short, or an `init` wrote its own beside that
of another file.

### TaskReport

`main` goes through the login, the task, the three stages and the upload; each
call of `RunRules` leaves a watchdog and an uploader behind that print lines too.
`client` is the client of the cloud, which the first line of the process creates
or fails to create for good. `access` holds what each goroutine is doing with
`statusMap`, which none of them locks: an error line reads the stage and then
writes the status; a report reads the stage, then the status, then sends. A report may
arrive although its answer is lost: the call then returns an error, and `main` prints a
line in the stage that it has just reported (`UploadLogStatus`, `apply.go:95-97`). Some
error lines end nothing, such as that of a file of the workspace which cannot be read
(`PrintError`, `config.go:308-312`). Two
accesses that overlap may end the process (`ConcurrentMapAccess`), since the Go
runtime stops a program that it catches writing a map while it is read. `shown`
is a history variable: the stages in which an error line was printed.

### DbBootstrap

`bin`, `data`, `port` and `server` are the program, the data directory, the port
in its configuration and the server of the machine; `db` is where each process is
in `getDsn` and `RunDB`. The presence of `pgsql/bin` is what stands for a complete
installation, and it is there as soon as the copy has begun. `broken` is a
history variable. An installation that was cut short stays broken for good; a
server that was stopped and not started is started by the next opening.

### MCHost

`MCHost` extends `ModuleExpansion`, `TaskReport`, `DbBootstrap` and `ConfigFiles`,
whose assumptions TLC evaluates with it. No part reads the state of another. They
are composed side by side: the initial states put one of the four into each of its
own initial states and the other three at rest, and each step belongs to one part.
So the run explores the four one after the other, and not their product, which would
add nothing: what they have in common is modelled where it matters (the panics of
`GetModules` in `TaskReport`, the failing calls of a restarted database in
`SchemaSync`).

## What the runs check

Deadlock is not checked, because a run of the program ends (or hangs, which the
properties below say when).

| run | instance | what it shows |
|---|---|---|
| `issue_pipeline` | 2 calls, 1 rule each of up to 3 rows, capacity 1, window 2, all faults | `InOrder`: the server has a prefix of what a call produced. `NothingDropped`: while the stream is open and the uploader has not gone, nothing is lost between the goroutines. `HangNeedsCause`: `RunRules` hangs only after a cancellation or the loss of the stream. `HangIsForever`: then nothing wakes it. `DeliverySpec`: it implements `IssueDelivery` |
| `issue_watchdog` | 1 call, up to 3 rows, window 1, all faults, fair goroutines | `RunRulesReturns`: a call returns unless its uploader left while the channel was full, or waits for ever in a send that the server makes no room for. `StalledCallIsCancelled`: the watchdog notices that |
| `issue_shared_stream` | 2 calls, window 1, the network may fail | `UploadersEnd`: an uploader ends even when a later call hangs, unless it waits for ever in such a send |
| `sync_applies` | 2 applies with the same two providers in opposite orders, crashes, failing calls | `ExclusiveUse`; `FreshIsPulled`: data within its cache time is one complete pull; `PartialIsReported`: rules run over less only if the process met an error that it reports, had no binary, or asks for another schema; `CachedSchemaSpec` |
| `sync_fetch` | 2 applies and a fetch on one provider, one apply with `latest`, all faults | `StableWhileRead`: no apply changes tables that the rules of another read; a fetch can |
| `sync_liveness` | 2 applies in opposite orders, crashes, failing calls, fair processes | `EndsOrDoomed`: a process ends, unless it waits in a cycle or for a lock of a process that died: who returns has released its locks, also after errors. (Where `UnLock` itself may fail, in the other runs, a lock of a process that ended may stay too.) |
| `session` | 2 processes, each any of the four commands, 2 tokens, all faults | `StoredWasAccepted`: no unaccepted token gets into the file; `BlankHasWriter`: an empty file has a writer, or one died or failed at it; `DamageStays`: a file left without JSON stays so, whatever logins follow; and for commands that run one after the other without a crash `FileIsSession`: the file holds the last login, and none after a logout, or the user saw that it was not stored; `ApplyUsesSession` |
| `session_login` | one `init --relevance`, no fault | refutes `LoginSetsToken`; see below |
| `registry` | 2 processes, each any of seven commands, 2 providers with 2 versions, all faults | `EntryIsOwn`: an entry leads to its own version, or, after a release, to an older one; `EntryWasWhole`: it leads to a binary that was complete; `DeclaredWorks`: after commands that ran one after the other, without a crash and without a failing write in the home directory, every declaration starts, unless its removal was asked for |
| `host`, modules | 196 trees of up to five module files, absolute, relative, dotted and package uses, two packages, four states of what is installed and recorded; every order of every map; failing downloads, removals and writes | `CycleIsReal`, `CycleIsRefused`: of uses that link modules, a cycle is reported and only a cycle is; `OverflowHasCycle`: both recursions end where nothing uses itself; `LoadedAsDeclared`: in a tame workspace whose rules are all there, and whose modules could all be fetched, every rule is loaded once, under its users' names; `RulesAreLatest`: with one package, named by the name that updates it, in no older version than the latest (an organization's module of its name, or what a failing step left, may stand in its place) |
| `host`, configuration | 2 commands of `install` and `init`, 2 providers with 2 versions, 6 workspaces, crashes, failing writes and calls | `ConfigLoads`: what could be read, from one `selefra` section, can be read, and passes the check, unless a write was cut short; `JobsAreDistinct`: where that is so, no `apply` waits for its own lock, unless a provider was asked for twice, the settings stand in two files, or different jobs are spelled as one schema |
| `host`, console | 1 apply with 1 call of `RunRules`, all faults | `StatusIsTrue`: a report says error if, and only if, its stage had an error, and no line of the pull follows its report but that which says that the report failed; `ReportsFollowTask`: in order, of the task; `ClientMatchesToken`: whoever is logged in has a client |
| `host`, database | 3 processes, 2 openings each, all faults | `QuietIsUp`: when all are done the database runs on its port, however they overlapped, unless an installation was cut short or disturbed |
| `upload_workspace` | one apply, no fault | refutes `FileMapReturns`; see below |
| `registry_remove` | one `provider remove`, no fault | refutes `RemovesAll`; see below |

**Why the bounds are enough.** *Pipeline:* with capacity 1 three rows fill the
channel, the hand of the uploader and the producer that waits, so each way of being
full occurs; nothing depends on 100 but the limit. A window of 1 or 2 makes sends
wait, and lets two issues, of one call or of two, be on the wire. Two calls are the
least that share the stream, and a stream that is closed or lost never opens again,
so a third call finds what the second found. The theorems below lift the bounds for
the safety properties. *Synchronization:* a lock has one owner, so two processes
show every conflict over one schema, and two schemas every cycle; a third process is
there to take no lock. The age of an update time is bounded by `MaxAge`, one more
than the cache time where expiry must be seen in between. *Session:* two processes
and two tokens are the least with which one command can find another's token or
half-written file. *Registry:* two processes for the same reason; two providers,
since a loop that ends too early needs a second declaration; two versions are an old
and a new one. The arguments of `install` are one provider, or both in an order
other than that of the workspace. *Host:* the trees hold each kind of use from each
kind of file, cycles of one and two files that a check can start on and off, and a
package that uses itself, another one and the workspace; a third file on a cycle is
met as the second is. Two commands are a command and one that reads what it wrote.
One call of `RunRules` has a watchdog and an uploader that outlive it and report
beside `main`; those of a second call do so on the same stage, and no property knows
the call. (Two calls have 1.2 million states and satisfy the same properties; the
run would take five minutes.) Three processes show a database that one stops,
another starts and a third finds running; the second opening of each finds what the
first left.

**What the runs leave out on purpose.** `FreshIsPulled` and `CachedSchemaSpec`
are about applies that share one cache time and can read the stored update time.
`Sync` ignores an error of that read (`sync.go:129`), pulls over fresh data, and
if the pull fails the old time vouches for partial tables; and a fetch, which
takes no lock and stores no time, can leave partial tables with a fresh time at
any moment. Both are listed as hazards. Nothing in the repository promises the
contrary, so no run reports them as findings; `sync_fetch` includes both.

**Findings.** `login.go:41` says of `ShouldLogin` "if login successfully, global
token will be set". In `session_login` the server refuses the stored token,
`MustLogin` asks the user for another, and the server accepts it; but the global
token was set to the refused one when it was read (`home.go:153`) and
`displayLoginSuccess` (`login.go:115`) sets it only when it is empty. `init
--relevance` then goes on with the refused token.

`remove.go:18` describes `provider remove` as "Remove one or more plugins from
the download cache". In `registry_remove` a workspace declares two providers and
the second is to be removed: the loop meets the first, which is not named, and
leaves with `break` (`remove.go:57`). Nothing is removed and no error reported.

The comment of `FileMap` (`config.go:211`) says that it loads the YAML files and
returns "a map filename => file_content", and its test wants an entry
(`config_test.go:15`). The map is its named result, which no line makes, so the
first file ends in a panic (`config.go:231`). `apply` calls it when its rules have
run, logged in or not: in `upload_workspace` an apply to which nothing bad happens
panics at its end. The deferred release of the locks and `utils.Close` still run,
so that the other models need not know.

**What the hang means.** `Hung` is reachable, and the runs say so by what they
prove about it: `RunRules` waits for room in a channel whose reader has left,
the watchdog cancels a context the send does not look at, and `apply` keeps its
schema locks until it is killed. `apply` waits too, with the same locks, behind an
uploader whose send the server makes no room for; that ends when the server reads or
the connection is lost. The properties say exactly when the one or the other happens.

**Fairness.** The Go scheduler runs each goroutine that can run, so `Main`,
`Uploader(k)` and `Watchdog(k)` are weakly fair, and a running ticker fires.
Queries, the uploading of a status and the printing of a line return, with or without
an error. The breaking of the transport and the reading of the server are not fair: no
liveness property may lean on them. So a send on the issue stream need not return: the
uploader is fair only while it is not `Blocked`, and both properties that need it to go
on except a send that is blocked for ever. (Each printed line goes to the log stream
too, with the same kind of send; a server that does not read that stream stops a
command at any line, which is not modelled.) In `SchemaSync` each process is weakly fair;
weak fairness of `LockSchema` is the retry every five seconds, and does not say
that a lock that others keep taking is ever obtained. Crashes, the freeing of a
left lock and the passing of time are not fair.

## What is proved

### IssuePipeline

`IssuePipelineProofs` proves, for every number of calls, rules and rows, every
capacity and window and every set of faults, under `PipelineAssumption` alone:

| theorem | statement | argument |
|---|---|---|
| `TypeCorrect` | `Spec => []TypeOK` | `TypeInv` is inductive. `TypeOK` is not: `call` stays a call while `RunRules` runs (`MainInv`), the uploader holds an issue exactly while it sends (`HandInv`), a call that has not begun has no uploader (`CallInv`) |
| `DeliveredInOrder` | `Spec => []InOrder` | `OrderInv` is inductive given `TypeInv` |
| `NothingIsDropped` | `Spec => []NothingDropped` | from `OrderInv`: each number is read, or not yet accepted, or on the wire by `WireComplete` |
| `ImplementsDelivery` | `Spec => DeliverySpec` | each step maps to a step of `IssueDelivery` or to a stutter, under `TypeInv` and `OrderInv` |
| `NothingEndsAHang` | `Spec => HangIsForever` | no action has a guard that holds of the goroutine that hangs, and no action adds room |
| `HangHasCause` | `Spec => []HangNeedsCause` | `CauseInv`: a failed uploader left a broken stream, a closed one was cancelled |

`OrderInv` is needed because `InOrder` speaks only of what arrived. It follows
each issue through channel, hand, wire and server: the channel holds consecutive
numbers that end with the last produced (`QueueInv`), what was read is a prefix
of what the stream accepted (`ReadInv`), the wire carries, for every call, the
numbers in between in increasing order (`WireSorted`, `WireUnread`), all of them
while the stream works (`WireComplete`), and nothing when it does not
(`WireEmpty`). `Accepted[k]`, the last number the uploader is done with, links
them. The calls share the wire but not the numbers, so the invariant is stated
per call over one wire.

### SchemaSync

`SchemaSyncProofs` proves, for every set of processes, of which any may be applies,
all declarations, cache times and faults, under `SyncAssumption`; the last three for
*uniform* instances (`Uniform`), in which every process is an apply, with one cache
time, and can read the stored update time. Without that they are false: see what the
runs leave out on purpose.

| theorem | statement | argument |
|---|---|---|
| `TypeCorrect` | `Spec => []TypeOK` | `TypeOK` is inductive |
| `SchemasAreExclusive` | `Spec => []ExclusiveUse` | `SyncInv`: what is in `lockSlice` is owned, each declaration once (`LockInv`), and an apply that is in the steps of a turn holds the lock of its declaration (`WorkInv`) |
| `ReadersAreUndisturbed` | `Spec => StableWhileRead` | a step that changes tables is one of `Fetch`; if it is an apply's, `WorkInv` gives it the lock that the reader has |
| `FreshIsComplete` | `Spec => []FreshIsPulled` | `PullInv`: while a schema is pulled its stored time counts as expired, only the holder of its lock fills it, and it is complete when its time is to be stored |
| `PartialIsTold` | `Spec => []PartialIsReported` | `DoneInv`: each declaration that the loop has passed is complete and locked, or noted, or left out for want of a binary |
| `ImplementsCachedSchema` | `Spec => CachedSchemaSpec` | each step of a process changes one schema, as a step of `CachedSchema`, or none |

Uniformity is needed because the argument is one about age: what one apply pulls
must be expired for every other, or another would take partial tables for fresh.

### Session

`SessionProofs` proves, for every set of processes, commands, tokens and faults,
under `SessionAssumption`:

| theorem | statement | argument |
|---|---|---|
| `TypeCorrect` | `Spec => []TypeOK` | together with the two below |
| `StoredTokensWereAccepted` | `Spec => []StoredWasAccepted` | `WriterInv`: who is on the way to a write, also through `GetCredentialsPath`, logged in with the token it writes, or logs out |
| `BlankIsBeingWritten` | `Spec => []BlankHasWriter` | `WriterInv`: a handle is open only between the two steps of a write, or its process died there; a write that closes it over a blank file failed |
| `FileHoldsSession` | `Spec => []FileIsSession` | `SoloInv`, given the invariants above: see below |
| `ApplyHasSession` | `Spec => []ApplyUsesSession` | `SoloInv` |
| `DamageIsForever` | `Spec => DamageStays` | every step that opens, writes or removes the file is one of a process that is on its way to a write; who begins reads the file first, and gives up on a text that is no JSON |

`FileIsSession` speaks of the time between two commands, and of commands of which one
has ended before the next begins. `SoloInv` says what holds while the only command
runs: unless it is about to store, the file holds the session; if it is, the session
is already the token that it is going to store, or none in a logout (`SoloOf`). The
file is blank exactly while this command is between creating and writing, and absent
where it creates. `ApplyOf` follows the token of an apply: it has none until it has
read the file, what it logs in with is the session, and what it stores is what it
logged in with.

### ProviderRegistry

`ProviderRegistryProofs` proves, for every set of processes,
providers, versions, workspaces, declarations, arguments, commands and faults, under
`RegistryAssumption`:

| theorem | statement | argument |
|---|---|---|
| `TypeCorrect` | `Spec => []TypeOK` | `ControlOf`: a command that is in a turn of its loop has an item; `Mirrors`: a command that reads the declarations keeps a list as long as they are |
| `EntriesAreOwn` | `Spec => []EntryIsOwn` | `RegistryInv` |
| `EntriesWereWhole` | `Spec => []EntryWasWhole` | `RegistryInv` |
| `WhatIsDeclaredWorks` | `Spec => []DeclaredWorks` | `SoloInv`, given `RegistryInv` |

`RegistryInv` follows a path wherever it goes, since a process may write into
`config.json` what it read long ago. `Paths[n][v]` is the set of paths that may stand
for version `v` of `n`: binaries that were complete once, of the version itself or of
an older one if there was a release. It only grows: nothing takes a binary out of
`wholeOnce`, and the latest version only rises, by a release. Every path that stands
in the file, in the copy of the file that a process is going to write back, in the
list that it looked up, and in the entry of its turn, is in that set (`SoundMap`,
`SoundList`, `SoundTurn`), so that no interleaving of reads and writes makes a path
wrong. A new path comes from an extraction: it joins the set when a plugin has started
from it, before it is entered. The invariant was checked by TLC on the instance of
`Registry.cfg` before it was proved.

`DeclaredWorks` is about commands that run one after the other, and none crashes, as
long as the home directory can be written: after a failing write it is false, since the
code declares all the same (`tools/providers.go:165`) and nothing says so. The other
properties, of every entry that is there, hold under failing writes too.
`SoloInv` says what the only command may find and leave. `Says` is what `config.json`
says when the command has written what it is about to write. What is declared is led
by `Says` to binaries that work, and so is what an install has entered and is going to
declare at its end (`LeadOf`). The cache is changed in three ways, and none takes a
working binary from a declaration (`CacheOf`): an extraction goes over a binary that is
not there, a remove deletes only providers that it was asked to remove, and entries are
written only for binaries that started (`WorkOf`; an apply starts all its plugins
before it enters the first). A call that fails leaves the command with what it has
entered, or with nothing.

### ConfigFiles

`ConfigFilesProofs` proves, for every set of workspaces, providers and versions, every
number of commands and all faults, under `ConfigAssumption` (the types of the
constants, and that settings stand in a section of their own and declarations under the
key `providers`):

| theorem | statement | argument |
|---|---|---|
| `ConfigTypeCorrect` | `ConfigSpec => []ConfigTypeOK` | `TypeInv` |
| `ConfigurationLoads` | `ConfigSpec => []ConfigLoads` | `ControlInv`: an install writes one file with a `selefra` section, an init its three files with the main one last. `ReadyInv`: while nothing is damaged, the files are readable, from one section, until a command begins to write |
| `JobsStayDistinct` | `ConfigSpec => []JobsAreDistinct` | `NowInv`, `CommandInv`; also under `PlainAssumption` |

`PlainAssumption` says that in the workspaces to begin with a source has a namespace and
a name and that no file has one group of settings twice: `JobsAreDistinct` is about what the
commands add. `Clean` is what it takes for a configuration to have no job twice: its
declarations have different names, and so have the groups of one provider. `NowInv`
says that the configuration in the files is clean until a command begins to write;
`CommandInv` says the same of the configuration in the memory of a command, which
reaches the files at its end, and that it has settings by then: so a workspace whose
settings stand in one file has them in the file that was written. Both speak of a
configuration in which nothing was asked for twice: `AlsoNamed` and `Named` are what
`asked` will be when the command is done. That `Jobs` of a clean configuration repeats
no job is a fact about two nested concatenations (`CleanJobs`). Whether different jobs have
different schemas is a question of spelling, which the commands do not ask either:
`SpelledApart` is a premise of the property, and where it fails so does the property.

The first form of `JobsAreDistinct` had no premise about `damaged`, and the proof of it
failed for a good reason: after an `init` beside the configuration of another file and
a crash that left the main file empty, an install goes on with that other
configuration, and declares again what it has; `asked` knew only what the `init` had
named. It takes three commands, and the runs have two. The property now speaks of
workspaces whose configuration can be expected, as `ConfigLoads` does.

`SequenceFacts` proves what is needed of `FlattenSeq`, a recursive function of the
community modules: that the function exists, that it has exactly the elements of the
sequences it is given, and that it repeats none if they do not (`FlattenElements`).
The library's induction takes an operator, which no prover here can instantiate;
`Upwards` is induction with a set in its place, and follows from the
well-foundedness of the order of the natural numbers. Where the code has a loop over a
list, `ModuleExpansion` has a recursive function of the number of turns: `LoopExists`
says that there is one, `LoopStays` that what a turn keeps holds after the last.
`ListsAll(q, S, V)` says that `q` has the value `V[x]` of every member `x` of `S`, each
member once and in any order; equal values of different members stay apart, since a list
without repetitions stands behind `q`. It is what "every one, exactly once" means where
the order is that of a Go map. The lemmas about it say that appending and mapping keep
it, and that the concatenation of lists, of which each lists its own set and whose sets
are apart, lists the union (`FlattenLists`).

### ModuleExpansion

`ModuleExpansionProofs` proves, for every set of module files, every registry and
all packages that were installed before, every order of the maps and all failures,
under three assumptions. `ModAssumption`: the files are finitely many, each is in a
directory, and no file has both modules and a rule. `PackageAssumption`: where
`config.json` records the latest version of a package, no older version of it is
installed, but that one, nothing, or something else: an organization's module of
that name, or what a failing step left. `ModulesUpdate` records a version only when
it has installed it, removes what is there first (`home.go:268-297`), and installs
in the directory otherwise only for an organization; it assumes that the latest
version of a package never goes back, and that one apply at a time installs it.
`UseAssumption`: files are in the workspace or the home and are no directories, no
package is called `.`, and a use of a package names one (the code takes that
component without asking whether it is there). TLC evaluates all three on `host`.

| theorem | statement | argument |
|---|---|---|
| `ExpansionTypeCorrect` | `ModSpec => []ModTypeOK` | `TypeInv`, with the types of what each call has left, of the modules and of the flattened list, which are those of the uses |
| `ReportedCyclesAreReal` | `ModSpec => []CycleIsReal` | `UsesInv`: until they are linked, modules use what their files say. `WalkInv`: the list of paths is that of the open calls, each used by the one before |
| `CyclesAreRefused` | `ModSpec => []CycleIsRefused` | `SafeInv`, `DoneInv`: see below |
| `OverflowsAreCycles` | `ModSpec => []OverflowHasCycle` | `OverflowInv`: see below |
| `OnePackageIsLatest` | `ModSpec => []RulesAreLatest` | `LatestInv`: see below |
| `EveryRuleIsLoaded` | `ModSpec => []LoadedAsDeclared` | `PlainInv`, `LinkedInv`, `RulesInv`: see below |

*Cycles.* `checkCycle` keeps no set of what it has seen, so one cannot say which files it
has been at. `SafeInv` says instead what is left when a call has ended: `Safe(x)` is the
union of the sets of files that are closed under uses and do not have `x`, and whatever
an open call uses is safe for the start, or still in its list, or the next open call. A
call without anything left joins a safe set, and a check that ends has put the start on
no cycle (`DoneInv`). `OnCycle` is defined by closed sets for this reason; for finitely
many files it is the same as a path back.

*Overflows.* `Opened` says of the open calls of the discovery that each is on the way
from the module files of the calls that it was made by, along `Follows`, whether it
was made for a file, a directory or a package. It needs the root that every call joins
uses to (`Based`): a file of a package keeps the root of its package. `Checked` says the
same of the calls of `checkCycle`. A call that is entered again then is on a cycle.

*Versions.* `Own(p)` says that the known files name no package but `p`, by the name
that updates it. Then `LatestVersion` is that of `p` (`Consistent`), and `Sound` is
a set of uses which is closed under all that the expansion does with uses: whatever
leads into the home is there only if `p` is in no older version than the latest
(`Fresh`). That the linking, the flattening and the reading of rules stay within a
closed set of uses is proved once, for any such set (`RewritingsKeep`,
`FlattenedUses`, `RulesRead`); the type is another.

*Rules.* Between the file that declares a rule and the list that runs, the modules are
linked, flattened and read, by loops over maps. `PlainInv` says that until they are linked
modules have the uses of their files. Linking changes them file by file, in any order:
`LinkedInv` describes each module by what has been linked so far. In a tame workspace a
file has one user, and what is used links nothing itself, so that the order does not
matter: a module has its name and, once its file was linked, lists each known file that it
uses (`Placed`); a use is rewritten when its own file is linked, or joined to a directory
when its file is used (`Fits1`); and the files used so far are those that the uses of the
linked files lead to (`UsedFits`). `LinkFileDoes` says what one turn does to all modules,
`LinkKeeps` that it keeps this, `AllLinked` what holds when no file is left.
Then `FlattenLoads`: the flattened list lists the modules that no other uses and those that
they use (`ModuleSites`), each once, with the names of their users (`Flats`). A tame
workspace has users of one level, and `DeepFmt` has nothing to do below the second
(`ChildFormat`, `RootFormat`). `RulesList`: the rules list the uses of rules, each as it is
declared (`Declares`). Both are `ListsAll` of `SequenceFacts`. `ListsCount` turns it into
the equality of numbers of `LoadedAsDeclared`: positions with a value are as many as uses
that declare it, so that no rule is lost, none is doubled, and none comes in that no module
declares.

This proof corrected the model and the property in four places that the trees of the run
did not tell apart. The error of a module that cannot be fetched while linking ends neither
the linking nor `apply` (`Fetched`). `Declared` joined the place of a rule in the home in
another way than the code. Lost uses are told apart by their position, and the path that
a lost use leads to keeps its root.

Two properties changed when their proofs failed for a good reason. `CycleIsRefused`
spoke of all cycles of files; a cycle of files of a package that nothing discovers is
never checked, nor loaded, so that it now speaks of those that are known
(`NamesKnown`). `RulesAreLatest` had no premise on absolute uses.
Let a module use a file of the workspace and, by its absolute path, an installed rule of
`p`, and let that file use `selefra/p/c`. The update of `p` may fail in the discovery,
which only prints the error. It would be tried again when the second file's uses are
rewritten, and then refuse the workspace; but if the first module is linked before, that
use has been joined to a directory and names a package no more, so that the rule of the
old version runs. TLC found it on such a workspace, which `host` now has; the property
excludes such uses.

### DbBootstrap

`HostProofs` proves, for every number of processes and of openings, under
`OpensAssumption`:

| theorem | statement | argument |
|---|---|---|
| `DbTypeCorrect` | `DbSpec => []DbTypeOK` | one process at most runs `initdb`, and the data is partial while it does (`DbTypeInv`); data that is ready with the port of `initdb` has the process that is about to change it, unless that died (`InstallInv`) |
| `DatabaseIsUp` | `DbSpec => []QuietIsUp` | `InstallInv`: an installation that began and was not cut short is ready or somebody is at it; `ServerInv`: a server that is down, or on the wrong port, has somebody about to start it, or to stop and start it. When all have returned there is nobody, so it runs |

### TaskReport

`HostProofs` proves, for every number of calls of `RunRules` and all faults,
under `RoundsAssumption`:

| theorem | statement | argument |
|---|---|---|
| `TaskTypeCorrect` | `TaskSpec => []TaskTypeOK` | `PlaceInv`, `WorkerInv`, `ClientInv`, `AccessInv` |
| `LoggedInHasClient` | `TaskSpec => []ClientMatchesToken` | `ClientInv`: nothing prints before the token is set, and no later step unsets it |
| `StatusIsTold` | `TaskSpec => []StatusIsTrue` | `AccessInv`: whoever uses the map does so for the stage that `main` is in, since `main` changes the stage only when nobody uses it. `StatusInv`: so the map says error exactly of the stages in which a line was complete. `PullInv`: the watchdogs begin after the pull, and `main` prints no line of it after a report that was answered |
| `ReportsAreInOrder` | `TaskSpec => []ReportsFollowTask` | `OrderInv`: what `main` has reported belongs to stages before the one it is in, and to that one only once it has reported it |

### Only model-checked

- *Liveness.* `RunRulesReturns`, `StalledCallIsCancelled`, `UploadersEnd` and
  `EndsOrDoomed`: TLAPS handles neither fairness with `ENABLED` nor leads-to.
- *The properties that are refuted*: what a run expects to be violated has no proof.

Every invariant of the passing runs, every action property and both refinements are
stated by a theorem; `DbTypeCorrect` says more than a run checks, as no bug of this
code can break it. The models use recursive functions where they recurse (`Chain`).

## Assumptions about the environment

- *gRPC.* A stream keeps the order of what it accepts; a send after `CloseSend`
  or after the connection is lost fails, and a send after `CloseSend` aborts the
  stream with what the server has not read.
- *Locks.* The storage SDK's `Lock` excludes until `UnLock`. A lock whose owner
  is gone may stay for ever or be freed; the model allows both.
- *Plugins.* A drop, create or pull of a plugin may stop anywhere. Two pulls into
  the same tables leave a mixture. A pull whose stream ended is complete.
- *Database.* A restart of the database by `RunDB` shows in the models as calls
  that fail.
- *File system.* Read, remove, create-or-truncate and write are each atomic, and each may
  fail; a write that fails leaves the file as it was opened, or with a part of the text,
  which is no JSON. The tokens have one length. In `ProviderRegistry` the file
  `selefra.yaml` of a workspace is written in one step and without an error, since no
  property there is about a torn one; its writing is a part of `ConfigFiles`.
- *Downloads.* An extraction creates the binary and then completes it. Of two
  extractions into one directory the later one counts. A partial binary does not
  start; a whole one may still fail in a later call.
- *Registries of providers and of modules.* Versions are released in order and never
  withdrawn. One apply at a time installs packages of modules.
- *Files of a workspace.* They do not change while `apply` reads them, and one
  command at a time writes them. A module file begins with its `modules` section
  and is well-formed. The rewriting of a file's uses of packages is done before
  its modules are linked (the code alternates per module; the two differ only for
  a file that uses itself).
- *Memory.* A recursion that enters a call that is still open does not end. Two
  overlapping accesses to a Go map, one of them a write, either stop the process
  or happen one after the other.
- *PostgreSQL.* `initdb` refuses a directory with data and removes what it made
  when it fails; `pg_ctl start` fails on a server that runs.
- *Cloud.* A login of a token either fails or is accepted; the server may stop
  accepting a token at any time, and does or does not do so at a logout.

## What is not modelled

`PROJECT.json` lists each component with its status. Left out for good: generated
gRPC code, logging, progress bars, the version command, the query console (a
read-eval-print loop without state), template substitution and the download of
files, which only wrap libraries. Three small components have no module of their
own: the cache time (`parseDuration` turns a text into the bound that `SchemaSync`
has as a constant), the plugin lifecycle (starting, pulling and closing a plugin
are steps of `ProviderRegistry` and `SchemaSync`; the package wraps a library that
ends a plugin with its parent) and the rule tables (`match` searches a text, and
its result is metadata of issues, which the models leave out).

Left out of the modelled components: the text of messages and of issues, the
number that each line of the log gets, the errors in a plugin's diagnostics, keys
of the credentials file other than the token, the bodies of the requests,
declarations with a `path` of their own (whose directory `remove` and `update`
delete), in the registry providers with several configurations, the checks of the
keys of modules and rules, and the list on the terminal in which `init` lets one
choose providers.

## Plan

No safety property of the passing runs is left without a theorem. What could follow:

- *Liveness* stays with TLC, as long as no prover here handles `ENABLED`; larger
  instances of `issue_watchdog` and `sync_liveness` are what would add confidence.
- *Wilder workspaces.* `LoadedAsDeclared` is false when a file has two users, or when what
  is used uses something other than rules beside it. `Tame` says what the expansion
  handles; the code neither documents nor checks it.
- *The unmodelled parts* are listed above, with the reasons. Four hazards in
  `PROJECT.json` have no property: errors that are dropped or overwritten, and the rules
  of a `latest` provider, which read a schema that nobody locked. Others say in their
  note which part of them no property catches. Nothing in the repository says what
  should become of these.
