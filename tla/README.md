# Verification of MagicTools

TLA+ models of the MagicTools Supervisor and of the parts of the desktop
application that depend on its ordering guarantees, the TLC configurations that
check them, and TLAPS proofs of their most important properties. Every
definition is translated from the source; `PROJECT.json` maps each to the lines
it stands for.

## The system

MagicTools is a desktop application (Tauri, `apps/desktop`) with a background
Supervisor (`crates/supervisor`) that starts, watches and stops the user's
development processes. The two talk over an authenticated local channel. The
Supervisor owns a SQLite database (`crates/storage`), captures logs
(`crates/logging`), scans processes and ports (`crates/discovery`), and reaches
the operating system through `crates/platform-*`.

| Component | State it keeps | Operations | What is hard | Correct means |
|---|---|---|---|---|
| Managed stop service (`managed_runs.rs`) | a control per run in memory, one mutex | begin, advance a worker, monitor exits, reconcile | crashes, lost answers of the database, workers superseded half-way | one signal attempt per operation, controls agree with the ledger, stops end |
| Durable stop ledger (`stop_contract.rs`, `recovery_contract.rs`) | tables `runs`, `managed_stop_operations` | request, supersede, reserve, record, time out, complete, reconcile | every transition spans two tables and stamps both from a clock that may go backwards; requests are replayed | the tables never contradict each other, results are final, every row can be read again |
| macOS process control (`platform-macos/managed.rs`) | identity of a process group, right to wait for the child | revalidate, signal, poll, probe | reuse of pids, descendants, roots that leave the group | no exit is reported while the group lives |
| Managed launch (`managed_runs.rs`, `run_contract.rs`) | starting rows, suspended children | intent, spawn, bind, resume, mark, clean up | failure after each step, crash between spawn and commit | no process without a row or a control |
| Managed exit (`exit_contract.rs`, `app_lifecycle.rs`) | durable exit operation with items | assess, prepare, stop children, project | the lock is released between the steps | the application leaves only when all is settled |
| Log retention and readers (`retention_contract.rs`) | deletion marks, registry of readers | begin deletion, delete, register, evict | directories are removed outside the lock | no reader loses its files, no mark is forgotten |
| Log capture (`crates/logging`) | decoder, control filter, redactor, files and window of a stream | decode, filter, redact, append, rotate, read from a cursor | chunks split anywhere, cursors into evicted parts, torn writes | a reader is given what was written or learns of the gap, and nothing of a secret |
| Revision stream (`revision.rs`, `bridge.rs`, `supervisor.ts`) | revisions, frozen sessions; the store of the window | publish, subscribe, page, buffer, resynchronize | lag, answers that overtake events, reconnects | the window shows what the Supervisor has |
| Catalog changes (`project_rule_contract.rs`) | projects, rules, mutation ledger | prepare, publish to the scheduler, commit | publication precedes the commit | scheduler and database agree |
| Profile credentials (`profile_credentials.rs`) | profiles, cleanup queue; secrets in the system's store | save, delete, clean up, start | two stores without a common transaction | no secret is leaked, none in use is deleted |
| Migration recovery (`migration_recovery.rs`) | marker, backup, database files | back up, migrate, restore | crash or power loss between any two file operations | no transaction is lost, a start-up succeeds |
| Discovery scheduler (`scheduler.rs`) | scan in progress, enrichment queue | scan, enrich, cancel, shut down | late results of cancelled tasks | no stale result is applied, requested scans run |
| Supervisor channel (`supervisor/lib.rs`, listeners, `crates/protocol`) | lock, token and endpoint of the runtime directory; permits; a session per connection | acquire, publish the token, bind, accept, authenticate, drop | successors of a dead Supervisor, other builds, a failing step of either end | only the Supervisor in service is found, and both ends have proved that they know its token |
| Bridge calls (`bridge.rs`, `async_io.rs`) | queue of commands, pending requests, frame half read | send, cancel, reset, expire, match an answer, reconnect | reads dropped half-way, writes that time out half-way, late answers | an answer reaches its own call, every call is told something |

Components interact as follows. Requests reach `ManagedRunService` through the
RPC layer and run under its one asynchronous mutex; a stop leaves a worker task
behind that takes the mutex for each step. The service writes the ledger
through the repository and acts on processes through `PlatformRunControl`.
Profiles and their secrets are mutated under the same mutex. Log workers and
the scheduler publish into `RevisionState`, whose events go to the bridge over
a bounded broadcast channel while snapshots are requested page by page. The
database is opened, and migrated, before anything else runs.

`PROJECT.json` lists the remaining components (native scans, diagnostics, the external stop,
...) with the reason each is left out.

## Modules

| Module | Models |
|---|---|
| `StopLedger` | rows, states and the decisions of the storage contract as operators |
| `MacosProcess` | what the platform observes of a process and does to it, as operators over a small state of the world |
| `ManagedStop` | the stop service: composes the two, with clients, workers, monitors, crashes and startup |
| `StopLifecycle`, `StopRefinement` | abstract: the life of an operation id as a client may rely on it; `ManagedStop` with the mapping to it |
| `ManagedLaunch` | starting a run, step by step, with the suspended children of both platforms |
| `RunRows` | the stamps of the rows of `runs` and `managed_stop_operations`, the clock they come from, and who refuses which row |
| `ChildHandles` | the pipes, terminals, jobs and handles of a launch, on both platforms: who holds and who closes them |
| `LaunchInvocation` | from a profile to the words, variables and file of its program, and the preview of it |
| `CatalogPages` | lists of projects, rules, profiles and runs, read page by page while they change |
| `ManagedExit`, `DesktopExit` | stopping all runs before the desktop quits: the Supervisor's operation, and the dialog that asks for it |
| `DiscoveryScheduler` | the discovery actor: scans, enrichments, project evidence, caches and queues |
| `DiscoveryFeed` | the ports of the same actor, from scans and enrichments, and the bounded accumulator that publishes every change |
| `CatalogChanges` | saving and deleting projects and rules, published to the scheduler before they commit |
| `LogReaders` | who may read and who may delete the logs of a run |
| `LogStream` | one output stream: the capture worker, its rotated files, its window, and the source of events |
| `LogText` | from the bytes of a pipe to the text of a log: decoding, control sequences, redaction |
| `MigrationRecovery` | one start-up as a sequence of file operations over a file system that may lose power |
| `SupervisorChannel` | the runtime directory, the listeners, the handshake, and the bridge's search for a Supervisor |
| `BridgeCalls` | the same with the calls of the window: composes a connection with the bridge's queue and its table of requests |
| `Filters` | what a filter of a list keeps, as a function |
| `RevisionStream` | the Supervisor's revisions and sessions, the bridge, and the snapshot store of the window |
| `ProfileCredentials` | database, cleanup queue and credential store, step by step |
| `MC...` | instances of the above for TLC: symmetry, sets of values and scenarios |
| `..._proofs` | theorems |

Operators named `Faulty...` are wrong variants of the definition that follows
them: each breaks one property, so the property says something of the code.

Instances put parts side by side that share no state: `MCProfileCredentials`
(`ProfileCredentials`, `LaunchInvocation`), `MCLogs`
(`LogReaders`, `LogStream`, `LogText`), `MCManagedLaunch` (`ManagedLaunch`,
`RunRows`, `CatalogPages`, `ChildHandles`), `MCDiscovery` (`CatalogChanges`,
`DiscoveryFeed`) and `MCMigrationRecovery` (`MigrationRecovery`, `BridgeCalls`)
have a variable `part` that says which one moves, so that one run checks them
all. `MCDiscovery`, `MCDesktopExit`, `MCLogs`, `MCMigrationRecovery` and
`MCRevisionStream` choose a scenario (bounds, inputs, sizes) in `Init` from a
set; every scenario is a small instance of its own.

### Managed stop

`runs` and `ops` are the two tables (`ops` keeps only the columns the protocol
decides on), `controls` is the service's map of `PlatformRunControl`, `serving`
and `pending` the startup reconciliation, `world` the operating system,
`attempts` a history variable. Each handler and each step of
`advance_stop_worker` runs under the mutex and is one action: `BeginLive`,
`BeginFinished`, `BeginSupersede`, `BeginReplay` (begin_supervisor_stop);
`ReserveSignal`, `SendSignal`, `RecordAttempt`, `ObserveExit`,
`ObserveLostBoundary`, `GracefulTimeout`, `ForceTimeout`, `CompleteStop` (the
phases of a worker); `ConfirmNaturalExit`, `PersistNaturalExit` (the monitor of
a run with a pty; a run launched with pipes has none); `Crash`, `Reconcile`,
`Serve`. A write has three outcomes: refused (the worker retries, a stutter),
acknowledged, or applied with the answer lost.

`Init` is what `start_platform_run` leaves behind for each run: `RUNNING` with
an owned control, ended, or failed; how it gets there is `ManagedLaunch`. Three
things are simplified because they cannot be told apart: the compare-and-swap
on `updated_at` is the atomicity of an action (one writer); the identity
mismatch branch of begin cannot arise, as the key of a control equals the key
of its row; timestamps are in `RunRows`, exit details are left out.

`BeginMayLoseReply` is the one switch of the model. begin_supervisor_stop
commits the request and then reads the run again (`managed_runs.rs:2625`); when
that read fails the handler returns with the stop in the ledger and the control
not moved. With the switch on, `LedgerCoherent`, `AtMostOneAttempt`,
`ResultsAreFinal` and `ImplementsLifecycle` still hold (checked, and proved for
both values): the worker of the stop that was replaced may still signal once,
without leaving a record, and `StopLifecycle` says so (`LateAttempt`). The
agreement of controls and ledger does not hold, for this one cause, which
`stop_lost_force` shows; `NoStopIsStuck` is checked with the switch off.

### Managed launch

`launch` is the launch in progress and its next step (`Prepare`, `Identify`,
`Bind`, `Resume`, `Mark`, and the ways out `Terminate`, `RecordFailed`,
`RecordPending`), `row` and `bound` what is durable, `control` what the
Supervisor holds, `child` the process and `owner` what its owner knows of it
(`killSent`, `lost`, `resumed`, `assigned`). Every step may fail, a write also
with its effect. `ChildMoves` lets a process end, lose its root or leave its
group. A crash drops the controls; on Windows the job object then kills what
was assigned to it. `Probe` and `Reconcile` are the start-up. Resolution of the
command, the environment and the log directory are preparations that may fail.

`EndRun` ends a run that seems gone (`SeemsGone`). For a run the Supervisor
launched that is the truth; one that a restart regained is asked with killpg(0)
alone, so its row becomes EXITED and its control is dropped while a root that
left the group lives on. `ProcessesAreAccounted` names that one case
(`LeftItsGroup`), the finding `stop_recovered_exit`, and admits no other.

### Child handles

`LaunchSteps` is the launch as a list of steps, each with what it opens and
closes: the preparation of either platform (`PrepareProcessGroup`,
`PrepareIntoJob`, with pipes or a terminal), then the steps of
`start_platform_run`. `handles` says who holds what: the call, the launch, the
owner of the child, a capture worker, or the console host of Windows. A step
that fails unwinds in the order in which Rust drops locals and fields
(`closing`), one handle at a time, while processes, workers and whoever moves
the executable go on. `HandlesAreAccounted` says that nothing leaks whichever
step fails, that no output waits for a writer nobody closes, that a program
runs in its job and from the file that was asked for, and that no drop hangs.

Observations. The path of an executable may lead elsewhere between its
identification and CreateProcessW; the comparison with the image of the
suspended process is what makes that harmless. A cleanup that stays pending
keeps job and process of Windows but on macOS not the terminal, which belongs
to the process value and is closed with it.

### Launch invocation

`asked` is a profile with the four layers of its environment, the disk and the
stored secrets; `Preview` and `PlanLaunch` compute what preview.rs computes,
`TryCandidate` goes through the candidates and gives the program its words and
variables. Paths are roots and parts, words are sequences of units; how a
program of Windows takes its command line apart is modelled from its
documentation (`CommandLineToArgv`). `LaunchesAreAsAsked` compares what the
program receives with an independent reading of the profile: the last layer
decides, the first directory that holds the name wins, no script and no other
SystemRoot, every word as it was written, every secret redacted, and no budget
that the preview passed fails at the launch but for a longer candidate. The
order in which a candidate is refused or passed over is that of each platform:
Windows opens the file before it measures the words, macOS measures first.
The launch alone measures secrets and, for the log, sensitive inherited values
(`RulesFit`; the number and sum of the patterns cannot exceed their limits, as
an environment has no more entries and bytes). The total length of the
candidates and the state of the working directory are left out.

Observations. A command for `cmd` is quoted with the rules of C programs, which
cmd does not know: one with a quotation mark, or one that ends in a backslash
and holds a space, reaches cmd with additional backslashes
(`managed.rs:898`; the property excepts it). An entry of PATH that ends in a
separator makes the whole PATH invalid (`preview.rs:904`), so that with the
PATH Windows is installed with no bare name resolves. A bare `..` is a valid
executable for the preview of macOS and refused by the launch. On Windows a
file without extension that is no program, found before the one with `.EXE`,
ends the launch.

### Run rows

`rows` and `stops` keep the columns whose stamps are validated; every
transition takes a reading of the clock (`Readings`, which go up and down),
computes its stamp from the row as `next_canonical_timestamp` does, and sets
`refused` when the storage refuses a transition whose states allow it.
`CivilFromDays` and `NextDay` are the two ways the code computes a date, and
are compared over a whole cycle of the calendar. A stamp of the year 9999 that
cannot be advanced, `stop_method` and exit details are left out.

### Catalog pages

`records` is the table, `reader` the desktop with the pages it has put together
and its cursor, `calls` its requests, of which an abandoned one may still be
answered. `Create`, `Change` (a new name, priority or start time) and `Delete`
come between any two pages; a page is one query (`Serve`). Cursors are texts
that are written and parsed. `PagesAreComplete` says what a reader who was
given a whole list may rely on, although the cursor is a position and not a
snapshot.

Observations. A record that is renamed across the page boundary is shown twice,
and the desktop then refuses the whole list for a duplicate identity. A page of
100 projects of 64 KiB, or of 100 rules of 16 KiB, all of them valid, exceeds
the limit of the list on the wire and is refused as corrupt; the limits of
profiles and of the history are wide enough.

### Managed exit

`impact` is what an exit assessment shows of every run, moved by launches,
exits, stops by others and restarts (`RunMoves`, `Restart`); `exitOps` the
durable membership of an operation; `calls` the calls on their way, at work or
answered, each step of which takes the service lock anew (`ReadImpact`,
`Prepare`, `ReadBefore`, `StopMember`, `ReadAfterConflict`, `Project`). The
desktop is `pendingExit` and `exitNonce` in Rust, `flow` and `epoch` in the
webview, with events and commands between them that are delayed or repeated;
`Deliver` applies an answer, `CallTimesOut` gives one up.

`ExitFlowSettles` excepts one case that the code leaves open: a run that the
assessment showed as retained, for which the operation therefore has no stop,
and which a restart of the Supervisor then recovers, is polled until the user
decides.

### Discovery and catalog changes

A turn of the actor is a function of its state, as a method on `&mut self` is,
and the actions say when a turn is taken: `RequestFastScan`, `FastScanEnds`,
`RequestEnrichment`, `WithdrawEnrichment`, `EnrichmentEnds`, `RequestProject`,
`ProjectScanEnds`, the expiries, `Sweep`, `Shutdown`. `feed` is what the deltas
published so far say. `CatalogChanges` adds the service: a call prepares its
change in a transaction, publishes the new context to the scheduler, commits,
and takes the publication back when something failed (`Reconcile`, with
`reported` when that failed too). The route from the actor to the revisions is
not assembled in the repository and not modelled.

`DiscoveryFeed` is the other half of the actor. `desk` holds the records, the
managed bindings, the cache of ports with their confidence and the source that
decides when each expires, the results of enrichments, the availability of
ports, the accumulator (`pending`) and what a subscriber makes of the updates
(`view`). A scan of ports replaces the cache, an enrichment the part of one
process, an exit or an expiry removes a part; all of them go through
`Rebalanced` (who is shared at an endpoint), `Refreshed` (the results of the
others there) and `WithPorts` (the records), and every change through
`Accumulated`, which flushes when a change does not fit and refuses one that
never fits. `FeedIsFaithful` relates all of it. The size of a change is the
number of entities and bindings it holds, so `bytes = 3` makes a record with
two bindings too large. Changes accumulate by kind and identity and are handed
over together; the order of kinds within one flush is not modelled.

Observations. A subscriber whose snapshot was taken while the
availability of ports was not `Known` got no ports in it, and a scan that makes
it `Known` publishes only what differs from the cache that was kept; it is not
told of the rest until it resynchronises (`sees` in `FeedIsFaithful`). No client
of these updates exists in the repository yet. Cancelling stale scans already makes the check of generation and
directory in `apply_project_scan` redundant. A request that finds an expired
entry of the project cache removes the entry and leaves the evidence in the
record until the new scan is applied. `replace_managed_process_bindings` has no
caller outside the scheduler. Neither has `replace_classification_rules` of the
handle, and it is not modelled: the service replaces the whole context.

### Logs

`LogReaders`: `registry` is `ManagedLogReaderRegistry` (its entries, its queue
of completed readers), `request` the calls of `get_log_range` with their permit
(`Ask`, `Check`, `OpenHistorical`, `Read`), `cleanup` the retention cleanup
that holds the gate (`Inspect`, `Decide`, `Acquire`, `BeginDeletion`,
`RemoveDirectory`, `MarkDeleted`), `starting` a start, which asks for a cleanup
first. Sizes are counted in runs. `CrashAndRecover` falls between any two. A
cleanup keeps the permits of all requests from `Acquire` until the candidate is
marked or given up (`Exclusive`), since `_permits` lives to the end of the function.

`LogStream`: a byte is the offset it was accepted at, so that a copied, lost or
swapped byte shows. `Output`, `Rotate`, `WriteChunk`, `AppendFails`, `Flush` and
`EndOfFile` are the capture worker, `WaitForBatch`, `Throttle`, `Fill` the
source of events. A rollback whose `set_len` fails is not modelled.

`LogText`: `PushBytes` takes a chunk of any length through the decoder, the
control filter and the redactor as they stand; `WholeText` computes the text of
the whole input at once. The decoders and the terminal parser are external.

Observations. A cleanup whose candidates were truncated answers with the
capacity error even after it deleted enough. A descendant that keeps a pipe
open makes its run count against the budget, which is the exception in
`MarkedLogsGo`. An escape sequence with an intermediate byte that is followed
by `]`, `[`, `P`, `X`, `^` or `_` leaves the filter's own state inside a
sequence that the parser has ended, and printable text is dropped until the
sequence would have ended; the model does the same, so `TextIsSafe` compares
with the filter and not with the comment in `control_filter.rs`.

### Migration recovery

`phase` follows `prepare_database`; `dir` is the directory as the running
system sees it and `survivors` what a power loss may leave. Assumed of the file
system (external): directory changes made since the last sync of the root
survive a power loss as a prefix (a journal), a file that was not synced may be
torn, a file that was synced is whole. A step that returns an error ends the
start-up like a crash does. Permissions, size limits and the bytes of digests
are left out.

### Supervisor channel

`runtime` is the runtime directory: who holds the lock, whose session token is
published or being written, whose socket or pipe stands there. `servers` are
the Supervisors, each a process in the order of their starts: `Acquire`,
`WriteTemporary`, `PublishToken`, `RemoveStale`, `BindSocket` or `BindPipe`
lead into service, `Retire` and `DropGuard` out of it in the order of Rust's
drops, `Die` at any moment; `TokenFails`, `BindFails`, `ReplenishFails` and
`RejectPeer` are its failing calls. `AcceptNext`, `ReceiveHello`,
`ReceiveProof` are accept_authenticated with the server's half of the
handshake, one connection at a time; `EnsurePending` gives the pipe its next
instance. `bridge` is the loop of run_bridge_actor up to a session:
`ReadToken`, `Connect`, `BackoffIsOver`, `ReceiveChallenge`,
`ReceiveAcceptance`, with `AfterFailure` for every way back. The clients of
both platforms have the same loop; the map names that of the pipe.

`links` are connections. A frame is `FrameUnits` units under way, so that it
can be read, written or lost in part. `BridgeCalls` adds `callers`: the bounded
queue, the table of pending requests, and what each caller has been told.
`ReadUnit` reads as FramedIo does, into a state that outlives the read, which
every command and every deadline interrupts (`Interrupted`). `SendCommand` may
be timed out with any part of its frame written. `Serve` is the Supervisor's
end of a session: it serves what arrives and answers in any order; who calls
the server session in a loop is not in the repository (external).

`ConversationsAreGenuine` says what either end may rely on,
`NobodyWaitsForever` that a Supervisor in service is found and that every call
is told something. A proof is the record of what it is computed from, with the
nonces left out, as no message of a connection is seen on another. Permissions,
the state shown to the user and the lengths of the delays are left out.

Observation. An answer that comes after its request has expired is matched to
a later call with the same request id; only a different operation id tells
them apart, and calls without one are not told apart.

### Revision stream

`history`, `entities`, `opening`, `session` and `abandoned` are the
Supervisor's, `link`, `connections` and `sent` the bridge's, `boot`, `store`
and `fetch` the window's. A snapshot fixes its revision (`FixRevision`) and
copies the collections later, as the code does with the publication lock
released. Messages reach the window in order; answers travel beside them and
may overtake them. The Supervisor's loop that forwards a subscription to the
connection is not in the repository: it is modelled, as external, as forwarding
in order and skipping to the oldest retained event when it lags. The `epoch`
counter of the store is a flag on the request in flight. The reset of a
connection after a protocol error is not modelled. Byte limits and the
validation of entities are left out.

### Profile credentials

`profiles`, `queue` and `results` are tables, `secrets` and `storedKey` the
system's credential store; `pc`, `save` and `drain` are the task that holds the
mutex. A save is `BeginSave`, then `StageReference` and `PutSecret` for each
secret, then `CommitSave`; `SelectBatch`, `DeleteSecret` and
`AcknowledgeDeletion` are the cleanup that ends every mutation. Every step may
fail, with or without effect, and the Supervisor may die after every one. A
client may cite any reference it has seen, and repeat any operation. Plain
variables and the digest of a request are left out: a request is recognised by
its operation id, and `RepeatsAreRecognised` asks whether the digest could be
compared at all.

## Runs

| Run | Question | Instance |
|---|---|---|
| `stop` | do controls, ledger, signals and processes stay consistent, does every stop end and every exit get noticed? | 1 run with a pty, 3 operations, 2 crashes |
| `stop_pair` | do stops of two runs disturb each other, and is every step one of `StopLifecycle`, crashes and lost answers of begin included? | 2 runs, 2 operations, 1 crash |
| `stop_lost_force` | finding: a refusal marked "retry" that never clears | 1 run, 2 operations |
| `stop_recovered_exit` | finding: an exit recorded for a root that left its group | 1 run, 1 operation, 1 crash |
| `launch` | does a program run before its identity is durable, is a process ever left to nobody; can every row be read again, whatever the clock does; is a list complete that changes while it is read; is every handle of a launch accounted for? | 2 runs that share 1 control slot on either platform, 2 crashes; 1 row with 3 stops, 2 restarts, a clock with 2 readings; four lists of 3 or 4 records in pages of 1 or 2; 2 children with pipes or a terminal on either platform, 2 executables to try |
| `exit` | are only runs stopped that were shown, does the desktop quit only when that is justified, does its dialog settle? | 2 runs, 2 exit requests; three scenarios of moves, decisions and abandoned calls |
| `discovery` | is what subscribers see current, is accepted demand served, do database and discovery agree? | 2 processes, 1 slot of each kind; eight scenarios; 3 catalog changes, 1 restart; five cases of ports: 1 or 2 processes, 2 endpoints, a cache of 2, 3 entities and 3 to 5 units per flush |
| `migration` | does any crash or power loss lose data or block the next start-up; does the desktop find and trust the right Supervisor, and does each of its calls get its own answer or an error? | 2 builds, 2 transactions, 3 faults; five cases of 1 to 3 Supervisors on either platform with up to 2 ends, 2 early timers and 2 failing calls, 2 connections, 1 permit, 4 calls of which two share a request id |
| `stream` | are snapshots consistent, does the window mix connections or revisions, does it catch up? | 2 pages and 2 revisions over 1 connection; 1 page over 3 connections |
| `credentials` | do the three stores of a profile agree whatever fails; does the program get what the profile says? | 2 profiles, 2 variables, 3 references, 3 operations, 2 faults; 5 000 profiles: words of 4 units, 3 layers, 2 entries of PATH, candidates too long for words, image or preview |
| `logs` | do files stay while they are read, do marked logs go; is a reader given what was written and nothing of a secret? | 3 runs, 2 readers, 1 fault; a stream of 6 bytes over 3 files, 2 failures; seven pipelines of at most 6 bytes |
| `logs_generation` | finding: an offset of an evicted reader is answered with other text | 2 runs, 1 reader |

Bounds. Three operations are a graceful stop, the force stop that supersedes
it and a request that comes after both; no definition looks at more than two
operations of a run, and two runs meet only in the ledger. Two crashes allow a
recovered control to crash again. One control slot for two launches is a full
table; two retries are the first and the last. A clock with two readings stands
still, steps back and goes on; a stamp that is advanced past both is reached by
three transitions. In `exit`, r2 may be started while the user decides, and
four decisions let an answer of the first arrive under the last. One enrichment
slot and one place in its cache make two processes compete. Files of two bytes
with scalars of one and two bytes rotate in the middle of a text, and three
files of which the window holds three bytes make the window, the files and the
cursor disagree. Six bytes are longer than the longest secret and its overlap.
One request shows nothing of permits that several share, and a window of three
bytes nothing of how little it drops: the theorems of `Logs_proofs` do.
Two manifests are one upgrade, its failure and a downgrade. Two revisions with
a channel and a buffer of one overflow both; three connections let an answer of
the first arrive under the third. Three references with a queue of two fill the
queue, replace a secret and leave one to be cleaned up; a batch of one with one
more pass reaches the pass that is cut short. In `migration` a frame of two
units is its header and the rest, the one place where a frame can be cut; one
permit and a queue of one are full with the first; two connections are the one
that is dropped and its successor; a third Supervisor starts while the second
clears up after the first.

Deadlock is not checked in the runs whose clients may run out of operation ids,
changes or faults and then stop.

Fairness. Workers, monitors and startup are tasks that keep running, clocks
advance, and a write that is retried is eventually answered: weak fairness on
each of them and on nothing else; clients and processes owe nothing. In `exit`
the Supervisor serves calls, the webview handles answers and polls, and stops
and launches end (which `stop` shows of stops). In `logs` a call, a cleanup and
a start that was admitted go on, the periodic cleanup fires again, and the
capture worker and the source are tasks that run; one weak fairness over all of
these steps is less than the code's scheduling gives, and enough. In
`migration` the desktop starts the Supervisor again and a start-up goes on; of
the channel the bridge's task, its handling of commands and each Supervisor
run, while starts, ends, failures and early timers owe nothing. In
`RevisionStream` the bridge reconnects for ever, requests are answered or time
out, sessions expire and the window's event loop runs; changes, failures and
disconnects are finitely many by their bounds.

### Findings

- `stop_lost_force`: after a force stop was committed and its handler failed at
  `managed_runs.rs:2625`, the superseded worker can never record its attempt,
  and the force stop is refused with a retryable error until the Supervisor
  restarts.
- `stop_recovered_exit`: after a restart `poll_exit` asks only whether the
  group exists (`platform-macos/managed.rs:154`); a root that left its group is
  recorded as `EXITED`, where the architecture notes say it is reported as
  orphaned or not fully managed.
- `logs_generation`: an explicit offset is refused as stale only while no
  reader of the run is registered (`managed_runs.rs:609`); once the logs were
  opened again it is looked up in the new reader, where the implementation
  status says an evicted offset is never remapped silently.

`PROJECT.json` quotes the lines.

## Proofs

A theorem holds for every value of the constants that the modules' ASSUMEs
allow: any number of runs, operations, requests, revisions, files and crashes.
The assumptions say what the code says: limits are natural numbers, `None` is
none of the things it stands in for, references are ordered, a change names an
entity that exists. In `LogReaders` and `ManagedLaunch` runs are finitely many,
because the code counts them. One theorem has a hypothesis of its own, named
below.

Each module follows one pattern: an inductive invariant, a lemma per action
(or per group of actions with one effect) that it is kept, and the properties
as consequences.

**`ManagedStop_proofs`.** `AtMostOneAttempt` (`SignalsOnce`) is not inductive:
a worker about to signal must not have signalled. `StopInv` adds that a control
names an operation of its own run, that an operation without a reservation, or
whose worker is about to signal, has made no attempt
(`AttemptsFollowReservations`), that a run has one active operation, and that
an active operation no control works for has not been started
(`UnclaimedStopsAreFresh`), so that a replay which moves a control to it cannot
signal again. After a restart `ResumePhase` maps a reserved row to a phase
after the signal. `LedgerStaysCoherent` and `ResultsStayFinal` add `Coherent`,
stated over arbitrary tables so that each transaction of the storage contract
has its lemma, and that startup works only on runs that have not ended.

`ControlInv` says, for each run, that startup has either not reached it or left
it the control its state asks for, and for each worker what its phase says of
its row, its disposition and its attempt; where a begin may lose its answer, a
control may also work for a stop that was replaced, whose row no longer moves.
`ControlsFollowTheLedger` assumes `BeginMayLoseReply = FALSE`, for the code does
not give it otherwise (the finding `stop_lost_force`). `StopsFollowTheLifecycle`
assumes nothing: it is the refinement `ImplementsLifecycle`, in which the
initial state maps to one of `StopLifecycle`, and every step to one of its steps
or a stutter, and the signal of such a worker to `LateAttempt`;
`LifecycleKeepsPromises` is what that specification is worth by
itself. `OwnedExitsAreComplete` needs only the evidence and the world
(`OwnedExitsAreSeen`).

**`ManagedLaunch_proofs`.** `CodeRunsOnRecord` and `NoProcessIsLost`, on both
platforms. `LaunchInv` says what each step of a launch may rely on, and keeps
the places: the runs in the table of controls, the one being launched and those
a restart may take back (`Recoverable`) never need more than the capacity. That
union is what the check before a launch protects; the table alone is not
inductive, for a control that is dropped comes back after a restart. A process
nobody holds needs `RecordIsRight`: only a row a restart has regained, whose
child was never resumed by this Supervisor, ends over a root that lives.

`RowsStayReadable` is about the rows these launches, the stops and the restarts
write (`RunRows`), for any readings of the clock. `LedgerInv` says that every
row and every operation reads, that a run has at most one operation that goes
on, and that an exit the monitor has stamped is later than its row while the
run is RUNNING. The first is what the readers ask, and what makes it inductive
is the second: a transition of a run rewrites the one operation that goes on,
and all others have no outcome yet (`QuietStop`) or ended with their run. That
no transition is refused follows from its stamp being later than both rows
(`LatestIsLatest`) and from `MovedRowReads` and `EndedRowReads`, which hold for
any row that reads. `CalendarsAgree` is about the arithmetic: with years that
start in March an era is cut into years (`YearContainsDay`, `NextDayOfEra`) and
a year into months (`DayOfYearSplits`) by the formulas of the code, and the day
after is the one `NextDay` gives, in the middle of a month, at its end, at the
end of a year and at the end of an era.

`HandlesStayAccounted` is about the handles of a launch (`ChildHandles`), for
any children, any of the four machines and any number of candidates. The
property speaks of the Supervisor between two operations, of a launch that is
over, of a program that runs and of the next drop; `HandlesInv` says what holds
in the middle. What a holder has is counted without the handles that are
already on the list of drops (`Left`), so that a failed step has its end state
at once and the drops, which go one at a time, only catch up (`CloseNextKeeps`).
`Reached` says of a launch at step k which ends its call, its caller and its
owner have (`HeldAt`, `PipesAt`, `OwnedAt`), and whether there is a process, in
its job and from the right file; `KeptOf` what is left to a child that is not
being launched, and that one which is let go of alive has its job among the
drops; `Bound` that a console host comes with the console that ends it. That no
drop waits is `ConsolesLast`, of the list as a whole: a console whose output is
still open is preceded by the reader of it. It is true of every list the code
makes because `Dropped` follows one order of fields (`DroppedDrops`), and it
survives joining two lists and dropping the first of one. `HeldAt` is defined
from the steps of a launch, each of which says what it opens and closes; that
every end has left the call before the launch binds, and that the owner gets
what it needs, is proved of the four sequences of steps one by one (`Places`,
`EndsOfALaunch`), and nothing else of the proof looks at them.

**`SupervisorStart_proofs`.** `CommittedDataSurvives` and
`OnlyFinishedDatabasesServe`, of `MigrationRecovery`. `RecoveryInv` speaks of
every root a power loss may leave, not only of the present one: `Safe` says that
such a root either serves the user's data or has a marker from which they can be
had, and `MarkersStand`, `BackupsAreComplete` and `RestoresAreComplete` say by
which step of `prepare_database` which file is complete and synced.

`ConversationsStayGenuine`, of `BridgeCalls`, whatever stops, crashes, fails or
is late on either side. The property says little of what is under way, and most
of `ChannelInv` does. Every connection a Supervisor has is at one of three
stages, and each says what the streams hold and how far the bridge is
(`StagesFit`): one that is accepted has the first message of the bridge and no
answer; one that is challenged has the challenge or the whole of its answer,
never both; and from the acceptance on both ends have the same token and
version. `StreamsFit` says what no stage may lose: the units the
bridge has read, those on the stream and those the Supervisor is still writing
are together in step, and are whole frames while the Supervisor has its end.
That is why a read that is dropped half-way does no harm and why a write that
times out must close the connection. `Carries` says of whom they are: requests
of calls that left the queue and were not refused (`Ordered`), answers of
requests that were carried out. `EndsFit` gives every connection one bridge and
one Supervisor, `RuntimesFit` says what of the runtime directory a Supervisor
has at which step, and `CallsFit` that a pending request has a `requestId` of its
own. Beneath are the frames themselves (`Remainder` to `StreamsBegin`): taking a
frame off a stream in step, or adding one to whole frames, leaves it in step,
for frames of any length.

**`StoredChanges_proofs`.** Of `ProfileCredentials`: `SecretsAreNeverForgotten` and
`ProfilesStayLaunchable` need each other (a secret leaves the profiles only
into the queue, and is deleted only from the queue, which holds nothing in use)
and `StepsAreSafe`: a reference is new before it is staged, a secret is put
only under a staged reference, a cleanup deletes only what it read from the
queue and acknowledges only what it deleted. `SavesStayRecognisable`
(`KeyInv`): while the store has a key, it is the one every recorded save was
signed with, so that a lost key is noticed and not replaced.

Of `CatalogChanges` over `DiscoveryScheduler`: `EvidenceStaysCurrent`,
`DemandStaysServed` and `CatalogChangesStayWhole`, for any number of processes,
directories and operations and every capacity of the configuration, from one
invariant, `CatalogInv`, which TLC checked on the discovery instance before it
was proved. Its first part, `Fit`, says what holds of the actor between turns.
Every record is current and the feed agrees with it (`RecordsKept`). Demand that
is owed is covered by an entry of the queue or a task, and a task that runs
looks for more than the cache has (`EnrichmentsKept`); a scan that runs is of
the catalog in force or of an earlier generation (`ScansKept`). Nothing that
could start waits beside a free slot (`EnrichmentsHalt`, `ScansHalt`): that is
what lets a turn which ends a task promise that the queues move on. A turn is a
composition of methods, so each method has its lemma (`...Step`) of what it
keeps and what it leaves alone, and each turn one that it `Follows`. The loops
of the pumps and of the queues are functions on the natural numbers, and
`EnrichmentTurns`, `ProjectScanTurns`, `NewEnrichmentTurns` and `QueueTurns`
say what such a loop keeps after any number of turns; a loop has as many turns
as there are processes, and it halts within them, since the keys of a queue are
distinct and every turn takes one of them off it or finds none to start. The other parts are about the service: one
change at a time is between its preparation and its end (`OneChange`), the
ledger has an operation exactly when it took effect (`LedgerIsRight`), and the
context of the actor is that of the change published or of what is stored,
unless the failure to take it back was reported (`ContextIsRight`).

**`DesktopExit_proofs`.** `StopsAreConfirmed` and `ExitsAreJustified`. The runs
of an operation are settled when the user confirms them, and every call, the
dialog and the ledger keep to them (`Confirmations`). While the desktop has not
been told to quit, at most one call is of the dialog's epoch, events arrive in
order, and a request to quit that is on its way is justified or will be refused
by Rust (`Epochs`, `EventsInOrder`, `Completions`, `QuietReads`).

**`RevisionStream_proofs`.** `ViewsAreServerState` and the action property
`ShownOnlyAdvances`. `StreamInv` relates four parts that run without a common
lock: the collections of the Supervisor and its frozen sessions are those of a
revision of the history (`ServerInv`, `OpeningInv`); events under way are of
that history (`MailInv`); a request whose answer still counts has read pages of
one revision, not before the one it started at (`FetchInv`); and what is shown
is not beyond what can be shown next (`ShownInv`). Most of the argument is that
replaying the buffered events over a snapshot, or applying a delta, gives the
collections of the last revision of a history without a gap.

Of `DiscoveryFeed`: `FeedStaysFaithful`, for any finite set of processes and
endpoints, any capacity and any size of an update that holds a port with its
frame (`HostIsFinite`, `FeedCasesAreInputs`). Two things are kept apart. What
the updates say, those still pending included, is what the caches hold
(`Agrees`), and `Takes` says how one change, or a whole delta, moves that:
flushing says nothing new, a change of an entity replaces an earlier one, and
one that never fits leaves its process refused, wherever the flushes fall
(`AccumulatedInOrder` to the lemmas of deltas; a delta is a function on the
natural numbers). And what the caches hold fits together: each record shows the
result of its process or what the cache of ports says (`ShowsPorts`), it was
last judged by what it shows (`IsJudged`), and each port has the confidence that
its endpoint calls for (`Balanced`). A turn breaks and repairs the second, which
is why every method rebalances the ports before it refreshes the results, and
refreshes the results before the records.

**`Logs_proofs`.** Of `LogReaders`: `LogsAreNotPulledAway`, `ReadersCanBeDropped` and
`LogsFitTheDisk`. `LogInv` says that a run has one place among starting, held
and ended (`OneRowEach`, `HoldsRows`), that the queue of completed readers is
exact (`Sound`), that the marks tell the truth (`MarksAreTrue`), and what each
request and each step of a cleanup may rely on: all permits from `Acquire`
until the candidate is done, also while it is marked. The budget is compared
only once a cleanup has looked at everything, so `DiskIsAccounted` needs an
account of a cleanup under way: the runs it reserves a budget for, the runs it
charges and those it has still to inspect cover every directory (`Covers`), and
that stays so while runs start, end and lose their logs.

Of `LogStream`: `ReadsStayFaithful`, for files, windows and ranges of any size
that holds a scalar, any number of files and any text. `StreamInv` (checked by
TLC on the logs instance first) says that the files one after the other hold
the offsets up to what was accepted, cut between scalars (`FilesFit`), that the
window begins where the oldest file does, or earlier once a failed listing left
it as it was (`WindowFits`), and that what was accepted and what is still to be
appended are whole scalars (`Scalars`). A rotation keeps this wherever it stops
(`RotatedFits`), which is why a rotation that fails half-way needs no rollback;
what a read answers is computed from it alone (`ReadIs`), and so is what the
window in memory keeps (`AppendedIs`): it drops less than a scalar more than it
must, because scalars are at most four bytes wide.

**`Filters_proofs`.** Lemmas that several of these need: a filter keeps exactly
the elements it selects, in their order; sets of numbers have a smallest and a
largest; what goes on from 0 holds up to n. `Filtered` and `Replay` are functions and
not loops, so that they can be reasoned about; `MCRevisionStream` compares both
with the loops.

What stays with TLC, and why:

- Liveness and everything about ENABLED are out of the prover's reach:
  `StopsComplete`, `NoStopIsStuck`, `ExitFlowSettles`, `EventuallyServes`,
  `NobodyWaitsForever`, `CatchesUp`, `MarkedLogsGo`, `AllIsTold`.
- `CatalogPages`, `LaunchInvocation` and `LogText` compute with
  folds and recursive functions over data; what those return for every input
  needs induction over the data, which no installed prover can do. (A loop that
  counts is another matter: what fails after some number of turns fails first
  after a least one, which is how the
  loops of the scheduler and the deltas of its feed are proved.)
- What the findings refute is no theorem: without its
  hypothesis `ControlsAgreeWithLedger`, and `OffsetsKeepTheirGeneration`.

## Not modelled

- Windows beyond the launch of `ChildHandles`: the recovery probe, file operations; the
  native scans of processes and ports on both platforms. System calls without
  state kept between them.
- Text and byte formats: the encoding of frames and envelopes, the length and
  character rules of requests, the secure directories. Validation without state.
- Path walks of project discovery and the matching of classification rules.
- The diagnostics export, the external stop (one request, one signal), the application log,
  the dispatch of a request of the channel to its service.
- The views of the application beyond the snapshot store, the bridge and the exit dialog.
