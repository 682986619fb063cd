# Verification of Exp2Res

Exp2Res is a local command line program. It keeps one SQLite database and a tree of
*managed outputs* in a workspace directory, derives facts, self-assessments and bullet packs
from the owner's captured logs by calling an LLM provider, exports the results as sets of
files, and shows them through a loopback HTTP server. This directory holds TLA+ models of
its protocols, the TLC configurations that check them, and TLAPS proofs. Paths below are
relative to the repository; `managed.py` is `exp2res/exports/managed.py`, and so on.

    tlc -config MCPublication.cfg MCPublication      # and the other MC*.cfg
    tlapm PublicationProofs.tla                      # and the other *Proofs.tla

## 1. The system

Nothing runs in the background: every command is a process of its own. Commands that write
take one `flock` (`storage/workspace.py`, `writer_database`), run a recovery preamble and then
their work; commands that read take no lock.

| component | state | operations | what is hard | what makes it correct |
|---|---|---|---|---|
| managed output (`exports/managed.py`, `services/export.py`) | directories `out/assessment/<snapshot>`, candidate and rollback siblings | publish, sweep of stale sets, invalidate, reconcile at start | any system call fails, the owner interrupts, the process is killed or the power goes, between any two renames, removals and fsyncs | a set is replaced atomically or not at all, a reported success survives, nothing is left unreported, what was set aside comes back |
| view read (`read_current_assessment_members`) | the graph read from the database, then a path | identify, inspect, match, read, test for change | no lock and no transaction over the files: a writer replaces, sweeps or tears the set under the reader | the page is exactly the set of the loaded graph; a set that stood still is served |
| stages and telemetry (`pipeline/orchestration.py`, `llm/adapter.py`, `storage/telemetry.py`) | `processing_runs`, `llm_calls`, the current generation of business rows | plan, call with transport and schema retries, validate, swap, clean up, report | a transaction raises, an interrupt arrives at the seam of two handlers, a process dies with rows open, a retry is counted but not made | business rows change only with the completion of their run; rows are closed, agree, and are never closed under a live command |
| derived-state lifecycle (`pipeline/stage3..11.py`, `services/correction.py`, `services/lifecycle.py`, `exports/graph.py`, `exports/branch.py`, `storage/repository.py`) | logs, evidence items, facts, gaps, contradictions, snapshots with claims, branches with bullets; which of them are current | capture, correct, answer, delete; extract, detect, generate, verify, repair, write and verify bullets; export | every operation outdates what others wrote; each consumer validates again what a producer promised, by its own rules | no current row cites a retired one, no consumer meets damage, no paid call is lost to a refused commit, no published set shows what the rows no longer say |
| workspace (`storage/workspace.py`, `storage/schema.py`, `services/workspace.py`) | marker directory, lock, schema version and shape, backups | init, inspect, lock, migrate with a verified backup | two creators at once; a failure before, in or behind the commit of a migration; a guard or a foreign key that stops a step | a created workspace stays, a migration keeps every row or changes nothing |
| journal, captures, imports, deletions (`services/writers.py`, `interrupts.py`, `imports.py`, `logs.py`, `job_descriptions.py`, `privacy.py`, `pipeline/stage1.py`) | paths in flight, unlink ledger, held SIGINT, erased bytes in WAL, file and backups | capture, import, delete a log or a job description, purge | an interrupt inside COMMIT, a backup or a set that stays, a reader that stops the checkpoint | each envelope names what is durable, and every place that still holds erased content |
| sources (`services/source_files.py`, `capture.py`, `integrations/*`) | the owner's tree, ignore patterns, an open payload | admit a locator, open a selected file, read a payload twice, reauthorize for a prompt | the owner edits between any two looks | no prompt carries a path that would be refused now; an import reports one payload |
| provider (`llm/{runner,codex,claude,sandbox,preflight,registry}.py`, `config.py`) | a private directory, a process group and its sandboxed child | refuse, preflight, run, stop, classify, retry | a runtime that never ends, answers late or leaves a child; a directory that does not go away | only a sound answer is accepted, nothing is left running or on disk, every call ends |
| view server (`services/view_server.py`) | listener, flags, slots, handles, threads, child processes | open, accept, admit, resolve in a process, answer, drain, force, reap | threads, processes and nested signal handlers on shared locks, every phase with a deadline | work is covered by a slot, slots come back, an interrupt ends the run, a drained run is complete |
| domain algorithms (`domain/*`) | none | time intervals, calibration, canonical form | boundaries | not modelled (section 6) |
| rendering, command lines | none | formatting, parsing | pure I/O | a rendering is a function of the rows it was read from; only the handlers that turn an ending into an envelope are modelled |

They interact through the lock, the database and the directory only: a stage's swap makes a
published set stale and the command removes it (StageRun's `published`, Lifecycle's `out`), an
export publishes the rendering the database holds (Publication's `db`), the view server's resolver
reads both without the lock (ViewRead), a locator stored by a capture or an import is what a later
call puts into a prompt (`stored` of Sources, read by Provider).

## 2. Modules

| module | models |
|---|---|
| `ManagedStore` | abstract: per snapshot at most one published rendering, replaced by one step; a power loss returns to a state since the last flush |
| `ManagedDirectory` | the operators on one parent directory: slots `final`, `candidate`, `rollback`; sets that are `partial`, `written` or `flushed` |
| `Publication` | commands over that directory: preamble, export, lifecycle change; one action per system call or transaction |
| `ViewRead` | the lock-free reader beside Publication (EXTENDS it) |
| `AtomicStage` | abstract: business rows are replaced together with the completion of the run that read them |
| `StageRun` | commands under the writer lock, their telemetry rows, retries, swap and cleanup |
| `EvidenceGraph` | pure: lineages, effective records, evidence bundles, and the faults every consumer of a snapshot or a branch can raise |
| `RowGuards` | table shapes, the re-validation of inserted rows and the lifecycle triggers (EXTENDS EvidenceGraph) |
| `Lifecycle` | every operation that derives, supersedes, deletes or publishes rows, and what each supersedes (EXTENDS RowGuards) |
| `Schema` | the twelve schema versions as shapes, statements with foreign keys, the eleven migrations |
| `Workspace` | init, inspection, the writer lock and `db migrate`, as steps of concurrent processes (EXTENDS Schema) |
| `Operations` | capture, import, the three deletions and the journal on that workspace (EXTENDS Workspace) |
| `Sources` | locator policies, a capture of a selected file, the two passes of an import, the owner's edits |
| `Provider` | one provider call from configuration to the class of its result (EXTENDS Sources) |
| `ViewServer` | main thread as a stack of frames, connection threads, starters, children, reaper |
| `MC*` | the instances for TLC |
| `PublicationProofs` | proofs about Publication |
| `ReadProofs` | about ViewRead |
| `StageProofs` | about StageRun |
| `LifecycleProofs` | about Lifecycle, RowGuards and EvidenceGraph |
| `OperationsProofs`, `FailureProofs` | about Operations, Workspace and Schema (the second EXTENDS the first) |
| `ProviderProofs` | about Provider and Sources |
| `ServerProofs` | about ViewServer |

A definition's counterpart in the code is in the `map` of `PROJECT.json`. The control of the code
is kept: each `pc` value is a place between two effects, early returns and error paths are
disjuncts, and what a handler does before it returns is part of its action. Data is reduced to what
the properties distinguish. Operators introduced by "Mutant" or "fault" comments are no part of
the specifications: each is a plausible bug that must break a property.

**Publication.** `dir` is what processes see, `disk` the set of directories a power loss may leave:
every directory since the last `fsync` of the parent, and in each of them a set that was not
flushed loses members (`Settled`). Renames and removals add to `disk`, `_fsync_directory`
collapses it. `remove_tree` may leave a set whole, torn or gone and reports what it left.
`Kill` and `PowerLoss` end a command anywhere, `Interrupt` moves to the code's handler.
`db.current` and `db.render` stand for the rows that select and render the snapshot; commits are
durable and atomic. A correction or a stage re-run retires the snapshot (`Supersede`); Stage 7 and a gap answer move the
rendering of the current one (`Amend`); either way the command then removes the set, after its commit, and that removal may fail,
leave the set torn, or stay unflushed. Failures to *read* are modelled too: a parent that cannot be listed (`ListingFails`: it is
reported itself, and no sibling in it), a set the sweep cannot inspect and silently passes over (`SweepUnread`), an lstat that raises out
of the preamble or the sweep and takes the residuals found so far with it (`RecoverRaises`, `SweepRaises`). `w.unread` is a
history variable: what the command could not read. One command runs at a time because the lock allows no more; that is the
subject of StageRun (`LiveRowsAreOwn`), not assumed there.

**ViewRead.** Each look at the path is a step; between two looks the writer may do anything.
A member is read twice by the code, for inspection and for its bytes, and the second read is hashed.

**StageRun.** A transaction is one step that commits or raises. `Handlers` (by `pc`) says which of
the nested `KeyboardInterrupt` handlers catches an interrupt there. `sent` counts the attempts that
were really made and is a history variable. Commands other than stages are the one step
`OtherWriter`.

**EvidenceGraph, RowGuards, Lifecycle.** `db` holds the *current* rows as functions from identifiers;
a superseded row is an identifier no collection holds, so a citation of it no longer resolves.
Identifiers are recycled once nothing refers to them, which keeps behaviours unbounded. Every
operation holds the lock from its first read to its commit and is one action. The exception is the
instant an answer reads before it asks for the lock: `ReadClock` and `Answer` are two steps, `at`
says on which side of the last snapshot the instant lies. `db.detected` is the input of the last
recorded detection call. `out` holds, per published set that has not been reported residual, what it
shows (`RenderAssessment`, `RenderBranch`: functions of the rows; of a claim what `Shown` keeps, for the
suggested rewrite is not rendered). The `...Faults` operators return the
error codes the loaders and stages 7, 10 and 11 would raise; `...Admitted` what the repository's
insertions refuse, `...Update` what the triggers let through.

**Schema.** A shape is a set of `<<table, part, text>>`, part of `sqlite_master`; the text is the version
whose DDL the entry carries, so that the target of a migration can be compared with a fresh schema as
`validate` does. Rows are one key per row; row `k` of a child refers to row `k` of its parent, which is
all the foreign keys and the order of statements need. `blank`, `unreadable` and `scoped` mark rows that a
computed key, a decoder or the tenth version treats differently.

**Workspace, Operations.** Two processes run one command each; between two steps the other may run, a call
may fail, SIGINT may arrive or the process may die (`trouble`). `cmd[p].work` is the transaction's view. `unclean`
says which erased bytes the WAL or the database file still hold; `unproven`, `unlinks` and `residuals` are the
fields of the journal. A SIGINT in a deferred region only reclassifies the ending (`deferred`, `pending`).
`detached` marks an ending that struck where the code has nothing attached to the exception (section 5); the
properties except it explicitly. The tree under a deletion's pass may move once per pass; the pass then reports its root.

**Sources.** A locator is its scheme, the marks that a policy's form looks for, and a place. The five policies differ in
exactly the checks the code configures, and `Authorize` runs them in the code's order: those on a
supplied form, on a local spelling and on the place it leads to. A persisted path is
canonical (`Canonical`), because what is persisted is the resolved path. An import holds its payload
open: a replaced file is not seen, a rewritten one is, and a rewrite within the clock's grain keeps
the stamp. Ignore patterns are read once by a capture or an import, and again when a prompt is
assembled.

**Provider.** Each attempt is a private directory and a process group. The leader is the sandbox
launcher; its child leaves the group once the sandbox is up and then dies with its parent
(`ChildSettles`, `NamespaceEnds`). The runtime may end in any way or never. An `OSError` anywhere in an
attempt becomes a connection failure. StageRun records the call's rows and takes the class of an attempt as given.

**ViewServer.** Handlers run on the main thread and may nest, so `stack` holds frames and only the
top runs. The state lock is reentrant and all steps under it are atomic; the locks inside `Event`
objects are not, and are modelled: `setting`/`forcing` frames for `_draining` and `_immediate`,
`event[c].holder` for the cross-process cancel event. Handlers are taken where CPython takes them,
at calls and loop edges. On 3.10, which `pyproject.toml` admits, that is also behind a call like `is_set()`, so the drain
check of `open` and the assignment of the listener are two steps (`Register`, `Assign`): a handler between them finds no listener to
close. `Resolve` merges the check of `_verdict` (938) with the registration of the handle (973 to 975), so a force between the two, after
which the process is started, woken and not answered (979), is not in the model: `forced` is always FALSE there. Expiry of a
phase deadline is a choice, of the drain deadline the flag `late`. A kill takes effect in a step of
its own (`Die`), at once or late, as for a process in an uninterruptible call. Left out: the reporter's loop
(a line is queued before or behind the sentinel, or dropped), sockets (a shut socket only ends a wait
that has a deadline anyway), the parser, and the in-thread resolver, which only tests inject.

## 3. Runs

| run | instance | shows |
|---|---|---|
| `publication` | two snapshots, three inodes, two renderings | type; `OneSibling`, `CurrentNeverTorn`, `LeftoversReported`; `DoneIsDurable`: what an export or an invalidation reports as done, no power loss takes back; Publication implements ManagedStore |
| `recovery` | one snapshot over several builds, one of which cannot read earlier sets, and an owner who removes files; fair | `RollbackComesBack`, `ExportSparesUnreadable` |
| `view_read` | one snapshot, one member that depends on the rendering and one that does not | `ServedIsLoadedGraph`, `SteadyReadServes` |
| `stage_run` | two stage commands, two calls, one attempt per round | `RowsAgree`, `StaleReported`, `LiveRowsAreOwn`; StageRun implements AtomicStage |
| `invocation` | one command, two calls, three attempts per round, fair | `AttemptsAccounted`, `RowsClose` |
| `lifecycle` | two logs, two facts, one gap, one contradiction, two snapshots, two branches | `RowsTyped`; `CommitsAdmitted`: no commit is refused after the calls it paid for; `NoDamage`: no consumer finds a fault, one view, one branch per name; `DerivedFromCurrent`; `NoStaleExport`: a published set shows what the rows say, a branch's set up to answers to its anchor's gaps |
| `workspace` | pairs of commands (init with init; a migration from each version with a capture or a migration; deletions with imports, captures and a purge), two troubles | `CreatedStays`, `MigrationKeepsAll`, `NoNeedlessFailure`, `NothingLost`; `ReportsWhatItDid`, `ErasedOrReported`: envelopes name what is durable and what is left |
| `provider` | a capture or an import, then a call on what it stored; or a call alone under each defect, fault, size and answer | `PromptsPermitted`, `ReportsOnePayload`, `AcceptedExactly`, `NothingLeftBehind`, `AttemptsEnd` |
| `view_server` | two connections, one slot, one start slot, one interrupt | `SlotCoversWork`, `ReaperOutlivesWork` |
| `interrupts` | one connection, two interrupts, fair | `DrainedIsComplete`: with the listener closed, but for an interrupt between drain check and registration; `SlotsComeBack`, `ServingEnds` |
| `answered_gap`, `counterevidence` | the instance of `lifecycle` with the reference types each needs | disagreements, section 5 |

Eleven further configurations each end in one violation and are run by hand: `MCSiblings`, `MCUnflushed` (MCPublication),
`MCViewResidual` (MCViewRead), `MCCancelled` (MCStageRun), `MCSelfWait`, `MCListener` (MCViewServer), `MCDirectory` (MCProvider),
`MCShortCircuit` (MCLifecycle), `MCInitRace`, `MCInitLoss` and `MCDeleteReport` (MCWorkspace). Section 5 says what they show.

*Bounds.*
- Publication: commands are sequential, so their number is unbounded (a finished command returns to
  `idle`); failures, interrupts, kills and power losses are not counted. Snapshots are never reused, hence
  two: one retired, one current. Three inodes are as many as there ever are sets at a time: a final set or the rollback of
  the current snapshot, a candidate, and a set of the other; a fourth only lengthens the run. Two renderings tell a stale set from a
  current one. The reader's instance has one snapshot and two inodes, the set it looks at and the one that replaces it.
- StageRun: two commands show every effect of one on the rows and the lock of another, and the second call of a
  run is the first one that finds a run already open; `AttemptCap = 1` keeps the product small and `invocation`
  raises it.
- Lifecycle (71222 states): nothing is counted, identifiers return to their pools. Two logs give a correction and what it displaces;
  two facts, snapshots and branches the old and the new generation, and claims over different facts; one gap and one
  contradiction are listed, answered, retained or replaced. The one claim is the narrative. Strengths are the owner's
  own statement and one that is not, the distinction the descriptors make. Reference types of the passing run are
  facts and whole logs; references to items are what `counterevidence` adds.
- Workspace: the second process shows every interference under one lock. Two troubles are what it takes to have a
  failure inside the handling of another. A migration starts from each of the versions 1 to 12 and, at the
  versions where it matters, with each kind of flawed row.
- Provider: two attempts a round and the two rounds the code has; one edit by the owner at any moment; two
  interrupts, the second one inside the handling of the first; at most one artifact locator admitted (a longer list
  is refused) and two objects per payload. Byte and token limits are shrunk, not their comparisons.
- ViewServer: two connections compete for one slot and one start; two interrupts are what the specification gives
  meaning to. With two connections *and* two interrupts the state space is too large for a routine run, so they are split.

*Fairness.* A command that runs takes its next step: no step waits for another actor, the lock wait
and provider calls have timeouts. `RollbackComesBack` further assumes that the owner keeps running
commands, that the disturbances stop, and that a listing and a rename retried for ever succeed some time.
`RowsClose` assumes that the owner runs some further writer. `AttemptsEnd` assumes that the command goes on, the kernel
ends a namespace whose leader is gone, and time passes; nothing of the runtime, of its child in the group, or of the owner.
In ViewServer every thread runs, deadlines pass and killed processes die; connections, interrupts and the resolver's
answer are *not* fair. Both liveness properties there except states in which a lock is lost for good (`Stuck`, section 5).

Deadlock is not checked for ViewServer (a server without connections waits, one that has ended stops), Lifecycle
(the owner may stop, and pools may be used up) and Provider (a call that is over stops). Workspace has a step for the
state in which all commands have ended, so a command that waits for ever would be found.

## 4. Proofs

Every theorem is about the specification of its module and holds for every value of the constants that meets the
named assumptions. `IInv`, `Inv`, `Kept` and so on are the inductive invariants; each is checked the same way: one
lemma per action (and per conjunct the action can disturb), joined by a lemma over `Next`, and a temporal step.

| module | theorems |
|---|---|
| `PublicationProofs` | `TypeCorrect`, `CurrentNeverTornHolds`, `OneSiblingHolds`, `LeftoversReportedHolds`, `DoneIsDurableHolds`, `ImplementsStoreHolds`, `ExportSparesUnreadableHolds` |
| `ReadProofs` | `ServedIsLoadedGraphHolds`, `SteadyReadServesHolds` |
| `StageProofs` | `TypeCorrect`, `RowsAgreeHolds`, `StaleReportedHolds`, `LiveRowsAreOwnHolds`, `AttemptsAccountedHolds`, `ImplementsAtomicStageHolds` |
| `LifecycleProofs` | `RowsTypedHolds`, `DerivedFromCurrentHolds`, `NoDamageHolds`, `NoStaleExportHolds`, `CommitsAdmittedHolds` |
| `OperationsProofs` | `TypeCorrect`, `ReportsWhatItDidHolds`, `ErasedOrReportedHolds`, `CreatedStaysHolds`, `NothingLostHolds`, `MigrationKeepsAllHolds` |
| `FailureProofs` | `NoNeedlessFailureHolds` |
| `ProviderProofs` | `NothingLeftBehindHolds`, `AcceptedExactlyHolds`, `PromptsPermittedHolds`, `ReportsOnePayloadHolds` |
| `ServerProofs` | `TypeCorrect`, `SlotCoversWorkHolds`, `ReaperOutlivesWorkHolds`, `DrainedIsCompleteHolds` |

**Publication.** `CurrentNeverTorn` is not inductive: it speaks of final paths, and a final path is filled from a
candidate or a rollback. `IInv` adds: sets at final *and rollback* names are flushed or already torn, and
torn at a final name only if outdated, of a retired snapshot or of an older rendering of the current one (`Sound`, of `dir` and of every
directory in `disk`); what the command is about to place is flushed, what it is about to remove is outdated, and past the
preamble the only rollback is the one it set aside itself (`CommandSound`); a preamble that could not list the parent
knows of no rollback, has reported the parent, and so ends an export there.

The other theorems strengthen it to `Kept`. `DirsKept`: every directory a power loss may leave has at most one set
under a name (`Lone`), and a retired snapshot without a set now has none in any of them, so nothing retired comes back.
`CommandKept`: what the command knows of the directory at each `pc`: every sibling is reported or still to be dealt with
(`Told`, `Listed`), from the build on the candidates are its own and render the rows as they are (`OnlyOwn`, `Faithful`) and no
other snapshot's set is whole (`OthersGone`), but for one it could not read (`unread`), and where an export is about to confirm, `disk` holds nothing but `dir` and what a power
failure makes of it (`Flushed`). A change that could not list the parent carries the parent instead of the siblings (`Unlisted`)
through its commit to its end; a removal that is under way has every set of what it withdraws in its list or reported.
`LeftoversReported` and `DoneIsDurable` follow at the end of a command. For ManagedStore, `dir` maps
to `Recovered(dir)`, the sets that stand once rollbacks are back, and `disk` to the set of these (`Stable`); each action is shown to
be a step of the store or a stutter. The store lets a rendering be withdrawn where it is due: of a retired snapshot, or of the
current one once the database has moved on.

`ExportSparesUnreadable` is about the lifetime of several builds of the workspace, which `IInv` and `Kept` do not survive: they know one
generation of candidates. It has an invariant of its own, `Sparing`: every directory, after a power loss too, has at most one
set under a final name, what a sweep has left to remove reads as a set and is listed once per snapshot, and the final path a
swap is about to fill is empty.

**ViewRead.** `ServedIsLoadedGraph` needs to know where the members already collected came from (`Collected`: each
has the bytes of the loaded graph's rendering, and the manifest names that rendering alone), because the set they came from may be gone by the time the page is served.
`SteadyReadServes` needs that the set of an undisturbed read stood whole all along (`Undisturbed`), which is
`CurrentNeverTorn` of the writer beside it.

**StageRun.** `IInv` is a conjunction per command: the lock is held exactly by the command inside `writer_database`
(`LockSound`); rows agree and an open call has a run that is open or failed (`RowsSound`); what each place says of memory and of rows
(`MemorySound`, `ProgressSound`: calls before the current one are completed, later ones absent); the rows a
plan was read from are still current until the swap, and rows once replaced never become current again
(`BasisSound`, which is why `withdraw` cannot withdraw the report of a committed swap); what a finished swap
owes (`ReportSound`). `OthersSound` shows once that a step of one command keeps the others sound, so each
action needs its own command only. `AttemptsAccounted` adds what the counters in memory, in the row and the attempts really
sent say of each other between a count, its commit and the request. For the simulation, `Local` names the shape of all
steps but sweep, plan, the empty completion and the swap: they map to `Fail` of at most the own run; the others map to `Fail`,
`Read`, `Skip` and `Take`, and `OtherWriter` to `Fail` or `Retire`.

**Lifecycle.** `Sound` is a conjunction per table: rows are of their shape and resolve what they cite; a fact selects evidence its lineage offers; the answer of a
gap is a record no correction displaced, stamped before the snapshot that lists the gap; a snapshot's status and summary
agree with its claims; a bullet cites facts that exist, exactly the logs their evidence comes from, and claims of its anchor that are
supported. `DerivedFromCurrent` and `NoDamage` follow from it. `NoStaleExport` is
inductive together with it, since an operation that keeps a set published must keep every row that set renders.
`CommitsAdmitted` compares the two sides of a step: one lemma per operation shows the rows inserted pass the repository's checks
and every retained row meets its trigger (`Admissible`). That a lineage walk ends is an induction, done by contradiction on the
least number of corrections without a root.

**Operations, Workspace.** Seven invariants over the shape of the commands' records (`Shaped`) and the lock (`Held`: the
commands inside are at most the holder). A step of one process leaves the others' records alone (`Frame`), so again each action needs its own command only.
- `Telling`: what a command has recorded of its captures, imports and deletions, at each `pc`, is what it made durable;
  gives `ReportsWhatItDid`.
- `Erasure`: at each `pc` of a deletion, every place that holds what it erases is named, still in its work list, or
  under a root it will name (`Cleaning`); gives `ErasedOrReported`.
- `Creation`: the marker is the work of at most one init (`Owns`), and the others leave it alone; gives `CreatedStays`.
- `Stores`: every database is of the shape its version says, a foreign column apart (`Stocked`), and so is the view of each transaction,
  which has all rows but what its statements are allowed to drop (`Stock`); for the steps of a migration this
  is shown of every version and statement, with the cascades of each. Gives `NothingLost`.
- `Vaults`: a migration that is about to commit has a verified backup which keeps every row of the database it found, and no other
  command touches it; gives `MigrationKeepsAll`. This one has the hypothesis `Apart`: no deletion is in the same scenario as a
  migration, since a deletion removes the backups and the rows with them. The run's scenarios meet it.
- `Typed`: the paths and rows a record names exist, and its own view is a database; for the steps of a migration and a deletion
  that needs the schema's statements to stay within `Entries`. With `Held` and `Stores` it gives `WorkspaceTypeOK`.
- `Prepared` (`FailureProofs`): what stops a statement is known before it runs; gives `NoNeedlessFailure`, over any rows. For a
  migration (`Carried`), `Stages(v)` lists the schema after each statement of the step from v, and `StagesAdvance` shows of all eleven
  steps that it ends in the next version's schema and that no deletion meets a guard that is still there (the two guards 9 -> 10 drops
  first); `Rowed` says which tables are empty by then and that every row a foreign key names is there (`Rooted`), which the
  final validation asks. Foreign keys are off on any path that drops or rebuilds a table. So a step fails
  only over a flawed row or a foreign column, and both are still there afterwards: no statement
  changes what `Flawed` reads, except to leave version 2, which a blank label prevents. For a deletion (`Cleared`, `Orderly`), every
  table with a reference that restricts the rows a statement takes lost its own rows to an earlier statement, or is `self_signals`, which
  no database from version 9 on has rows of.

**Provider, Sources.** `Tidy` says where processes may still be, `Swept` where the directory of the attempt may: while the attempt is under way, behind it
only if it counts as a lost connection, or at the end of a cancelled call. `Answered` relates the result to the runtime: a sound answer taken from a runtime that ended by itself is
not lost on the way to a further attempt (`Spent`) but to a failed enrichment, a failed commit or an interrupt. `AcceptedExactly` spoke of accepted answers only before it was proved, and now
of sound ones too. `PromptsPermitted` rests on `Stored`: whichever of the entrances admitted a locator, what it stored
is canonical and passes the same checks again, with the order of the checks abstracted by `LocalPasses` and `PlacePasses`.
`ReportsOnePayload` rests on `ImportSound`: what the two passes have read and counted so far, that accepted, duplicate and
rejected records partition what the second pass has read, that without a rewrite the second pass meets the first again, and that an
ending that blames the payload then has accepted nothing. Any other failure may strike between any two records and keeps the partition. The
three are disjoint and hold each record under the line it was read from, so their sizes add up to the lines read (`Records`) and no
induction over data is needed.

**ViewServer.** `SlotCoversWork` and `TypeOK` need the count: free slots plus connections that hold one are all slots
(`SlotsCounted`, a cardinality), and who may give one back: thread, starter or reaper, exactly one of them
(`Lease`). `Resolvers` says what is known of a connection's child at each point of its thread and its starter, `ReaperShape` what the reaper
has in hand, `StackShape` which frames may nest on the main thread. `DrainedIsComplete` adds `LateLines` and how the base
frame ends (`Ending`: a listener that is bound or open meets no drain, so one that is left open was missed by the handler, and
`serve` then goes straight to the drain and accepts nobody).

*Assumptions.* `MaxRender`, `MaxCalls`, `AttemptCap` and `Slots` are positive, the other bounds natural; the marks for nothing (`NoEntity`, `NoRun`,
`NoConn`, `None`) are no members. Connections and logs are finite sets, since only finitely many were ever accepted or
captured. `Findings` and `Captures` are of the shapes the stages' output models and the capture form admit; `Contracts` are the three
that `integrations` implements. `SpelledAssumption` is the syntax of URIs, which the parser in front enforces.
`PayloadsAssumption`: a payload is a sequence of lines with natural counts of objects.
`SilenceAssumption`: a killed runtime did not exit with 0. `ScenariosAssumption`: commands find a database of one of
the versions 0 to 12 and none without its directory.

*Hypotheses.* `InitsApart` (an init runs beside other inits only) is a hypothesis of `CreatedStaysHolds`, `NothingLostHolds`,
`MigrationKeepsAllHolds`, `NoNeedlessFailureHolds` and the `TypeCorrect` of `OperationsProofs`, written into each of them: without it they are false, as
`MCInitLoss` shows. `ReportsWhatItDidHolds` and `ErasedOrReportedHolds` do without. `Apart` is explained above.

*What proving changed in the models.* `NoStaleExport` failed in the proof for a published set whose claim lost its suggested
rewrite: the renderings of the model contained a field the code does not render. A fourth kind of finding in MCLifecycle
now lets TLC meet the difference. A command on a workspace with rows but no marker was
admitted by the type of `Scenarios`, though by no run. `Reads` of Sources was a CASE whose guards overlap, where TLA+ leaves the
choice open; it now takes the first check that applies, as the code does.

*Only model-checked.*
- Liveness and everything under fairness: out of the prover's reach (`RollbackComesBack`, `RowsClose`, `AttemptsEnd`, `SlotsComeBack`,
  `ServingEnds`).

Every invariant, action property and refinement of the passing runs is proved.

Definitions by recursion over sequences stay out of reach; over naturals an induction can be had from the least
counterexample. No module declares a RECURSIVE operator: the walk along a lineage (`Root`) is a recursive function.

## 5. Where code and documents disagree

- `answered_gap`: `capture_gap_answer` reads its instant before it asks for the writer lock (`services/capture.py` 347). If
  stage 6 commits a snapshot in between, the answer is stamped before a snapshot that lists its gap as open, and every
  export of that snapshot fails; spec 13 says an answered gap never fails export.
- `counterevidence`: stage 7 accepts the descriptor of a displaced record's evidence as grounds (`storage/repository.py`
  942, as spec 15 has it), and the assessment export refuses the snapshot for it (`exports/graph.py` 285).

By hand:

- `MCSiblings`: an invalidation does not attempt the removal of a retired snapshot's rollback sibling,
  which spec 13.14 asks for; the set stays until a later preamble.
- `MCUnflushed`: a removal whose flush failed is reported incomplete; a second invalidation then finds the path empty, flushes nothing
  and says ok, and a power failure brings the set back. Spec 13.14 rule 9: "An effect counts as invalidated only where it is both
  durable and proven under this binding". `DoneIsDurable` therefore asks durability of what the command removed itself.
- `MCViewResidual`: the reader answers `export_residual`, reserved for a stable state, for a set whose
  removal is under way; the identity test does not notice because the inode stays.
- `MCCancelled`: an interrupt between the commit of a call row and the adapter's handler cancels the run and
  leaves its call row running until a later writer sweeps it.
- `MCSelfWait`: interrupts nest, and a nested one can wait for the lock inside an `Event` that its own thread
  holds: `view serve` then hangs.
- `MCListener`: on CPython 3.10 an interrupt may be handled between the drain check and the registration of the listener. The handler finds
  none, the listener is registered and never closed by the run, although `services/view_server.py` 561 says "Atomic with the
  drain check: whoever takes the lock first owns the close": the lock is reentrant and both are the main thread.
- `MCDirectory`: an attempt's directory stays, with the prompt, after an interrupt inside its removal, or before the `try` that removes it, or
  after a removal that fails. Spec 15.12 rule 5: "the contract workspace is deleted when the invocation completes on every
  path". `NothingLeftBehind` says which calls may end so.
- `MCShortCircuit`: a repeated detection is skipped on the evidence of the last recorded call; if the gaps or contradictions
  were superseded since, the run retains a generation that call did not leave.
- `MCInitRace`: an `init` that loses the race for the marker removes the `out/` it made, which the winner has
  taken over (`storage/workspace.py` 505); the winner reports a created workspace that no command recognizes.
  `CreatedStays` therefore speaks of the marker.
- `MCInitLoss`: an `init` that fails behind its commit removes the marker with the database (`storage/workspace.py` 505 to 507), into which
  another command may have captured a record since; spec 14: "`init` never re-creates, overwrites, or deletes existing
  workspace data". The trace is a capture that has closed the database again; one that still holds it open is not modelled.
- `MCDeleteReport`: a SIGINT after the deletion of a log is durable and before the rebuild's own handler (`cli.py` 1943) ends in an
  envelope that names nothing; spec 14 says a cancelled envelope never does that.

Observed while modelling, without a configuration of their own:

- A transport retry is counted and committed before the backoff is tested against the deadline, so a call
  may have counted a retry that was never made (`llm/adapter.py` 346; `storage/telemetry.py` 139 says
  otherwise). `AttemptsAccounted` therefore allows one.
- An answer retires the published assessments only (`services/capture.py` 398 to 411). The hash of a branch export includes the answered
  state of its anchor's gaps and contradictions (`exports/branch.py` 328 to 334), and so does `RenderBranch`: the branch's set stays
  published although a later export would not reuse it. The documents disagree with each other: spec 13 (755) has an answer
  invalidate an old set, spec 14 (146) says "Branch sets are unaffected: no §13.12 member renders gap state".
  `NoStaleExport` lets a branch's set trail by answers, and by nothing else (`Reflects`).
- The sweep of an export silently passes over a stale set it cannot read (`exports/managed.py` 765, 1586), and the export says ok. A parent that cannot
  be listed is reported without naming what is in it (840), and an lstat error in the preamble or the sweep loses the residuals found before it.
- On CPython 3.10 a SIGINT between the end of `_persist` and the attachment of the journal withdraws the in-flight path of an import whose
  record is durable (`services/imports.py` 261 to 268). `ImportStruck` withdraws it only if the transaction had not ended.
- A migration whose commit is durable and whose restoration of `foreign_keys` fails (`storage/workspace.py` 758) is
  reported as failed; so is one interrupted there, as cancelled.
- An import holds SIGINT at `services/imports.py` 418, outside the `try` that attaches its outcome; an interrupt between
  the closing writer and that line names nothing (`ImportCutOff`). A deletion whose closing writer raises after a
  durable commit, and a capture whose durability cannot be read back, name nothing either (`detached`).
- After a failed final checkpoint, `logs delete` and `jd delete` report the WAL only.
- A successful attempt whose directory cannot be removed is retried as a connection failure, and the same `OSError` replaces
  a cancellation on its way out (`llm/codex.py` 190 to 194; spec 15, rule 8).
- A SIGINT around `Popen`, or a second one inside `_terminate_process_group`, leaves the group running (`struck` in
  Provider; spec 15, rule 9). `NothingLeftBehind` excepts exactly that.
- A resolver killed while it reads the cancel event keeps the lock inside it, and `finish()`, which sets
  that event again, waits for ever (`EventOrphaned` in `Stuck`, reachable). Likewise a resolver killed asleep
  on the start event blocks the starter (`GateOrphaned`).
- Two interrupts that nest before the flag is set both count as the first, so the second does not force
  the close.
- After the drain deadline `_await_producers` grants the force-closed connections a second allowance.
- A connection that times out between the opening of the gate and the end of the start gives its slot
  back while its killed resolver may not have died yet; hence `SlotCoversWork` speaks of resolvers that were
  not killed.

## 6. Not modelled, and the plan

- Publication models the assessment parent. Branch sets use the same `_publish_set`, without the sweep; which of them an
  operation removes is in Lifecycle.
- The workspace-binding predicate of spec 13.14 rule 9 (`still_live`), asked before every mutation, needs a second
  workspace tree beside the locked one: the workspace stays where it is, except that a deletion's pass may lose its tree.
- Domain algorithms (`domain/temporal.py`, `calibration.py`, `canonical.py`) and the wording of renderings, prompts, help
  and errors. Confidence, dates, labels and texts of rows are data the properties of Lifecycle do not tell apart.
- Of the imports, the record schemas and what a record becomes; of locators, the matching of ignore patterns; of
  the provider, command lines, byte formats and prices, which no adapter declares; of the command line, argument parsing.
- Hydration of rows in the repository is one flag per row; SQL text is left out.
- Scripts, examples and the demonstration corpus are not part of the program.

In the order of importance:

1. *Binding*: the predicate of rule 9 with a second tree, composed with Publication.
2. *Algorithms*: `domain/*` against reference definitions.
3. *Composition* of Lifecycle with Publication, so that `out` is the directory.
