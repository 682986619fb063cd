------------------------------ MODULE Workspace ------------------------------
(***************************************************************************)
(* A workspace as its commands find and leave it: the directory `init`     *)
(* makes, the database `db migrate` brings to the current schema, and the  *)
(* writer authority every business writer takes (storage/workspace.py).    *)
(* Each process runs one command.  Between any two of its steps another    *)
(* command may run, an operating system call may fail, SIGINT may arrive   *)
(* or the process may die; MaxTrouble bounds how often in one behaviour.   *)
(* Operations adds the commands that capture, import and erase.            *)
(***************************************************************************)
EXTENDS Schema

CONSTANTS
  Procs,          \* processes, one command each
  None,           \* no process
  Scenarios,      \* the commands run together and the workspace they find
  MaxTrouble      \* failures, signals and deaths in one behaviour

ASSUME MaxTroubleAssumption == MaxTrouble \in Nat
ASSUME NoneAssumption == None \notin Procs

VARIABLES
  entries,        \* the directory entries that exist
  db,             \* what the database file holds: the committed content
  backups,        \* the migration backups in .exp2res/backup
  sets,           \* the published sets below out/
  unclean,        \* whose erased bytes the database file and its WAL still hold
  holder,         \* the process holding the writer lock
  cmd,            \* each process' command
  trouble         \* what is left of MaxTrouble

workspaceVars == <<entries, db, backups, sets, unclean, holder, cmd, trouble>>

Marker == {"marker", "config", "lock", "database"}

\* A workspace as commands may find it: no database without its directory.
ASSUME ScenariosAssumption ==
  \A s \in Scenarios :
    /\ s.entries \subseteq Marker \union {"out", "foreign out"}
    /\ "marker" \notin s.entries => s.version = 0
    /\ s.version \in 0 .. Current /\ s.rows \subseteq Keys /\ s.payload \in Seq(Keys)
    /\ s.sets \subseteq {"assessment", "branch"} \X Keys

\* No init runs beside other commands: its rollback removes the marker with
\* the database another command may have written into since init's commit.
InitsApart ==
  \A s \in Scenarios :
    (\E p \in Procs : s.kinds[p] = "init") => \A p \in Procs : s.kinds[p] = "init"

(***************************************************************************)
(* Commands                                                                *)
(***************************************************************************)

\* A place erased content may remain in (the WAL or the database file with what
\* a process erased, a backup, a set), and the roots a report may name instead.
Place == ({"wal", "database"} \X Procs)
           \union ({"backup"} \X (Procs \union {None}))
           \union ({"assessment", "branch"} \X Keys)
Roots == {<<"all backups", None>>, <<"out", None>>, <<"out/branch", None>>}

NewCommand(kind) ==
  [kind |-> kind, pc |-> "start", seen |-> 0, made |-> {}, work |-> EmptyFile,
   backup |-> FALSE, committed |-> FALSE, deferred |-> FALSE, pending |-> FALSE,
   at |-> 1, todo |-> <<>>, retained |-> {}, accepted |-> <<>>, attempts |-> 0, target |-> {},
   unlinks |-> {}, refused |-> {}, residuals |-> {}, unproven |-> {},
   durable |-> {}, detached |-> FALSE, stale |-> {}, code |-> "", named |-> {}, reported |-> {}]

Live(p) == cmd[p].pc \notin {"done", "dead"}
At(p, kind, pc) == cmd[p].kind = kind /\ cmd[p].pc = pc

Turn(p, c) == cmd' = [cmd EXCEPT ![p] = c]
Go(p, pc) == Turn(p, [cmd[p] EXCEPT !.pc = pc])

\* The command ends: its transaction is rolled back, its lock released, and
\* the envelope names rows and reports unresolved paths.  A SIGINT held since
\* the deferral makes the ending a cancellation.
Ends(p, c, code, named, reported) ==
  /\ cmd' = [cmd EXCEPT ![p] =
       [c EXCEPT !.pc = "done", !.code = IF c.pending THEN "cancelled" ELSE code,
                 !.named = named, !.reported = reported, !.work = EmptyFile]]
  /\ holder' = IF holder = p THEN None ELSE holder

Refuses(p, code) == Ends(p, cmd[p], code, {}, {})

Strikes == trouble > 0 /\ trouble' = trouble - 1

disk == <<entries, db, backups, sets, unclean>>

(***************************************************************************)
(* Compatibility and the writer lock                                       *)
(***************************************************************************)

\* inspect_workspace: the layout, then the version the metadata states.
Recognized == Marker \union {"out"} \subseteq entries /\ Stored(db) # 0
Compatible == Recognized /\ Stored(db) = Current

Lock(p) ==
  /\ cmd[p].pc = "lock" /\ holder = None
  /\ holder' = p
  /\ Go(p, "check")
  /\ UNCHANGED <<disk, trouble>>

\* The lock stayed with another command for the whole bounded wait.
Busy(p) ==
  /\ cmd[p].pc = "lock" /\ holder # None
  /\ Refuses(p, "workspace_busy")
  /\ UNCHANGED <<disk, trouble>>

(***************************************************************************)
(* init                                                                    *)
(***************************************************************************)

InitSees(p) ==
  /\ At(p, "init", "start")
  /\ IF "marker" \notin entries THEN Go(p, "out") /\ UNCHANGED holder
     ELSE Refuses(p, IF Compatible THEN "opened" ELSE "schema_incompatible")
  /\ UNCHANGED <<disk, trouble>>

InitSeesOut(p) ==
  /\ At(p, "init", "out")
  /\ IF "foreign out" \in entries THEN Refuses(p, "schema_incompatible")
     ELSE Go(p, IF "out" \in entries THEN "restrict out" ELSE "make out") /\ UNCHANGED holder
  /\ UNCHANGED <<disk, trouble>>

\* mkdir refuses an entry that came to exist since it was seen absent.
InitMakesOut(p) ==
  /\ At(p, "init", "make out")
  /\ IF "out" \in entries
     THEN Refuses(p, "internal_error") /\ UNCHANGED entries
     ELSE /\ entries' = entries \union {"out"}
          /\ Turn(p, [cmd[p] EXCEPT !.pc = "restrict out", !.made = {"out"}])
          /\ UNCHANGED holder
  /\ UNCHANGED <<db, backups, sets, unclean, trouble>>

InitRestrictsOut(p) ==
  /\ At(p, "init", "restrict out") /\ Go(p, "marker")
  /\ UNCHANGED <<disk, holder, trouble>>

\* Mutant: a marker that came to exist is adopted, as mkdir with exist_ok would.
InitAdoptsMarker(p) ==
  /\ At(p, "init", "marker")
  /\ entries' = entries \union {"marker"}
  /\ Turn(p, [cmd[p] EXCEPT !.pc = "fill", !.made = @ \union {"marker"}])
  /\ UNCHANGED <<db, backups, sets, unclean, holder, trouble>>

\* The exclusive mkdir decides which of two creators owns the marker.
InitMakesMarker(p) ==
  /\ At(p, "init", "marker")
  /\ IF "marker" \in entries
     THEN /\ Turn(p, [cmd[p] EXCEPT !.pc = "undo marker", !.code = "schema_incompatible"])
          /\ UNCHANGED entries
     ELSE /\ entries' = entries \union {"marker"}
          /\ Turn(p, [cmd[p] EXCEPT !.pc = "fill", !.made = @ \union {"marker"}])
  /\ UNCHANGED <<db, backups, sets, unclean, holder, trouble>>

InitFills(p) ==
  /\ At(p, "init", "fill")
  /\ entries' = entries \union Marker
  /\ db' = EmptyFile
  /\ Go(p, "schema")
  /\ UNCHANGED <<backups, sets, unclean, holder, trouble>>

InitCreatesSchema(p) ==
  /\ At(p, "init", "schema")
  /\ db' = CreateSchema(db)
  /\ Go(p, "inspect")
  /\ UNCHANGED <<entries, backups, sets, unclean, holder, trouble>>

InitInspects(p) ==
  /\ At(p, "init", "inspect")
  /\ IF Compatible THEN Refuses(p, "created")
     ELSE /\ Turn(p, [cmd[p] EXCEPT !.pc = "undo marker", !.code = "internal_error"])
          /\ UNCHANGED holder
  /\ UNCHANGED <<disk, trouble>>

\* The rollback removes the marker, then out/, each only if this command made it.
InitUndoesMarker(p) ==
  /\ At(p, "init", "undo marker")
  /\ Go(p, "undo out")
  /\ IF "marker" \in cmd[p].made
     THEN entries' = entries \ Marker /\ db' = EmptyFile /\ backups' = {}
     ELSE UNCHANGED <<entries, db, backups>>
  /\ UNCHANGED <<sets, unclean, holder, trouble>>

InitUndoesOut(p) ==
  /\ At(p, "init", "undo out")
  /\ IF "out" \in cmd[p].made
     THEN entries' = entries \ {"out"} /\ sets' = {}
     ELSE UNCHANGED <<entries, sets>>
  /\ Refuses(p, cmd[p].code)
  /\ UNCHANGED <<db, backups, unclean, trouble>>

\* A failure or SIGINT is undone from the marker on; before it, and in the
\* rollback itself, it ends the command with what exists.
InitStruck(p, code) ==
  /\ cmd[p].kind = "init"
  /\ IF cmd[p].pc \in {"marker", "fill", "schema", "inspect"}
     THEN Turn(p, [cmd[p] EXCEPT !.pc = "undo marker", !.code = code]) /\ UNCHANGED holder
     ELSE Refuses(p, code)
  /\ UNCHANGED disk

InitStep(p) ==
  \/ InitSees(p) \/ InitSeesOut(p) \/ InitMakesOut(p) \/ InitRestrictsOut(p)
  \/ InitMakesMarker(p) \/ InitFills(p) \/ InitCreatesSchema(p) \/ InitInspects(p)
  \/ InitUndoesMarker(p) \/ InitUndoesOut(p)

(***************************************************************************)
(* db migrate                                                              *)
(***************************************************************************)

MigrateSees(p) ==
  /\ At(p, "migrate", "start")
  /\ IF Recognized /\ MigrationPath(Stored(db)) # {}
     THEN Turn(p, [cmd[p] EXCEPT !.pc = "lock", !.seen = Stored(db)]) /\ UNCHANGED holder
     ELSE Refuses(p, IF Compatible THEN "up to date" ELSE "schema_incompatible")
  /\ UNCHANGED <<disk, trouble>>

\* The version is read again under the lock.
MigrateChecks(p) ==
  /\ At(p, "migrate", "check")
  /\ IF Stored(db) = cmd[p].seen THEN Go(p, "backup") /\ UNCHANGED holder
     ELSE Refuses(p, "schema_incompatible")
  /\ UNCHANGED <<disk, trouble>>

\* The backup is created, filled, and only then verified and named.
MigrateBacksUp(p) ==
  /\ At(p, "migrate", "backup")
  /\ backups' = backups \union {[of |-> p, whole |-> FALSE, copy |-> db]}
  /\ Go(p, "verify")
  /\ UNCHANGED <<entries, db, sets, unclean, holder, trouble>>

MigrateVerifies(p) ==
  /\ At(p, "migrate", "verify")
  /\ backups' = {IF b.of = p THEN [b EXCEPT !.whole = TRUE] ELSE b : b \in backups}
  /\ Turn(p, [cmd[p] EXCEPT !.pc = "begin", !.backup = TRUE])
  /\ UNCHANGED <<entries, db, sets, unclean, holder, trouble>>

MigrateBegins(p) ==
  /\ At(p, "migrate", "begin")
  /\ Turn(p, [cmd[p] EXCEPT !.pc = "step", !.work = db])
  /\ UNCHANGED <<disk, holder, trouble>>

\* Foreign keys are off for the whole path when one of its steps asks for it.
ForeignKeys(p) == MigrationPath(cmd[p].seen) \intersect ForeignKeysOff = {}

\* The managed sets a step strands go before its statements run, inside the
\* transaction; a set that stays is reported.
MigrateCleans(p) ==
  LET version == Stored(cmd[p].work)
  IN /\ At(p, "migrate", "step") /\ version < Current
     /\ IF version \in ManagedCleanup
        THEN \E left \in SUBSET sets :
               /\ sets' = left
               /\ IF left = {} THEN UNCHANGED trouble ELSE Strikes
               /\ Turn(p, [cmd[p] EXCEPT !.pc = "statements", !.residuals = @ \union left])
        ELSE Go(p, "statements") /\ UNCHANGED <<sets, trouble>>
     /\ UNCHANGED <<entries, db, backups, unclean, holder>>

\* The statements of one registered step; one that fails rolls all steps back.
MigrateExecutes(p) ==
  LET version == Stored(cmd[p].work)
      statements == Statements(cmd[p].work, version)
      next == Execute(cmd[p].work, statements[cmd[p].at], ForeignKeys(p), FALSE)
  IN /\ At(p, "migrate", "statements") /\ cmd[p].at <= Len(statements)
     /\ IF KeysComputed(cmd[p].work, version) /\ next.sound
        THEN Turn(p, [cmd[p] EXCEPT !.work = next, !.at = @ + 1]) /\ UNCHANGED holder
        ELSE Ends(p, cmd[p], "migration_failed", {}, cmd[p].residuals)
     /\ UNCHANGED <<disk, trouble>>

MigrateRecords(p) ==
  LET version == Stored(cmd[p].work)
  IN /\ At(p, "migrate", "statements") /\ cmd[p].at > Len(Statements(cmd[p].work, version))
     /\ Turn(p, [cmd[p] EXCEPT !.pc = "step", !.at = 1,
                                !.work.versions = @ \union {version + 1}])
     /\ UNCHANGED <<disk, holder, trouble>>

MigrateCommits(p) ==
  /\ At(p, "migrate", "step") /\ Stored(cmd[p].work) = Current
  /\ IF ValidTarget(cmd[p].work)
     THEN /\ db' = cmd[p].work
          /\ Turn(p, [cmd[p] EXCEPT !.pc = "restore", !.committed = TRUE])
          /\ UNCHANGED holder
     ELSE /\ Ends(p, cmd[p], "migration_failed", {}, cmd[p].residuals)
          /\ UNCHANGED db
  /\ UNCHANGED <<entries, backups, sets, unclean, trouble>>

\* Foreign keys come back, the connection closes and the lock is released
\* before the workspace is inspected once more.
MigrateReleases(p) ==
  /\ At(p, "migrate", "restore")
  /\ holder' = None
  /\ Go(p, "after")
  /\ UNCHANGED <<disk, trouble>>

MigrateReports(p) ==
  /\ At(p, "migrate", "after")
  /\ Ends(p, cmd[p], IF Compatible THEN "migrated" ELSE "migration_failed", {},
          cmd[p].residuals)
  /\ UNCHANGED <<disk, trouble>>

\* Mutant: every failure unlinks the backup, the verified one too.
MigrateStruckUnlinking(p, code) ==
  /\ cmd[p].kind = "migrate"
  /\ backups' = {b \in backups : b.of # p}
  /\ Ends(p, cmd[p], code, {}, cmd[p].residuals)
  /\ UNCHANGED <<entries, db, sets, unclean>>

\* A failure while the backup is made unlinks it if it can; any failure is a
\* failed migration and any SIGINT a cancelled one, both naming the verified
\* backup; one that strikes after the commit says the same of a migrated database.
MigrateStruck(p, code) ==
  /\ cmd[p].kind = "migrate"
  /\ \/ cmd[p].pc = "verify" /\ backups' = {b \in backups : b.of # p}
     \/ UNCHANGED backups
  /\ Ends(p, cmd[p],
          IF code = "internal_error" /\ cmd[p].pc \notin {"start", "lock", "after"}
          THEN "migration_failed" ELSE code,
          {}, cmd[p].residuals)
  /\ UNCHANGED <<entries, db, sets, unclean>>

MigrateStep(p) ==
  \/ MigrateSees(p) \/ MigrateChecks(p) \/ MigrateBacksUp(p) \/ MigrateVerifies(p)
  \/ MigrateBegins(p) \/ MigrateCleans(p) \/ MigrateExecutes(p) \/ MigrateRecords(p)
  \/ MigrateCommits(p) \/ MigrateReleases(p) \/ MigrateReports(p)

\* Mutant: the lock is an entry in the workspace instead of the descriptor's.
DiesHoldingLock(p) ==
  /\ Live(p) /\ Strikes
  /\ cmd' = [cmd EXCEPT ![p].pc = "dead", ![p].work = EmptyFile]
  /\ UNCHANGED <<disk, holder>>

\* The process dies: its transaction and its lock go with it, its files stay.
Dies(p) ==
  /\ Live(p) /\ Strikes
  /\ cmd' = [cmd EXCEPT ![p].pc = "dead", ![p].work = EmptyFile]
  /\ holder' = IF holder = p THEN None ELSE holder
  /\ UNCHANGED disk

(***************************************************************************)
(* Initial states: a scenario's commands and the workspace they find.      *)
(***************************************************************************)

InitialDatabase(v, ks, flaw) ==
  IF v = 0 THEN EmptyFile
  ELSE [shape |-> SchemaSQL[v] \union (IF flaw = "odd" THEN Def("evidence_items", {"odd"}, 0)
                                       ELSE {}),
        rows |-> [t \in Tables |-> IF t \in TablesOf(SchemaSQL[v]) THEN ks ELSE {}],
        versions |-> {v},
        blank |-> IF flaw = "blank" THEN ks ELSE {},
        unreadable |-> IF flaw = "unreadable" THEN ks ELSE {},
        scoped |-> IF flaw = "scoped" THEN ks ELSE {}, sound |-> TRUE]

WorkspaceInit ==
  \E s \in Scenarios :
    /\ entries = s.entries
    /\ db = InitialDatabase(s.version, s.rows, s.flaw)
    /\ backups = IF s.earlier THEN {[of |-> None, whole |-> TRUE, copy |-> db]} ELSE {}
    /\ sets = s.sets
    /\ unclean = {}
    /\ holder = None
    /\ cmd = [p \in Procs |-> [NewCommand(s.kinds[p]) EXCEPT !.todo = s.payload]]
    /\ trouble = MaxTrouble

(***************************************************************************)
(* Properties                                                              *)
(***************************************************************************)

WorkspaceTypeOK ==
  /\ entries \subseteq Marker \union {"out", "foreign out"}
  /\ db \in Database /\ db.sound
  /\ \A b \in backups : b.of \in Procs \union {None} /\ b.whole \in BOOLEAN /\ b.copy \in Database
  /\ sets \subseteq {"assessment", "branch"} \X Keys
  /\ unclean \subseteq {"wal", "database"} \X Procs
  /\ holder \in {None} \union {p \in Procs : Live(p)}
  /\ \A p \in Procs :
       /\ cmd[p].work \in Database
       /\ cmd[p].reported \union cmd[p].residuals \union cmd[p].unproven \subseteq Place \union Roots
       /\ cmd[p].named \union cmd[p].durable \subseteq Keys
  /\ trouble \in 0 .. MaxTrouble

\* A workspace a command reported created stays: no other init, whatever it
\* finds, fails at or undoes, removes the marker of a workspace that is not
\* its own or reports the same one created (initialize_workspace).
CreatedStays ==
  \A p \in Procs : cmd[p].pc = "done" /\ cmd[p].code = "created" =>
    /\ Marker \subseteq entries /\ Stored(db) = Current
    /\ \A q \in Procs \ {p} : cmd[q].pc = "done" => cmd[q].code # "created"

Derived == {"self_signals", "assessment_snapshots", "self_claims", "verification_findings"}

\* Whatever fails, is interrupted or dies, the database has exactly the shape
\* of the version it states, and a migration that committed keeps every row the
\* registered transforms do not drop, beside a verified backup of what was
\* there before (migrate_workspace, _create_verified_backup).
MigrationKeepsAll ==
  /\ Stored(db) # 0 => db.shape \ Def("evidence_items", {"odd"}, 0) = SchemaSQL[Stored(db)]
  /\ \A p \in Procs : cmd[p].kind = "migrate" /\ cmd[p].committed =>
       \E b \in backups :
         /\ b.of = p /\ b.whole
         /\ \A t \in Tables \ Derived : b.copy.rows[t] \subseteq db.rows[t]
         /\ Stored(b.copy) >= 9 =>
              \A t \in Derived \ {"self_signals"} :
                b.copy.rows[t] \ (IF Stored(b.copy) = 9 THEN db.scoped ELSE {})
                  \subseteq db.rows[t]

\* A workspace a command reported created is one other commands recognize
\* (initialize_workspace; spec/14-cli-specification.md, "`init` never
\* re-creates, overwrites, or deletes existing workspace data").
CreatedIsRecognized ==
  \A p \in Procs : cmd[p].pc = "done" /\ cmd[p].code = "created" => Recognized
=============================================================================
