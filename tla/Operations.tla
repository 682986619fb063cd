----------------------------- MODULE Operations -----------------------------
(***************************************************************************)
(* The commands that write and erase source records, on the workspace of   *)
(* Workspace: a capture (pipeline/stage1.py), an import of several records *)
(* (services/imports.py), and the three deletions built on the operation   *)
(* journal (services/writers.py): `logs delete`, `jd delete` and           *)
(* `workspace purge`, with what each envelope names and reports.           *)
(***************************************************************************)
EXTENDS Workspace

Writers == {"capture", "import"}
Deletions == {"logs delete", "jd delete", "purge"}

\* Rows whose loss is the loss of a source record, in the deletions' sense.
SourceTables == {"raw_logs", "evidence_items", "job_descriptions"}

(***************************************************************************)
(* writer_database: the gate before the lock, the check under it.          *)
(***************************************************************************)

\* A deletion looks its selector up before it asks for confirmation.
Selects(p, k) ==
  CASE cmd[p].kind = "logs delete" -> k \in db.rows["raw_logs"]
    [] cmd[p].kind = "jd delete" -> k \in db.rows["job_descriptions"]
    [] OTHER -> TRUE

Gate(p) ==
  /\ cmd[p].kind \in Writers \union Deletions /\ cmd[p].pc = "start"
  /\ IF ~ Compatible THEN Refuses(p, "schema_incompatible")
     ELSE \E k \in Keys :
            /\ cmd[p].kind = "capture" => k \notin db.rows["raw_logs"]
            /\ IF Selects(p, k)
               THEN /\ Turn(p, [cmd[p] EXCEPT !.pc = "lock",
                              !.target = IF cmd[p].kind \in {"import", "purge"} THEN {} ELSE {k}])
                    /\ UNCHANGED holder
               ELSE Refuses(p, "selector_not_found")
  /\ UNCHANGED <<disk, trouble>>

Check(p) ==
  /\ cmd[p].kind \in Writers \union Deletions /\ cmd[p].pc = "check"
  /\ IF Stored(db) # Current THEN Refuses(p, "schema_incompatible")
     ELSE /\ Turn(p, [cmd[p] EXCEPT !.pc = "begin",
                        !.retained = IF cmd[p].kind = "import" THEN db.rows["raw_logs"] ELSE {}])
          /\ UNCHANGED holder
  /\ UNCHANGED <<disk, trouble>>

\* The transaction's view with a new log and its evidence.
WithLog(d, k) == [d EXCEPT !.rows["raw_logs"] = @ \union {k},
                           !.rows["evidence_items"] = @ \union {k}]

(***************************************************************************)
(* capture: SIGINT is held from before the commit until the envelope is out *)
(***************************************************************************)

CaptureWrites(p) ==
  /\ At(p, "capture", "begin")
  /\ \E k \in cmd[p].target :
       Turn(p, [cmd[p] EXCEPT !.pc = "commit", !.work = WithLog(db, k), !.deferred = TRUE])
  /\ UNCHANGED <<disk, holder, trouble>>

CaptureCommits(p) ==
  /\ At(p, "capture", "commit")
  /\ db' = cmd[p].work
  /\ Turn(p, [cmd[p] EXCEPT !.pc = "close", !.durable = cmd[p].target])
  /\ UNCHANGED <<entries, backups, sets, unclean, holder, trouble>>

CaptureReports(p) ==
  /\ At(p, "capture", "close")
  /\ Ends(p, cmd[p], "success", cmd[p].target, {})
  /\ UNCHANGED <<disk, trouble>>

\* A commit that fails may have ended the transaction: the stored row answers,
\* and when it cannot be read the capture names nothing.
CaptureCommitFails(p) ==
  /\ At(p, "capture", "commit") /\ Strikes
  /\ \E durable, known \in BOOLEAN :
       /\ db' = IF durable THEN cmd[p].work ELSE db
       /\ Ends(p, [cmd[p] EXCEPT !.durable = IF durable THEN cmd[p].target ELSE {},
                                 !.detached = ~ known],
               "internal_error", IF durable /\ known THEN cmd[p].target ELSE {}, {})
  /\ UNCHANGED <<entries, backups, sets, unclean>>

\* Any other failure: before the commit the rollback leaves nothing to name,
\* after it the row is durable and named; a held SIGINT only reclassifies.
CaptureFails(p) ==
  /\ cmd[p].kind = "capture" /\ cmd[p].pc \in {"start", "check", "begin", "close"} /\ Strikes
  /\ Ends(p, cmd[p], "internal_error", cmd[p].durable, {})
  /\ UNCHANGED disk

CaptureInterrupted(p) ==
  /\ cmd[p].kind = "capture" /\ Live(p) /\ Strikes
  /\ IF cmd[p].deferred
     THEN Turn(p, [cmd[p] EXCEPT !.pending = TRUE]) /\ UNCHANGED holder
     ELSE Refuses(p, "cancelled")
  /\ UNCHANGED disk

CaptureStep(p) ==
  CaptureWrites(p) \/ CaptureCommits(p) \/ CaptureReports(p)
    \/ CaptureCommitFails(p) \/ CaptureFails(p) \/ CaptureInterrupted(p)

(***************************************************************************)
(* import: one transaction per record of the payload, one report           *)
(***************************************************************************)

Accepted(p) == {cmd[p].accepted[i] : i \in 1 .. Len(cmd[p].accepted)}

\* A record another record or an earlier import retained is a duplicate, or a
\* conflict if its content differs, and an invalid one is rejected: neither is
\* written.  Any other becomes a candidate before its row is.
ImportClassifies(p) ==
  /\ At(p, "import", "begin") /\ cmd[p].todo # <<>>
  /\ LET k == Head(cmd[p].todo)
         skipped == [cmd[p] EXCEPT !.todo = Tail(@), !.attempts = 0]
     IN \/ Turn(p, skipped)
        \/ /\ k \notin cmd[p].retained
           /\ Turn(p, [cmd[p] EXCEPT !.pc = "commit", !.work = WithLog(db, k),
                                     !.accepted = Append(@, k)])
  /\ UNCHANGED <<disk, holder, trouble>>

ImportCommits(p) ==
  /\ At(p, "import", "commit")
  /\ LET k == Head(cmd[p].todo)
     IN Turn(p, [cmd[p] EXCEPT !.pc = "begin", !.todo = Tail(@), !.attempts = 0,
                   !.retained = @ \union {k}, !.durable = @ \union {k}])
  /\ db' = cmd[p].work
  /\ UNCHANGED <<entries, backups, sets, unclean, holder, trouble>>

\* Mutant: the record of the failed transaction stays accepted.
WithCandidate(c) == [c EXCEPT !.work = EmptyFile]

WithoutCandidate(c) ==
  [c EXCEPT !.accepted = SubSeq(@, 1, Len(@) - 1), !.work = EmptyFile]

\* An identity collision is retried with a fresh one, three times in all.
ImportCollides(p) ==
  /\ At(p, "import", "commit") /\ Strikes
  /\ LET c == [WithoutCandidate(cmd[p]) EXCEPT !.pc = "begin", !.attempts = @ + 1]
         named == {c.accepted[i] : i \in 1 .. Len(c.accepted)}
     IN IF c.attempts < 3 THEN Turn(p, c) /\ UNCHANGED holder
        ELSE Ends(p, c, "internal_error", named, {})
  /\ UNCHANGED disk

\* A failure or SIGINT inside the import: the record in flight is withdrawn
\* unless its transaction ended, and the ending reports the rest.  The commit
\* itself may have ended the transaction.
ImportStruck(p, code) ==
  /\ cmd[p].kind = "import" /\ cmd[p].pc \in {"start", "lock", "check", "begin", "commit"}
  /\ \E ended \in BOOLEAN :
       LET writing == cmd[p].pc = "commit"
           c == IF writing /\ ~ ended THEN WithoutCandidate(cmd[p])
                ELSE IF writing THEN [cmd[p] EXCEPT !.durable = @ \union {Head(cmd[p].todo)}]
                ELSE cmd[p]
       IN /\ ended => writing
          /\ db' = IF ended THEN cmd[p].work ELSE db
          /\ Ends(p, c, code, {c.accepted[i] : i \in 1 .. Len(c.accepted)}, {})
  /\ UNCHANGED <<entries, backups, sets, unclean>>

\* The writer closes, then delivery is held and the outcome returned.
ImportCloses(p) ==
  /\ At(p, "import", "begin") /\ cmd[p].todo = <<>>
  /\ holder' = None
  /\ Go(p, "hand over")
  /\ UNCHANGED <<disk, trouble>>

ImportReports(p) ==
  /\ At(p, "import", "hand over")
  /\ Ends(p, cmd[p], "success", Accepted(p), {})
  /\ UNCHANGED <<disk, trouble>>

\* Between the two, SIGINT reaches the command line with nothing attached.
ImportCutOff(p) ==
  /\ At(p, "import", "hand over") /\ Strikes
  /\ Ends(p, [cmd[p] EXCEPT !.detached = TRUE], "cancelled", {}, {})
  /\ UNCHANGED disk

ImportStep(p) ==
  ImportClassifies(p) \/ ImportCommits(p) \/ ImportCollides(p) \/ ImportCloses(p)
    \/ ImportReports(p) \/ ImportCutOff(p)

(***************************************************************************)
(* The operation journal of the three deletions                            *)
(***************************************************************************)

\* Mutant: only the steps that ended are reported.
ProvenUnresolved(c) == c.residuals

\* What the deletion leaves unresolved: what no step proved removed, and what a
\* step in flight has not proven yet.
Unresolved(c) == c.residuals \union (c.unproven \ c.unlinks)

BackupPlaces == {<<"backup", b.of>> : b \in backups}
AllBackups == <<"all backups", None>>

\* The managed sets a deletion removes: all of them, or the vacancy's branches.
Managed(c) == IF c.kind = "jd delete" THEN {s \in sets : s[1] = "branch" /\ s[2] \in c.target}
              ELSE sets
\* What a pass that lost its tree reports instead of what it left.
Stranded(c) == IF c.kind = "jd delete" THEN {"branch"} \X c.target ELSE {<<"out", None>>}
ManagedRoot(c) == IF c.kind = "jd delete" THEN <<"out/branch", None>> ELSE <<"out", None>>

\* Mutant: the last statement lost its WHERE.
DeleteEveryLog(ks) ==
  <<Clear("verification_findings"), Clear("resume_bullets"), Clear("resume_branches"),
    Clear("self_claims"), Clear("assessment_snapshots"), Clear("gap_questions"),
    Clear("contradictions"), Clear("experience_facts"), Clear("raw_logs")>>

\* The rows that go, in the order the statements run.  A log's deletion first
\* purges everything derived, so that no answered gap loses its answer.
DeleteLog(ks) ==
  <<Clear("verification_findings"), Clear("resume_bullets"), Clear("resume_branches"),
    Clear("self_claims"), Clear("assessment_snapshots"), Clear("gap_questions"),
    Clear("contradictions"), Clear("experience_facts"), DeleteFrom("raw_logs", ks)>>

DeleteVacancy(ks) ==
  <<DeleteFrom("verification_findings", ks), DeleteFrom("resume_bullets", ks),
    DeleteFrom("resume_branches", ks), DeleteFrom("job_descriptions", ks)>>

PurgeAll == [i \in 1 .. Len(PurgeTableOrder) |-> Clear(PurgeTableOrder[i])]

DeletionStatements(c) ==
  CASE c.kind = "logs delete" -> DeleteLog(c.target)
    [] c.kind = "jd delete" -> DeleteVacancy(c.target)
    [] c.kind = "purge" -> PurgeAll

\* What a deletion is of: its selector, or every log of the workspace.
Deleted(c) == IF c.kind = "purge" THEN db.rows["raw_logs"] ELSE c.target

\* BEGIN IMMEDIATE; the log or vacancy is selected again under the lock.
DeletionBegins(p) ==
  /\ cmd[p].kind \in Deletions /\ cmd[p].pc = "begin"
  /\ IF \A k \in cmd[p].target : Selects(p, k)
     THEN /\ Turn(p, [cmd[p] EXCEPT !.pc = "backups", !.work = db,
                                      !.unproven = {AllBackups}])
          /\ UNCHANGED holder
     ELSE Refuses(p, "selector_not_found")
  /\ UNCHANGED <<disk, trouble>>

RemovesBackup(p) ==
  /\ cmd[p].kind \in Deletions /\ cmd[p].pc = "backups"
  /\ \E b \in backups :
       /\ <<"backup", b.of>> \notin cmd[p].refused
       /\ \/ /\ backups' = backups \ {b}
             /\ Turn(p, [cmd[p] EXCEPT !.unlinks = @ \union {<<"backup", b.of>>}])
             /\ UNCHANGED trouble
          \/ /\ Turn(p, [cmd[p] EXCEPT !.refused = @ \union {<<"backup", b.of>>}])
             /\ UNCHANGED backups /\ Strikes
  /\ UNCHANGED <<entries, db, sets, unclean, holder>>

\* The pass is proven by a second enumeration; a tree that moved under it
\* leaves the whole root unresolved and nothing proven removed.
BackupsRemoved(p) ==
  /\ cmd[p].kind \in Deletions /\ cmd[p].pc = "backups"
  /\ \/ /\ BackupPlaces \subseteq cmd[p].refused
        /\ Turn(p, [cmd[p] EXCEPT !.pc = "sets", !.residuals = @ \union BackupPlaces,
                       !.refused = {}, !.unproven = {ManagedRoot(cmd[p])}])
        /\ UNCHANGED trouble
     \/ /\ Turn(p, [cmd[p] EXCEPT !.pc = "sets", !.residuals = @ \union {AllBackups},
                       !.unlinks = {}, !.refused = {}, !.unproven = {ManagedRoot(cmd[p])}])
        /\ Strikes
  /\ UNCHANGED <<disk, holder>>

RemovesSet(p) ==
  /\ cmd[p].kind \in Deletions /\ cmd[p].pc = "sets"
  /\ \E s \in Managed(cmd[p]) \ cmd[p].refused :
       \/ /\ sets' = sets \ {s}
          /\ Turn(p, [cmd[p] EXCEPT !.unlinks =
                         IF cmd[p].kind = "jd delete" THEN @ \union {s} ELSE @])
          /\ UNCHANGED trouble
       \/ /\ Turn(p, [cmd[p] EXCEPT !.refused = @ \union {s}])
          /\ UNCHANGED sets /\ Strikes
  /\ UNCHANGED <<entries, db, backups, unclean, holder>>

\* A root that cannot be listed, or is no longer the locked one, stays whole.
SetsRemoved(p) ==
  /\ cmd[p].kind \in Deletions /\ cmd[p].pc = "sets"
  /\ \/ /\ Managed(cmd[p]) \subseteq cmd[p].refused
        /\ Turn(p, [cmd[p] EXCEPT !.pc = "rows", !.residuals = @ \union Managed(cmd[p]),
                       !.refused = {}, !.unproven = {}])
        /\ UNCHANGED trouble
     \/ /\ Turn(p, [cmd[p] EXCEPT !.pc = "rows", !.residuals = @ \union Stranded(cmd[p]),
                       !.refused = {}, !.unproven = {}])
        /\ Strikes
  /\ UNCHANGED <<disk, holder>>

\* From before the commit until the checkpoint answers, the WAL, and for a
\* purge the database itself, is unproven.
Unerased(p) == (IF cmd[p].kind = "purge" THEN {"wal", "database"} ELSE {"wal"}) \X {p}

DeletesRows(p) ==
  /\ cmd[p].kind \in Deletions /\ cmd[p].pc = "rows"
  /\ cmd[p].at <= Len(DeletionStatements(cmd[p]))
  /\ LET next == Execute(cmd[p].work, DeletionStatements(cmd[p])[cmd[p].at], TRUE, TRUE)
     IN IF next.sound
        THEN Turn(p, [cmd[p] EXCEPT !.work = next, !.at = @ + 1]) /\ UNCHANGED holder
        ELSE Refuses(p, "internal_error")
  /\ UNCHANGED <<disk, trouble>>

\* A purge leaves one fresh row in schema_meta.
RowsDeleted(p) ==
  /\ cmd[p].kind \in Deletions /\ cmd[p].pc = "rows"
  /\ cmd[p].at > Len(DeletionStatements(cmd[p]))
  /\ Turn(p, [cmd[p] EXCEPT !.pc = "commit", !.unproven = Unerased(p),
                 !.work.versions = IF cmd[p].kind = "purge" THEN {Current} ELSE @])
  /\ UNCHANGED <<disk, holder, trouble>>

\* What the commit makes true: the rows are gone, and every place that held
\* them is stale until it is removed or overwritten.
Commits(p) ==
  /\ db' = cmd[p].work
  /\ unclean' = unclean \union Unerased(p)

Committed(p) ==
  [cmd[p] EXCEPT !.committed = TRUE, !.durable = Deleted(cmd[p]), !.work = EmptyFile,
                 !.stale = BackupPlaces \union Managed(cmd[p]) \union Unerased(p)]

DeletionCommits(p) ==
  /\ cmd[p].kind \in Deletions /\ cmd[p].pc = "commit"
  /\ Commits(p)
  /\ Turn(p, [Committed(p) EXCEPT !.pc = "erase"])
  /\ UNCHANGED <<entries, backups, sets, holder, trouble>>

\* checkpoint_residuals, and for a purge _erase: a checkpoint cannot truncate
\* past a reader, and VACUUM can fail by itself; after a failed final
\* checkpoint the database still has the pages the rewrite replaced.
Erases(p) ==
  /\ cmd[p].kind \in Deletions /\ cmd[p].pc = "erase"
  /\ \E left, said \in SUBSET Unerased(p) :
       /\ cmd[p].kind = "purge" /\ <<"wal", p>> \in left => <<"database", p>> \in left
       /\ left \subseteq said
       /\ unclean' = left \union
            {u \in unclean : (u[1] = "wal" /\ <<"wal", p>> \in left) \/ (u[1] = "database" /\ u[2] # p)}
       /\ IF said = {} THEN UNCHANGED trouble ELSE Strikes
       /\ Turn(p, [cmd[p] EXCEPT
                     !.pc = IF cmd[p].kind = "logs delete" THEN "hand over" ELSE "close",
                     !.residuals = @ \union said, !.unproven = {}])
  /\ UNCHANGED <<entries, db, backups, sets, holder>>

DeletionReports(p) ==
  /\ cmd[p].kind \in Deletions /\ cmd[p].pc = "close"
  /\ Ends(p, cmd[p], IF cmd[p].residuals = {} THEN "success" ELSE "deletion_incomplete",
          cmd[p].durable, cmd[p].residuals)
  /\ UNCHANGED <<disk, trouble>>

\* logs delete keeps the lock across the rebuild of what other logs support,
\* and reports the deletion whether or not the rebuild succeeds.
LogsRebuild(p) ==
  /\ At(p, "logs delete", "hand over") /\ Go(p, "rebuild")
  /\ UNCHANGED <<disk, holder, trouble>>

Rebuilt(d) ==
  LET ks == d.rows["raw_logs"]
  IN [d EXCEPT !.rows = [d.rows EXCEPT !["processing_runs"] = @ \union ks,
                                       !["experience_facts"] = ks, !["fact_sources"] = ks]]

LogsRebuilt(p) ==
  /\ At(p, "logs delete", "rebuild")
  /\ db' = Rebuilt(db)
  /\ Go(p, "close")
  /\ UNCHANGED <<entries, backups, sets, unclean, holder, trouble>>

(***************************************************************************)
(* Failures and signals in a deletion                                      *)
(***************************************************************************)

Working == {"start", "lock", "check", "begin", "backups", "sets", "rows", "commit"}

Detached(p, c, code) == Ends(p, [c EXCEPT !.detached = TRUE], code, {}, {})

\* A failure before the commit rolls back and names nothing.  One in the
\* rebuild carries the committed deletion; one that the commit or the closing
\* writer raises when the rows are gone is an unexpected error with nothing attached.
DeletionFails(p) ==
  /\ cmd[p].kind \in Deletions /\ Strikes
  /\ \/ /\ cmd[p].pc \in Working \ {"backups", "sets"}
        /\ Refuses(p, "internal_error")
        /\ UNCHANGED disk
     \/ /\ cmd[p].pc = "commit"
        /\ Commits(p)
        /\ Detached(p, Committed(p), "internal_error")
        /\ UNCHANGED <<entries, backups, sets>>
     \/ /\ cmd[p].pc = "close"
        /\ Detached(p, cmd[p], "internal_error")
        /\ UNCHANGED disk
     \/ /\ cmd[p].pc = "rebuild"
        /\ Ends(p, cmd[p], "llm_failed", cmd[p].durable, cmd[p].residuals)
        /\ UNCHANGED disk

\* Before the commit: logs delete reports nothing, a purge the paths its
\* managed pass left, and jd delete those or the paths it removed.
CleanupReported(c) ==
  CASE c.kind = "logs delete" -> {}
    [] c.kind = "jd delete" -> Unresolved(c)
    [] c.kind = "purge" -> IF c.residuals # {} THEN Unresolved(c) ELSE {}

\* SIGINT finds the transaction open or ended, by the commit in progress.
DeletionInterrupted(p) ==
  /\ cmd[p].kind \in Deletions /\ Strikes
  /\ \/ /\ cmd[p].pc \in Working
        /\ LET c == IF cmd[p].pc = "commit" THEN [cmd[p] EXCEPT !.unproven = {}] ELSE cmd[p]
           IN Ends(p, c, "cancelled", {}, CleanupReported(c))
        /\ UNCHANGED disk
     \/ /\ cmd[p].pc = "commit"
        /\ Commits(p)
        /\ LET c == Committed(p)
           IN Ends(p, c, "cancelled", c.durable, Unresolved(c))
        /\ UNCHANGED <<entries, backups, sets>>
     \/ /\ cmd[p].pc \in {"erase", "rebuild"} \union
                          (IF cmd[p].kind = "logs delete" THEN {} ELSE {"close"})
        /\ Ends(p, cmd[p], "cancelled", cmd[p].durable, Unresolved(cmd[p]))
        /\ UNCHANGED disk
     \* logs delete: after the service returned, before the rebuild's own
     \* boundary, and once it closes, nothing is attached to the signal.
     \/ /\ cmd[p].kind = "logs delete" /\ cmd[p].pc \in {"hand over", "close"}
        /\ Detached(p, cmd[p], "cancelled")
        /\ UNCHANGED disk

DeletionStep(p) ==
  DeletionBegins(p) \/ RemovesBackup(p) \/ BackupsRemoved(p) \/ RemovesSet(p) \/ SetsRemoved(p)
    \/ DeletesRows(p) \/ RowsDeleted(p) \/ DeletionCommits(p) \/ Erases(p) \/ DeletionReports(p)
    \/ LogsRebuild(p) \/ LogsRebuilt(p) \/ DeletionFails(p) \/ DeletionInterrupted(p)

(***************************************************************************)
(* Specification                                                           *)
(***************************************************************************)

\* A failed call or SIGINT while a command waits or works.
Struck(p) ==
  \E code \in {"internal_error", "cancelled"} :
    /\ Live(p) /\ Strikes
    /\ InitStruck(p, code) \/ MigrateStruck(p, code) \/ ImportStruck(p, code)

\* Every command has ended.
AllEnded == (\A p \in Procs : ~ Live(p)) /\ UNCHANGED workspaceVars

Next ==
  \/ \E p \in Procs :
       \/ InitStep(p) \/ MigrateStep(p) \/ Lock(p) \/ Busy(p) \/ Gate(p) \/ Check(p)
       \/ CaptureStep(p) \/ ImportStep(p) \/ DeletionStep(p) \/ Struck(p) \/ Dies(p)
  \/ AllEnded

Spec == WorkspaceInit /\ [][Next]_workspaceVars

(***************************************************************************)
(* Properties                                                              *)
(***************************************************************************)

\* A source record leaves the database only by the commit of a deletion that
\* selected it, however captures, imports, migrations and deletions interleave,
\* fail or are cut short (delete_log, delete_job_description, purge_workspace,
\* the rebuilding migrations).
Erasing(p, table, k) ==
  /\ cmd[p].kind \in Deletions /\ cmd[p].pc = "commit" /\ cmd'[p].committed
  /\ CASE cmd[p].kind = "logs delete" -> table # "job_descriptions" /\ k \in cmd[p].target
       [] cmd[p].kind = "jd delete" -> table = "job_descriptions" /\ k \in cmd[p].target
       [] OTHER -> TRUE

NothingLost ==
  [][\A table \in SourceTables : \A k \in db.rows[table] \ db'.rows[table] :
       \E p \in Procs : Erasing(p, table, k)]_workspaceVars

\* An envelope names exactly the records its command made durable or deleted,
\* success, failure or cancellation, unless the ending struck where nothing was
\* attached yet; and an import accepts no record twice (Journal,
\* _capture_is_durable, _classify, _cancelled_outcome).
ReportsWhatItDid ==
  \A p \in Procs : cmd[p].pc = "done" =>
    /\ cmd[p].named \subseteq cmd[p].durable
    /\ ~ cmd[p].detached => cmd[p].named = cmd[p].durable
    /\ cmd[p].kind = "import" => Cardinality(Accepted(p)) = Len(cmd[p].accepted)

Remains(place) ==
  place \in unclean \union sets \union BackupPlaces

\* The place, or a root above it, is among the reported paths.
IsReported(p, place) ==
  \/ place \in cmd[p].reported
  \/ place[1] = "backup" /\ AllBackups \in cmd[p].reported
  \/ place[1] = "branch" /\ <<"out/branch", None>> \in cmd[p].reported
  \/ place[1] \in {"assessment", "branch"} /\ <<"out", None>> \in cmd[p].reported

\* When a committed deletion has been reported, every place that still holds
\* what it erased (a backup, a managed set, the WAL, the database file) is
\* among the unresolved paths of its envelope (Journal.unresolved,
\* purge_managed_backups, checkpoint_residuals, _erase).
ErasedOrReported ==
  \A p \in Procs : cmd[p].pc = "done" /\ cmd[p].committed /\ ~ cmd[p].detached
                     /\ cmd[p].kind \in Deletions =>
    \A place \in cmd[p].stale : Remains(place) => IsReported(p, place)

\* What the data alone makes a migration refuse.
Flawed ==
  \/ Stored(db) <= 2 /\ db.blank # {}
  \/ db.unreadable # {}
  \/ \E entry \in db.shape : entry[2] = "odd"

\* A command over sound data that nothing struck does not fail: the migrations
\* pass the guards and references they meet and reach the fresh shape, and the
\* deletions order their statements so that no reference stops them
\* (MIGRATION_REGISTRY, PURGE_TABLE_ORDER, delete_log).
NoNeedlessFailure ==
  \A p \in Procs :
    cmd[p].pc = "done" /\ cmd[p].kind # "init"
      /\ cmd[p].code \in {"internal_error", "migration_failed"} =>
        trouble < MaxTrouble \/ Flawed

\* A cancelled envelope names what is durable (spec/14-cli-specification.md,
\* rule 6, "a cancelled envelope never names nothing while rows are durable").
CancelledNamesDurable ==
  \A p \in Procs :
    cmd[p].pc = "done" /\ cmd[p].code = "cancelled" /\ cmd[p].durable # {} => cmd[p].named # {}
=============================================================================
