----------------------------- MODULE Publication -----------------------------
(***************************************************************************)
(* Publication, invalidation and recovery of managed output, as            *)
(* exports/managed.py runs them under the writer lock: one writer command  *)
(* at a time, each opened by the reconciliation preamble of                *)
(* writer_database. Every system call may fail, the command may be         *)
(* interrupted, killed, or lose the power between any two of them.         *)
(***************************************************************************)
EXTENDS ManagedDirectory

VARIABLES dir,    \* the managed parent as every process sees it
          disk,   \* the directories a power failure could leave
          db,     \* the assessment rows publication reads
          w       \* the writer command holding the lock

vars == <<dir, disk, db, w>>

-----------------------------------------------------------------------------

Paths == (Slots \cup {"parent"}) \X (Entities \cup {NoEntity})

Parent == <<"parent", NoEntity>>

Points == {"idle", "list", "reclaim", "recover", "select", "sweep", "build", "fill",
           "flush", "place", "swap", "settle", "discard", "confirm", "clean",
           "commit", "remove"}

Outcomes == {"none", "ok", "failed", "incomplete", "refused", "raised",
             "interrupted"}

(* The writer command: where it is, the export target, the candidate it    *)
(* built, what is left of the pass it is in, the residuals of this pass,   *)
(* those already handed to the residual sink, the paths whose removal the  *)
(* pass attempted, the snapshots it invalidates, and how it ended.         *)
(* `unread` is a history variable: what the command could not list or read.*)
Commands ==
  [pc : Points, op : {"export", "change"}, pass : {1, 2},
   ent : Entities \cup {NoEntity}, own : SUBSET Sets,
   todo : SUBSET (Entities \X Sets), res : SUBSET Paths,
   told : SUBSET Paths, tried : SUBSET Paths, gone : SUBSET Entities,
   unread : SUBSET Paths, out : Outcomes]

NoCommand == [pc |-> "idle", op |-> "export", pass |-> 1, ent |-> NoEntity,
              own |-> {}, todo |-> {}, res |-> {}, told |-> {}, tried |-> {},
              gone |-> {}, unread |-> {}, out |-> "none"]

Databases == [current : Entities \cup {NoEntity}, spent : SUBSET Entities,
              render : Renders, eligible : BOOLEAN]

TypeOK == /\ dir \in Dirs
          /\ disk \in SUBSET Dirs
          /\ db \in Databases
          /\ w \in Commands

Init == /\ dir = Empty
        /\ disk = {Empty}
        /\ db = [current |-> NoEntity, spent |-> {}, render |-> 1,
                 eligible |-> FALSE]
        /\ w = NoCommand

-----------------------------------------------------------------------------
(* System calls on the managed parent.                                     *)

At(pc) == w.pc = pc

(* The directory becomes d, by way of the states in `between`; with a      *)
(* successful fsync of the parent nothing earlier can come back.           *)
Write(d, between, synced) ==
  /\ dir' = d
  /\ disk' = IF synced THEN {d, Settled(d)}
                       ELSE disk \cup between \cup {d, Settled(d)}

Fsync(synced) == Write(dir, {}, synced)

(* _remove_tree of one set: what it leaves is `left`.                      *)
RemoveTree(slot, e, s, left, synced) ==
  Write(Put(dir, slot, e, s, left),
        IF left = {s} THEN {} ELSE {Put(dir, slot, e, s, {Torn(s)})}, synced)

Residual(failed, path) == IF failed THEN {path} ELSE {}

Finish(out, more) ==
  w' = [w EXCEPT !.pc = "idle", !.todo = {}, !.res = @ \cup more, !.out = out]

-----------------------------------------------------------------------------
(* The preamble: reconcile_managed_outputs. An export runs it a second     *)
(* time and refuses to go on with a residual; for any other command the    *)
(* residuals are only reported.                                            *)

Begin(op) ==
  /\ At("idle")
  /\ w' = [NoCommand EXCEPT !.pc = "list", !.op = op]
  /\ UNCHANGED <<dir, disk, db>>

(* One listing of the parent names the candidates and the rollbacks alike. *)
ListParent ==
  /\ At("list")
  /\ w' = [w EXCEPT !.pc = "reclaim", !.todo = Siblings(dir, "candidate")]
  /\ UNCHANGED <<dir, disk, db>>

(* The parent cannot be made, opened or listed: it is reported itself, and *)
(* the pass neither touches nor names any sibling in it.                   *)
ListingFails ==
  /\ At("list")
  /\ w' = [w EXCEPT !.pc = "recover", !.res = {Parent}, !.unread = @ \cup {Parent}]
  /\ UNCHANGED <<dir, disk, db>>

ReclaimCandidate(e, s) ==
  /\ At("reclaim")
  /\ <<e, s>> \in w.todo
  /\ \E left \in Remains(s) :
       /\ RemoveTree("candidate", e, s, left, FALSE)
       /\ w' = [w EXCEPT !.todo = @ \ {<<e, s>>},
                         !.res = @ \cup Residual(left # {}, <<"candidate", e>>)]
  /\ UNCHANGED db

ReclaimDone ==
  /\ At("reclaim")
  /\ w.todo = {}
  /\ w' = [w EXCEPT !.pc = "recover", !.todo = Siblings(dir, "rollback")]
  /\ UNCHANGED <<dir, disk, db>>

Recovering(e, s) == At("recover") /\ <<e, s>> \in w.todo

(* Mutant: an off-by-one in the test for the only rollback.                *)
RestorableOffByOne(e, s) ==
  FinalAbsent(dir, e) /\ Cardinality(dir["rollback"][e]) > 1 /\ Valid(s)

(* The one valid rollback of an absent final path goes back to it.         *)
Restorable(e, s) ==
  FinalAbsent(dir, e) /\ Cardinality(dir["rollback"][e]) = 1 /\ Valid(s)

RestoreRollback(e, s) ==
  /\ Recovering(e, s)
  /\ Restorable(e, s)
  /\ \E renamed, synced \in BOOLEAN :
       /\ synced => renamed
       /\ Write(IF renamed THEN Moved(dir, "rollback", "final", e, s) ELSE dir,
                {}, synced)
       /\ w' = [w EXCEPT !.todo = @ \ {<<e, s>>},
                         !.res = @ \cup Residual(~renamed, <<"rollback", e>>)
                                   \cup Residual(renamed /\ ~synced, <<"final", e>>)]
  /\ UNCHANGED db

(* Mutant: the rollback goes whatever the final path holds.                *)
DropRollbackAlways(e, s) ==
  /\ Recovering(e, s)
  /\ Valid(s)
  /\ \E left \in Remains(s) :
       /\ RemoveTree("rollback", e, s, left, FALSE)
       /\ w' = [w EXCEPT !.todo = @ \ {<<e, s>>},
                         !.res = @ \cup Residual(left # {}, <<"rollback", e>>)]
  /\ UNCHANGED db

(* A rollback is removed only beside a valid final set.                    *)
DropRollback(e, s) ==
  /\ Recovering(e, s)
  /\ FinalValid(dir, e)
  /\ Valid(s)
  /\ \E left \in Remains(s), synced \in BOOLEAN :
       /\ synced => left = {}
       /\ RemoveTree("rollback", e, s, left, synced)
       /\ w' = [w EXCEPT !.todo = @ \ {<<e, s>>},
                         !.res = @ \cup Residual(left # {}, <<"rollback", e>>)
                                   \cup Residual(left = {} /\ ~synced, Parent)]
  /\ UNCHANGED db

(* What is invalid or ambiguous, or was not read (_inspect_set turns every *)
(* OSError into "no manifest"), is left untouched and reported.            *)
LeaveRollback(e, s) ==
  /\ Recovering(e, s)
  /\ \E final \in BOOLEAN :
       /\ final => ~ FinalAbsent(dir, e)
       /\ final \/ FinalAbsent(dir, e) \/ FinalValid(dir, e)
       /\ w' = [w EXCEPT !.todo = @ \ {<<e, s>>},
                         !.res = @ \cup {<<"rollback", e>>}
                                   \cup Residual(final, <<"final", e>>)]
  /\ UNCHANGED <<dir, disk, db>>

(* The lstat of a final path raises: the error leaves the command, and the *)
(* residuals found so far go with it.                                      *)
RecoverRaises ==
  /\ At("recover")
  /\ w.todo # {}
  /\ w' = [w EXCEPT !.pc = "idle", !.todo = {}, !.res = {}, !.out = "raised"]
  /\ UNCHANGED <<dir, disk, db>>

(* Mutant: an export goes on although the preamble left a residual.        *)
RecoverDoneIgnoring ==
  /\ At("recover")
  /\ w.todo = {}
  /\ w' = [w EXCEPT !.pc = IF w.op = "change" THEN "commit" ELSE "select",
                    !.told = w.res, !.res = {}]
  /\ UNCHANGED <<dir, disk, db>>

RecoverDone ==
  /\ At("recover")
  /\ w.todo = {}
  /\ w' = CASE w.op = "change" ->
                 [w EXCEPT !.pc = "commit", !.told = w.res, !.res = {}]
            [] w.op = "export" /\ w.pass = 1 ->
                 [w EXCEPT !.pc = "list", !.pass = 2, !.told = w.res, !.res = {}]
            [] w.op = "export" /\ w.pass = 2 /\ w.res = {} ->
                 [w EXCEPT !.pc = "select"]
            [] OTHER -> [w EXCEPT !.pc = "idle", !.out = "incomplete"]
  /\ UNCHANGED <<dir, disk, db>>

-----------------------------------------------------------------------------
(* export_assessment: select the current snapshot, apply the allowlist,    *)
(* remove every other set of the view, then publish.                       *)

Select ==
  /\ At("select")
  /\ IF db.current \in Entities /\ db.eligible
       THEN w' = [w EXCEPT !.pc = "sweep", !.ent = db.current,
                           !.todo = {x \in Siblings(dir, "final") :
                                       /\ x[1] # db.current
                                       /\ FinalValid(dir, x[1])}]
       ELSE Finish("refused", {})
  /\ UNCHANGED <<dir, disk, db>>

SweepStale(e, s) ==
  /\ At("sweep")
  /\ <<e, s>> \in w.todo
  /\ \E left \in Remains(s) :
       /\ RemoveTree("final", e, s, left, FALSE)
       /\ w' = [w EXCEPT !.todo = @ \ {<<e, s>>},
                         !.res = @ \cup Residual(left # {}, <<"final", e>>)]
  /\ UNCHANGED db

(* A set that could not be read is passed over, and nothing reports it.    *)
SweepUnread(e, s) ==
  /\ At("sweep")
  /\ <<e, s>> \in w.todo
  /\ w' = [w EXCEPT !.todo = @ \ {<<e, s>>}, !.unread = @ \cup {<<"final", e>>}]
  /\ UNCHANGED <<dir, disk, db>>

(* The listing or an lstat of the sweep raises: what it could not remove   *)
(* so far goes unreported.                                                 *)
SweepRaises ==
  /\ At("sweep")
  /\ w' = [w EXCEPT !.pc = "idle", !.todo = {}, !.res = {}, !.out = "failed"]
  /\ UNCHANGED <<dir, disk, db>>

SweepDone ==
  /\ At("sweep")
  /\ w.todo = {}
  /\ \E synced \in BOOLEAN :
       /\ synced => w.res = {}
       /\ Fsync(synced)
       /\ IF synced THEN w' = [w EXCEPT !.pc = "build"]
                    ELSE Finish("incomplete", Residual(w.res = {}, Parent))
  /\ UNCHANGED db

(* Mutant: the rendering is taken after another lifecycle event.           *)
CandidateLate(i, stage) == [id |-> i, render |-> db.render + 1, stage |-> stage]

(* _build_candidate: a new directory, its members, the manifest last, the  *)
(* inspection, then the flush of the candidate and of the parent.          *)
Candidate(i, stage) == [id |-> i, render |-> db.render, stage |-> stage]

OwnCandidates == dir["candidate"][w.ent] \cap w.own

MakeCandidate(i) ==
  /\ At("build")
  /\ i \notin InUse(dir)
  /\ Write(Put(dir, "candidate", w.ent, Candidate(i, "partial"),
               {Candidate(i, "partial")}), {}, FALSE)
  /\ w' = [w EXCEPT !.pc = "fill", !.own = {Candidate(i, "partial")}]
  /\ UNCHANGED db

FillCandidate(s) ==
  /\ At("fill")
  /\ s \in OwnCandidates
  /\ Write(Put(dir, "candidate", w.ent, s, {[s EXCEPT !.stage = "written"]}),
           {}, FALSE)
  /\ w' = [w EXCEPT !.pc = "flush", !.own = {[s EXCEPT !.stage = "written"]}]
  /\ UNCHANGED db

(* Mutant: the parent is flushed, the members are not.                     *)
FlushParentOnly(s) ==
  /\ At("flush")
  /\ s \in OwnCandidates
  /\ Fsync(TRUE)
  /\ w' = [w EXCEPT !.pc = "place"]
  /\ UNCHANGED db

FlushCandidate(s) ==
  /\ At("flush")
  /\ s \in OwnCandidates
  /\ Write(Put(dir, "candidate", w.ent, s, {[s EXCEPT !.stage = "flushed"]}),
           {}, TRUE)
  /\ w' = [w EXCEPT !.pc = "place", !.own = {[s EXCEPT !.stage = "flushed"]}]
  /\ UNCHANGED db

(* Any step from the mkdir to the lstat of the final path raises: the      *)
(* candidate is cleaned and the error leaves the command.                  *)
BuildFails ==
  /\ w.pc \in {"build", "fill", "flush", "place"}
  /\ w' = [w EXCEPT !.pc = "clean", !.out = "failed"]
  /\ UNCHANGED <<dir, disk, db>>

(* Mutant: a cleanup that fails is not reported.                           *)
CleanSilently ==
  /\ At("clean")
  /\ IF OwnCandidates = {}
       THEN UNCHANGED <<dir, disk>>
       ELSE \E s \in OwnCandidates : \E left \in Remains(s) :
              RemoveTree("candidate", w.ent, s, left, FALSE)
  /\ Finish(w.out, {})
  /\ UNCHANGED db

CleanCandidate ==
  /\ At("clean")
  /\ IF OwnCandidates = {}
       THEN Finish(w.out, {}) /\ UNCHANGED <<dir, disk>>
       ELSE \E s \in OwnCandidates : \E left \in Remains(s) :
              /\ RemoveTree("candidate", w.ent, s, left, FALSE)
              /\ Finish(IF left # {} /\ w.out # "interrupted"
                          THEN "incomplete" ELSE w.out,
                        Residual(left # {}, <<"candidate", w.ent>>))
  /\ UNCHANGED db

-----------------------------------------------------------------------------
(* _publish_set: the candidate against what the final path holds.          *)

(* A final entry that does not inspect, or was not read, stays untouched.  *)
AbortOverResidual ==
  /\ At("place")
  /\ ~ FinalAbsent(dir, w.ent)
  /\ w' = [w EXCEPT !.pc = "clean", !.out = "incomplete",
                    !.res = @ \cup {<<"final", w.ent>>}]
  /\ UNCHANGED <<dir, disk, db>>

SameSet(s, c) == s.render = c.render

(* An identical set is already there: drop the candidate, flush, report it.*)
ReuseFinal(s, c) ==
  /\ At("place")
  /\ FinalValid(dir, w.ent)
  /\ s \in dir["final"][w.ent] /\ c \in OwnCandidates
  /\ SameSet(s, c)
  /\ \E left \in Remains(c), synced \in BOOLEAN :
       /\ synced => left = {}
       /\ RemoveTree("candidate", w.ent, c, left, synced)
       /\ IF synced
            THEN Finish("ok", {})
            ELSE w' = [w EXCEPT !.pc = "clean", !.out = "incomplete",
                         !.res = @ \cup {IF left = {} THEN Parent
                                         ELSE <<"candidate", w.ent>>}]
  /\ UNCHANGED db

(* Mutant: the prior set is not inspected before it goes aside.            *)
MoveAsideUnseen(s, c) ==
  /\ At("place")
  /\ s \in dir["final"][w.ent] /\ c \in OwnCandidates
  /\ Write(Moved(dir, "final", "rollback", w.ent, s), {}, TRUE)
  /\ w' = [w EXCEPT !.pc = "swap"]
  /\ UNCHANGED db

(* The prior set goes aside under the rollback name: another rendering, or *)
(* one whose members were not read. If the rename or its flush fails, one  *)
(* restoration is attempted.                                               *)
MoveAside(s, c) ==
  /\ At("place")
  /\ FinalValid(dir, w.ent)
  /\ s \in dir["final"][w.ent] /\ c \in OwnCandidates
  /\ LET aside == Moved(dir, "final", "rollback", w.ent, s)
         Fail(out, res) ==
           w' = [w EXCEPT !.pc = "clean", !.out = out, !.res = @ \cup res]
     IN  \/ Write(aside, {}, TRUE) /\ w' = [w EXCEPT !.pc = "swap"]
         \/ Write(dir, {}, FALSE) /\ Fail("failed", {})
         \/ \E synced \in BOOLEAN :
              /\ Write(dir, {aside}, synced)
              /\ Fail(IF synced THEN "failed" ELSE "incomplete", {})
         \/ Write(aside, {}, FALSE) /\ Fail("incomplete", {<<"rollback", w.ent>>})
  /\ UNCHANGED db

NothingThere ==
  /\ At("place")
  /\ FinalAbsent(dir, w.ent)
  /\ w' = [w EXCEPT !.pc = "swap"]
  /\ UNCHANGED <<dir, disk, db>>

(* The visibility commit point.                                            *)
SwapIn(c) ==
  /\ At("swap")
  /\ c \in OwnCandidates
  /\ FinalAbsent(dir, w.ent)
  /\ Write(Moved(dir, "candidate", "final", w.ent, c), {}, FALSE)
  /\ w' = [w EXCEPT !.pc = "settle"]
  /\ UNCHANGED db

(* It fails: the prior set, if one went aside, gets its one restoration.   *)
SwapFails ==
  /\ At("swap")
  /\ \/ /\ dir["rollback"][w.ent] = {}
        /\ UNCHANGED <<dir, disk>>
        /\ w' = [w EXCEPT !.pc = "clean", !.out = "failed"]
     \/ \E s \in dir["rollback"][w.ent], restored, synced \in BOOLEAN :
          /\ synced => restored
          /\ Write(IF restored THEN Moved(dir, "rollback", "final", w.ent, s)
                               ELSE dir, {}, synced)
          /\ w' = [w EXCEPT !.pc = "clean",
                     !.out = IF synced THEN "failed" ELSE "incomplete",
                     !.res = @ \cup Residual(~synced, <<"rollback", w.ent>>)]
  /\ UNCHANGED db

(* From here on the new set is visible and nothing takes it back.          *)
SettlePublished ==
  /\ At("settle")
  /\ \E synced \in BOOLEAN :
       /\ Fsync(synced)
       /\ IF synced
            THEN w' = [w EXCEPT !.pc = "discard"]
            ELSE Finish("incomplete",
                   {IF dir["rollback"][w.ent] = {} THEN <<"final", w.ent>>
                                                   ELSE <<"rollback", w.ent>>})
  /\ UNCHANGED db

DiscardRollback ==
  /\ At("discard")
  /\ \/ /\ dir["rollback"][w.ent] = {}
        /\ \E synced \in BOOLEAN :
             /\ Fsync(synced)
             /\ IF synced THEN w' = [w EXCEPT !.pc = "confirm"]
                          ELSE Finish("incomplete", {<<"final", w.ent>>})
     \/ \E s \in dir["rollback"][w.ent] :
        \E left \in Remains(s), synced \in BOOLEAN :
          /\ synced => left = {}
          /\ RemoveTree("rollback", w.ent, s, left, synced)
          /\ IF synced THEN w' = [w EXCEPT !.pc = "confirm"]
             ELSE Finish("incomplete",
                    {<<IF left = {} THEN "final" ELSE "rollback", w.ent>>})
  /\ UNCHANGED db

(* The published set is inspected once more against the loaded graph.      *)
Confirm ==
  /\ At("confirm")
  /\ IF FinalValid(dir, w.ent)
        /\ \A s \in dir["final"][w.ent] : s.render = db.render
       THEN \E read \in BOOLEAN :
              IF read THEN Finish("ok", {})
                      ELSE Finish("incomplete", {<<"final", w.ent>>})
       ELSE Finish("incomplete", {<<"final", w.ent>>})
  /\ UNCHANGED <<dir, disk, db>>

-----------------------------------------------------------------------------
(* Commands that change the database: Stage 7 and gap answers move the     *)
(* rendering of the current snapshot, corrections and stage re-runs retire *)
(* it; both then remove its set, after the commit.                         *)

Withdrawing(e) ==
  w' = [w EXCEPT !.pc = "remove", !.gone = {e} \ {NoEntity},
                 !.todo = {x \in Siblings(dir, "final") : x[1] = e}]

Amend ==
  /\ At("commit")
  /\ db.current \in Entities
  /\ db.render < MaxRender
  /\ \E eligible \in BOOLEAN :
       db' = [db EXCEPT !.render = @ + 1, !.eligible = eligible]
  /\ Withdrawing(db.current)
  /\ UNCHANGED <<dir, disk>>

Supersede(next) ==
  /\ At("commit")
  /\ next # db.current
  /\ \E eligible \in BOOLEAN :
       db' = [current |-> next, spent |-> db.spent \cup ({db.current} \ {NoEntity}),
              render |-> 1, eligible |-> eligible]
  /\ Withdrawing(db.current)
  /\ UNCHANGED <<dir, disk>>

RollBack ==
  /\ At("commit")
  /\ Finish("failed", {})
  /\ UNCHANGED <<dir, disk, db>>

(* _remove_managed_sets: only a removal that was flushed counts as one.    *)
RemoveSet(e, s) ==
  /\ At("remove")
  /\ <<e, s>> \in w.todo
  /\ \E left \in Remains(s) :
       /\ RemoveTree("final", e, s, left, FALSE)
       /\ w' = [w EXCEPT !.todo = @ \ {<<e, s>>},
                         !.tried = @ \cup {<<"final", e>>},
                         !.res = @ \cup Residual(left # {}, <<"final", e>>)]
  /\ UNCHANGED db

Unlinked == w.tried \ w.res

(* Mutant: an unlink counts as a removal before it is flushed.             *)
RemoveDoneUnflushed ==
  /\ At("remove")
  /\ w.todo = {}
  /\ Finish(IF w.res \cup w.told = {} THEN "ok" ELSE "incomplete", {})
  /\ UNCHANGED <<dir, disk, db>>

RemoveDone ==
  /\ At("remove")
  /\ w.todo = {}
  /\ \E synced \in BOOLEAN :
       /\ synced => Unlinked # {}
       /\ Fsync(synced)
       /\ LET lost == IF Unlinked # {} /\ ~synced THEN Unlinked \cup {Parent} ELSE {}
          IN  Finish(IF w.res \cup lost \cup w.told = {} THEN "ok" ELSE "incomplete",
                     lost)
  /\ UNCHANGED db

-----------------------------------------------------------------------------
(* What ends a command from outside.                                       *)

(* KeyboardInterrupt at a step boundary: before the visibility commit      *)
(* point the candidate is still cleaned; afterwards it just leaves. Sets   *)
(* an interrupted removal had not flushed stay reported.                   *)
Interrupt ==
  /\ w.pc \notin {"idle", "clean"}
  /\ IF w.pc \in {"build", "fill", "flush", "place", "swap"}
       THEN w' = [w EXCEPT !.pc = "clean", !.out = "interrupted"]
       ELSE Finish("interrupted",
                   IF At("remove") THEN {<<"final", e>> : e \in w.gone} ELSE {})
  /\ UNCHANGED <<dir, disk, db>>

(* The process dies; what it did to the directory stays.                   *)
Kill == /\ ~ At("idle")
        /\ w' = NoCommand
        /\ UNCHANGED <<dir, disk, db>>

(* The machine dies; committed database rows stay, the directory is any of *)
(* those that were on the disk since the last flush.                       *)
PowerLoss == /\ dir' \in disk
             /\ disk' = {dir'}
             /\ w' = NoCommand
             /\ UNCHANGED db

-----------------------------------------------------------------------------

Preamble ==
  \/ ListParent
  \/ ListingFails
  \/ \E e \in Entities : \E s \in dir["candidate"][e] : ReclaimCandidate(e, s)
  \/ ReclaimDone
  \/ \E e \in Entities : \E s \in dir["rollback"][e] :
       \/ RestoreRollback(e, s)
       \/ DropRollback(e, s)
       \/ LeaveRollback(e, s)
  \/ RecoverRaises
  \/ RecoverDone

Export ==
  \/ Select
  \/ \E e \in Entities : \E s \in dir["final"][e] :
       SweepStale(e, s) \/ SweepUnread(e, s)
  \/ SweepRaises
  \/ SweepDone
  \/ \E i \in Inodes : MakeCandidate(i)
  \/ \E e \in Entities : \E s \in dir["candidate"][e] :
       FillCandidate(s) \/ FlushCandidate(s) \/ SwapIn(s)
  \/ BuildFails
  \/ CleanCandidate
  \/ AbortOverResidual
  \/ \E e \in Entities : \E s \in dir["final"][e] : \E c \in dir["candidate"][e] :
       ReuseFinal(s, c) \/ MoveAside(s, c)
  \/ NothingThere
  \/ SwapFails
  \/ SettlePublished
  \/ DiscardRollback
  \/ Confirm

Change ==
  \/ Amend
  \/ \E next \in (Entities \ db.spent) \cup {NoEntity} : Supersede(next)
  \/ RollBack
  \/ \E e \in Entities : \E s \in dir["final"][e] : RemoveSet(e, s)
  \/ RemoveDone

CommandStep == Preamble \/ Export \/ Change

Next == \/ \E op \in {"export", "change"} : Begin(op)
        \/ CommandStep
        \/ Interrupt
        \/ Kill
        \/ PowerLoss

Spec == Init /\ [][Next]_vars

-----------------------------------------------------------------------------
(* The lifetime of a workspace is longer than that of a build. A build     *)
(* with a new manifest_version inspects no set of an earlier one; such a   *)
(* set is left where it is, until the owner removes what was reported.     *)

NoneInspects(d) ==
  [slot \in Slots |-> [e \in Entities |-> {Torn(s) : s \in d[slot][e]}]]

Upgrade == /\ At("idle")
           /\ dir' = NoneInspects(dir)
           /\ disk' = {NoneInspects(d) : d \in disk}
           /\ UNCHANGED <<db, w>>

OwnerRemoves(slot, e, s) == /\ At("idle")
                            /\ <<slot, e>> \in w.res \cup w.told
                            /\ RemoveTree(slot, e, s, {}, FALSE)
                            /\ UNCHANGED <<db, w>>

SomeRemoval == \E slot \in Slots, e \in Entities :
                 \E s \in dir[slot][e] : OwnerRemoves(slot, e, s)

LifetimeNext == Next \/ Upgrade \/ SomeRemoval

-----------------------------------------------------------------------------
(* Fairness. A command that runs takes its next step. The owner keeps starting       *)
(* commands, and a listing, or a restoration (its reads and its rename),   *)
(* that is retried forever succeeds some time: all are assumptions about   *)
(* the environment, needed only for recovery.                              *)
Restored(e) == \E s \in dir["rollback"][e] :
                 RestoreRollback(e, s) /\ dir'["final"][e] # {}

Disturbance == Interrupt \/ Kill \/ PowerLoss \/ Upgrade \/ SomeRemoval

LifetimeSpec == /\ Init /\ [][LifetimeNext]_vars
                /\ WF_vars(CommandStep)
                /\ \A op \in {"export", "change"} : WF_vars(Begin(op))
                /\ SF_vars(ListParent)
                /\ \A e \in Entities : SF_vars(Restored(e))

-----------------------------------------------------------------------------
(* Properties.                                                             *)

Store == INSTANCE ManagedStore WITH
           current <- db.current, spent <- db.spent, render <- db.render,
           store <- Recovered(dir), stable <- {Recovered(d) : d \in disk}

(* Through every failure, interrupt, kill and power loss the directory     *)
(* implements the atomic store: the set of the rendering the database      *)
(* holds is never lost, only an outdated one is ever withdrawn, and the    *)
(* current snapshot's set only becomes the rendering the database held     *)
(* when it was published (_publish_set, reconcile_managed_outputs, and the *)
(* removals behind Stage 7, gap answers and corrections).                  *)
ImplementsStore == Store!Spec

(* The database no longer holds this set of this snapshot: the snapshot is *)
(* retired, or its rendering has moved on.                                 *)
Outdated(e, s) == e \in db.spent \/ s.render < db.render

(* The database has reached the rendering of this set of this snapshot.    *)
Known(e, s) == e \in db.spent \/ (e = db.current /\ s.render <= db.render)

(* The strengthening of CurrentNeverTorn that every step preserves.        *)
Building == {"build", "fill", "flush", "place", "swap"}

(* A directory: a set at a final or rollback name is either flushed or has *)
(* lost members, the latter at a final name only where it is outdated; and *)
(* every set is of a snapshot that is current or was, none of a rendering  *)
(* the database has not reached.                                           *)
Sound(d) ==
  /\ \A e \in Entities : \A s \in d["final"][e] \cup d["rollback"][e] :
       s.stage # "written"
  /\ \A e \in Entities : \A s \in d["final"][e] :
       s.stage = "flushed" \/ Outdated(e, s)
  /\ \A slot \in Slots, e \in Entities : \A s \in d[slot][e] : Known(e, s)

(* The command: what it is about to remove is outdated, what it is about   *)
(* to place is flushed, and once past the preamble no rollback is there    *)
(* but the one it set aside itself.                                        *)
CommandSound ==
  /\ At("sweep") => \A x \in w.todo : x[1] \in db.spent
  /\ At("remove") =>
       /\ \A x \in w.todo : x[1] \in w.gone
       /\ \A e \in w.gone : \A s \in dir["final"][e] \cup dir["rollback"][e] :
            Outdated(e, s)
  /\ w.pc \in Building \cup {"sweep", "settle", "discard", "confirm", "clean"} =>
       w.ent \in Entities \cap {db.current}
  /\ w.pc \in {"place", "swap"} => \A s \in w.own : s.stage = "flushed"
  /\ At("recover") =>
       \/ Parent \in w.res \cap w.unread
       \/ \A e \in Entities : \A s \in dir["rollback"][e] :
            <<e, s>> \in w.todo \/ <<"rollback", e>> \in w.res
  /\ w.pc \in (Building \ {"swap"}) \cup {"select", "sweep"} =>
       \A e \in Entities : dir["rollback"][e] = {}
  /\ At("swap") =>
       \A e \in Entities : \A s \in dir["rollback"][e] : s.stage = "flushed"

IInv == /\ TypeOK
        /\ Sound(dir)
        /\ \A d \in disk : Sound(d)
        /\ CommandSound

(* Nothing a power failure may leave holds two sets under one name, two    *)
(* candidates or two rollbacks: the ambiguity reconcile_managed_outputs    *)
(* guards against never comes from its own commands.                       *)
OneSiblingIn(d) ==
  /\ \A e \in Entities : Cardinality(d["final"][e]) <= 1
  /\ \A slot \in {"candidate", "rollback"} : Cardinality(Siblings(d, slot)) <= 1

OneSibling == \A d \in disk : OneSiblingIn(d)

(* No power failure, failed removal or failed rename leaves an incomplete  *)
(* set of the rendering the database holds at its final path. A damaged    *)
(* final entry blocks every later export; it is only ever one whose        *)
(* snapshot was retired or whose rendering was moved on by a command that  *)
(* was due to remove it (stage7.py, capture.py).                           *)
CurrentNeverTorn ==
  \A d \in disk : \A e \in Entities \ db.spent :
    \A s \in d["final"][e] : Valid(s) \/ s.render < db.render

(* What a command reports as done, no power failure takes back. After an   *)
(* export the final path holds what was loaded, and no other complete set  *)
(* claims to be the view, but for one the sweep could not read             *)
(* (_publish_set, _remove_stale_same_view); after an invalidation that     *)
(* reports nothing residual no trace of the snapshot is left under its     *)
(* final and rollback names, and what it removed itself never returns      *)
(* (_remove_managed_sets).                                                 *)
DoneIsDurable ==
  At("idle") /\ w.out = "ok" =>
    /\ w.op = "export" =>
         \A d \in disk :
           /\ FinalValid(d, db.current)
           /\ \A s \in d["final"][db.current] : s.render = db.render
           /\ \A e \in Entities \ {db.current} :
                FinalValid(d, e) => <<"final", e>> \in w.unread
    /\ w.op = "change" =>
         \A e \in w.gone : \A d \in IF w.tried = {} THEN {dir} ELSE disk :
           d["final"][e] = {} /\ d["rollback"][e] = {}

(* spec/13 section 13.14 rule 9: an effect counts as invalidated only where*)
(* it is durable. An invalidation that finds the final path empty flushes  *)
(* nothing, so an earlier removal it relies on may still be undone.        *)
InvalidationIsDurable ==
  At("idle") /\ w.out = "ok" /\ w.op = "change" =>
    \A e \in w.gone : \A d \in disk : d["final"][e] = {}

(* A command that ends on its own names every candidate and rollback it    *)
(* leaves behind; where it could not list the parent, it names the parent. *)
LeftoversReported ==
  At("idle") /\ w.out \in {"ok", "failed", "incomplete", "refused"} =>
    \/ \A slot \in {"candidate", "rollback"} : \A x \in Siblings(dir, slot) :
         <<slot, x[1]>> \in w.res \cup w.told
    \/ Parent \in w.unread \cap (w.res \cup w.told)

(* An invalidation attempts the removal of the in-scope siblings too       *)
(* (spec/13 section 13.14 rule 5): no rollback of a retired snapshot is    *)
(* left that its removal pass never tried.                                 *)
InvalidationAttemptsSiblings ==
  At("idle") /\ w.op = "change" /\ w.out \in {"ok", "incomplete"} =>
    \A e \in w.gone : dir["rollback"][e] # {} => <<"rollback", e>> \in w.tried

(* An export never removes, moves or overwrites a final entry that does    *)
(* not inspect: it may be a set only an earlier build can read.            *)
ExportSparesUnreadable ==
  [][w.op = "export" /\ ~ At("idle") /\ ~ PowerLoss =>
       \A e \in Entities :
         FinalAbsent(dir, e) \/ FinalValid(dir, e)
           \/ dir'["final"][e] = dir["final"][e]]_vars

(* Once the disturbances stop, a set that a crash or a failed restoration  *)
(* left under its rollback name does not stay there: over and over, no     *)
(* current snapshot's final path is empty beside a set that could fill it. *)
Stranded(e) == /\ FinalAbsent(dir, e)
               /\ Recoverable(dir, e) # {}
               /\ e \notin db.spent

RollbackComesBack ==
  <>[][~ Disturbance]_vars => \A e \in Entities : []<>(~ Stranded(e))

=============================================================================
