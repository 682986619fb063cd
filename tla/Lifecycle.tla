------------------------------- MODULE Lifecycle -------------------------------
(***************************************************************************)
(* The stages that derive rows from the raw logs, and what each of them    *)
(* supersedes.                                                             *)
(*                                                                         *)
(* Every operation holds the workspace's writer lock from its first read   *)
(* to its commit, so each is one step here; how a stage runs its calls and *)
(* commits or fails is StageRun's subject, and how a published set is      *)
(* replaced on disk is Publication's. What no lock serialises is the clock *)
(* an answer reads before it asks for the lock.                            *)
(*                                                                         *)
(*   capture -> extract facts -> detect gaps and contradictions            *)
(*           -> generate a snapshot -> verify -> repair                    *)
(*           -> write bullets -> verify bullets        (export along it)   *)
(*                                                                         *)
(* Identifiers are recycled: an action may take any identifier no row,     *)
(* reference, published set or pending answer holds (the code draws UUIDs).*)
(***************************************************************************)
EXTENDS RowGuards, Functions, FiniteSetsExt

CONSTANTS
  Slots,       \* claims a writer may return, the narrative among them
  Captures,    \* what a captured log may carry: sets of strengths
  RefTypes,    \* the types gap targets and counterevidence take
  ClashTypes,  \* the types contradiction references take
  Findings,    \* verifier verdicts: [status, contrary, rewrite]
  MaxCited     \* facts a claim or a bullet cites

ASSUME CapturesAssumption == Captures \subseteq SUBSET Strengths
ASSUME FindingsAssumption ==
  Findings \subseteq [status : Statuses \ {"unverified"}, contrary : BOOLEAN, rewrite : BOOLEAN]

VARIABLES
  db,          \* the committed rows
  out,         \* [assess, branch]: what each published, unreported set shows
  reading      \* an answer that has read its clock: [gap, at], or None

vars == <<db, out, reading>>

Empty ==
  [logs |-> <<>>, facts |-> <<>>, gaps |-> <<>>, clashes |-> <<>>,
   snaps |-> <<>>, branches |-> <<>>, jds |-> {}, detected |-> None]

Init ==
  /\ db = Empty
  /\ out = [assess |-> <<>>, branch |-> <<>>]
  /\ reading = None

-------------------------------------------------------------------------------
(* Rows and identifiers.                                                   *)

Without(rows, gone) == Restrict(rows, DOMAIN rows \ gone)

Row(id, row) == [i \in {id} |-> row]

Join(rows, more) ==
  [i \in DOMAIN rows \cup DOMAIN more |-> IF i \in DOMAIN rows THEN rows[i] ELSE more[i]]

(* Ways to give each of `values` a row under a fresh identifier. *)
Rows(pool, held, values) ==
  UNION {{rows \in [ids -> values] : Range(rows) = values} :
           ids \in {i \in SUBSET (pool \ held) : Cardinality(i) = Cardinality(values)}}

(* Sets of at most n members of S. *)
AtMost(n, S) == {{}} \cup {Range(f) : f \in [1..n -> S]}

RefIds(refs, type) == {ref[2] : ref \in {r \in refs : r[1] = type}}

References(d) ==
  {d.gaps[g].target : g \in DOMAIN d.gaps}
    \cup UNION Range(d.clashes)
    \cup UNION {UNION {d.snaps[s].claims[c].contrary : c \in DOMAIN d.snaps[s].claims}
                  : s \in DOMAIN d.snaps}

HeldFacts(d) ==
  DOMAIN d.facts \cup RefIds(References(d), "experience_fact")
    \cup UNION {ClaimFacts(d.snaps[s]) : s \in DOMAIN d.snaps}
    \cup UNION {BulletFacts(d.branches[b]) : b \in DOMAIN d.branches}

HeldGaps(d) ==
  DOMAIN d.gaps \cup UNION {d.snaps[s].gaps : s \in DOMAIN d.snaps}
    \cup (IF reading = None THEN {} ELSE {reading.gap})

HeldClashes(d) ==
  DOMAIN d.clashes \cup UNION {d.snaps[s].clashes : s \in DOMAIN d.snaps}

HeldSnapshots(d) ==
  DOMAIN d.snaps \cup {d.branches[b].anchor : b \in DOMAIN d.branches}
    \cup DOMAIN out.assess

HeldBranches(d) == DOMAIN d.branches \cup DOMAIN out.branch


-------------------------------------------------------------------------------
(* What a swap supersedes.                                                 *)

NoDependents(d, snaps) == {}  \* (fault: the branches of a replaced anchor stay)

Dependents(d, snaps) == {b \in DOMAIN d.branches : d.branches[b].anchor \in snaps}

WithoutAssessment(d) ==  \* (fault: detection rows outlive the facts they are about)
  [d EXCEPT !.snaps = <<>>, !.branches = <<>>]

(* Every gap, contradiction, snapshot, claim and branch at once. *)
WithoutAnalysis(d) ==
  [d EXCEPT !.gaps = <<>>, !.clashes = <<>>, !.snaps = <<>>, !.branches = <<>>]

(* The recorded detection input counts while it can still be met again, and *)
(* is `live` while the sets that call left are the current ones.            *)
Settled(d, was) ==
  LET call == d.detected
      kept == d.gaps = was.gaps /\ d.clashes = was.clashes
  IN IF call = None \/ call.logs # Effective(d) \/ ~(call.facts \subseteq DOMAIN d.facts)
       THEN [d EXCEPT !.detected = None]
       ELSE [d EXCEPT !.detected.live = @ /\ kept]

(* The sets of these snapshots and branches are removed or reported. *)
Cleanup(snaps, branches) ==
  out' = [assess |-> Without(out.assess, snaps), branch |-> Without(out.branch, branches)]

(* Writing a snapshot leaves every answer recorded so far before it. *)
Past(d) == [d EXCEPT !.logs = [l \in DOMAIN @ |-> [@[l] EXCEPT !.at = "before"]]]

-------------------------------------------------------------------------------
(* Sources.                                                                *)

(* The records a fact of this lineage may have taken evidence from. *)
Lineage(d, root) == {l \in DOMAIN d.logs : Root(d, l) = root}

FactsOf(d, members) == {f \in DOMAIN d.facts : \E i \in d.facts[f] : i[1] \in members}

Record(d, l, corrects, items, at) ==
  [d EXCEPT !.logs = Join(@, Row(l, [corrects |-> corrects, items |-> items, at |-> at]))]

(* A manual entry or an imported observation. *)
Capture(l, items) ==
  /\ l \notin DOMAIN db.logs
  /\ db' = Settled(Record(db, l, None, items, "before"), db)
  /\ UNCHANGED <<out, reading>>

(* The correction of an effective record: the facts of its whole lineage go, *)
(* and with them everything written from any fact.                          *)
Correct(l, target, items) ==
  LET gone == FactsOf(db, Lineage(db, Root(db, target)))
      kept == [WithoutAnalysis(db) EXCEPT !.facts = Without(@, gone)]
  IN /\ l \notin DOMAIN db.logs
     /\ target \in Effective(db)
     /\ db' = Settled(Record(kept, l, target, items, "before"), db)
     /\ Cleanup(DOMAIN db.snaps, DOMAIN db.branches)
     /\ UNCHANGED reading

Answerable(g) == g \in DOMAIN db.gaps /\ db.gaps[g].answer = None

(* The answer's instant is read before the writer lock is asked for. *)
ReadClock(g) ==
  /\ reading = None
  /\ Answerable(g)
  /\ reading' = [gap |-> g, at |-> IF db.snaps = <<>> THEN "before" ELSE "after"]
  /\ UNCHANGED <<db, out>>

(* Under the lock the gap is selected again, the answer is recorded with    *)
(* that instant, and the published assessments go.                          *)
Answer(l) ==
  /\ reading # None
  /\ Answerable(reading.gap)
  /\ l \notin DOMAIN db.logs
  /\ db' = Settled([Record(db, l, None, {Manual}, reading.at)
                     EXCEPT !.gaps[reading.gap].answer = l], db)
  /\ Cleanup(DOMAIN db.snaps, {})
  /\ reading' = None

(* The gap went or was answered meanwhile, or the command gave up. *)
GiveUp ==
  /\ reading # None
  /\ reading' = None
  /\ UNCHANGED <<db, out>>

Dangling(log, l) == log  \* (fault: no ON DELETE SET NULL)

Unlinked(log, l) == [log EXCEPT !.corrects = IF @ = l THEN None ELSE @]

(* Deleting a record deletes every derived row first, forgets every recorded *)
(* hash, and leaves a correction of it correcting nothing.                   *)
DeleteLog(l) ==
  /\ l \in DOMAIN db.logs
  /\ db' = [WithoutAnalysis(db) EXCEPT
              !.facts = <<>>, !.detected = None,
              !.logs = [k \in DOMAIN db.logs \ {l} |-> Unlinked(db.logs[k], l)]]
  /\ out' = [assess |-> <<>>, branch |-> <<>>]
  /\ UNCHANGED reading

(* Purge leaves an empty workspace. *)
Purge ==
  /\ db # Empty
  /\ db' = Empty
  /\ out' = [assess |-> <<>>, branch |-> <<>>]
  /\ UNCHANGED reading

-------------------------------------------------------------------------------
(* Stage 3: the facts of the selected lineages are replaced.               *)

Selections(d, roots) ==
  {s \in SUBSET UNION {Selectable(d, r) : r \in roots} : s # {} /\ SourcesValid(d, s)}

Extract(roots, selected) ==
  LET gone == FactsOf(db, UNION {Lineage(db, r) : r \in roots})
      idle == gone = {} /\ selected = {}
      base == IF idle THEN db ELSE WithoutAnalysis(db)
  IN \E new \in Rows(Facts, HeldFacts(db), selected) :
       /\ db' = Settled([base EXCEPT !.facts = Join(Without(@, gone), new)], db)
       /\ IF idle THEN UNCHANGED out ELSE Cleanup(DOMAIN db.snaps, DOMAIN db.branches)
       /\ UNCHANGED reading

(* One lineage, or every lineage of the workspace. *)
ExtractSome ==
  \E roots \in {{r} : r \in Roots(db)} \cup {Roots(db)} :
    /\ roots # {}
    /\ \E selected \in SUBSET Selections(db, roots) : Extract(roots, selected)

-------------------------------------------------------------------------------
(* Stage 4: gaps and contradictions.                                       *)

Targets(d, types) ==
  {r \in {FactRef(f) : f \in DOMAIN d.facts} \cup {LogRef(l) : l \in DOMAIN d.logs}
           \cup {ItemRef(i) : i \in Items(d)} :
     r[1] \in types /\ ReferenceValid(d, r)}

EveryGap(d) == DOMAIN d.gaps  \* (fault: an answered gap counts as open)

Open(d) == {g \in DOMAIN d.gaps : d.gaps[g].answer = None}

(* The last recorded call had this input and every gap is still open. *)
ShortCircuit ==
  /\ db.facts # <<>> \/ Effective(db) # {}
  /\ Open(db) = DOMAIN db.gaps
  /\ db.detected # None
  /\ db.detected.facts = DOMAIN db.facts
  /\ db.detected.logs = Effective(db)

(* A short-circuited run retains both sets and records no call. *)
Retain == ShortCircuit /\ UNCHANGED vars

GapKeys(d) == {d.gaps[g].target : g \in DOMAIN d.gaps}

(* A call's candidate: each set is retained when it names what the current  *)
(* one names, and replacing either retires every snapshot and branch.       *)
Detect(targets, pairs) ==
  LET keepGaps == targets = GapKeys(db) /\ Open(db) = DOMAIN db.gaps
      keepClashes == pairs = Range(db.clashes)
      asked == {[target |-> t, answer |-> None] : t \in targets}
      call == [facts |-> DOMAIN db.facts, logs |-> Effective(db), live |-> TRUE]
  IN /\ db.facts # <<>> \/ Effective(db) # {}
     /\ \E gaps \in IF keepGaps THEN {db.gaps} ELSE Rows(Gaps, HeldGaps(db), asked),
            clashes \in IF keepClashes THEN {db.clashes}
                          ELSE Rows(Clashes, HeldClashes(db), pairs) :
          IF keepGaps /\ keepClashes
            THEN db' = [db EXCEPT !.detected = call] /\ UNCHANGED out
            ELSE /\ db' = [WithoutAnalysis(db) EXCEPT
                             !.gaps = gaps, !.clashes = clashes, !.detected = call]
                 /\ Cleanup(DOMAIN db.snaps, DOMAIN db.branches)
     /\ UNCHANGED reading

DetectSome ==
  \E targets \in AtMost(Cardinality(Gaps), Targets(db, RefTypes)) :
    \E pairs \in AtMost(Cardinality(Clashes), kSubset(2, Targets(db, ClashTypes))) :
      Detect(targets, pairs)

-------------------------------------------------------------------------------
(* Stages 6 and 7: the assessment.                                         *)

Claim(facts, status, contrary, text, rewrite) ==
  [facts |-> facts, status |-> status, contrary |-> contrary,
   text |-> text, rewrite |-> rewrite]

(* A new snapshot lists the gaps still open and every contradiction. It      *)
(* retires the one it replaces with the branches anchored to that.           *)
Written(d, s, claims, was) ==
  LET snap == [gaps |-> Open(d), clashes |-> DOMAIN d.clashes, claims |-> claims,
               status |-> "unverified", summary |-> claims[Narrative].text]
  IN Past([d EXCEPT !.snaps = Join(Without(@, was), Row(s, snap)),
                    !.branches = Without(@, Dependents(d, was))])

(* What both stage 6 modes do once their claims are ready. *)
ReplaceView(claims, was) ==
  \E s \in Snapshots \ HeldSnapshots(db) :
    /\ db' = Written(db, s, claims, was)
    /\ Cleanup(was, Dependents(db, was))
    /\ reading' = IF reading = None THEN None ELSE [reading EXCEPT !.at = "before"]

Citable == AtMost(MaxCited, DOMAIN db.facts) \ {{}}

(* One writer call over every current fact. *)
Generate(cited) ==
  /\ db.facts # <<>>
  /\ Cardinality(DOMAIN db.snaps) <= 1
  /\ Narrative \in DOMAIN cited
  /\ ReplaceView([c \in DOMAIN cited |-> Claim(cited[c], "unverified", {}, "first", FALSE)],
                 DOMAIN db.snaps)

GenerateSome ==
  \E slots \in SUBSET Slots :
    \E cited \in [slots -> Citable] : Generate(cited)

Failing(claims) == {c \in DOMAIN claims : claims[c].status \in Repairable}

(* Repair runs on a wholly verified snapshot whose every failing claim was   *)
(* offered a rewrite by its last finding.                                    *)
RepairReady(snap) ==
  /\ SnapshotFaults(snap) = {}
  /\ "unverified" \notin ClaimStatuses(snap)
  /\ Failing(snap.claims) # {}
  /\ \A c \in Failing(snap.claims) : snap.claims[c].rewrite

(* The failing claims adopt their rewrites; every member is written anew,    *)
(* unverified and without findings.                                          *)
Repaired(claims) ==
  [c \in DOMAIN claims |->
     Claim(claims[c].facts, "unverified", {},
           IF c \in Failing(claims) THEN "rewritten" ELSE claims[c].text, FALSE)]

Repair(s) ==
  /\ RepairReady(db.snaps[s])
  /\ ReplaceView(Repaired(db.snaps[s].claims), {s})

(* One verifier call per claim; its grounds come from the claim's bundle. *)
Verdicts(d, claim) ==
  {[status |-> v.status, rewrite |-> v.rewrite, contrary |-> refs] :
     v \in {x \in Findings : ~x.contrary}, refs \in {{}}}
    \cup {[status |-> v.status, rewrite |-> v.rewrite, contrary |-> refs] :
            v \in {x \in Findings : x.contrary},
            refs \in {{r} : r \in {b \in VerifierBundle(d, claim) :
                                 b[1] \in RefTypes /\ VerifierReferenceValid(d, b)}}}

ChangedStatus(was, now) ==  \* (fault: new counterevidence under the same verdict)
  \E c \in DOMAIN now : now[c].status # was[c].status

Changed(was, now) ==
  \E c \in DOMAIN now : now[c].status # was[c].status \/ now[c].contrary # was[c].contrary

(* The claims with their verdicts, and the findings recorded beside them. *)
Judged(claims, verdict) ==
  [c \in DOMAIN claims |->
     Claim(claims[c].facts, verdict[c].status, verdict[c].contrary,
           claims[c].text, verdict[c].rewrite)]

(* Only a changed verifier state retires the branches written against it and *)
(* the published sets that show it.                                          *)
Verify(s, verdict) ==
  LET snap == db.snaps[s]
      claims == Judged(snap.claims, verdict)
      status == Aggregate({verdict[c].status : c \in DOMAIN claims})
      changed == status # snap.status \/ Changed(snap.claims, claims)
      stale == IF changed THEN Dependents(db, {s}) ELSE {}
  IN /\ VerifyFaults(db, snap) = {}
     /\ db' = [db EXCEPT !.snaps[s].claims = claims, !.snaps[s].status = status,
                         !.branches = Without(@, stale)]
     /\ Cleanup(IF changed THEN {s} ELSE {}, stale)
     /\ UNCHANGED reading

VerifySome ==
  \E s \in DOMAIN db.snaps :
    \E verdict \in [DOMAIN db.snaps[s].claims ->
                     UNION {Verdicts(db, db.snaps[s].claims[c]) :
                              c \in DOMAIN db.snaps[s].claims}] :
      /\ \A c \in DOMAIN verdict : verdict[c] \in Verdicts(db, db.snaps[s].claims[c])
      /\ Verify(s, verdict)

-------------------------------------------------------------------------------
(* Stages 8, 10 and 11: job descriptions and bullet packs.                 *)

AddVacancy(v) ==
  /\ v \notin db.jds
  /\ db' = [db EXCEPT !.jds = @ \cup {v}]
  /\ UNCHANGED <<out, reading>>

(* The branches written for a job description go with it. *)
DeleteVacancy(v) ==
  LET gone == {b \in DOMAIN db.branches : db.branches[b].jd = v} IN
  /\ v \in db.jds
  /\ db' = [db EXCEPT !.jds = @ \ {v}, !.branches = Without(@, gone), !.detected = None]
  /\ Cleanup({}, gone)
  /\ UNCHANGED reading

SupportedClaims(snap) ==
  {c \in DOMAIN snap.claims : snap.claims[c].status = "supported"}

(* What stage 10 re-reads of the snapshot before it calls the writer. *)
AnchorFaults(d, snap) ==
  ListedFaults(d, snap)
    \cup Raise("snapshot_aggregate_mismatch", snap.status = Aggregate(ClaimStatuses(snap)))
    \cup Raise("claim_fact_superseded",
               \A c \in SupportedClaims(snap) : snap.claims[c].facts \subseteq DOMAIN d.facts)

Namesakes(d, name) == {b \in DOMAIN d.branches : d.branches[b].name = name}

(* The guards of bullet generation, before its writer is called. *)
AnchorReady(v, s) ==
  /\ v \in db.jds
  /\ s \in DOMAIN db.snaps
  /\ AnchorFaults(db, db.snaps[s]) = {}
  /\ db.snaps[s].status \in AnchorEligible

(* A pack replaces the branch of its folded name; an empty one changes       *)
(* nothing and is left out.                                                  *)
WriteBullets(v, s, name, facts, claims) ==
  LET same == Namesakes(db, name)
      bullet == [facts |-> facts, claims |-> claims, logs |-> LogClosure(db, facts),
                 status |-> "unverified"]
      branch == [name |-> name, anchor |-> s, jd |-> v, bullets |-> Row(1, bullet)]
  IN /\ AnchorReady(v, s)
     /\ \E b \in Branches \ HeldBranches(db) :
          db' = [db EXCEPT !.branches = Join(Without(@, same), Row(b, branch))]
     /\ Cleanup({}, same)
     /\ UNCHANGED reading

WriteSome ==
  \E v \in Vacancies, s \in DOMAIN db.snaps, name \in Names :
    \E facts \in Citable, claims \in SUBSET SupportedClaims(db.snaps[s]) :
      WriteBullets(v, s, name, facts, claims)

(* The whole pack is verified or none of it; only a changed state retires    *)
(* its published set.                                                        *)
VerifyBullets(b, status) ==
  LET branch == db.branches[b]
      bullets == [k \in DOMAIN branch.bullets |->
                    [branch.bullets[k] EXCEPT !.status = status[k]]]
  IN /\ PackFaults(db, branch) \cup BundleFaults(db, branch) = {}
     /\ db' = [db EXCEPT !.branches[b].bullets = bullets]
     /\ Cleanup({}, IF bullets = branch.bullets THEN {} ELSE {b})
     /\ UNCHANGED reading

VerifyBulletsSome ==
  \E b \in DOMAIN db.branches :
    \E status \in [DOMAIN db.branches[b].bullets -> {"supported", "unsupported"}] :
      VerifyBullets(b, status)

-------------------------------------------------------------------------------
(* Publication: what a set shows is a function of the rows it was read from; *)
(* the rewrite of a finding never exports.                                   *)

Shown(snap) ==
  [c \in DOMAIN snap.claims |->
     LET claim == snap.claims[c]
     IN [facts |-> claim.facts, status |-> claim.status, contrary |-> claim.contrary,
         text |-> claim.text]]

RenderAssessment(d, s) ==
  [snap |-> [d.snaps[s] EXCEPT !.claims = Shown(d.snaps[s])],
   gaps |-> d.gaps, clashes |-> d.clashes,
   facts |-> Restrict(d.facts, ClaimFacts(d.snaps[s]) \cap DOMAIN d.facts)]

(* The anchor's gaps and contradictions are in a branch's hash, in no member. *)
RenderBranch(d, b) ==
  LET branch == d.branches[b]
      snap == d.snaps[branch.anchor]
      facts == (ClaimFacts(snap) \cup BulletFacts(branch)) \cap DOMAIN d.facts
  IN [branch |-> branch, claims |-> Shown(snap), status |-> snap.status,
      facts |-> Restrict(d.facts, facts), gaps |-> Restrict(d.gaps, snap.gaps),
      clashes |-> Restrict(d.clashes, snap.clashes)]

ExportAssessment(s) ==
  /\ db.snaps[s].status \in ExportEligible
  /\ AssessmentFaults(db, db.snaps[s]) = {}
  /\ out' = [out EXCEPT !.assess = Join(Row(s, RenderAssessment(db, s)), @)]
  /\ UNCHANGED <<db, reading>>

ExportBranch(b) ==
  /\ BranchFaults(db, db.branches[b]) = {}
  /\ PackEligible(db, db.branches[b])
  /\ out' = [out EXCEPT !.branch = Join(Row(b, RenderBranch(db, b)), @)]
  /\ UNCHANGED <<db, reading>>

-------------------------------------------------------------------------------

SomeCapture == \E l \in Logs, items \in Captures : Capture(l, items)
SomeCorrection ==
  \E l \in Logs, t \in DOMAIN db.logs, items \in Captures : Correct(l, t, items)
SomeClock == \E g \in Gaps : ReadClock(g)
SomeAnswer == \E l \in Logs : Answer(l)
SomeDeletion == \E l \in Logs : DeleteLog(l)
SomeRepair == \E s \in DOMAIN db.snaps : Repair(s)
SomeVacancy == \E v \in Vacancies : AddVacancy(v) \/ DeleteVacancy(v)
SomeExport ==
  \/ \E s \in DOMAIN db.snaps : ExportAssessment(s)
  \/ \E b \in DOMAIN db.branches : ExportBranch(b)

Next ==
  \/ SomeCapture \/ SomeCorrection \/ SomeClock \/ SomeAnswer \/ GiveUp
  \/ SomeDeletion \/ Purge
  \/ ExtractSome \/ Retain \/ DetectSome
  \/ GenerateSome \/ VerifySome \/ SomeRepair
  \/ SomeVacancy \/ WriteSome \/ VerifyBulletsSome \/ SomeExport

Spec == Init /\ [][Next]_vars

-------------------------------------------------------------------------------
(* Properties.                                                             *)

(* Every table has the shape its CREATE TABLE declares, and the references  *)
(* of rows the owner can delete resolve.                                    *)
RowsTyped ==
  /\ LogTable(db) /\ EvidenceTable(db) /\ FactTable(db) /\ FactSources(db)
  /\ GapTable(db) /\ ClashTable(db) /\ SnapshotTable(db) /\ ClaimTable(db)
  /\ VacancyTable(db) /\ BranchTable(db) /\ BulletTable(db)

NewIn(field) == DOMAIN db'[field] \ DOMAIN db[field]
Staying(field) == DOMAIN db'[field] \cap DOMAIN db[field]

(* What the repository re-validates of the rows a commit inserts.           *)
Inserted ==
  /\ \A f \in NewIn("facts") : FactAdmitted(db', f)
  /\ \A g \in NewIn("gaps") : GapAdmitted(db', g)
  /\ \A x \in NewIn("clashes") : ClashAdmitted(db', x)
  /\ \A s \in NewIn("snaps") :
       /\ SnapshotAdmitted(db', s)
       /\ \A c \in DOMAIN db'.snaps[s].claims : ClaimAdmitted(db', db'.snaps[s].claims[c])
  /\ \A b \in NewIn("branches") :
       /\ BranchAdmitted(db', b)
       /\ \A bullet \in Bullets(db'.branches[b]) :
            BulletAdmitted(db', db'.branches[b], bullet)
  /\ \A s \in Staying("snaps") : \A c \in DOMAIN db'.snaps[s].claims :
       db'.snaps[s].claims[c] # db.snaps[s].claims[c] =>
         FindingAdmitted(db', db'.snaps[s].claims[c])

OwnerDeletion ==
  (\E l \in Logs : DeleteLog(l)) \/ Purge \/ (\E v \in Vacancies : DeleteVacancy(v))

(* What the triggers allow of the rows that stay and of those that go.      *)
Updated ==
  /\ \A l \in Staying("logs") :
       /\ LogUpdate(db.logs[l], db'.logs[l], OwnerDeletion)
       /\ EvidenceUpdate(db.logs[l], db'.logs[l], OwnerDeletion)
  /\ LogDelete(db, db', OwnerDeletion) /\ VacancyDelete(db, db', OwnerDeletion)
  /\ SourcesDelete(db, db')
  /\ \A f \in Staying("facts") : FactUpdate(db.facts[f], db'.facts[f])
  /\ \A g \in Staying("gaps") : GapUpdate(db.gaps[g], db'.gaps[g], OwnerDeletion)
  /\ \A x \in Staying("clashes") : ClashUpdate(db.clashes[x], db'.clashes[x])
  /\ \A s \in Staying("snaps") :
       /\ SnapshotUpdate(db.snaps[s], db'.snaps[s])
       /\ DOMAIN db'.snaps[s].claims = DOMAIN db.snaps[s].claims
       /\ \A c \in DOMAIN db.snaps[s].claims :
            ClaimUpdate(db.snaps[s].claims[c], db'.snaps[s].claims[c])
  /\ \A b \in Staying("branches") :
       /\ BranchUpdate(db.branches[b], db'.branches[b])
       /\ \A k \in DOMAIN db.branches[b].bullets :
            BulletUpdate(db.branches[b].bullets[k], db'.branches[b].bullets[k])

(* No commit is refused, after the provider calls it paid for: what each    *)
(* stage writes passes the repository's re-validation, and a row that stays *)
(* current changes only as its lifecycle trigger allows, a source row by    *)
(* the owner's hand alone.                                                  *)
CommitsAdmitted == [][Inserted /\ Updated]_db

(* Whatever the order of operations, no consumer of a current row meets a    *)
(* state it can only report as damage: stages 7, 10 and 11 and both exports  *)
(* re-validate references, aggregates, selections and closures, and all of   *)
(* those hold of every current snapshot and branch, of which there is one    *)
(* view and one branch under each folded name. Two causes are excepted,      *)
(* each the subject of a violation of its own: an answer stamped before the  *)
(* snapshot that lists its gap, and counterevidence on a displaced record.   *)
NoDamage ==
  /\ Cardinality(DOMAIN db.snaps) <= 1
  /\ \A a, b \in DOMAIN db.branches : db.branches[a].name = db.branches[b].name => a = b
  /\ \A s \in DOMAIN db.snaps :
       /\ VerifyFaults(db, db.snaps[s]) = {}
       /\ AnchorFaults(db, db.snaps[s]) = {}
       /\ AssessmentFaults(db, db.snaps[s]) \subseteq
            {"listed_gap_answered_before", "export_source_reference_invalid"}
  /\ \A b \in DOMAIN db.branches :
       /\ PackFaults(db, db.branches[b]) \cup BundleFaults(db, db.branches[b]) = {}
       /\ BranchFaults(db, db.branches[b]) \subseteq {"export_source_reference_invalid"}

(* Every current fact, cited or not, still selects evidence its lineage      *)
(* offers, and every detection row points at a current fact or source.       *)
DerivedFromCurrent ==
  /\ \A f \in DOMAIN db.facts : SourcesValid(db, db.facts[f])
  /\ \A ref \in {db.gaps[g].target : g \in DOMAIN db.gaps} \cup UNION Range(db.clashes) :
       ReferenceValid(db, ref)

(* Gaps of `was` that `now` says were answered since, and no other change.  *)
AnsweredSince(was, now) ==
  /\ DOMAIN now = DOMAIN was
  /\ \A g \in DOMAIN was :
       now[g] = was[g] \/ (was[g].answer = None /\ now[g].target = was[g].target)

(* The rows `now` are those of the set but for answers given since.         *)
Reflects(now, shown) ==
  AnsweredSince(shown.gaps, now.gaps) /\ shown = [now EXCEPT !.gaps = shown.gaps]

(* A set that is still published without being reported residual was        *)
(* rendered from what the rows say now. A branch's set may trail by answers *)
(* to its anchor's gaps: they enter its render hash, but an answer retires  *)
(* assessment sets only (capture_gap_answer). It trails in nothing else.    *)
NoStaleExport ==
  /\ \A s \in DOMAIN out.assess :
       s \in DOMAIN db.snaps /\ out.assess[s] = RenderAssessment(db, s)
  /\ \A b \in DOMAIN out.branch :
       b \in DOMAIN db.branches /\ Reflects(RenderBranch(db, b), out.branch[b])

(* A short-circuited run retains the sets the recorded call left, as its     *)
(* retention is justified by that call having been made on the same input.   *)
ShortCircuitRetainsItsGeneration == ShortCircuit => db.detected.live

(* A gap answered after the snapshot was written renders as context and      *)
(* never fails the export.                                                   *)
AnsweredGapNeverFailsExport ==
  \A s \in DOMAIN db.snaps : "listed_gap_answered_before" \notin AssessmentFaults(db, db.snaps[s])

(* Counterevidence grounded in a supplied bundle member is exportable. *)
GroundedCounterevidenceExports ==
  \A s \in DOMAIN db.snaps : CounterFaults(db, db.snaps[s]) = {}

===============================================================================
