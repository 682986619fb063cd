----------------------------- MODULE EvidenceGraph -----------------------------
(***************************************************************************)
(* The derived rows of a workspace and what its consumers demand of them.  *)
(*                                                                         *)
(* Raw logs and their evidence items are the only source rows; facts cite  *)
(* items, gaps and contradictions cite facts or sources, a snapshot fixes  *)
(* the gaps and contradictions it was written from, its claims cite facts, *)
(* and a branch of resume bullets cites facts and claims of its anchor.    *)
(* Only CURRENT rows are kept here: a superseded row is an identifier no   *)
(* collection holds, and a reference to it no longer resolves.             *)
(*                                                                         *)
(* A database `d` is a record of finite functions from identifiers:        *)
(*   logs      -> [corrects, items, at]         (strengths of its items)   *)
(*   facts     -> the evidence items cited, each <<log, strength>>         *)
(*   gaps      -> [target, answer]                                         *)
(*   clashes   -> the two references at odds    (contradictions)           *)
(*   snaps     -> [gaps, clashes, claims, status, summary]                 *)
(*   branches  -> [name, anchor, jd, bullets]                              *)
(* plus `jds`, the job descriptions, and `detected`, the input of the last *)
(* detection call on record.                                               *)
(***************************************************************************)
EXTENDS Naturals, FiniteSets

CONSTANTS
  Logs,        \* identifiers of raw logs
  Strengths,   \* evidence strengths in use
  None,        \* no log, no recorded input, nothing pending
  Manual,      \* the strength manual_claim
  Narrative    \* the claim slot of the one narrative_summary

ASSUME ManualAssumption == Manual \in Strengths
ASSUME NoneAssumption == None \notin Logs
ASSUME LogsAssumption == IsFiniteSet(Logs)

-------------------------------------------------------------------------------
(* Raw logs, correction lineages and evidence.                             *)

(* A retained correction displaces exactly the record it names. *)
Displaced(d, l) == \E c \in DOMAIN d.logs : d.logs[c].corrects = l

Effective(d) == {l \in DOMAIN d.logs : ~Displaced(d, l)}

(* The root of l's lineage: follow corrects_log_id until a record corrects *)
(* nothing. Capture admits no cycle, so Cardinality(Logs) hops are enough. *)
Root(d, l) ==
  LET hop[n \in 0..Cardinality(Logs)] ==
        IF n = 0 THEN l
        ELSE IF d.logs[hop[n - 1]].corrects = None
               THEN hop[n - 1]
               ELSE d.logs[hop[n - 1]].corrects
  IN hop[Cardinality(Logs)]

Roots(d) == {l \in DOMAIN d.logs : d.logs[l].corrects = None}

ItemsOf(d, l) == {l} \X d.logs[l].items

Items(d) == UNION {ItemsOf(d, l) : l \in DOMAIN d.logs}

(* What one lineage offers the extractor: every item of an effective       *)
(* record, and the prose-free descriptors of displaced records' items that *)
(* are not the owner's own statement.                                      *)
Selectable(d, root) ==
  {i \in Items(d) : Root(d, i[1]) = root /\ (Displaced(d, i[1]) => i[2] # Manual)}

(* The retained-row predicate a fact's selection satisfies at insertion and *)
(* again whenever a consumer reads the fact as current.                     *)
SourcesValid(d, items) ==
  LET reached == {i[1] : i \in items} IN
  /\ items \subseteq Items(d)
  /\ \A i \in items : Displaced(d, i[1]) => i[2] # Manual
  /\ \E l \in reached : ~Displaced(d, l)
  /\ \A k, l \in reached : Root(d, k) = Root(d, l)

(* The raw logs reached through the facts a bullet cites. *)
LogClosure(d, facts) == {i[1] : i \in UNION {d.facts[f] : f \in facts}}

-------------------------------------------------------------------------------
(* Typed references: a fact, a raw log or an evidence item.                *)

FactRef(f) == <<"experience_fact", f>>
LogRef(l)  == <<"raw_log", l>>
ItemRef(i) == <<"evidence_item", i>>

(* A detection target: a current fact, or a source no correction displaced. *)
ReferenceValid(d, ref) ==
  CASE ref[1] = "experience_fact" -> ref[2] \in DOMAIN d.facts
    [] ref[1] = "raw_log"         -> ref[2] \in Effective(d)
    [] ref[1] = "evidence_item"   -> ref[2] \in Items(d) /\ ref[2][1] \in Effective(d)

(* A verifier's grounding reference only has to exist: displacement is not *)
(* asked about.                                                            *)
VerifierReferenceValid(d, ref) ==
  CASE ref[1] = "experience_fact" -> ref[2] \in DOMAIN d.facts
    [] ref[1] = "raw_log"         -> ref[2] \in DOMAIN d.logs
    [] ref[1] = "evidence_item"   -> ref[2] \in Items(d)

(* What may ground counterevidence against a claim: every current fact of   *)
(* the view, the items the claim's facts cite (a displaced record's as a    *)
(* descriptor), and the logs of those items that no correction displaced.   *)
VerifierBundle(d, claim) ==
  LET cited == UNION {d.facts[f] : f \in claim.facts} IN
  {FactRef(f) : f \in DOMAIN d.facts}
    \cup {ItemRef(i) : i \in cited}
    \cup {LogRef(i[1]) : i \in {j \in cited : ~Displaced(d, j[1])}}

-------------------------------------------------------------------------------
(* Verification statuses.                                                  *)

Precedence ==
  <<"rejected", "unsupported", "contradicted", "needs_clarification",
    "partially_supported", "inferred_but_acceptable", "supported">>

(* The status of a set of member claims: unverified while any of them is,  *)
(* otherwise the first of the precedence that occurs.                      *)
Aggregate(statuses) ==
  IF "unverified" \in statuses THEN "unverified"
  ELSE Precedence[CHOOSE n \in DOMAIN Precedence :
                    /\ Precedence[n] \in statuses
                    /\ \A m \in 1..(n - 1) : Precedence[m] \notin statuses]

AnchorEligible == {"supported", "partially_supported", "inferred_but_acceptable"}
ExportEligible == AnchorEligible \cup {"needs_clarification", "contradicted"}
Repairable     == {"rejected", "unsupported"}

ClaimStatuses(snap) == {snap.claims[c].status : c \in DOMAIN snap.claims}
ClaimFacts(snap) == UNION {snap.claims[c].facts : c \in DOMAIN snap.claims}

-------------------------------------------------------------------------------
(* The fail-closed checks. Each operator is the set of diagnostics a        *)
(* consumer would raise IntegrityFailure with; in a sound workspace it is   *)
(* empty.                                                                   *)

Raise(diagnostic, ok) == IF ok THEN {} ELSE {diagnostic}

(* A snapshot and its members: the aggregate reduces from the claims and    *)
(* exactly one narrative carries the stored summary.                        *)
SnapshotFaults(snap) ==
  IF snap.claims = <<>> THEN {"snapshot_claim_set_empty"}
  ELSE Raise("snapshot_aggregate_mismatch", snap.status = Aggregate(ClaimStatuses(snap)))
         \cup Raise("snapshot_narrative_gate_failed",
                    /\ Narrative \in DOMAIN snap.claims
                    /\ snap.claims[Narrative].text = snap.summary)

(* The references a snapshot lists resolve to current rows. *)
ListedFaults(d, snap) ==
  Raise("snapshot_gap_reference_invalid", snap.gaps \subseteq DOMAIN d.gaps)
    \cup Raise("snapshot_contradiction_reference_invalid",
               snap.clashes \subseteq DOMAIN d.clashes)

(* Before verification: the members, the narrative, the same contradiction  *)
(* set and current gaps; each claim's facts are current.                    *)
VerifyFaults(d, snap) ==
  (SnapshotFaults(snap) \ {"snapshot_aggregate_mismatch"})
    \cup Raise("snapshot_contradiction_set_stale", snap.clashes = DOMAIN d.clashes)
    \cup Raise("snapshot_gap_reference_invalid", snap.gaps \subseteq DOMAIN d.gaps)
    \cup Raise("assessment_bundle_fact_invalid", ClaimFacts(snap) \subseteq DOMAIN d.facts)

(* Whether the answer of a gap is a retained record the export may read.    *)
AnswerValid(d, gap) == ReferenceValid(d, LogRef(gap.answer))

(* The gap half of the assessment export: a listed gap is answered only     *)
(* after the snapshot was written, an unlisted current gap only before it.  *)
GapFaults(d, snap) ==
  LET listed == snap.gaps \cap DOMAIN d.gaps
      omitted == DOMAIN d.gaps \ snap.gaps
      Early(g) == d.gaps[g].answer \in DOMAIN d.logs
                    /\ d.logs[d.gaps[g].answer].at = "before"
  IN Raise("gap_target_invalid", \A g \in DOMAIN d.gaps : ReferenceValid(d, d.gaps[g].target))
       \cup Raise("gap_answer_log_invalid",
                  \A g \in DOMAIN d.gaps :
                    d.gaps[g].answer # None => AnswerValid(d, d.gaps[g]))
       \cup Raise("listed_gap_answered_before", \A g \in listed : ~Early(g))
       \cup Raise("unlisted_gap_open", \A g \in omitted : d.gaps[g].answer # None)
       \cup Raise("unlisted_gap_answered_after",
                  \A g \in omitted : d.gaps[g].answer # None => Early(g))

(* The facts the claims rest on: current, and each still selectable. *)
ClosureFaults(d, facts) ==
  Raise("claim_fact_superseded", facts \subseteq DOMAIN d.facts)
    \cup Raise("fact_source_selection_invalid",
               \A f \in facts \cap DOMAIN d.facts : SourcesValid(d, d.facts[f]))

(* Counterevidence is re-read through the detection rule, not through the   *)
(* verifier's.                                                              *)
CounterFaults(d, snap) ==
  Raise("export_source_reference_invalid",
        \A c \in DOMAIN snap.claims : \A ref \in snap.claims[c].contrary :
          ReferenceValid(d, ref))

(* Everything the assessment export re-validates before it renders. *)
AssessmentFaults(d, snap) ==
  SnapshotFaults(snap) \cup ListedFaults(d, snap) \cup GapFaults(d, snap)
    \cup Raise("snapshot_contradiction_set_stale", snap.clashes = DOMAIN d.clashes)
    \cup Raise("contradiction_ref_invalid",
               \A x \in snap.clashes \cap DOMAIN d.clashes : \A r \in d.clashes[x] : ReferenceValid(d, r))
    \cup ClosureFaults(d, ClaimFacts(snap))
    \cup CounterFaults(d, snap)

-------------------------------------------------------------------------------
(* Branches and their bullets.                                             *)

Bullets(branch) == {branch.bullets[k] : k \in DOMAIN branch.bullets}

BulletFacts(branch) == UNION {b.facts : b \in Bullets(branch)}
CitedClaims(branch) == UNION {b.claims : b \in Bullets(branch)}

(* At least one of the facts ends in a record no correction displaced. *)
RetainedChain(d, facts) ==
  \E f \in facts \cap DOMAIN d.facts : \E i \in d.facts[f] : ~Displaced(d, i[1])

(* The predicate bullet verification and bullet export share. *)
PackFaults(d, branch) ==
  Raise("branch_bullet_set_empty", branch.bullets # <<>>)
    \cup Raise("branch_job_description_missing", branch.jd \in d.jds)
    \cup Raise("branch_snapshot_superseded", branch.anchor \in DOMAIN d.snaps)
    \cup Raise("bullet_log_closure_mismatch",
               \A b \in Bullets(branch) :
                 b.facts \subseteq DOMAIN d.facts => b.logs = LogClosure(d, b.facts))

(* What bullet verification adds: every cited fact is current and every     *)
(* cited claim is a supported member of the anchor, each with its chain.    *)
BundleFaults(d, branch) ==
  LET members == IF branch.anchor \in DOMAIN d.snaps
                   THEN d.snaps[branch.anchor].claims ELSE <<>>
      cited == CitedClaims(branch) \cap DOMAIN members
  IN Raise("bullet_fact_superseded", BulletFacts(branch) \subseteq DOMAIN d.facts)
       \cup Raise("bullet_direct_chain_missing",
                  \A b \in Bullets(branch) : RetainedChain(d, b.facts))
       \cup Raise("bullet_claim_outside_branch_snapshot",
                  CitedClaims(branch) \subseteq DOMAIN members)
       \cup Raise("bullet_claim_not_supported",
                  \A c \in cited : members[c].status = "supported")
       \cup Raise("claim_fact_superseded",
                  \A c \in cited : members[c].facts \subseteq DOMAIN d.facts)
       \cup Raise("claim_direct_chain_missing",
                  \A c \in cited : RetainedChain(d, members[c].facts))

(* What bullet export re-validates: the pack, the anchor with all of its    *)
(* members, its listed references, and the counterevidence of every member. *)
BranchFaults(d, branch) ==
  IF branch.anchor \notin DOMAIN d.snaps THEN PackFaults(d, branch)
  ELSE LET snap == d.snaps[branch.anchor] IN
       PackFaults(d, branch) \cup BundleFaults(d, branch)
         \cup SnapshotFaults(snap) \cup ListedFaults(d, snap)
         \cup Raise("anchor_claim_direct_chain_missing",
                    \A c \in DOMAIN snap.claims : RetainedChain(d, snap.claims[c].facts))
         \cup ClosureFaults(d, ClaimFacts(snap) \cup BulletFacts(branch))
         \cup CounterFaults(d, snap)

(* Bullet export is refused, not failed, on a status outside the allowlists. *)
PackEligible(d, branch) ==
  /\ d.snaps[branch.anchor].status \in AnchorEligible
  /\ \A b \in Bullets(branch) : b.status = "supported"

===============================================================================
