---------------------------- MODULE LifecycleProofs ----------------------------
(***************************************************************************)
(* What the derived rows promise, for any pools of identifiers, strengths, *)
(* captures and findings.                                                  *)
(*                                                                         *)
(* The invariant `Sound` says of each table what the stages leave in it;   *)
(* the rows every consumer re-validates are sound whatever the order of    *)
(* captures, corrections, answers, deletions and stages.                   *)
(***************************************************************************)
EXTENDS Lifecycle, FiniteSetTheorems, TLAPS

Tables == {"logs", "facts", "gaps", "clashes", "snaps", "branches", "jds", "detected"}

Refs == ({"raw_log"} \X Logs) \cup ({"evidence_item"} \X (Logs \X Strengths))
          \cup ({"experience_fact"} \X Facts)

Instants == {"before", "after"}
Texts == {"first", "rewritten"}

LogRow(d)  == [corrects : DOMAIN d.logs \cup {None}, items : SUBSET Strengths, at : Instants]
GapRow     == [target : Refs, answer : Logs \cup {None}]
ClaimRow   == [facts : SUBSET Facts, status : Statuses, contrary : SUBSET Refs,
               text : Texts, rewrite : BOOLEAN]
BulletRow  == [facts : SUBSET Facts, claims : SUBSET Slots, logs : SUBSET Logs,
               status : Statuses]

LogsSound(d) ==
  /\ DOMAIN d.logs \subseteq Logs
  /\ \A l \in DOMAIN d.logs : d.logs[l] \in LogRow(d)

FactsSound(d) ==
  /\ DOMAIN d.facts \subseteq Facts
  /\ \A f \in DOMAIN d.facts : SourcesValid(d, d.facts[f])

(* The answer of a gap is a record no correction displaced.                *)
GapsSound(d) ==
  /\ DOMAIN d.gaps \subseteq Gaps
  /\ \A g \in DOMAIN d.gaps :
       /\ d.gaps[g] \in GapRow
       /\ ReferenceValid(d, d.gaps[g].target)
       /\ d.gaps[g].answer = None \/ d.gaps[g].answer \in Effective(d)

ClashesSound(d) ==
  /\ DOMAIN d.clashes \subseteq Clashes
  /\ \A x \in DOMAIN d.clashes :
       /\ Cardinality(d.clashes[x]) = 2
       /\ \A ref \in d.clashes[x] : ref \in Refs /\ ReferenceValid(d, ref)

(* A gap a snapshot does not list was answered when the snapshot was       *)
(* written, and its answer is stamped before.                              *)
AnsweredBefore(d, g) ==
  /\ d.gaps[g].answer \in DOMAIN d.logs
  /\ d.logs[d.gaps[g].answer].at = "before"

ClaimSound(d, claim) ==
  claim \in ClaimRow /\ claim.facts # {} /\ claim.facts \subseteq DOMAIN d.facts

SnapSound(d, snap) ==
  /\ snap = [gaps |-> snap.gaps, clashes |-> snap.clashes, claims |-> snap.claims,
             status |-> snap.status, summary |-> snap.summary]
  /\ DOMAIN snap.claims \subseteq Slots
  /\ \A c \in DOMAIN snap.claims : ClaimSound(d, snap.claims[c])
  /\ Narrative \in DOMAIN snap.claims
  /\ snap.claims[Narrative].text = snap.summary
  /\ snap.status = Aggregate(ClaimStatuses(snap))
  /\ snap.gaps \subseteq DOMAIN d.gaps
  /\ snap.clashes = DOMAIN d.clashes
  /\ \A g \in DOMAIN d.gaps \ snap.gaps : AnsweredBefore(d, g)

SnapsSound(d) ==
  /\ DOMAIN d.snaps \subseteq Snapshots
  /\ \A s, t \in DOMAIN d.snaps : s = t
  /\ \A s \in DOMAIN d.snaps : SnapSound(d, d.snaps[s])

BulletSound(d, claims, bullet) ==
  /\ bullet \in BulletRow
  /\ bullet.facts # {} /\ bullet.facts \subseteq DOMAIN d.facts
  /\ bullet.logs = LogClosure(d, bullet.facts)
  /\ \A c \in bullet.claims : c \in DOMAIN claims /\ claims[c].status = "supported"

BranchSound(d, branch) ==
  /\ branch = [name |-> branch.name, anchor |-> branch.anchor, jd |-> branch.jd,
               bullets |-> branch.bullets]
  /\ branch.name \in Names
  /\ branch.jd \in d.jds
  /\ branch.anchor \in DOMAIN d.snaps
  /\ DOMAIN branch.bullets # {}
  /\ \A k \in DOMAIN branch.bullets :
       BulletSound(d, d.snaps[branch.anchor].claims, branch.bullets[k])

BranchesSound(d) ==
  /\ DOMAIN d.branches \subseteq Branches
  /\ \A a, b \in DOMAIN d.branches : d.branches[a].name = d.branches[b].name => a = b
  /\ \A b \in DOMAIN d.branches : BranchSound(d, d.branches[b])

Sound(d) ==
  /\ DOMAIN d = Tables
  /\ LogsSound(d) /\ FactsSound(d) /\ GapsSound(d) /\ ClashesSound(d)
  /\ SnapsSound(d) /\ BranchesSound(d)
  /\ d.jds \subseteq Vacancies

ReadingSound == reading = None \/ reading \in [gap : Gaps, at : Instants]

OutShape == DOMAIN out = {"assess", "branch"}

Inv == Sound(db) /\ ReadingSound /\ OutShape /\ NoStaleExport

-------------------------------------------------------------------------------
(* Lineages: a record's root does not depend on records added later.       *)

(* A set of naturals has a least member: induction, for one set at a time. *)
LEMMA LeastNat ==
  ASSUME NEW T \in SUBSET Nat, T # {}
  PROVE  \E x \in T : \A y \in T : ~ (y < x)
  <1>1. PICK x \in T : \A y \in T : <<y, x>> \notin OpToRel(<, Nat)
    BY NatLessThanWellFounded, WFMin, Zenon
  <1>2. \A y \in T : ~ (y < x)
    BY <1>1, Zenon DEF OpToRel
  <1> QED BY <1>2

Closed(d) == \A l \in DOMAIN d.logs : d.logs[l].corrects \in DOMAIN d.logs \cup {None}

Extends(d, e) ==
  \A l \in DOMAIN d.logs :
    l \in DOMAIN e.logs /\ e.logs[l].corrects = d.logs[l].corrects /\ e.logs[l].items = d.logs[l].items

Hops(d, l, h) ==
  h = [n \in 0 .. Cardinality(Logs) |->
         IF n = 0 THEN l
         ELSE IF d.logs[h[n - 1]].corrects = None THEN h[n - 1] ELSE d.logs[h[n - 1]].corrects]

LEMMA HopsStay ==
  ASSUME NEW d, NEW e, NEW l, NEW h,
         l \in DOMAIN d.logs, Closed(d), Extends(d, e), Hops(d, l, h) \/ Hops(e, l, h)
  PROVE  \A n \in 0 .. Cardinality(Logs) : h[n] \in DOMAIN d.logs
  <1> DEFINE T == {n \in 0 .. Cardinality(Logs) : h[n] \notin DOMAIN d.logs}
  <1>1. SUFFICES ASSUME T # {} PROVE FALSE
    OBVIOUS
  <1>2. Cardinality(Logs) \in Nat
    BY LogsAssumption, FS_CardinalityType
  <1>3. PICK n \in T : \A m \in T : ~ (m < n)
    <2>1. T \in SUBSET Nat
      BY <1>2
    <2> HIDE DEF T
    <2> QED BY <1>1, <2>1, LeastNat
  <1>4. n \in 0 .. Cardinality(Logs) /\ h[n] \notin DOMAIN d.logs
    BY <1>3
  <1>5. n # 0
    <2>1. h[0] = l
      BY <1>2 DEF Hops
    <2> QED BY <1>4, <2>1
  <1>6. n - 1 \in 0 .. Cardinality(Logs) /\ n - 1 < n
    BY <1>2, <1>4, <1>5
  <1>7. h[n - 1] \in DOMAIN d.logs
    BY <1>3, <1>6
  <1>8. \/ h[n] = h[n - 1]
        \/ h[n] = d.logs[h[n - 1]].corrects /\ d.logs[h[n - 1]].corrects # None
    BY ZenonT(40), <1>4, <1>5, <1>7 DEF Hops, Extends
  <1>9. d.logs[h[n - 1]].corrects \in DOMAIN d.logs \cup {None}
    BY <1>7 DEF Closed
  <1> QED BY <1>4, <1>7, <1>8, <1>9

LEMMA RootStays ==
  ASSUME NEW d, NEW e, NEW l, l \in DOMAIN d.logs, Closed(d), Extends(d, e)
  PROVE  Root(e, l) = Root(d, l)
  <1>1. Root(d, l) = (CHOOSE h : Hops(d, l, h))[Cardinality(Logs)]
    BY DEF Root, Hops
  <1>2. Root(e, l) = (CHOOSE h : Hops(e, l, h))[Cardinality(Logs)]
    BY DEF Root, Hops
  <1>3. ASSUME NEW h PROVE Hops(d, l, h) <=> Hops(e, l, h)
    <2>0. Cardinality(Logs) \in Nat
      BY LogsAssumption, FS_CardinalityType
    <2>1. ASSUME Hops(d, l, h) \/ Hops(e, l, h)
          PROVE  Hops(d, l, h) /\ Hops(e, l, h)
      <3>1. \A n \in 0 .. Cardinality(Logs) : h[n] \in DOMAIN d.logs
        BY <2>1, HopsStay
      <3>2. \A n \in 1 .. Cardinality(Logs) :
              e.logs[h[n - 1]].corrects = d.logs[h[n - 1]].corrects
        BY <2>0, <3>1 DEF Extends
      <3> QED BY SMTT(30), <2>0, <2>1, <3>2 DEF Hops
    <2> QED BY <2>1
  <1>4. (CHOOSE h : Hops(d, l, h)) = (CHOOSE h : Hops(e, l, h))
    BY <1>3, Zenon
  <1> QED BY <1>1, <1>2, <1>4

-------------------------------------------------------------------------------
(* What added records leave as it was.                                     *)

(* The records of d stay, and the ones added correct nothing.              *)
Grows(d, e) ==
  /\ Extends(d, e)
  /\ \A l \in DOMAIN e.logs \ DOMAIN d.logs : e.logs[l].corrects = None

FactsStay(d, e) ==
  DOMAIN e.facts = DOMAIN d.facts /\ \A f \in DOMAIN d.facts : e.facts[f] = d.facts[f]

LEMMA ItemFacts ==
  ASSUME NEW d, NEW i \in Items(d)
  PROVE  i[1] \in DOMAIN d.logs /\ i[2] \in d.logs[i[1]].items /\ i = <<i[1], i[2]>>
  BY DEF Items, ItemsOf

LEMMA ItemStays ==
  ASSUME NEW d, NEW e, Extends(d, e), NEW i \in Items(d)
  PROVE  i \in Items(e)
  BY ItemFacts DEF Items, ItemsOf, Extends

LEMMA LogsClosed ==
  ASSUME NEW d, LogsSound(d)
  PROVE  Closed(d) /\ None \notin DOMAIN d.logs
  BY NoneAssumption DEF Closed, LogsSound, LogRow

LEMMA DisplacedStays ==
  ASSUME NEW d, NEW e, LogsSound(d), Grows(d, e), NEW l \in DOMAIN d.logs
  PROVE  Displaced(e, l) <=> Displaced(d, l)
  <1>1. l # None
    BY LogsClosed
  <1> QED BY <1>1 DEF Displaced, Grows, Extends

LEMMA EffectiveStays ==
  ASSUME NEW d, NEW e, LogsSound(d), Grows(d, e), NEW l \in Effective(d)
  PROVE  l \in Effective(e)
  BY DisplacedStays DEF Effective, Grows, Extends

(* A selection stays valid as long as no record it reaches is displaced.   *)
LEMMA SourcesStay ==
  ASSUME NEW d, NEW e, LogsSound(d), Extends(d, e), NEW items, SourcesValid(d, items),
         \A i \in items : Displaced(e, i[1]) <=> Displaced(d, i[1])
  PROVE  SourcesValid(e, items)
  <1> DEFINE reached == {i[1] : i \in items}
  <1>1. items \subseteq Items(d)
    BY DEF SourcesValid
  <1>2. items \subseteq Items(e)
    BY <1>1, ItemStays
  <1>3. \A i \in items : Displaced(e, i[1]) => i[2] # Manual
    BY DEF SourcesValid
  <1>4. \E l \in reached : ~ Displaced(e, l)
    BY DEF SourcesValid
  <1>5. \A l \in reached : l \in DOMAIN d.logs
    BY <1>1, ItemFacts
  <1>6. \A l \in reached : Root(e, l) = Root(d, l)
    BY <1>5, RootStays, LogsClosed
  <1>7. \A k, l \in reached : Root(e, k) = Root(e, l)
    BY <1>6 DEF SourcesValid
  <1> QED BY <1>2, <1>3, <1>4, <1>7 DEF SourcesValid

LEMMA ReferenceStays ==
  ASSUME NEW d, NEW e, LogsSound(d), Grows(d, e), DOMAIN d.facts \subseteq DOMAIN e.facts,
         NEW ref \in Refs, ReferenceValid(d, ref)
  PROVE  ReferenceValid(e, ref)
  <1>1. CASE ref[1] = "raw_log"
    BY <1>1, EffectiveStays DEF ReferenceValid
  <1>2. CASE ref[1] = "evidence_item"
    BY <1>2, EffectiveStays, ItemStays DEF ReferenceValid, Grows
  <1>3. CASE ref[1] = "experience_fact"
    BY <1>3 DEF ReferenceValid
  <1> QED BY <1>1, <1>2, <1>3 DEF Refs

LEMMA FactsKept ==
  ASSUME NEW d, NEW e, LogsSound(d), FactsSound(d), Grows(d, e), FactsStay(d, e)
  PROVE  FactsSound(e)
  <1>1. ASSUME NEW f \in DOMAIN d.facts
        PROVE  SourcesValid(e, d.facts[f])
    <2>1. SourcesValid(d, d.facts[f])
      BY DEF FactsSound
    <2>2. \A i \in d.facts[f] : Displaced(e, i[1]) <=> Displaced(d, i[1])
      BY <2>1, ItemFacts, DisplacedStays DEF SourcesValid
    <2> QED BY <2>1, <2>2, SourcesStay DEF Grows
  <1> QED BY <1>1 DEF FactsSound, FactsStay

LEMMA GapsKept ==
  ASSUME NEW d, NEW e, LogsSound(d), GapsSound(d), Grows(d, e),
         DOMAIN d.facts \subseteq DOMAIN e.facts, e.gaps = d.gaps
  PROVE  GapsSound(e)
  BY ReferenceStays, EffectiveStays DEF GapsSound, GapRow

LEMMA ClashesKept ==
  ASSUME NEW d, NEW e, LogsSound(d), ClashesSound(d), Grows(d, e),
         DOMAIN d.facts \subseteq DOMAIN e.facts, e.clashes = d.clashes
  PROVE  ClashesSound(e)
  BY ReferenceStays DEF ClashesSound

LEMMA SnapKept ==
  ASSUME NEW d, NEW e, NEW snap, SnapSound(d, snap),
         DOMAIN d.facts \subseteq DOMAIN e.facts,
         DOMAIN e.gaps = DOMAIN d.gaps, DOMAIN e.clashes = DOMAIN d.clashes,
         \A g \in DOMAIN d.gaps : AnsweredBefore(d, g) => AnsweredBefore(e, g)
  PROVE  SnapSound(e, snap)
  BY DEF SnapSound, ClaimSound

LEMMA ClosureStays ==
  ASSUME NEW d, NEW e, FactsStay(d, e), NEW facts, facts \subseteq DOMAIN d.facts
  PROVE  LogClosure(e, facts) = LogClosure(d, facts)
  <1>1. {e.facts[f] : f \in facts} = {d.facts[f] : f \in facts}
    BY DEF FactsStay
  <1> QED BY <1>1 DEF LogClosure

(* The claims a branch may cite keep their verdicts.                       *)
Cited(d, e, s) ==
  /\ s \in DOMAIN e.snaps
  /\ \A c \in DOMAIN d.snaps[s].claims :
       /\ c \in DOMAIN e.snaps[s].claims
       /\ e.snaps[s].claims[c].status = d.snaps[s].claims[c].status

LEMMA BranchKept ==
  ASSUME NEW d, NEW e, NEW branch, BranchSound(d, branch), FactsStay(d, e),
         branch.jd \in e.jds, Cited(d, e, branch.anchor)
  PROVE  BranchSound(e, branch)
  <1>1. ASSUME NEW k \in DOMAIN branch.bullets
        PROVE  BulletSound(e, e.snaps[branch.anchor].claims, branch.bullets[k])
    <2>1. BulletSound(d, d.snaps[branch.anchor].claims, branch.bullets[k])
      BY DEF BranchSound
    <2>2. LogClosure(e, branch.bullets[k].facts) = LogClosure(d, branch.bullets[k].facts)
      BY <2>1, ClosureStays DEF BulletSound
    <2> QED BY <2>1, <2>2 DEF BulletSound, Cited, FactsStay
  <1> QED BY <1>1 DEF BranchSound, Cited

-------------------------------------------------------------------------------
(* Databases that differ in the recorded detection call only, and databases *)
(* without derived rows beyond facts.                                       *)

Same(d, e) ==
  /\ DOMAIN e = Tables
  /\ e.logs = d.logs /\ e.facts = d.facts /\ e.gaps = d.gaps /\ e.clashes = d.clashes
  /\ e.snaps = d.snaps /\ e.branches = d.branches /\ e.jds = d.jds

LEMMA SettledSame ==
  ASSUME NEW d, NEW was, DOMAIN d = Tables
  PROVE  Same(d, Settled(d, was))
  BY DEF Same, Settled, Tables

LEMMA BranchesKept ==
  ASSUME NEW d, NEW e, BranchesSound(d), FactsStay(d, e), e.branches = d.branches,
         d.jds \subseteq e.jds, e.snaps = d.snaps
  PROVE  BranchesSound(e)
  <1>1. ASSUME NEW b \in DOMAIN d.branches
        PROVE  BranchSound(e, d.branches[b])
    <2>1. BranchSound(d, d.branches[b])
      BY DEF BranchesSound
    <2>2. Cited(d, e, d.branches[b].anchor) /\ d.branches[b].jd \in e.jds
      BY <2>1 DEF BranchSound, Cited
    <2> QED BY <2>1, <2>2, BranchKept
  <1> QED BY <1>1 DEF BranchesSound

LEMMA SnapsKept ==
  ASSUME NEW d, NEW e, SnapsSound(d), DOMAIN d.facts \subseteq DOMAIN e.facts,
         e.snaps = d.snaps, DOMAIN e.gaps = DOMAIN d.gaps, DOMAIN e.clashes = DOMAIN d.clashes,
         \A g \in DOMAIN d.gaps : AnsweredBefore(d, g) => AnsweredBefore(e, g)
  PROVE  SnapsSound(e)
  BY SnapKept DEF SnapsSound

(* Records were added, and nothing else happened to the tables.            *)
LEMMA GrownSound ==
  ASSUME NEW d, NEW e, Sound(d), DOMAIN e = Tables, LogsSound(e), Grows(d, e),
         \A l \in DOMAIN d.logs : d.logs[l].at = "before" => e.logs[l].at = "before",
         FactsStay(d, e), e.gaps = d.gaps, e.clashes = d.clashes, e.snaps = d.snaps,
         e.branches = d.branches, d.jds \subseteq e.jds, e.jds \subseteq Vacancies
  PROVE  Sound(e)
  <1>1. DOMAIN d.facts \subseteq DOMAIN e.facts
    BY DEF FactsStay
  <1>2. FactsSound(e) /\ GapsSound(e) /\ ClashesSound(e) /\ BranchesSound(e)
    BY <1>1, FactsKept, GapsKept, ClashesKept, BranchesKept DEF Sound
  <1>3. \A g \in DOMAIN d.gaps : AnsweredBefore(d, g) => AnsweredBefore(e, g)
    BY DEF AnsweredBefore, Grows, Extends
  <1>4. SnapsSound(e)
    BY <1>1, <1>3, SnapsKept DEF Sound
  <1> QED BY <1>2, <1>4 DEF Sound

LEMMA SoundSame ==
  ASSUME NEW d, NEW e, Sound(d), Same(d, e)
  PROVE  Sound(e)
  <1>1. LogsSound(e) /\ Grows(d, e)
    BY DEF Sound, Same, LogsSound, LogRow, Grows, Extends
  <1>2. FactsStay(d, e)
    BY DEF Same, FactsStay
  <1> QED BY <1>1, <1>2, GrownSound DEF Sound, Same

Cleared(e) ==
  /\ DOMAIN e = Tables
  /\ DOMAIN e.gaps = {} /\ DOMAIN e.clashes = {} /\ DOMAIN e.snaps = {} /\ DOMAIN e.branches = {}

LEMMA ClearedSound ==
  ASSUME NEW e, Cleared(e), LogsSound(e), FactsSound(e), e.jds \subseteq Vacancies
  PROVE  Sound(e)
  BY DEF Cleared, Sound, GapsSound, ClashesSound, SnapsSound, BranchesSound

LEMMA WithoutAnalysisFacts ==
  ASSUME NEW d, DOMAIN d = Tables
  PROVE  LET e == WithoutAnalysis(d)
         IN Cleared(e) /\ e.logs = d.logs /\ e.facts = d.facts /\ e.jds = d.jds
  <1>1. DOMAIN WithoutAnalysis(d) = Tables
    BY DEF WithoutAnalysis
  <1>2. /\ WithoutAnalysis(d).gaps = <<>> /\ WithoutAnalysis(d).clashes = <<>>
        /\ WithoutAnalysis(d).snaps = <<>> /\ WithoutAnalysis(d).branches = <<>>
    BY DEF WithoutAnalysis, Tables
  <1>3. /\ WithoutAnalysis(d).logs = d.logs /\ WithoutAnalysis(d).facts = d.facts
        /\ WithoutAnalysis(d).jds = d.jds
    BY DEF WithoutAnalysis, Tables
  <1> QED BY <1>1, <1>2, <1>3 DEF Cleared

-------------------------------------------------------------------------------
(* Published sets.                                                         *)

LEMMA RenderStays ==
  ASSUME NEW d, NEW e, NEW s, e.snaps[s] = d.snaps[s], e.gaps = d.gaps,
         e.clashes = d.clashes, FactsStay(d, e)
  PROVE  RenderAssessment(e, s) = RenderAssessment(d, s)
  <1> DEFINE F == ClaimFacts(d.snaps[s]) \cap DOMAIN d.facts
  <1>1. F = ClaimFacts(e.snaps[s]) \cap DOMAIN e.facts
    BY DEF FactsStay
  <1>2. Restrict(e.facts, F) = Restrict(d.facts, F)
    BY DEF Restrict, FactsStay
  <1> HIDE DEF F
  <1> QED BY <1>1, <1>2 DEF RenderAssessment, F

LEMMA RenderBranchStays ==
  ASSUME NEW d, NEW e, NEW b, e.branches[b] = d.branches[b], FactsStay(d, e),
         Shown(e.snaps[d.branches[b].anchor]) = Shown(d.snaps[d.branches[b].anchor]),
         e.snaps[d.branches[b].anchor].status = d.snaps[d.branches[b].anchor].status,
         ClaimFacts(e.snaps[d.branches[b].anchor]) = ClaimFacts(d.snaps[d.branches[b].anchor]),
         e.snaps[d.branches[b].anchor].gaps = d.snaps[d.branches[b].anchor].gaps,
         e.snaps[d.branches[b].anchor].clashes = d.snaps[d.branches[b].anchor].clashes,
         e.gaps = d.gaps, e.clashes = d.clashes
  PROVE  RenderBranch(e, b) = RenderBranch(d, b)
  <1> DEFINE branch == d.branches[b]
             F == (ClaimFacts(d.snaps[branch.anchor]) \cup BulletFacts(branch)) \cap DOMAIN d.facts
  <1>1. F = (ClaimFacts(e.snaps[branch.anchor]) \cup BulletFacts(branch)) \cap DOMAIN e.facts
    BY DEF FactsStay
  <1>2. Restrict(e.facts, F) = Restrict(d.facts, F)
    BY DEF Restrict, FactsStay
  <1> HIDE DEF F
  <1> QED BY <1>1, <1>2 DEF RenderBranch, F

(* Nothing is published once every set was removed or reported.            *)
LEMMA CleanedAll ==
  ASSUME Inv, Cleanup(DOMAIN db.snaps, DOMAIN db.branches)
  PROVE  OutShape' /\ NoStaleExport'
  <1>1. DOMAIN out.assess \subseteq DOMAIN db.snaps /\ DOMAIN out.branch \subseteq DOMAIN db.branches
    BY DEF Inv, NoStaleExport
  <1>2. DOMAIN out'.assess = {} /\ DOMAIN out'.branch = {}
    BY <1>1 DEF Cleanup, Without, Restrict
  <1>3. DOMAIN out' = {"assess", "branch"}
    BY DEF Cleanup
  <1> QED BY <1>2, <1>3 DEF OutShape, NoStaleExport

(* The sets stay as they are, and so does what they show.                  *)
LEMMA OutKept ==
  ASSUME Inv, UNCHANGED out, FactsStay(db, db'), db'.snaps = db.snaps, db'.gaps = db.gaps,
         db'.clashes = db.clashes, db'.branches = db.branches
  PROVE  OutShape' /\ NoStaleExport'
  <1>1. \A s \in DOMAIN out.assess : RenderAssessment(db', s) = RenderAssessment(db, s)
    BY RenderStays
  <1>2. \A b \in DOMAIN out.branch : RenderBranch(db', b) = RenderBranch(db, b)
    BY RenderBranchStays
  <1> QED BY <1>1, <1>2 DEF Inv, OutShape, NoStaleExport

-------------------------------------------------------------------------------
(* Sources.                                                                *)

(* d with the record l added.                                              *)
Recorded(d, e, l, corrects) ==
  /\ DOMAIN e = Tables /\ LogsSound(e) /\ Extends(d, e)
  /\ DOMAIN e.logs = DOMAIN d.logs \cup {l} /\ e.logs[l].corrects = corrects
  /\ \A k \in DOMAIN d.logs : e.logs[k] = d.logs[k]
  /\ e.facts = d.facts /\ e.gaps = d.gaps /\ e.clashes = d.clashes
  /\ e.snaps = d.snaps /\ e.branches = d.branches /\ e.jds = d.jds

LEMMA RecordFacts ==
  ASSUME NEW d, DOMAIN d = Tables, LogsSound(d), NEW l \in Logs \ DOMAIN d.logs,
         NEW corrects \in DOMAIN d.logs \cup {None}, NEW items \in SUBSET Strengths,
         NEW at \in Instants
  PROVE  Recorded(d, Record(d, l, corrects, items, at), l, corrects)
  <1> DEFINE e == Record(d, l, corrects, items, at)
             row == [corrects |-> corrects, items |-> items, at |-> at]
  <1>1. DOMAIN e = Tables
    BY DEF Record
  <1>2. e.logs = Join(d.logs, Row(l, row))
    BY DEF Record, Tables
  <1>3. /\ DOMAIN e.logs = DOMAIN d.logs \cup {l} /\ e.logs[l] = row
        /\ \A k \in DOMAIN d.logs : e.logs[k] = d.logs[k]
    BY <1>2 DEF Join, Row
  <1>4. /\ e.facts = d.facts /\ e.gaps = d.gaps /\ e.clashes = d.clashes
        /\ e.snaps = d.snaps /\ e.branches = d.branches /\ e.jds = d.jds
    BY DEF Record, Tables
  <1> HIDE DEF e
  <1>5. LogsSound(e)
    BY <1>3 DEF LogsSound, LogRow
  <1>6. Extends(d, e)
    BY <1>3 DEF Extends
  <1>7. Recorded(d, e, l, corrects)
    BY <1>1, <1>3, <1>4, <1>5, <1>6 DEF Recorded
  <1> QED BY <1>7 DEF e

LEMMA RecordGrows ==
  ASSUME NEW d, Sound(d), NEW l \in Logs \ DOMAIN d.logs, NEW items \in SUBSET Strengths,
         NEW at \in Instants
  PROVE  Sound(Record(d, l, None, items, at)) /\ Grows(d, Record(d, l, None, items, at))
  <1> DEFINE e == Record(d, l, None, items, at)
  <1>1. Recorded(d, e, l, None)
    <2>1. None \in DOMAIN d.logs \cup {None} /\ LogsSound(d) /\ DOMAIN d = Tables
      BY DEF Sound
    <2> QED BY <2>1, RecordFacts
  <1> HIDE DEF e
  <1>2. Grows(d, e)
    BY <1>1 DEF Grows, Recorded
  <1>3. FactsStay(d, e)
    BY <1>1 DEF Recorded, FactsStay
  <1>4. Sound(e)
    BY <1>1, <1>2, <1>3, GrownSound DEF Sound, Recorded
  <1> QED BY <1>2, <1>4 DEF e

LEMMA CaptureKept ==
  ASSUME Inv, NEW l \in Logs, NEW items \in Captures, Capture(l, items)
  PROVE  Inv'
  <1> DEFINE e == Record(db, l, None, items, "before")
  <1>1. items \in SUBSET Strengths /\ l \in Logs \ DOMAIN db.logs /\ "before" \in Instants
    BY CapturesAssumption DEF Capture, Instants
  <1>2. Sound(e) /\ Grows(db, e)
    BY <1>1, RecordGrows DEF Inv
  <1>3. /\ e.facts = db.facts /\ e.gaps = db.gaps /\ e.clashes = db.clashes
        /\ e.snaps = db.snaps /\ e.branches = db.branches
    BY DEF Record, Inv, Sound, Tables
  <1>4. db' = Settled(e, db) /\ UNCHANGED <<out, reading>>
    BY DEF Capture
  <1> HIDE DEF e
  <1>5. Same(e, db')
    BY <1>2, <1>4, SettledSame DEF Sound
  <1>6. Sound(db')
    BY <1>2, <1>5, SoundSame
  <1>7. OutShape' /\ NoStaleExport'
    BY <1>3, <1>4, <1>5, OutKept DEF Same, FactsStay
  <1> QED BY <1>4, <1>6, <1>7 DEF Inv, ReadingSound

(* The facts a correction leaves reach no record of the corrected lineage, *)
(* so none of the records they rest on is displaced by it.                 *)
LEMMA CorrectKept ==
  ASSUME Inv, NEW l \in Logs, NEW target \in DOMAIN db.logs, NEW items \in Captures,
         Correct(l, target, items)
  PROVE  Inv'
  <1> DEFINE members == Lineage(db, Root(db, target))
             gone == FactsOf(db, members)
             clear == WithoutAnalysis(db)
             kept == [clear EXCEPT !.facts = Without(@, gone)]
             e == Record(kept, l, target, items, "before")
  <1>1. items \in SUBSET Strengths /\ l \in Logs \ DOMAIN db.logs /\ "before" \in Instants
    BY CapturesAssumption DEF Correct, Instants
  <1>2. Cleared(clear) /\ clear.logs = db.logs /\ clear.facts = db.facts /\ clear.jds = db.jds
    BY WithoutAnalysisFacts DEF Inv, Sound
  <1>3. db' = Settled(e, db) /\ Cleanup(DOMAIN db.snaps, DOMAIN db.branches) /\ UNCHANGED reading
    BY DEF Correct
  <1> HIDE DEF clear
  <1>4. /\ Cleared(kept) /\ kept.logs = db.logs /\ kept.jds = db.jds
        /\ kept.facts = Without(db.facts, gone)
    BY <1>2 DEF Cleared, Tables
  <1> HIDE DEF kept
  <1>5. LogsSound(kept) /\ LogsSound(db)
    BY <1>4 DEF Inv, Sound, LogsSound, LogRow
  <1>6. target \in DOMAIN kept.logs \cup {None} /\ l \in Logs \ DOMAIN kept.logs
    BY <1>1, <1>4
  <1>7. DOMAIN kept = Tables
    BY <1>4 DEF Cleared
  <1>8. Recorded(kept, e, l, target)
    BY <1>1, <1>5, <1>6, <1>7, RecordFacts
  <1> HIDE DEF e
  <1>9. Extends(db, e) /\ Cleared(e)
    BY <1>4, <1>8 DEF Extends, Cleared, Recorded
  <1>10. ASSUME NEW f \in DOMAIN e.facts
         PROVE  f \in DOMAIN db.facts \ gone /\ e.facts[f] = db.facts[f]
    BY <1>4, <1>8 DEF Without, Restrict, Recorded
  <1>11. ASSUME NEW f \in DOMAIN e.facts
         PROVE  SourcesValid(e, e.facts[f])
    <2> HIDE DEF gone
    <2>1. f \in DOMAIN db.facts \ gone /\ e.facts[f] = db.facts[f]
      BY <1>10
    <2>2. SourcesValid(db, db.facts[f])
      BY <2>1 DEF Inv, Sound, FactsSound
    <2>3. ASSUME NEW i \in db.facts[f]
          PROVE  Displaced(e, i[1]) <=> Displaced(db, i[1])
      <3>1. i[1] \notin members
        BY <2>1 DEF gone, FactsOf
      <3>2. i[1] # target
        BY <3>1 DEF Lineage
      <3> QED BY <1>1, <1>4, <1>8, <3>2 DEF Displaced, Recorded
    <2> QED BY <1>5, <1>9, <2>1, <2>2, <2>3, SourcesStay
  <1>12. FactsSound(e)
    BY <1>10, <1>11 DEF FactsSound, Inv, Sound
  <1>13. Sound(e)
    BY <1>4, <1>8, <1>9, <1>12, ClearedSound DEF Inv, Sound, Recorded
  <1>14. Sound(db')
    BY <1>3, <1>8, <1>13, SettledSame, SoundSame DEF Recorded
  <1> QED BY <1>3, <1>14, CleanedAll DEF Inv, ReadingSound

LEMMA ReadClockKept ==
  ASSUME Inv, NEW g \in Gaps, ReadClock(g)
  PROVE  Inv'
  <1>1. UNCHANGED <<db, out>> /\ reading' \in [gap : Gaps, at : Instants]
    BY DEF ReadClock, Instants
  <1> QED BY <1>1 DEF Inv, ReadingSound, OutShape, NoStaleExport

LEMMA GiveUpKept ==
  ASSUME Inv, GiveUp
  PROVE  Inv'
  BY DEF GiveUp, Inv, ReadingSound, OutShape, NoStaleExport

LEMMA EmptySound == Sound(Empty)
  <1>1. /\ DOMAIN Empty = Tables /\ Empty.logs = <<>> /\ Empty.facts = <<>> /\ Empty.gaps = <<>>
        /\ Empty.clashes = <<>> /\ Empty.snaps = <<>> /\ Empty.branches = <<>> /\ Empty.jds = {}
    BY DEF Empty, Tables
  <1>2. Cleared(Empty)
    BY <1>1 DEF Cleared
  <1>3. LogsSound(Empty) /\ FactsSound(Empty) /\ Empty.jds \subseteq Vacancies
    BY <1>1 DEF LogsSound, FactsSound
  <1> QED BY <1>2, <1>3, ClearedSound

LEMMA DeleteLogKept ==
  ASSUME Inv, NEW l \in Logs, DeleteLog(l)
  PROVE  Inv'
  <1> DEFINE clear == WithoutAnalysis(db)
             left == [k \in DOMAIN db.logs \ {l} |-> Unlinked(db.logs[k], l)]
  <1>1. Cleared(clear) /\ clear.jds = db.jds
    BY WithoutAnalysisFacts DEF Inv, Sound
  <1>2. /\ db' = [clear EXCEPT !.facts = <<>>, !.detected = None, !.logs = left]
        /\ out' = [assess |-> <<>>, branch |-> <<>>] /\ UNCHANGED reading
    BY DEF DeleteLog
  <1> HIDE DEF clear, left
  <1>3. db'.logs = left /\ db'.facts = <<>> /\ Cleared(db') /\ db'.jds = db.jds
    BY <1>1, <1>2 DEF Cleared, Tables
  <1>4. ASSUME NEW k \in DOMAIN left
        PROVE  left[k] \in [corrects : DOMAIN left \cup {None}, items : SUBSET Strengths,
                            at : Instants]
    <2>1. DOMAIN left = DOMAIN db.logs \ {l} /\ left[k] = Unlinked(db.logs[k], l)
      BY <1>4 DEF left
    <2>2. db.logs[k] \in LogRow(db)
      BY <2>1 DEF Inv, Sound, LogsSound
    <2> QED BY <2>1, <2>2 DEF Unlinked, LogRow
  <1>5. LogsSound(db')
    BY <1>3, <1>4 DEF LogsSound, LogRow, Inv, Sound, left
  <1>6. Sound(db')
    BY <1>3, <1>5, ClearedSound DEF FactsSound, Inv, Sound
  <1> QED BY <1>2, <1>6 DEF Inv, ReadingSound, OutShape, NoStaleExport

LEMMA PurgeKept ==
  ASSUME Inv, Purge
  PROVE  Inv'
  <1>1. db' = Empty /\ out' = [assess |-> <<>>, branch |-> <<>>] /\ UNCHANGED reading
    BY DEF Purge
  <1>2. Sound(db')
    BY <1>1, EmptySound
  <1> QED BY <1>1, <1>2 DEF Inv, ReadingSound, OutShape, NoStaleExport

(* Some sets were removed or reported, the others still reflect the rows.  *)
LEMMA CleanedReflecting ==
  ASSUME Inv, NEW S, NEW B, Cleanup(S, B),
         \A s \in DOMAIN out.assess \ S :
           s \in DOMAIN db'.snaps /\ RenderAssessment(db', s) = RenderAssessment(db, s),
         \A b \in DOMAIN out.branch \ B :
           b \in DOMAIN db'.branches /\ Reflects(RenderBranch(db', b), out.branch[b])
  PROVE  OutShape' /\ NoStaleExport'
  <1>1. /\ DOMAIN out' = {"assess", "branch"}
        /\ out'.assess = Without(out.assess, S) /\ out'.branch = Without(out.branch, B)
    BY DEF Cleanup
  <1>2. /\ DOMAIN out'.assess = DOMAIN out.assess \ S
        /\ \A s \in DOMAIN out'.assess : out'.assess[s] = out.assess[s]
    BY <1>1 DEF Without, Restrict
  <1>3. /\ DOMAIN out'.branch = DOMAIN out.branch \ B
        /\ \A b \in DOMAIN out'.branch : out'.branch[b] = out.branch[b]
    BY <1>1 DEF Without, Restrict
  <1> QED BY <1>1, <1>2, <1>3 DEF Inv, OutShape, NoStaleExport

LEMMA CleanedSome ==
  ASSUME Inv, NEW S, NEW B, Cleanup(S, B),
         \A s \in DOMAIN out.assess \ S :
           s \in DOMAIN db'.snaps /\ RenderAssessment(db', s) = RenderAssessment(db, s),
         \A b \in DOMAIN out.branch \ B :
           b \in DOMAIN db'.branches /\ RenderBranch(db', b) = RenderBranch(db, b)
  PROVE  OutShape' /\ NoStaleExport'
  BY CleanedReflecting DEF Inv, NoStaleExport

LEMMA BranchShown ==
  ASSUME Inv, NEW b \in DOMAIN out.branch, FactsStay(db, db'), db'.gaps = db.gaps,
         db'.clashes = db.clashes, db'.snaps = db.snaps, b \in DOMAIN db'.branches, db'.branches[b] = db.branches[b]
  PROVE  RenderBranch(db', b) = RenderBranch(db, b)
  BY RenderBranchStays

(* An answer is a new record, displaced by nothing; the gap was open, so   *)
(* the snapshot that does not list it cannot be the current one.           *)
LEMMA AnswerKept ==
  ASSUME Inv, NEW l \in Logs, Answer(l)
  PROVE  Inv'
  <1> DEFINE g == reading.gap
             e == Record(db, l, None, {Manual}, reading.at)
             a == [e EXCEPT !.gaps[g].answer = l]
  <1>1. /\ reading \in [gap : Gaps, at : Instants] /\ l \in Logs \ DOMAIN db.logs
        /\ g \in DOMAIN db.gaps /\ db.gaps[g].answer = None
        /\ db' = Settled(a, db) /\ Cleanup(DOMAIN db.snaps, {}) /\ reading' = None
    BY DEF Answer, Answerable, Inv, ReadingSound
  <1>2. reading.at \in Instants /\ {Manual} \in SUBSET Strengths
    BY <1>1, ManualAssumption
  <1>3. Sound(e) /\ Grows(db, e)
    BY <1>1, <1>2, RecordGrows DEF Inv
  <1>4. Recorded(db, e, l, None)
    BY <1>1, <1>2, RecordFacts DEF Inv, Sound
  <1> HIDE DEF e, g
  <1>5. /\ DOMAIN a = Tables /\ a.logs = e.logs /\ a.facts = e.facts /\ a.clashes = e.clashes
        /\ a.snaps = e.snaps /\ a.branches = e.branches /\ a.jds = e.jds
        /\ a.gaps = [e.gaps EXCEPT ![g].answer = l]
    BY <1>4 DEF Recorded, Tables
  <1> HIDE DEF a
  <1>6. /\ DOMAIN a.gaps = DOMAIN e.gaps /\ a.gaps[g] = [e.gaps[g] EXCEPT !.answer = l]
        /\ \A h \in DOMAIN e.gaps \ {g} : a.gaps[h] = e.gaps[h]
    BY <1>1, <1>4, <1>5 DEF Recorded
  <1>7. LogsSound(a) /\ Grows(e, a) /\ FactsStay(e, a)
    BY <1>3, <1>5 DEF Sound, LogsSound, LogRow, Grows, Extends, FactsStay
  <1>8. l \in Effective(a)
    <2>1. l # None /\ l \notin DOMAIN db.logs
      BY <1>1, NoneAssumption
    <2>2. \A k \in DOMAIN db.logs : db.logs[k].corrects # l
      BY <2>1 DEF Inv, Sound, LogsSound, LogRow
    <2> QED BY <1>4, <1>5, <2>1, <2>2 DEF Recorded, Effective, Displaced
  <1>9. GapsSound(a)
    <2>1. ASSUME NEW h \in DOMAIN e.gaps
          PROVE  /\ a.gaps[h] \in GapRow /\ a.gaps[h].target = e.gaps[h].target
                 /\ a.gaps[h].answer = None \/ a.gaps[h].answer \in Effective(a)
      <3>1. /\ e.gaps[h] \in GapRow
            /\ e.gaps[h].answer = None \/ e.gaps[h].answer \in Effective(e)
        BY <1>3 DEF Sound, GapsSound
      <3>2. e.gaps[h].answer \in Effective(e) => e.gaps[h].answer \in Effective(a)
        BY <1>3, <1>7, EffectiveStays DEF Sound
      <3> QED BY <1>1, <1>6, <1>8, <3>1, <3>2 DEF GapRow
    <2>2. ASSUME NEW h \in DOMAIN e.gaps
          PROVE  ReferenceValid(a, a.gaps[h].target)
      <3>1. e.gaps[h].target \in Refs /\ ReferenceValid(e, e.gaps[h].target)
        BY <1>3 DEF Sound, GapsSound, GapRow
      <3> QED BY <1>3, <1>5, <1>7, <2>1, <3>1, ReferenceStays DEF Sound
    <2> QED BY <1>3, <1>6, <2>1, <2>2 DEF GapsSound, Sound
  <1>10. SnapsSound(a)
    <2>1. ASSUME NEW h \in DOMAIN e.gaps, AnsweredBefore(e, h)
          PROVE  AnsweredBefore(a, h)
      <3>1. h # g
        <4>1. e.gaps[g].answer = None /\ None \notin DOMAIN e.logs
          BY <1>1, <1>3, <1>4, LogsClosed DEF Recorded, Sound
        <4> QED BY <2>1, <4>1 DEF AnsweredBefore
      <3> QED BY <1>5, <1>6, <2>1, <3>1 DEF AnsweredBefore
    <2> QED BY <1>3, <1>5, <1>6, <2>1, SnapsKept DEF Sound
  <1>11. FactsSound(a) /\ ClashesSound(a) /\ BranchesSound(a)
    BY <1>3, <1>5, <1>7, FactsKept, ClashesKept, BranchesKept DEF Sound
  <1>12. Sound(a)
    BY <1>3, <1>5, <1>7, <1>9, <1>10, <1>11 DEF Sound
  <1>13. Same(a, db')
    BY <1>1, <1>5, SettledSame
  <1>14. Sound(db')
    BY <1>12, <1>13, SoundSame
  <1>15. /\ FactsStay(db, db') /\ db'.snaps = db.snaps /\ db'.branches = db.branches
         /\ db'.gaps = a.gaps /\ db'.clashes = db.clashes
    BY <1>4, <1>5, <1>13 DEF Recorded, Same, FactsStay
  <1>16. OutShape' /\ NoStaleExport'
    <2>1. /\ DOMAIN out.assess \subseteq DOMAIN db.snaps
          /\ DOMAIN out.branch \subseteq DOMAIN db.branches
      BY DEF Inv, NoStaleExport
    <2>2. ASSUME NEW b \in DOMAIN out.branch
          PROVE  Reflects(RenderBranch(db', b), out.branch[b])
      <3> DEFINE snap == db.snaps[db.branches[b].anchor]
                 was == RenderBranch(db, b)
                 now == RenderBranch(db', b)
      <3>1. /\ was.gaps = Restrict(db.gaps, snap.gaps)
            /\ now.gaps = Restrict(db'.gaps, snap.gaps)
            /\ now = [was EXCEPT !.gaps = now.gaps]
        <4> DEFINE F == (ClaimFacts(snap) \cup BulletFacts(db.branches[b])) \cap DOMAIN db.facts
        <4>1. F = (ClaimFacts(snap) \cup BulletFacts(db.branches[b])) \cap DOMAIN db'.facts
          BY <1>15 DEF FactsStay
        <4>2. Restrict(db'.facts, F) = Restrict(db.facts, F)
          BY <1>15 DEF Restrict, FactsStay
        <4>3. was = [branch |-> db.branches[b], claims |-> Shown(snap), status |-> snap.status,
                     facts |-> Restrict(db.facts, F), gaps |-> Restrict(db.gaps, snap.gaps),
                     clashes |-> Restrict(db.clashes, snap.clashes)]
          BY DEF RenderBranch
        <4> HIDE DEF F
        <4>4. now = [branch |-> db.branches[b], claims |-> Shown(snap), status |-> snap.status,
                     facts |-> Restrict(db'.facts, F), gaps |-> Restrict(db'.gaps, snap.gaps),
                     clashes |-> Restrict(db.clashes, snap.clashes)]
          BY <1>15, <4>1 DEF RenderBranch, F
        <4> HIDE DEF was, now, snap
        <4> QED BY <4>2, <4>3, <4>4
      <3>2. Reflects(was, out.branch[b])
        BY DEF Inv, NoStaleExport
      <3>3. AnsweredSince(was.gaps, now.gaps)
        <4>1. DOMAIN a.gaps = DOMAIN db.gaps
          BY <1>4, <1>6 DEF Recorded
        <4>2. ASSUME NEW h \in DOMAIN db.gaps
              PROVE  \/ a.gaps[h] = db.gaps[h]
                     \/ db.gaps[h].answer = None /\ a.gaps[h].target = db.gaps[h].target
          <5>1. db.gaps[h] \in GapRow
            BY DEF Inv, Sound, GapsSound
          <5> QED BY <1>1, <1>4, <1>6, <5>1 DEF Recorded, GapRow, g
        <4>3. Restrict(db.gaps, snap.gaps) = [h \in snap.gaps |-> db.gaps[h]]
          BY DEF Restrict
        <4>4. Restrict(db'.gaps, snap.gaps) = [h \in snap.gaps |-> a.gaps[h]]
          BY <1>15 DEF Restrict
        <4>5. snap.gaps \subseteq DOMAIN db.gaps
          <5>1. b \in DOMAIN db.branches /\ BranchSound(db, db.branches[b])
            BY <2>1 DEF Inv, Sound, BranchesSound
          <5> QED BY <5>1 DEF Inv, Sound, SnapsSound, SnapSound, BranchSound
        <4> HIDE DEF was, now, snap
        <4> QED BY <3>1, <4>2, <4>3, <4>4, <4>5 DEF AnsweredSince
      <3> HIDE DEF was, now
      <3>4. AnsweredSince(out.branch[b].gaps, now.gaps)
        BY <3>2, <3>3 DEF AnsweredSince, Reflects
      <3>5. out.branch[b] = [now EXCEPT !.gaps = out.branch[b].gaps]
        <4>1. \A x : [was EXCEPT !.gaps = x] = [now EXCEPT !.gaps = x]
          BY <3>1
        <4> QED BY <3>2, <4>1 DEF Reflects
      <3> QED BY <3>4, <3>5 DEF Reflects, now
    <2> QED BY <1>1, <1>15, <2>1, <2>2, CleanedReflecting
  <1> QED BY <1>1, <1>14, <1>16 DEF Inv, ReadingSound

-------------------------------------------------------------------------------
(* Facts and detection rows.                                               *)

LEMMA RowsFacts ==
  ASSUME NEW pool, NEW held, NEW values, NEW rows \in Rows(pool, held, values)
  PROVE  /\ DOMAIN rows \subseteq pool \ held
         /\ \A i \in DOMAIN rows : rows[i] \in values
         /\ Range(rows) = values
  BY DEF Rows

LEMMA SameLogs ==
  ASSUME NEW d, NEW e, LogsSound(d), e.logs = d.logs
  PROVE  LogsSound(e) /\ Grows(d, e)
  BY DEF LogsSound, LogRow, Grows, Extends

LEMMA SourcesSame ==
  ASSUME NEW d, NEW e, LogsSound(d), e.logs = d.logs, NEW items, SourcesValid(d, items)
  PROVE  SourcesValid(e, items)
  <1>1. \A i \in items : Displaced(e, i[1]) <=> Displaced(d, i[1])
    BY DEF Displaced
  <1> QED BY <1>1, SameLogs, SourcesStay DEF Grows

(* The lineages that lose their facts, or receive others.                  *)
LEMMA ExtractKept ==
  ASSUME Inv, NEW roots, NEW selected \in SUBSET Selections(db, roots), Extract(roots, selected)
  PROVE  Inv'
  <1> DEFINE gone == FactsOf(db, UNION {Lineage(db, r) : r \in roots})
             idle == gone = {} /\ selected = {}
             clear == WithoutAnalysis(db)
             base == IF idle THEN db ELSE clear
  <1> HIDE DEF gone
  <1>1. PICK new \in Rows(Facts, HeldFacts(db), selected) :
          /\ db' = Settled([base EXCEPT !.facts = Join(Without(@, gone), new)], db)
          /\ IF idle THEN UNCHANGED out ELSE Cleanup(DOMAIN db.snaps, DOMAIN db.branches)
          /\ UNCHANGED reading
    BY DEF Extract, gone
  <1> DEFINE e == [base EXCEPT !.facts = Join(Without(@, gone), new)]
  <1>2. /\ DOMAIN new \subseteq Facts /\ Range(new) = selected
        /\ \A f \in DOMAIN new : SourcesValid(db, new[f])
    BY RowsFacts DEF Selections
  <1>3. Cleared(clear) /\ clear.logs = db.logs /\ clear.facts = db.facts /\ clear.jds = db.jds
    BY WithoutAnalysisFacts DEF Inv, Sound
  <1>4. Sound(db) /\ LogsSound(db) /\ DOMAIN db = Tables
    BY DEF Inv, Sound
  <1> HIDE DEF clear
  <1>5. DOMAIN base = Tables /\ base.logs = db.logs /\ base.facts = db.facts /\ base.jds = db.jds
    BY <1>3, <1>4 DEF Cleared
  <1>6. /\ DOMAIN e = Tables /\ e.logs = db.logs /\ e.jds = db.jds
        /\ e.facts = Join(Without(db.facts, gone), new)
        /\ e.gaps = base.gaps /\ e.clashes = base.clashes /\ e.snaps = base.snaps
        /\ e.branches = base.branches
    BY <1>5 DEF Tables
  <1> HIDE DEF e
  <1>7. /\ DOMAIN e.facts = (DOMAIN db.facts \ gone) \cup DOMAIN new
        /\ \A f \in DOMAIN db.facts \ gone : e.facts[f] = db.facts[f]
        /\ \A f \in DOMAIN e.facts \ (DOMAIN db.facts \ gone) : e.facts[f] = new[f]
    BY <1>6 DEF Join, Without, Restrict
  <1>8. Sound(e) /\ OutShape' /\ NoStaleExport'
    <2>1. CASE idle
      <3>1. DOMAIN new = {}
        BY <1>2, <2>1 DEF Range
      <3>2. FactsStay(db, e)
        BY <1>7, <2>1, <3>1 DEF FactsStay
      <3>3. /\ e.gaps = db.gaps /\ e.clashes = db.clashes /\ e.snaps = db.snaps
            /\ e.branches = db.branches
        BY <1>6, <2>1
      <3>4. Sound(e)
        BY <1>4, <1>6, <3>2, <3>3, SameLogs, GrownSound DEF Sound
      <3>5. Same(e, db') /\ UNCHANGED out
        BY <1>1, <1>6, <2>1, SettledSame DEF e
      <3>6. FactsStay(db, db')
        BY <3>2, <3>5 DEF Same, FactsStay
      <3> QED BY <3>3, <3>4, <3>5, <3>6, OutKept DEF Same
    <2>2. CASE ~ idle
      <3>1. Cleared(e)
        BY <1>3, <1>6, <2>2 DEF Cleared
      <3>2. ASSUME NEW f \in DOMAIN e.facts
            PROVE  f \in Facts /\ SourcesValid(e, e.facts[f])
        <4>1. f \in Facts /\ SourcesValid(db, e.facts[f])
          BY <1>2, <1>4, <1>7 DEF Sound, FactsSound
        <4> QED BY <1>4, <1>6, <4>1, SourcesSame
      <3>3. Sound(e)
        BY <1>4, <1>6, <3>1, <3>2, SameLogs, ClearedSound DEF FactsSound, Sound
      <3> QED BY <1>1, <2>2, <3>3, CleanedAll
    <2> QED BY <2>1, <2>2
  <1>9. Sound(db')
    BY <1>1, <1>6, <1>8, SettledSame, SoundSame DEF e
  <1> QED BY <1>1, <1>8, <1>9 DEF Inv, ReadingSound

LEMMA RetainKept ==
  ASSUME Inv, Retain
  PROVE  Inv'
  BY DEF Retain, vars, Inv, ReadingSound, OutShape, NoStaleExport

LEMMA TargetFacts ==
  ASSUME NEW d, DOMAIN d.facts \subseteq Facts, LogsSound(d), NEW types,
         NEW t \in Targets(d, types)
  PROVE  t \in Refs /\ ReferenceValid(d, t)
  <1>1. ReferenceValid(d, t)
    BY DEF Targets
  <1>2. CASE \E f \in DOMAIN d.facts : t = FactRef(f)
    BY <1>1, <1>2 DEF FactRef, Refs
  <1>3. CASE \E l \in DOMAIN d.logs : t = LogRef(l)
    BY <1>1, <1>3 DEF LogRef, Refs, LogsSound
  <1>4. CASE \E i \in Items(d) : t = ItemRef(i)
    <2>1. PICK i \in Items(d) : t = ItemRef(i)
      BY <1>4
    <2>2. i \in Logs \X Strengths
      BY ItemFacts DEF LogsSound, LogRow
    <2> QED BY <1>1, <2>1, <2>2 DEF ItemRef, Refs
  <1> QED BY <1>1, <1>2, <1>3, <1>4 DEF Targets

LEMMA AtMostFacts ==
  ASSUME NEW n, NEW S, NEW T \in AtMost(n, S)
  PROVE  T \subseteq S
  <1>1. CASE \E f \in [1 .. n -> S] : T = Range(f)
    BY <1>1 DEF Range
  <1> QED BY <1>1 DEF AtMost

(* Either set is the one it was or asks of current rows only.              *)
LEMMA DetectKept ==
  ASSUME Inv, NEW targets, NEW pairs, Detect(targets, pairs),
         targets \subseteq Targets(db, RefTypes),
         pairs \subseteq kSubset(2, Targets(db, ClashTypes))
  PROVE  Inv'
  <1> DEFINE keepGaps == targets = GapKeys(db) /\ Open(db) = DOMAIN db.gaps
             keepClashes == pairs = Range(db.clashes)
             asked == {[target |-> t, answer |-> None] : t \in targets}
             call == [facts |-> DOMAIN db.facts, logs |-> Effective(db), live |-> TRUE]
             clear == WithoutAnalysis(db)
  <1>1. PICK gaps \in IF keepGaps THEN {db.gaps} ELSE Rows(Gaps, HeldGaps(db), asked),
             clashes \in IF keepClashes THEN {db.clashes}
                           ELSE Rows(Clashes, HeldClashes(db), pairs) :
          IF keepGaps /\ keepClashes
            THEN db' = [db EXCEPT !.detected = call] /\ UNCHANGED out
            ELSE /\ db' = [clear EXCEPT !.gaps = gaps, !.clashes = clashes, !.detected = call]
                 /\ Cleanup(DOMAIN db.snaps, DOMAIN db.branches)
    BY DEF Detect
  <1>2. UNCHANGED reading
    BY DEF Detect
  <1>3. Sound(db) /\ LogsSound(db) /\ DOMAIN db = Tables /\ DOMAIN db.facts \subseteq Facts
    BY DEF Inv, Sound, FactsSound
  <1> HIDE DEF keepGaps, keepClashes, call
  <1>4. CASE keepGaps /\ keepClashes
    <2>1. Same(db, db') /\ UNCHANGED out
      BY <1>1, <1>3, <1>4 DEF Same, Tables
    <2>2. Sound(db')
      BY <1>3, <2>1, SoundSame
    <2>3. OutShape' /\ NoStaleExport'
      BY <2>1, OutKept DEF Same, FactsStay
    <2> QED BY <1>2, <2>2, <2>3 DEF Inv, ReadingSound
  <1>5. CASE ~ (keepGaps /\ keepClashes)
    <2>1. Cleared(clear) /\ clear.logs = db.logs /\ clear.facts = db.facts /\ clear.jds = db.jds
      BY <1>3, WithoutAnalysisFacts
    <2>2. /\ db' = [clear EXCEPT !.gaps = gaps, !.clashes = clashes, !.detected = call]
          /\ Cleanup(DOMAIN db.snaps, DOMAIN db.branches)
      BY <1>1, <1>5
    <2> HIDE DEF clear
    <2>3. /\ DOMAIN db' = Tables /\ db'.logs = db.logs /\ db'.facts = db.facts
          /\ db'.jds = db.jds /\ db'.gaps = gaps /\ db'.clashes = clashes
          /\ DOMAIN db'.snaps = {} /\ DOMAIN db'.branches = {}
      BY <2>1, <2>2 DEF Cleared, Tables
    <2>4. LogsSound(db') /\ Grows(db, db') /\ FactsStay(db, db')
      BY <1>3, <2>3, SameLogs DEF FactsStay
    <2>5. GapsSound(db')
      <3>1. CASE keepGaps
        <4>1. db'.gaps = db.gaps
          BY <1>1, <2>3, <3>1
        <4> QED BY <1>3, <2>3, <2>4, <4>1, GapsKept DEF Sound
      <3>2. CASE ~ keepGaps
        <4>1. /\ DOMAIN gaps \subseteq Gaps
              /\ \A g \in DOMAIN gaps : gaps[g] \in asked
          BY <1>1, <3>2, RowsFacts
        <4>2. ASSUME NEW g \in DOMAIN gaps
              PROVE  /\ gaps[g] \in GapRow /\ gaps[g].answer = None
                     /\ ReferenceValid(db', gaps[g].target)
          <5>1. PICK t \in targets : gaps[g] = [target |-> t, answer |-> None]
            BY <4>1
          <5>2. t \in Refs /\ ReferenceValid(db, t)
            BY <1>3, TargetFacts
          <5>3. ReferenceValid(db', t)
            BY <1>3, <2>3, <2>4, <5>2, ReferenceStays
          <5> QED BY <5>1, <5>2, <5>3 DEF GapRow
        <4> QED BY <2>3, <4>1, <4>2 DEF GapsSound
      <3> QED BY <3>1, <3>2
    <2>6. ClashesSound(db')
      <3>1. CASE keepClashes
        <4>1. db'.clashes = db.clashes
          BY <1>1, <2>3, <3>1
        <4> QED BY <1>3, <2>3, <2>4, <4>1, ClashesKept DEF Sound
      <3>2. CASE ~ keepClashes
        <4>1. /\ DOMAIN clashes \subseteq Clashes
              /\ \A x \in DOMAIN clashes : clashes[x] \in pairs
          BY <1>1, <3>2, RowsFacts
        <4>2. ASSUME NEW x \in DOMAIN clashes
              PROVE  /\ Cardinality(clashes[x]) = 2
                     /\ \A t \in clashes[x] : t \in Refs /\ ReferenceValid(db', t)
          <5>1. Cardinality(clashes[x]) = 2 /\ clashes[x] \subseteq Targets(db, ClashTypes)
            BY <4>1 DEF kSubset
          <5>2. ASSUME NEW t \in clashes[x]
                PROVE  t \in Refs /\ ReferenceValid(db', t)
            <6>1. t \in Refs /\ ReferenceValid(db, t)
              BY <1>3, <5>1, TargetFacts
            <6> QED BY <1>3, <2>3, <2>4, <6>1, ReferenceStays
          <5> QED BY <5>1, <5>2
        <4> QED BY <2>3, <4>1, <4>2 DEF ClashesSound
      <3> QED BY <3>1, <3>2
    <2>7. FactsSound(db')
      BY <1>3, <2>4, FactsKept DEF Sound
    <2>8. Sound(db')
      BY <1>3, <2>3, <2>4, <2>5, <2>6, <2>7 DEF Sound, SnapsSound, BranchesSound
    <2> QED BY <1>2, <2>2, <2>8, CleanedAll DEF Inv, ReadingSound
  <1> QED BY <1>4, <1>5

-------------------------------------------------------------------------------
(* The assessment.                                                         *)

LEMMA WithoutFacts ==
  ASSUME NEW rows, NEW gone
  PROVE  /\ DOMAIN Without(rows, gone) = DOMAIN rows \ gone
         /\ \A i \in DOMAIN rows \ gone : Without(rows, gone)[i] = rows[i]
  BY DEF Without, Restrict

LEMMA JoinRow ==
  ASSUME NEW rows, NEW id, id \notin DOMAIN rows, NEW row
  PROVE  /\ DOMAIN Join(rows, Row(id, row)) = DOMAIN rows \cup {id}
         /\ Join(rows, Row(id, row))[id] = row
         /\ \A i \in DOMAIN rows : Join(rows, Row(id, row))[i] = rows[i]
  BY DEF Join, Row

LEMMA AggregateUnverified ==
  ASSUME NEW S, "unverified" \in S
  PROVE  Aggregate(S) = "unverified"
  BY DEF Aggregate

LEMMA AggregateTyped ==
  ASSUME NEW S, S \subseteq Statuses, S # {}
  PROVE  Aggregate(S) \in Statuses
  <1>1. CASE "unverified" \in S
    BY <1>1, AggregateUnverified DEF Statuses
  <1>2. CASE "unverified" \notin S
    <2> DEFINE First(n) == /\ Precedence[n] \in S
                           /\ \A m \in 1 .. (n - 1) : Precedence[m] \notin S
    <2>1. DOMAIN Precedence = 1 .. 7
      BY DEF Precedence
    <2>2. \E n \in 1 .. 7 : Precedence[n] \in S
      BY <1>2, <2>1 DEF Statuses
    <2> DEFINE T == {n \in 1 .. 7 : Precedence[n] \in S}
    <2>3. PICK n \in T : \A m \in T : ~ (m < n)
      <3>1. T \in SUBSET Nat /\ T # {}
        BY <2>2
      <3> HIDE DEF T
      <3> QED BY <3>1, LeastNat
    <2>4. n \in DOMAIN Precedence /\ First(n)
      BY <2>1, <2>3
    <2>5. (CHOOSE k \in DOMAIN Precedence : First(k)) \in DOMAIN Precedence
      BY <2>4, Zenon
    <2>6. Aggregate(S) = Precedence[CHOOSE k \in DOMAIN Precedence : First(k)]
      BY <1>2 DEF Aggregate
    <2> HIDE DEF First
    <2> QED BY <2>5, <2>6 DEF Statuses
  <1> QED BY <1>1, <1>2

(* The view that is written replaces the only one, and with it every       *)
(* branch and every published set.                                         *)
LEMMA ReplaceKept ==
  ASSUME Inv, NEW claims, NEW was, was = DOMAIN db.snaps, ReplaceView(claims, was),
         DOMAIN claims \subseteq Slots, Narrative \in DOMAIN claims,
         \A c \in DOMAIN claims : ClaimSound(db, claims[c]) /\ claims[c].status = "unverified"
  PROVE  Inv'
  <1>1. PICK s \in Snapshots \ HeldSnapshots(db) :
          /\ db' = Written(db, s, claims, was)
          /\ Cleanup(was, Dependents(db, was))
          /\ reading' = IF reading = None THEN None ELSE [reading EXCEPT !.at = "before"]
    BY DEF ReplaceView
  <1> DEFINE snap == [gaps |-> Open(db), clashes |-> DOMAIN db.clashes, claims |-> claims,
                      status |-> "unverified", summary |-> claims[Narrative].text]
             gone == Dependents(db, was)
             e == [db EXCEPT !.snaps = Join(Without(@, was), Row(s, snap)),
                             !.branches = Without(@, gone)]
  <1>2. Sound(db) /\ LogsSound(db) /\ DOMAIN db = Tables
    BY DEF Inv, Sound
  <1>3. db' = Past(e)
    BY <1>1 DEF Written
  <1>4. gone = DOMAIN db.branches
    BY <1>2 DEF Sound, BranchesSound, BranchSound, Dependents
  <1> HIDE DEF snap, gone
  <1>5. /\ DOMAIN e = Tables /\ e.logs = db.logs /\ e.facts = db.facts /\ e.gaps = db.gaps
        /\ e.clashes = db.clashes /\ e.jds = db.jds
        /\ e.snaps = Join(Without(db.snaps, was), Row(s, snap))
        /\ e.branches = Without(db.branches, gone)
    BY <1>2 DEF Tables
  <1> HIDE DEF e
  <1>6. DOMAIN e.snaps = {s} /\ e.snaps[s] = snap /\ DOMAIN e.branches = {}
    <2>1. DOMAIN Without(db.snaps, was) = {} /\ DOMAIN Without(db.branches, gone) = {}
      BY <1>4 DEF Without, Restrict
    <2>2. DOMAIN Join(Without(db.snaps, was), Row(s, snap)) = {s}
      BY <2>1 DEF Join, Row
    <2>3. Join(Without(db.snaps, was), Row(s, snap))[s] = snap
      BY <2>1 DEF Join, Row
    <2> QED BY <1>5, <2>1, <2>2, <2>3
  <1>7. /\ DOMAIN db' = Tables /\ db'.facts = e.facts /\ db'.gaps = e.gaps
        /\ db'.clashes = e.clashes /\ db'.jds = e.jds /\ db'.snaps = e.snaps
        /\ db'.branches = e.branches
        /\ db'.logs = [l \in DOMAIN e.logs |-> [e.logs[l] EXCEPT !.at = "before"]]
    BY <1>3, <1>5 DEF Past, Tables
  <1>8. /\ DOMAIN db'.logs = DOMAIN db.logs
        /\ \A l \in DOMAIN db.logs :
             /\ db'.logs[l] \in LogRow(db) /\ db'.logs[l].at = "before"
             /\ db'.logs[l].corrects = db.logs[l].corrects
             /\ db'.logs[l].items = db.logs[l].items
    BY <1>2, <1>5, <1>7 DEF LogsSound, LogRow, Instants
  <1>9. LogsSound(db') /\ Grows(db, db') /\ FactsStay(db, db')
    BY <1>2, <1>5, <1>7, <1>8 DEF LogsSound, LogRow, Grows, Extends, FactsStay
  <1>10. FactsSound(db') /\ GapsSound(db') /\ ClashesSound(db')
    BY <1>2, <1>5, <1>7, <1>9, FactsKept, GapsKept, ClashesKept DEF Sound
  <1>11. SnapSound(db', snap)
    <2>1. /\ snap = [gaps |-> snap.gaps, clashes |-> snap.clashes, claims |-> snap.claims,
                     status |-> snap.status, summary |-> snap.summary]
          /\ snap.gaps = Open(db) /\ snap.clashes = DOMAIN db.clashes /\ snap.claims = claims
          /\ snap.status = "unverified" /\ snap.summary = claims[Narrative].text
      BY DEF snap
    <2>2. Aggregate(ClaimStatuses(snap)) = "unverified"
      <3>1. "unverified" \in ClaimStatuses(snap)
        BY <2>1 DEF ClaimStatuses
      <3> QED BY <3>1, AggregateUnverified
    <2>3. ASSUME NEW g \in DOMAIN db.gaps \ Open(db)
          PROVE  AnsweredBefore(db', g)
      <3>1. db.gaps[g].answer \in DOMAIN db.logs
        BY <1>2, <2>3 DEF Open, Sound, GapsSound, Effective
      <3> QED BY <1>5, <1>7, <1>8, <3>1 DEF AnsweredBefore
    <2>4. \A c \in DOMAIN claims : ClaimSound(db', claims[c])
      BY <1>9 DEF ClaimSound, FactsStay
    <2>5. Open(db) \subseteq DOMAIN db.gaps
      BY DEF Open
    <2> QED BY <1>5, <1>7, <2>1, <2>2, <2>3, <2>4, <2>5 DEF SnapSound
  <1>12. Sound(db')
    BY <1>2, <1>5, <1>6, <1>7, <1>9, <1>10, <1>11 DEF Sound, SnapsSound, BranchesSound
  <1>13. OutShape' /\ NoStaleExport'
    BY <1>1, <1>4, CleanedAll DEF gone
  <1>14. ReadingSound'
    BY <1>1 DEF Inv, ReadingSound, Instants
  <1> QED BY <1>12, <1>13, <1>14 DEF Inv

LEMMA GenerateKept ==
  ASSUME Inv, NEW slots \in SUBSET Slots, NEW cited \in [slots -> Citable], Generate(cited)
  PROVE  Inv'
  <1> DEFINE claims == [c \in DOMAIN cited |-> Claim(cited[c], "unverified", {}, "first", FALSE)]
  <1>1. ASSUME NEW c \in DOMAIN claims
        PROVE  ClaimSound(db, claims[c]) /\ claims[c].status = "unverified"
    <2>1. cited[c] # {} /\ cited[c] \subseteq DOMAIN db.facts
      BY AtMostFacts DEF Citable
    <2>2. cited[c] \subseteq Facts
      BY <2>1 DEF Inv, Sound, FactsSound
    <2> QED BY <2>1, <2>2 DEF ClaimSound, ClaimRow, Claim, Statuses, Texts
  <1>2. DOMAIN claims \subseteq Slots /\ Narrative \in DOMAIN claims
    BY DEF Generate
  <1>3. ReplaceView(claims, DOMAIN db.snaps)
    BY DEF Generate
  <1> HIDE DEF claims
  <1> QED BY <1>1, <1>2, <1>3, ReplaceKept

LEMMA SnapFacts ==
  ASSUME Inv, NEW s \in DOMAIN db.snaps
  PROVE  DOMAIN db.snaps = {s} /\ SnapSound(db, db.snaps[s])
  BY DEF Inv, Sound, SnapsSound

LEMMA RepairKept ==
  ASSUME Inv, NEW s \in DOMAIN db.snaps, Repair(s)
  PROVE  Inv'
  <1> DEFINE was == db.snaps[s].claims
             claims == Repaired(was)
  <1>1. DOMAIN db.snaps = {s} /\ SnapSound(db, db.snaps[s])
    BY SnapFacts
  <1>2. DOMAIN claims = DOMAIN was
    BY DEF Repaired
  <1>3. ASSUME NEW c \in DOMAIN claims
        PROVE  ClaimSound(db, claims[c]) /\ claims[c].status = "unverified"
    <2>1. ClaimSound(db, was[c])
      BY <1>1, <1>2 DEF SnapSound
    <2>2. claims[c] = Claim(was[c].facts, "unverified", {},
                            IF c \in Failing(was) THEN "rewritten" ELSE was[c].text, FALSE)
      BY <1>2 DEF Repaired
    <2> QED BY <2>1, <2>2 DEF ClaimSound, ClaimRow, Claim, Statuses, Texts
  <1>4. DOMAIN claims \subseteq Slots /\ Narrative \in DOMAIN claims
    BY <1>1, <1>2 DEF SnapSound
  <1>5. ReplaceView(claims, DOMAIN db.snaps)
    BY <1>1 DEF Repair
  <1> HIDE DEF claims
  <1> QED BY <1>3, <1>4, <1>5, ReplaceKept

LEMMA VerdictFacts ==
  ASSUME Inv, NEW claim, ClaimSound(db, claim), NEW v \in Verdicts(db, claim)
  PROVE  v.status \in Statuses /\ v.contrary \subseteq Refs /\ v.rewrite \in BOOLEAN
  <1>1. ASSUME NEW r \in VerifierBundle(db, claim)
        PROVE  r \in Refs
    <2> DEFINE cited == UNION {db.facts[f] : f \in claim.facts}
    <2>1. ASSUME NEW i \in cited
          PROVE  i[1] \in Logs /\ i \in Logs \X Strengths
      <3>1. PICK f \in claim.facts : i \in db.facts[f]
        OBVIOUS
      <3>2. SourcesValid(db, db.facts[f])
        BY <3>1 DEF ClaimSound, Inv, Sound, FactsSound
      <3>3. i \in Items(db)
        BY <3>1, <3>2 DEF SourcesValid
      <3>4. i[1] \in Logs /\ db.logs[i[1]].items \subseteq Strengths
        BY <3>3, ItemFacts DEF Inv, Sound, LogsSound, LogRow
      <3> QED BY <3>3, <3>4, ItemFacts
    <2>2. CASE \E f \in DOMAIN db.facts : r = FactRef(f)
      BY <2>2 DEF FactRef, Refs, Inv, Sound, FactsSound
    <2>3. CASE \E i \in cited : r = ItemRef(i)
      BY <2>1, <2>3 DEF ItemRef, Refs
    <2>4. CASE \E i \in cited : r = LogRef(i[1])
      BY <2>1, <2>4 DEF LogRef, Refs
    <2> QED BY <2>2, <2>3, <2>4 DEF VerifierBundle
  <1>2. PICK x \in Findings :
          v.status = x.status /\ v.rewrite = x.rewrite /\ v.contrary \subseteq VerifierBundle(db, claim)
    BY DEF Verdicts
  <1>3. x.status \in Statuses /\ x.rewrite \in BOOLEAN
    BY FindingsAssumption
  <1> QED BY <1>1, <1>2, <1>3

(* The claims a verdict may be given to, and what it makes of them.        *)
LEMMA JudgedFacts ==
  ASSUME Inv, NEW claims, NEW verdict,
         \A c \in DOMAIN claims : ClaimSound(db, claims[c]) /\ verdict[c] \in Verdicts(db, claims[c])
  PROVE  /\ DOMAIN Judged(claims, verdict) = DOMAIN claims
         /\ \A c \in DOMAIN claims :
              /\ ClaimSound(db, Judged(claims, verdict)[c])
              /\ Judged(claims, verdict)[c].facts = claims[c].facts
              /\ Judged(claims, verdict)[c].text = claims[c].text
              /\ Judged(claims, verdict)[c].status = verdict[c].status
  <1>1. ASSUME NEW c \in DOMAIN claims
        PROVE  /\ Judged(claims, verdict)[c] = Claim(claims[c].facts, verdict[c].status,
                     verdict[c].contrary, claims[c].text, verdict[c].rewrite)
               /\ verdict[c].status \in Statuses /\ verdict[c].contrary \subseteq Refs
               /\ verdict[c].rewrite \in BOOLEAN
    BY VerdictFacts DEF Judged
  <1>2. ASSUME NEW c \in DOMAIN claims
        PROVE  /\ ClaimSound(db, Judged(claims, verdict)[c])
               /\ Judged(claims, verdict)[c].facts = claims[c].facts
               /\ Judged(claims, verdict)[c].text = claims[c].text
               /\ Judged(claims, verdict)[c].status = verdict[c].status
    <2>1. PICK r \in BOOLEAN : r = verdict[c].rewrite
      BY <1>1
    <2> DEFINE j == Judged(claims, verdict)[c]
    <2>3. j = Claim(claims[c].facts, verdict[c].status, verdict[c].contrary,
                    claims[c].text, r)
      BY <1>1, <2>1
    <2> HIDE DEF j
    <2>2. /\ j \in ClaimRow /\ j.facts = claims[c].facts /\ j.text = claims[c].text
          /\ j.status = verdict[c].status
      BY <1>1, <2>3 DEF ClaimSound, ClaimRow, Claim
    <2> QED BY <2>2 DEF ClaimSound, j
  <1> QED BY <1>2 DEF Judged

(* A verdict that leaves statuses and counterevidence alone shows nowhere. *)
LEMMA VerifyKept ==
  ASSUME Inv, NEW s \in DOMAIN db.snaps, NEW verdict,
         \A c \in DOMAIN db.snaps[s].claims : verdict[c] \in Verdicts(db, db.snaps[s].claims[c]),
         Verify(s, verdict)
  PROVE  Inv'
  <1> DEFINE snap == db.snaps[s]
             claims == Judged(snap.claims, verdict)
             status == Aggregate({verdict[c].status : c \in DOMAIN claims})
             changed == status # snap.status \/ Changed(snap.claims, claims)
             stale == IF changed THEN Dependents(db, {s}) ELSE {}
             e == db'.snaps[s]
  <1>1. /\ db' = [db EXCEPT !.snaps[s].claims = claims, !.snaps[s].status = status,
                            !.branches = Without(@, stale)]
        /\ Cleanup(IF changed THEN {s} ELSE {}, stale) /\ UNCHANGED reading
    BY DEF Verify
  <1>2. Sound(db) /\ LogsSound(db) /\ DOMAIN db = Tables /\ DOMAIN db.snaps = {s}
        /\ SnapSound(db, snap)
    BY SnapFacts DEF Inv, Sound
  <1>3. /\ DOMAIN claims = DOMAIN snap.claims
        /\ \A c \in DOMAIN snap.claims :
             /\ ClaimSound(db, claims[c])
             /\ claims[c].facts = snap.claims[c].facts
             /\ claims[c].text = snap.claims[c].text
             /\ claims[c].status = verdict[c].status
    <2>1. \A c \in DOMAIN snap.claims : ClaimSound(db, snap.claims[c])
      BY <1>2 DEF SnapSound
    <2>2. PICK w : w = snap.claims
      OBVIOUS
    <2>3. \A c \in DOMAIN w : ClaimSound(db, w[c]) /\ verdict[c] \in Verdicts(db, w[c])
      BY <2>1, <2>2
    <2> QED BY <2>2, <2>3, JudgedFacts
  <1>4. status = Aggregate({claims[c].status : c \in DOMAIN claims})
    <2>1. {verdict[c].status : c \in DOMAIN claims} = {claims[c].status : c \in DOMAIN claims}
      BY <1>3
    <2> QED BY <2>1
  <1> HIDE DEF claims, status, changed, stale
  <1>5. /\ DOMAIN db' = Tables /\ db'.logs = db.logs /\ db'.facts = db.facts
        /\ db'.gaps = db.gaps /\ db'.clashes = db.clashes /\ db'.jds = db.jds
        /\ db'.branches = Without(db.branches, stale) /\ DOMAIN db'.snaps = {s}
        /\ e = [snap EXCEPT !.claims = claims, !.status = status]
    BY <1>1, <1>2 DEF Tables
  <1> HIDE DEF e
  <1>6. /\ DOMAIN e = DOMAIN snap /\ e.claims = claims /\ e.status = status
        /\ e.gaps = snap.gaps /\ e.clashes = snap.clashes /\ e.summary = snap.summary
    BY <1>2, <1>5 DEF SnapSound
  <1>7. LogsSound(db') /\ Grows(db, db') /\ FactsStay(db, db')
    BY <1>2, <1>5, SameLogs DEF FactsStay
  <1>8. FactsSound(db') /\ GapsSound(db') /\ ClashesSound(db')
    BY <1>2, <1>5, <1>7, FactsKept, GapsKept, ClashesKept DEF Sound
  <1>9. SnapSound(db', e)
    <2>1. ClaimStatuses(e) = {claims[c].status : c \in DOMAIN claims}
      BY <1>6 DEF ClaimStatuses
    <2>2. \A g \in DOMAIN db.gaps : AnsweredBefore(db, g) => AnsweredBefore(db', g)
      BY <1>5 DEF AnsweredBefore
    <2>3. \A c \in DOMAIN claims : ClaimSound(db', claims[c])
      BY <1>3, <1>7 DEF ClaimSound, FactsStay
    <2>4. \A g \in DOMAIN db'.gaps \ e.gaps : AnsweredBefore(db', g)
      BY <1>2, <1>5, <1>6, <2>2 DEF SnapSound
    <2>5. e.claims[Narrative].text = e.summary /\ Narrative \in DOMAIN e.claims
      BY <1>2, <1>3, <1>6 DEF SnapSound
    <2>6. e.status = Aggregate(ClaimStatuses(e))
      BY <1>4, <1>6, <2>1
    <2> QED BY <1>2, <1>3, <1>5, <1>6, <2>3, <2>4, <2>5, <2>6 DEF SnapSound
  <1>10. SnapsSound(db')
    BY <1>2, <1>5, <1>9 DEF Sound, SnapsSound, e
  <1>11. CASE changed
    <2>1. stale = DOMAIN db.branches
      BY <1>2, <1>11 DEF Sound, BranchesSound, BranchSound, Dependents, stale
    <2>2. DOMAIN db'.branches = {}
      BY <1>5, <2>1 DEF Without, Restrict
    <2>3. Sound(db')
      BY <1>2, <1>5, <1>7, <1>8, <1>10, <2>2 DEF Sound, BranchesSound
    <2> QED BY <1>1, <1>2, <1>11, <2>1, <2>3, CleanedAll DEF Inv, ReadingSound
  <1>12. CASE ~ changed
    <2>1. stale = {}
      BY <1>12 DEF stale
    <2>2. /\ DOMAIN db'.branches = DOMAIN db.branches
          /\ \A b \in DOMAIN db.branches : db'.branches[b] = db.branches[b]
      BY <1>5, <2>1 DEF Without, Restrict
    <2>3. /\ status = snap.status
          /\ \A c \in DOMAIN claims : /\ claims[c].status = snap.claims[c].status
                                      /\ claims[c].contrary = snap.claims[c].contrary
      BY <1>12 DEF changed, Changed
    <2>4. ASSUME NEW b \in DOMAIN db.branches
          PROVE  /\ BranchSound(db', db'.branches[b]) /\ db.branches[b].anchor = s
      <3>1. BranchSound(db, db.branches[b])
        BY <1>2 DEF Sound, BranchesSound
      <3>2. db.branches[b].anchor = s
        BY <1>2, <3>1 DEF BranchSound
      <3>3. Cited(db, db', s)
        BY <1>2, <1>3, <1>5, <1>6, <2>3 DEF Cited, e
      <3> QED BY <1>5, <1>7, <2>2, <3>1, <3>2, <3>3, BranchKept DEF BranchSound
    <2>5. BranchesSound(db')
      BY <1>2, <2>2, <2>4 DEF Sound, BranchesSound
    <2>6. Sound(db')
      BY <1>2, <1>5, <1>7, <1>8, <1>10, <2>5 DEF Sound
    <2>7. Shown(e) = Shown(snap) /\ ClaimFacts(e) = ClaimFacts(snap)
      BY <1>3, <1>6, <2>3 DEF Shown, ClaimFacts
    <2>8. RenderAssessment(db', s) = RenderAssessment(db, s)
      <3> DEFINE F == ClaimFacts(snap) \cap DOMAIN db.facts
      <3>1. [e EXCEPT !.claims = Shown(e)] = [snap EXCEPT !.claims = Shown(snap)]
        BY <1>2, <1>5, <2>3, <2>7 DEF SnapSound
      <3> QED BY <1>5, <2>7, <3>1 DEF RenderAssessment, e
    <2>9. ASSUME NEW b \in DOMAIN db.branches
          PROVE  RenderBranch(db', b) = RenderBranch(db, b)
      <3>1. db.branches[b].anchor = s /\ db'.branches[b] = db.branches[b]
        BY <2>2, <2>4
      <3>2. /\ db'.snaps[s] = e /\ e.gaps = db.snaps[s].gaps
            /\ e.clashes = db.snaps[s].clashes
        BY <1>6 DEF e
      <3>3. /\ Shown(db'.snaps[s]) = Shown(db.snaps[s])
            /\ ClaimFacts(db'.snaps[s]) = ClaimFacts(db.snaps[s])
            /\ db'.snaps[s].status = db.snaps[s].status
        BY <1>6, <2>3, <2>7, <3>2
      <3>4. db'.gaps = db.gaps /\ db'.clashes = db.clashes /\ FactsStay(db, db')
        BY <1>5, <1>7
      <3> QED BY ONLY <3>1, <3>2, <3>3, <3>4, RenderBranchStays
    <2>10. /\ DOMAIN out.assess \subseteq DOMAIN db.snaps
           /\ DOMAIN out.branch \subseteq DOMAIN db.branches
      BY DEF Inv, NoStaleExport
    <2>11. Cleanup({}, {})
      BY <1>1, <1>12, <2>1
    <2>12. OutShape' /\ NoStaleExport'
      BY <1>2, <1>5, <2>2, <2>8, <2>9, <2>10, <2>11, CleanedSome
    <2> QED BY <1>1, <2>6, <2>12 DEF Inv, ReadingSound
  <1> QED BY <1>11, <1>12

-------------------------------------------------------------------------------
(* Job descriptions and bullet packs.                                      *)

(* Only branches, job descriptions and the recorded call changed.          *)
Beside(d, e) ==
  /\ DOMAIN e = Tables /\ e.logs = d.logs /\ e.facts = d.facts /\ e.gaps = d.gaps
  /\ e.clashes = d.clashes /\ e.snaps = d.snaps

LEMMA BesideSound ==
  ASSUME NEW d, NEW e, Sound(d), Beside(d, e), e.jds \subseteq Vacancies, BranchesSound(e)
  PROVE  Sound(e)
  <1>1. LogsSound(e) /\ Grows(d, e) /\ FactsStay(d, e)
    BY SameLogs DEF Beside, Sound, FactsStay
  <1>2. FactsSound(e) /\ GapsSound(e) /\ ClashesSound(e)
    BY <1>1, FactsKept, GapsKept, ClashesKept DEF Sound, Beside
  <1>3. SnapsSound(e)
    BY SnapsKept DEF Sound, Beside, AnsweredBefore
  <1> QED BY <1>1, <1>2, <1>3 DEF Sound, Beside

LEMMA BranchBeside ==
  ASSUME NEW d, NEW e, NEW branch, Beside(d, e), BranchSound(d, branch), branch.jd \in e.jds
  PROVE  BranchSound(e, branch)
  <1>1. FactsStay(d, e) /\ Cited(d, e, branch.anchor)
    BY DEF Beside, FactsStay, Cited, BranchSound
  <1> QED BY <1>1, BranchKept

(* The branches that went took their published sets with them.             *)
LEMMA OutBeside ==
  ASSUME Inv, Beside(db, db'), NEW B, Cleanup({}, B),
         \A b \in DOMAIN db.branches \ B :
           b \in DOMAIN db'.branches /\ db'.branches[b] = db.branches[b]
  PROVE  OutShape' /\ NoStaleExport'
  <1>1. /\ FactsStay(db, db') /\ db'.snaps = db.snaps /\ db'.gaps = db.gaps
        /\ db'.clashes = db.clashes
    BY DEF Beside, FactsStay
  <1>2. \A s \in DOMAIN out.assess :
          s \in DOMAIN db'.snaps /\ RenderAssessment(db', s) = RenderAssessment(db, s)
    BY <1>1, RenderStays DEF Beside, Inv, NoStaleExport
  <1>3. \A b \in DOMAIN out.branch \ B :
          b \in DOMAIN db'.branches /\ RenderBranch(db', b) = RenderBranch(db, b)
    BY <1>1, BranchShown DEF Inv, NoStaleExport
  <1> QED BY <1>2, <1>3, CleanedSome

LEMMA AddVacancyKept ==
  ASSUME Inv, NEW v \in Vacancies, AddVacancy(v)
  PROVE  Inv'
  <1>1. Sound(db) /\ DOMAIN db = Tables
    BY DEF Inv, Sound
  <1>2. /\ Beside(db, db') /\ db'.jds = db.jds \cup {v} /\ db'.branches = db.branches
        /\ UNCHANGED <<out, reading>>
    BY <1>1 DEF AddVacancy, Beside, Tables
  <1>3. BranchesSound(db')
    BY <1>1, <1>2, BranchesKept DEF Sound, Beside, FactsStay
  <1>4. Sound(db')
    BY <1>1, <1>2, <1>3, BesideSound DEF Sound
  <1>5. OutShape' /\ NoStaleExport'
    BY <1>2, OutKept DEF Beside, FactsStay
  <1> QED BY <1>2, <1>4, <1>5 DEF Inv, ReadingSound

LEMMA DeleteVacancyKept ==
  ASSUME Inv, NEW v \in Vacancies, DeleteVacancy(v)
  PROVE  Inv'
  <1> DEFINE gone == {b \in DOMAIN db.branches : db.branches[b].jd = v}
  <1>1. Sound(db) /\ DOMAIN db = Tables
    BY DEF Inv, Sound
  <1>2. /\ db' = [db EXCEPT !.jds = @ \ {v}, !.branches = Without(@, gone), !.detected = None]
        /\ Cleanup({}, gone) /\ UNCHANGED reading
    BY DEF DeleteVacancy
  <1> HIDE DEF gone
  <1>3. Beside(db, db') /\ db'.jds = db.jds \ {v} /\ db'.branches = Without(db.branches, gone)
    BY <1>1, <1>2 DEF Beside, Tables
  <1>4. /\ DOMAIN db'.branches = DOMAIN db.branches \ gone
        /\ \A b \in DOMAIN db'.branches : db'.branches[b] = db.branches[b]
    BY <1>3 DEF Without, Restrict
  <1>5. ASSUME NEW b \in DOMAIN db'.branches
        PROVE  BranchSound(db', db'.branches[b])
    <2>1. BranchSound(db, db.branches[b])
      BY <1>1, <1>4 DEF Sound, BranchesSound
    <2>2. db.branches[b].jd # v
      BY <1>4 DEF gone
    <2>3. db.branches[b].jd \in db'.jds
      BY <1>3, <2>1, <2>2 DEF BranchSound
    <2> QED BY <1>3, <1>4, <2>1, <2>3, BranchBeside
  <1>6. BranchesSound(db')
    BY <1>1, <1>4, <1>5 DEF Sound, BranchesSound
  <1>7. Sound(db')
    BY <1>1, <1>3, <1>6, BesideSound DEF Sound
  <1>8. OutShape' /\ NoStaleExport'
    BY <1>2, <1>3, <1>4, OutBeside
  <1> QED BY <1>2, <1>7, <1>8 DEF Inv, ReadingSound

LEMMA ClosureTyped ==
  ASSUME NEW d, LogsSound(d), FactsSound(d), NEW facts, facts \subseteq DOMAIN d.facts
  PROVE  LogClosure(d, facts) \subseteq Logs
  <1>1. ASSUME NEW f \in facts, NEW i \in d.facts[f]
        PROVE  i[1] \in Logs
    <2>1. SourcesValid(d, d.facts[f])
      BY DEF FactsSound
    <2>2. i \in Items(d)
      BY <2>1 DEF SourcesValid
    <2> QED BY <2>2, ItemFacts DEF LogsSound
  <1> QED BY <1>1 DEF LogClosure

(* The new branch cites current facts and supported claims of its anchor,  *)
(* and replaces the branch of its name.                                    *)
LEMMA WriteKept ==
  ASSUME Inv, NEW v, NEW s, NEW name \in Names, NEW facts \in Citable, NEW claims,
         claims \subseteq SupportedClaims(db.snaps[s]),
         WriteBullets(v, s, name, facts, claims)
  PROVE  Inv'
  <1> DEFINE same == Namesakes(db, name)
             bullet == [facts |-> facts, claims |-> claims, logs |-> LogClosure(db, facts),
                        status |-> "unverified"]
             branch == [name |-> name, anchor |-> s, jd |-> v, bullets |-> Row(1, bullet)]
  <1>1. PICK b \in Branches \ HeldBranches(db) :
          db' = [db EXCEPT !.branches = Join(Without(@, same), Row(b, branch))]
    BY DEF WriteBullets
  <1>2. v \in db.jds /\ s \in DOMAIN db.snaps /\ Cleanup({}, same) /\ UNCHANGED reading
    BY DEF WriteBullets, AnchorReady
  <1>3. Sound(db) /\ LogsSound(db) /\ FactsSound(db) /\ DOMAIN db = Tables
        /\ SnapSound(db, db.snaps[s])
    BY <1>2, SnapFacts DEF Inv, Sound
  <1>4. facts # {} /\ facts \subseteq DOMAIN db.facts /\ facts \subseteq Facts
    BY <1>3, AtMostFacts DEF Citable, FactsSound
  <1>5. bullet \in BulletRow
    <2>1. LogClosure(db, facts) \subseteq Logs
      BY <1>3, <1>4, ClosureTyped
    <2>2. claims \subseteq Slots
      BY <1>3 DEF SupportedClaims, SnapSound
    <2> QED BY <1>4, <2>1, <2>2 DEF BulletRow, Statuses
  <1>6. BulletSound(db, db.snaps[s].claims, bullet)
    BY <1>4, <1>5 DEF BulletSound, SupportedClaims
  <1> HIDE DEF bullet
  <1>7. BranchSound(db, branch) /\ branch.jd = v /\ branch.name = name
    BY <1>2, <1>6 DEF BranchSound, Row
  <1> HIDE DEF branch, same
  <1>8. Beside(db, db') /\ db'.jds = db.jds
        /\ db'.branches = Join(Without(db.branches, same), Row(b, branch))
    BY <1>1, <1>3 DEF Beside, Tables
  <1>9. /\ DOMAIN db'.branches = (DOMAIN db.branches \ same) \cup {b}
        /\ db'.branches[b] = branch /\ b \notin DOMAIN db.branches
        /\ \A a \in DOMAIN db.branches \ same : db'.branches[a] = db.branches[a]
    <2>1. b \notin DOMAIN db.branches
      BY DEF HeldBranches
    <2> QED BY <1>8, <2>1 DEF Join, Row, Without, Restrict
  <1>10. ASSUME NEW a \in DOMAIN db'.branches
         PROVE  BranchSound(db', db'.branches[a])
    <2>1. BranchSound(db, db'.branches[a])
      BY <1>3, <1>7, <1>9 DEF Sound, BranchesSound
    <2>2. db'.branches[a].jd \in db'.jds
      BY <1>8, <2>1 DEF BranchSound
    <2> QED BY <1>8, <2>1, <2>2, BranchBeside
  <1>11. \A a \in DOMAIN db'.branches \ {b} : db'.branches[a].name # name
    BY <1>9 DEF same, Namesakes
  <1>12. BranchesSound(db')
    BY <1>3, <1>7, <1>9, <1>10, <1>11 DEF Sound, BranchesSound
  <1>13. Sound(db')
    BY <1>3, <1>8, <1>12, BesideSound DEF Sound
  <1>14. OutShape' /\ NoStaleExport'
    BY <1>2, <1>8, <1>9, OutBeside
  <1> QED BY <1>2, <1>13, <1>14 DEF Inv, ReadingSound

LEMMA VerifyBulletsKept ==
  ASSUME Inv, NEW b \in DOMAIN db.branches,
         NEW status \in [DOMAIN db.branches[b].bullets -> {"supported", "unsupported"}],
         VerifyBullets(b, status)
  PROVE  Inv'
  <1> DEFINE branch == db.branches[b]
             bullets == [k \in DOMAIN branch.bullets |->
                           [branch.bullets[k] EXCEPT !.status = status[k]]]
             now == [branch EXCEPT !.bullets = bullets]
  <1>1. /\ db' = [db EXCEPT !.branches[b].bullets = bullets]
        /\ Cleanup({}, IF bullets = branch.bullets THEN {} ELSE {b}) /\ UNCHANGED reading
    BY DEF VerifyBullets
  <1>2. Sound(db) /\ DOMAIN db = Tables /\ BranchSound(db, branch)
    BY DEF Inv, Sound, BranchesSound
  <1>3. ASSUME NEW k \in DOMAIN branch.bullets
        PROVE  BulletSound(db, db.snaps[branch.anchor].claims, bullets[k])
    <2>1. BulletSound(db, db.snaps[branch.anchor].claims, branch.bullets[k])
      BY <1>2 DEF BranchSound
    <2>2. bullets[k] = [branch.bullets[k] EXCEPT !.status = status[k]] /\ status[k] \in Statuses
      BY DEF Statuses, Precedence
    <2> QED BY <2>1, <2>2 DEF BulletSound, BulletRow
  <1>4. DOMAIN bullets = DOMAIN branch.bullets
    OBVIOUS
  <1> HIDE DEF bullets
  <1>5. /\ BranchSound(db, now) /\ now.name = branch.name /\ now.jd = branch.jd
        /\ bullets = branch.bullets => now = branch
    <2>1. now = [name |-> branch.name, anchor |-> branch.anchor, jd |-> branch.jd,
                 bullets |-> bullets]
      BY <1>2 DEF BranchSound
    <2>2. bullets = branch.bullets => now = branch
      BY <1>2, <2>1 DEF BranchSound
    <2>3. /\ now.name = branch.name /\ now.anchor = branch.anchor /\ now.jd = branch.jd
          /\ now.bullets = bullets
      BY <2>1
    <2> HIDE DEF now
    <2>4. BranchSound(db, now)
      BY <1>2, <1>3, <1>4, <2>1, <2>3 DEF BranchSound
    <2> QED BY <2>2, <2>3, <2>4
  <1>6. /\ Beside(db, db') /\ db'.jds = db.jds
        /\ db'.branches = [db.branches EXCEPT ![b] = now]
    BY <1>1, <1>2 DEF Beside, Tables
  <1> HIDE DEF now
  <1>7. /\ DOMAIN db'.branches = DOMAIN db.branches /\ db'.branches[b] = now
        /\ \A a \in DOMAIN db.branches \ {b} : db'.branches[a] = db.branches[a]
    BY <1>6
  <1>8. ASSUME NEW a \in DOMAIN db'.branches
        PROVE  BranchSound(db', db'.branches[a]) /\ db'.branches[a].name = db.branches[a].name
    <2>1. BranchSound(db, db'.branches[a]) /\ db'.branches[a].name = db.branches[a].name
      BY <1>2, <1>5, <1>7 DEF Sound, BranchesSound
    <2>2. db'.branches[a].jd \in db'.jds
      BY <1>6, <2>1 DEF BranchSound
    <2> QED BY <1>6, <2>1, <2>2, BranchBeside
  <1>9. BranchesSound(db')
    BY <1>2, <1>7, <1>8 DEF Sound, BranchesSound
  <1>10. Sound(db')
    BY <1>2, <1>6, <1>9, BesideSound DEF Sound
  <1>11. OutShape' /\ NoStaleExport'
    <2> DEFINE B == IF bullets = branch.bullets THEN {} ELSE {b}
    <2>1. Cleanup({}, B)
      BY <1>1
    <2>2. \A a \in DOMAIN db.branches \ B :
            a \in DOMAIN db'.branches /\ db'.branches[a] = db.branches[a]
      BY <1>5, <1>7
    <2> HIDE DEF B
    <2> QED BY <1>6, <2>1, <2>2, OutBeside
  <1> QED BY <1>1, <1>10, <1>11 DEF Inv, ReadingSound

LEMMA ExportAssessmentKept ==
  ASSUME Inv, NEW s \in DOMAIN db.snaps, ExportAssessment(s)
  PROVE  Inv'
  <1> DEFINE shown == RenderAssessment(db, s)
  <1>1. UNCHANGED <<db, reading>> /\ out' = [out EXCEPT !.assess = Join(Row(s, shown), @)]
    BY DEF ExportAssessment
  <1> HIDE DEF shown
  <1>2. /\ DOMAIN out' = {"assess", "branch"} /\ out'.branch = out.branch
        /\ out'.assess = Join(Row(s, shown), out.assess)
    BY <1>1 DEF Inv, OutShape
  <1>3. /\ DOMAIN out'.assess = DOMAIN out.assess \cup {s} /\ out'.assess[s] = shown
        /\ \A t \in DOMAIN out.assess \ {s} : out'.assess[t] = out.assess[t]
    BY <1>2 DEF Join, Row
  <1>4. NoStaleExport'
    BY <1>1, <1>2, <1>3 DEF Inv, NoStaleExport, shown
  <1> QED BY <1>1, <1>2, <1>4 DEF Inv, ReadingSound, OutShape

LEMMA ExportBranchKept ==
  ASSUME Inv, NEW b \in DOMAIN db.branches, ExportBranch(b)
  PROVE  Inv'
  <1> DEFINE shown == RenderBranch(db, b)
  <1>1. UNCHANGED <<db, reading>> /\ out' = [out EXCEPT !.branch = Join(Row(b, shown), @)]
    BY DEF ExportBranch
  <1>5. Reflects(shown, shown)
    BY DEF Reflects, AnsweredSince, RenderBranch
  <1> HIDE DEF shown
  <1>2. /\ DOMAIN out' = {"assess", "branch"} /\ out'.assess = out.assess
        /\ out'.branch = Join(Row(b, shown), out.branch)
    BY <1>1 DEF Inv, OutShape
  <1>3. /\ DOMAIN out'.branch = DOMAIN out.branch \cup {b} /\ out'.branch[b] = shown
        /\ \A t \in DOMAIN out.branch \ {b} : out'.branch[t] = out.branch[t]
    BY <1>2 DEF Join, Row
  <1>4. NoStaleExport'
    BY <1>1, <1>2, <1>3, <1>5 DEF Inv, NoStaleExport, shown
  <1> QED BY <1>1, <1>2, <1>4 DEF Inv, ReadingSound, OutShape

-------------------------------------------------------------------------------
(* The invariant.                                                          *)

LEMMA DetectSomeKept ==
  ASSUME Inv, DetectSome
  PROVE  Inv'
  <1>1. PICK targets \in AtMost(Cardinality(Gaps), Targets(db, RefTypes)),
             pairs \in AtMost(Cardinality(Clashes), kSubset(2, Targets(db, ClashTypes))) :
          Detect(targets, pairs)
    BY DEF DetectSome
  <1>2. targets \subseteq Targets(db, RefTypes)
    BY AtMostFacts
  <1>3. pairs \subseteq kSubset(2, Targets(db, ClashTypes))
    BY AtMostFacts
  <1> QED BY <1>1, <1>2, <1>3, DetectKept

LEMMA VerifySomeKept ==
  ASSUME Inv, VerifySome
  PROVE  Inv'
  <1>1. PICK s \in DOMAIN db.snaps :
          \E verdict \in [DOMAIN db.snaps[s].claims ->
                            UNION {Verdicts(db, db.snaps[s].claims[c]) :
                                     c \in DOMAIN db.snaps[s].claims}] :
            /\ \A c \in DOMAIN verdict : verdict[c] \in Verdicts(db, db.snaps[s].claims[c])
            /\ Verify(s, verdict)
    BY DEF VerifySome
  <1>2. PICK verdict :
          /\ \A c \in DOMAIN db.snaps[s].claims :
               verdict[c] \in Verdicts(db, db.snaps[s].claims[c])
          /\ Verify(s, verdict)
    BY <1>1
  <1> QED BY <1>2, VerifyKept

LEMMA InvInit == Init => Inv
  <1> SUFFICES ASSUME Init PROVE Inv
    OBVIOUS
  <1>1. Sound(db)
    BY EmptySound DEF Init
  <1> QED BY <1>1 DEF Init, Inv, ReadingSound, OutShape, NoStaleExport

LEMMA InvStep == Inv /\ [Next]_vars => Inv'
  <1> SUFFICES ASSUME Inv, [Next]_vars PROVE Inv'
    OBVIOUS
  <1>1. CASE SomeCapture
    BY <1>1, CaptureKept DEF SomeCapture
  <1>2. CASE SomeCorrection
    BY <1>2, CorrectKept DEF SomeCorrection
  <1>3. CASE SomeClock
    BY <1>3, ReadClockKept DEF SomeClock
  <1>4. CASE SomeAnswer
    BY <1>4, AnswerKept DEF SomeAnswer
  <1>5. CASE GiveUp
    BY <1>5, GiveUpKept
  <1>6. CASE SomeDeletion
    BY <1>6, DeleteLogKept DEF SomeDeletion
  <1>7. CASE Purge
    BY <1>7, PurgeKept
  <1>8. CASE ExtractSome
    BY <1>8, ExtractKept DEF ExtractSome
  <1>9. CASE Retain
    BY <1>9, RetainKept
  <1>10. CASE DetectSome
    BY <1>10, DetectSomeKept
  <1>11. CASE GenerateSome
    BY <1>11, GenerateKept DEF GenerateSome
  <1>12. CASE VerifySome
    BY <1>12, VerifySomeKept
  <1>13. CASE SomeRepair
    BY <1>13, RepairKept DEF SomeRepair
  <1>14. CASE SomeVacancy
    BY <1>14, AddVacancyKept, DeleteVacancyKept DEF SomeVacancy
  <1>15. CASE WriteSome
    BY <1>15, WriteKept DEF WriteSome
  <1>16. CASE VerifyBulletsSome
    BY <1>16, VerifyBulletsKept DEF VerifyBulletsSome
  <1>17. CASE SomeExport
    BY <1>17, ExportAssessmentKept, ExportBranchKept DEF SomeExport
  <1>18. CASE UNCHANGED vars
    BY <1>18 DEF vars, Inv, ReadingSound, OutShape, NoStaleExport
  <1> QED
    BY <1>1, <1>2, <1>3, <1>4, <1>5, <1>6, <1>7, <1>8, <1>9, <1>10, <1>11, <1>12, <1>13,
       <1>14, <1>15, <1>16, <1>17, <1>18 DEF Next

LEMMA AlwaysInv == Spec => []Inv
  BY InvInit, InvStep, PTL DEF Spec

-------------------------------------------------------------------------------
(* What the invariant says of rows.                                        *)

LEMMA RefsTyped ==
  ASSUME NEW ref \in Refs
  PROVE  RefTyped(ref)
  BY DEF Refs, RefTyped

LEMMA SnapTyped ==
  ASSUME Inv, NEW s \in DOMAIN db.snaps
  PROVE  /\ db.snaps[s].status \in Statuses /\ db.snaps[s].gaps \subseteq Gaps
         /\ db.snaps[s].clashes \subseteq Clashes
  <1> DEFINE snap == db.snaps[s]
  <1>1. SnapSound(db, snap)
    BY SnapFacts
  <1>2. GapsSound(db) /\ ClashesSound(db)
    BY DEF Inv, Sound
  <1> HIDE DEF snap
  <1>3. ClaimStatuses(snap) \subseteq Statuses /\ ClaimStatuses(snap) # {}
    BY <1>1 DEF ClaimStatuses, SnapSound, ClaimSound, ClaimRow
  <1>4. snap.status \in Statuses
    BY <1>1, <1>3, AggregateTyped DEF SnapSound
  <1> QED BY <1>1, <1>2, <1>4 DEF SnapSound, GapsSound, ClashesSound, snap

LEMMA RowsAreTyped == Inv => RowsTyped
  <1> SUFFICES ASSUME Inv PROVE RowsTyped
    OBVIOUS
  <1>1. /\ LogsSound(db) /\ FactsSound(db) /\ GapsSound(db) /\ ClashesSound(db)
        /\ SnapsSound(db) /\ BranchesSound(db) /\ db.jds \subseteq Vacancies
    BY DEF Inv, Sound
  <1>2. LogTable(db) /\ EvidenceTable(db)
    BY <1>1 DEF LogTable, EvidenceTable, LogsSound, LogRow
  <1>3. FactTable(db) /\ FactSources(db)
    BY <1>1 DEF FactTable, FactSources, FactsSound, SourcesValid
  <1>4. GapTable(db)
    BY <1>1, RefsTyped DEF GapTable, GapsSound, GapRow, Effective
  <1>5. ClashTable(db)
    BY <1>1, RefsTyped DEF ClashTable, ClashesSound
  <1>6. SnapshotTable(db)
    BY <1>1, SnapTyped DEF SnapshotTable, SnapsSound
  <1>7. ClaimTable(db)
    BY <1>1, RefsTyped DEF ClaimTable, SnapsSound, SnapSound, ClaimSound, ClaimRow
  <1>8. VacancyTable(db)
    BY <1>1 DEF VacancyTable
  <1>9. BranchTable(db)
    BY <1>1 DEF BranchTable, BranchesSound, BranchSound, SnapsSound
  <1>10. BulletTable(db)
    <2>1. ASSUME NEW b \in DOMAIN db.branches, NEW k \in DOMAIN db.branches[b].bullets
          PROVE  db.branches[b].bullets[k] \in BulletRow
      BY <1>1 DEF BranchesSound, BranchSound, BulletSound
    <2> QED BY <2>1 DEF BulletTable, Bullets, BulletRow
  <1> QED BY <1>2, <1>3, <1>4, <1>5, <1>6, <1>7, <1>8, <1>9, <1>10 DEF RowsTyped

LEMMA RowsAreDerived == Inv => DerivedFromCurrent
  <1> SUFFICES ASSUME Inv PROVE DerivedFromCurrent
    OBVIOUS
  <1>1. FactsSound(db) /\ GapsSound(db) /\ ClashesSound(db)
    BY DEF Inv, Sound
  <1>2. \A f \in DOMAIN db.facts : SourcesValid(db, db.facts[f])
    BY <1>1 DEF FactsSound
  <1>3. ASSUME NEW ref \in {db.gaps[g].target : g \in DOMAIN db.gaps}
        PROVE  ReferenceValid(db, ref)
    BY <1>1 DEF GapsSound
  <1>4. ASSUME NEW ref \in UNION Range(db.clashes)
        PROVE  ReferenceValid(db, ref)
    <2>1. PICK x \in DOMAIN db.clashes : ref \in db.clashes[x]
      BY DEF Range
    <2> QED BY <1>1, <2>1 DEF ClashesSound
  <1> QED BY <1>2, <1>3, <1>4 DEF DerivedFromCurrent

(* A selection ends in a record no correction displaced.                   *)
LEMMA FactChain ==
  ASSUME Inv, NEW facts, facts # {}, facts \subseteq DOMAIN db.facts
  PROVE  RetainedChain(db, facts)
  <1>1. PICK f \in facts : TRUE
    OBVIOUS
  <1>2. SourcesValid(db, db.facts[f])
    BY <1>1 DEF Inv, Sound, FactsSound
  <1> QED BY <1>1, <1>2 DEF SourcesValid, RetainedChain

LEMMA ViewUndamaged ==
  ASSUME Inv, NEW s \in DOMAIN db.snaps
  PROVE  /\ SnapshotFaults(db.snaps[s]) = {} /\ ListedFaults(db, db.snaps[s]) = {}
         /\ ClaimFacts(db.snaps[s]) \subseteq DOMAIN db.facts
         /\ VerifyFaults(db, db.snaps[s]) = {} /\ AnchorFaults(db, db.snaps[s]) = {}
  <1> DEFINE snap == db.snaps[s]
  <1>1. SnapSound(db, snap)
    BY SnapFacts
  <1> HIDE DEF snap
  <1>2. SnapshotFaults(snap) = {}
    <2>1. snap.claims # <<>>
      BY <1>1 DEF SnapSound
    <2> QED BY <1>1, <2>1 DEF SnapSound, SnapshotFaults, Raise
  <1>3. ListedFaults(db, snap) = {}
    BY <1>1 DEF SnapSound, ListedFaults, Raise
  <1>4. \A c \in DOMAIN snap.claims : snap.claims[c].facts \subseteq DOMAIN db.facts
    BY <1>1 DEF SnapSound, ClaimSound
  <1>5. ClaimFacts(snap) \subseteq DOMAIN db.facts
    BY <1>4 DEF ClaimFacts
  <1>6. VerifyFaults(db, snap) = {}
    BY <1>1, <1>2, <1>5 DEF VerifyFaults, SnapSound, Raise
  <1>7. AnchorFaults(db, snap) = {}
    <2>1. \A c \in SupportedClaims(snap) : snap.claims[c].facts \subseteq DOMAIN db.facts
      BY <1>4 DEF SupportedClaims
    <2> QED BY <1>1, <1>3, <2>1 DEF AnchorFaults, SnapSound, Raise
  <1> QED BY <1>2, <1>3, <1>5, <1>6, <1>7 DEF snap

LEMMA FactsUndamaged ==
  ASSUME Inv, NEW facts, facts \subseteq DOMAIN db.facts
  PROVE  ClosureFaults(db, facts) = {}
  <1>1. \A f \in facts \cap DOMAIN db.facts : SourcesValid(db, db.facts[f])
    BY DEF Inv, Sound, FactsSound
  <1> QED BY <1>1 DEF ClosureFaults, Raise

LEMMA GapsUndamaged ==
  ASSUME Inv, NEW s \in DOMAIN db.snaps
  PROVE  GapFaults(db, db.snaps[s]) \subseteq {"listed_gap_answered_before"}
  <1> DEFINE snap == db.snaps[s]
             omitted == DOMAIN db.gaps \ snap.gaps
             Early(g) == /\ db.gaps[g].answer \in DOMAIN db.logs
                         /\ db.logs[db.gaps[g].answer].at = "before"
  <1>1. SnapSound(db, snap) /\ GapsSound(db) /\ None \notin DOMAIN db.logs
    BY SnapFacts, LogsClosed DEF Inv, Sound
  <1>2. \A g \in DOMAIN db.gaps : ReferenceValid(db, db.gaps[g].target)
    BY <1>1 DEF GapsSound
  <1>3. \A g \in DOMAIN db.gaps : db.gaps[g].answer # None => AnswerValid(db, db.gaps[g])
    BY <1>1 DEF GapsSound, AnswerValid, ReferenceValid, LogRef
  <1>4. \A g \in omitted : Early(g) /\ db.gaps[g].answer # None
    BY <1>1 DEF SnapSound, AnsweredBefore
  <1> HIDE DEF snap
  <1>5. GapFaults(db, snap) =
          Raise("gap_target_invalid",
                \A g \in DOMAIN db.gaps : ReferenceValid(db, db.gaps[g].target))
            \cup Raise("gap_answer_log_invalid",
                       \A g \in DOMAIN db.gaps :
                         db.gaps[g].answer # None => AnswerValid(db, db.gaps[g]))
            \cup Raise("listed_gap_answered_before",
                       \A g \in snap.gaps \cap DOMAIN db.gaps : ~ Early(g))
            \cup Raise("unlisted_gap_open", \A g \in omitted : db.gaps[g].answer # None)
            \cup Raise("unlisted_gap_answered_after",
                       \A g \in omitted : db.gaps[g].answer # None => Early(g))
    BY DEF GapFaults
  <1> HIDE DEF Early, omitted
  <1> QED BY <1>2, <1>3, <1>4, <1>5 DEF Raise, snap

LEMMA AssessmentUndamaged ==
  ASSUME Inv, NEW s \in DOMAIN db.snaps
  PROVE  AssessmentFaults(db, db.snaps[s]) \subseteq
           {"listed_gap_answered_before", "export_source_reference_invalid"}
  <1> DEFINE snap == db.snaps[s]
  <1>1. SnapshotFaults(snap) = {} /\ ListedFaults(db, snap) = {}
    BY ViewUndamaged
  <1>2. ClosureFaults(db, ClaimFacts(snap)) = {}
    BY ViewUndamaged, FactsUndamaged
  <1>3. GapFaults(db, snap) \subseteq {"listed_gap_answered_before"}
    BY GapsUndamaged
  <1>4. snap.clashes = DOMAIN db.clashes
    BY SnapFacts DEF SnapSound
  <1>5. \A x \in snap.clashes \cap DOMAIN db.clashes : \A r \in db.clashes[x] : ReferenceValid(db, r)
    BY DEF Inv, Sound, ClashesSound
  <1>6. CounterFaults(db, snap) \subseteq {"export_source_reference_invalid"}
    BY DEF CounterFaults, Raise
  <1> HIDE DEF snap
  <1>7. AssessmentFaults(db, snap) \subseteq
           {"listed_gap_answered_before", "export_source_reference_invalid"}
    BY <1>1, <1>2, <1>3, <1>4, <1>5, <1>6 DEF AssessmentFaults, Raise
  <1> QED BY <1>7 DEF snap

LEMMA PackUndamaged ==
  ASSUME Inv, NEW b \in DOMAIN db.branches
  PROVE  /\ PackFaults(db, db.branches[b]) = {} /\ BundleFaults(db, db.branches[b]) = {}
         /\ db.branches[b].anchor \in DOMAIN db.snaps
         /\ BulletFacts(db.branches[b]) \subseteq DOMAIN db.facts
  <1> DEFINE branch == db.branches[b]
             members == db.snaps[branch.anchor].claims
  <1>1. BranchSound(db, branch)
    BY DEF Inv, Sound, BranchesSound
  <1>2. SnapSound(db, db.snaps[branch.anchor]) /\ branch.anchor \in DOMAIN db.snaps
    BY <1>1, SnapFacts DEF BranchSound
  <1>3. \A c \in DOMAIN members : ClaimSound(db, members[c])
    BY <1>2 DEF SnapSound
  <1> HIDE DEF branch
  <1>4. \A bullet \in Bullets(branch) : BulletSound(db, members, bullet)
    BY <1>1 DEF BranchSound, Bullets
  <1>5. branch.bullets # <<>>
    BY <1>1 DEF BranchSound
  <1>6. PackFaults(db, branch) = {}
    <2>1. branch.jd \in db.jds /\ branch.anchor \in DOMAIN db.snaps
      BY <1>1 DEF BranchSound
    <2>2. \A bullet \in Bullets(branch) :
            bullet.facts \subseteq DOMAIN db.facts => bullet.logs = LogClosure(db, bullet.facts)
      BY <1>4 DEF BulletSound
    <2> QED BY <1>5, <2>1, <2>2 DEF PackFaults, Raise
  <1>7. BulletFacts(branch) \subseteq DOMAIN db.facts
    BY <1>4 DEF BulletFacts, BulletSound
  <1> HIDE DEF members
  <1>8. BundleFaults(db, branch) = {}
    <2> DEFINE cited == CitedClaims(branch) \cap DOMAIN members
    <2>1. \A bullet \in Bullets(branch) : RetainedChain(db, bullet.facts)
      BY <1>4, FactChain DEF BulletSound
    <2>2. ASSUME NEW c \in CitedClaims(branch)
          PROVE  c \in DOMAIN members /\ members[c].status = "supported"
      BY <1>4 DEF CitedClaims, BulletSound
    <2>3. \A c \in cited : members[c].facts \subseteq DOMAIN db.facts
      BY <1>3 DEF ClaimSound
    <2>4. \A c \in cited : RetainedChain(db, members[c].facts)
      BY <1>3, FactChain DEF ClaimSound
    <2>5. BundleFaults(db, branch) =
            Raise("bullet_fact_superseded", BulletFacts(branch) \subseteq DOMAIN db.facts)
              \cup Raise("bullet_direct_chain_missing",
                         \A bullet \in Bullets(branch) : RetainedChain(db, bullet.facts))
              \cup Raise("bullet_claim_outside_branch_snapshot",
                         CitedClaims(branch) \subseteq DOMAIN members)
              \cup Raise("bullet_claim_not_supported",
                         \A c \in cited : members[c].status = "supported")
              \cup Raise("claim_fact_superseded",
                         \A c \in cited : members[c].facts \subseteq DOMAIN db.facts)
              \cup Raise("claim_direct_chain_missing",
                         \A c \in cited : RetainedChain(db, members[c].facts))
      BY <1>2 DEF BundleFaults, members
    <2> QED BY <1>7, <2>1, <2>2, <2>3, <2>4, <2>5 DEF Raise
  <1> QED BY <1>2, <1>6, <1>7, <1>8 DEF branch

LEMMA BranchUndamaged ==
  ASSUME Inv, NEW b \in DOMAIN db.branches
  PROVE  BranchFaults(db, db.branches[b]) \subseteq {"export_source_reference_invalid"}
  <1> DEFINE branch == db.branches[b]
             snap == db.snaps[branch.anchor]
  <1>1. /\ PackFaults(db, branch) = {} /\ BundleFaults(db, branch) = {}
        /\ branch.anchor \in DOMAIN db.snaps /\ BulletFacts(branch) \subseteq DOMAIN db.facts
    BY PackUndamaged
  <1>2. /\ SnapshotFaults(snap) = {} /\ ListedFaults(db, snap) = {}
        /\ ClaimFacts(snap) \subseteq DOMAIN db.facts
    BY <1>1, ViewUndamaged
  <1>3. ClosureFaults(db, ClaimFacts(snap) \cup BulletFacts(branch)) = {}
    BY <1>1, <1>2, FactsUndamaged
  <1>4. CounterFaults(db, snap) \subseteq {"export_source_reference_invalid"}
    BY DEF CounterFaults, Raise
  <1>5. \A c \in DOMAIN snap.claims : RetainedChain(db, snap.claims[c].facts)
    <2>1. SnapSound(db, snap)
      BY <1>1, SnapFacts
    <2> QED BY <2>1, FactChain DEF SnapSound, ClaimSound
  <1> HIDE DEF branch
  <1>6. BranchFaults(db, branch) \subseteq {"export_source_reference_invalid"}
    BY <1>1, <1>2, <1>3, <1>4, <1>5 DEF BranchFaults, Raise
  <1> QED BY <1>6 DEF branch

LEMMA RowsUndamaged == Inv => NoDamage
  <1> SUFFICES ASSUME Inv PROVE NoDamage
    OBVIOUS
  <1>1. Cardinality(DOMAIN db.snaps) <= 1
    <2>1. CASE DOMAIN db.snaps = {}
      BY <2>1, FS_EmptySet
    <2>2. CASE DOMAIN db.snaps # {}
      <3>1. PICK s : s \in DOMAIN db.snaps
        BY <2>2
      <3>2. DOMAIN db.snaps = {s}
        BY <3>1, SnapFacts
      <3>3. Cardinality({s}) = 1
        BY FS_Singleton
      <3> QED BY <3>2, <3>3
    <2> QED BY <2>1, <2>2
  <1>2. \A a, b \in DOMAIN db.branches : db.branches[a].name = db.branches[b].name => a = b
    BY DEF Inv, Sound, BranchesSound
  <1> QED BY <1>1, <1>2, ViewUndamaged, AssessmentUndamaged, PackUndamaged, BranchUndamaged
          DEF NoDamage

-------------------------------------------------------------------------------
(* The theorems.                                                           *)

(* Every committed row has the shape its table declares, whatever the       *)
(* captures, findings and identifiers.                                      *)
THEOREM RowsTypedHolds == Spec => []RowsTyped
  BY AlwaysInv, RowsAreTyped, PTL

(* Every current fact selects evidence its lineage offers and every          *)
(* detection row points at a current fact or source.                         *)
THEOREM DerivedFromCurrentHolds == Spec => []DerivedFromCurrent
  BY AlwaysInv, RowsAreDerived, PTL

(* No consumer of a current row meets a state it can only report as damage, *)
(* the two excepted causes apart: one view, one branch under each name, and *)
(* every reference, aggregate, selection and closure as re-validated.       *)
THEOREM NoDamageHolds == Spec => []NoDamage
  BY AlwaysInv, RowsUndamaged, PTL

(* A published set that was not reported was rendered from what the rows    *)
(* say now; a branch's but for answers given to its anchor's gaps since.     *)
THEOREM NoStaleExportHolds == Spec => []NoStaleExport
  <1>1. Inv => NoStaleExport
    BY DEF Inv
  <1> QED BY <1>1, AlwaysInv, PTL

-------------------------------------------------------------------------------
(* What a commit inserts and updates.                                      *)

(* A row that stays is the row it was. *)
Kept(was, now) == \A i \in DOMAIN was \cap DOMAIN now : now[i] = was[i]

(* Source rows go, or lose their link, by the owner's hand alone. *)
SourcesKept(d, e) == Extends(d, e) /\ d.jds \subseteq e.jds

GapsUpdated(d, e) ==
  \A g \in DOMAIN d.gaps \cap DOMAIN e.gaps :
    \/ e.gaps[g] = d.gaps[g]
    \/ /\ d.gaps[g].answer = None /\ e.gaps[g].answer # None
       /\ e.gaps[g].target = d.gaps[g].target

SnapsUpdated(d, e) ==
  \A s \in DOMAIN d.snaps \cap DOMAIN e.snaps :
    /\ SnapshotUpdate(d.snaps[s], e.snaps[s])
    /\ DOMAIN e.snaps[s].claims = DOMAIN d.snaps[s].claims
    /\ \A c \in DOMAIN d.snaps[s].claims :
         /\ ClaimUpdate(d.snaps[s].claims[c], e.snaps[s].claims[c])
         /\ e.snaps[s].claims[c] # d.snaps[s].claims[c] => FindingAdmitted(e, e.snaps[s].claims[c])

BranchesUpdated(d, e) ==
  \A b \in DOMAIN d.branches \cap DOMAIN e.branches :
    /\ BranchUpdate(d.branches[b], e.branches[b])
    /\ \A k \in DOMAIN d.branches[b].bullets :
         BulletUpdate(d.branches[b].bullets[k], e.branches[b].bullets[k])

Admissible(d, e) ==
  /\ Kept(d.facts, e.facts) /\ Kept(d.clashes, e.clashes)
  /\ GapsUpdated(d, e) /\ SnapsUpdated(d, e) /\ BranchesUpdated(d, e)

NewGaps(d, e) ==
  \A g \in DOMAIN e.gaps \ DOMAIN d.gaps : e.gaps[g].answer = None

NewSnaps(d, e) ==
  \A s \in DOMAIN e.snaps \ DOMAIN d.snaps :
    /\ e.snaps[s].status = "unverified"
    /\ \A g \in e.snaps[s].gaps : e.gaps[g].answer = None
    /\ \A c \in DOMAIN e.snaps[s].claims :
         e.snaps[s].claims[c].status = "unverified" /\ e.snaps[s].claims[c].contrary = {}

NewBranches(d, e) ==
  \A b \in DOMAIN e.branches \ DOMAIN d.branches :
    /\ e.snaps[e.branches[b].anchor].status \in AnchorEligible
    /\ \A k \in DOMAIN e.branches[b].bullets : e.branches[b].bullets[k].status = "unverified"

Fresh(d, e) == NewGaps(d, e) /\ NewSnaps(d, e) /\ NewBranches(d, e)

LEMMA BulletLogs ==
  ASSUME NEW d, FactsSound(d), NEW facts, facts \subseteq DOMAIN d.facts
  PROVE  LogClosure(d, facts) \subseteq DOMAIN d.logs
  <1>1. ASSUME NEW f \in facts, NEW i \in d.facts[f]
        PROVE  i[1] \in DOMAIN d.logs
    <2>1. SourcesValid(d, d.facts[f])
      BY DEF FactsSound
    <2> QED BY <2>1, ItemFacts DEF SourcesValid
  <1> QED BY <1>1 DEF LogClosure

(* The rest of what the repository re-validates is in the invariant.       *)
LEMMA FreshInserted ==
  ASSUME Inv', Fresh(db, db'), SnapsUpdated(db, db')
  PROVE  Inserted
  <1>1. /\ FactsSound(db') /\ GapsSound(db') /\ ClashesSound(db') /\ SnapsSound(db')
        /\ BranchesSound(db')
    BY DEF Inv, Sound
  <1>2. \A f \in NewIn("facts") : FactAdmitted(db', f)
    BY <1>1 DEF NewIn, FactAdmitted, FactsSound, SourcesValid
  <1>3. \A g \in NewIn("gaps") : GapAdmitted(db', g)
    BY <1>1 DEF NewIn, GapAdmitted, GapsSound, Fresh, NewGaps
  <1>4. \A x \in NewIn("clashes") : ClashAdmitted(db', x)
    BY <1>1 DEF NewIn, ClashAdmitted, ClashesSound
  <1>5. ASSUME NEW s \in NewIn("snaps")
        PROVE  /\ SnapshotAdmitted(db', s)
               /\ \A c \in DOMAIN db'.snaps[s].claims : ClaimAdmitted(db', db'.snaps[s].claims[c])
    <2>1. s \in DOMAIN db'.snaps \ DOMAIN db.snaps
      BY DEF NewIn
    <2>2. SnapSound(db', db'.snaps[s])
      BY <1>1, <2>1 DEF SnapsSound
    <2>3. SnapshotAdmitted(db', s)
      BY <2>1, <2>2 DEF SnapshotAdmitted, SnapSound, Fresh, NewSnaps
    <2>4. \A c \in DOMAIN db'.snaps[s].claims : ClaimAdmitted(db', db'.snaps[s].claims[c])
      BY <2>1, <2>2 DEF ClaimAdmitted, SnapSound, ClaimSound, Fresh, NewSnaps
    <2> QED BY <2>3, <2>4
  <1>6. ASSUME NEW b \in NewIn("branches")
        PROVE  /\ BranchAdmitted(db', b)
               /\ \A bullet \in Bullets(db'.branches[b]) :
                    BulletAdmitted(db', db'.branches[b], bullet)
    <2>1. b \in DOMAIN db'.branches \ DOMAIN db.branches
      BY DEF NewIn
    <2>2. BranchSound(db', db'.branches[b])
      BY <1>1, <2>1 DEF BranchesSound
    <2>3. BranchAdmitted(db', b)
      BY <1>1, <2>1, <2>2 DEF BranchAdmitted, BranchSound, BranchesSound, Fresh, NewBranches
    <2>4. ASSUME NEW k \in DOMAIN db'.branches[b].bullets
          PROVE  BulletAdmitted(db', db'.branches[b], db'.branches[b].bullets[k])
      <3> DEFINE bullet == db'.branches[b].bullets[k]
      <3>1. BulletSound(db', db'.snaps[db'.branches[b].anchor].claims, bullet)
        BY <2>2 DEF BranchSound
      <3>2. bullet.status = "unverified"
        BY <2>1 DEF Fresh, NewBranches
      <3>3. bullet.logs \subseteq DOMAIN db'.logs
        BY <1>1, <3>1, BulletLogs DEF BulletSound
      <3> QED BY <3>1, <3>2, <3>3 DEF BulletAdmitted, BulletSound
    <2> QED BY <2>3, <2>4 DEF Bullets
  <1>7. \A s \in Staying("snaps") : \A c \in DOMAIN db'.snaps[s].claims :
          db'.snaps[s].claims[c] # db.snaps[s].claims[c] =>
            FindingAdmitted(db', db'.snaps[s].claims[c])
    BY DEF Staying, SnapsUpdated
  <1> QED BY <1>2, <1>3, <1>4, <1>5, <1>6, <1>7 DEF Inserted

LEMMA KeptUpdated ==
  ASSUME Admissible(db, db'), SourcesKept(db, db') \/ OwnerDeletion
  PROVE  Updated
  <1>1. /\ \A l \in Staying("logs") :
             /\ LogUpdate(db.logs[l], db'.logs[l], OwnerDeletion)
             /\ EvidenceUpdate(db.logs[l], db'.logs[l], OwnerDeletion)
        /\ LogDelete(db, db', OwnerDeletion) /\ VacancyDelete(db, db', OwnerDeletion)
    <2> HIDE DEF OwnerDeletion
    <2> QED BY DEF Staying, SourcesKept, Extends, LogUpdate, EvidenceUpdate, LogDelete,
                   VacancyDelete
  <1>2. /\ SourcesDelete(db, db')
        /\ \A f \in Staying("facts") : FactUpdate(db.facts[f], db'.facts[f])
        /\ \A x \in Staying("clashes") : ClashUpdate(db.clashes[x], db'.clashes[x])
    BY DEF Admissible, Kept, Staying, SourcesDelete, FactUpdate, ClashUpdate
  <1>3. \A g \in Staying("gaps") : GapUpdate(db.gaps[g], db'.gaps[g], OwnerDeletion)
    BY DEF Admissible, GapsUpdated, Staying, GapUpdate
  <1>4. \A s \in Staying("snaps") :
          /\ SnapshotUpdate(db.snaps[s], db'.snaps[s])
          /\ DOMAIN db'.snaps[s].claims = DOMAIN db.snaps[s].claims
          /\ \A c \in DOMAIN db.snaps[s].claims :
               ClaimUpdate(db.snaps[s].claims[c], db'.snaps[s].claims[c])
    BY DEF Admissible, SnapsUpdated, Staying
  <1>5. \A b \in Staying("branches") :
          /\ BranchUpdate(db.branches[b], db'.branches[b])
          /\ \A k \in DOMAIN db.branches[b].bullets :
               BulletUpdate(db.branches[b].bullets[k], db'.branches[b].bullets[k])
    BY DEF Admissible, BranchesUpdated, Staying
  <1> QED BY <1>1, <1>2, <1>3, <1>4, <1>5 DEF Updated

LEMMA ClaimSame ==
  ASSUME NEW claim \in ClaimRow
  PROVE  ClaimUpdate(claim, claim)
  BY DEF ClaimUpdate, ClaimRow

LEMMA SnapsStay ==
  ASSUME NEW d, NEW e, SnapsSound(d), Kept(d.snaps, e.snaps)
  PROVE  SnapsUpdated(d, e)
  <1>1. ASSUME NEW s \in DOMAIN d.snaps
        PROVE  /\ SnapshotUpdate(d.snaps[s], d.snaps[s])
               /\ \A c \in DOMAIN d.snaps[s].claims :
                    ClaimUpdate(d.snaps[s].claims[c], d.snaps[s].claims[c])
    <2>1. SnapSound(d, d.snaps[s])
      BY DEF SnapsSound
    <2>2. SnapshotUpdate(d.snaps[s], d.snaps[s])
      BY <2>1 DEF SnapshotUpdate, SnapSound
    <2> QED BY <2>1, <2>2, ClaimSame DEF SnapSound, ClaimSound
  <1> QED BY <1>1 DEF SnapsUpdated, Kept

LEMMA BranchesStay ==
  ASSUME NEW d, NEW e, BranchesSound(d), Kept(d.branches, e.branches)
  PROVE  BranchesUpdated(d, e)
  <1>1. ASSUME NEW b \in DOMAIN d.branches
        PROVE  /\ BranchUpdate(d.branches[b], d.branches[b])
               /\ \A k \in DOMAIN d.branches[b].bullets :
                    BulletUpdate(d.branches[b].bullets[k], d.branches[b].bullets[k])
    <2>1. BranchSound(d, d.branches[b])
      BY DEF BranchesSound
    <2>2. BranchUpdate(d.branches[b], d.branches[b])
      BY <2>1 DEF BranchUpdate, BranchSound
    <2>3. ASSUME NEW k \in DOMAIN d.branches[b].bullets
          PROVE  BulletUpdate(d.branches[b].bullets[k], d.branches[b].bullets[k])
      <3>1. d.branches[b].bullets[k] \in BulletRow
        BY <2>1 DEF BranchSound, BulletSound
      <3> QED BY <3>1 DEF BulletUpdate, BulletRow
    <2> QED BY <2>2, <2>3
  <1> QED BY <1>1 DEF BranchesUpdated, Kept

(* No detection row, snapshot or branch is written. *)
Quiet(d, e) ==
  /\ Kept(d.facts, e.facts) /\ Kept(d.gaps, e.gaps) /\ Kept(d.clashes, e.clashes)
  /\ Kept(d.snaps, e.snaps) /\ Kept(d.branches, e.branches)
  /\ DOMAIN e.gaps \subseteq DOMAIN d.gaps /\ DOMAIN e.snaps \subseteq DOMAIN d.snaps
  /\ DOMAIN e.branches \subseteq DOMAIN d.branches

LEMMA QuietAdmitted ==
  ASSUME Inv, Quiet(db, db')
  PROVE  Admissible(db, db') /\ Fresh(db, db')
  <1>1. SnapsUpdated(db, db') /\ BranchesUpdated(db, db')
    BY SnapsStay, BranchesStay DEF Inv, Sound, Quiet
  <1>2. GapsUpdated(db, db')
    BY DEF Quiet, Kept, GapsUpdated
  <1> QED BY <1>1, <1>2 DEF Quiet, Admissible, Fresh, NewGaps, NewSnaps, NewBranches

LEMMA ClearedQuiet ==
  ASSUME NEW d, NEW e, Cleared(e), Kept(d.facts, e.facts)
  PROVE  Quiet(d, e)
  BY DEF Cleared, Quiet, Kept

LEMMA CaptureAdmitted ==
  ASSUME Inv, NEW l \in Logs, NEW items \in Captures, Capture(l, items)
  PROVE  Quiet(db, db') /\ SourcesKept(db, db')
  <1> DEFINE e == Record(db, l, None, items, "before")
  <1>1. items \in SUBSET Strengths /\ l \in Logs \ DOMAIN db.logs /\ "before" \in Instants
        /\ LogsSound(db) /\ DOMAIN db = Tables
    BY CapturesAssumption DEF Capture, Instants, Inv, Sound
  <1>2. None \in DOMAIN db.logs \cup {None}
    OBVIOUS
  <1>3. Recorded(db, e, l, None)
    BY <1>1, <1>2, RecordFacts
  <1>4. db' = Settled(e, db)
    BY DEF Capture
  <1> HIDE DEF e
  <1>5. Same(e, db')
    BY <1>3, <1>4, SettledSame DEF Recorded
  <1> QED BY <1>3, <1>5 DEF Recorded, Same, Quiet, Kept, SourcesKept, Extends

LEMMA CorrectAdmitted ==
  ASSUME Inv, NEW l \in Logs, NEW target \in DOMAIN db.logs, NEW items \in Captures,
         Correct(l, target, items)
  PROVE  Quiet(db, db') /\ SourcesKept(db, db')
  <1> DEFINE gone == FactsOf(db, Lineage(db, Root(db, target)))
             clear == WithoutAnalysis(db)
             kept == [clear EXCEPT !.facts = Without(@, gone)]
             e == Record(kept, l, target, items, "before")
  <1>1. items \in SUBSET Strengths /\ l \in Logs \ DOMAIN db.logs /\ "before" \in Instants
        /\ LogsSound(db) /\ DOMAIN db = Tables
    BY CapturesAssumption DEF Correct, Instants, Inv, Sound
  <1>2. Cleared(clear) /\ clear.logs = db.logs /\ clear.facts = db.facts /\ clear.jds = db.jds
    BY <1>1, WithoutAnalysisFacts
  <1>3. db' = Settled(e, db)
    BY DEF Correct
  <1> HIDE DEF clear, gone
  <1>4. /\ Cleared(kept) /\ kept.logs = db.logs /\ kept.jds = db.jds
        /\ kept.facts = Without(db.facts, gone)
    BY <1>2 DEF Cleared, Tables
  <1> HIDE DEF kept
  <1>5. LogsSound(kept) /\ target \in DOMAIN kept.logs \cup {None}
        /\ l \in Logs \ DOMAIN kept.logs /\ DOMAIN kept = Tables
    BY <1>1, <1>4 DEF LogsSound, LogRow, Cleared
  <1>6. Recorded(kept, e, l, target)
    BY <1>1, <1>5, RecordFacts
  <1> HIDE DEF e
  <1>7. Same(e, db')
    BY <1>3, <1>6, SettledSame DEF Recorded
  <1>8. Cleared(db') /\ Kept(db.facts, db'.facts)
    BY <1>4, <1>6, <1>7 DEF Recorded, Same, Cleared, Kept, Without, Restrict
  <1>9. SourcesKept(db, db')
    BY <1>4, <1>6, <1>7 DEF Recorded, Same, SourcesKept, Extends
  <1> QED BY <1>8, <1>9, ClearedQuiet

LEMMA AnswerAdmitted ==
  ASSUME Inv, NEW l \in Logs, Answer(l)
  PROVE  Admissible(db, db') /\ Fresh(db, db') /\ SourcesKept(db, db')
  <1> DEFINE g == reading.gap
             e == Record(db, l, None, {Manual}, reading.at)
             a == [e EXCEPT !.gaps[g].answer = l]
  <1>1. /\ reading \in [gap : Gaps, at : Instants] /\ l \in Logs \ DOMAIN db.logs
        /\ g \in DOMAIN db.gaps /\ db.gaps[g].answer = None /\ db' = Settled(a, db)
    BY DEF Answer, Answerable, Inv, ReadingSound
  <1>2. /\ reading.at \in Instants /\ {Manual} \in SUBSET Strengths
        /\ None \in DOMAIN db.logs \cup {None} /\ LogsSound(db) /\ GapsSound(db) /\ DOMAIN db = Tables
    BY <1>1, ManualAssumption DEF Inv, Sound
  <1>3. Recorded(db, e, l, None)
    BY <1>1, <1>2, RecordFacts
  <1> HIDE DEF e, g
  <1>4. /\ DOMAIN a = Tables /\ a.logs = e.logs /\ a.facts = e.facts /\ a.clashes = e.clashes
        /\ a.snaps = e.snaps /\ a.branches = e.branches /\ a.jds = e.jds
        /\ a.gaps = [e.gaps EXCEPT ![g].answer = l]
    BY <1>3 DEF Recorded, Tables
  <1> HIDE DEF a
  <1>5. Same(a, db')
    BY <1>1, <1>4, SettledSame
  <1>6. /\ db'.facts = db.facts /\ db'.clashes = db.clashes /\ db'.snaps = db.snaps
        /\ db'.branches = db.branches /\ db'.gaps = [db.gaps EXCEPT ![g].answer = l]
    BY <1>3, <1>4, <1>5 DEF Recorded, Same
  <1>7. GapsUpdated(db, db') /\ NewGaps(db, db')
    <2>1. l # None /\ db.gaps[g] \in GapRow
      BY <1>1, <1>2, NoneAssumption DEF GapsSound
    <2>2. db'.gaps[g] = [db.gaps[g] EXCEPT !.answer = l]
      BY <1>1, <1>6
    <2>3. db'.gaps[g].answer # None /\ db'.gaps[g].target = db.gaps[g].target
      BY <2>1, <2>2 DEF GapRow
    <2>4. DOMAIN db'.gaps = DOMAIN db.gaps /\ \A h \in DOMAIN db.gaps \ {g} : db'.gaps[h] = db.gaps[h]
      BY <1>6
    <2> QED BY <1>1, <2>3, <2>4 DEF GapsUpdated, NewGaps
  <1>8. SnapsUpdated(db, db') /\ BranchesUpdated(db, db')
    BY <1>6, SnapsStay, BranchesStay DEF Inv, Sound, Kept
  <1>9. SourcesKept(db, db')
    BY <1>3, <1>4, <1>5 DEF Recorded, Same, SourcesKept, Extends
  <1> QED BY <1>6, <1>7, <1>8, <1>9 DEF Admissible, Kept, Fresh, NewSnaps, NewBranches

LEMMA DeletionAdmitted ==
  ASSUME Inv, (\E l \in Logs : DeleteLog(l)) \/ Purge
  PROVE  Quiet(db, db') /\ OwnerDeletion
  <1>1. CASE Purge
    <2>1. Cleared(db') /\ db'.facts = <<>>
      BY <1>1 DEF Purge, Empty, Cleared, Tables
    <2> QED BY <1>1, <2>1, ClearedQuiet DEF Kept, OwnerDeletion
  <1>2. CASE \E l \in Logs : DeleteLog(l)
    <2> DEFINE clear == WithoutAnalysis(db)
    <2>1. PICK l \in Logs : DeleteLog(l)
      BY <1>2
    <2>2. Cleared(clear)
      BY WithoutAnalysisFacts DEF Inv, Sound
    <2>3. db' = [clear EXCEPT !.facts = <<>>, !.detected = None,
                   !.logs = [k \in DOMAIN db.logs \ {l} |-> Unlinked(db.logs[k], l)]]
      BY <2>1 DEF DeleteLog
    <2> HIDE DEF clear
    <2>4. Cleared(db') /\ db'.facts = <<>>
      BY <2>2, <2>3 DEF Cleared, Tables
    <2> QED BY <1>2, <2>4, ClearedQuiet DEF Kept, OwnerDeletion
  <1> QED BY <1>1, <1>2

LEMMA ExtractAdmitted ==
  ASSUME Inv, NEW roots, NEW selected \in SUBSET Selections(db, roots), Extract(roots, selected)
  PROVE  Quiet(db, db') /\ SourcesKept(db, db')
  <1> DEFINE gone == FactsOf(db, UNION {Lineage(db, r) : r \in roots})
             idle == gone = {} /\ selected = {}
             clear == WithoutAnalysis(db)
             base == IF idle THEN db ELSE clear
  <1> HIDE DEF gone
  <1>1. PICK new \in Rows(Facts, HeldFacts(db), selected) :
          db' = Settled([base EXCEPT !.facts = Join(Without(@, gone), new)], db)
    BY DEF Extract, gone
  <1> DEFINE e == [base EXCEPT !.facts = Join(Without(@, gone), new)]
  <1>2. DOMAIN new \cap DOMAIN db.facts = {}
    <2>1. DOMAIN new \subseteq Facts \ HeldFacts(db)
      BY RowsFacts
    <2>2. DOMAIN db.facts \subseteq HeldFacts(db)
      BY DEF HeldFacts
    <2> QED BY <2>1, <2>2
  <1>3. Cleared(clear) /\ clear.logs = db.logs /\ clear.facts = db.facts /\ clear.jds = db.jds
    BY WithoutAnalysisFacts DEF Inv, Sound
  <1>4. LogsSound(db) /\ DOMAIN db = Tables
    BY DEF Inv, Sound
  <1> HIDE DEF clear
  <1>5. /\ DOMAIN base = Tables /\ base.logs = db.logs /\ base.facts = db.facts
        /\ base.jds = db.jds
    BY <1>3, <1>4 DEF Cleared
  <1>6. base = db \/ Cleared(base)
    BY <1>3
  <1> HIDE DEF base, idle
  <1>7. /\ DOMAIN e = Tables /\ e.logs = db.logs /\ e.jds = db.jds
        /\ e.facts = Join(Without(db.facts, gone), new)
        /\ e.gaps = base.gaps /\ e.clashes = base.clashes /\ e.snaps = base.snaps
        /\ e.branches = base.branches
    BY <1>5 DEF Tables
  <1> HIDE DEF e
  <1>8. Same(e, db')
    BY <1>1, <1>7, SettledSame DEF e
  <1>9. Kept(db.facts, db'.facts)
    BY <1>2, <1>7, <1>8 DEF Same, Kept, Join, Without, Restrict
  <1>10. Quiet(db, db')
    <2>1. CASE base = db
      BY <1>7, <1>8, <1>9, <2>1 DEF Same, Quiet, Kept
    <2>2. CASE Cleared(base)
      <3>1. Cleared(db')
        BY <1>7, <1>8, <2>2 DEF Same, Cleared
      <3> QED BY <1>9, <3>1, ClearedQuiet
    <2> QED BY <1>6, <2>1, <2>2
  <1>11. SourcesKept(db, db')
    BY <1>4, <1>7, <1>8, SameLogs DEF Same, SourcesKept, Grows
  <1> QED BY <1>10, <1>11

LEMMA DetectAdmitted ==
  ASSUME Inv, NEW targets, NEW pairs, Detect(targets, pairs)
  PROVE  Admissible(db, db') /\ Fresh(db, db') /\ SourcesKept(db, db')
  <1> DEFINE keepGaps == targets = GapKeys(db) /\ Open(db) = DOMAIN db.gaps
             keepClashes == pairs = Range(db.clashes)
             asked == {[target |-> t, answer |-> None] : t \in targets}
             call == [facts |-> DOMAIN db.facts, logs |-> Effective(db), live |-> TRUE]
             clear == WithoutAnalysis(db)
  <1>1. PICK gaps \in IF keepGaps THEN {db.gaps} ELSE Rows(Gaps, HeldGaps(db), asked),
             clashes \in IF keepClashes THEN {db.clashes}
                           ELSE Rows(Clashes, HeldClashes(db), pairs) :
          IF keepGaps /\ keepClashes
            THEN db' = [db EXCEPT !.detected = call] /\ UNCHANGED out
            ELSE /\ db' = [clear EXCEPT !.gaps = gaps, !.clashes = clashes, !.detected = call]
                 /\ Cleanup(DOMAIN db.snaps, DOMAIN db.branches)
    BY DEF Detect
  <1>2. LogsSound(db) /\ SnapsSound(db) /\ BranchesSound(db) /\ DOMAIN db = Tables
    BY DEF Inv, Sound
  <1>3. Cleared(clear) /\ clear.logs = db.logs /\ clear.facts = db.facts /\ clear.jds = db.jds
    BY <1>2, WithoutAnalysisFacts
  <1>4. \/ gaps = db.gaps
        \/ /\ DOMAIN gaps \cap DOMAIN db.gaps = {}
           /\ \A g \in DOMAIN gaps : gaps[g].answer = None
    <2>1. CASE keepGaps
      BY <1>1, <2>1
    <2>2. CASE ~ keepGaps
      <3>1. DOMAIN gaps \subseteq Gaps \ HeldGaps(db) /\ \A g \in DOMAIN gaps : gaps[g] \in asked
        BY <1>1, <2>2, RowsFacts
      <3>2. DOMAIN db.gaps \subseteq HeldGaps(db)
        BY DEF HeldGaps
      <3> QED BY <3>1, <3>2
    <2> QED BY <2>1, <2>2
  <1>5. Kept(db.clashes, clashes)
    <2>1. CASE keepClashes
      BY <1>1, <2>1 DEF Kept
    <2>2. CASE ~ keepClashes
      <3>1. DOMAIN clashes \subseteq Clashes \ HeldClashes(db)
        BY <1>1, <2>2, RowsFacts
      <3>2. DOMAIN db.clashes \subseteq HeldClashes(db)
        BY DEF HeldClashes
      <3> QED BY <3>1, <3>2 DEF Kept
    <2> QED BY <2>1, <2>2
  <1> HIDE DEF keepGaps, keepClashes, asked, call, clear
  <1>6. CASE db' = [db EXCEPT !.detected = call]
    <2>1. Quiet(db, db')
      BY <1>2, <1>6 DEF Quiet, Kept, Tables
    <2>2. SourcesKept(db, db')
      BY <1>2, <1>6 DEF SourcesKept, Extends, Tables
    <2> QED BY <2>1, <2>2, QuietAdmitted
  <1>7. CASE db' = [clear EXCEPT !.gaps = gaps, !.clashes = clashes, !.detected = call]
    <2>1. /\ db'.logs = db.logs /\ db'.facts = db.facts /\ db'.jds = db.jds
          /\ db'.gaps = gaps /\ db'.clashes = clashes
          /\ DOMAIN db'.snaps = {} /\ DOMAIN db'.branches = {}
      BY <1>3, <1>7 DEF Cleared, Tables
    <2>2. GapsUpdated(db, db') /\ NewGaps(db, db')
      BY <1>4, <2>1 DEF GapsUpdated, NewGaps
    <2>3. SnapsUpdated(db, db') /\ BranchesUpdated(db, db')
      BY <1>2, <2>1, SnapsStay, BranchesStay DEF Kept
    <2>4. SourcesKept(db, db')
      BY <2>1 DEF SourcesKept, Extends
    <2> QED BY <1>5, <2>1, <2>2, <2>3, <2>4
            DEF Admissible, Kept, Fresh, NewSnaps, NewBranches
  <1> QED BY <1>1, <1>6, <1>7

LEMMA ReplaceAdmitted ==
  ASSUME Inv, NEW claims, NEW was, was = DOMAIN db.snaps, ReplaceView(claims, was),
         \A c \in DOMAIN claims : claims[c].status = "unverified" /\ claims[c].contrary = {}
  PROVE  Admissible(db, db') /\ Fresh(db, db') /\ SourcesKept(db, db')
  <1>1. PICK s \in Snapshots \ HeldSnapshots(db) : db' = Written(db, s, claims, was)
    BY DEF ReplaceView
  <1> DEFINE snap == [gaps |-> Open(db), clashes |-> DOMAIN db.clashes, claims |-> claims,
                      status |-> "unverified", summary |-> claims[Narrative].text]
             gone == Dependents(db, was)
             e == [db EXCEPT !.snaps = Join(Without(@, was), Row(s, snap)),
                             !.branches = Without(@, gone)]
  <1>2. LogsSound(db) /\ SnapsSound(db) /\ BranchesSound(db) /\ DOMAIN db = Tables
    BY DEF Inv, Sound
  <1>3. db' = Past(e)
    BY <1>1 DEF Written
  <1>4. /\ snap.gaps = Open(db) /\ snap.claims = claims /\ snap.status = "unverified"
    OBVIOUS
  <1> HIDE DEF snap, gone
  <1>5. /\ DOMAIN e = Tables /\ e.logs = db.logs /\ e.facts = db.facts /\ e.gaps = db.gaps
        /\ e.clashes = db.clashes /\ e.jds = db.jds
        /\ e.snaps = Join(Without(db.snaps, was), Row(s, snap))
        /\ e.branches = Without(db.branches, gone)
    BY <1>2 DEF Tables
  <1> HIDE DEF e
  <1>6. /\ DOMAIN e.snaps = {s} /\ e.snaps[s] = snap /\ s \notin DOMAIN db.snaps
        /\ DOMAIN e.branches \subseteq DOMAIN db.branches /\ Kept(db.branches, e.branches)
    <2>1. s \notin DOMAIN db.snaps
      BY DEF HeldSnapshots
    <2>2. DOMAIN Without(db.snaps, was) = {}
      BY DEF Without, Restrict
    <2>3. DOMAIN Join(Without(db.snaps, was), Row(s, snap)) = {s}
      BY <2>2 DEF Join, Row
    <2>4. Join(Without(db.snaps, was), Row(s, snap))[s] = snap
      BY <2>2 DEF Join, Row
    <2> QED BY <1>5, <2>1, <2>3, <2>4 DEF Without, Restrict, Kept
  <1>7. /\ db'.facts = e.facts /\ db'.gaps = e.gaps /\ db'.clashes = e.clashes
        /\ db'.jds = e.jds /\ db'.snaps = e.snaps /\ db'.branches = e.branches
        /\ db'.logs = [l \in DOMAIN e.logs |-> [e.logs[l] EXCEPT !.at = "before"]]
    BY <1>3, <1>5 DEF Past, Tables
  <1>8. SourcesKept(db, db')
    BY <1>2, <1>5, <1>7 DEF SourcesKept, Extends, LogsSound, LogRow
  <1>9. SnapsUpdated(db, db') /\ BranchesUpdated(db, db')
    BY <1>2, <1>6, <1>7, SnapsStay, BranchesStay DEF Kept
  <1>10. NewSnaps(db, db')
    BY <1>4, <1>5, <1>6, <1>7 DEF NewSnaps, Open
  <1> QED BY <1>5, <1>6, <1>7, <1>8, <1>9, <1>10
          DEF Admissible, Kept, GapsUpdated, Fresh, NewGaps, NewBranches

LEMMA GenerateAdmitted ==
  ASSUME Inv, NEW cited, Generate(cited)
  PROVE  Admissible(db, db') /\ Fresh(db, db') /\ SourcesKept(db, db')
  <1> DEFINE claims == [c \in DOMAIN cited |-> Claim(cited[c], "unverified", {}, "first", FALSE)]
  <1>1. \A c \in DOMAIN claims : claims[c].status = "unverified" /\ claims[c].contrary = {}
    BY DEF Claim
  <1>2. ReplaceView(claims, DOMAIN db.snaps)
    BY DEF Generate
  <1> HIDE DEF claims
  <1> QED BY <1>1, <1>2, ReplaceAdmitted

LEMMA RepairAdmitted ==
  ASSUME Inv, NEW s \in DOMAIN db.snaps, Repair(s)
  PROVE  Admissible(db, db') /\ Fresh(db, db') /\ SourcesKept(db, db')
  <1> DEFINE claims == Repaired(db.snaps[s].claims)
  <1>1. \A c \in DOMAIN claims : claims[c].status = "unverified" /\ claims[c].contrary = {}
    BY DEF Repaired, Claim
  <1>2. ReplaceView(claims, DOMAIN db.snaps)
    BY SnapFacts DEF Repair
  <1> HIDE DEF claims
  <1> QED BY <1>1, <1>2, ReplaceAdmitted

LEMMA VerdictGrounded ==
  ASSUME NEW d, NEW claim, NEW v \in Verdicts(d, claim)
  PROVE  /\ v.status # "unverified"
         /\ \A r \in v.contrary : r \in VerifierBundle(d, claim) /\ VerifierReferenceValid(d, r)
  <1>1. PICK x \in Findings :
          /\ v.status = x.status
          /\ \A r \in v.contrary : r \in VerifierBundle(d, claim) /\ VerifierReferenceValid(d, r)
    BY DEF Verdicts
  <1> QED BY <1>1, FindingsAssumption

LEMMA ClaimJudged ==
  ASSUME NEW old \in ClaimRow, NEW now, NEW s, NEW c, NEW r,
         now = [facts |-> old.facts, status |-> s, contrary |-> c, text |-> old.text,
                rewrite |-> r]
  PROVE  ClaimUpdate(old, now)
  <1>1. PICK f, s1, c1, t, r1 :
          /\ f = old.facts /\ s1 = old.status /\ c1 = old.contrary /\ t = old.text
          /\ r1 = old.rewrite
    OBVIOUS
  <1>2. old = [facts |-> f, status |-> s1, contrary |-> c1, text |-> t, rewrite |-> r1]
    <2>1. \A k : k \in ClaimRow =>
            k = [facts |-> k.facts, status |-> k.status, contrary |-> k.contrary,
                 text |-> k.text, rewrite |-> k.rewrite]
      BY DEF ClaimRow
    <2> QED BY <1>1, <2>1
  <1>3. now = [facts |-> f, status |-> s, contrary |-> c, text |-> t, rewrite |-> r]
    BY <1>1
  <1>4. PICK x : x = [now EXCEPT !.status = s1, !.contrary = c1, !.rewrite = r1]
    OBVIOUS
  <1>5. x = old
    <2>1. DOMAIN x = DOMAIN old
      BY <1>2, <1>3, <1>4
    <2>2. x.facts = old.facts /\ x.status = old.status /\ x.contrary = old.contrary
      BY <1>2, <1>3, <1>4
    <2>3. x.text = old.text /\ x.rewrite = old.rewrite
      BY <1>2, <1>3, <1>4
    <2> QED BY <1>2, <1>3, <1>4, <2>1, <2>2, <2>3
  <1> QED BY <1>1, <1>4, <1>5 DEF ClaimUpdate

(* A finding changes a claim's verdict and nothing it was written from.    *)
LEMMA VerifyAdmitted ==
  ASSUME Inv, NEW s \in DOMAIN db.snaps, NEW verdict,
         \A c \in DOMAIN db.snaps[s].claims : verdict[c] \in Verdicts(db, db.snaps[s].claims[c]),
         Verify(s, verdict)
  PROVE  Admissible(db, db') /\ Fresh(db, db') /\ SourcesKept(db, db')
  <1> DEFINE snap == db.snaps[s]
             claims == Judged(snap.claims, verdict)
             status == Aggregate({verdict[c].status : c \in DOMAIN claims})
             changed == status # snap.status \/ Changed(snap.claims, claims)
             stale == IF changed THEN Dependents(db, {s}) ELSE {}
             e == db'.snaps[s]
  <1>1. db' = [db EXCEPT !.snaps[s].claims = claims, !.snaps[s].status = status,
                         !.branches = Without(@, stale)]
    BY DEF Verify
  <1>2. BranchesSound(db) /\ DOMAIN db = Tables /\ DOMAIN db.snaps = {s} /\ SnapSound(db, snap)
    BY SnapFacts DEF Inv, Sound
  <1>3. \A c \in DOMAIN snap.claims : verdict[c] \in Verdicts(db, snap.claims[c])
    OBVIOUS
  <1>4. DOMAIN claims = DOMAIN snap.claims
    BY DEF Judged
  <1>5. ASSUME NEW c \in DOMAIN snap.claims
        PROVE  claims[c] = Claim(snap.claims[c].facts, verdict[c].status, verdict[c].contrary,
                                 snap.claims[c].text, verdict[c].rewrite)
    BY <1>5 DEF Judged
  <1> HIDE DEF claims, status, changed, stale, snap
  <1>6. /\ db'.logs = db.logs /\ db'.facts = db.facts /\ db'.gaps = db.gaps
        /\ db'.clashes = db.clashes /\ db'.jds = db.jds
        /\ db'.branches = Without(db.branches, stale) /\ DOMAIN db'.snaps = {s}
        /\ e = [snap EXCEPT !.claims = claims, !.status = status]
    BY <1>1, <1>2 DEF Tables, snap
  <1> HIDE DEF e
  <1>7. SnapshotUpdate(snap, e) /\ e.claims = claims
    BY <1>2, <1>6 DEF SnapshotUpdate, SnapSound
  <1>8. ASSUME NEW c \in DOMAIN snap.claims
        PROVE  ClaimUpdate(snap.claims[c], claims[c]) /\ FindingAdmitted(db', claims[c])
    <2> DEFINE old == snap.claims[c]
               now == claims[c]
    <2>1. old \in ClaimRow
      BY <1>2 DEF SnapSound, ClaimSound
    <2>2. verdict[c] \in Verdicts(db, old)
      BY <1>3
    <2>3. PICK v : v = verdict[c]
      OBVIOUS
    <2>4. now = Claim(old.facts, v.status, v.contrary, old.text, v.rewrite)
      BY <1>5, <2>3
    <2> HIDE DEF old, now
    <2>5. ClaimUpdate(old, now)
      <3>1. PICK w : w = v.rewrite
        OBVIOUS
      <3>2. now = [facts |-> old.facts, status |-> v.status, contrary |-> v.contrary,
                   text |-> old.text, rewrite |-> w]
        BY <2>4, <3>1 DEF Claim
      <3> QED BY <2>1, <3>2, ClaimJudged
    <2>6. now.facts = old.facts /\ now.status = v.status /\ now.contrary = v.contrary
      BY <2>4 DEF Claim
    <2>7. /\ v.status # "unverified"
          /\ \A r \in v.contrary : r \in VerifierBundle(db, old) /\ VerifierReferenceValid(db, r)
      BY <2>2, <2>3, VerdictGrounded
    <2>8. VerifierBundle(db', now) = VerifierBundle(db, old)
      BY <1>6, <2>6 DEF VerifierBundle, Displaced
    <2>9. ASSUME NEW r \in VerifierBundle(db, old), VerifierReferenceValid(db, r)
          PROVE  VerifierReferenceValid(db', r)
      <3>1. Items(db') = Items(db)
        BY <1>6 DEF Items, ItemsOf
      <3>2. r[1] \in {"experience_fact", "raw_log", "evidence_item"}
        BY DEF VerifierBundle, FactRef, LogRef, ItemRef
      <3> QED BY <1>6, <2>9, <3>1, <3>2 DEF VerifierReferenceValid
    <2>10. FindingAdmitted(db', now)
      BY <2>6, <2>7, <2>8, <2>9 DEF FindingAdmitted
    <2> QED BY <2>5, <2>10 DEF old, now
  <1>9. SnapsUpdated(db, db')
    BY <1>2, <1>4, <1>6, <1>7, <1>8 DEF SnapsUpdated, snap, e
  <1>10. BranchesUpdated(db, db') /\ DOMAIN db'.branches \subseteq DOMAIN db.branches
    <2>1. Kept(db.branches, db'.branches) /\ DOMAIN db'.branches \subseteq DOMAIN db.branches
      BY <1>6 DEF Kept, Without, Restrict
    <2> QED BY <1>2, <2>1, BranchesStay
  <1>11. SourcesKept(db, db')
    BY <1>6 DEF SourcesKept, Extends
  <1> QED BY <1>2, <1>6, <1>9, <1>10, <1>11
          DEF Admissible, Kept, GapsUpdated, Fresh, NewGaps, NewSnaps, NewBranches

LEMMA AddVacancyAdmitted ==
  ASSUME Inv, NEW v \in Vacancies, AddVacancy(v)
  PROVE  Quiet(db, db') /\ SourcesKept(db, db')
  <1>1. DOMAIN db = Tables
    BY DEF Inv, Sound
  <1> QED BY <1>1 DEF AddVacancy, Quiet, Kept, SourcesKept, Extends, Tables

LEMMA DeleteVacancyAdmitted ==
  ASSUME Inv, NEW v \in Vacancies, DeleteVacancy(v)
  PROVE  Quiet(db, db') /\ OwnerDeletion
  <1> DEFINE gone == {b \in DOMAIN db.branches : db.branches[b].jd = v}
  <1>1. DOMAIN db = Tables
    BY DEF Inv, Sound
  <1>2. db' = [db EXCEPT !.jds = @ \ {v}, !.branches = Without(@, gone), !.detected = None]
    BY DEF DeleteVacancy
  <1> HIDE DEF gone
  <1>3. /\ db'.facts = db.facts /\ db'.gaps = db.gaps /\ db'.clashes = db.clashes
        /\ db'.snaps = db.snaps /\ db'.branches = Without(db.branches, gone)
    BY <1>1, <1>2 DEF Tables
  <1>4. Quiet(db, db')
    BY <1>3 DEF Quiet, Kept, Without, Restrict
  <1> QED BY <1>4 DEF OwnerDeletion

LEMMA WriteAdmitted ==
  ASSUME Inv, NEW v, NEW s, NEW name, NEW facts, NEW claims,
         WriteBullets(v, s, name, facts, claims)
  PROVE  Admissible(db, db') /\ Fresh(db, db') /\ SourcesKept(db, db')
  <1> DEFINE same == Namesakes(db, name)
             bullet == [facts |-> facts, claims |-> claims, logs |-> LogClosure(db, facts),
                        status |-> "unverified"]
             branch == [name |-> name, anchor |-> s, jd |-> v, bullets |-> Row(1, bullet)]
  <1>1. PICK b \in Branches \ HeldBranches(db) :
          db' = [db EXCEPT !.branches = Join(Without(@, same), Row(b, branch))]
    BY DEF WriteBullets
  <1>2. db.snaps[s].status \in AnchorEligible
    BY DEF WriteBullets, AnchorReady
  <1>3. DOMAIN db = Tables /\ SnapsSound(db) /\ BranchesSound(db)
    BY DEF Inv, Sound
  <1>4. branch.anchor = s /\ \A k \in DOMAIN branch.bullets : branch.bullets[k].status = "unverified"
    BY DEF Row
  <1> HIDE DEF branch, same
  <1>5. /\ db'.logs = db.logs /\ db'.facts = db.facts /\ db'.gaps = db.gaps
        /\ db'.clashes = db.clashes /\ db'.snaps = db.snaps /\ db'.jds = db.jds
        /\ db'.branches = Join(Without(db.branches, same), Row(b, branch))
    BY <1>1, <1>3 DEF Tables
  <1>6. /\ DOMAIN db'.branches = (DOMAIN db.branches \ same) \cup {b}
        /\ db'.branches[b] = branch /\ b \notin DOMAIN db.branches
        /\ \A a \in DOMAIN db.branches \ same : db'.branches[a] = db.branches[a]
    <2>1. b \notin DOMAIN db.branches
      BY DEF HeldBranches
    <2> QED BY <1>5, <2>1 DEF Join, Row, Without, Restrict
  <1>7. BranchesUpdated(db, db') /\ SnapsUpdated(db, db')
    BY <1>3, <1>5, <1>6, BranchesStay, SnapsStay DEF Kept
  <1>8. NewBranches(db, db')
    BY <1>2, <1>4, <1>5, <1>6 DEF NewBranches
  <1>9. SourcesKept(db, db')
    BY <1>5 DEF SourcesKept, Extends
  <1> QED BY <1>5, <1>7, <1>8, <1>9
          DEF Admissible, Kept, GapsUpdated, Fresh, NewGaps, NewSnaps

LEMMA VerifyBulletsAdmitted ==
  ASSUME Inv, NEW b \in DOMAIN db.branches, NEW status, VerifyBullets(b, status)
  PROVE  Admissible(db, db') /\ Fresh(db, db') /\ SourcesKept(db, db')
  <1> DEFINE branch == db.branches[b]
             bullets == [k \in DOMAIN branch.bullets |->
                           [branch.bullets[k] EXCEPT !.status = status[k]]]
             now == [branch EXCEPT !.bullets = bullets]
  <1>1. db' = [db EXCEPT !.branches[b].bullets = bullets]
    BY DEF VerifyBullets
  <1>2. DOMAIN db = Tables /\ SnapsSound(db) /\ BranchesSound(db) /\ BranchSound(db, branch)
    BY DEF Inv, Sound, BranchesSound
  <1>3. ASSUME NEW k \in DOMAIN branch.bullets
        PROVE  BulletUpdate(branch.bullets[k], bullets[k])
    <2> DEFINE old == branch.bullets[k]
    <2>1. old \in BulletRow
      BY <1>2 DEF BranchSound, BulletSound
    <2>2. bullets[k] = [old EXCEPT !.status = status[k]]
      OBVIOUS
    <2> HIDE DEF old, bullets
    <2>3. BulletUpdate(old, bullets[k])
      BY <2>1, <2>2 DEF BulletUpdate, BulletRow
    <2> QED BY <2>3 DEF old
  <1> HIDE DEF bullets
  <1>4. BranchUpdate(branch, now) /\ now.bullets = bullets
    BY <1>2 DEF BranchUpdate, BranchSound
  <1>5. /\ db'.logs = db.logs /\ db'.facts = db.facts /\ db'.gaps = db.gaps
        /\ db'.clashes = db.clashes /\ db'.snaps = db.snaps /\ db'.jds = db.jds
        /\ db'.branches = [db.branches EXCEPT ![b] = now]
    BY <1>1, <1>2 DEF Tables
  <1> HIDE DEF now
  <1>6. /\ DOMAIN db'.branches = DOMAIN db.branches /\ db'.branches[b] = now
        /\ \A a \in DOMAIN db.branches \ {b} : db'.branches[a] = db.branches[a]
    BY <1>5
  <1>7. SnapsUpdated(db, db')
    BY <1>2, <1>5, SnapsStay DEF Kept
  <1>8. BranchesUpdated(db, db')
    <2>1. ASSUME NEW a \in DOMAIN db.branches \ {b}
          PROVE  /\ BranchUpdate(db.branches[a], db.branches[a])
                 /\ \A k \in DOMAIN db.branches[a].bullets :
                      BulletUpdate(db.branches[a].bullets[k], db.branches[a].bullets[k])
      <3>1. BranchesUpdated(db, db)
        BY <1>2, BranchesStay DEF Kept
      <3> QED BY <3>1 DEF BranchesUpdated
    <2> QED BY <1>3, <1>4, <1>6, <2>1 DEF BranchesUpdated
  <1>9. SourcesKept(db, db')
    BY <1>5 DEF SourcesKept, Extends
  <1> QED BY <1>5, <1>6, <1>7, <1>8, <1>9
          DEF Admissible, Kept, GapsUpdated, Fresh, NewGaps, NewSnaps, NewBranches

Admitted == Admissible(db, db') /\ Fresh(db, db') /\ (SourcesKept(db, db') \/ OwnerDeletion)

LEMMA StepAdmitted ==
  ASSUME Inv, Next
  PROVE  Admitted \/ db' = db
  <1> HIDE DEF OwnerDeletion
  <1>1. CASE SomeCapture
    BY <1>1, CaptureAdmitted, QuietAdmitted DEF SomeCapture, Admitted
  <1>2. CASE SomeCorrection
    BY <1>2, CorrectAdmitted, QuietAdmitted DEF SomeCorrection, Admitted
  <1>3. CASE SomeClock \/ GiveUp \/ Retain
    BY <1>3 DEF SomeClock, ReadClock, GiveUp, Retain, vars
  <1>4. CASE SomeAnswer
    BY <1>4, AnswerAdmitted DEF SomeAnswer, Admitted
  <1>5. CASE SomeDeletion \/ Purge
    BY <1>5, DeletionAdmitted, QuietAdmitted DEF SomeDeletion, Admitted
  <1>6. CASE ExtractSome
    BY <1>6, ExtractAdmitted, QuietAdmitted DEF ExtractSome, Admitted
  <1>7. CASE DetectSome
    BY <1>7, DetectAdmitted DEF DetectSome, Admitted
  <1>8. CASE GenerateSome
    BY <1>8, GenerateAdmitted DEF GenerateSome, Admitted
  <1>9. CASE VerifySome
    <2>1. PICK s \in DOMAIN db.snaps :
            \E verdict \in [DOMAIN db.snaps[s].claims ->
                              UNION {Verdicts(db, db.snaps[s].claims[c]) :
                                       c \in DOMAIN db.snaps[s].claims}] :
              /\ \A c \in DOMAIN verdict : verdict[c] \in Verdicts(db, db.snaps[s].claims[c])
              /\ Verify(s, verdict)
      BY <1>9 DEF VerifySome
    <2>2. PICK verdict :
            /\ \A c \in DOMAIN db.snaps[s].claims :
                 verdict[c] \in Verdicts(db, db.snaps[s].claims[c])
            /\ Verify(s, verdict)
      BY <2>1
    <2> QED BY <2>2, VerifyAdmitted DEF Admitted
  <1>10. CASE SomeRepair
    BY <1>10, RepairAdmitted DEF SomeRepair, Admitted
  <1>11. CASE SomeVacancy
    BY <1>11, AddVacancyAdmitted, DeleteVacancyAdmitted, QuietAdmitted DEF SomeVacancy, Admitted
  <1>12. CASE WriteSome
    BY <1>12, WriteAdmitted DEF WriteSome, Admitted
  <1>13. CASE VerifyBulletsSome
    BY <1>13, VerifyBulletsAdmitted DEF VerifyBulletsSome, Admitted
  <1>14. CASE SomeExport
    BY <1>14 DEF SomeExport, ExportAssessment, ExportBranch
  <1> QED BY <1>1, <1>2, <1>3, <1>4, <1>5, <1>6, <1>7, <1>8, <1>9, <1>10, <1>11, <1>12,
             <1>13, <1>14 DEF Next

LEMMA CommitAdmitted ==
  ASSUME Inv, Inv', [Next]_vars
  PROVE  [Inserted /\ Updated]_db
  <1>1. Admitted \/ db' = db
    BY StepAdmitted DEF vars
  <1>2. CASE Admitted
    BY <1>2, FreshInserted, KeptUpdated DEF Admitted, Admissible
  <1> QED BY <1>1, <1>2

(* No commit is refused: what each stage inserts passes the repository's     *)
(* re-validation, and a row that stays changes only as its trigger allows.   *)
THEOREM CommitsAdmittedHolds == Spec => CommitsAdmitted
  <1>1. Inv /\ Inv' /\ [Next]_vars => [Inserted /\ Updated]_db
    BY CommitAdmitted
  <1> QED BY <1>1, AlwaysInv, PTL DEF Spec, CommitsAdmitted

=============================================================================
