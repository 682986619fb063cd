------------------------------- MODULE RowGuards -------------------------------
(***************************************************************************)
(* What the storage layer demands of the rows the stages write: the shape  *)
(* and the references of each table, what the repository re-validates when *)
(* a row is inserted, and which updates the schema's triggers let through. *)
(*                                                                         *)
(* A refusal here aborts a transaction after its provider calls were paid  *)
(* for, so the stages must never meet one. Timestamps, texts, labels and   *)
(* JSON columns are left out; a superseded row is gone from `d`.           *)
(***************************************************************************)
EXTENDS EvidenceGraph

CONSTANTS
  Facts, Gaps, Clashes, Snapshots, Branches,   \* identifier pools
  Names,       \* folded branch names
  Vacancies    \* job descriptions

Statuses == {"unverified"} \cup {Precedence[n] : n \in DOMAIN Precedence}

-------------------------------------------------------------------------------
(* The tables: NOT NULL and CHECK clauses, and the REFERENCES of rows that   *)
(* are deleted rather than superseded.                                       *)

LogTable(d) ==
  /\ DOMAIN d.logs \subseteq Logs
  /\ \A l \in DOMAIN d.logs : d.logs[l].corrects \in DOMAIN d.logs \cup {None}

EvidenceTable(d) == \A l \in DOMAIN d.logs : d.logs[l].items \subseteq Strengths

FactTable(d) == DOMAIN d.facts \subseteq Facts

FactSources(d) == \A f \in DOMAIN d.facts : d.facts[f] \subseteq Items(d)

RefTyped(ref) ==
  \/ ref[1] = "raw_log" /\ ref[2] \in Logs
  \/ ref[1] = "evidence_item" /\ ref[2] \in Logs \X Strengths
  \/ ref[1] = "experience_fact" /\ ref[2] \in Facts

GapTable(d) ==
  /\ DOMAIN d.gaps \subseteq Gaps
  /\ \A g \in DOMAIN d.gaps :
       RefTyped(d.gaps[g].target) /\ d.gaps[g].answer \in DOMAIN d.logs \cup {None}

ClashTable(d) ==
  /\ DOMAIN d.clashes \subseteq Clashes
  /\ \A x \in DOMAIN d.clashes :
       Cardinality(d.clashes[x]) = 2 /\ \A ref \in d.clashes[x] : RefTyped(ref)

SnapshotTable(d) ==
  /\ DOMAIN d.snaps \subseteq Snapshots
  /\ \A s \in DOMAIN d.snaps :
       /\ d.snaps[s].status \in Statuses
       /\ d.snaps[s].gaps \subseteq Gaps
       /\ d.snaps[s].clashes \subseteq Clashes

ClaimTable(d) ==
  \A s \in DOMAIN d.snaps : \A c \in DOMAIN d.snaps[s].claims :
    LET claim == d.snaps[s].claims[c] IN
    /\ claim.status \in Statuses
    /\ claim.facts \subseteq Facts
    /\ \A ref \in claim.contrary : RefTyped(ref)

VacancyTable(d) == d.jds \subseteq Vacancies

BranchTable(d) ==
  /\ DOMAIN d.branches \subseteq Branches
  /\ \A b \in DOMAIN d.branches :
       /\ d.branches[b].name \in Names
       /\ d.branches[b].anchor \in Snapshots
       /\ d.branches[b].jd \in d.jds

BulletTable(d) ==
  \A b \in DOMAIN d.branches : \A bullet \in Bullets(d.branches[b]) :
    bullet.status \in Statuses /\ bullet.facts \subseteq Facts /\ bullet.logs \subseteq Logs

-------------------------------------------------------------------------------
(* Insertion: what the repository re-validates before a row is written.      *)

FactAdmitted(d, f) == d.facts[f] # {} /\ SourcesValid(d, d.facts[f])

GapAdmitted(d, g) == d.gaps[g].answer = None /\ ReferenceValid(d, d.gaps[g].target)

ClashAdmitted(d, x) == \A ref \in d.clashes[x] : ReferenceValid(d, ref)

(* Written unverified, over gaps that are current and open. *)
SnapshotAdmitted(d, s) ==
  /\ d.snaps[s].status = "unverified"
  /\ \A g \in d.snaps[s].gaps : g \in DOMAIN d.gaps /\ d.gaps[g].answer = None
  /\ d.snaps[s].clashes \subseteq DOMAIN d.clashes

ClaimAdmitted(d, claim) ==
  /\ claim.status = "unverified"
  /\ claim.contrary = {}
  /\ claim.facts # {}
  /\ claim.facts \subseteq DOMAIN d.facts

BranchAdmitted(d, b) ==
  LET branch == d.branches[b] IN
  /\ branch.anchor \in DOMAIN d.snaps
  /\ d.snaps[branch.anchor].status \in AnchorEligible
  /\ branch.jd \in d.jds
  /\ \A other \in DOMAIN d.branches : d.branches[other].name = branch.name => other = b

BulletAdmitted(d, branch, bullet) ==
  LET members == d.snaps[branch.anchor].claims IN
  /\ bullet.status = "unverified"
  /\ bullet.facts \subseteq DOMAIN d.facts
  /\ bullet.logs \subseteq DOMAIN d.logs
  /\ bullet.logs = LogClosure(d, bullet.facts)
  /\ \A c \in bullet.claims : c \in DOMAIN members /\ members[c].status = "supported"

(* A finding's counterevidence comes from the bundle its verifier was given  *)
(* and exists; its status is a verdict.                                      *)
FindingAdmitted(d, claim) ==
  /\ claim.status # "unverified"
  /\ \A ref \in claim.contrary :
       ref \in VerifierBundle(d, claim) /\ VerifierReferenceValid(d, ref)

-------------------------------------------------------------------------------
(* Updates: what the BEFORE UPDATE triggers let through. `owner` is the      *)
(* connection's owner-deletion flag; only a row that stays is an update.     *)

LogUpdate(old, new, owner) == old.corrects # new.corrects => owner

(* An evidence item and a fact's selection never change. *)
EvidenceUpdate(old, new, owner) == old.items # new.items => owner

FactUpdate(old, new) == new = old
ClashUpdate(old, new) == new = old
BranchUpdate(old, new) == [new EXCEPT !.bullets = old.bullets] = old

(* Open to answered, once. *)
GapUpdate(old, new, owner) ==
  \/ new = old
  \/ old.answer = None /\ new.answer # None /\ new.target = old.target
  \/ owner

(* The verdict and its counterevidence; the rewrite lives in the findings. *)
ClaimUpdate(old, new) ==
  [new EXCEPT !.status = old.status, !.contrary = old.contrary, !.rewrite = old.rewrite] = old

SnapshotUpdate(old, new) ==
  [new EXCEPT !.status = old.status, !.claims = old.claims] = old

BulletUpdate(old, new) == [new EXCEPT !.status = old.status] = old

(* BEFORE DELETE: source rows and job descriptions go by the owner's hand. *)
LogDelete(was, now, owner) == ~(DOMAIN was.logs \subseteq DOMAIN now.logs) => owner

VacancyDelete(was, now, owner) == ~(was.jds \subseteq now.jds) => owner

(* A current fact whose selection an owner deletion cut down would be an     *)
(* update in disguise: fact_sources only go with their fact.                 *)
SourcesDelete(was, now) ==
  \A f \in DOMAIN was.facts \cap DOMAIN now.facts : was.facts[f] \subseteq now.facts[f]

===============================================================================
