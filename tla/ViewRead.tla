------------------------------ MODULE ViewRead ------------------------------
(***************************************************************************)
(* read_current_assessment_members: the view server's lock-free read of    *)
(* the published assessment, beside the writer of Publication. It holds no *)
(* transaction and no lock: the database was read first, then every look   *)
(* at the final path sees whatever is there at that moment.                *)
(***************************************************************************)
EXTENDS Publication

CONSTANTS Members,   \* the fixed member files of a set, the manifest aside
          Shared     \* those whose bytes do not depend on the rendering

ASSUME SharedAssumption == Shared \subseteq Members

VARIABLE r   \* the read in progress, or the last one; its field `steady` is a
             \* history variable: the export of the loaded graph has stood
             \* undisturbed at the final path since the read began

Nothing == 0 - 1

(* The bytes of a member in a set of this rendering.                       *)
Bytes(m, render) == IF m \in Shared THEN 0 ELSE render

NoRead == [pc |-> "idle", ent |-> NoEntity, render |-> 1, id |-> {},
           manifest |-> {}, left |-> {}, got |-> [m \in Members |-> Nothing],
           pending |-> "none", verdict |-> "none", steady |-> FALSE]

readVars == <<dir, disk, db, w, r>>

ReadInit == Init /\ r = NoRead

-----------------------------------------------------------------------------

Seen == dir["final"][r.ent]

Identity == {s.id : s \in Seen}

(* Whether a look at one file of the set now at the final path can return  *)
(* the bytes of rendering v: in a torn set the file may be gone already.   *)
MayRead(v)  == \E s \in Seen : s.render = v
MayMiss     == Seen = {} \/ \E s \in Seen : ~ Valid(s)

Look(pc) == r.pc = pc /\ UNCHANGED <<dir, disk, db, w>>

NoBytes == [m \in Members |-> Nothing]

(* An answer keeps only the bytes it serves.                               *)
Answer(verdict) ==
  r' = [r EXCEPT !.pc = "done", !.verdict = verdict, !.id = {}, !.manifest = {},
                 !.left = {}, !.got = IF verdict = "current" THEN @ ELSE NoBytes,
                 !.pending = "none"]

(* _stable: the verdict stands only if the entry is still the same one.    *)
Suspect(verdict) ==
  r' = [r EXCEPT !.pc = "stable", !.pending = verdict, !.manifest = {},
                 !.left = {}, !.got = NoBytes]

(* The export of the current graph stands whole at the final path.         *)
Exported(e) == /\ FinalValid(dir, e)
               /\ \A s \in dir["final"][e] : s.render = db.render

(* The graph comes from one read transaction, closed before the files are  *)
(* opened; the export gate was checked in it.                              *)
LoadGraph == /\ r.pc \in {"idle", "done"}
             /\ db.current \in Entities /\ db.eligible
             /\ r' = [NoRead EXCEPT !.pc = "identify", !.ent = db.current,
                                    !.render = db.render,
                                    !.steady = Exported(db.current)]
             /\ UNCHANGED <<dir, disk, db, w>>

Identify == /\ Look("identify")
            /\ IF Seen = {} THEN Answer("not_current")
                            ELSE r' = [r EXCEPT !.pc = "manifest", !.id = Identity]

ReadManifest ==
  /\ Look("manifest")
  /\ \/ \E v \in Renders :
          /\ MayRead(v)
          /\ r' = [r EXCEPT !.pc = "inspect", !.manifest = {v}, !.left = Members]
     \/ MayMiss /\ Suspect("residual")

(* _inspect_set: every member must have the digest the manifest names.     *)
Digest(m) == {Bytes(m, v) : v \in r.manifest}

InspectMember(m) ==
  /\ Look("inspect")
  /\ m \in r.left
  /\ \/ \E v \in Renders :
          /\ MayRead(v)
          /\ IF Bytes(m, v) \in Digest(m)
               THEN r' = [r EXCEPT !.left = @ \ {m}]
               ELSE Suspect("residual")
     \/ MayMiss /\ Suspect("residual")

Inspected == /\ Look("inspect")
             /\ r.left = {}
             /\ r' = [r EXCEPT !.pc = "match"]

(* Mutant: the manifest is compared with the database of this moment.      *)
MatchDatabase == /\ Look("match")
                 /\ IF r.manifest = {db.render}
                      THEN r' = [r EXCEPT !.pc = "members", !.left = Members]
                      ELSE Suspect("not_current")

(* The manifest must agree with the graph loaded before.                   *)
MatchGraph == /\ Look("match")
              /\ IF r.manifest = {r.render}
                   THEN r' = [r EXCEPT !.pc = "members", !.left = Members]
                   ELSE Suspect("not_current")

(* Mutant: what the second read returns is not hashed.                     *)
ReadMemberBlindly(m) ==
  /\ Look("members")
  /\ m \in r.left
  /\ \/ \E v \in Renders :
          /\ MayRead(v)
          /\ r' = [r EXCEPT !.left = @ \ {m}, !.got[m] = Bytes(m, v)]
     \/ MayMiss /\ Suspect("residual")

(* The members are read once more, and what is read is hashed again.       *)
ReadMember(m) ==
  /\ Look("members")
  /\ m \in r.left
  /\ \/ \E v \in Renders :
          /\ MayRead(v)
          /\ IF Bytes(m, v) \in Digest(m)
               THEN r' = [r EXCEPT !.left = @ \ {m}, !.got[m] = Bytes(m, v)]
               ELSE Suspect("residual")
     \/ MayMiss /\ Suspect("residual")

Served == /\ Look("members")
          /\ r.left = {}
          /\ Answer(IF Identity = r.id THEN "current" ELSE "changed")

Stable == /\ Look("stable")
          /\ Answer(IF Identity = r.id THEN r.pending ELSE "changed")

ReadStep == \/ Identify
            \/ ReadManifest
            \/ \E m \in Members : InspectMember(m) \/ ReadMember(m)
            \/ Inspected
            \/ MatchGraph
            \/ Served
            \/ Stable

(* The writer runs beside the reader; a power loss takes the reader too.   *)
WriterStep == /\ \/ \E op \in {"export", "change"} : Begin(op)
                 \/ CommandStep
                 \/ Interrupt
                 \/ Kill
              /\ r' = [r EXCEPT !.steady =
                          @ /\ dir'["final"][r.ent] = dir["final"][r.ent]]

ReadNext == \/ LoadGraph
            \/ ReadStep
            \/ WriterStep
            \/ PowerLoss /\ r' = NoRead

ReadSpec == ReadInit /\ [][ReadNext]_readVars

-----------------------------------------------------------------------------

(* What is served is exactly the set of the graph that was loaded, member  *)
(* by member, whatever the writer replaced, swept or removed meanwhile.    *)
ServedIsLoadedGraph ==
  r.verdict = "current" => \A m \in Members : r.got[m] = Bytes(m, r.render)

(* A read during which the export of its graph was never touched serves    *)
(* it: nothing the writer does elsewhere in the directory makes the read   *)
(* refuse.                                                                 *)
SteadyReadServes ==
  r.pc = "done" /\ r.steady => r.verdict = "current"

(* spec/30 rule 7 reserves export_residual for a stable state: when it is  *)
(* answered, the final entry does not inspect and no command is at work on *)
(* removing it.                                                            *)
ResidualIsStable ==
  [][r'.verdict = "residual" /\ r.verdict # "residual" =>
       ~ FinalValid(dir, r.ent) /\ ~ (At("remove") \/ At("sweep"))]_readVars

=============================================================================
