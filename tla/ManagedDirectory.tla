-------------------------- MODULE ManagedDirectory --------------------------
(***************************************************************************)
(* One managed parent directory (out/assessment or out/branch) as the code *)
(* of exports/managed.py sees it: every entry is the final set of an       *)
(* entity, a candidate sibling or a rollback sibling of it, and every set  *)
(* is a directory whose inspection either returns a manifest or nothing.   *)
(* The module holds the pure operators; Publication moves the sets.        *)
(***************************************************************************)
EXTENDS Naturals, FiniteSets

CONSTANTS Entities,   \* identifiers of assessment snapshots, never reused
          Inodes,     \* identities a directory can have (st_dev, st_ino)
          MaxRender,  \* bound on the renderings one snapshot goes through
          NoEntity    \* no snapshot

ASSUME MaxRenderAssumption == MaxRender \in Nat \ {0}
ASSUME NoEntityAssumption  == NoEntity \notin Entities

(* Renderings of one snapshot, numbered in the order the database reaches  *)
(* them: the render input hash and the source closure of the manifest.     *)
Renders == 1 .. MaxRender

Slots == {"final", "candidate", "rollback"}

(* "partial": some member is missing, so the set does not inspect;         *)
(* "written": complete, but its entries may still be lost with the power;  *)
(* "flushed": complete and every member and the directory were fsynced.    *)
Stages == {"partial", "written", "flushed"}

Sets == [id : Inodes, render : Renders, stage : Stages]

Dirs == [Slots -> [Entities -> SUBSET Sets]]

Empty == [slot \in Slots |-> [e \in Entities |-> {}]]

(* _inspect_set returns a manifest, and the manifest names this entity.    *)
Valid(s) == s.stage # "partial"

FinalAbsent(d, e) == d["final"][e] = {}
FinalValid(d, e)  == d["final"][e] # {} /\ \A s \in d["final"][e] : Valid(s)

Torn(s) == [s EXCEPT !.stage = "partial"]

(* The directory once set s of entity e in a slot has become `left`.       *)
Put(d, slot, e, s, left) == [d EXCEPT ![slot][e] = (@ \ {s}) \cup left]

(* rename(2) of set s of entity e from one name to another.                *)
Moved(d, from, to, e, s) == Put(Put(d, from, e, s, {}), to, e, s, {s})

(* What a removal member by member may leave of a set: nothing when it     *)
(* succeeds, otherwise the set untouched or with some members gone.        *)
Remains(s) == {{}, {s}, {Torn(s)}}

(* The least of the directory that is on the disk: what was never flushed  *)
(* is gone from a set although the entry that names the set is there.      *)
Settled(d) ==
  [slot \in Slots |-> [e \in Entities |->
     {IF s.stage = "written" THEN Torn(s) ELSE s : s \in d[slot][e]}]]

(* Every set in a slot, with the entity its name gives it.                 *)
Siblings(d, slot) == UNION {{e} \X d[slot][e] : e \in Entities}

InUse(d) == {s.id : s \in UNION {d[slot][e] : slot \in Slots, e \in Entities}}

(* The set the next undisturbed reconciliation leaves at the final path.   *)
Recoverable(d, e) ==
  IF FinalAbsent(d, e)
    THEN IF Cardinality(d["rollback"][e]) = 1
           THEN {s \in d["rollback"][e] : Valid(s)}
           ELSE {}
    ELSE {s \in d["final"][e] : Valid(s)}

Recovered(d) == [e \in Entities |-> {s.render : s \in Recoverable(d, e)}]

=============================================================================
