-------------------------- MODULE PublicationProofs --------------------------
(***************************************************************************)
(* Proofs about Publication, for any set of snapshots, inodes and          *)
(* renderings: its type correctness, and that the current snapshot's final *)
(* path never holds an incomplete set, whatever fails, is interrupted or   *)
(* loses the power. IInv of Publication is the inductive invariant.        *)
(* Then, from the stronger Kept: no ambiguity between siblings, nothing    *)
(* left behind unreported, nothing reported done that a power failure      *)
(* takes back, and the refinement of the atomic store.  Last, over the     *)
(* lifetime of several builds: what an export spares.                      *)
(***************************************************************************)
EXTENDS Publication, FiniteSetTheorems, TLAPS

DirsSound == /\ dir \in Dirs
             /\ disk \in SUBSET Dirs
             /\ Sound(dir)
             /\ \A d \in disk : Sound(d)

LEMMA IInvParts ==
  IInv <=> DirsSound /\ db \in Databases /\ w \in Commands /\ CommandSound
  BY DEF IInv, TypeOK, DirsSound

-----------------------------------------------------------------------------
(* The operators on directories.                                           *)

LEMMA PutFacts ==
  ASSUME NEW d \in Dirs, NEW slot \in Slots, NEW e \in Entities,
         NEW s, NEW left \in SUBSET Sets
  PROVE  /\ Put(d, slot, e, s, left) \in Dirs
         /\ \A t \in Slots, f \in Entities :
              /\ t = slot /\ f = e =>
                   Put(d, slot, e, s, left)[t][f] = (d[slot][e] \ {s}) \cup left
              /\ t # slot \/ f # e => Put(d, slot, e, s, left)[t][f] = d[t][f]
  BY DEF Put, Dirs

LEMMA TornType ==
  ASSUME NEW s \in Sets
  PROVE  Torn(s) \in Sets /\ Torn(s).stage = "partial" /\ Torn(s).render = s.render
  BY DEF Torn, Sets, Stages

(* Whether a set is reached, or outdated, shows in its rendering alone.    *)
LEMMA SameRender ==
  ASSUME NEW e, NEW s, NEW x, x.render = s.render
  PROVE  /\ Known(e, s) => Known(e, x)
         /\ Outdated(e, s) => Outdated(e, x)
  BY DEF Known, Outdated

(* What a step that leaves the database alone leaves reached or outdated.  *)
LEMMA SameDatabase ==
  ASSUME db' = db, NEW e, NEW s
  PROVE  /\ Known(e, s)' <=> Known(e, s)
         /\ Outdated(e, s)' <=> Outdated(e, s)
  BY DEF Known, Outdated

LEMMA PutSound ==
  ASSUME NEW d \in Dirs, NEW slot \in Slots, NEW e \in Entities,
         NEW s, NEW left \in SUBSET Sets, Sound(d),
         \A x \in left : Known(e, x),
         slot # "candidate" => \A x \in left : x.stage # "written",
         slot = "final" => \A x \in left : x.stage = "flushed" \/ Outdated(e, x)
  PROVE  Put(d, slot, e, s, left) \in Dirs /\ Sound(Put(d, slot, e, s, left))
  <1>1. PICK p : p = Put(d, slot, e, s, left)
    OBVIOUS
  <1>2. /\ p \in Dirs
        /\ \A t \in Slots, f \in Entities :
             /\ t = slot /\ f = e => p[t][f] = (d[slot][e] \ {s}) \cup left
             /\ t # slot \/ f # e => p[t][f] = d[t][f]
    BY <1>1, PutFacts
  <1>3. Sound(p)
    BY <1>2 DEF Sound, Slots
  <1> QED BY <1>1, <1>2, <1>3

(* Taking a set away needs nothing.                                        *)
LEMMA MovedSound ==
  ASSUME NEW d \in Dirs, NEW from \in Slots, NEW to \in Slots,
         NEW e \in Entities, NEW s \in d[from][e], Sound(d),
         to # "candidate" => s.stage # "written",
         to = "final" => s.stage = "flushed"
  PROVE  /\ Moved(d, from, to, e, s) \in Dirs
         /\ Sound(Moved(d, from, to, e, s))
  <1>1. s \in Sets /\ Known(e, s)
    BY DEF Dirs, Sound
  <1>2. /\ Put(d, from, e, s, {}) \in Dirs
        /\ Sound(Put(d, from, e, s, {}))
    BY PutSound
  <1>3. /\ Put(Put(d, from, e, s, {}), to, e, s, {s}) \in Dirs
        /\ Sound(Put(Put(d, from, e, s, {}), to, e, s, {s}))
    BY <1>1, <1>2, PutSound
  <1> QED BY <1>3 DEF Moved

LEMMA MovedFacts ==
  ASSUME NEW d \in Dirs, NEW from \in Slots, NEW to \in Slots, from # to,
         NEW e \in Entities, NEW s \in d[from][e]
  PROVE  \A t \in Slots, f \in Entities :
           /\ t = from /\ f = e =>
                Moved(d, from, to, e, s)[t][f] = d[from][e] \ {s}
           /\ t = to /\ f = e =>
                Moved(d, from, to, e, s)[t][f] = d[to][e] \cup {s}
           /\ t \notin {from, to} \/ f # e =>
                Moved(d, from, to, e, s)[t][f] = d[t][f]
  <1>1. s \in Sets
    BY DEF Dirs
  <1>2. PICK p : p = Put(d, from, e, s, {})
    OBVIOUS
  <1>3. /\ p \in Dirs
        /\ \A t \in Slots, f \in Entities :
             /\ t = from /\ f = e => p[t][f] = d[from][e] \ {s}
             /\ t # from \/ f # e => p[t][f] = d[t][f]
    BY <1>2, PutFacts
  <1>4. \A t \in Slots, f \in Entities :
          /\ t = to /\ f = e => Put(p, to, e, s, {s})[t][f] = (p[to][e] \ {s}) \cup {s}
          /\ t # to \/ f # e => Put(p, to, e, s, {s})[t][f] = p[t][f]
    BY <1>1, <1>3, PutFacts
  <1>5. Moved(d, from, to, e, s) = Put(p, to, e, s, {s})
    BY <1>2 DEF Moved
  <1>6. p[to][e] = d[to][e]
    BY <1>3
  <1>7. \A f \in Entities :
          f = e => Moved(d, from, to, e, s)[to][f] = d[to][e] \cup {s}
    BY <1>4, <1>5, <1>6
  <1>8. \A t \in Slots, f \in Entities :
          t # to \/ f # e => Moved(d, from, to, e, s)[t][f] = p[t][f]
    BY <1>4, <1>5
  <1> HIDE DEF Moved
  <1> QED BY <1>3, <1>7, <1>8

LEMMA SettledSound ==
  ASSUME NEW d \in Dirs, Sound(d)
  PROVE  Settled(d) \in Dirs /\ Sound(Settled(d))
  <1> DEFINE r(s) == IF s.stage = "written" THEN Torn(s) ELSE s
  <1>1. \A slot \in Slots, e \in Entities :
          Settled(d)[slot][e] = {r(s) : s \in d[slot][e]}
    BY DEF Settled
  <1>2. \A s \in Sets : /\ r(s) \in Sets /\ r(s).stage # "written"
                         /\ r(s).render = s.render
    BY TornType
  <1>3. \A slot \in Slots, e \in Entities : d[slot][e] \in SUBSET Sets
    BY DEF Dirs
  <1>4. Settled(d) \in Dirs
    <2>1. \A slot \in Slots, e \in Entities : {r(s) : s \in d[slot][e]} \in SUBSET Sets
      BY <1>2, <1>3
    <2> QED BY <2>1 DEF Settled, Dirs
  <1>5. \A e \in Entities : \A s \in Settled(d)["final"][e] :
          s.stage = "flushed" \/ Outdated(e, s)
    <2> TAKE e \in Entities
    <2> TAKE s \in Settled(d)["final"][e]
    <2>1. PICK t \in d["final"][e] : s = r(t)
      BY <1>1 DEF Slots
    <2>2. t \in Sets /\ (t.stage = "flushed" \/ Outdated(e, t))
      BY <1>3 DEF Sound, Slots
    <2>3. t.stage = "flushed" => s = t
      BY <2>1
    <2>4. s.render = t.render
      BY <1>2, <2>1, <2>2
    <2> HIDE DEF r
    <2> QED BY <2>2, <2>3, <2>4, SameRender
  <1>6. \A slot \in Slots, e \in Entities : \A s \in Settled(d)[slot][e] : Known(e, s)
    <2> TAKE slot \in Slots, e \in Entities
    <2> TAKE s \in Settled(d)[slot][e]
    <2>1. PICK t \in d[slot][e] : s = r(t)
      BY <1>1
    <2>2. t \in Sets /\ Known(e, t)
      BY <1>3 DEF Sound
    <2>3. s.render = t.render
      BY <1>2, <2>1, <2>2
    <2> HIDE DEF r
    <2> QED BY <2>2, <2>3, SameRender
  <1>7. \A e \in Entities : \A s \in Settled(d)["final"][e] \cup Settled(d)["rollback"][e] :
          s.stage # "written"
    BY <1>1, <1>2, <1>3 DEF Slots
  <1> HIDE DEF r
  <1> QED BY <1>4, <1>5, <1>6, <1>7 DEF Sound

-----------------------------------------------------------------------------
(* The system calls.                                                       *)

LEMMA SoundSame ==
  ASSUME db' = db, DirsSound, dir' \in Dirs, disk' \in SUBSET Dirs,
         Sound(dir'), \A d \in disk' : Sound(d)
  PROVE  DirsSound'
  BY DEF DirsSound, Sound, Known, Outdated

LEMMA WriteKeeps ==
  ASSUME DirsSound, db' = db, NEW d \in Dirs, Sound(d),
         NEW between \in SUBSET Dirs, \A x \in between : Sound(x),
         NEW synced \in BOOLEAN, Write(d, between, synced)
  PROVE  DirsSound' /\ dir' = d
  <1>1. Settled(d) \in Dirs /\ Sound(Settled(d))
    BY SettledSound
  <1>2. dir' = d /\ disk' \in SUBSET Dirs /\ \A x \in disk' : Sound(x)
    BY <1>1 DEF Write, DirsSound
  <1> QED BY <1>2, SoundSame

LEMMA RemoveKeeps ==
  ASSUME DirsSound, db' = db, NEW slot \in Slots, NEW e \in Entities,
         NEW s \in dir[slot][e], NEW left \in Remains(s), NEW synced \in BOOLEAN,
         slot = "final" => Outdated(e, s),
         RemoveTree(slot, e, s, left, synced)
  PROVE  /\ DirsSound'
         /\ \A t \in Slots, f \in Entities :
              /\ t = slot /\ f = e => dir'[t][f] = (dir[slot][e] \ {s}) \cup left
              /\ t # slot \/ f # e => dir'[t][f] = dir[t][f]
  <1>1. dir \in Dirs /\ Sound(dir) /\ s \in Sets /\ Known(e, s)
    BY DEF DirsSound, Dirs, Sound
  <1>2. /\ Torn(s) \in Sets /\ Torn(s).stage = "partial"
        /\ Known(e, Torn(s)) /\ (slot = "final" => Outdated(e, Torn(s)))
    BY <1>1, TornType, SameRender
  <1>3. left \in {{}, {s}, {Torn(s)}}
    BY DEF Remains
  <1>4. slot # "candidate" => s.stage # "written"
    BY DEF DirsSound, Sound, Slots
  <1>5. /\ Put(dir, slot, e, s, left) \in Dirs
        /\ Sound(Put(dir, slot, e, s, left))
    <2>1. /\ left \in SUBSET Sets
          /\ slot # "candidate" => \A x \in left : x.stage # "written"
          /\ \A x \in left : Known(e, x)
          /\ slot = "final" => \A x \in left : Outdated(e, x)
      BY <1>1, <1>2, <1>3, <1>4
    <2> QED BY <1>1, <2>1, PutSound
  <1>6. /\ Put(dir, slot, e, s, {Torn(s)}) \in Dirs
        /\ Sound(Put(dir, slot, e, s, {Torn(s)}))
    BY <1>1, <1>2, PutSound
  <1>7. DirsSound' /\ dir' = Put(dir, slot, e, s, left)
    BY <1>5, <1>6, WriteKeeps DEF RemoveTree
  <1>8. left \in SUBSET Sets
    BY <1>1, <1>2, <1>3
  <1> QED BY <1>1, <1>7, <1>8, PutFacts

-----------------------------------------------------------------------------
(* The command record.                                                     *)

LEMMA ResidualType ==
  ASSUME NEW failed \in BOOLEAN, NEW path \in Paths
  PROVE  Residual(failed, path) \in SUBSET Paths
  BY DEF Residual

LEMMA PathTypes ==
  /\ Parent \in Paths
  /\ \A slot \in Slots, e \in Entities : <<slot, e>> \in Paths
  BY DEF Parent, Paths

LEMMA NoCommandType == NoCommand \in Commands /\ NoCommand.pc = "idle"
  BY DEF NoCommand, Commands, Points, Outcomes

LEMMA FinishType ==
  ASSUME w \in Commands, NEW out \in Outcomes, NEW more \in SUBSET Paths,
         Finish(out, more)
  PROVE  w' \in Commands /\ w'.pc = "idle"
  BY DEF Finish, Commands, Points

LEMMA Elsewhere ==
  ASSUME w'.pc \in {"idle", "list", "reclaim", "commit"}
  PROVE  CommandSound'
  BY DEF CommandSound, At, Building

(* A command that only has to clean up or to settle keeps its target.      *)
LEMMA CleaningSound ==
  ASSUME w'.pc \in {"settle", "discard", "confirm", "clean"}, w'.ent = w.ent, w.ent \in Entities \cap {db.current},
         db' = db
  PROVE  CommandSound'
  BY DEF CommandSound, At, Building

(* What is left to show of a step that leaves the database alone.          *)
LEMMA Assemble ==
  ASSUME DirsSound', db' = db, db \in Databases, w' \in Commands, CommandSound'
  PROVE  IInv'
  BY DEF IInv, TypeOK, DirsSound

LEMMA DirsSame ==
  ASSUME DirsSound, UNCHANGED <<dir, disk, db>>
  PROVE  DirsSound'
  BY SoundSame DEF DirsSound

-----------------------------------------------------------------------------
(* The preamble.                                                           *)

LEMMA BeginKeeps ==
  ASSUME IInv, NEW op \in {"export", "change"}, Begin(op)
  PROVE  IInv'
  <1>1. DirsSound' /\ db' = db /\ db \in Databases
    BY IInvParts, DirsSame DEF Begin
  <1>2. w' \in Commands /\ w'.pc = "list"
    BY NoCommandType DEF Begin, Commands, Points
  <1> QED BY <1>1, <1>2, Elsewhere, Assemble

LEMMA ListParentKeeps ==
  ASSUME IInv, ListParent
  PROVE  IInv'
  <1>1. DirsSound' /\ db' = db /\ db \in Databases /\ w \in Commands
    BY IInvParts, DirsSame DEF ListParent
  <1>2. Siblings(dir, "candidate") \in SUBSET (Entities \X Sets)
    BY DEF IInv, TypeOK, Dirs, Siblings, Slots
  <1>3. w' \in Commands /\ w'.pc = "reclaim"
    BY <1>1, <1>2 DEF ListParent, Commands, Points
  <1> QED BY <1>1, <1>3, Elsewhere, Assemble

LEMMA ListingFailsKeeps ==
  ASSUME IInv, ListingFails
  PROVE  IInv'
  <1>1. DirsSound' /\ db' = db /\ db \in Databases /\ w \in Commands
    BY IInvParts, DirsSame DEF ListingFails
  <1>2. w' \in Commands /\ w'.pc = "recover" /\ Parent \in w'.res \cap w'.unread
    BY <1>1, PathTypes DEF ListingFails, Commands, Points
  <1>3. CommandSound'
    BY <1>2 DEF CommandSound, At, Building
  <1> QED BY <1>1, <1>2, <1>3, Assemble

LEMMA ReclaimCandidateKeeps ==
  ASSUME IInv, NEW e \in Entities, NEW s \in dir["candidate"][e],
         ReclaimCandidate(e, s)
  PROVE  IInv'
  <1>1. PICK left \in Remains(s) :
          /\ RemoveTree("candidate", e, s, left, FALSE)
          /\ w' = [w EXCEPT !.todo = @ \ {<<e, s>>},
                            !.res = @ \cup Residual(left # {}, <<"candidate", e>>)]
    BY DEF ReclaimCandidate
  <1>2. db' = db /\ db \in Databases /\ DirsSound /\ w \in Commands
    BY IInvParts DEF ReclaimCandidate
  <1>3. DirsSound'
    BY <1>1, <1>2, RemoveKeeps DEF Slots
  <1>4. Residual(left # {}, <<"candidate", e>>) \in SUBSET Paths
    BY ResidualType, PathTypes DEF Slots
  <1>5. w' \in Commands /\ w'.pc = "reclaim"
    BY <1>1, <1>2, <1>4 DEF Commands, ReclaimCandidate, At
  <1> QED BY <1>2, <1>3, <1>5, Elsewhere, Assemble

LEMMA ReclaimDoneKeeps ==
  ASSUME IInv, ReclaimDone
  PROVE  IInv'
  <1>1. DirsSound' /\ db' = db /\ db \in Databases /\ w \in Commands
    BY IInvParts, DirsSame DEF ReclaimDone
  <1>2. Siblings(dir, "rollback") \in SUBSET (Entities \X Sets)
    BY DEF IInv, TypeOK, Dirs, Siblings, Slots
  <1>3. \A e \in Entities : \A s \in dir["rollback"][e] :
          <<e, s>> \in Siblings(dir, "rollback")
    BY DEF Siblings
  <1>4. /\ w' \in Commands /\ w'.pc = "recover"
        /\ w'.todo = Siblings(dir, "rollback")
    BY <1>1, <1>2 DEF ReclaimDone, Commands, Points
  <1>5. CommandSound'
    BY <1>3, <1>4 DEF CommandSound, At, Building, ReclaimDone
  <1> QED BY <1>1, <1>4, <1>5, Assemble

(* One sibling is dealt with: it is gone from its rollback name, or it is  *)
(* reported, and the others stay on the list or in the report.             *)
LEMMA RecoverStep ==
  ASSUME IInv, db' = db, DirsSound', NEW e \in Entities, NEW s, Recovering(e, s),
         NEW more \in SUBSET Paths,
         w' = [w EXCEPT !.todo = @ \ {<<e, s>>}, !.res = @ \cup more],
         \A f \in Entities \ {e} : dir'["rollback"][f] = dir["rollback"][f],
         \/ <<"rollback", e>> \in more
         \/ dir'["rollback"][e] \subseteq dir["rollback"][e] \ {s}
  PROVE  IInv'
  <1>1. db \in Databases /\ w \in Commands /\ CommandSound /\ w.pc = "recover"
    BY IInvParts DEF Recovering, At
  <1>2. /\ w' \in Commands /\ w'.pc = "recover"
        /\ w'.todo = w.todo \ {<<e, s>>} /\ w'.res = w.res \cup more
        /\ w'.unread = w.unread
    BY <1>1 DEF Commands
  <1>3. \/ Parent \in w.res \cap w.unread
        \/ \A f \in Entities : \A x \in dir["rollback"][f] :
             <<f, x>> \in w.todo \/ <<"rollback", f>> \in w.res
    BY <1>1 DEF CommandSound, At
  <1>4. \/ Parent \in w'.res \cap w'.unread
        \/ \A f \in Entities : \A x \in dir'["rollback"][f] :
             <<f, x>> \in w'.todo \/ <<"rollback", f>> \in w'.res
    BY <1>2, <1>3
  <1>5. CommandSound'
    BY <1>2, <1>4 DEF CommandSound, At, Building
  <1> QED BY <1>1, <1>2, <1>5, Assemble

LEMMA RestoreRollbackKeeps ==
  ASSUME IInv, NEW e \in Entities, NEW s \in dir["rollback"][e],
         RestoreRollback(e, s)
  PROVE  IInv'
  <1>1. PICK renamed \in BOOLEAN, synced \in BOOLEAN :
          /\ Write(IF renamed THEN Moved(dir, "rollback", "final", e, s) ELSE dir,
                   {}, synced)
          /\ w' = [w EXCEPT !.todo = @ \ {<<e, s>>},
                            !.res = @ \cup Residual(~renamed, <<"rollback", e>>)
                                      \cup Residual(renamed /\ ~synced, <<"final", e>>)]
    BY DEF RestoreRollback
  <1> DEFINE more == Residual(~renamed, <<"rollback", e>>)
                       \cup Residual(renamed /\ ~synced, <<"final", e>>)
  <1>2. db' = db /\ DirsSound /\ dir \in Dirs /\ Sound(dir) /\ w \in Commands
    BY IInvParts DEF RestoreRollback, DirsSound
  <1>3. s.stage = "flushed"
    BY <1>2 DEF RestoreRollback, Restorable, Valid, Sound, Dirs, Slots, Sets, Stages
  <1>4. /\ Moved(dir, "rollback", "final", e, s) \in Dirs
        /\ Sound(Moved(dir, "rollback", "final", e, s))
    BY <1>2, <1>3, MovedSound DEF Slots
  <1>5. /\ DirsSound'
        /\ dir' = IF renamed THEN Moved(dir, "rollback", "final", e, s) ELSE dir
    BY <1>1, <1>2, <1>4, WriteKeeps
  <1>6. /\ more \in SUBSET Paths
        /\ ~renamed => <<"rollback", e>> \in more
    BY ResidualType, PathTypes DEF Slots, Residual
  <1>7. w' = [w EXCEPT !.todo = @ \ {<<e, s>>}, !.res = @ \cup more]
    BY <1>1, <1>2 DEF Commands
  <1>8. \A f \in Entities \ {e} : dir'["rollback"][f] = dir["rollback"][f]
    BY <1>2, <1>5, MovedFacts DEF Slots
  <1>9. renamed => dir'["rollback"][e] = dir["rollback"][e] \ {s}
    BY <1>2, <1>5, MovedFacts DEF Slots
  <1>10. Recovering(e, s)
    BY DEF RestoreRollback
  <1> HIDE DEF more
  <1> QED BY <1>2, <1>5, <1>6, <1>7, <1>8, <1>9, <1>10, RecoverStep

LEMMA DropRollbackKeeps ==
  ASSUME IInv, NEW e \in Entities, NEW s \in dir["rollback"][e],
         DropRollback(e, s)
  PROVE  IInv'
  <1>1. PICK left \in Remains(s), synced \in BOOLEAN :
          /\ synced => left = {}
          /\ RemoveTree("rollback", e, s, left, synced)
          /\ w' = [w EXCEPT !.todo = @ \ {<<e, s>>},
                            !.res = @ \cup Residual(left # {}, <<"rollback", e>>)
                                      \cup Residual(left = {} /\ ~synced, Parent)]
    BY DEF DropRollback
  <1> DEFINE more == Residual(left # {}, <<"rollback", e>>)
                       \cup Residual(left = {} /\ ~synced, Parent)
  <1>2. db' = db /\ DirsSound /\ w \in Commands /\ Recovering(e, s)
    BY IInvParts DEF DropRollback
  <1>3. /\ DirsSound'
        /\ \A t \in Slots, f \in Entities :
             /\ t = "rollback" /\ f = e =>
                  dir'[t][f] = (dir["rollback"][e] \ {s}) \cup left
             /\ t # "rollback" \/ f # e => dir'[t][f] = dir[t][f]
    BY <1>1, <1>2, RemoveKeeps DEF Slots
  <1>4. /\ more \in SUBSET Paths
        /\ left # {} => <<"rollback", e>> \in more
    BY ResidualType, PathTypes DEF Slots, Residual
  <1>5. w' = [w EXCEPT !.todo = @ \ {<<e, s>>}, !.res = @ \cup more]
    BY <1>1, <1>2 DEF Commands
  <1>6. /\ \A f \in Entities \ {e} : dir'["rollback"][f] = dir["rollback"][f]
        /\ left = {} => dir'["rollback"][e] \subseteq dir["rollback"][e] \ {s}
    BY <1>3 DEF Slots
  <1> HIDE DEF more
  <1> QED BY <1>2, <1>3, <1>4, <1>5, <1>6, RecoverStep

LEMMA LeaveRollbackKeeps ==
  ASSUME IInv, NEW e \in Entities, NEW s \in dir["rollback"][e],
         LeaveRollback(e, s)
  PROVE  IInv'
  <1>1. DirsSound' /\ db' = db /\ w \in Commands /\ Recovering(e, s)
    BY IInvParts, DirsSame DEF LeaveRollback
  <1>2. PICK final \in BOOLEAN :
          w' = [w EXCEPT !.todo = @ \ {<<e, s>>},
                         !.res = @ \cup {<<"rollback", e>>}
                                   \cup Residual(final, <<"final", e>>)]
    BY DEF LeaveRollback
  <1> DEFINE more == {<<"rollback", e>>} \cup Residual(final, <<"final", e>>)
  <1>3. more \in SUBSET Paths /\ <<"rollback", e>> \in more
    BY ResidualType, PathTypes DEF Slots
  <1>4. w' = [w EXCEPT !.todo = @ \ {<<e, s>>}, !.res = @ \cup more]
    BY <1>1, <1>2 DEF Commands
  <1>5. dir' = dir
    BY DEF LeaveRollback
  <1> HIDE DEF more
  <1> QED BY <1>1, <1>3, <1>4, <1>5, RecoverStep

LEMMA RecoverRaisesKeeps ==
  ASSUME IInv, RecoverRaises
  PROVE  IInv'
  <1>1. DirsSound' /\ db' = db /\ db \in Databases /\ w \in Commands
    BY IInvParts, DirsSame DEF RecoverRaises
  <1>2. w' \in Commands /\ w'.pc = "idle"
    BY <1>1 DEF RecoverRaises, Commands, Points, Outcomes
  <1> QED BY <1>1, <1>2, Elsewhere, Assemble

LEMMA RecoverDoneKeeps ==
  ASSUME IInv, RecoverDone
  PROVE  IInv'
  <1>1. /\ DirsSound' /\ db' = db /\ db \in Databases /\ w \in Commands
        /\ CommandSound /\ dir' = dir
    BY IInvParts, DirsSame DEF RecoverDone
  <1>3. w' \in Commands
    <2>1. \/ w' = [w EXCEPT !.pc = "commit", !.told = w.res, !.res = {}]
          \/ w' = [w EXCEPT !.pc = "list", !.pass = 2, !.told = w.res, !.res = {}]
          \/ w' = [w EXCEPT !.pc = "select"]
          \/ w' = [w EXCEPT !.pc = "idle", !.out = "incomplete"]
      BY DEF RecoverDone
    <2>2. CASE w' = [w EXCEPT !.pc = "list", !.pass = 2, !.told = w.res, !.res = {}]
      BY <1>1, <2>2 DEF Commands, Points
    <2>3. CASE w' = [w EXCEPT !.pc = "commit", !.told = w.res, !.res = {}]
      BY <1>1, <2>3 DEF Commands, Points
    <2>4. CASE w' = [w EXCEPT !.pc = "select"]
      BY <1>1, <2>4 DEF Commands, Points
    <2>5. CASE w' = [w EXCEPT !.pc = "idle", !.out = "incomplete"]
      BY <1>1, <2>5 DEF Commands, Points, Outcomes
    <2> QED BY <2>1, <2>2, <2>3, <2>4, <2>5
  <1>4. w'.pc \in {"commit", "list", "idle", "select"}
    BY <1>1 DEF RecoverDone, Commands
  <1>5. CASE w'.pc = "select"
    <2>1. w.res = {} /\ w.todo = {}
      BY <1>1, <1>5 DEF RecoverDone, Commands
    <2>2. \A e \in Entities : dir["rollback"][e] = {}
      BY <1>1, <2>1 DEF CommandSound, RecoverDone, At
    <2>3. CommandSound'
      BY <1>1, <1>5, <2>2 DEF CommandSound, At, Building
    <2> QED BY <1>1, <1>3, <2>3, Assemble
  <1> QED BY <1>1, <1>3, <1>4, <1>5, Elsewhere, Assemble

-----------------------------------------------------------------------------
(* The export, up to the complete candidate.                               *)

NoRollback == \A e \in Entities : dir["rollback"][e] = {}

(* What is known before every step of an export that has not moved a set. *)
LEMMA ExportFacts ==
  ASSUME IInv, w.pc \in Building \cup {"sweep", "clean"}
  PROVE  /\ DirsSound /\ db \in Databases /\ w \in Commands
         /\ dir \in Dirs /\ Sound(dir)
         /\ w.ent \in Entities /\ w.ent = db.current
         /\ w.pc \notin {"swap", "clean"} => NoRollback
  BY IInvParts DEF CommandSound, DirsSound, NoRollback, Building

LEMMA BuildingSound ==
  ASSUME w'.pc \in {"build", "fill", "flush", "place"}, w'.ent = w.ent,
         w.ent \in Entities, w.ent = db.current, db' = db, NoRollback',
         w'.pc = "place" => \A s \in w'.own : s.stage = "flushed"
  PROVE  CommandSound'
  BY DEF CommandSound, At, Building, NoRollback

LEMMA SelectKeeps ==
  ASSUME IInv, Select
  PROVE  IInv'
  <1>1. /\ DirsSound' /\ DirsSound /\ db' = db /\ dir' = dir /\ db \in Databases
        /\ w \in Commands /\ CommandSound
    BY IInvParts, DirsSame DEF Select
  <1> DEFINE stale == {x \in Siblings(dir, "final") :
                         x[1] # db.current /\ FinalValid(dir, x[1])}
  <1>2. stale \in SUBSET (Entities \X Sets) /\ \A x \in stale : x[1] \in db.spent
    <2> SUFFICES ASSUME NEW x \in stale
                 PROVE  x \in Entities \X Sets /\ x[1] \in db.spent
      OBVIOUS
    <2>1. PICK e \in Entities : x \in {e} \X dir["final"][e]
      BY DEF Siblings
    <2>2. x[1] = e /\ x \in Entities \X Sets /\ dir["final"][e] # {}
      BY <1>1, <2>1 DEF DirsSound, Dirs, Slots
    <2> QED BY <1>1, <2>2 DEF DirsSound, Sound, Slots, Known
  <1> HIDE DEF stale
  <1>3. CASE db.current \in Entities /\ db.eligible
    <2>1. w' = [w EXCEPT !.pc = "sweep", !.ent = db.current, !.todo = stale]
      BY <1>3 DEF Select, stale
    <2>2. /\ w' \in Commands /\ w'.pc = "sweep" /\ w'.ent = db.current
          /\ w'.todo = stale
      BY <1>1, <1>2, <1>3, <2>1 DEF Commands, Points
    <2>3. \A e \in Entities : dir["rollback"][e] = {}
      BY <1>1 DEF Select, CommandSound, At
    <2>4. CommandSound'
      BY <1>1, <1>2, <1>3, <2>2, <2>3 DEF CommandSound, At, Building
    <2> QED BY <1>1, <2>2, <2>4, Assemble
  <1>4. CASE ~ (db.current \in Entities /\ db.eligible)
    <2>1. Finish("refused", {})
      BY <1>4 DEF Select
    <2> QED BY <1>1, <2>1, FinishType, Elsewhere, Assemble DEF Outcomes
  <1> QED BY <1>3, <1>4

LEMMA SweepStaleKeeps ==
  ASSUME IInv, NEW e \in Entities, NEW s \in dir["final"][e], SweepStale(e, s)
  PROVE  IInv'
  <1>1. PICK left \in Remains(s) :
          /\ RemoveTree("final", e, s, left, FALSE)
          /\ w' = [w EXCEPT !.todo = @ \ {<<e, s>>},
                            !.res = @ \cup Residual(left # {}, <<"final", e>>)]
    BY DEF SweepStale
  <1>2. db' = db /\ w.pc = "sweep" /\ <<e, s>> \in w.todo
    BY DEF SweepStale, At
  <1>3. /\ DirsSound /\ db \in Databases /\ w \in Commands /\ w.ent \in Entities
        /\ w.ent = db.current /\ NoRollback
    BY <1>2, ExportFacts DEF Building
  <1>4. \A x \in w.todo : x[1] \in db.spent
    BY <1>2, IInvParts DEF CommandSound, At
  <1>5. Outdated(e, s)
    BY <1>2, <1>4 DEF Outdated
  <1>6. /\ DirsSound'
        /\ \A f \in Entities : dir'["rollback"][f] = dir["rollback"][f]
    BY <1>1, <1>2, <1>3, <1>5, RemoveKeeps DEF Slots
  <1>7. Residual(left # {}, <<"final", e>>) \in SUBSET Paths
    BY ResidualType, PathTypes DEF Slots
  <1>8. /\ w' \in Commands /\ w'.pc = "sweep" /\ w'.ent = w.ent
        /\ w'.todo \subseteq w.todo
    BY <1>1, <1>2, <1>3, <1>7 DEF Commands
  <1>9. CommandSound'
    BY <1>2, <1>3, <1>4, <1>6, <1>8 DEF CommandSound, At, Building, NoRollback
  <1> QED BY <1>2, <1>3, <1>6, <1>8, <1>9, Assemble

LEMMA SweepUnreadKeeps ==
  ASSUME IInv, NEW e \in Entities, NEW s \in dir["final"][e], SweepUnread(e, s)
  PROVE  IInv'
  <1>1. /\ DirsSound' /\ db' = db /\ dir' = dir /\ db \in Databases
        /\ w \in Commands /\ CommandSound /\ w.pc = "sweep"
    BY IInvParts, DirsSame DEF SweepUnread, At
  <1>2. /\ w' \in Commands /\ w'.pc = "sweep" /\ w'.ent = w.ent
        /\ w'.todo \subseteq w.todo
    BY <1>1, PathTypes DEF SweepUnread, Commands, Slots
  <1>3. CommandSound'
    BY <1>1, <1>2 DEF CommandSound, At, Building
  <1> QED BY <1>1, <1>2, <1>3, Assemble

LEMMA SweepRaisesKeeps ==
  ASSUME IInv, SweepRaises
  PROVE  IInv'
  <1>1. DirsSound' /\ db' = db /\ db \in Databases /\ w \in Commands
    BY IInvParts, DirsSame DEF SweepRaises
  <1>2. w' \in Commands /\ w'.pc = "idle"
    BY <1>1 DEF SweepRaises, Commands, Points, Outcomes
  <1> QED BY <1>1, <1>2, Elsewhere, Assemble

LEMMA SweepDoneKeeps ==
  ASSUME IInv, SweepDone
  PROVE  IInv'
  <1>1. PICK synced \in BOOLEAN :
          /\ Fsync(synced)
          /\ IF synced THEN w' = [w EXCEPT !.pc = "build"]
                       ELSE Finish("incomplete", Residual(w.res = {}, Parent))
    BY DEF SweepDone
  <1>2. db' = db /\ w.pc = "sweep"
    BY DEF SweepDone, At
  <1>3. /\ DirsSound /\ db \in Databases /\ w \in Commands /\ w.ent \in Entities
        /\ w.ent = db.current /\ NoRollback /\ dir \in Dirs /\ Sound(dir)
    BY <1>2, ExportFacts DEF Building
  <1>4. DirsSound' /\ dir' = dir
    BY <1>1, <1>2, <1>3, WriteKeeps DEF Fsync
  <1>5. CASE synced
    <2>1. w' \in Commands /\ w'.pc = "build" /\ w'.ent = w.ent
      BY <1>1, <1>3, <1>5 DEF Commands, Points
    <2>2. CommandSound'
      BY <1>2, <1>3, <1>4, <2>1, BuildingSound DEF NoRollback
    <2> QED BY <1>2, <1>3, <1>4, <2>1, <2>2, Assemble
  <1>6. CASE ~ synced
    <2>1. Residual(w.res = {}, Parent) \in SUBSET Paths
      BY ResidualType, PathTypes
    <2>2. w' \in Commands /\ w'.pc = "idle"
      BY <1>1, <1>3, <1>6, <2>1, FinishType DEF Outcomes
    <2> QED BY <1>2, <1>3, <1>4, <2>2, Elsewhere, Assemble
  <1> QED BY <1>5, <1>6

LEMMA CandidateType ==
  ASSUME db \in Databases, NEW i \in Inodes, NEW stage \in Stages
  PROVE  Candidate(i, stage) \in Sets
  BY DEF Candidate, Sets, Databases

(* The own candidate is of a rendering the database has reached.           *)
LEMMA OwnReached ==
  ASSUME IInv, w.pc \in Building, NEW s \in OwnCandidates
  PROVE  Known(w.ent, s)
  BY ExportFacts DEF Sound, OwnCandidates, Slots

(* A candidate that is being built becomes another set.                    *)
LEMMA CandidateStep ==
  ASSUME IInv, db' = db, w.pc \in {"build", "fill", "flush"},
         NEW s, NEW left \in Sets, NEW synced \in BOOLEAN, Known(w.ent, left),
         Write(Put(dir, "candidate", w.ent, s, {left}), {}, synced)
  PROVE  DirsSound' /\ NoRollback'
  <1>1. /\ DirsSound /\ db \in Databases /\ w \in Commands /\ w.ent \in Entities
        /\ w.ent = db.current /\ NoRollback /\ dir \in Dirs /\ Sound(dir)
    BY ExportFacts DEF Building
  <1>2. /\ Put(dir, "candidate", w.ent, s, {left}) \in Dirs
        /\ Sound(Put(dir, "candidate", w.ent, s, {left}))
    BY <1>1, PutSound DEF Slots
  <1>3. DirsSound' /\ dir' = Put(dir, "candidate", w.ent, s, {left})
    BY <1>1, <1>2, WriteKeeps
  <1>4. \A f \in Entities : dir'["rollback"][f] = dir["rollback"][f]
    BY <1>1, <1>3, PutFacts DEF Slots
  <1> QED BY <1>1, <1>3, <1>4 DEF NoRollback

LEMMA MakeCandidateKeeps ==
  ASSUME IInv, NEW i \in Inodes, MakeCandidate(i)
  PROVE  IInv'
  <1>1. db' = db /\ w.pc = "build"
    BY DEF MakeCandidate, At
  <1>2. /\ db \in Databases /\ w \in Commands /\ w.ent \in Entities
        /\ w.ent = db.current
    BY <1>1, ExportFacts DEF Building
  <1>3. Candidate(i, "partial") \in Sets /\ Known(w.ent, Candidate(i, "partial"))
    <2>1. Candidate(i, "partial").render = db.render /\ db.render \in Nat
      BY <1>2 DEF Candidate, Databases, Renders
    <2>2. Candidate(i, "partial") \in Sets
      BY <1>2, CandidateType DEF Stages
    <2> HIDE DEF Candidate
    <2> QED BY <1>2, <2>1, <2>2 DEF Known
  <1>4. DirsSound' /\ NoRollback'
    BY <1>1, <1>3, CandidateStep DEF MakeCandidate
  <1>5. w' \in Commands /\ w'.pc = "fill" /\ w'.ent = w.ent
    BY <1>2, <1>3 DEF MakeCandidate, Commands, Points
  <1> QED BY <1>1, <1>2, <1>4, <1>5, BuildingSound, Assemble

LEMMA FillCandidateKeeps ==
  ASSUME IInv, NEW s, FillCandidate(s)
  PROVE  IInv'
  <1>1. db' = db /\ w.pc = "fill" /\ s \in w.own
    BY DEF FillCandidate, At, OwnCandidates
  <1>2. /\ db \in Databases /\ w \in Commands /\ w.ent \in Entities
        /\ w.ent = db.current
    BY <1>1, ExportFacts DEF Building
  <1>3. /\ s \in Sets /\ [s EXCEPT !.stage = "written"] \in Sets
        /\ [s EXCEPT !.stage = "written"].render = s.render
    BY <1>1, <1>2 DEF Commands, Sets, Stages
  <1>6. Known(w.ent, [s EXCEPT !.stage = "written"])
    BY <1>1, <1>3, OwnReached, SameRender DEF FillCandidate, Building
  <1>4. DirsSound' /\ NoRollback'
    BY <1>1, <1>3, <1>6, CandidateStep DEF FillCandidate
  <1>5. w' \in Commands /\ w'.pc = "flush" /\ w'.ent = w.ent
    BY <1>2, <1>3 DEF FillCandidate, Commands, Points
  <1> QED BY <1>1, <1>2, <1>4, <1>5, BuildingSound, Assemble

LEMMA FlushCandidateKeeps ==
  ASSUME IInv, NEW s, FlushCandidate(s)
  PROVE  IInv'
  <1>1. db' = db /\ w.pc = "flush" /\ s \in w.own
    BY DEF FlushCandidate, At, OwnCandidates
  <1>2. /\ db \in Databases /\ w \in Commands /\ w.ent \in Entities
        /\ w.ent = db.current
    BY <1>1, ExportFacts DEF Building
  <1> DEFINE flushed == [s EXCEPT !.stage = "flushed"]
  <1>3. /\ s \in Sets /\ flushed \in Sets /\ flushed.stage = "flushed"
        /\ flushed.render = s.render
    BY <1>1, <1>2 DEF Commands, Sets, Stages
  <1>7. Known(w.ent, flushed)
    BY <1>1, <1>3, OwnReached, SameRender DEF FlushCandidate, Building
  <1>4. DirsSound' /\ NoRollback'
    BY <1>1, <1>3, <1>7, CandidateStep DEF FlushCandidate
  <1>5. w' = [w EXCEPT !.pc = "place", !.own = {flushed}]
    BY DEF FlushCandidate
  <1> HIDE DEF flushed
  <1>6. /\ w' \in Commands /\ w'.pc = "place" /\ w'.ent = w.ent
        /\ w'.own = {flushed}
    BY <1>2, <1>3, <1>5 DEF Commands, Points
  <1> QED BY <1>1, <1>2, <1>3, <1>4, <1>6, BuildingSound, Assemble

LEMMA BuildFailsKeeps ==
  ASSUME IInv, BuildFails
  PROVE  IInv'
  <1>1. /\ db' = db /\ DirsSound' /\ db \in Databases /\ w \in Commands
        /\ w.ent \in Entities /\ w.ent = db.current
    BY IInvParts, DirsSame, ExportFacts DEF BuildFails, Building
  <1>2. w' \in Commands /\ w'.pc = "clean" /\ w'.ent = w.ent
    BY <1>1 DEF BuildFails, Commands, Points, Outcomes
  <1> QED BY <1>1, <1>2, CleaningSound, Assemble

LEMMA CleanCandidateKeeps ==
  ASSUME IInv, CleanCandidate
  PROVE  IInv'
  <1>1. db' = db /\ w.pc = "clean"
    BY DEF CleanCandidate, At
  <1>2. DirsSound /\ db \in Databases /\ w \in Commands /\ w.ent \in Entities
    BY <1>1, ExportFacts
  <1>3. w.out \in Outcomes
    BY <1>2 DEF Commands
  <1>4. CASE OwnCandidates = {}
    <2>1. Finish(w.out, {}) /\ UNCHANGED <<dir, disk, db>>
      BY <1>1, <1>4 DEF CleanCandidate
    <2> QED BY <1>2, <1>3, <2>1, FinishType, DirsSame, Elsewhere, Assemble
  <1>5. CASE OwnCandidates # {}
    <2>0. PICK s \in OwnCandidates : \E left \in Remains(s) :
            /\ RemoveTree("candidate", w.ent, s, left, FALSE)
            /\ Finish(IF left # {} /\ w.out # "interrupted"
                        THEN "incomplete" ELSE w.out,
                      Residual(left # {}, <<"candidate", w.ent>>))
      BY <1>5 DEF CleanCandidate
    <2>1. PICK left \in Remains(s) :
            /\ RemoveTree("candidate", w.ent, s, left, FALSE)
            /\ Finish(IF left # {} /\ w.out # "interrupted"
                        THEN "incomplete" ELSE w.out,
                      Residual(left # {}, <<"candidate", w.ent>>))
      BY <2>0
    <2>2. s \in dir["candidate"][w.ent]
      BY DEF OwnCandidates
    <2>3. DirsSound'
      BY <1>1, <1>2, <2>1, <2>2, RemoveKeeps DEF Slots
    <2>4. Residual(left # {}, <<"candidate", w.ent>>) \in SUBSET Paths
      BY <1>2, ResidualType, PathTypes DEF Slots
    <2>5. (IF left # {} /\ w.out # "interrupted" THEN "incomplete" ELSE w.out) \in Outcomes
      BY <1>3 DEF Outcomes
    <2>6. w' \in Commands /\ w'.pc = "idle"
      BY <1>2, <2>1, <2>4, <2>5, FinishType
    <2> QED BY <1>1, <1>2, <2>3, <2>6, Elsewhere, Assemble
  <1> QED BY <1>4, <1>5

-----------------------------------------------------------------------------
(* The candidate meets the final path.                                     *)

(* What is known at the place step and at the swap.                        *)
LEMMA PlaceFacts ==
  ASSUME IInv, w.pc \in {"place", "swap"}
  PROVE  /\ DirsSound /\ db \in Databases /\ w \in Commands
         /\ dir \in Dirs /\ Sound(dir)
         /\ w.ent \in Entities /\ w.ent = db.current
         /\ \A s \in w.own : s.stage = "flushed"
         /\ \A e \in Entities : \A s \in dir["rollback"][e] : s.stage = "flushed"
         /\ w.pc = "place" => NoRollback
  BY IInvParts DEF CommandSound, DirsSound, NoRollback, Building, At

(* The step gives up: the candidate is cleaned next.                       *)
LEMMA GiveUp ==
  ASSUME IInv, w.pc \in {"place", "swap"}, db' = db, DirsSound',
         NEW out \in Outcomes, NEW more \in SUBSET Paths,
         w' = [w EXCEPT !.pc = "clean", !.out = out, !.res = @ \cup more]
  PROVE  IInv'
  <1>1. /\ db \in Databases /\ w \in Commands /\ w.ent \in Entities
        /\ w.ent = db.current
    BY PlaceFacts
  <1>2. w' \in Commands /\ w'.pc = "clean" /\ w'.ent = w.ent
    BY <1>1 DEF Commands, Points
  <1> QED BY <1>1, <1>2, CleaningSound, Assemble

LEMMA GiveUpQuietly ==
  ASSUME IInv, w.pc \in {"place", "swap"}, db' = db, DirsSound',
         w'.pc = "clean", w'.ent = w.ent, w' \in Commands
  PROVE  IInv'
  BY PlaceFacts, CleaningSound, Assemble

LEMMA AbortOverResidualKeeps ==
  ASSUME IInv, AbortOverResidual
  PROVE  IInv'
  <1>1. w.pc = "place" /\ db' = db
    BY DEF AbortOverResidual, At
  <1>2. DirsSound' /\ w.ent \in Entities
    BY <1>1, PlaceFacts, DirsSame DEF AbortOverResidual
  <1>3. {<<"final", w.ent>>} \in SUBSET Paths /\ "incomplete" \in Outcomes
    BY <1>2, PathTypes DEF Slots, Outcomes
  <1> QED BY <1>1, <1>2, <1>3, GiveUp DEF AbortOverResidual

LEMMA ReuseFinalKeeps ==
  ASSUME IInv, NEW s, NEW c, ReuseFinal(s, c)
  PROVE  IInv'
  <1>1. w.pc = "place" /\ db' = db /\ c \in dir["candidate"][w.ent]
    BY DEF ReuseFinal, At, OwnCandidates
  <1>2. DirsSound /\ w.ent \in Entities /\ db \in Databases /\ w \in Commands
    BY <1>1, PlaceFacts
  <1>3. PICK left \in Remains(c), synced \in BOOLEAN :
          /\ synced => left = {}
          /\ RemoveTree("candidate", w.ent, c, left, synced)
          /\ IF synced
               THEN Finish("ok", {})
               ELSE w' = [w EXCEPT !.pc = "clean", !.out = "incomplete",
                            !.res = @ \cup {IF left = {} THEN Parent
                                            ELSE <<"candidate", w.ent>>}]
    BY DEF ReuseFinal
  <1>4. DirsSound'
    BY <1>1, <1>2, <1>3, RemoveKeeps DEF Slots
  <1>5. CASE synced
    <2>1. w' \in Commands /\ w'.pc = "idle"
      BY <1>2, <1>3, <1>5, FinishType DEF Outcomes
    <2> QED BY <1>1, <1>2, <1>4, <2>1, Elsewhere, Assemble
  <1>6. CASE ~ synced
    <2>1. PICK more : more = {IF left = {} THEN Parent ELSE <<"candidate", w.ent>>}
      OBVIOUS
    <2>2. more \in SUBSET Paths /\ "incomplete" \in Outcomes
      BY <1>2, <2>1, PathTypes DEF Slots, Outcomes
    <2>3. w' = [w EXCEPT !.pc = "clean", !.out = "incomplete", !.res = @ \cup more]
      BY <1>3, <1>6, <2>1
    <2> QED BY <1>1, <1>4, <2>2, <2>3, GiveUp
  <1> QED BY <1>5, <1>6

LEMMA MoveAsideKeeps ==
  ASSUME IInv, NEW s, NEW c, MoveAside(s, c)
  PROVE  IInv'
  <1> DEFINE aside == Moved(dir, "final", "rollback", w.ent, s)
             Fail(out, res) ==
               w' = [w EXCEPT !.pc = "clean", !.out = out, !.res = @ \cup res]
  <1>1. w.pc = "place" /\ db' = db /\ s \in dir["final"][w.ent] /\ Valid(s)
    BY DEF MoveAside, At, FinalValid
  <1>2. /\ DirsSound /\ db \in Databases /\ w \in Commands /\ dir \in Dirs
        /\ Sound(dir) /\ w.ent \in Entities /\ w.ent = db.current /\ NoRollback
        /\ \A x \in w.own : x.stage = "flushed"
    BY <1>1, PlaceFacts
  <1>3. s.stage = "flushed"
    BY <1>1, <1>2 DEF Valid, Sound, Dirs, Slots, Sets, Stages
  <1>4. aside \in Dirs /\ Sound(aside)
    BY <1>1, <1>2, <1>3, MovedSound DEF Slots
  <1>5. \A e \in Entities : \A x \in aside["rollback"][e] : x.stage = "flushed"
    <2>1. \A e \in Entities : aside["rollback"][e] \subseteq {s}
      BY <1>1, <1>2, MovedFacts DEF Slots, NoRollback
    <2> QED BY <1>3, <2>1
  <1>6. \/ Write(aside, {}, TRUE) /\ w' = [w EXCEPT !.pc = "swap"]
        \/ Write(dir, {}, FALSE) /\ Fail("failed", {})
        \/ \E synced \in BOOLEAN :
             /\ Write(dir, {aside}, synced)
             /\ Fail(IF synced THEN "failed" ELSE "incomplete", {})
        \/ Write(aside, {}, FALSE) /\ Fail("incomplete", {<<"rollback", w.ent>>})
    BY DEF MoveAside
  <1> HIDE DEF aside
  <1>7. CASE Write(aside, {}, TRUE) /\ w' = [w EXCEPT !.pc = "swap"]
    <2>1. DirsSound' /\ dir' = aside
      BY <1>1, <1>2, <1>4, <1>7, WriteKeeps
    <2>2. /\ w' \in Commands /\ w'.pc = "swap" /\ w'.ent = w.ent
          /\ w'.own = w.own
      BY <1>2, <1>7 DEF Commands, Points
    <2>3. CommandSound'
      BY <1>1, <1>2, <1>5, <2>1, <2>2 DEF CommandSound, At, Building
    <2> QED BY <1>1, <1>2, <2>1, <2>2, <2>3, Assemble
  <1>8. CASE Write(dir, {}, FALSE) /\ Fail("failed", {})
    <2>1. DirsSound'
      BY <1>1, <1>2, <1>8, WriteKeeps
    <2>2. w' \in Commands /\ w'.pc = "clean" /\ w'.ent = w.ent
      BY <1>2, <1>8 DEF Commands, Points, Outcomes
    <2> QED BY <1>1, <2>1, <2>2, GiveUpQuietly
  <1>9. CASE \E synced \in BOOLEAN :
               /\ Write(dir, {aside}, synced)
               /\ Fail(IF synced THEN "failed" ELSE "incomplete", {})
    <2>1. PICK synced \in BOOLEAN :
            /\ Write(dir, {aside}, synced)
            /\ Fail(IF synced THEN "failed" ELSE "incomplete", {})
      BY <1>9
    <2>2. DirsSound'
      BY <1>1, <1>2, <1>4, <2>1, WriteKeeps
    <2>3. w' \in Commands /\ w'.pc = "clean" /\ w'.ent = w.ent
      BY <1>2, <2>1 DEF Commands, Points, Outcomes
    <2> QED BY <1>1, <2>2, <2>3, GiveUpQuietly
  <1>10. CASE Write(aside, {}, FALSE) /\ Fail("incomplete", {<<"rollback", w.ent>>})
    <2>1. DirsSound'
      BY <1>1, <1>2, <1>4, <1>10, WriteKeeps
    <2>2. {<<"rollback", w.ent>>} \in SUBSET Paths /\ "incomplete" \in Outcomes
      BY <1>2, PathTypes DEF Slots, Outcomes
    <2> QED BY <1>1, <1>10, <2>1, <2>2, GiveUp
  <1> QED BY <1>6, <1>7, <1>8, <1>9, <1>10

LEMMA NothingThereKeeps ==
  ASSUME IInv, NothingThere
  PROVE  IInv'
  <1>1. w.pc = "place" /\ db' = db /\ dir' = dir
    BY DEF NothingThere, At
  <1>2. /\ DirsSound' /\ db \in Databases /\ w \in Commands
        /\ w.ent \in Entities /\ w.ent = db.current
        /\ \A x \in w.own : x.stage = "flushed"
        /\ \A e \in Entities : \A s \in dir["rollback"][e] : s.stage = "flushed"
    BY <1>1, PlaceFacts, DirsSame DEF NothingThere
  <1>3. w' \in Commands /\ w'.pc = "swap" /\ w'.ent = w.ent /\ w'.own = w.own
    BY <1>2 DEF NothingThere, Commands, Points
  <1>4. CommandSound'
    BY <1>1, <1>2, <1>3 DEF CommandSound, At, Building
  <1> QED BY <1>1, <1>2, <1>3, <1>4, Assemble

LEMMA SwapInKeeps ==
  ASSUME IInv, NEW c, SwapIn(c)
  PROVE  IInv'
  <1>1. w.pc = "swap" /\ db' = db /\ c \in dir["candidate"][w.ent] /\ c \in w.own
    BY DEF SwapIn, At, OwnCandidates
  <1>2. /\ DirsSound /\ db \in Databases /\ w \in Commands /\ dir \in Dirs
        /\ Sound(dir) /\ w.ent \in Entities /\ c.stage = "flushed"
    BY <1>1, PlaceFacts
  <1>3. /\ Moved(dir, "candidate", "final", w.ent, c) \in Dirs
        /\ Sound(Moved(dir, "candidate", "final", w.ent, c))
    BY <1>1, <1>2, MovedSound DEF Slots
  <1>4. DirsSound'
    BY <1>1, <1>2, <1>3, WriteKeeps DEF SwapIn
  <1>5. /\ w' \in Commands /\ w'.pc = "settle" /\ w'.ent = w.ent
        /\ w.ent \in Entities \cap {db.current}
    BY <1>1, <1>2, PlaceFacts DEF SwapIn, Commands, Points
  <1> QED BY <1>1, <1>2, <1>4, <1>5, CleaningSound, Assemble

LEMMA SwapFailsKeeps ==
  ASSUME IInv, SwapFails
  PROVE  IInv'
  <1>1. w.pc = "swap" /\ db' = db
    BY DEF SwapFails, At
  <1>2. /\ DirsSound /\ db \in Databases /\ w \in Commands /\ dir \in Dirs
        /\ Sound(dir) /\ w.ent \in Entities
        /\ \A e \in Entities : \A s \in dir["rollback"][e] : s.stage = "flushed"
    BY <1>1, PlaceFacts
  <1>3. CASE /\ UNCHANGED <<dir, disk>>
             /\ w' = [w EXCEPT !.pc = "clean", !.out = "failed"]
    <2>1. DirsSound'
      BY <1>1, <1>2, <1>3, DirsSame
    <2>2. w' \in Commands /\ w'.pc = "clean" /\ w'.ent = w.ent
      BY <1>2, <1>3 DEF Commands, Points, Outcomes
    <2> QED BY <1>1, <2>1, <2>2, GiveUpQuietly
  <1>4. ASSUME NEW s \in dir["rollback"][w.ent],
               NEW restored \in BOOLEAN, NEW synced \in BOOLEAN,
               Write(IF restored THEN Moved(dir, "rollback", "final", w.ent, s)
                                 ELSE dir, {}, synced),
               w' = [w EXCEPT !.pc = "clean",
                       !.out = IF synced THEN "failed" ELSE "incomplete",
                       !.res = @ \cup Residual(~synced, <<"rollback", w.ent>>)]
        PROVE  IInv'
    <2>1. /\ Moved(dir, "rollback", "final", w.ent, s) \in Dirs
          /\ Sound(Moved(dir, "rollback", "final", w.ent, s))
      BY <1>2, MovedSound DEF Slots
    <2>2. DirsSound'
      BY <1>1, <1>2, <1>4, <2>1, WriteKeeps
    <2>3. /\ Residual(~synced, <<"rollback", w.ent>>) \in SUBSET Paths
          /\ (IF synced THEN "failed" ELSE "incomplete") \in Outcomes
      BY <1>2, ResidualType, PathTypes DEF Slots, Outcomes
    <2> QED BY <1>1, <1>4, <2>2, <2>3, GiveUp
  <1> QED BY <1>3, <1>4 DEF SwapFails

LEMMA FinishKeeps ==
  ASSUME IInv, db' = db, DirsSound', NEW out \in Outcomes,
         NEW more \in SUBSET Paths, Finish(out, more)
  PROVE  IInv'
  <1>1. w \in Commands /\ db \in Databases
    BY DEF IInv, TypeOK
  <1>2. w' \in Commands /\ w'.pc = "idle"
    BY <1>1, FinishType
  <1> QED BY <1>1, <1>2, Elsewhere, Assemble

LEMMA SettlePublishedKeeps ==
  ASSUME IInv, SettlePublished
  PROVE  IInv'
  <1>1. PICK synced \in BOOLEAN :
          /\ Fsync(synced)
          /\ synced => w' = [w EXCEPT !.pc = "discard"]
          /\ ~ synced => Finish("incomplete",
                 {IF dir["rollback"][w.ent] = {} THEN <<"final", w.ent>>
                                                 ELSE <<"rollback", w.ent>>})
    BY DEF SettlePublished
  <1>2. db' = db /\ w \in Commands /\ db \in Databases /\ dir \in Dirs
        /\ DirsSound /\ Sound(dir)
    BY IInvParts DEF SettlePublished, DirsSound
  <1>3. DirsSound'
    BY <1>1, <1>2, WriteKeeps DEF Fsync
  <1>4. CASE synced
    <2>1. w' \in Commands /\ w'.pc = "discard" /\ w'.ent = w.ent
      BY <1>1, <1>2, <1>4 DEF Commands, Points
    <2>2. w.ent \in Entities \cap {db.current}
      BY DEF IInv, CommandSound, SettlePublished, At
    <2> QED BY <1>2, <1>3, <2>1, <2>2, CleaningSound, Assemble
  <1>5. CASE ~ synced
    <2>1. PICK more : more =
            {IF dir["rollback"][w.ent] = {} THEN <<"final", w.ent>>
                                            ELSE <<"rollback", w.ent>>}
      OBVIOUS
    <2>2. more \in SUBSET Paths
      BY <1>2, <2>1 DEF Commands, Slots, Paths
    <2> QED BY <1>1, <1>2, <1>3, <1>5, <2>1, <2>2, FinishKeeps DEF Outcomes
  <1> QED BY <1>4, <1>5

LEMMA DiscardRollbackKeeps ==
  ASSUME IInv, DiscardRollback
  PROVE  IInv'
  <1>1. /\ db' = db /\ w \in Commands /\ db \in Databases /\ dir \in Dirs
        /\ DirsSound /\ Sound(dir) /\ "incomplete" \in Outcomes
    BY IInvParts DEF DiscardRollback, DirsSound, Outcomes
  <1>0. w.ent \in Entities \cap {db.current}
    BY DEF IInv, CommandSound, DiscardRollback, At
  <1>2. ASSUME w' = [w EXCEPT !.pc = "confirm"], DirsSound'
        PROVE  IInv'
    <2>1. w' \in Commands /\ w'.pc = "confirm" /\ w'.ent = w.ent
      BY <1>1, <1>2 DEF Commands, Points
    <2> QED BY <1>1, <1>0, <1>2, <2>1, CleaningSound, Assemble
  <1>3. CASE /\ dir["rollback"][w.ent] = {}
             /\ \E synced \in BOOLEAN :
                  /\ Fsync(synced)
                  /\ IF synced THEN w' = [w EXCEPT !.pc = "confirm"]
                               ELSE Finish("incomplete", {<<"final", w.ent>>})
    <2>1. PICK synced \in BOOLEAN :
            /\ Fsync(synced)
            /\ synced => w' = [w EXCEPT !.pc = "confirm"]
            /\ ~ synced => Finish("incomplete", {<<"final", w.ent>>})
      BY <1>3
    <2>2. DirsSound'
      BY <1>1, <2>1, WriteKeeps DEF Fsync
    <2>3. {<<"final", w.ent>>} \in SUBSET Paths
      BY <1>1 DEF Commands, Slots, Paths
    <2> QED BY <1>1, <1>2, <2>1, <2>2, <2>3, FinishKeeps
  <1>4. CASE \E s \in dir["rollback"][w.ent] :
             \E left \in Remains(s), synced \in BOOLEAN :
               /\ synced => left = {}
               /\ RemoveTree("rollback", w.ent, s, left, synced)
               /\ IF synced THEN w' = [w EXCEPT !.pc = "confirm"]
                  ELSE Finish("incomplete",
                         {<<IF left = {} THEN "final" ELSE "rollback", w.ent>>})
    <2>1. PICK s \in dir["rollback"][w.ent] :
             \E left \in Remains(s), synced \in BOOLEAN :
               /\ synced => left = {}
               /\ RemoveTree("rollback", w.ent, s, left, synced)
               /\ IF synced THEN w' = [w EXCEPT !.pc = "confirm"]
                  ELSE Finish("incomplete",
                         {<<IF left = {} THEN "final" ELSE "rollback", w.ent>>})
      BY <1>4
    <2>2. PICK left \in Remains(s), synced \in BOOLEAN :
            /\ RemoveTree("rollback", w.ent, s, left, synced)
            /\ synced => w' = [w EXCEPT !.pc = "confirm"]
            /\ ~ synced => Finish("incomplete",
                 {<<IF left = {} THEN "final" ELSE "rollback", w.ent>>})
      BY <2>1
    <2>3. w.ent \in Entities
      BY <1>0
    <2>4. DirsSound'
      BY <1>1, <2>2, <2>3, RemoveKeeps DEF Slots
    <2>5. {<<IF left = {} THEN "final" ELSE "rollback", w.ent>>} \in SUBSET Paths
      BY <2>3, PathTypes DEF Slots
    <2> QED BY <1>1, <1>2, <2>2, <2>4, <2>5, FinishKeeps
  <1> QED BY <1>3, <1>4 DEF DiscardRollback

LEMMA ConfirmKeeps ==
  ASSUME IInv, Confirm
  PROVE  IInv'
  <1>1. db' = db /\ w \in Commands /\ DirsSound'
    BY IInvParts, DirsSame DEF Confirm
  <1>2. {<<"final", w.ent>>} \in SUBSET Paths /\ {} \in SUBSET Paths
        /\ {"ok", "incomplete"} \subseteq Outcomes
    BY <1>1 DEF Commands, Slots, Paths, Outcomes
  <1>3. Finish("ok", {}) \/ Finish("incomplete", {<<"final", w.ent>>})
    BY DEF Confirm
  <1> QED BY <1>1, <1>2, <1>3, FinishKeeps

-----------------------------------------------------------------------------
(* Commands that change the database, and what ends a command.             *)

(* A command that has committed turns to the set of snapshot e.            *)
LEMMA WithdrawingType ==
  ASSUME w \in Commands, dir \in Dirs, NEW e \in Entities \cup {NoEntity},
         Withdrawing(e)
  PROVE  /\ w' \in Commands /\ w'.pc = "remove" /\ w'.gone = {e} \ {NoEntity}
         /\ \A x \in w'.todo : x[1] \in w'.gone
  <1>1. {x \in Siblings(dir, "final") : x[1] = e} \in SUBSET (Entities \X Sets)
    BY DEF Siblings, Dirs, Slots
  <1>2. {e} \ {NoEntity} \in SUBSET Entities
    OBVIOUS
  <1>3. /\ w' \in Commands /\ w'.pc = "remove" /\ w'.gone = {e} \ {NoEntity}
        /\ w'.todo = {x \in Siblings(dir, "final") : x[1] = e}
    BY <1>1, <1>2 DEF Withdrawing, Commands, Points
  <1>4. \A x \in w'.todo : x[1] \in Entities /\ x[1] = e
    BY <1>1, <1>3
  <1> QED BY <1>3, <1>4, NoEntityAssumption

LEMMA AmendKeeps ==
  ASSUME IInv, Amend
  PROVE  IInv'
  <1>1. /\ DirsSound /\ db \in Databases /\ w \in Commands /\ dir \in Dirs
        /\ dir' = dir /\ disk' = disk /\ db.current \in Entities
    BY IInvParts DEF Amend, DirsSound
  <1>2. PICK eligible \in BOOLEAN :
          db' = [db EXCEPT !.render = @ + 1, !.eligible = eligible]
    BY DEF Amend
  <1>3. /\ db' \in Databases /\ db'.current = db.current /\ db'.spent = db.spent
        /\ db'.render = db.render + 1 /\ db.render \in Nat
    <2>1. db.render \in 1 .. MaxRender /\ db.render < MaxRender
      BY <1>1 DEF Amend, Databases, Renders
    <2>2. db.render + 1 \in Renders /\ db.render \in Nat
      BY <2>1, MaxRenderAssumption DEF Renders, MaxRenderAssumption
    <2>3. /\ db' \in Databases /\ db'.current = db.current /\ db'.spent = db.spent
          /\ db'.render = db.render + 1
      BY <1>1, <1>2, <2>2 DEF Databases
    <2> QED BY <2>2, <2>3
  <1>4. \A d \in Dirs : \A slot \in Slots, e \in Entities : \A s \in d[slot][e] :
          s.render \in Nat
    BY DEF Dirs, Sets, Renders
  <1>5. \A d \in Dirs : Sound(d) => Sound(d)'
    <2> SUFFICES ASSUME NEW d \in Dirs, Sound(d) PROVE Sound(d)'
      OBVIOUS
    <2>1. \A slot \in Slots, e \in Entities : \A s \in d[slot][e] :
            (Known(e, s) => Known(e, s)') /\ (Outdated(e, s) => Outdated(e, s)')
      BY <1>3, <1>4 DEF Known, Outdated
    <2> QED BY <2>1 DEF Sound, Slots
  <1>6. DirsSound'
    BY <1>1, <1>5 DEF DirsSound
  <1>7. /\ w' \in Commands /\ w'.pc = "remove" /\ w'.gone \subseteq {db.current}
        /\ \A x \in w'.todo : x[1] \in w'.gone
    BY <1>1, WithdrawingType DEF Amend
  <1>8. \A e \in w'.gone : \A s \in dir'["final"][e] \cup dir'["rollback"][e] :
          Outdated(e, s)'
    <2> SUFFICES ASSUME NEW e \in w'.gone, NEW slot \in Slots, NEW s \in dir[slot][e]
                 PROVE  Outdated(e, s)'
      BY <1>1 DEF Slots
    <2>1. e = db.current /\ e \in Entities
      BY <1>1, <1>7
    <2>2. Known(e, s) /\ s.render \in Nat
      BY <1>1, <1>4, <2>1 DEF DirsSound, Sound
    <2> QED BY <1>3, <2>2 DEF Known, Outdated
  <1>9. CommandSound'
    BY <1>7, <1>8 DEF CommandSound, At, Building
  <1> QED BY <1>3, <1>6, <1>7, <1>9 DEF IInv, TypeOK, DirsSound

LEMMA SupersedeKeeps ==
  ASSUME IInv, NEW next \in (Entities \ db.spent) \cup {NoEntity},
         Supersede(next)
  PROVE  IInv'
  <1>1. /\ DirsSound /\ db \in Databases /\ w \in Commands /\ dir \in Dirs
        /\ dir' = dir /\ disk' = disk /\ db.current \in Entities \cup {NoEntity}
    BY IInvParts DEF Supersede, DirsSound, Databases
  <1>2. PICK eligible \in BOOLEAN :
          db' = [current |-> next, render |-> 1, eligible |-> eligible,
                 spent |-> db.spent \cup ({db.current} \ {NoEntity})]
    BY DEF Supersede
  <1>3. /\ db' \in Databases /\ db'.current = next
        /\ db'.spent = db.spent \cup ({db.current} \ {NoEntity})
    BY <1>1, <1>2, MaxRenderAssumption DEF Databases, Renders
  <1>4. (db.spent \cup {db.current}) \cap Entities \subseteq db'.spent
    BY <1>3, NoEntityAssumption
  <1>5. \A d \in Dirs : Sound(d) => Sound(d)'
    <2> SUFFICES ASSUME NEW d \in Dirs, Sound(d) PROVE Sound(d)'
      OBVIOUS
    <2>1. \A slot \in Slots, e \in Entities : \A s \in d[slot][e] : e \in db'.spent
      BY <1>4 DEF Sound, Known
    <2>2. \A slot \in Slots, e \in Entities : \A s \in d[slot][e] :
            Known(e, s)' /\ Outdated(e, s)'
      BY <2>1 DEF Known, Outdated
    <2> QED BY <2>2 DEF Sound, Slots
  <1>6. DirsSound'
    BY <1>1, <1>5 DEF DirsSound
  <1>7. /\ w' \in Commands /\ w'.pc = "remove" /\ w'.gone = {db.current} \ {NoEntity}
        /\ \A x \in w'.todo : x[1] \in w'.gone
    BY <1>1, WithdrawingType DEF Supersede
  <1>8. \A e \in w'.gone : \A s : Outdated(e, s)'
    BY <1>3, <1>7 DEF Outdated
  <1>9. CommandSound'
    BY <1>7, <1>8 DEF CommandSound, At, Building
  <1> QED BY <1>3, <1>6, <1>7, <1>9 DEF IInv, TypeOK, DirsSound

LEMMA RollBackKeeps ==
  ASSUME IInv, RollBack
  PROVE  IInv'
  <1>1. db' = db /\ DirsSound' /\ Finish("failed", {})
    BY IInvParts, DirsSame DEF RollBack
  <1> QED BY <1>1, FinishKeeps DEF Outcomes

LEMMA RemoveSetKeeps ==
  ASSUME IInv, NEW e \in Entities, NEW s \in dir["final"][e], RemoveSet(e, s)
  PROVE  IInv'
  <1>1. PICK left \in Remains(s) :
          /\ RemoveTree("final", e, s, left, FALSE)
          /\ w' = [w EXCEPT !.todo = @ \ {<<e, s>>},
                            !.tried = @ \cup {<<"final", e>>},
                            !.res = @ \cup Residual(left # {}, <<"final", e>>)]
    BY DEF RemoveSet
  <1>2. /\ w.pc = "remove" /\ <<e, s>> \in w.todo /\ db' = db
        /\ db \in Databases /\ DirsSound /\ w \in Commands
        /\ \A x \in w.todo : x[1] \in w.gone
        /\ \A f \in w.gone : \A x \in dir["final"][f] \cup dir["rollback"][f] :
             Outdated(f, x)
    BY IInvParts DEF RemoveSet, CommandSound, At
  <1>3. e \in w.gone /\ Outdated(e, s)
    BY <1>2
  <1>4. /\ DirsSound'
        /\ \A t \in Slots, f \in Entities :
             /\ t = "final" /\ f = e =>
                  dir'[t][f] = (dir["final"][e] \ {s}) \cup left
             /\ t # "final" \/ f # e => dir'[t][f] = dir[t][f]
    <2> DEFINE slot == "final"
               synced == FALSE
    <2>1. /\ slot \in Slots /\ s \in dir[slot][e] /\ synced \in BOOLEAN
          /\ RemoveTree(slot, e, s, left, synced)
      BY <1>1 DEF Slots
    <2>2. slot = "final"
      OBVIOUS
    <2> HIDE DEF slot, synced
    <2>3. /\ DirsSound'
          /\ \A t \in Slots, f \in Entities :
               /\ t = slot /\ f = e => dir'[t][f] = (dir[slot][e] \ {s}) \cup left
               /\ t # slot \/ f # e => dir'[t][f] = dir[t][f]
      BY <1>2, <1>3, <2>1, RemoveKeeps
    <2> QED BY <2>2, <2>3
  <1>5. <<"final", e>> \in Paths
    BY PathTypes DEF Slots
  <1>6. Residual(left # {}, <<"final", e>>) \in SUBSET Paths
    BY <1>5, ResidualType
  <1>7. /\ w' \in Commands /\ w'.pc = "remove" /\ w'.todo \subseteq w.todo
        /\ w'.gone = w.gone /\ w.gone \subseteq Entities
    BY <1>1, <1>2, <1>5, <1>6 DEF Commands, Points
  <1>8. \A x \in left : Outdated(e, x)
    <2>1. s \in Sets
      BY <1>2 DEF DirsSound, Dirs, Slots
    <2> QED BY <1>3, <2>1, TornType, SameRender DEF Remains
  <1>9. \A f \in w'.gone : \A x \in dir'["final"][f] \cup dir'["rollback"][f] :
          Outdated(f, x)'
    <2>1. \A f \in w.gone : \A x \in dir'["final"][f] \cup dir'["rollback"][f] :
            Outdated(f, x)
      BY <1>2, <1>4, <1>7, <1>8 DEF Slots
    <2> QED BY <1>2, <1>7, <2>1, SameDatabase
  <1>10. CommandSound'
    BY <1>2, <1>7, <1>9 DEF CommandSound, At, Building
  <1> QED BY <1>2, <1>4, <1>7, <1>10, Assemble

LEMMA RemoveDoneKeeps ==
  ASSUME IInv, RemoveDone
  PROVE  IInv'
  <1>1. PICK synced \in BOOLEAN :
          /\ Fsync(synced)
          /\ LET lost == IF Unlinked # {} /\ ~synced
                           THEN Unlinked \cup {Parent} ELSE {}
             IN  Finish(IF w.res \cup lost \cup w.told = {}
                          THEN "ok" ELSE "incomplete", lost)
    BY DEF RemoveDone
  <1>2. db' = db /\ w \in Commands /\ dir \in Dirs /\ DirsSound /\ Sound(dir)
    BY IInvParts DEF RemoveDone, DirsSound
  <1>3. DirsSound'
    BY <1>1, <1>2, WriteKeeps DEF Fsync
  <1>4. PICK lost : lost = IF Unlinked # {} /\ ~synced
                             THEN Unlinked \cup {Parent} ELSE {}
    OBVIOUS
  <1>5. lost \in SUBSET Paths
    BY <1>2, <1>4, PathTypes DEF Unlinked, Commands
  <1>6. PICK out \in {"ok", "incomplete"} : Finish(out, lost)
    BY <1>1, <1>4
  <1> QED BY <1>2, <1>3, <1>5, <1>6, FinishKeeps DEF Outcomes

LEMMA InterruptKeeps ==
  ASSUME IInv, Interrupt
  PROVE  IInv'
  <1>1. db' = db /\ w \in Commands /\ db \in Databases /\ DirsSound'
    BY IInvParts, DirsSame DEF Interrupt
  <1>2. CASE w.pc \in {"build", "fill", "flush", "place", "swap"}
    <2>0. w' = [w EXCEPT !.pc = "clean", !.out = "interrupted"]
      BY <1>2 DEF Interrupt
    <2>1. w' \in Commands /\ w'.pc = "clean" /\ w'.ent = w.ent
      BY <1>1, <2>0 DEF Commands, Points, Outcomes
    <2>2. w.ent \in Entities \cap {db.current}
      BY <1>2 DEF IInv, CommandSound, Building
    <2> QED BY <1>1, <2>1, <2>2, CleaningSound, Assemble
  <1>3. CASE w.pc \notin {"build", "fill", "flush", "place", "swap"}
    <2>1. PICK more : more = IF At("remove") THEN {<<"final", e>> : e \in w.gone}
                                             ELSE {}
      OBVIOUS
    <2>2. more \in SUBSET Paths
      BY <1>1, <2>1, PathTypes DEF Commands, Slots
    <2>3. Finish("interrupted", more)
      BY <1>3, <2>1 DEF Interrupt
    <2> QED BY <1>1, <2>2, <2>3, FinishKeeps DEF Outcomes
  <1> QED BY <1>2, <1>3

LEMMA KillKeeps ==
  ASSUME IInv, Kill
  PROVE  IInv'
  <1>1. db' = db /\ db \in Databases /\ DirsSound'
    BY IInvParts, DirsSame DEF Kill
  <1> QED BY <1>1, NoCommandType, Elsewhere, Assemble DEF Kill

LEMMA PowerLossKeeps ==
  ASSUME IInv, PowerLoss
  PROVE  IInv'
  <1>1. /\ db' = db /\ db \in Databases /\ DirsSound
        /\ dir' \in disk /\ disk' = {dir'} /\ w' = NoCommand
    BY IInvParts DEF PowerLoss
  <1>2. DirsSound'
    BY <1>1, SoundSame DEF DirsSound
  <1> QED BY <1>1, <1>2, NoCommandType, Elsewhere, Assemble

-----------------------------------------------------------------------------

LEMMA InitSound == Init => IInv
  <1> SUFFICES ASSUME Init PROVE IInv
    OBVIOUS
  <1>1. Empty \in Dirs /\ \A slot \in Slots, e \in Entities : Empty[slot][e] = {}
    BY DEF Empty, Dirs
  <1>2. Sound(Empty)
    BY <1>1 DEF Sound, Slots
  <1>3. db \in Databases
    BY MaxRenderAssumption DEF Init, Databases, Renders
  <1>4. CommandSound
    BY DEF Init, NoCommand, CommandSound, At, Building
  <1> QED BY <1>1, <1>2, <1>3, <1>4, NoCommandType DEF Init, IInv, TypeOK

LEMMA StuttersKeep == IInv /\ UNCHANGED vars => IInv'
  BY DEF IInv, TypeOK, Sound, CommandSound, At, Building, vars, Known, Outdated

LEMMA PreambleKeeps == IInv /\ Preamble => IInv'
  BY ListParentKeeps, ListingFailsKeeps, ReclaimCandidateKeeps, ReclaimDoneKeeps,
     RestoreRollbackKeeps, DropRollbackKeeps, LeaveRollbackKeeps, RecoverRaisesKeeps,
     RecoverDoneKeeps DEF Preamble

LEMMA ExportKeeps == IInv /\ Export => IInv'
  BY SelectKeeps, SweepStaleKeeps, SweepUnreadKeeps, SweepRaisesKeeps,
     SweepDoneKeeps, MakeCandidateKeeps,
     FillCandidateKeeps, FlushCandidateKeeps, SwapInKeeps, BuildFailsKeeps,
     CleanCandidateKeeps, AbortOverResidualKeeps, ReuseFinalKeeps,
     MoveAsideKeeps, NothingThereKeeps, SwapFailsKeeps, SettlePublishedKeeps,
     DiscardRollbackKeeps, ConfirmKeeps DEF Export

LEMMA ChangeKeeps == IInv /\ Change => IInv'
  BY AmendKeeps, SupersedeKeeps, RollBackKeeps, RemoveSetKeeps, RemoveDoneKeeps
     DEF Change

(* Every step, a failure, an interrupt, a kill and a power loss included,  *)
(* preserves the strengthening.                                            *)
LEMMA Inductive == IInv /\ [Next]_vars => IInv'
  BY StuttersKeep, BeginKeeps, PreambleKeeps, ExportKeeps, ChangeKeeps,
     InterruptKeeps, KillKeeps, PowerLossKeeps DEF Next, CommandStep

LEMMA IInvImplies == IInv => TypeOK /\ CurrentNeverTorn
  <1> SUFFICES ASSUME IInv PROVE CurrentNeverTorn
    BY DEF IInv
  <1>1. \A d \in disk : \A e \in Entities \ db.spent :
          \A s \in d["final"][e] : s.stage = "flushed" \/ s.render < db.render
    BY DEF IInv, Sound, Outdated
  <1> QED BY <1>1 DEF CurrentNeverTorn, Valid

(* The managed directory, what a power failure may leave of it and the     *)
(* command record keep their types for any number of snapshots, sets and   *)
(* renderings: no step of exports/managed.py leaves the modelled states.   *)
THEOREM TypeCorrect == Spec => []TypeOK
  <1>1. Spec => []IInv
    BY InitSound, Inductive, PTL DEF Spec
  <1> QED BY <1>1, IInvImplies, PTL

(* No power failure, failed removal or failed rename of any command leaves *)
(* an incomplete set of the rendering the database holds at the final path *)
(* of a snapshot that was not retired: what is torn there was due to go.   *)
THEOREM CurrentNeverTornHolds == Spec => []CurrentNeverTorn
  <1>1. Spec => []IInv
    BY InitSound, Inductive, PTL DEF Spec
  <1> QED BY <1>1, IInvImplies, PTL

-----------------------------------------------------------------------------
(* Durability and the store: Kept is the inductive invariant, on top of    *)
(* IInv.                                                                   *)


(* Under one name there is one set, and one candidate and one rollback in  *)
(* the whole directory: OneSiblingIn without counting.                     *)
Lone(d) ==
  /\ \A slot \in Slots, e \in Entities : \A s, t \in d[slot][e] : s = t
  /\ \A slot \in {"candidate", "rollback"}, e, f \in Entities :
       d[slot][e] # {} /\ d[slot][f] # {} => e = f

(* The directory is among those on the disk.                               *)
DirsKept ==
  /\ dir \in disk
  /\ \A d \in disk : Lone(d)
  /\ db.current \notin db.spent

(* Nothing earlier can come back.                                          *)
Flushed == disk = {dir, Settled(dir)}

NoSibling(slot) == \A e \in Entities : dir[slot][e] = {}

(* Every sibling under this name is reported, or still to be dealt with.   *)
Told(slot, paths) == \A e \in Entities : dir[slot][e] # {} => <<slot, e>> \in paths

(* The parent itself is reported, because it could not be listed.          *)
Unlisted(paths) == Parent \in paths \cap w.unread

Listed(slot, e) == \A s \in dir[slot][e] : <<e, s>> \in w.todo \/ <<slot, e>> \in w.res

Own(e, s) == e = w.ent /\ s \in w.own

OnlyOwn == \A e \in Entities : \A s \in dir["candidate"][e] : Own(e, s)

Faithful == \A s \in w.own : s.render = db.render

OthersGone ==
  \A e \in Entities \ {db.current} : FinalValid(dir, e) => <<"final", e>> \in w.unread

RollbackOwn == \A e \in Entities \ {w.ent} : dir["rollback"][e] = {}

(* The command at each of its points: what it knows of the directory.      *)
PreambleKept ==
  /\ At("reclaim") => \A e \in Entities : Listed("candidate", e)
  /\ At("recover") => Told("candidate", w.res) \/ Unlisted(w.res)

ExportKept ==
  /\ w.pc \in Building \cup {"select", "sweep", "settle", "discard", "confirm", "clean"} =>
       w.op = "export"
  /\ w.pc \in {"select", "sweep", "build", "settle", "discard", "confirm"} =>
       NoSibling("candidate")
  /\ At("sweep") => \A e \in Entities \ {db.current} :
       FinalValid(dir, e) => Listed("final", e) \/ <<"final", e>> \in w.unread
  /\ w.pc \in Building \cup {"settle", "discard", "confirm"} => OthersGone
  /\ w.pc \in {"fill", "flush", "place", "swap"} => OnlyOwn /\ Faithful
  /\ At("swap") => FinalAbsent(dir, w.ent)
  /\ w.pc \in {"swap", "settle", "discard"} => RollbackOwn
  /\ w.pc \in {"settle", "discard", "confirm"} => ~ FinalAbsent(dir, w.ent)
  /\ At("confirm") => NoSibling("rollback") /\ Flushed

CleanKept ==
  At("clean") =>
    /\ w.out \in {"failed", "incomplete", "interrupted"}
    /\ \A e \in Entities : \A s \in dir["candidate"][e] :
         Own(e, s) \/ <<"candidate", e>> \in w.res
    /\ w.out # "interrupted" => Told("rollback", w.res)

(* What an invalidation has not removed yet, it still has on its list.     *)
ChangeKept ==
  /\ w.pc \in {"commit", "remove"} =>
       /\ w.op = "change"
       /\ \/ Told("candidate", w.told) /\ Told("rollback", w.told)
          \/ Unlisted(w.told)
  /\ At("remove") => \A e \in w.gone : Listed("final", e)

CommandKept ==
  PreambleKept /\ ExportKept /\ CleanKept /\ ChangeKept /\ LeftoversReported /\ DoneIsDurable

Kept == IInv /\ DirsKept /\ CommandKept

LEMMA KeptFacts ==
  ASSUME Kept
  PROVE  /\ IInv /\ DirsSound /\ DirsKept /\ CommandKept /\ CommandSound
         /\ dir \in Dirs /\ Sound(dir) /\ Lone(dir)
         /\ disk \in SUBSET Dirs /\ \A d \in disk : Sound(d) /\ Lone(d)
         /\ db \in Databases /\ w \in Commands
  BY IInvParts DEF Kept, DirsKept, DirsSound

-----------------------------------------------------------------------------
(* The directory operators.                                                *)

LEMMA PutLone ==
  ASSUME NEW d \in Dirs, NEW slot \in Slots, NEW e \in Entities, Lone(d),
         NEW s, NEW left \in SUBSET Sets, \A x, y \in left : x = y,
         d[slot][e] \subseteq {s},
         slot # "final" => \A f \in Entities \ {e} : d[slot][f] = {}
  PROVE  Lone(Put(d, slot, e, s, left))
  <1>1. PICK p : p = Put(d, slot, e, s, left)
    OBVIOUS
  <1>2. \A t \in Slots, f \in Entities :
          /\ t = slot /\ f = e => p[t][f] = (d[slot][e] \ {s}) \cup left
          /\ t # slot \/ f # e => p[t][f] = d[t][f]
    BY <1>1, PutFacts
  <1>3. \A t \in Slots, f \in Entities : t = slot /\ f = e => p[t][f] = left
    BY <1>2
  <1>4. \A t \in Slots, f \in Entities : \A x, y \in p[t][f] : x = y
    BY <1>2, <1>3 DEF Lone
  <1>5. \A t \in {"candidate", "rollback"}, f, g \in Entities :
          p[t][f] # {} /\ p[t][g] # {} => f = g
    BY <1>2, <1>3 DEF Lone, Slots
  <1> QED BY <1>1, <1>4, <1>5 DEF Lone

(* A set is alone under its name, so what a step makes of it is.           *)
LEMMA Alone ==
  ASSUME NEW d \in Dirs, NEW slot \in Slots, NEW e \in Entities, Lone(d),
         NEW s \in d[slot][e]
  PROVE  /\ s \in Sets /\ d[slot][e] = {s}
         /\ slot # "final" => \A f \in Entities \ {e} : d[slot][f] = {}
  BY DEF Dirs, Lone, Slots

LEMMA MovedLone ==
  ASSUME NEW d \in Dirs, NEW from \in Slots, NEW to \in Slots, from # to,
         NEW e \in Entities, NEW s \in d[from][e], Lone(d),
         d[to][e] = {}, to # "final" => \A f \in Entities : d[to][f] = {}
  PROVE  Lone(Moved(d, from, to, e, s))
  <1>1. /\ s \in Sets /\ d[from][e] = {s}
        /\ from # "final" => \A f \in Entities \ {e} : d[from][f] = {}
    BY Alone
  <1>2. PICK p : p = Put(d, from, e, s, {})
    OBVIOUS
  <1>3. /\ p \in Dirs /\ Lone(p)
        /\ \A f \in Entities : p[to][f] = d[to][f]
    BY <1>1, <1>2, PutFacts, PutLone
  <1>4. Lone(Put(p, to, e, s, {s}))
    BY <1>1, <1>3, PutLone
  <1> QED BY <1>2, <1>4 DEF Moved

LEMMA SettledFacts ==
  ASSUME NEW d \in Dirs
  PROVE  /\ Lone(d) => Lone(Settled(d))
         /\ \A slot \in Slots, e \in Entities :
              Settled(d)[slot][e] = {} <=> d[slot][e] = {}
         /\ \A e \in Entities, slot \in {"final", "rollback"} :
              Sound(d) => Settled(d)[slot][e] = d[slot][e]
  <1> DEFINE r(s) == IF s.stage = "written" THEN Torn(s) ELSE s
  <1>1. \A slot \in Slots, e \in Entities :
          Settled(d)[slot][e] = {r(s) : s \in d[slot][e]}
    BY DEF Settled
  <1>2. \A slot \in Slots, e \in Entities : Settled(d)[slot][e] = {} <=> d[slot][e] = {}
    BY <1>1
  <1>3. Lone(d) => Lone(Settled(d))
    BY <1>1, <1>2 DEF Lone, Slots
  <1>4. ASSUME NEW e \in Entities, NEW slot \in {"final", "rollback"}, Sound(d)
        PROVE  Settled(d)[slot][e] = d[slot][e]
    <2>1. \A s \in d[slot][e] : r(s) = s
      BY <1>4 DEF Sound
    <2>2. Settled(d)[slot][e] = {r(s) : s \in d[slot][e]}
      BY <1>1 DEF Slots
    <2> HIDE DEF r
    <2>3. {r(s) : s \in d[slot][e]} = d[slot][e]
      BY <2>1
    <2> QED BY <2>2, <2>3
  <1> QED BY <1>2, <1>3, <1>4

-----------------------------------------------------------------------------
(* The system calls.                                                       *)

LEMMA DirsKeptSame ==
  ASSUME DirsKept, UNCHANGED <<dir, disk, db>>
  PROVE  DirsKept'
  BY DEF DirsKept

LEMMA WriteKept ==
  ASSUME DirsSound, DirsKept, db' = db, NEW d \in Dirs, Lone(d),
         NEW between \in SUBSET Dirs, \A x \in between : Lone(x),
         NEW synced \in BOOLEAN, Write(d, between, synced)
  PROVE  /\ DirsKept' /\ dir' = d
         /\ synced => Flushed'
  <1>1. Lone(Settled(d))
    BY SettledFacts
  <1>2. /\ dir' = d /\ d \in disk'
        /\ disk' \subseteq disk \cup between \cup {d, Settled(d)}
        /\ synced => disk' = {d, Settled(d)}
    BY DEF Write
  <1>3. \A x \in disk' : Lone(x)
    BY <1>1, <1>2 DEF DirsKept
  <1>5. db'.current \notin db'.spent
    BY DEF DirsKept
  <1>7. synced => Flushed'
    BY <1>2 DEF Flushed, Settled
  <1> QED BY <1>2, <1>3, <1>5, <1>7 DEF DirsKept, Lone

LEMMA FsyncKept ==
  ASSUME DirsSound, DirsKept, db' = db, NEW synced \in BOOLEAN, Fsync(synced)
  PROVE  /\ DirsKept' /\ dir' = dir
         /\ synced => Flushed'
  <1>1. dir \in Dirs /\ Lone(dir)
    BY DEF DirsSound, DirsKept
  <1>2. Write(dir, {}, synced)
    BY DEF Fsync
  <1> QED BY <1>1, <1>2, WriteKept

(* A removal takes the set that is alone under its name.                   *)
LEMMA RemoveKept ==
  ASSUME DirsSound, DirsKept, db' = db, NEW slot \in Slots, NEW e \in Entities,
         NEW s \in dir[slot][e], NEW left \in Remains(s), NEW synced \in BOOLEAN,
         RemoveTree(slot, e, s, left, synced)
  PROVE  /\ DirsKept'
         /\ dir'[slot][e] = left
         /\ \A t \in Slots, f \in Entities :
              t # slot \/ f # e => dir'[t][f] = dir[t][f]
         /\ slot # "final" => \A f \in Entities \ {e} : dir'[slot][f] = {}
         /\ synced => Flushed'
  <1>1. dir \in Dirs /\ Lone(dir)
    BY DEF DirsSound, DirsKept
  <1>2. /\ s \in Sets /\ dir[slot][e] = {s}
        /\ slot # "final" => \A f \in Entities \ {e} : dir[slot][f] = {}
    BY <1>1, Alone
  <1>3. /\ left \in SUBSET Sets /\ {Torn(s)} \in SUBSET Sets
        /\ \A x, y \in left : x = y
    BY <1>2, TornType DEF Remains
  <1>4. ASSUME NEW x \in SUBSET Sets, \A y, z \in x : y = z
        PROVE  /\ Put(dir, slot, e, s, x) \in Dirs /\ Lone(Put(dir, slot, e, s, x))
               /\ Put(dir, slot, e, s, x)[slot][e] = x
               /\ \A t \in Slots, f \in Entities :
                    t # slot \/ f # e => Put(dir, slot, e, s, x)[t][f] = dir[t][f]
    <2>1. Lone(Put(dir, slot, e, s, x))
      BY <1>1, <1>2, <1>4, PutLone
    <2>2. (dir[slot][e] \ {s}) \cup x = x
      BY <1>2
    <2>3. PICK p : p = Put(dir, slot, e, s, x)
      OBVIOUS
    <2>4. /\ p \in Dirs
          /\ \A t \in Slots, f \in Entities :
               /\ t = slot /\ f = e => p[t][f] = (dir[slot][e] \ {s}) \cup x
               /\ t # slot \/ f # e => p[t][f] = dir[t][f]
      BY <1>1, <2>3, PutFacts
    <2> QED BY <2>1, <2>2, <2>3, <2>4
  <1> DEFINE d == Put(dir, slot, e, s, left)
             torn == Put(dir, slot, e, s, {Torn(s)})
             between == IF left = {s} THEN {} ELSE {torn}
  <1>5. /\ d \in Dirs /\ Lone(d) /\ d[slot][e] = left
        /\ \A t \in Slots, f \in Entities : t # slot \/ f # e => d[t][f] = dir[t][f]
    BY <1>3, <1>4
  <1>6. /\ torn \in Dirs /\ Lone(torn)
        /\ \A t \in Slots, f \in Entities : t # slot \/ f # e => torn[t][f] = dir[t][f]
    BY <1>3, <1>4
  <1>7. between \in SUBSET Dirs /\ \A x \in between : x = torn
    BY <1>6
  <1>8. Write(d, between, synced)
    BY DEF RemoveTree
  <1> HIDE DEF d, torn, between
  <1>10. \A x \in between : Lone(x)
    BY <1>6, <1>7
  <1>11. DirsKept' /\ dir' = d /\ (synced => Flushed')
    BY <1>5, <1>7, <1>8, <1>10, WriteKept
  <1> QED BY <1>2, <1>5, <1>11

LEMMA CandidateRemoved ==
  ASSUME Kept, db' = db, NEW e \in Entities, NEW s \in dir["candidate"][e],
         NEW left \in Remains(s), NEW synced \in BOOLEAN,
         RemoveTree("candidate", e, s, left, synced)
  PROVE  /\ DirsKept'
         /\ dir'["candidate"][e] = left
         /\ \A f \in Entities \ {e} : dir'["candidate"][f] = {}
         /\ \A f \in Entities : /\ dir'["final"][f] = dir["final"][f]
                              /\ dir'["rollback"][f] = dir["rollback"][f]
         /\ synced => Flushed'
  <1>1. DirsSound /\ DirsKept /\ "candidate" \in Slots
    BY KeptFacts DEF Slots
  <1>2. DirsKept'
    BY <1>1, RemoveKept
  <1>3. dir'["candidate"][e] = left
    BY <1>1, RemoveKept
  <1>4. \A f \in Entities \ {e} : dir'["candidate"][f] = {}
    BY <1>1, RemoveKept
  <1>5. \A t \in Slots, f \in Entities : t # "candidate" \/ f # e => dir'[t][f] = dir[t][f]
    BY <1>1, RemoveKept
  <1>6. ASSUME synced PROVE Flushed'
    BY <1>1, <1>6, RemoveKept
  <1> QED BY <1>2, <1>3, <1>4, <1>5, <1>6 DEF Slots

LEMMA RollbackRemoved ==
  ASSUME Kept, db' = db, NEW e \in Entities, NEW s \in dir["rollback"][e],
         NEW left \in Remains(s), NEW synced \in BOOLEAN,
         RemoveTree("rollback", e, s, left, synced)
  PROVE  /\ DirsKept'
         /\ dir'["rollback"][e] = left
         /\ \A f \in Entities \ {e} : dir'["rollback"][f] = {}
         /\ \A f \in Entities : /\ dir'["final"][f] = dir["final"][f]
                              /\ dir'["candidate"][f] = dir["candidate"][f]
         /\ synced => Flushed'
  <1>1. DirsSound /\ DirsKept /\ "rollback" \in Slots
    BY KeptFacts DEF Slots
  <1>2. DirsKept'
    BY <1>1, RemoveKept
  <1>3. dir'["rollback"][e] = left
    BY <1>1, RemoveKept
  <1>4. \A f \in Entities \ {e} : dir'["rollback"][f] = {}
    BY <1>1, RemoveKept
  <1>5. \A t \in Slots, f \in Entities : t # "rollback" \/ f # e => dir'[t][f] = dir[t][f]
    BY <1>1, RemoveKept
  <1>6. ASSUME synced PROVE Flushed'
    BY <1>1, <1>6, RemoveKept
  <1> QED BY <1>2, <1>3, <1>4, <1>5, <1>6 DEF Slots

-----------------------------------------------------------------------------
(* What is left to show where a step has taken the command.                *)

LEMMA AtIdle ==
  ASSUME w'.pc = "idle", LeftoversReported', DoneIsDurable'
  PROVE  CommandKept'
  BY DEF CommandKept, PreambleKept, ExportKept, CleanKept, ChangeKept, At, Building

LEMMA AtIdleUndone ==
  ASSUME w'.pc = "idle", w'.out # "ok", LeftoversReported'
  PROVE  CommandKept'
  BY AtIdle DEF DoneIsDurable

LEMMA AtIdleSilent ==
  ASSUME w'.pc = "idle", w'.out \in {"none", "interrupted"}
  PROVE  CommandKept'
  BY AtIdleUndone DEF LeftoversReported

LEMMA Reported ==
  ASSUME \A slot \in {"candidate", "rollback"}, e \in Entities :
           dir'[slot][e] # {} => <<slot, e>> \in w'.res \cup w'.told
  PROVE  LeftoversReported'
  <1>1. \A slot : \A x \in Siblings(dir', slot) : x[1] \in Entities /\ dir'[slot][x[1]] # {}
    BY DEF Siblings
  <1>2. \A slot \in {"candidate", "rollback"} : \A x \in Siblings(dir', slot) :
          <<slot, x[1]>> \in w'.res \cup w'.told
    BY <1>1
  <1> QED BY <1>2 DEF LeftoversReported, Siblings

(* Where the parent could not be listed, it is what is reported.           *)
LEMMA ReportedUnlisted ==
  ASSUME Unlisted(w.res \cup w.told)'
  PROVE  LeftoversReported'
  BY DEF LeftoversReported, Unlisted

LEMMA Midway ==
  ASSUME w'.pc # "idle", PreambleKept', ExportKept', CleanKept', ChangeKept'
  PROVE  CommandKept'
  BY DEF CommandKept, LeftoversReported, DoneIsDurable, At

LEMMA AtList ==
  ASSUME w'.pc = "list"
  PROVE  CommandKept'
  BY Midway DEF PreambleKept, ExportKept, CleanKept, ChangeKept, At, Building

LEMMA AtReclaim ==
  ASSUME w'.pc = "reclaim", (\A e \in Entities : Listed("candidate", e))'
  PROVE  CommandKept'
  BY Midway DEF PreambleKept, ExportKept, CleanKept, ChangeKept, At, Building

LEMMA AtRecover ==
  ASSUME w'.pc = "recover", (Told("candidate", w.res) \/ Unlisted(w.res))'
  PROVE  CommandKept'
  BY Midway DEF PreambleKept, ExportKept, CleanKept, ChangeKept, At, Building

LEMMA AtClean ==
  ASSUME w'.pc = "clean", w'.op = "export", CleanKept'
  PROVE  CommandKept'
  BY Midway DEF PreambleKept, ExportKept, CleanKept, ChangeKept, At, Building

-----------------------------------------------------------------------------
(* The preamble.                                                           *)

LEMMA SiblingsListed ==
  ASSUME NEW d \in Dirs, NEW slot \in Slots
  PROVE  \A e \in Entities : \A s \in d[slot][e] : <<e, s>> \in Siblings(d, slot)
  BY DEF Siblings

LEMMA BeginKept ==
  ASSUME Kept, NEW op \in {"export", "change"}, Begin(op)
  PROVE  DirsKept' /\ CommandKept'
  <1>1. DirsKept' /\ dir \in Dirs /\ dir' = dir
    BY KeptFacts, DirsKeptSame DEF Begin
  <1>2. w'.pc = "list"
    BY DEF Begin, NoCommand
  <1> QED BY <1>1, <1>2, AtList

LEMMA ListParentKept ==
  ASSUME Kept, ListParent
  PROVE  DirsKept' /\ CommandKept'
  <1>1. DirsKept' /\ dir \in Dirs /\ dir' = dir /\ w \in Commands
    BY KeptFacts, DirsKeptSame DEF ListParent
  <1>2. w'.pc = "reclaim" /\ w'.todo = Siblings(dir, "candidate")
    BY <1>1 DEF ListParent, Commands
  <1>3. \A e \in Entities : \A s \in dir'["candidate"][e] : <<e, s>> \in w'.todo
    BY <1>1, <1>2, SiblingsListed DEF Slots
  <1> QED BY <1>1, <1>2, <1>3, AtReclaim DEF Listed

LEMMA ListingFailsKept ==
  ASSUME Kept, ListingFails
  PROVE  DirsKept' /\ CommandKept'
  <1>1. DirsKept' /\ w \in Commands
    BY KeptFacts, DirsKeptSame DEF ListingFails
  <1>2. w'.pc = "recover" /\ Parent \in w'.res \cap w'.unread
    BY <1>1 DEF ListingFails, Commands
  <1> QED BY <1>1, <1>2, AtRecover DEF Unlisted

LEMMA ReclaimCandidateKept ==
  ASSUME Kept, NEW e \in Entities, NEW s \in dir["candidate"][e], ReclaimCandidate(e, s)
  PROVE  DirsKept' /\ CommandKept'
  <1>1. PICK left \in Remains(s) :
          /\ RemoveTree("candidate", e, s, left, FALSE)
          /\ w' = [w EXCEPT !.todo = @ \ {<<e, s>>},
                            !.res = @ \cup Residual(left # {}, <<"candidate", e>>)]
    BY DEF ReclaimCandidate
  <1>2. db' = db /\ w.pc = "reclaim" /\ w \in Commands
    BY KeptFacts DEF ReclaimCandidate, At, CommandKept, PreambleKept
  <1>3. /\ DirsKept' /\ dir'["candidate"][e] = left
        /\ \A f \in Entities \ {e} : dir'["candidate"][f] = {}
    BY <1>1, <1>2, CandidateRemoved
  <1>4. /\ w'.pc = "reclaim"
        /\ left # {} => <<"candidate", e>> \in w'.res
    BY <1>1, <1>2 DEF Commands, Residual
  <1>5. \A f \in Entities : \A x \in dir'["candidate"][f] : <<"candidate", f>> \in w'.res
    BY <1>3, <1>4
  <1> QED BY <1>3, <1>4, <1>5, AtReclaim DEF Listed

LEMMA ReclaimDoneKept ==
  ASSUME Kept, ReclaimDone
  PROVE  DirsKept' /\ CommandKept'
  <1>1. /\ DirsKept' /\ dir' = dir /\ w.todo = {} /\ w \in Commands
        /\ \A e \in Entities : Listed("candidate", e)
    BY KeptFacts, DirsKeptSame DEF ReclaimDone, At, CommandKept, PreambleKept
  <1>2. w'.pc = "recover" /\ w'.res = w.res
    BY <1>1 DEF ReclaimDone, Commands
  <1>3. \A e \in Entities : dir'["candidate"][e] # {} => <<"candidate", e>> \in w'.res
    BY <1>1, <1>2 DEF Listed
  <1> QED BY <1>1, <1>2, <1>3, AtRecover DEF Told

LEMMA RecoverKept ==
  ASSUME Kept, NEW e, NEW s, Recovering(e, s), NEW more \in SUBSET Paths,
         w' = [w EXCEPT !.todo = @ \ {<<e, s>>}, !.res = @ \cup more],
         \A f \in Entities : dir'["candidate"][f] = dir["candidate"][f]
  PROVE  CommandKept'
  <1>1. /\ w.pc = "recover" /\ w \in Commands
        /\ Told("candidate", w.res) \/ Unlisted(w.res)
    BY KeptFacts DEF Recovering, At, CommandKept, PreambleKept
  <1>2. w'.pc = "recover" /\ w'.res = w.res \cup more /\ w'.unread = w.unread
    BY <1>1 DEF Commands
  <1>3. \/ \A f \in Entities : dir'["candidate"][f] # {} => <<"candidate", f>> \in w'.res
        \/ Parent \in w'.res \cap w'.unread
    BY <1>1, <1>2 DEF Told, Unlisted
  <1> QED BY <1>2, <1>3, AtRecover DEF Told, Unlisted

LEMMA MoveKept ==
  ASSUME Kept, db' = db, NEW from \in Slots, NEW to \in Slots \ {"candidate"},
         from # to, NEW e \in Entities, NEW s \in dir[from][e], dir[to][e] = {},
         to # "final" => \A f \in Entities : dir[to][f] = {},
         NEW synced \in BOOLEAN, Write(Moved(dir, from, to, e, s), {}, synced)
  PROVE  /\ DirsKept'
         /\ dir'[from][e] = {} /\ dir'[to][e] = {s}
         /\ from # "final" => \A f \in Entities : dir'[from][f] = {}
         /\ \A t \in Slots, f \in Entities :
              t \notin {from, to} \/ f # e => dir'[t][f] = dir[t][f]
  <1>1. /\ DirsSound /\ DirsKept /\ dir \in Dirs /\ Lone(dir) /\ Sound(dir)
        /\ to \in Slots
    BY KeptFacts DEF Slots
  <1>2. /\ dir[from][e] = {s} /\ s \in Sets
        /\ from # "final" => \A f \in Entities \ {e} : dir[from][f] = {}
    BY <1>1, Alone
  <1>3. PICK p : p = Moved(dir, from, to, e, s)
    OBVIOUS
  <1>4. /\ p[from][e] = {} /\ p[to][e] = {s}
        /\ \A t \in Slots, f \in Entities :
             t \notin {from, to} \/ f # e => p[t][f] = dir[t][f]
    <2>1. \A t \in Slots, f \in Entities :
           /\ t = from /\ f = e => p[t][f] = dir[from][e] \ {s}
           /\ t = to /\ f = e => p[t][f] = dir[to][e] \cup {s}
           /\ t \notin {from, to} \/ f # e => p[t][f] = dir[t][f]
      BY <1>1, <1>3, MovedFacts
    <2> QED BY <1>1, <1>2, <2>1
  <1>5. Lone(p)
    BY <1>1, <1>3, MovedLone
  <1>6. p \in Dirs
    <2>1. Put(dir, from, e, s, {}) \in Dirs
      BY <1>1, PutFacts
    <2> QED BY <1>1, <1>2, <1>3, <2>1, PutFacts DEF Moved
  <1>8. Write(p, {}, synced)
    BY <1>3
  <1>9. DirsKept' /\ dir' = p
    BY <1>1, <1>5, <1>6, <1>8, WriteKept
  <1> QED BY <1>2, <1>4, <1>9

LEMMA RestoreRollbackKept ==
  ASSUME Kept, NEW e \in Entities, NEW s \in dir["rollback"][e], RestoreRollback(e, s)
  PROVE  DirsKept' /\ CommandKept'
  <1>1. PICK renamed \in BOOLEAN, synced \in BOOLEAN :
          /\ Write(IF renamed THEN Moved(dir, "rollback", "final", e, s) ELSE dir,
                   {}, synced)
          /\ w' = [w EXCEPT !.todo = @ \ {<<e, s>>},
                            !.res = @ \cup Residual(~renamed, <<"rollback", e>>)
                                      \cup Residual(renamed /\ ~synced, <<"final", e>>)]
    BY DEF RestoreRollback
  <1> DEFINE more == Residual(~renamed, <<"rollback", e>>)
                       \cup Residual(renamed /\ ~synced, <<"final", e>>)
  <1>2. /\ db' = db /\ w \in Commands /\ Recovering(e, s) /\ dir["final"][e] = {}
        /\ DirsSound /\ DirsKept
    BY KeptFacts DEF RestoreRollback, Restorable, FinalAbsent
  <1>3. more \in SUBSET Paths
    BY ResidualType, PathTypes DEF Slots
  <1>4. w' = [w EXCEPT !.todo = @ \ {<<e, s>>}, !.res = @ \cup more]
    BY <1>1, <1>2 DEF Commands
  <1> HIDE DEF more
  <1>5. CASE renamed
    <2>1. Write(Moved(dir, "rollback", "final", e, s), {}, synced)
      BY <1>1, <1>5
    <2>2. DirsKept' /\ \A f \in Entities : dir'["candidate"][f] = dir["candidate"][f]
      BY <1>2, <2>1, MoveKept DEF Slots
    <2> QED BY <1>2, <1>3, <1>4, <2>2, RecoverKept
  <1>6. CASE ~ renamed
    <2>1. Fsync(synced)
      BY <1>1, <1>6 DEF Fsync
    <2>2. DirsKept' /\ dir' = dir
      BY <1>2, <2>1, FsyncKept
    <2> QED BY <1>2, <1>3, <1>4, <2>2, RecoverKept
  <1> QED BY <1>5, <1>6

LEMMA DropRollbackKept ==
  ASSUME Kept, NEW e \in Entities, NEW s \in dir["rollback"][e], DropRollback(e, s)
  PROVE  DirsKept' /\ CommandKept'
  <1>1. PICK left \in Remains(s), synced \in BOOLEAN :
          /\ synced => left = {}
          /\ RemoveTree("rollback", e, s, left, synced)
          /\ w' = [w EXCEPT !.todo = @ \ {<<e, s>>},
                            !.res = @ \cup Residual(left # {}, <<"rollback", e>>)
                                      \cup Residual(left = {} /\ ~synced, Parent)]
    BY DEF DropRollback
  <1> DEFINE more == Residual(left # {}, <<"rollback", e>>)
                       \cup Residual(left = {} /\ ~synced, Parent)
  <1>2. /\ db' = db /\ w \in Commands /\ Recovering(e, s) /\ ~ FinalAbsent(dir, e)
    BY KeptFacts DEF DropRollback, FinalValid, FinalAbsent
  <1>3. more \in SUBSET Paths
    BY ResidualType, PathTypes DEF Slots
  <1>4. w' = [w EXCEPT !.todo = @ \ {<<e, s>>}, !.res = @ \cup more]
    BY <1>1, <1>2 DEF Commands
  <1>5. RemoveTree("rollback", e, s, left, synced)
    BY <1>1
  <1> HIDE DEF more
  <1>6. DirsKept' /\ \A f \in Entities : dir'["candidate"][f] = dir["candidate"][f]
    BY <1>2, <1>5, RollbackRemoved
  <1> QED BY <1>2, <1>3, <1>4, <1>6, RecoverKept

LEMMA LeaveRollbackKept ==
  ASSUME Kept, NEW e \in Entities, NEW s \in dir["rollback"][e], LeaveRollback(e, s)
  PROVE  DirsKept' /\ CommandKept'
  <1>1. PICK final \in BOOLEAN :
          w' = [w EXCEPT !.todo = @ \ {<<e, s>>},
                         !.res = @ \cup {<<"rollback", e>>}
                                   \cup Residual(final, <<"final", e>>)]
    BY DEF LeaveRollback
  <1> DEFINE more == {<<"rollback", e>>} \cup Residual(final, <<"final", e>>)
  <1>2. /\ DirsKept' /\ dir' = dir /\ w \in Commands /\ Recovering(e, s)
    BY KeptFacts, DirsKeptSame DEF LeaveRollback
  <1>3. more \in SUBSET Paths
    BY ResidualType, PathTypes DEF Slots
  <1>4. w' = [w EXCEPT !.todo = @ \ {<<e, s>>}, !.res = @ \cup more]
    BY <1>1, <1>2 DEF Commands
  <1> HIDE DEF more
  <1> QED BY <1>2, <1>3, <1>4, RecoverKept

LEMMA RecoverRaisesKept ==
  ASSUME Kept, RecoverRaises
  PROVE  DirsKept' /\ CommandKept'
  <1>1. DirsKept' /\ w \in Commands
    BY KeptFacts, DirsKeptSame DEF RecoverRaises
  <1>2. w'.pc = "idle" /\ w'.out = "raised"
    BY <1>1 DEF RecoverRaises, Commands
  <1> QED BY <1>1, <1>2, AtIdleUndone DEF LeftoversReported

LEMMA RecoverDoneKept ==
  ASSUME Kept, RecoverDone
  PROVE  DirsKept' /\ CommandKept'
  <1>1. /\ DirsKept' /\ dir' = dir /\ dir \in Dirs /\ w \in Commands /\ w.pc = "recover"
        /\ w.todo = {} /\ (Told("candidate", w.res) \/ Unlisted(w.res))
    BY KeptFacts, DirsKeptSame DEF RecoverDone, At, CommandKept, PreambleKept
  <1>2. Told("rollback", w.res) \/ Unlisted(w.res)
    BY <1>1, KeptFacts DEF CommandSound, At, Told, Unlisted
  <1>3. CASE w.op = "change"
    <2>1. /\ w'.pc = "commit" /\ w'.told = w.res /\ w'.op = "change"
          /\ w'.unread = w.unread
      BY <1>1, <1>3 DEF RecoverDone, Commands
    <2>2. PreambleKept' /\ ExportKept' /\ CleanKept'
      BY <2>1 DEF PreambleKept, ExportKept, CleanKept, At, Building
    <2>3. (\/ Told("candidate", w.told) /\ Told("rollback", w.told)
           \/ Unlisted(w.told))'
      BY <1>1, <1>2, <2>1 DEF Told, Unlisted
    <2>4. ChangeKept'
      BY <2>1, <2>3 DEF ChangeKept, At
    <2> QED BY <1>1, <2>1, <2>2, <2>4, Midway
  <1>4. CASE w.op = "export" /\ w.pass = 1
    <2>1. w' = [w EXCEPT !.pc = "list", !.pass = 2, !.told = w.res, !.res = {}]
      BY <1>4 DEF RecoverDone
    <2>2. w'.pc = "list"
      BY <1>1, <2>1 DEF Commands
    <2> QED BY <1>1, <2>2, AtList
  <1>5. CASE w.op = "export" /\ w.pass = 2 /\ w.res = {}
    <2>1. w'.pc = "select" /\ w'.op = "export"
      BY <1>1, <1>5 DEF RecoverDone, Commands
    <2>2. \A e \in Entities : dir'["candidate"][e] = {}
      BY <1>1, <1>5 DEF Told, Unlisted
    <2>3. PreambleKept' /\ CleanKept' /\ ChangeKept'
      BY <2>1 DEF PreambleKept, CleanKept, ChangeKept, At
    <2>4. ExportKept'
      BY <2>1, <2>2 DEF ExportKept, At, Building, NoSibling
    <2> QED BY <1>1, <2>1, <2>3, <2>4, Midway
  <1>6. CASE w.op = "export" /\ w.pass = 2 /\ w.res # {}
    <2>1. w'.pc = "idle" /\ w'.out = "incomplete" /\ w'.res = w.res /\ w'.unread = w.unread
      BY <1>1, <1>6 DEF RecoverDone, Commands
    <2>2. CASE Unlisted(w.res)
      <3>1. Unlisted(w.res \cup w.told)'
        BY <2>1, <2>2 DEF Unlisted
      <3> QED BY <1>1, <2>1, <3>1, ReportedUnlisted, AtIdleUndone
    <2>3. CASE Told("candidate", w.res) /\ Told("rollback", w.res)
      <3>1. \A slot \in {"candidate", "rollback"}, e \in Entities :
              dir'[slot][e] # {} => <<slot, e>> \in w'.res \cup w'.told
        BY <1>1, <2>1, <2>3 DEF Told
      <3> QED BY <1>1, <2>1, <3>1, Reported, AtIdleUndone
    <2> QED BY <1>1, <1>2, <2>2, <2>3
  <1>7. w.op \in {"export", "change"} /\ w.pass \in {1, 2}
    BY <1>1 DEF Commands
  <1> QED BY <1>3, <1>4, <1>5, <1>6, <1>7

-----------------------------------------------------------------------------
(* The export, up to the complete candidate.                               *)

LEMMA FinishFacts ==
  ASSUME w \in Commands, NEW out, NEW more, Finish(out, more)
  PROVE  /\ w'.pc = "idle" /\ w'.out = out /\ w'.res = w.res \cup more
         /\ w'.told = w.told /\ w'.op = w.op /\ w'.gone = w.gone
         /\ w'.unread = w.unread /\ w'.tried = w.tried
  BY DEF Finish, Commands

(* Where neither a candidate nor a rollback is there, none is unreported.  *)
LEMMA NothingLeft ==
  ASSUME \A e \in Entities : dir'["candidate"][e] = {} /\ dir'["rollback"][e] = {}
  PROVE  LeftoversReported'
  BY Reported

LEMMA SelectKept ==
  ASSUME Kept, Select
  PROVE  DirsKept' /\ CommandKept'
  <1>1. /\ DirsKept' /\ dir' = dir /\ db' = db /\ dir \in Dirs /\ w \in Commands
        /\ w.pc = "select" /\ w.op = "export" /\ NoSibling("candidate")
    BY KeptFacts, DirsKeptSame DEF Select, At, CommandKept, ExportKept
  <1>2. \A e \in Entities : dir["rollback"][e] = {}
    BY <1>1, KeptFacts DEF CommandSound
  <1>3. CASE db.current \in Entities /\ db.eligible
    <2>1. w' = [w EXCEPT !.pc = "sweep", !.ent = db.current,
                         !.todo = {x \in Siblings(dir, "final") :
                                     /\ x[1] # db.current
                                     /\ FinalValid(dir, x[1])}]
      BY <1>3 DEF Select
    <2>2. /\ w'.pc = "sweep" /\ w'.op = "export"
          /\ w'.todo = {x \in Siblings(dir, "final") :
                          x[1] # db.current /\ FinalValid(dir, x[1])}
      BY <1>1, <2>1 DEF Commands
    <2>3. ASSUME NEW e \in Entities \ {db.current}, FinalValid(dir, e),
                 NEW s \in dir["final"][e]
          PROVE  <<e, s>> \in w'.todo
      <3>1. <<e, s>> \in Siblings(dir, "final") /\ <<e, s>>[1] = e
        BY <1>1, SiblingsListed DEF Slots
      <3> QED BY <2>2, <2>3, <3>1
    <2>4. ExportKept'
      BY <1>1, <2>2, <2>3 DEF ExportKept, At, Building, NoSibling, FinalValid, Listed
    <2>5. PreambleKept' /\ CleanKept' /\ ChangeKept'
      BY <2>2 DEF PreambleKept, CleanKept, ChangeKept, At
    <2> QED BY <1>1, <2>2, <2>4, <2>5, Midway
  <1>4. CASE ~ (db.current \in Entities /\ db.eligible)
    <2>1. Finish("refused", {})
      BY <1>4 DEF Select
    <2>2. w'.pc = "idle" /\ w'.out = "refused"
      BY <1>1, <2>1, FinishFacts
    <2>3. LeftoversReported'
      BY <1>1, <1>2, NothingLeft DEF NoSibling
    <2> QED BY <1>1, <2>2, <2>3, AtIdleUndone
  <1> QED BY <1>3, <1>4

LEMMA FinalRemoved ==
  ASSUME Kept, db' = db, NEW e \in Entities,
         NEW s \in dir["final"][e], NEW left \in Remains(s), NEW synced \in BOOLEAN,
         RemoveTree("final", e, s, left, synced)
  PROVE  /\ DirsKept'
         /\ dir'["final"][e] = left
         /\ \A f \in Entities \ {e} : dir'["final"][f] = dir["final"][f]
         /\ \A f \in Entities : /\ dir'["candidate"][f] = dir["candidate"][f]
                                /\ dir'["rollback"][f] = dir["rollback"][f]
  <1>1. DirsSound /\ DirsKept /\ "final" \in Slots
    BY KeptFacts DEF Slots
  <1>2. DirsKept'
    BY <1>1, RemoveKept
  <1>3. dir'["final"][e] = left
    BY <1>1, RemoveKept
  <1>4. \A t \in Slots, f \in Entities : t # "final" \/ f # e => dir'[t][f] = dir[t][f]
    BY <1>1, RemoveKept
  <1> QED BY <1>2, <1>3, <1>4 DEF Slots

(* One final set is dealt with, and the others stay on the list.           *)
LEMMA ListedStep ==
  ASSUME w \in Commands, NEW e \in Entities, NEW s \in dir["final"][e],
         NEW left, dir'["final"][e] = left,
         \A f \in Entities \ {e} : dir'["final"][f] = dir["final"][f],
         w'.todo = w.todo \ {<<e, s>>},
         w'.res = w.res \cup Residual(left # {}, <<"final", e>>),
         NEW f \in Entities, f # e => Listed("final", f)
  PROVE  Listed("final", f)'
  <1>1. CASE f = e
    <2>1. \A x \in dir'["final"][f] : <<"final", f>> \in w'.res
      BY <1>1 DEF Residual
    <2> QED BY <2>1 DEF Listed
  <1>2. CASE f # e
    <2>1. \A x \in dir["final"][f] : <<f, x>> \in w.todo \/ <<"final", f>> \in w.res
      BY <1>2 DEF Listed
    <2>2. \A x \in dir'["final"][f] : <<f, x>> \in w'.todo \/ <<"final", f>> \in w'.res
      BY <1>2, <2>1
    <2> QED BY <2>2 DEF Listed
  <1> QED BY <1>1, <1>2

LEMMA SweepStaleKept ==
  ASSUME Kept, NEW e \in Entities, NEW s \in dir["final"][e], SweepStale(e, s)
  PROVE  DirsKept' /\ CommandKept'
  <1>1. PICK left \in Remains(s) :
          /\ RemoveTree("final", e, s, left, FALSE)
          /\ w' = [w EXCEPT !.todo = @ \ {<<e, s>>},
                            !.res = @ \cup Residual(left # {}, <<"final", e>>)]
    BY DEF SweepStale
  <1>2. /\ db' = db /\ w.pc = "sweep" /\ w \in Commands /\ w.op = "export"
        /\ <<e, s>> \in w.todo /\ NoSibling("candidate")
        /\ \A f \in Entities \ {db.current} :
             FinalValid(dir, f) => Listed("final", f) \/ <<"final", f>> \in w.unread
    BY KeptFacts DEF SweepStale, At, CommandKept, ExportKept
  <1>4. RemoveTree("final", e, s, left, FALSE)
    BY <1>1
  <1>5. /\ DirsKept' /\ dir'["final"][e] = left
        /\ \A f \in Entities \ {e} : dir'["final"][f] = dir["final"][f]
        /\ \A f \in Entities : dir'["candidate"][f] = dir["candidate"][f]
    BY <1>2, <1>4, FinalRemoved
  <1>6. /\ w'.pc = "sweep" /\ w'.op = "export" /\ w'.todo = w.todo \ {<<e, s>>}
        /\ w'.res = w.res \cup Residual(left # {}, <<"final", e>>)
        /\ w'.unread = w.unread
    BY <1>1, <1>2 DEF Commands
  <1>7. ASSUME NEW f \in Entities \ {db'.current}, FinalValid(dir, f)'
        PROVE  Listed("final", f)' \/ <<"final", f>> \in w'.unread
    <2>1. f # e => FinalValid(dir, f)
      BY <1>5, <1>7 DEF FinalValid
    <2>2. CASE f = e \/ Listed("final", f)
      BY <1>2, <1>5, <1>6, <2>2, ListedStep
    <2>3. CASE f # e /\ <<"final", f>> \in w.unread
      BY <1>6, <2>3
    <2>4. db' = db
      BY <1>2
    <2> QED BY <1>2, <1>7, <2>1, <2>2, <2>3, <2>4
  <1>8. NoSibling("candidate")'
    BY <1>2, <1>5 DEF NoSibling
  <1>9. PreambleKept' /\ CleanKept' /\ ChangeKept'
    BY <1>6 DEF PreambleKept, CleanKept, ChangeKept, At
  <1>10. ExportKept'
    BY <1>6, <1>7, <1>8 DEF ExportKept, At, Building
  <1> QED BY <1>5, <1>6, <1>9, <1>10, Midway

(* A set that could not be read is struck off the list, and remembered.    *)
LEMMA SweepUnreadKept ==
  ASSUME Kept, NEW e \in Entities, NEW s \in dir["final"][e], SweepUnread(e, s)
  PROVE  DirsKept' /\ CommandKept'
  <1>1. /\ DirsKept' /\ dir' = dir /\ db' = db /\ w.pc = "sweep" /\ w \in Commands
        /\ w.op = "export" /\ NoSibling("candidate") /\ dir \in Dirs /\ Lone(dir)
        /\ \A f \in Entities \ {db.current} :
             FinalValid(dir, f) => Listed("final", f) \/ <<"final", f>> \in w.unread
    BY KeptFacts, DirsKeptSame DEF SweepUnread, At, CommandKept, ExportKept
  <1>2. w' = [w EXCEPT !.todo = @ \ {<<e, s>>}, !.unread = @ \cup {<<"final", e>>}]
    BY DEF SweepUnread
  <1>3. /\ w'.pc = "sweep" /\ w'.op = "export" /\ w'.todo = w.todo \ {<<e, s>>}
        /\ w'.res = w.res /\ w'.unread = w.unread \cup {<<"final", e>>}
    BY <1>1, <1>2 DEF Commands
  <1>4. ASSUME NEW f \in Entities \ {db'.current}, FinalValid(dir, f)'
        PROVE  Listed("final", f)' \/ <<"final", f>> \in w'.unread
    <2>1. CASE f = e
      BY <1>3, <2>1
    <2>2. CASE f # e
      <3>1. FinalValid(dir, f) /\ f \in Entities \ {db.current}
        BY <1>1, <1>4 DEF FinalValid
      <3>2. CASE Listed("final", f)
        <4>1. \A x \in dir["final"][f] : <<f, x>> \in w.todo \/ <<"final", f>> \in w.res
          BY <3>2 DEF Listed
        <4>2. \A x \in dir'["final"][f] :
                <<f, x>> \in w'.todo \/ <<"final", f>> \in w'.res
          BY <1>1, <1>3, <2>2, <4>1
        <4> QED BY <4>2 DEF Listed
      <3> QED BY <1>1, <1>3, <3>1, <3>2
    <2> QED BY <2>1, <2>2
  <1>5. NoSibling("candidate")'
    BY <1>1 DEF NoSibling
  <1>6. PreambleKept' /\ CleanKept' /\ ChangeKept'
    BY <1>3 DEF PreambleKept, CleanKept, ChangeKept, At
  <1>7. ExportKept'
    BY <1>3, <1>4, <1>5 DEF ExportKept, At, Building
  <1> QED BY <1>1, <1>3, <1>6, <1>7, Midway

LEMMA SweepRaisesKept ==
  ASSUME Kept, SweepRaises
  PROVE  DirsKept' /\ CommandKept'
  <1>1. /\ DirsKept' /\ dir' = dir /\ w.pc = "sweep" /\ w \in Commands
        /\ NoSibling("candidate")
    BY KeptFacts, DirsKeptSame DEF SweepRaises, At, CommandKept, ExportKept
  <1>2. NoRollback
    BY <1>1, KeptFacts, ExportFacts
  <1>3. w'.pc = "idle" /\ w'.out = "failed"
    BY <1>1 DEF SweepRaises, Commands
  <1>4. LeftoversReported'
    BY <1>1, <1>2, NothingLeft DEF NoSibling, NoRollback
  <1> QED BY <1>1, <1>3, <1>4, AtIdleUndone

LEMMA SweepDoneKept ==
  ASSUME Kept, SweepDone
  PROVE  DirsKept' /\ CommandKept'
  <1>1. PICK synced \in BOOLEAN :
          /\ synced => w.res = {}
          /\ Fsync(synced)
          /\ IF synced THEN w' = [w EXCEPT !.pc = "build"]
                       ELSE Finish("incomplete", Residual(w.res = {}, Parent))
    BY DEF SweepDone
  <1>2. /\ db' = db /\ w.pc = "sweep" /\ w \in Commands /\ w.op = "export"
        /\ w.todo = {} /\ NoSibling("candidate") /\ DirsSound /\ DirsKept
        /\ \A f \in Entities \ {db.current} :
             FinalValid(dir, f) => Listed("final", f) \/ <<"final", f>> \in w.unread
    BY KeptFacts DEF SweepDone, At, CommandKept, ExportKept
  <1>3. DirsKept' /\ dir' = dir /\ Fsync(synced)
    BY <1>1, <1>2, FsyncKept
  <1>4. CASE synced
    <2>1. w'.pc = "build" /\ w'.op = "export" /\ w'.unread = w.unread
      BY <1>1, <1>2, <1>4 DEF Commands
    <2>2. ASSUME NEW f \in Entities \ {db.current} PROVE FinalValid(dir, f) => <<"final", f>> \in w.unread
      BY <1>1, <1>2, <1>4 DEF Listed, FinalValid
    <2>3. OthersGone' /\ NoSibling("candidate")'
      BY <1>2, <1>3, <2>1, <2>2 DEF OthersGone, FinalValid, NoSibling
    <2>4. PreambleKept' /\ CleanKept' /\ ChangeKept'
      BY <2>1 DEF PreambleKept, CleanKept, ChangeKept, At
    <2>5. ExportKept'
      BY <2>1, <2>3 DEF ExportKept, At, Building
    <2> QED BY <1>3, <2>1, <2>4, <2>5, Midway
  <1>5. CASE ~ synced
    <2>1. w'.pc = "idle" /\ w'.out = "incomplete"
      BY <1>1, <1>2, <1>5, FinishFacts
    <2>2. NoRollback
      BY <1>2, KeptFacts, ExportFacts
    <2>3. LeftoversReported'
      BY <1>2, <1>3, <2>2, NothingLeft DEF NoSibling, NoRollback
    <2> QED BY <1>3, <2>1, <2>3, AtIdleUndone
  <1> QED BY <1>4, <1>5

(* A candidate is made, or becomes another set.                            *)
LEMMA CandidatePut ==
  ASSUME Kept, db' = db, w.ent \in Entities, NEW s, NEW left \in Sets,
         dir["candidate"][w.ent] \subseteq {s},
         \A f \in Entities \ {w.ent} : dir["candidate"][f] = {},
         NEW synced \in BOOLEAN,
         Write(Put(dir, "candidate", w.ent, s, {left}), {}, synced)
  PROVE  /\ DirsKept'
         /\ dir'["candidate"][w.ent] = {left}
         /\ \A f \in Entities \ {w.ent} : dir'["candidate"][f] = {}
         /\ \A f \in Entities : /\ dir'["final"][f] = dir["final"][f]
                                /\ dir'["rollback"][f] = dir["rollback"][f]
  <1>1. /\ DirsSound /\ DirsKept /\ dir \in Dirs /\ Lone(dir)
        /\ "candidate" \in Slots /\ {left} \in SUBSET Sets
    BY KeptFacts DEF Slots
  <1>2. PICK p : p = Put(dir, "candidate", w.ent, s, {left})
    OBVIOUS
  <1>3. /\ p \in Dirs
        /\ \A t \in Slots, f \in Entities :
             /\ t = "candidate" /\ f = w.ent =>
                  p[t][f] = (dir["candidate"][w.ent] \ {s}) \cup {left}
             /\ t # "candidate" \/ f # w.ent => p[t][f] = dir[t][f]
    BY <1>1, <1>2, PutFacts
  <1>4. /\ p["candidate"][w.ent] = {left}
        /\ \A f \in Entities \ {w.ent} : p["candidate"][f] = {}
        /\ \A f \in Entities : /\ p["final"][f] = dir["final"][f]
                               /\ p["rollback"][f] = dir["rollback"][f]
    BY <1>3 DEF Slots
  <1>5. Lone(p)
    BY <1>1, <1>2, PutLone
  <1>7. Write(p, {}, synced)
    BY <1>2
  <1>8. DirsKept' /\ dir' = p
    BY <1>1, <1>3, <1>5, <1>7, WriteKept
  <1> QED BY <1>4, <1>8

LEMMA BuildingKept ==
  ASSUME w'.pc \in {"fill", "flush", "place"}, w'.op = "export", OthersGone', OnlyOwn',
         Faithful'
  PROVE  CommandKept'
  BY Midway DEF PreambleKept, ExportKept, CleanKept, ChangeKept, At, Building

(* What every step of an export knows from the sweep to the swap.          *)
LEMMA BuildingFacts ==
  ASSUME Kept, w.pc \in Building
  PROVE  /\ w.ent \in Entities /\ w.ent = db.current /\ w \in Commands
         /\ db \in Databases /\ w.op = "export" /\ OthersGone
         /\ w.pc = "build" => NoSibling("candidate")
         /\ w.pc # "build" => OnlyOwn /\ Faithful
         /\ w.pc # "swap" => NoRollback
         /\ w.pc = "swap" => FinalAbsent(dir, w.ent) /\ RollbackOwn
  BY KeptFacts, ExportFacts DEF CommandKept, ExportKept, At, Building

LEMMA MakeCandidateKept ==
  ASSUME Kept, NEW i \in Inodes, MakeCandidate(i)
  PROVE  DirsKept' /\ CommandKept'
  <1> DEFINE c == Candidate(i, "partial")
  <1>1. w.pc = "build" /\ db' = db
    BY DEF MakeCandidate, At
  <1>2. /\ w.ent \in Entities /\ w \in Commands /\ w.op = "export" /\ OthersGone
        /\ NoSibling("candidate") /\ db \in Databases
    BY <1>1, BuildingFacts DEF Building
  <1>3. c \in Sets /\ c.render = db.render
    BY <1>2, CandidateType DEF Stages, Candidate
  <1>4. /\ Write(Put(dir, "candidate", w.ent, c, {c}), {}, FALSE)
        /\ w' = [w EXCEPT !.pc = "fill", !.own = {c}]
    BY DEF MakeCandidate
  <1> HIDE DEF c
  <1>5. /\ DirsKept' /\ dir'["candidate"][w.ent] = {c}
        /\ \A f \in Entities \ {w.ent} : dir'["candidate"][f] = {}
        /\ \A f \in Entities : dir'["final"][f] = dir["final"][f]
    BY <1>1, <1>2, <1>3, <1>4, CandidatePut DEF NoSibling
  <1>6. w'.pc = "fill" /\ w'.own = {c} /\ w'.op = "export" /\ w'.ent = w.ent
        /\ w'.unread = w.unread
    BY <1>2, <1>4 DEF Commands
  <1>7. OthersGone' /\ OnlyOwn' /\ Faithful'
    BY <1>1, <1>2, <1>3, <1>5, <1>6 DEF OthersGone, FinalValid, OnlyOwn, Own, Faithful
  <1> QED BY <1>5, <1>6, <1>7, BuildingKept

LEMMA GrowCandidate ==
  ASSUME Kept, db' = db, w.pc \in {"fill", "flush"}, NEW s \in OwnCandidates,
         NEW left \in Sets, left.render = s.render, NEW synced \in BOOLEAN,
         Write(Put(dir, "candidate", w.ent, s, {left}), {}, synced),
         w' = [w EXCEPT !.pc = IF w.pc = "fill" THEN "flush" ELSE "place", !.own = {left}]
  PROVE  DirsKept' /\ CommandKept'
  <1>1. /\ w.ent \in Entities /\ w \in Commands /\ w.op = "export" /\ OthersGone
        /\ OnlyOwn /\ Faithful /\ dir \in Dirs /\ Lone(dir)
    BY BuildingFacts, KeptFacts DEF Building
  <1>2. s \in dir["candidate"][w.ent] /\ left.render = db.render
    BY <1>1 DEF OwnCandidates, Faithful
  <1>3. /\ dir["candidate"][w.ent] = {s}
        /\ \A f \in Entities \ {w.ent} : dir["candidate"][f] = {}
    BY <1>1, <1>2, Alone DEF Slots
  <1>4. /\ DirsKept' /\ dir'["candidate"][w.ent] = {left}
        /\ \A f \in Entities \ {w.ent} : dir'["candidate"][f] = {}
        /\ \A f \in Entities : dir'["final"][f] = dir["final"][f]
    BY <1>1, <1>3, CandidatePut
  <1>5. /\ w'.pc \in {"flush", "place"} /\ w'.own = {left} /\ w'.op = "export"
        /\ w'.ent = w.ent /\ w'.unread = w.unread
    BY <1>1 DEF Commands
  <1>6. OthersGone' /\ OnlyOwn' /\ Faithful'
    BY <1>1, <1>2, <1>4, <1>5 DEF OthersGone, FinalValid, OnlyOwn, Own, Faithful
  <1> QED BY <1>4, <1>5, <1>6, BuildingKept

LEMMA FillCandidateKept ==
  ASSUME Kept, NEW s, FillCandidate(s)
  PROVE  DirsKept' /\ CommandKept'
  <1> DEFINE left == [s EXCEPT !.stage = "written"]
  <1>1. /\ w.pc = "fill" /\ db' = db /\ s \in OwnCandidates /\ w \in Commands
    BY KeptFacts DEF FillCandidate, At
  <1>2. left \in Sets /\ left.render = s.render
    BY <1>1 DEF OwnCandidates, Commands, Sets, Stages
  <1>3. /\ Write(Put(dir, "candidate", w.ent, s, {left}), {}, FALSE)
        /\ w' = [w EXCEPT !.pc = "flush", !.own = {left}]
    BY DEF FillCandidate
  <1> HIDE DEF left
  <1> QED BY <1>1, <1>2, <1>3, GrowCandidate

LEMMA FlushCandidateKept ==
  ASSUME Kept, NEW s, FlushCandidate(s)
  PROVE  DirsKept' /\ CommandKept'
  <1> DEFINE left == [s EXCEPT !.stage = "flushed"]
  <1>1. /\ w.pc = "flush" /\ db' = db /\ s \in OwnCandidates /\ w \in Commands
    BY KeptFacts DEF FlushCandidate, At
  <1>2. left \in Sets /\ left.render = s.render
    BY <1>1 DEF OwnCandidates, Commands, Sets, Stages
  <1>3. /\ Write(Put(dir, "candidate", w.ent, s, {left}), {}, TRUE)
        /\ w' = [w EXCEPT !.pc = "place", !.own = {left}]
    BY DEF FlushCandidate
  <1> HIDE DEF left
  <1> QED BY <1>1, <1>2, <1>3, GrowCandidate

(* An export that gives up before the swap: its candidate is its own, or   *)
(* reported, and the rollback it set aside is back or reported.            *)
LEMMA CleaningKept ==
  ASSUME w'.pc = "clean", w'.op = "export",
         w'.out \in {"failed", "incomplete", "interrupted"},
         \A e \in Entities : \A s \in dir'["candidate"][e] :
           Own(e, s)' \/ <<"candidate", e>> \in w'.res,
         w'.out # "interrupted" =>
           \A e \in Entities : dir'["rollback"][e] # {} => <<"rollback", e>> \in w'.res
  PROVE  CommandKept'
  BY AtClean DEF CleanKept, At, Told, Own

LEMMA BuildFailsKept ==
  ASSUME Kept, BuildFails
  PROVE  DirsKept' /\ CommandKept'
  <1>1. /\ DirsKept' /\ dir' = dir /\ w.pc \in {"build", "fill", "flush", "place"}
        /\ w' = [w EXCEPT !.pc = "clean", !.out = "failed"]
    BY KeptFacts, DirsKeptSame DEF BuildFails
  <1>2. /\ w \in Commands /\ w.op = "export" /\ NoRollback
        /\ NoSibling("candidate") \/ OnlyOwn
    BY <1>1, BuildingFacts DEF Building
  <1>3. /\ w'.pc = "clean" /\ w'.op = "export" /\ w'.out = "failed"
        /\ w'.ent = w.ent /\ w'.own = w.own
    BY <1>1, <1>2 DEF Commands
  <1>4. \A e \in Entities : \A s \in dir'["candidate"][e] : Own(e, s)'
    BY <1>1, <1>2, <1>3 DEF NoSibling, OnlyOwn, Own
  <1> QED BY <1>1, <1>2, <1>3, <1>4, CleaningKept DEF NoRollback

LEMMA OwnRemoved ==
  ASSUME Kept, db' = db, w.ent \in Entities, NEW s \in dir["candidate"][w.ent],
         NEW left \in Remains(s), NEW synced \in BOOLEAN,
         RemoveTree("candidate", w.ent, s, left, synced)
  PROVE  /\ DirsKept' /\ dir'["candidate"][w.ent] = left
         /\ \A f \in Entities \ {w.ent} : dir'["candidate"][f] = {}
         /\ \A f \in Entities : /\ dir'["final"][f] = dir["final"][f]
                                /\ dir'["rollback"][f] = dir["rollback"][f]
  <1>1. PICK e \in Entities : e = w.ent
    OBVIOUS
  <1>2. s \in dir["candidate"][e] /\ RemoveTree("candidate", e, s, left, synced)
    BY <1>1
  <1>3. /\ DirsKept' /\ dir'["candidate"][e] = left
        /\ \A f \in Entities \ {e} : dir'["candidate"][f] = {}
        /\ \A f \in Entities : /\ dir'["final"][f] = dir["final"][f]
                               /\ dir'["rollback"][f] = dir["rollback"][f]
    BY <1>2, CandidateRemoved
  <1> QED BY <1>1, <1>3

LEMMA CleanCandidateKept ==
  ASSUME Kept, CleanCandidate
  PROVE  DirsKept' /\ CommandKept'
  <1>1. /\ w.pc = "clean" /\ db' = db /\ w \in Commands /\ w.ent \in Entities
        /\ DirsKept /\ w.out \in {"failed", "incomplete", "interrupted"}
        /\ \A e \in Entities : \A s \in dir["candidate"][e] :
             Own(e, s) \/ <<"candidate", e>> \in w.res
        /\ w.out # "interrupted" => Told("rollback", w.res)
    BY KeptFacts, ExportFacts DEF CleanCandidate, At, CommandKept, CleanKept
  <1>2. CASE OwnCandidates = {}
    <2>1. Finish(w.out, {}) /\ UNCHANGED <<dir, disk>>
      BY <1>2 DEF CleanCandidate
    <2>2. w'.pc = "idle" /\ w'.out = w.out /\ w'.res = w.res /\ DirsKept' /\ dir' = dir
      BY <1>1, <2>1, FinishFacts, DirsKeptSame
    <2>3. \A e \in Entities : dir["candidate"][e] # {} => <<"candidate", e>> \in w.res
      BY <1>1, <1>2 DEF Own, OwnCandidates
    <2>4. w.out # "interrupted" => LeftoversReported'
      BY <1>1, <2>2, <2>3, Reported DEF Told
    <2> QED BY <1>1, <2>2, <2>4, AtIdleUndone, AtIdleSilent
  <1>3. CASE OwnCandidates # {}
    <2>1. PICK s \in OwnCandidates : \E left \in Remains(s) :
            /\ RemoveTree("candidate", w.ent, s, left, FALSE)
            /\ Finish(IF left # {} /\ w.out # "interrupted"
                        THEN "incomplete" ELSE w.out,
                      Residual(left # {}, <<"candidate", w.ent>>))
      BY <1>3 DEF CleanCandidate
    <2>2. PICK left \in Remains(s) :
            /\ RemoveTree("candidate", w.ent, s, left, FALSE)
            /\ Finish(IF left # {} /\ w.out # "interrupted"
                        THEN "incomplete" ELSE w.out,
                      Residual(left # {}, <<"candidate", w.ent>>))
      BY <2>1
    <2>3. /\ s \in dir["candidate"][w.ent] /\ w.ent \in Entities /\ db' = db
          /\ RemoveTree("candidate", w.ent, s, left, FALSE)
      BY <1>1, <2>2 DEF OwnCandidates
    <2>4. /\ DirsKept' /\ dir'["candidate"][w.ent] = left
          /\ \A f \in Entities \ {w.ent} : dir'["candidate"][f] = {}
          /\ \A f \in Entities : dir'["rollback"][f] = dir["rollback"][f]
      BY <2>3, OwnRemoved
    <2>5. /\ w'.pc = "idle"
          /\ w'.out = IF left # {} /\ w.out # "interrupted" THEN "incomplete" ELSE w.out
          /\ w'.res = w.res \cup Residual(left # {}, <<"candidate", w.ent>>)
      <3>1. PICK out : out = IF left # {} /\ w.out # "interrupted"
                               THEN "incomplete" ELSE w.out
        OBVIOUS
      <3>2. PICK more : more = Residual(left # {}, <<"candidate", w.ent>>)
        OBVIOUS
      <3>3. Finish(out, more)
        BY <2>2, <3>1, <3>2
      <3> QED BY <1>1, <3>1, <3>2, <3>3, FinishFacts
    <2>6. \A e \in Entities : dir'["candidate"][e] # {} => <<"candidate", e>> \in w'.res
      BY <2>4, <2>5 DEF Residual
    <2>7. w.out # "interrupted" => LeftoversReported'
      BY <1>1, <2>4, <2>5, <2>6, Reported DEF Told
    <2>8. w'.out # "ok" /\ (w.out = "interrupted" => w'.out = "interrupted")
      BY <1>1, <2>5
    <2> QED BY <2>4, <2>5, <2>7, <2>8, AtIdleUndone, AtIdleSilent
  <1> QED BY <1>2, <1>3

-----------------------------------------------------------------------------
(* The candidate meets the final path.                                     *)

LEMMA AbortOverResidualKept ==
  ASSUME Kept, AbortOverResidual
  PROVE  DirsKept' /\ CommandKept'
  <1>1. /\ DirsKept' /\ dir' = dir /\ w.pc = "place"
        /\ w' = [w EXCEPT !.pc = "clean", !.out = "incomplete",
                          !.res = @ \cup {<<"final", w.ent>>}]
    BY KeptFacts, DirsKeptSame DEF AbortOverResidual, At
  <1>2. w \in Commands /\ w.op = "export" /\ NoRollback /\ OnlyOwn
    BY <1>1, BuildingFacts DEF Building
  <1>3. /\ w'.pc = "clean" /\ w'.op = "export" /\ w'.out = "incomplete"
        /\ w'.ent = w.ent /\ w'.own = w.own
    BY <1>1, <1>2 DEF Commands
  <1>4. \A e \in Entities : \A s \in dir'["candidate"][e] : Own(e, s)'
    BY <1>1, <1>2, <1>3 DEF OnlyOwn, Own
  <1> QED BY <1>1, <1>2, <1>3, <1>4, CleaningKept DEF NoRollback

(* After a flush of the parent the final names are as they will come back. *)
LEMMA DurableExport ==
  ASSUME dir' \in Dirs, Sound(dir)', Flushed', w'.op = "export",
         NEW e \in Entities, db'.current = e, FinalValid(dir, e)',
         \A s \in dir'["final"][e] : s.render = db'.render,
         \A f \in Entities \ {e} : FinalValid(dir, f)' => <<"final", f>> \in w'.unread
  PROVE  DoneIsDurable'
  <1>1. \A d \in disk' : \A f \in Entities : d["final"][f] = dir'["final"][f]
    <2>1. disk' = {dir', Settled(dir')}
      BY DEF Flushed, Settled
    <2>2. \A f \in Entities : Settled(dir')["final"][f] = dir'["final"][f]
      <3>1. \A d \in Dirs : (\A f \in Entities : \A s \in d["final"][f] : s.stage # "written") =>
              \A f \in Entities : Settled(d)["final"][f] = d["final"][f]
        <4> TAKE d \in Dirs
        <4> HAVE \A f \in Entities : \A s \in d["final"][f] : s.stage # "written"
        <4> TAKE f \in Entities
        <4>1. Settled(d)["final"][f] =
                {IF s.stage = "written" THEN Torn(s) ELSE s : s \in d["final"][f]}
          BY DEF Settled, Slots
        <4>2. {IF s.stage = "written" THEN Torn(s) ELSE s : s \in d["final"][f]} = d["final"][f]
          OBVIOUS
        <4> QED BY <4>1, <4>2
      <3>2. \A f \in Entities : \A s \in dir'["final"][f] : s.stage # "written"
        BY DEF Sound
      <3> QED BY <3>1, <3>2
    <2> QED BY <2>1, <2>2
  <1>2. \A d \in disk' : \A f \in Entities : FinalValid(d, f) <=> FinalValid(dir, f)'
    BY <1>1 DEF FinalValid
  <1>3. \A d \in disk' :
          /\ FinalValid(d, e)
          /\ \A s \in d["final"][e] : s.render = db'.render
          /\ \A f \in Entities \ {e} : FinalValid(d, f) => <<"final", f>> \in w'.unread
    BY <1>1, <1>2
  <1> QED BY <1>3 DEF DoneIsDurable, FinalValid, Valid

LEMMA ReuseFinalKept ==
  ASSUME Kept, NEW s, NEW c, ReuseFinal(s, c), DirsSound'
  PROVE  DirsKept' /\ CommandKept'
  <1>1. /\ w.pc = "place" /\ db' = db /\ FinalValid(dir, w.ent)
        /\ s \in dir["final"][w.ent] /\ c \in dir["candidate"][w.ent] /\ c \in w.own
        /\ s.render = c.render
    BY DEF ReuseFinal, At, OwnCandidates, SameSet
  <1>2. /\ w.ent \in Entities /\ w.ent = db.current /\ w \in Commands
        /\ w.op = "export" /\ OthersGone /\ Faithful /\ NoRollback
        /\ dir \in Dirs /\ Lone(dir)
    BY <1>1, BuildingFacts, KeptFacts DEF Building
  <1>3. PICK left \in Remains(c), synced \in BOOLEAN :
          /\ synced => left = {}
          /\ RemoveTree("candidate", w.ent, c, left, synced)
          /\ IF synced
               THEN Finish("ok", {})
               ELSE w' = [w EXCEPT !.pc = "clean", !.out = "incomplete",
                            !.res = @ \cup {IF left = {} THEN Parent
                                            ELSE <<"candidate", w.ent>>}]
    BY DEF ReuseFinal
  <1>4. RemoveTree("candidate", w.ent, c, left, synced) /\ (synced => left = {})
    BY <1>3
  <1>5. /\ DirsKept' /\ dir'["candidate"][w.ent] = left
        /\ \A f \in Entities \ {w.ent} : dir'["candidate"][f] = {}
        /\ \A f \in Entities : /\ dir'["final"][f] = dir["final"][f]
                               /\ dir'["rollback"][f] = dir["rollback"][f]
    BY <1>1, <1>2, <1>4, OwnRemoved
  <1>6. CASE synced
    <2>1. w'.pc = "idle" /\ w'.out = "ok" /\ w'.op = "export" /\ w'.unread = w.unread
      BY <1>2, <1>3, <1>6, FinishFacts
    <2>2. LeftoversReported'
      <3>1. \A f \in Entities : dir'["candidate"][f] = {}
        BY <1>4, <1>5, <1>6
      <3> QED BY <1>2, <1>5, <3>1, NothingLeft DEF NoRollback
    <2>3. dir["final"][w.ent] = {s} /\ s.render = db.render
      BY <1>1, <1>2, Alone DEF Faithful, Slots
    <2>4. Flushed'
      BY <1>1, <1>2, <1>4, <1>6, CandidateRemoved
    <2>5. dir' \in Dirs /\ Sound(dir)'
      BY DEF DirsSound
    <2>6. /\ FinalValid(dir', w.ent)
          /\ \A f \in Entities \ {w.ent} : FinalValid(dir', f) => <<"final", f>> \in w'.unread
      BY <1>1, <1>2, <1>5, <2>1 DEF FinalValid, OthersGone
    <2>7. \A x \in dir'["final"][w.ent] : x.render = db'.render
      BY <1>1, <1>2, <1>5, <2>3
    <2>8. DoneIsDurable'
      <3>1. PICK e \in Entities : e = w.ent
        BY <1>2
      <3>2. /\ db'.current = e /\ FinalValid(dir', e)
            /\ \A x \in dir'["final"][e] : x.render = db'.render
            /\ \A f \in Entities \ {e} :
                 FinalValid(dir', f) => <<"final", f>> \in w'.unread
        BY <1>1, <1>2, <2>6, <2>7, <3>1
      <3> QED BY <2>1, <2>4, <2>5, <3>2, DurableExport DEF FinalValid
    <2> QED BY <1>5, <2>1, <2>2, <2>8, AtIdle
  <1>7. CASE ~ synced
    <2>1. w' = [w EXCEPT !.pc = "clean", !.out = "incomplete",
                  !.res = @ \cup {IF left = {} THEN Parent ELSE <<"candidate", w.ent>>}]
      BY <1>3, <1>7
    <2>2. /\ w'.pc = "clean" /\ w'.op = "export" /\ w'.out = "incomplete"
          /\ left # {} => <<"candidate", w.ent>> \in w'.res
      BY <1>2, <2>1 DEF Commands
    <2>3. \A e \in Entities : \A x \in dir'["candidate"][e] : <<"candidate", e>> \in w'.res
      BY <1>5, <2>2
    <2> QED BY <1>2, <1>5, <2>2, <2>3, CleaningKept DEF NoRollback
  <1> QED BY <1>6, <1>7

(* The prior set goes aside, or what is left of it is reported.            *)
LEMMA MoveAsideKept ==
  ASSUME Kept, NEW s, NEW c, MoveAside(s, c)
  PROVE  DirsKept' /\ CommandKept'
  <1> DEFINE aside == Moved(dir, "final", "rollback", w.ent, s)
             Fail(out, res) ==
               w' = [w EXCEPT !.pc = "clean", !.out = out, !.res = @ \cup res]
  <1>1. w.pc = "place" /\ db' = db /\ s \in dir["final"][w.ent]
    BY DEF MoveAside, At
  <1>2. /\ w.ent \in Entities /\ w.ent = db.current /\ w \in Commands
        /\ w.op = "export" /\ OthersGone /\ Faithful /\ OnlyOwn /\ NoRollback
        /\ dir \in Dirs /\ Lone(dir) /\ DirsSound /\ DirsKept
    BY <1>1, BuildingFacts, KeptFacts DEF Building
  <1>3. \A e \in Entities : dir["rollback"][e] = {}
    BY <1>2 DEF NoRollback
  <1>4. /\ "final" \in Slots /\ "rollback" \in Slots \ {"candidate"}
        /\ "final" # "rollback"
    BY DEF Slots
  <1>5. ASSUME NEW synced \in BOOLEAN, Write(aside, {}, synced)
        PROVE  /\ DirsKept' /\ dir'["final"][w.ent] = {}
               /\ \A e \in Entities \ {w.ent} :
                    dir'["rollback"][e] = {} /\ dir'["final"][e] = dir["final"][e]
               /\ \A e \in Entities : dir'["candidate"][e] = dir["candidate"][e]
    <2>1. PICK e \in Entities : e = w.ent
      BY <1>2
    <2>2. s \in dir["final"][e] /\ Write(Moved(dir, "final", "rollback", e, s), {}, synced)
      BY <1>1, <1>5, <2>1
    <2>3. DirsKept' /\ dir'["final"][e] = {}
      BY <1>1, <1>3, <1>4, <2>2, MoveKept
    <2>4. \A t \in Slots, f \in Entities :
            t \notin {"final", "rollback"} \/ f # e => dir'[t][f] = dir[t][f]
      BY <1>1, <1>3, <1>4, <2>2, MoveKept
    <2> QED BY <1>3, <2>1, <2>3, <2>4 DEF Slots
  <1>6. ASSUME w'.pc = "clean", w'.op = "export", w'.out \in {"failed", "incomplete"},
               w'.ent = w.ent, w'.own = w.own,
               \A e \in Entities : dir'["candidate"][e] = dir["candidate"][e],
               \A e \in Entities : dir'["rollback"][e] # {} => <<"rollback", e>> \in w'.res
        PROVE  CommandKept'
    <2>1. \A e \in Entities : \A x \in dir'["candidate"][e] : Own(e, x)'
      BY <1>2, <1>6 DEF OnlyOwn, Own
    <2> QED BY <1>6, <2>1, CleaningKept
  <1>7. CASE Write(aside, {}, TRUE) /\ w' = [w EXCEPT !.pc = "swap"]
    <2>1. /\ w'.pc = "swap" /\ w'.op = "export" /\ w'.ent = w.ent /\ w'.own = w.own
          /\ w'.unread = w.unread
      BY <1>2, <1>7 DEF Commands
    <2>2. /\ DirsKept' /\ dir'["final"][w.ent] = {}
          /\ \A e \in Entities \ {w.ent} :
               dir'["rollback"][e] = {} /\ dir'["final"][e] = dir["final"][e]
          /\ \A e \in Entities : dir'["candidate"][e] = dir["candidate"][e]
      BY <1>5, <1>7
    <2>3. OthersGone' /\ OnlyOwn' /\ Faithful' /\ RollbackOwn' /\ FinalAbsent(dir', w'.ent)
      BY <1>1, <1>2, <2>1, <2>2
         DEF OthersGone, FinalValid, OnlyOwn, Own, Faithful, RollbackOwn, FinalAbsent
    <2>4. PreambleKept' /\ CleanKept' /\ ChangeKept'
      BY <2>1 DEF PreambleKept, CleanKept, ChangeKept, At
    <2>5. ExportKept'
      BY <2>1, <2>3 DEF ExportKept, At, Building, FinalAbsent
    <2> QED BY <2>1, <2>2, <2>4, <2>5, Midway
  <1>8. CASE Write(dir, {}, FALSE) /\ Fail("failed", {})
    <2>1. w'.pc = "clean" /\ w'.op = "export" /\ w'.out = "failed"
          /\ w'.ent = w.ent /\ w'.own = w.own
      BY <1>2, <1>8 DEF Commands
    <2>2. DirsKept' /\ dir' = dir
      BY <1>1, <1>2, <1>8, FsyncKept DEF Fsync
    <2> QED BY <1>3, <1>6, <2>1, <2>2
  <1>9. CASE \E synced \in BOOLEAN :
               /\ Write(dir, {aside}, synced)
               /\ Fail(IF synced THEN "failed" ELSE "incomplete", {})
    <2>1. PICK synced \in BOOLEAN :
            /\ Write(dir, {aside}, synced)
            /\ Fail(IF synced THEN "failed" ELSE "incomplete", {})
      BY <1>9
    <2>2. w'.pc = "clean" /\ w'.op = "export" /\ w'.out \in {"failed", "incomplete"}
          /\ w'.ent = w.ent /\ w'.own = w.own
      BY <1>2, <2>1 DEF Commands
    <2>3. Lone(aside) /\ aside \in Dirs
      <3>1. PICK e \in Entities : e = w.ent
        BY <1>2
      <3>2. s \in dir["final"][e] /\ aside = Moved(dir, "final", "rollback", e, s) /\ s \in Sets
        BY <1>1, <1>2, <3>1 DEF Dirs, Slots
      <3> HIDE DEF aside
      <3>3. Lone(aside)
        BY <1>2, <1>3, <1>4, <3>2, MovedLone
      <3>4. Put(dir, "final", e, s, {}) \in Dirs
        BY <1>2, <1>4, PutFacts
      <3>5. aside \in Dirs
        BY <1>4, <3>2, <3>4, PutFacts DEF Moved
      <3> QED BY <3>3, <3>5
    <2> HIDE DEF aside
    <2>5. Write(dir, {aside}, synced)
      BY <2>1
    <2>6. DirsKept' /\ dir' = dir
      BY <1>1, <1>2, <2>3, <2>5, WriteKept
    <2> QED BY <1>3, <1>6, <2>2, <2>6
  <1>10. CASE Write(aside, {}, FALSE) /\ Fail("incomplete", {<<"rollback", w.ent>>})
    <2>1. /\ w'.pc = "clean" /\ w'.op = "export" /\ w'.out = "incomplete"
          /\ w'.ent = w.ent /\ w'.own = w.own /\ <<"rollback", w.ent>> \in w'.res
      BY <1>2, <1>10 DEF Commands
    <2>2. /\ DirsKept'
          /\ \A e \in Entities \ {w.ent} : dir'["rollback"][e] = {}
          /\ \A e \in Entities : dir'["candidate"][e] = dir["candidate"][e]
      BY <1>5, <1>10
    <2> QED BY <1>6, <2>1, <2>2
  <1> QED BY <1>7, <1>8, <1>9, <1>10 DEF MoveAside

LEMMA NothingThereKept ==
  ASSUME Kept, NothingThere
  PROVE  DirsKept' /\ CommandKept'
  <1>1. /\ DirsKept' /\ dir' = dir /\ w.pc = "place" /\ db' = db
        /\ w' = [w EXCEPT !.pc = "swap"] /\ FinalAbsent(dir, w.ent)
    BY KeptFacts, DirsKeptSame DEF NothingThere, At
  <1>2. /\ w \in Commands /\ w.op = "export" /\ OthersGone /\ Faithful /\ OnlyOwn
        /\ NoRollback
    BY <1>1, BuildingFacts DEF Building
  <1>3. /\ w'.pc = "swap" /\ w'.op = "export" /\ w'.ent = w.ent /\ w'.own = w.own
        /\ w'.unread = w.unread
    BY <1>1, <1>2 DEF Commands
  <1>4. OthersGone' /\ OnlyOwn' /\ Faithful' /\ RollbackOwn' /\ FinalAbsent(dir', w'.ent)
    BY <1>1, <1>2, <1>3
       DEF OthersGone, FinalValid, OnlyOwn, Own, Faithful, RollbackOwn, NoRollback
  <1>5. PreambleKept' /\ CleanKept' /\ ChangeKept'
    BY <1>3 DEF PreambleKept, CleanKept, ChangeKept, At
  <1>6. ExportKept'
    BY <1>3, <1>4 DEF ExportKept, At, Building, FinalAbsent
  <1> QED BY <1>1, <1>3, <1>5, <1>6, Midway

(* The published set is alone from here on, and its candidate is gone.     *)
LEMMA PublishedKept ==
  ASSUME w'.pc \in {"settle", "discard"}, w'.op = "export", OthersGone', RollbackOwn',
         NoSibling("candidate")', ~ FinalAbsent(dir', w'.ent)
  PROVE  CommandKept'
  <1>1. ExportKept'
    BY DEF ExportKept, At, Building, FinalAbsent
  <1>2. PreambleKept' /\ CleanKept' /\ ChangeKept'
    BY DEF PreambleKept, CleanKept, ChangeKept, At
  <1> QED BY <1>1, <1>2, Midway

LEMMA SwapInKept ==
  ASSUME Kept, NEW c, SwapIn(c)
  PROVE  DirsKept' /\ CommandKept'
  <1>1. /\ w.pc = "swap" /\ db' = db /\ c \in dir["candidate"][w.ent]
        /\ dir["final"][w.ent] = {} /\ w' = [w EXCEPT !.pc = "settle"]
        /\ Write(Moved(dir, "candidate", "final", w.ent, c), {}, FALSE)
    BY DEF SwapIn, At, OwnCandidates, FinalAbsent
  <1>2. /\ w.ent \in Entities /\ w.ent = db.current /\ w \in Commands
        /\ w.op = "export" /\ OthersGone /\ RollbackOwn
    BY <1>1, BuildingFacts DEF Building
  <1>3. PICK e \in Entities, synced \in BOOLEAN : e = w.ent /\ synced = FALSE
    BY <1>2
  <1>4. /\ c \in dir["candidate"][e] /\ dir["final"][e] = {} /\ db' = db
        /\ Write(Moved(dir, "candidate", "final", e, c), {}, synced)
        /\ "candidate" \in Slots /\ "final" \in Slots \ {"candidate"}
        /\ "candidate" # "final"
    BY <1>1, <1>3 DEF Slots
  <1>5. DirsKept' /\ dir'["final"][e] = {c}
    BY <1>4, MoveKept
  <1>6. \A f \in Entities : dir'["candidate"][f] = {}
    BY <1>4, MoveKept
  <1>7. \A t \in Slots, f \in Entities :
          t \notin {"candidate", "final"} \/ f # e => dir'[t][f] = dir[t][f]
    BY <1>4, MoveKept
  <1>8. w'.pc = "settle" /\ w'.op = "export" /\ w'.ent = w.ent /\ w'.unread = w.unread
    BY <1>1, <1>2 DEF Commands
  <1>9. \A f \in Entities : dir'["rollback"][f] = dir["rollback"][f]
    BY <1>7 DEF Slots
  <1>10. \A f \in Entities \ {e} : dir'["final"][f] = dir["final"][f]
    BY <1>7 DEF Slots
  <1>11. OthersGone' /\ RollbackOwn' /\ NoSibling("candidate")' /\ ~ FinalAbsent(dir', w'.ent)
    BY <1>1, <1>2, <1>3, <1>5, <1>6, <1>8, <1>9, <1>10
       DEF OthersGone, RollbackOwn, NoSibling, FinalAbsent, FinalValid
  <1> QED BY <1>5, <1>8, <1>11, PublishedKept

LEMMA SwapFailsKept ==
  ASSUME Kept, SwapFails
  PROVE  DirsKept' /\ CommandKept'
  <1>1. w.pc = "swap" /\ db' = db
    BY DEF SwapFails, At
  <1>2. /\ w.ent \in Entities /\ w \in Commands /\ w.op = "export" /\ OnlyOwn
        /\ RollbackOwn /\ dir["final"][w.ent] = {} /\ DirsSound /\ DirsKept
    BY <1>1, BuildingFacts, KeptFacts DEF Building, FinalAbsent
  <1>3. ASSUME w'.pc = "clean", w'.op = "export", w'.out \in {"failed", "incomplete"},
               w'.ent = w.ent, w'.own = w.own,
               \A e \in Entities : dir'["candidate"][e] = dir["candidate"][e],
               \A e \in Entities : dir'["rollback"][e] # {} => <<"rollback", e>> \in w'.res
        PROVE  CommandKept'
    <2>1. \A e \in Entities : \A x \in dir'["candidate"][e] : Own(e, x)'
      BY <1>2, <1>3 DEF OnlyOwn, Own
    <2> QED BY <1>3, <2>1, CleaningKept
  <1>4. CASE /\ dir["rollback"][w.ent] = {}
             /\ UNCHANGED <<dir, disk>>
             /\ w' = [w EXCEPT !.pc = "clean", !.out = "failed"]
    <2>1. /\ w'.pc = "clean" /\ w'.op = "export" /\ w'.out = "failed"
          /\ w'.ent = w.ent /\ w'.own = w.own
      BY <1>2, <1>4 DEF Commands
    <2>2. DirsKept' /\ dir' = dir
      BY <1>1, <1>2, <1>4, DirsKeptSame
    <2>3. \A e \in Entities : dir'["rollback"][e] = {}
      BY <1>2, <1>4, <2>2 DEF RollbackOwn
    <2> QED BY <1>3, <2>1, <2>2, <2>3
  <1>5. ASSUME NEW s \in dir["rollback"][w.ent], NEW restored \in BOOLEAN,
               NEW synced \in BOOLEAN, synced => restored,
               Write(IF restored THEN Moved(dir, "rollback", "final", w.ent, s)
                                 ELSE dir, {}, synced),
               w' = [w EXCEPT !.pc = "clean",
                       !.out = IF synced THEN "failed" ELSE "incomplete",
                       !.res = @ \cup Residual(~synced, <<"rollback", w.ent>>)]
        PROVE  DirsKept' /\ CommandKept'
    <2>1. /\ w'.pc = "clean" /\ w'.op = "export" /\ w'.out \in {"failed", "incomplete"}
          /\ w'.ent = w.ent /\ w'.own = w.own
          /\ ~ synced => <<"rollback", w.ent>> \in w'.res
      BY <1>2, <1>5 DEF Commands, Residual
    <2>2. CASE restored
      <3>1. PICK e \in Entities : e = w.ent
        BY <1>2
      <3>2. /\ s \in dir["rollback"][e] /\ dir["final"][e] = {}
            /\ Write(Moved(dir, "rollback", "final", e, s), {}, synced)
            /\ "rollback" \in Slots /\ "final" \in Slots \ {"candidate"}
            /\ "rollback" # "final"
        BY <1>2, <1>5, <2>2, <3>1 DEF Slots
      <3>3. DirsKept'
        BY <1>1, <3>2, MoveKept
      <3>4. \A f \in Entities : dir'["rollback"][f] = {}
        BY <1>1, <3>2, MoveKept
      <3>5. \A t \in Slots, f \in Entities :
              t \notin {"rollback", "final"} \/ f # e => dir'[t][f] = dir[t][f]
        BY <1>1, <3>2, MoveKept
      <3> QED BY <1>3, <2>1, <3>3, <3>4, <3>5 DEF Slots
    <2>3. CASE ~ restored
      <3>1. Fsync(synced)
        BY <1>5, <2>3 DEF Fsync
      <3>2. DirsKept' /\ dir' = dir
        BY <1>1, <1>2, <3>1, FsyncKept
      <3>3. \A e \in Entities : dir'["rollback"][e] # {} => <<"rollback", e>> \in w'.res
        BY <1>2, <1>5, <2>1, <2>3, <3>2 DEF RollbackOwn
      <3> QED BY <1>3, <2>1, <3>2, <3>3
    <2> QED BY <2>2, <2>3
  <1> QED BY <1>4, <1>5 DEF SwapFails

(* What the steps after the swap know.                                     *)
LEMMA PublishedFacts ==
  ASSUME Kept, w.pc \in {"settle", "discard", "confirm"}
  PROVE  /\ w.ent \in Entities /\ w.ent = db.current /\ w \in Commands
         /\ w.op = "export" /\ OthersGone /\ NoSibling("candidate")
         /\ ~ FinalAbsent(dir, w.ent)
         /\ w.pc # "confirm" => RollbackOwn
         /\ w.pc = "confirm" => NoSibling("rollback") /\ Flushed
         /\ DirsSound /\ DirsKept /\ dir \in Dirs /\ Sound(dir)
  BY KeptFacts DEF CommandSound, CommandKept, ExportKept, At, Building

(* An export that ends after the swap without a flush.                     *)
LEMMA IncompleteKept ==
  ASSUME w \in Commands, NEW path, Finish("incomplete", {path}),
         \A e \in Entities : dir'["candidate"][e] = {},
         \A e \in Entities : dir'["rollback"][e] # {} => path = <<"rollback", e>>
  PROVE  CommandKept'
  <1>1. /\ w'.pc = "idle" /\ w'.out = "incomplete" /\ path \in w'.res
    BY FinishFacts
  <1>2. \A slot \in {"candidate", "rollback"}, e \in Entities :
          dir'[slot][e] # {} => <<slot, e>> \in w'.res \cup w'.told
    BY <1>1
  <1> QED BY <1>1, <1>2, Reported, AtIdleUndone

LEMMA SettlePublishedKept ==
  ASSUME Kept, SettlePublished
  PROVE  DirsKept' /\ CommandKept'
  <1>1. PICK synced \in BOOLEAN :
          /\ Fsync(synced)
          /\ IF synced
               THEN w' = [w EXCEPT !.pc = "discard"]
               ELSE Finish("incomplete",
                      {IF dir["rollback"][w.ent] = {} THEN <<"final", w.ent>>
                                                      ELSE <<"rollback", w.ent>>})
    BY DEF SettlePublished
  <1>2. w.pc = "settle" /\ db' = db
    BY DEF SettlePublished, At
  <1>3. /\ w.ent \in Entities /\ w \in Commands /\ w.op = "export" /\ OthersGone
        /\ NoSibling("candidate") /\ ~ FinalAbsent(dir, w.ent) /\ RollbackOwn
        /\ DirsSound /\ DirsKept
    BY <1>2, PublishedFacts
  <1>4. DirsKept' /\ dir' = dir
    BY <1>1, <1>2, <1>3, FsyncKept
  <1>5. CASE synced
    <2>1. w'.pc = "discard" /\ w'.op = "export" /\ w'.ent = w.ent /\ w'.unread = w.unread
      BY <1>1, <1>3, <1>5 DEF Commands
    <2>2. OthersGone' /\ RollbackOwn' /\ NoSibling("candidate")' /\ ~ FinalAbsent(dir', w'.ent)
      BY <1>2, <1>3, <1>4, <2>1 DEF OthersGone, FinalValid, RollbackOwn, NoSibling
    <2> QED BY <1>4, <2>1, <2>2, PublishedKept
  <1>6. CASE ~ synced
    <2>1. PICK path : path = IF dir["rollback"][w.ent] = {} THEN <<"final", w.ent>>
                                                           ELSE <<"rollback", w.ent>>
      OBVIOUS
    <2>2. Finish("incomplete", {path})
      BY <1>1, <1>6, <2>1
    <2>3. /\ \A e \in Entities : dir'["candidate"][e] = {}
          /\ \A e \in Entities : dir'["rollback"][e] # {} => path = <<"rollback", e>>
      BY <1>3, <1>4, <2>1 DEF NoSibling, RollbackOwn
    <2> QED BY <1>3, <1>4, <2>2, <2>3, IncompleteKept
  <1> QED BY <1>5, <1>6

LEMMA DiscardRollbackKept ==
  ASSUME Kept, DiscardRollback
  PROVE  DirsKept' /\ CommandKept'
  <1>1. w.pc = "discard" /\ db' = db
    BY DEF DiscardRollback, At
  <1>2. /\ w.ent \in Entities /\ w \in Commands /\ w.op = "export" /\ OthersGone
        /\ NoSibling("candidate") /\ ~ FinalAbsent(dir, w.ent) /\ RollbackOwn
        /\ DirsSound /\ DirsKept
    BY <1>1, PublishedFacts
  <1>3. ASSUME DirsKept', Flushed', w' = [w EXCEPT !.pc = "confirm"],
               \A e \in Entities : /\ dir'["final"][e] = dir["final"][e]
                                   /\ dir'["candidate"][e] = dir["candidate"][e]
                                   /\ dir'["rollback"][e] = {}
        PROVE  CommandKept'
    <2>1. w'.pc = "confirm" /\ w'.op = "export" /\ w'.ent = w.ent /\ w'.unread = w.unread
      BY <1>2, <1>3 DEF Commands
    <2>2. OthersGone' /\ NoSibling("candidate")' /\ NoSibling("rollback")' /\ ~ FinalAbsent(dir, w.ent)'
      BY <1>1, <1>2, <1>3, <2>1 DEF OthersGone, FinalValid, NoSibling, FinalAbsent
    <2>3. ExportKept'
      BY <1>3, <2>1, <2>2 DEF ExportKept, At, Building
    <2>4. PreambleKept' /\ CleanKept' /\ ChangeKept'
      BY <2>1 DEF PreambleKept, CleanKept, ChangeKept, At
    <2> QED BY <2>1, <2>3, <2>4, Midway
  <1>4. ASSUME dir["rollback"][w.ent] = {}, NEW synced \in BOOLEAN, Fsync(synced),
               IF synced THEN w' = [w EXCEPT !.pc = "confirm"]
                         ELSE Finish("incomplete", {<<"final", w.ent>>})
        PROVE  DirsKept' /\ CommandKept'
    <2>1. DirsKept' /\ dir' = dir /\ \A e \in Entities : dir["rollback"][e] = {}
      BY <1>1, <1>2, <1>4, FsyncKept DEF RollbackOwn
    <2>2. ASSUME synced PROVE Flushed'
      BY <1>1, <1>2, <1>4, <2>2, FsyncKept
    <2>3. CASE synced
      BY <1>3, <1>4, <2>1, <2>2, <2>3
    <2>4. CASE ~ synced
      <3>1. Finish("incomplete", {<<"final", w.ent>>})
        BY <1>4, <2>4
      <3> QED BY <1>2, <2>1, <3>1, IncompleteKept DEF NoSibling
    <2> QED BY <2>3, <2>4
  <1>5. ASSUME NEW s \in dir["rollback"][w.ent], NEW left \in Remains(s),
               NEW synced \in BOOLEAN, synced => left = {},
               RemoveTree("rollback", w.ent, s, left, synced),
               IF synced THEN w' = [w EXCEPT !.pc = "confirm"]
                  ELSE Finish("incomplete",
                         {<<IF left = {} THEN "final" ELSE "rollback", w.ent>>})
        PROVE  DirsKept' /\ CommandKept'
    <2>1. PICK e \in Entities : e = w.ent
      BY <1>2
    <2>2. /\ s \in dir["rollback"][e] /\ ~ FinalAbsent(dir, e)
          /\ RemoveTree("rollback", e, s, left, synced)
      BY <1>2, <1>5, <2>1
    <2>3. DirsKept' /\ dir'["rollback"][e] = left
      BY <1>1, <2>2, RollbackRemoved
    <2>4. \A f \in Entities \ {e} : dir'["rollback"][f] = {}
      BY <1>1, <2>2, RollbackRemoved
    <2>5. \A f \in Entities : /\ dir'["final"][f] = dir["final"][f]
                              /\ dir'["candidate"][f] = dir["candidate"][f]
      BY <1>1, <2>2, RollbackRemoved
    <2>6. ASSUME synced PROVE Flushed'
      BY <1>1, <2>2, <2>6, RollbackRemoved
    <2>7. CASE synced
      <3>1. \A f \in Entities : dir'["rollback"][f] = {}
        BY <1>5, <2>3, <2>4, <2>7
      <3> QED BY <1>3, <1>5, <2>3, <2>5, <2>6, <2>7, <3>1
    <2>8. CASE ~ synced
      <3>1. PICK path : path = <<IF left = {} THEN "final" ELSE "rollback", w.ent>>
        OBVIOUS
      <3>2. Finish("incomplete", {path})
        BY <1>5, <2>8, <3>1
      <3>3. \A f \in Entities : dir'["rollback"][f] # {} => path = <<"rollback", f>>
        BY <2>1, <2>3, <2>4, <3>1
      <3> QED BY <1>2, <2>3, <2>5, <3>2, <3>3, IncompleteKept DEF NoSibling
    <2> QED BY <2>7, <2>8
  <1> QED BY <1>4, <1>5 DEF DiscardRollback

LEMMA ConfirmKept ==
  ASSUME Kept, Confirm
  PROVE  DirsKept' /\ CommandKept'
  <1>1. w.pc = "confirm" /\ db' = db /\ dir' = dir /\ disk' = disk
    BY DEF Confirm, At
  <1>2. /\ w.ent \in Entities /\ w.ent = db.current /\ w \in Commands /\ w.op = "export"
        /\ OthersGone /\ NoSibling("candidate") /\ NoSibling("rollback") /\ Flushed
        /\ dir \in Dirs /\ Sound(dir) /\ DirsKept
    BY <1>1, PublishedFacts
  <1>3. DirsKept'
    BY <1>1, <1>2, DirsKeptSame
  <1>4. CASE /\ FinalValid(dir, w.ent)
             /\ \A s \in dir["final"][w.ent] : s.render = db.render
             /\ Finish("ok", {})
    <2>1. Finish("ok", {})
      BY <1>4
    <2>2. w'.pc = "idle" /\ w'.out = "ok" /\ w'.op = "export" /\ w'.unread = w.unread
      BY <1>2, <2>1, FinishFacts
    <2>3. LeftoversReported'
      BY <1>1, <1>2, NothingLeft DEF NoSibling
    <2>4. dir' \in Dirs /\ Sound(dir)' /\ Flushed'
      BY <1>1, <1>2 DEF Sound, Known, Outdated, Flushed
    <2>5. PICK e \in Entities : e = w.ent
      BY <1>2
    <2>6. /\ db'.current = e /\ FinalValid(dir, e)'
          /\ \A s \in dir'["final"][e] : s.render = db'.render
          /\ \A f \in Entities \ {e} : FinalValid(dir, f)' => <<"final", f>> \in w'.unread
      BY <1>1, <1>2, <1>4, <2>2, <2>5 DEF FinalValid, OthersGone
    <2>7. DoneIsDurable'
      BY <2>2, <2>4, <2>6, DurableExport
    <2> QED BY <1>3, <2>2, <2>3, <2>7, AtIdle
  <1>5. CASE Finish("incomplete", {<<"final", w.ent>>})
    BY <1>1, <1>2, <1>3, <1>5, IncompleteKept DEF NoSibling
  <1> QED BY <1>4, <1>5 DEF Confirm

-----------------------------------------------------------------------------
(* Commands that change the database, and what ends a command.             *)

LEMMA CommitFacts ==
  ASSUME Kept, w.pc \in {"commit", "remove"}
  PROVE  /\ w \in Commands /\ db \in Databases /\ DirsSound /\ DirsKept /\ dir \in Dirs
         /\ w.op = "change"
         /\ \/ Told("candidate", w.told) /\ Told("rollback", w.told)
            \/ Unlisted(w.told)
         /\ w.pc = "remove" => \A e \in w.gone : Listed("final", e)
  BY KeptFacts DEF CommandKept, ChangeKept, At

(* What the preamble told stays told where no sibling is touched.          *)
LEMMA StillTold ==
  ASSUME \/ Told("candidate", w.told) /\ Told("rollback", w.told)
         \/ Unlisted(w.told),
         w'.told = w.told, w'.unread = w.unread,
         \A e \in Entities : /\ dir'["candidate"][e] = dir["candidate"][e]
                             /\ dir'["rollback"][e] = dir["rollback"][e]
  PROVE  /\ (\/ Told("candidate", w.told) /\ Told("rollback", w.told)
             \/ Unlisted(w.told))'
         /\ LeftoversReported'
  <1>1. CASE Unlisted(w.told)
    <2>1. Unlisted(w.told)' /\ Unlisted(w.res \cup w.told)'
      BY <1>1 DEF Unlisted
    <2> QED BY <2>1, ReportedUnlisted
  <1>2. CASE Told("candidate", w.told) /\ Told("rollback", w.told)
    <2>1. Told("candidate", w.told)' /\ Told("rollback", w.told)'
      BY <1>2 DEF Told
    <2>2. \A slot \in {"candidate", "rollback"}, e \in Entities :
            dir'[slot][e] # {} => <<slot, e>> \in w'.res \cup w'.told
      BY <2>1 DEF Told
    <2> QED BY <2>1, <2>2, Reported
  <1> QED BY <1>1, <1>2

(* The removal that follows a commit has the whole final path on its list. *)
LEMMA WithdrawingKept ==
  ASSUME Kept, w.pc = "commit", dir' = dir, Withdrawing(db.current)
  PROVE  CommandKept'
  <1>1. /\ w \in Commands /\ db \in Databases /\ w.op = "change" /\ dir \in Dirs
        /\ \/ Told("candidate", w.told) /\ Told("rollback", w.told)
           \/ Unlisted(w.told)
    BY CommitFacts
  <1>2. w' = [w EXCEPT !.pc = "remove", !.gone = {db.current} \ {NoEntity},
                !.todo = {x \in Siblings(dir, "final") : x[1] = db.current}]
    BY DEF Withdrawing
  <1>3. /\ w'.pc = "remove" /\ w'.op = "change" /\ w'.told = w.told
        /\ w'.unread = w.unread /\ w'.gone = {db.current} \ {NoEntity}
        /\ w'.todo = {x \in Siblings(dir, "final") : x[1] = db.current}
    BY <1>1, <1>2 DEF Commands
  <1>4. ASSUME NEW e \in w'.gone
        PROVE  Listed("final", e)'
    <2>1. e \in Entities /\ e = db.current
      BY <1>1, <1>3 DEF Databases
    <2>2. \A s \in dir["final"][e] : <<e, s>> \in w'.todo
      <3> TAKE s \in dir["final"][e]
      <3>1. <<e, s>> \in Siblings(dir, "final") /\ <<e, s>>[1] = e
        BY <1>1, <2>1, SiblingsListed DEF Slots
      <3> QED BY <1>3, <2>1, <3>1
    <2> QED BY <2>2 DEF Listed
  <1>5. (\/ Told("candidate", w.told) /\ Told("rollback", w.told)
         \/ Unlisted(w.told))'
    BY <1>1, <1>3, StillTold
  <1>6. ChangeKept'
    BY <1>3, <1>4, <1>5 DEF ChangeKept, At
  <1>7. PreambleKept' /\ ExportKept' /\ CleanKept'
    BY <1>3 DEF PreambleKept, ExportKept, CleanKept, At, Building
  <1> QED BY <1>3, <1>6, <1>7, Midway

LEMMA AmendKept ==
  ASSUME Kept, Amend
  PROVE  DirsKept' /\ CommandKept'
  <1>1. /\ w.pc = "commit" /\ dir' = dir /\ disk' = disk /\ db \in Databases
        /\ Withdrawing(db.current) /\ DirsKept
    BY KeptFacts DEF Amend, At
  <1>2. db'.current = db.current /\ db'.spent = db.spent
    BY <1>1 DEF Amend, Databases
  <1>3. DirsKept'
    BY <1>1, <1>2 DEF DirsKept
  <1> QED BY <1>1, <1>3, WithdrawingKept

LEMMA SupersedeKept ==
  ASSUME Kept, NEW next \in (Entities \ db.spent) \cup {NoEntity}, Supersede(next)
  PROVE  DirsKept' /\ CommandKept'
  <1>1. /\ w.pc = "commit" /\ dir' = dir /\ disk' = disk /\ next # db.current
        /\ Withdrawing(db.current) /\ DirsKept /\ db \in Databases
    BY KeptFacts DEF Supersede, At
  <1>2. db'.current = next /\ db'.spent = db.spent \cup ({db.current} \ {NoEntity})
    BY DEF Supersede
  <1>3. next \notin db'.spent
    BY <1>1, <1>2, NoEntityAssumption DEF Databases
  <1>4. DirsKept'
    BY <1>1, <1>2, <1>3 DEF DirsKept
  <1> QED BY <1>1, <1>4, WithdrawingKept

LEMMA RollBackKept ==
  ASSUME Kept, RollBack
  PROVE  DirsKept' /\ CommandKept'
  <1>1. /\ w.pc = "commit" /\ dir' = dir /\ DirsKept' /\ Finish("failed", {})
    BY KeptFacts, DirsKeptSame DEF RollBack, At
  <1>2. /\ w \in Commands
        /\ \/ Told("candidate", w.told) /\ Told("rollback", w.told)
           \/ Unlisted(w.told)
    BY <1>1, CommitFacts
  <1>3. w'.pc = "idle" /\ w'.told = w.told /\ w'.unread = w.unread /\ w'.out = "failed"
    BY <1>1, <1>2, FinishFacts
  <1>4. LeftoversReported'
    BY <1>1, <1>2, <1>3, StillTold
  <1> QED BY <1>1, <1>3, <1>4, AtIdleUndone

LEMMA RemoveSetKept ==
  ASSUME Kept, NEW e \in Entities, NEW s \in dir["final"][e], RemoveSet(e, s)
  PROVE  DirsKept' /\ CommandKept'
  <1>1. PICK left \in Remains(s) :
          /\ RemoveTree("final", e, s, left, FALSE)
          /\ w' = [w EXCEPT !.todo = @ \ {<<e, s>>},
                            !.tried = @ \cup {<<"final", e>>},
                            !.res = @ \cup Residual(left # {}, <<"final", e>>)]
    BY DEF RemoveSet
  <1>2. w.pc = "remove" /\ db' = db
    BY DEF RemoveSet, At
  <1>3. /\ w \in Commands /\ w.op = "change"
        /\ \/ Told("candidate", w.told) /\ Told("rollback", w.told)
           \/ Unlisted(w.told)
        /\ \A f \in w.gone : Listed("final", f)
    BY <1>2, CommitFacts
  <1>4. PICK synced \in BOOLEAN : synced = FALSE
    OBVIOUS
  <1>5. RemoveTree("final", e, s, left, synced)
    BY <1>1, <1>4
  <1>6. DirsKept' /\ dir'["final"][e] = left
    BY <1>2, <1>5, FinalRemoved
  <1>7. \A f \in Entities \ {e} : dir'["final"][f] = dir["final"][f]
    BY <1>2, <1>5, FinalRemoved
  <1>8. \A f \in Entities : /\ dir'["candidate"][f] = dir["candidate"][f]
                            /\ dir'["rollback"][f] = dir["rollback"][f]
    BY <1>2, <1>5, FinalRemoved
  <1>9. /\ w'.pc = "remove" /\ w'.op = "change" /\ w'.told = w.told
        /\ w'.gone = w.gone /\ w'.todo = w.todo \ {<<e, s>>}
        /\ w'.unread = w.unread
        /\ w'.res = w.res \cup Residual(left # {}, <<"final", e>>)
    BY <1>1, <1>2, <1>3 DEF Commands
  <1>10. ASSUME NEW f \in w'.gone
         PROVE  Listed("final", f)'
    <2>1. f \in Entities /\ f \in w.gone
      BY <1>3, <1>9 DEF Commands
    <2> QED BY <1>3, <1>6, <1>7, <1>9, <2>1, ListedStep
  <1>11. (\/ Told("candidate", w.told) /\ Told("rollback", w.told)
          \/ Unlisted(w.told))'
    BY <1>3, <1>8, <1>9, StillTold
  <1>12. ChangeKept'
    BY <1>9, <1>10, <1>11 DEF ChangeKept, At
  <1>13. PreambleKept' /\ ExportKept' /\ CleanKept'
    BY <1>9 DEF PreambleKept, ExportKept, CleanKept, At, Building
  <1> QED BY <1>6, <1>9, <1>12, <1>13, Midway

LEMMA RemoveDoneKept ==
  ASSUME Kept, RemoveDone
  PROVE  DirsKept' /\ CommandKept'
  <1>1. PICK synced \in BOOLEAN :
          /\ synced => Unlinked # {}
          /\ Fsync(synced)
          /\ LET lost == IF Unlinked # {} /\ ~synced
                           THEN Unlinked \cup {Parent} ELSE {}
             IN  Finish(IF w.res \cup lost \cup w.told = {}
                          THEN "ok" ELSE "incomplete", lost)
    BY DEF RemoveDone
  <1>2. w.pc = "remove" /\ db' = db /\ w.todo = {}
    BY DEF RemoveDone, At
  <1>3. /\ w \in Commands /\ w.op = "change" /\ DirsSound /\ DirsKept /\ dir \in Dirs
        /\ \/ Told("candidate", w.told) /\ Told("rollback", w.told)
           \/ Unlisted(w.told)
        /\ \A f \in w.gone : Listed("final", f)
    BY <1>2, CommitFacts
  <1>4. DirsKept' /\ dir' = dir
    BY <1>1, <1>2, <1>3, FsyncKept
  <1>5. PICK lost : lost = IF Unlinked # {} /\ ~synced
                             THEN Unlinked \cup {Parent} ELSE {}
    OBVIOUS
  <1>6. PICK out : out = IF w.res \cup lost \cup w.told = {} THEN "ok" ELSE "incomplete"
    OBVIOUS
  <1>7. Finish(out, lost)
    BY <1>1, <1>5, <1>6
  <1>8. /\ w'.pc = "idle" /\ w'.out = out /\ w'.told = w.told /\ w'.op = "change"
        /\ w'.gone = w.gone /\ w'.unread = w.unread /\ w'.tried = w.tried
    BY <1>3, <1>7, FinishFacts
  <1>9. LeftoversReported'
    BY <1>3, <1>4, <1>8, StillTold
  <1>10. ASSUME w'.out = "ok", NEW f \in w'.gone
         PROVE  /\ dir["final"][f] = {} /\ dir["rollback"][f] = {}
                /\ w.tried # {} => synced
    <2>1. f \in Entities /\ f \in w.gone /\ w.res = {} /\ lost = {} /\ w.told = {}
      BY <1>3, <1>6, <1>8, <1>10 DEF Commands
    <2>2. dir["rollback"][f] = {}
      BY <1>3, <2>1 DEF Told, Unlisted
    <2>3. dir["final"][f] = {}
      BY <1>2, <1>3, <2>1 DEF Listed
    <2>4. w.tried # {} => synced
      BY <1>5, <2>1 DEF Unlinked
    <2> QED BY <2>2, <2>3, <2>4
  <1>11. ASSUME w'.out = "ok", NEW f \in w'.gone,
                NEW d \in IF w'.tried = {} THEN {dir'} ELSE disk'
         PROVE  d["final"][f] = {} /\ d["rollback"][f] = {}
    <2>1. f \in Entities
      BY <1>3, <1>8, <1>11 DEF Commands
    <2>2. CASE w.tried = {}
      BY <1>4, <1>8, <1>10, <1>11, <2>2
    <2>3. CASE w.tried # {}
      <3>1. disk' = {dir, Settled(dir)}
        BY <1>1, <1>10, <1>11, <2>3 DEF Fsync, Write
      <3>2. /\ Settled(dir)["final"][f] = {} <=> dir["final"][f] = {}
            /\ Settled(dir)["rollback"][f] = {} <=> dir["rollback"][f] = {}
        BY <1>3, <2>1, SettledFacts DEF Slots
      <3> QED BY <1>8, <1>10, <1>11, <2>3, <3>1, <3>2
    <2> QED BY <2>2, <2>3
  <1>12. DoneIsDurable'
    BY <1>8, <1>11 DEF DoneIsDurable
  <1> QED BY <1>4, <1>8, <1>9, <1>12, AtIdle

LEMMA InterruptKept ==
  ASSUME Kept, Interrupt
  PROVE  DirsKept' /\ CommandKept'
  <1>1. DirsKept' /\ dir' = dir /\ w \in Commands
    BY KeptFacts, DirsKeptSame DEF Interrupt
  <1>2. CASE w.pc \in {"build", "fill", "flush", "place", "swap"}
    <2>1. w' = [w EXCEPT !.pc = "clean", !.out = "interrupted"]
      BY <1>2 DEF Interrupt
    <2>2. w.op = "export" /\ (NoSibling("candidate") \/ OnlyOwn)
      BY <1>2, BuildingFacts DEF Building
    <2>3. /\ w'.pc = "clean" /\ w'.op = "export" /\ w'.out = "interrupted"
          /\ w'.ent = w.ent /\ w'.own = w.own
      BY <1>1, <2>1, <2>2 DEF Commands
    <2>4. \A e \in Entities : \A s \in dir'["candidate"][e] : Own(e, s)'
      BY <1>1, <2>2, <2>3 DEF NoSibling, OnlyOwn, Own
    <2> QED BY <1>1, <2>3, <2>4, CleaningKept
  <1>3. CASE w.pc \notin {"build", "fill", "flush", "place", "swap"}
    <2>1. PICK more : Finish("interrupted", more)
      BY <1>3 DEF Interrupt
    <2> QED BY <1>1, <2>1, FinishFacts, AtIdleSilent
  <1> QED BY <1>2, <1>3

LEMMA KillKept ==
  ASSUME Kept, Kill
  PROVE  DirsKept' /\ CommandKept'
  <1>1. DirsKept' /\ w' = NoCommand
    BY KeptFacts, DirsKeptSame DEF Kill
  <1> QED BY <1>1, AtIdleSilent DEF NoCommand

LEMMA PowerLossKept ==
  ASSUME Kept, PowerLoss
  PROVE  DirsKept' /\ CommandKept'
  <1>1. dir' \in disk /\ disk' = {dir'} /\ w' = NoCommand /\ db' = db /\ DirsKept
    BY KeptFacts DEF PowerLoss
  <1>2. DirsKept'
    BY <1>1 DEF DirsKept, Lone
  <1> QED BY <1>1, <1>2, AtIdleSilent DEF NoCommand

-----------------------------------------------------------------------------

LEMMA InitKept == Init => Kept
  <1> SUFFICES ASSUME Init PROVE Kept
    OBVIOUS
  <1>1. \A slot \in Slots, e \in Entities : Empty[slot][e] = {}
    BY DEF Empty
  <1>2. Lone(Empty)
    BY <1>1 DEF Lone, Slots
  <1>3. DirsKept
    BY <1>1, <1>2, NoEntityAssumption DEF Init, DirsKept
  <1>4. w.pc = "idle" /\ w.out = "none"
    BY DEF Init, NoCommand
  <1>5. CommandKept
    BY <1>4 DEF CommandKept, PreambleKept, ExportKept, CleanKept, ChangeKept,
                LeftoversReported, DoneIsDurable, At, Building
  <1> QED BY <1>3, <1>5, InitSound DEF Kept

LEMMA StutterKept ==
  ASSUME Kept, UNCHANGED vars
  PROVE  DirsKept' /\ CommandKept'
  <1>1. DirsKept'
    BY KeptFacts, DirsKeptSame DEF vars
  <1>2. PreambleKept' /\ CleanKept'
    BY KeptFacts DEF vars, CommandKept, PreambleKept, CleanKept, At, Listed, Told, Own,
         Unlisted
  <1>3. ExportKept'
    BY KeptFacts DEF vars, CommandKept, ExportKept, At, Building, Listed, NoSibling,
         FinalValid, FinalAbsent, OthersGone, OnlyOwn, Own, Faithful, RollbackOwn, Flushed
  <1>4. ChangeKept'
    BY KeptFacts DEF vars, CommandKept, ChangeKept, At, Listed, Told, Unlisted
  <1>5. LeftoversReported' /\ DoneIsDurable'
    BY KeptFacts DEF vars, CommandKept, LeftoversReported, DoneIsDurable, At, Siblings,
         FinalValid
  <1> QED BY <1>1, <1>2, <1>3, <1>4, <1>5 DEF CommandKept

LEMMA PreambleStepKept == Kept /\ Preamble => DirsKept' /\ CommandKept'
  BY ListParentKept, ListingFailsKept, RecoverRaisesKept, ReclaimCandidateKept, ReclaimDoneKept, RestoreRollbackKept, DropRollbackKept,
     LeaveRollbackKept, RecoverDoneKept DEF Preamble

LEMMA ExportStepKept == Kept /\ IInv' /\ Export => DirsKept' /\ CommandKept'
  <1>1. IInv' => DirsSound'
    BY DEF IInv, TypeOK, DirsSound
  <1> QED
    BY <1>1, SelectKept, SweepStaleKept, SweepUnreadKept, SweepRaisesKept,
       SweepDoneKept, MakeCandidateKept,
       FillCandidateKept, FlushCandidateKept, SwapInKept, BuildFailsKept,
       CleanCandidateKept, AbortOverResidualKept, ReuseFinalKept, MoveAsideKept,
       NothingThereKept, SwapFailsKept, SettlePublishedKept, DiscardRollbackKept,
       ConfirmKept DEF Export

LEMMA ChangeStepKept == Kept /\ Change => DirsKept' /\ CommandKept'
  BY AmendKept, SupersedeKept, RollBackKept, RemoveSetKept, RemoveDoneKept DEF Change

LEMMA KeptInductive == Kept /\ [Next]_vars => Kept'
  <1> SUFFICES ASSUME Kept, [Next]_vars PROVE Kept'
    OBVIOUS
  <1>1. IInv'
    BY Inductive DEF Kept
  <1>2. DirsKept' /\ CommandKept'
    BY <1>1, StutterKept, BeginKept, PreambleStepKept, ExportStepKept, ChangeStepKept,
       InterruptKept, KillKept, PowerLossKept DEF Next, CommandStep
  <1> QED BY <1>1, <1>2 DEF Kept

LEMMA KeptAlways == Spec => []Kept
  BY InitKept, KeptInductive, PTL DEF Spec

-----------------------------------------------------------------------------
(* What the runs check, for every instance.                                *)

(* A command that ends on its own has named every candidate and rollback   *)
(* it leaves in the directory, or the parent it could not list.            *)
THEOREM LeftoversReportedHolds == Spec => []LeftoversReported
  <1>1. Kept => LeftoversReported
    BY DEF Kept, CommandKept
  <1> QED BY <1>1, KeptAlways, PTL

(* No power failure takes back what an export or an invalidation reported  *)
(* as done: for the removals an invalidation made itself, and but for the  *)
(* sets an export could not read.                                          *)
THEOREM DoneIsDurableHolds == Spec => []DoneIsDurable
  <1>1. Kept => DoneIsDurable
    BY DEF Kept, CommandKept
  <1> QED BY <1>1, KeptAlways, PTL

LEMMA AtMostOne ==
  ASSUME NEW S, \A x, y \in S : x = y
  PROVE  Cardinality(S) <= 1
  <1>1. CASE S = {}
    BY <1>1, FS_EmptySet
  <1>2. CASE S # {}
    <2>1. PICK x \in S : S = {x}
      BY <1>2
    <2> QED BY <2>1, FS_Singleton
  <1> QED BY <1>1, <1>2

(* Neither running nor after a power failure are there two sets under one  *)
(* final name, two candidates or two rollbacks: reconciliation never meets *)
(* an ambiguity its own commands made.                                     *)
THEOREM OneSiblingHolds == Spec => []OneSibling
  <1>1. ASSUME NEW d, Lone(d)
        PROVE  OneSiblingIn(d)
    <2>1. \A e \in Entities : Cardinality(d["final"][e]) <= 1
      BY <1>1, AtMostOne DEF Lone, Slots
    <2>2. ASSUME NEW slot \in {"candidate", "rollback"}
          PROVE  Cardinality(Siblings(d, slot)) <= 1
      <3>1. \A x \in Siblings(d, slot) :
              \E e \in Entities : \E s \in d[slot][e] : x = <<e, s>>
        BY DEF Siblings
      <3>2. \A x, y \in Siblings(d, slot) : x = y
        BY <1>1, <3>1 DEF Lone, Slots
      <3> QED BY <3>2, AtMostOne
    <2> QED BY <2>1, <2>2 DEF OneSiblingIn
  <1>2. Kept => OneSibling
    BY <1>1, KeptFacts DEF OneSibling
  <1> QED BY <1>2, KeptAlways, PTL

-----------------------------------------------------------------------------
(* The refinement: what a directory promises is read off its final and     *)
(* rollback names, and a power failure to one of `disk` is one to a stable *)
(* store.                                                                  *)

LEMMA RecoverableLone ==
  ASSUME NEW d \in Dirs, Lone(d), NEW e \in Entities
  PROVE  Recoverable(d, e) = IF FinalAbsent(d, e) THEN {s \in d["rollback"][e] : Valid(s)}
                                                  ELSE {s \in d["final"][e] : Valid(s)}
  <1>1. CASE d["rollback"][e] = {}
    BY <1>1 DEF Recoverable
  <1>2. CASE d["rollback"][e] # {}
    <2>1. PICK s \in d["rollback"][e] : d["rollback"][e] = {s}
      BY <1>2 DEF Lone, Slots
    <2>2. Cardinality(d["rollback"][e]) = 1
      BY <2>1, FS_Singleton
    <2> QED BY <2>2 DEF Recoverable
  <1> QED BY <1>1, <1>2

LEMMA RecoveredType ==
  ASSUME NEW d \in Dirs
  PROVE  \A e \in Entities : Recovered(d)[e] \in SUBSET Renders
  <1>1. \A e \in Entities : Recoverable(d, e) \in SUBSET Sets
    BY DEF Recoverable, Dirs, Slots
  <1> QED BY <1>1 DEF Recovered, Sets

(* A set moved between the final and the rollback name, the other empty.   *)
LEMMA MovedRecovered ==
  ASSUME NEW d \in Dirs, Lone(d), NEW from \in {"final", "rollback"},
         NEW to \in {"final", "rollback"} \ {from}, NEW e \in Entities,
         NEW s \in d[from][e], d[to][e] = {}, Lone(Moved(d, from, to, e, s))
  PROVE  Recovered(Moved(d, from, to, e, s)) = Recovered(d)
  <1>1. PICK m : m = Moved(d, from, to, e, s)
    OBVIOUS
  <1>2. from \in Slots /\ to \in Slots /\ d[from][e] = {s} /\ s \in Sets
    BY Alone DEF Slots
  <1>3. \A t \in Slots, f \in Entities :
          /\ t = from /\ f = e => m[t][f] = {}
          /\ t = to /\ f = e => m[t][f] = {s}
          /\ (f # e \/ t \notin {from, to}) => m[t][f] = d[t][f]
    BY <1>1, <1>2, MovedFacts
  <1>4. m \in Dirs
    BY <1>1, <1>2, PutFacts DEF Moved
  <1>5. Recoverable(m, e) = Recoverable(d, e)
    <2>1. /\ Recoverable(d, e) = IF d["final"][e] = {} THEN {x \in d["rollback"][e] : Valid(x)}
                                                      ELSE {x \in d["final"][e] : Valid(x)}
          /\ Recoverable(m, e) = IF m["final"][e] = {} THEN {x \in m["rollback"][e] : Valid(x)}
                                                      ELSE {x \in m["final"][e] : Valid(x)}
      BY <1>1, <1>4, RecoverableLone DEF FinalAbsent
    <2>2. CASE from = "final"
      <3>1. /\ m["final"][e] = {} /\ m["rollback"][e] = {s}
            /\ d["final"][e] = {s} /\ d["rollback"][e] = {}
        BY <1>2, <1>3, <2>2 DEF Slots
      <3> QED BY <2>1, <3>1
    <2>3. CASE from = "rollback"
      <3>1. /\ m["final"][e] = {s} /\ m["rollback"][e] = {}
            /\ d["final"][e] = {} /\ d["rollback"][e] = {s}
        BY <1>2, <1>3, <2>3 DEF Slots
      <3> QED BY <2>1, <3>1
    <2> QED BY <2>2, <2>3
  <1>6. \A f \in Entities \ {e} : Recoverable(m, f) = Recoverable(d, f)
    BY <1>3 DEF Recoverable, FinalAbsent, Slots
  <1> QED BY <1>1, <1>5, <1>6 DEF Recovered


(* A change beside a final set, or at a candidate name, promises the same. *)
LEMMA SameRecovered ==
  ASSUME NEW d, NEW f,
         \A e \in Entities :
           /\ d["final"][e] = f["final"][e]
           /\ d["rollback"][e] = f["rollback"][e] \/ f["final"][e] # {}
  PROVE  Recovered(d) = Recovered(f)
  <1>1. \A e \in Entities : Recoverable(d, e) = Recoverable(f, e)
    BY DEF Recoverable, FinalAbsent
  <1> QED BY <1>1 DEF Recovered

LEMMA SettledRecovered ==
  ASSUME NEW d \in Dirs, Sound(d)
  PROVE  Recovered(Settled(d)) = Recovered(d)
  BY SettledFacts, SameRecovered

Stable == {Recovered(d) : d \in disk}

LEMMA WriteRecovered ==
  ASSUME NEW d \in Dirs, Sound(d), NEW between, NEW synced \in BOOLEAN,
         Write(d, between, synced)
  PROVE  /\ Recovered(dir') = Recovered(d)
         /\ Stable' = IF synced THEN {Recovered(d)}
                      ELSE Stable \cup {Recovered(x) : x \in between} \cup {Recovered(d)}
  <1>1. dir' = d /\ Recovered(Settled(d)) = Recovered(d)
    BY SettledRecovered DEF Write
  <1>2. Stable' = {Recovered(x) : x \in disk'}
    BY DEF Stable
  <1>3. CASE synced
    <2>1. disk' = {d, Settled(d)}
      BY <1>3 DEF Write
    <2> QED BY <1>1, <1>2, <1>3, <2>1
  <1>4. CASE ~ synced
    <2>1. disk' = disk \cup between \cup {d, Settled(d)}
      BY <1>4 DEF Write
    <2> QED BY <1>1, <1>2, <1>4, <2>1 DEF Stable
  <1> QED BY <1>1, <1>3, <1>4

LEMMA Unmoved ==
  ASSUME UNCHANGED <<dir, disk, db>>
  PROVE  UNCHANGED Store!vars
  BY DEF Store!vars

(* A write that leaves every promise alone is a flush or nothing.          *)
LEMMA QuietWrite ==
  ASSUME Kept, db' = db, NEW d \in Dirs, Sound(d), NEW between, NEW synced \in BOOLEAN,
         Write(d, between, synced), Recovered(d) = Recovered(dir),
         \A x \in between : Recovered(x) = Recovered(dir)
  PROVE  [Store!Next]_(Store!vars)
  <1>1. Recovered(dir) \in Stable
    BY DEF Kept, DirsKept, Stable
  <1>2. /\ Recovered(dir') = Recovered(dir)
        /\ Stable' = IF synced THEN {Recovered(d)}
                     ELSE Stable \cup {Recovered(x) : x \in between} \cup {Recovered(d)}
    BY WriteRecovered
  <1>3. CASE synced
    <2>1. Store!Flush
      BY <1>2, <1>3 DEF Store!Flush, Stable
    <2> QED BY <2>1 DEF Store!Next
  <1>4. CASE ~ synced
    <2>1. Stable' = Stable
      BY <1>1, <1>2, <1>4
    <2> QED BY <1>2, <2>1 DEF Store!vars, Stable
  <1> QED BY <1>3, <1>4

LEMMA QuietFsync ==
  ASSUME Kept, db' = db, NEW synced \in BOOLEAN, Fsync(synced)
  PROVE  [Store!Next]_(Store!vars)
  BY KeptFacts, QuietWrite DEF Fsync

(* Changing one set under a candidate name, or under the rollback name     *)
(* beside a final set.                                                     *)
LEMMA QuietPut ==
  ASSUME Kept, db' = db, NEW slot \in {"candidate", "rollback"}, NEW e \in Entities,
         NEW s, NEW left \in SUBSET Sets, NEW synced \in BOOLEAN,
         slot = "rollback" => dir["final"][e] # {}
  PROVE  Recovered(Put(dir, slot, e, s, left)) = Recovered(dir)
  <1>1. PICK p : p = Put(dir, slot, e, s, left)
    OBVIOUS
  <1>2. \A t \in Slots, f \in Entities : t # slot \/ f # e => p[t][f] = dir[t][f]
    BY <1>1, KeptFacts, PutFacts DEF Slots
  <1>3. \A f \in Entities :
           /\ p["final"][f] = dir["final"][f]
           /\ p["rollback"][f] = dir["rollback"][f] \/ dir["final"][f] # {}
    BY <1>2 DEF Slots
  <1> QED BY <1>1, <1>3, SameRecovered

LEMMA QuietRemoval ==
  ASSUME Kept, db' = db, NEW slot \in {"candidate", "rollback"}, NEW e \in Entities,
         NEW s \in dir[slot][e], NEW left \in Remains(s), NEW synced \in BOOLEAN,
         slot = "rollback" => dir["final"][e] # {},
         RemoveTree(slot, e, s, left, synced)
  PROVE  [Store!Next]_(Store!vars)
  <1>1. s \in Sets /\ slot \in Slots
    BY KeptFacts DEF Dirs, Slots
  <1>2. left \in SUBSET Sets /\ {Torn(s)} \in SUBSET Sets
    BY <1>1, TornType DEF Remains
  <1>3. /\ Recovered(Put(dir, slot, e, s, left)) = Recovered(dir)
        /\ Recovered(Put(dir, slot, e, s, {Torn(s)})) = Recovered(dir)
    BY <1>2, QuietPut
  <1>4. PICK p : p = Put(dir, slot, e, s, left)
    OBVIOUS
  <1>5. PICK between :
          between = IF left = {s} THEN {} ELSE {Put(dir, slot, e, s, {Torn(s)})}
    OBVIOUS
  <1>6. Write(p, between, synced)
    BY <1>4, <1>5 DEF RemoveTree
  <1>7. p \in Dirs /\ Sound(p)
    <2>1. Known(e, s) /\ Sound(dir) /\ dir \in Dirs
      BY <1>1, KeptFacts DEF Sound
    <2>2. slot # "candidate" => s.stage # "written"
      BY <2>1 DEF Sound
    <2>3. \A x \in left : /\ slot # "candidate" => x.stage # "written"
                          /\ x.render = s.render
      BY <1>1, <2>2, TornType DEF Remains
    <2>4. \A x \in left : Known(e, x)
      BY <2>1, <2>3, SameRender
    <2>5. slot # "final"
      OBVIOUS
    <2> QED BY <1>1, <1>2, <1>4, <2>1, <2>3, <2>4, <2>5, PutSound
  <1> QED BY <1>3, <1>4, <1>5, <1>6, <1>7, QuietWrite


LEMMA QuietCandidate ==
  ASSUME Kept, db' = db, NEW e \in Entities, e = db.current, NEW s,
         NEW left \in SUBSET Sets, \A x \in left : Known(e, x), NEW synced \in BOOLEAN,
         Write(Put(dir, "candidate", e, s, left), {}, synced)
  PROVE  [Store!Next]_(Store!vars)
  <1>1. "candidate" \in Slots /\ "candidate" \in {"candidate", "rollback"} /\ "candidate" # "final"
    BY DEF Slots
  <1>2. PICK p : p = Put(dir, "candidate", e, s, left)
    OBVIOUS
  <1>3. p \in Dirs /\ Sound(p)
    BY <1>1, <1>2, KeptFacts, PutSound
  <1>4. Recovered(p) = Recovered(dir)
    BY <1>1, <1>2, QuietPut
  <1> QED BY <1>2, <1>3, <1>4, QuietWrite

(* A complete set goes aside, or back.                                     *)
LEMMA MoveRecovered ==
  ASSUME Kept, NEW from \in {"final", "rollback"}, NEW to \in {"final", "rollback"},
         from # to, NEW e \in Entities, NEW s \in dir[from][e], Valid(s), dir[to][e] = {},
         to = "rollback" => \A f \in Entities : dir["rollback"][f] = {}
  PROVE  /\ Moved(dir, from, to, e, s) \in Dirs
         /\ Sound(Moved(dir, from, to, e, s))
         /\ Recovered(Moved(dir, from, to, e, s)) = Recovered(dir)
  <1>1. /\ dir \in Dirs /\ Sound(dir) /\ Lone(dir)
        /\ from \in Slots /\ to \in Slots /\ to \in {"final", "rollback"} \ {from}
    BY KeptFacts DEF Slots
  <1>2. s.stage = "flushed"
    BY <1>1 DEF Valid, Sound, Dirs, Slots, Sets, Stages
  <1>3. Moved(dir, from, to, e, s) \in Dirs /\ Sound(Moved(dir, from, to, e, s))
    BY <1>1, <1>2, MovedSound
  <1>4. Lone(Moved(dir, from, to, e, s))
    BY <1>1, MovedLone
  <1>5. Recovered(Moved(dir, from, to, e, s)) = Recovered(dir)
    BY <1>1, <1>4, MovedRecovered
  <1> QED BY <1>3, <1>5

LEMMA QuietMove ==
  ASSUME Kept, db' = db, NEW from \in {"final", "rollback"},
         NEW to \in {"final", "rollback"}, from # to, NEW e \in Entities,
         NEW s \in dir[from][e], Valid(s), dir[to][e] = {},
         to = "rollback" => \A f \in Entities : dir["rollback"][f] = {},
         NEW synced \in BOOLEAN, Write(Moved(dir, from, to, e, s), {}, synced)
  PROVE  [Store!Next]_(Store!vars)
  <1>1. PICK p : p = Moved(dir, from, to, e, s)
    OBVIOUS
  <1>2. p \in Dirs /\ Sound(p) /\ Recovered(p) = Recovered(dir)
    BY <1>1, MoveRecovered
  <1>3. Write(p, {}, synced)
    BY <1>1
  <1> QED BY <1>2, <1>3, QuietWrite

(* What a directory may hold of a snapshot whose sets are all outdated is  *)
(* what the store may withdraw.                                            *)
LEMMA OutdatedDue ==
  ASSUME Kept, NEW e \in Entities, NEW d \in Dirs,
         \A s \in d["final"][e] \cup d["rollback"][e] : Outdated(e, s)
  PROVE  Recovered(d)[e] \in SUBSET Store!Due(e)
  <1>1. \A s \in Recoverable(d, e) : s \in Sets /\ Outdated(e, s)
    <2>1. Recoverable(d, e) \subseteq d["final"][e] \cup d["rollback"][e]
      BY DEF Recoverable
    <2>2. d["final"][e] \cup d["rollback"][e] \subseteq Sets
      BY DEF Dirs, Slots
    <2> QED BY <2>1, <2>2
  <1>2. e = db.current => e \notin db.spent
    BY DEF Kept, DirsKept
  <1>3. Recovered(d)[e] = {s.render : s \in Recoverable(d, e)}
    BY DEF Recovered
  <1>4. \A s \in Recoverable(d, e) : s.render \in Store!Due(e)
    BY <1>1, <1>2 DEF Outdated, Sets, Renders, Store!Due, Store!Renders
  <1> QED BY <1>3, <1>4

(* A set that is outdated is removed, or damaged on the way.               *)
LEMMA FinalRemovalMaps ==
  ASSUME Kept, db' = db, NEW e \in Entities, NEW s \in dir["final"][e],
         \A x \in dir["final"][e] \cup dir["rollback"][e] : Outdated(e, x),
         NEW left \in Remains(s), NEW synced \in BOOLEAN,
         synced = FALSE, RemoveTree("final", e, s, left, synced)
  PROVE  Store!Next
  <1>1. s \in Sets /\ "final" \in Slots /\ dir \in Dirs
    BY KeptFacts DEF Dirs, Slots
  <1>2. left \in SUBSET Sets /\ {Torn(s)} \in SUBSET Sets
    BY <1>1, TornType DEF Remains
  <1>3. ASSUME NEW x \in SUBSET Sets, \A y \in x : y.render = s.render
        PROVE  Recovered(Put(dir, "final", e, s, x)) \in
                 {[Recovered(dir) EXCEPT ![e] = some] : some \in SUBSET Store!Due(e)}
    <2>1. PICK p : p = Put(dir, "final", e, s, x)
      OBVIOUS
    <2>2. /\ p \in Dirs
          /\ \A t \in Slots, f \in Entities :
               /\ t = "final" /\ f = e => p[t][f] = (dir["final"][e] \ {s}) \cup x
               /\ t # "final" \/ f # e => p[t][f] = dir[t][f]
      BY <1>1, <2>1, PutFacts
    <2>3. \A f \in Entities \ {e} : Recoverable(p, f) = Recoverable(dir, f)
      BY <2>2 DEF Recoverable, FinalAbsent, Slots
    <2>4. Recovered(p) = [Recovered(dir) EXCEPT ![e] = Recovered(p)[e]]
      BY <2>3 DEF Recovered
    <2>5. \A y \in p["final"][e] \cup p["rollback"][e] : Outdated(e, y)
      <3>1. /\ p["final"][e] = (dir["final"][e] \ {s}) \cup x
            /\ p["rollback"][e] = dir["rollback"][e]
        BY <2>2 DEF Slots
      <3>2. \A y \in x : Outdated(e, y)
        BY <1>3 DEF Outdated
      <3> QED BY <3>1, <3>2
    <2>6. Recovered(p)[e] \in SUBSET Store!Due(e)
      BY <2>2, <2>5, OutdatedDue
    <2> QED BY <2>1, <2>4, <2>6
  <1>4. PICK p : p = Put(dir, "final", e, s, left)
    OBVIOUS
  <1>5. PICK between :
          between = IF left = {s} THEN {} ELSE {Put(dir, "final", e, s, {Torn(s)})}
    OBVIOUS
  <1>6. Write(p, between, synced)
    BY <1>4, <1>5 DEF RemoveTree
  <1>7. p \in Dirs /\ Sound(p)
    <2>1. s.stage # "written" /\ Known(e, s) /\ Outdated(e, s) /\ Sound(dir)
      BY <1>1, KeptFacts DEF Sound
    <2>2. \A x \in left : x.stage # "written" /\ x.render = s.render
      BY <1>1, <2>1, TornType DEF Remains
    <2>3. \A x \in left : Known(e, x) /\ Outdated(e, x)
      BY <2>1, <2>2, SameRender
    <2> QED BY <1>1, <1>2, <1>4, <2>1, <2>2, <2>3, PutSound
  <1>8. /\ Recovered(dir') = Recovered(p)
        /\ Stable' = Stable \cup {Recovered(x) : x \in between} \cup {Recovered(p)}
    BY <1>6, <1>7, WriteRecovered
  <1> DEFINE ways == {[Recovered(dir) EXCEPT ![e] = some] : some \in SUBSET Store!Due(e)}
  <1>9. Recovered(p) \in ways /\ \A x \in between : Recovered(x) \in ways
    <2>1. /\ \A y \in left : y.render = s.render
          /\ \A y \in {Torn(s)} : y.render = s.render
      BY <1>1 DEF Remains, Torn, Sets
    <2> QED BY <1>2, <1>3, <1>4, <1>5, <2>1
  <1>10. {Recovered(x) : x \in between} \cup {Recovered(p)} \in SUBSET ways
    BY <1>9
  <1>11. \E some \in SUBSET Store!Due(e) : Recovered(p) = [Recovered(dir) EXCEPT ![e] = some]
    BY <1>9
  <1>12. \E more \in SUBSET ways : Stable' = Stable \cup more
    BY <1>8, <1>10
  <1>13. Recovered(dir)[e] \subseteq Store!Due(e)
    BY <1>1, OutdatedDue
  <1>14. Store!Withdraw(e)
    <2>1. \E some \in SUBSET Store!Due(e) :
            Recovered(dir') = [Recovered(dir) EXCEPT ![e] = some]
      BY <1>8, <1>11
    <2>2. UNCHANGED <<db.current, db.spent, db.render>>
      OBVIOUS
    <2> QED BY <1>12, <1>13, <2>1, <2>2 DEF Store!Withdraw, Stable
  <1> QED BY <1>14 DEF Store!Next

-----------------------------------------------------------------------------
(* The actions.                                                            *)

LEMMA PreambleMaps ==
  ASSUME Kept, Preamble
  PROVE  [Store!Next]_(Store!vars)
  <1>1. ASSUME NEW e \in Entities, NEW s \in dir["candidate"][e], ReclaimCandidate(e, s)
        PROVE  [Store!Next]_(Store!vars)
    <2>1. PICK left \in Remains(s), synced \in BOOLEAN :
            RemoveTree("candidate", e, s, left, synced) /\ db' = db
      BY <1>1 DEF ReclaimCandidate
    <2> QED BY <2>1, QuietRemoval
  <1>2. ASSUME NEW e \in Entities, NEW s \in dir["rollback"][e], RestoreRollback(e, s)
        PROVE  [Store!Next]_(Store!vars)
    <2>1. PICK renamed \in BOOLEAN, synced \in BOOLEAN :
            Write(IF renamed THEN Moved(dir, "rollback", "final", e, s) ELSE dir,
                  {}, synced)
      BY <1>2 DEF RestoreRollback
    <2>2. db' = db /\ dir["final"][e] = {} /\ Valid(s)
      BY <1>2 DEF RestoreRollback, Restorable, FinalAbsent
    <2>3. CASE renamed
      <3>1. Write(Moved(dir, "rollback", "final", e, s), {}, synced)
        BY <2>1, <2>3
      <3> QED BY <2>2, <3>1, QuietMove
    <2>4. CASE ~ renamed
      <3>1. Fsync(synced)
        BY <2>1, <2>4 DEF Fsync
      <3> QED BY <2>2, <3>1, QuietFsync
    <2> QED BY <2>3, <2>4
  <1>3. ASSUME NEW e \in Entities, NEW s \in dir["rollback"][e], DropRollback(e, s)
        PROVE  [Store!Next]_(Store!vars)
    <2>1. PICK left \in Remains(s), synced \in BOOLEAN :
            RemoveTree("rollback", e, s, left, synced)
      BY <1>3 DEF DropRollback
    <2>2. db' = db /\ dir["final"][e] # {}
      BY <1>3 DEF DropRollback, FinalValid
    <2> QED BY <2>1, <2>2, QuietRemoval
  <1>4. ASSUME ListParent \/ ListingFails \/ ReclaimDone \/ RecoverRaises \/ RecoverDone \/
               \E e \in Entities : \E s \in dir["rollback"][e] : LeaveRollback(e, s)
        PROVE  [Store!Next]_(Store!vars)
    BY <1>4, Unmoved DEF ListParent, ListingFails, ReclaimDone, RecoverRaises, RecoverDone,
         LeaveRollback
  <1> QED BY <1>1, <1>2, <1>3, <1>4 DEF Preamble


LEMMA CandidateMaps ==
  ASSUME Kept,
         \/ \E i \in Inodes : MakeCandidate(i)
         \/ \E s \in dir["candidate"][w.ent] : FillCandidate(s) \/ FlushCandidate(s)
         \/ CleanCandidate
  PROVE  [Store!Next]_(Store!vars)
  <1>1. w.pc \in {"build", "fill", "flush", "clean"} /\ db' = db
    BY DEF MakeCandidate, FillCandidate, FlushCandidate, CleanCandidate, At
  <1>2. w.ent \in Entities /\ w.ent = db.current /\ db \in Databases /\ dir \in Dirs
    BY <1>1, KeptFacts, ExportFacts DEF Building
  <1>3. PICK e \in Entities : e = w.ent
    BY <1>2
  <1>4. ASSUME NEW i \in Inodes, MakeCandidate(i)
        PROVE  [Store!Next]_(Store!vars)
    <2>1. PICK c : c = Candidate(i, "partial")
      OBVIOUS
    <2>2. PICK synced \in BOOLEAN : Write(Put(dir, "candidate", e, c, {c}), {}, synced)
      BY <1>3, <1>4, <2>1 DEF MakeCandidate
    <2>3. {c} \in SUBSET Sets
      BY <1>2, <2>1, CandidateType DEF Stages
    <2>4. c.render = db.render /\ db.render \in Nat
      BY <1>2, <2>1 DEF Candidate, Databases, Renders
    <2>5. Known(e, c)
      BY <1>2, <1>3, <2>4 DEF Known
    <2> QED BY <1>1, <1>2, <1>3, <2>2, <2>3, <2>5, QuietCandidate
  <1>5. ASSUME NEW s \in dir["candidate"][w.ent], FillCandidate(s) \/ FlushCandidate(s)
        PROVE  [Store!Next]_(Store!vars)
    <2>1. PICK stage \in {"written", "flushed"}, synced \in BOOLEAN :
            Write(Put(dir, "candidate", e, s, {[s EXCEPT !.stage = stage]}), {}, synced)
      BY <1>3, <1>5 DEF FillCandidate, FlushCandidate
    <2>2. s \in Sets
      BY <1>2 DEF Dirs, Slots
    <2>3. {[s EXCEPT !.stage = stage]} \in SUBSET Sets
      BY <2>2 DEF Sets, Stages
    <2>4. Known(e, [s EXCEPT !.stage = stage])
      <3>1. Known(e, s)
        BY <1>3, <1>5, KeptFacts DEF Sound, Slots
      <3>2. [s EXCEPT !.stage = stage].render = s.render
        BY <2>2 DEF Sets
      <3> QED BY <3>1, <3>2, SameRender
    <2> QED BY <1>1, <1>2, <1>3, <2>1, <2>3, <2>4, QuietCandidate
  <1>6. CASE CleanCandidate
    <2>1. CASE UNCHANGED <<dir, disk>>
      BY <1>1, <2>1, Unmoved
    <2>2. ASSUME NEW s \in OwnCandidates, NEW left \in Remains(s),
                 RemoveTree("candidate", w.ent, s, left, FALSE)
          PROVE  [Store!Next]_(Store!vars)
      <3>1. PICK synced \in BOOLEAN : RemoveTree("candidate", e, s, left, synced)
        BY <1>3, <2>2
      <3>2. s \in dir["candidate"][e]
        BY <1>3 DEF OwnCandidates
      <3> QED BY <1>1, <3>1, <3>2, QuietRemoval
    <2> QED BY <1>6, <2>1, <2>2 DEF CleanCandidate
  <1> QED BY <1>4, <1>5, <1>6

LEMMA ReuseFinalMaps ==
  ASSUME Kept, NEW s, NEW c, ReuseFinal(s, c)
  PROVE  [Store!Next]_(Store!vars)
  <1>1. w.pc = "place" /\ db' = db
    BY DEF ReuseFinal, At
  <1>2. PICK e \in Entities : e = w.ent
    BY <1>1, KeptFacts, ExportFacts DEF Building
  <1>3. PICK left \in Remains(c), synced \in BOOLEAN :
          RemoveTree("candidate", e, c, left, synced)
    BY <1>2 DEF ReuseFinal
  <1>4. c \in dir["candidate"][e]
    BY <1>2 DEF ReuseFinal, OwnCandidates
  <1> QED BY <1>1, <1>3, <1>4, QuietRemoval

LEMMA MoveAsideMaps ==
  ASSUME Kept, NEW s, NEW c, MoveAside(s, c)
  PROVE  [Store!Next]_(Store!vars)
  <1>1. w.pc = "place" /\ db' = db /\ s \in dir["final"][w.ent] /\ Valid(s)
    BY DEF MoveAside, At, FinalValid
  <1>2. PICK e \in Entities : e = w.ent
    BY <1>1, KeptFacts, ExportFacts DEF Building
  <1>3. \A f \in Entities : dir["rollback"][f] = {}
    BY <1>1, KeptFacts, ExportFacts DEF Building, NoRollback
  <1>4. PICK aside : aside = Moved(dir, "final", "rollback", e, s)
    OBVIOUS
  <1>5. /\ aside \in Dirs /\ Sound(aside) /\ Recovered(aside) = Recovered(dir)
    BY <1>1, <1>2, <1>3, <1>4, MoveRecovered
  <1>6. \E synced \in BOOLEAN :
          Write(aside, {}, synced) \/ Write(dir, {}, synced) \/ Write(dir, {aside}, synced)
    BY <1>2, <1>4 DEF MoveAside
  <1>7. PICK synced \in BOOLEAN :
          Write(aside, {}, synced) \/ Write(dir, {}, synced) \/ Write(dir, {aside}, synced)
    BY <1>6
  <1>8. dir \in Dirs /\ Sound(dir)
    BY KeptFacts
  <1> QED BY <1>1, <1>5, <1>7, <1>8, QuietWrite

(* The visibility commit point publishes the rendering of the database.    *)
LEMMA SwapInMaps ==
  ASSUME Kept, NEW c, SwapIn(c)
  PROVE  Store!Next
  <1>1. /\ w.pc = "swap" /\ db' = db /\ c \in dir["candidate"][w.ent] /\ c \in w.own
        /\ dir["final"][w.ent] = {}
    BY DEF SwapIn, At, OwnCandidates, FinalAbsent
  <1>2. /\ w.ent = db.current /\ dir \in Dirs /\ Sound(dir) /\ Lone(dir) /\ Faithful
        /\ c.stage = "flushed" /\ db \in Databases
    BY <1>1, KeptFacts, BuildingFacts, PlaceFacts DEF Building
  <1>3. PICK e \in Entities, synced \in BOOLEAN : e = w.ent /\ synced = FALSE
    BY <1>1, KeptFacts, ExportFacts DEF Building
  <1>4. PICK m : m = Moved(dir, "candidate", "final", e, c)
    OBVIOUS
  <1>5. Write(m, {}, synced)
    BY <1>3, <1>4 DEF SwapIn
  <1>6. m \in Dirs /\ Sound(m)
    BY <1>1, <1>2, <1>3, <1>4, MovedSound DEF Slots
  <1>7. /\ m["final"][e] = {c}
        /\ \A f \in Entities \ {e} : /\ m["final"][f] = dir["final"][f]
                                     /\ m["rollback"][f] = dir["rollback"][f]
    <2>1. /\ "candidate" \in Slots /\ "final" \in Slots /\ "candidate" # "final"
          /\ c \in dir["candidate"][e] /\ dir["final"][e] = {}
      BY <1>1, <1>3 DEF Slots
    <2>2. \A t \in Slots, f \in Entities :
            /\ t = "final" /\ f = e => m[t][f] = dir["final"][e] \cup {c}
            /\ t \notin {"candidate", "final"} \/ f # e => m[t][f] = dir[t][f]
      BY <1>2, <1>4, <2>1, MovedFacts
    <2> QED BY <2>1, <2>2 DEF Slots
  <1>8. Recoverable(m, e) = {c}
    BY <1>2, <1>7 DEF Recoverable, FinalAbsent, Valid
  <1>9. \A f \in Entities \ {e} : Recoverable(m, f) = Recoverable(dir, f)
    BY <1>7 DEF Recoverable, FinalAbsent
  <1>10. c.render = db.render
    BY <1>1, <1>2 DEF Faithful
  <1>11. Recovered(m) = [Recovered(dir) EXCEPT ![e] = {db.render}]
    <2>1. {s.render : s \in Recoverable(m, e)} = {db.render}
      BY <1>8, <1>10
    <2>2. \A f \in Entities : Recovered(m)[f] = IF f = e THEN {db.render} ELSE Recovered(dir)[f]
      BY <1>9, <2>1 DEF Recovered
    <2> QED BY <2>2 DEF Recovered
  <1>12. Recovered(dir') = Recovered(m) /\ Stable' = Stable \cup {Recovered(m)}
    BY <1>3, <1>5, <1>6, WriteRecovered
  <1>13. Store!Publish
    BY <1>1, <1>2, <1>3, <1>11, <1>12 DEF Store!Publish, Stable
  <1> QED BY <1>13 DEF Store!Next

LEMMA SwapFailsMaps ==
  ASSUME Kept, SwapFails
  PROVE  [Store!Next]_(Store!vars)
  <1>1. w.pc = "swap" /\ db' = db
    BY DEF SwapFails, At
  <1>2. /\ dir["final"][w.ent] = {}
        /\ \A e \in Entities : \A s \in dir["rollback"][e] : s.stage = "flushed"
    BY <1>1, KeptFacts, BuildingFacts, PlaceFacts DEF Building, FinalAbsent
  <1>3. PICK e \in Entities : e = w.ent
    BY <1>1, KeptFacts, ExportFacts DEF Building
  <1>4. CASE UNCHANGED <<dir, disk>>
    BY <1>1, <1>4, Unmoved
  <1>5. ASSUME NEW s \in dir["rollback"][w.ent], NEW restored \in BOOLEAN,
               NEW synced \in BOOLEAN,
               Write(IF restored THEN Moved(dir, "rollback", "final", w.ent, s)
                                 ELSE dir, {}, synced)
        PROVE  [Store!Next]_(Store!vars)
    <2>1. CASE restored
      <3>1. Write(Moved(dir, "rollback", "final", e, s), {}, synced)
        BY <1>3, <1>5, <2>1
      <3>2. s \in dir["rollback"][e] /\ dir["final"][e] = {} /\ Valid(s)
        BY <1>2, <1>3 DEF Valid
      <3> QED BY <1>1, <3>1, <3>2, QuietMove
    <2>2. CASE ~ restored
      <3>1. Fsync(synced)
        BY <1>5, <2>2 DEF Fsync
      <3> QED BY <1>1, <3>1, QuietFsync
    <2> QED BY <2>1, <2>2
  <1> QED BY <1>4, <1>5 DEF SwapFails

LEMMA DiscardRollbackMaps ==
  ASSUME Kept, DiscardRollback
  PROVE  [Store!Next]_(Store!vars)
  <1>1. w.pc = "discard" /\ db' = db
    BY DEF DiscardRollback, At
  <1>2. w.ent \in Entities /\ dir["final"][w.ent] # {}
    BY <1>1, PublishedFacts DEF FinalAbsent
  <1>3. PICK e \in Entities : e = w.ent
    BY <1>2
  <1>4. ASSUME NEW synced \in BOOLEAN, Fsync(synced)
        PROVE  [Store!Next]_(Store!vars)
    BY <1>1, <1>4, QuietFsync
  <1>5. ASSUME NEW s \in dir["rollback"][w.ent], NEW left \in Remains(s),
               NEW synced \in BOOLEAN, RemoveTree("rollback", w.ent, s, left, synced)
        PROVE  [Store!Next]_(Store!vars)
    <2>1. s \in dir["rollback"][e] /\ RemoveTree("rollback", e, s, left, synced)
      BY <1>3, <1>5
    <2> QED BY <1>1, <1>2, <1>3, <2>1, QuietRemoval
  <1> QED BY <1>4, <1>5 DEF DiscardRollback

LEMMA ExportMaps ==
  ASSUME Kept, Export
  PROVE  [Store!Next]_(Store!vars)
  <1>1. ASSUME NEW e \in Entities, NEW s \in dir["final"][e], SweepStale(e, s)
        PROVE  Store!Next
    <2>1. PICK left \in Remains(s), synced \in BOOLEAN :
            synced = FALSE /\ RemoveTree("final", e, s, left, synced)
      BY <1>1 DEF SweepStale
    <2>2. db' = db /\ e \in db.spent
      BY <1>1, KeptFacts DEF SweepStale, CommandSound, At
    <2> QED BY <2>1, <2>2, FinalRemovalMaps DEF Outdated
  <1>2. ASSUME SweepDone \/ SettlePublished
        PROVE  [Store!Next]_(Store!vars)
    <2>1. db' = db /\ \E synced \in BOOLEAN : Fsync(synced)
      BY <1>2 DEF SweepDone, SettlePublished
    <2> QED BY <2>1, QuietFsync
  <1>3. ASSUME Select \/ SweepRaises \/ BuildFails \/ AbortOverResidual \/ NothingThere
               \/ Confirm \/ \E e, s : SweepUnread(e, s)
        PROVE  [Store!Next]_(Store!vars)
    BY <1>3, Unmoved DEF Select, SweepUnread, SweepRaises, BuildFails, AbortOverResidual,
         NothingThere, Confirm
  <1>4. ASSUME NEW s, FillCandidate(s) \/ FlushCandidate(s)
        PROVE  s \in dir["candidate"][w.ent]
    BY <1>4 DEF FillCandidate, FlushCandidate, OwnCandidates
  <1> QED
    BY <1>1, <1>2, <1>3, <1>4, CandidateMaps, ReuseFinalMaps, MoveAsideMaps, SwapInMaps,
       SwapFailsMaps, DiscardRollbackMaps DEF Export

LEMMA ChangeMaps ==
  ASSUME Kept, Change
  PROVE  [Store!Next]_(Store!vars)
  <1>1. CASE Amend
    <2>1. PICK eligible \in BOOLEAN :
            db' = [db EXCEPT !.render = @ + 1, !.eligible = eligible]
      BY <1>1 DEF Amend
    <2>2. db \in Databases /\ db.render < MaxRender /\ UNCHANGED <<dir, disk>>
      BY <1>1, KeptFacts DEF Amend
    <2>3. /\ db'.current = db.current /\ db'.spent = db.spent
          /\ db'.render \in 1 .. MaxRender /\ db'.render > db.render
      BY <2>1, <2>2, MaxRenderAssumption DEF Databases, Renders
    <2>4. Store!Amend
      BY <2>2, <2>3 DEF Store!Amend, Store!Renders
    <2> QED BY <2>4 DEF Store!Next
  <1>2. ASSUME NEW next \in (Entities \ db.spent) \cup {NoEntity}, Supersede(next)
        PROVE  [Store!Next]_(Store!vars)
    <2>1. Store!Supersede(next)
      BY <1>2 DEF Supersede, Store!Supersede
    <2> QED BY <2>1 DEF Store!Next
  <1>3. CASE RollBack
    BY <1>3, Unmoved DEF RollBack
  <1>4. ASSUME NEW e \in Entities, NEW s \in dir["final"][e], RemoveSet(e, s)
        PROVE  Store!Next
    <2>1. PICK left \in Remains(s), synced \in BOOLEAN :
            synced = FALSE /\ RemoveTree("final", e, s, left, synced)
      BY <1>4 DEF RemoveSet
    <2>2. /\ db' = db
          /\ \A x \in dir["final"][e] \cup dir["rollback"][e] : Outdated(e, x)
      <3>1. /\ <<e, s>> \in w.todo /\ db' = db
            /\ \A x \in w.todo : x[1] \in w.gone
            /\ \A f \in w.gone : \A x \in dir["final"][f] \cup dir["rollback"][f] :
                 Outdated(f, x)
        BY <1>4, KeptFacts DEF RemoveSet, CommandSound, At
      <3>2. e \in w.gone
        BY <3>1
      <3> QED BY <3>1, <3>2
    <2> QED BY <2>1, <2>2, FinalRemovalMaps
  <1>5. CASE RemoveDone
    <2>1. db' = db /\ \E synced \in BOOLEAN : Fsync(synced)
      BY <1>5 DEF RemoveDone
    <2> QED BY <2>1, QuietFsync
  <1> QED BY <1>1, <1>2, <1>3, <1>4, <1>5 DEF Change

(* Publication implements the atomic store: through every failure,         *)
(* interrupt, kill and power loss the published set of the current         *)
(* snapshot is replaced in one step, and is not lost before the database   *)
(* has moved on to another rendering of it.                                *)
THEOREM ImplementsStoreHolds == Spec => ImplementsStore
  <1>1. Init => Store!Init
    <2> SUFFICES ASSUME Init PROVE Store!Init
      OBVIOUS
    <2>1. \A e \in Entities : Recoverable(Empty, e) = {}
      <3>1. \A e \in Entities : Empty["final"][e] = {} /\ Empty["rollback"][e] = {}
        BY DEF Empty, Slots
      <3> QED BY <3>1, FS_EmptySet DEF Recoverable, FinalAbsent
    <2>2. Recovered(dir) = [e \in Entities |-> {}]
      BY <2>1 DEF Init, Recovered
    <2>3. {Recovered(d) : d \in disk} = {Recovered(dir)}
      BY DEF Init
    <2> QED BY <2>2, <2>3 DEF Store!Init, Init
  <1>2. Kept /\ [Next]_vars => [Store!Next]_(Store!vars)
    <2> SUFFICES ASSUME Kept, [Next]_vars PROVE [Store!Next]_(Store!vars)
      OBVIOUS
    <2>1. CASE CommandStep
      BY <2>1, PreambleMaps, ExportMaps, ChangeMaps DEF CommandStep
    <2>2. ASSUME UNCHANGED vars \/ Interrupt \/ Kill \/
                 \E op \in {"export", "change"} : Begin(op)
          PROVE  [Store!Next]_(Store!vars)
      BY <2>2, Unmoved DEF vars, Interrupt, Kill, Begin
    <2>3. CASE PowerLoss
      <3>1. Store!PowerLoss
        BY <2>3 DEF PowerLoss, Store!PowerLoss
      <3> QED BY <3>1 DEF Store!Next
    <2> QED BY <2>1, <2>2, <2>3 DEF Next
  <1> QED BY <1>1, <1>2, KeptAlways, PTL DEF Spec, ImplementsStore, Store!Spec

-----------------------------------------------------------------------------
(* What an export may never touch, over the whole lifetime of a workspace. *)
(* IInv and Kept do not survive a new build, which inspects no earlier     *)
(* set; what follows does, because it says nothing of how the sets inspect *)
(* but where a command has looked.                                         *)

Fit(d) == d \in Dirs /\ \A e \in Entities : \A s, t \in d["final"][e] : s = t

DirsFit == Fit(dir) /\ \A d \in disk : Fit(d)

(* The sets a sweep still has to remove inspect, one for a snapshot; the   *)
(* final path a swap is about to fill is empty.                            *)
Looked ==
  /\ w.pc \in Building \cup {"sweep", "settle", "discard", "confirm", "clean"} =>
       w.ent \in Entities
  /\ w.pc \in {"commit", "remove"} => w.op = "change"
  /\ At("sweep") => /\ \A x \in w.todo : FinalValid(dir, x[1])
                    /\ \A x, y \in w.todo : x[1] = y[1] => x = y
  /\ At("swap") => FinalAbsent(dir, w.ent)

Sparing == DirsFit /\ db \in Databases /\ w \in Commands /\ Looked

(* The step spares every final entry that does not inspect.                *)
Spares == \A e \in Entities :
            FinalAbsent(dir, e) \/ FinalValid(dir, e)
              \/ dir'["final"][e] = dir["final"][e]

SameFinal == \A e \in Entities : dir'["final"][e] = dir["final"][e]

LEMMA PutFits ==
  ASSUME NEW d, Fit(d), NEW slot \in Slots, NEW e \in Entities, NEW s,
         NEW left \in SUBSET Sets,
         slot = "final" => d["final"][e] \ {s} = {} /\ \A x, y \in left : x = y
  PROVE  Fit(Put(d, slot, e, s, left))
  <1>1. PICK p : p = Put(d, slot, e, s, left)
    OBVIOUS
  <1>2. /\ p \in Dirs
        /\ \A f \in Entities :
             /\ slot = "final" /\ f = e => p["final"][f] = (d["final"][f] \ {s}) \cup left
             /\ slot # "final" \/ f # e => p["final"][f] = d["final"][f]
    BY <1>1, PutFacts DEF Fit, Slots
  <1>3. \A f \in Entities : \A x, y \in p["final"][f] : x = y
    BY <1>2 DEF Fit
  <1> QED BY <1>1, <1>2, <1>3 DEF Fit

LEMMA MovedFits ==
  ASSUME NEW d, Fit(d), NEW from \in Slots, NEW to \in Slots, from # to,
         NEW e \in Entities, NEW s \in d[from][e],
         to = "final" => FinalAbsent(d, e)
  PROVE  /\ Fit(Moved(d, from, to, e, s))
         /\ \A f \in Entities : f # e =>
              Moved(d, from, to, e, s)["final"][f] = d["final"][f]
         /\ from = "final" => FinalAbsent(Moved(d, from, to, e, s), e)
  <1>1. PICK m : m = Moved(d, from, to, e, s)
    OBVIOUS
  <1>2. s \in Sets /\ d \in Dirs
    BY DEF Fit, Dirs
  <1>3. \A f \in Entities :
           /\ from = "final" /\ f = e => m["final"][f] = d["final"][e] \ {s}
           /\ to = "final" /\ f = e => m["final"][f] = d["final"][e] \cup {s}
           /\ "final" \notin {from, to} \/ f # e => m["final"][f] = d["final"][f]
    BY <1>1, <1>2, MovedFacts DEF Slots
  <1>4. PICK p : p = Put(d, from, e, s, {})
    OBVIOUS
  <1>5. p \in Dirs
    BY <1>2, <1>4, PutFacts
  <1>6. Put(p, to, e, s, {s}) \in Dirs
    BY <1>2, <1>5, PutFacts
  <1>7. m \in Dirs
    BY <1>1, <1>4, <1>6 DEF Moved
  <1>8. \A f \in Entities : \A x, y \in m["final"][f] : x = y
    BY <1>3 DEF Fit, FinalAbsent
  <1>9. from = "final" => m["final"][e] = {}
    BY <1>3 DEF Fit
  <1> QED BY <1>1, <1>3, <1>7, <1>8, <1>9 DEF Fit, FinalAbsent

LEMMA SettledFits ==
  ASSUME NEW d, Fit(d)
  PROVE  Fit(Settled(d))
  <1> DEFINE r(s) == IF s.stage = "written" THEN Torn(s) ELSE s
  <1>1. \A slot \in Slots, e \in Entities :
          Settled(d)[slot][e] = {r(s) : s \in d[slot][e]}
    BY DEF Settled
  <1>2. \A s \in Sets : r(s) \in Sets
    BY TornType
  <1>3. \A slot \in Slots, e \in Entities : {r(s) : s \in d[slot][e]} \in SUBSET Sets
    BY <1>2 DEF Fit, Dirs
  <1>4. Settled(d) \in Dirs
    BY <1>3 DEF Settled, Dirs
  <1> HIDE DEF r
  <1>5. \A e \in Entities : \A x, y \in {r(s) : s \in d["final"][e]} : x = y
    BY DEF Fit
  <1> QED BY <1>1, <1>4, <1>5 DEF Fit, Slots

LEMMA WriteFits ==
  ASSUME DirsFit, NEW d, Fit(d), NEW between, \A x \in between : Fit(x),
         NEW synced, Write(d, between, synced)
  PROVE  DirsFit' /\ dir' = d
  <1>1. Fit(Settled(d))
    BY SettledFits
  <1>2. dir' = d /\ \A x \in disk' : x \in disk \cup between \cup {d, Settled(d)}
    BY DEF Write
  <1>3. \A x \in disk' : Fit(x)
    BY <1>1, <1>2 DEF DirsFit
  <1> QED BY <1>2, <1>3 DEF DirsFit, Fit, Dirs

LEMMA FsyncFits ==
  ASSUME DirsFit, NEW synced, Fsync(synced)
  PROVE  DirsFit' /\ SameFinal
  BY WriteFits DEF Fsync, DirsFit, SameFinal

LEMMA RemoveFits ==
  ASSUME DirsFit, NEW slot \in Slots, NEW e \in Entities, NEW s \in dir[slot][e],
         NEW left \in Remains(s), NEW synced, RemoveTree(slot, e, s, left, synced)
  PROVE  /\ DirsFit'
         /\ \A f \in Entities :
              slot # "final" \/ f # e => dir'["final"][f] = dir["final"][f]
  <1>1. dir \in Dirs /\ s \in Sets /\ Fit(dir)
    BY DEF DirsFit, Fit, Dirs
  <1>2. left \in SUBSET Sets /\ {Torn(s)} \in SUBSET Sets /\ \A x, y \in left : x = y
    BY <1>1, TornType DEF Remains
  <1>3. slot = "final" => dir["final"][e] \ {s} = {}
    BY <1>1 DEF Fit
  <1>4. Fit(Put(dir, slot, e, s, left)) /\ Fit(Put(dir, slot, e, s, {Torn(s)}))
    BY <1>1, <1>2, <1>3, PutFits
  <1>5. \E between : /\ Write(Put(dir, slot, e, s, left), between, synced)
                     /\ \A x \in between : Fit(x)
    BY <1>4 DEF RemoveTree
  <1>6. DirsFit' /\ dir' = Put(dir, slot, e, s, left)
    BY <1>4, <1>5, WriteFits
  <1> QED BY <1>1, <1>2, <1>6, PutFacts DEF Slots

(* Nothing happens to the final names.                                     *)
LEMMA AsideFits ==
  ASSUME DirsFit, NEW slot \in {"candidate", "rollback"}, NEW e \in Entities,
         NEW s \in dir[slot][e], NEW left \in Remains(s), NEW synced,
         RemoveTree(slot, e, s, left, synced)
  PROVE  DirsFit' /\ SameFinal
  BY RemoveFits DEF Slots, SameFinal

LEMMA MoveFits ==
  ASSUME DirsFit, NEW from \in Slots, NEW to \in Slots, from # to,
         NEW e \in Entities, NEW s \in dir[from][e],
         to = "final" => FinalAbsent(dir, e),
         NEW synced, Write(Moved(dir, from, to, e, s), {}, synced)
  PROVE  /\ DirsFit'
         /\ \A f \in Entities : f # e => dir'["final"][f] = dir["final"][f]
         /\ from = "final" => FinalAbsent(dir', e)
  <1>1. Fit(dir)
    BY DEF DirsFit
  <1>2. Fit(Moved(dir, from, to, e, s))
    BY <1>1, MovedFits
  <1>3. DirsFit' /\ dir' = Moved(dir, from, to, e, s)
    BY <1>2, WriteFits
  <1> QED BY <1>1, <1>3, MovedFits

LEMMA DirsFitSame ==
  ASSUME DirsFit, UNCHANGED <<dir, disk>>
  PROVE  DirsFit' /\ SameFinal
  BY DEF DirsFit, SameFinal, Fit, Dirs

LEMMA SameSpares ==
  ASSUME SameFinal
  PROVE  Spares
  BY DEF SameFinal, Spares

LEMMA LookedElsewhere ==
  ASSUME w'.pc \in {"idle", "list", "reclaim", "recover", "select"}
  PROVE  Looked'
  BY DEF Looked, At, Building

LEMMA LookedOn ==
  ASSUME w'.pc \in {"build", "fill", "flush", "place", "settle", "discard",
                    "confirm", "clean"},
         w'.ent \in Entities
  PROVE  Looked'
  BY DEF Looked, At, Building

(* The directories stand, the database too: what a step still owes.        *)
LEMMA Spared ==
  ASSUME Sparing, DirsFit', db' = db, w' \in Commands, Looked'
  PROVE  Sparing'
  BY DEF Sparing

LEMMA EndsSparing ==
  ASSUME Sparing, DirsFit', db' = db, NEW out \in Outcomes,
         NEW more \in SUBSET Paths, Finish(out, more)
  PROVE  Sparing'
  BY FinishType, LookedElsewhere, Spared DEF Sparing

LEMMA BeginSpares ==
  ASSUME Sparing, NEW op \in {"export", "change"}, Begin(op)
  PROVE  Sparing'
  <1>1. DirsFit' /\ db' = db
    BY DirsFitSame DEF Begin, Sparing
  <1>2. w' \in Commands /\ w'.pc = "list"
    BY NoCommandType DEF Begin, Commands, Points
  <1> QED BY <1>1, <1>2, LookedElsewhere, Spared

LEMMA PreambleSpares ==
  ASSUME Sparing, Preamble
  PROVE  Sparing' /\ Spares
  <1>1. /\ DirsFit /\ dir \in Dirs /\ w \in Commands
        /\ \A slot \in Slots : Siblings(dir, slot) \in SUBSET (Entities \X Sets)
        /\ \A slot \in Slots, e \in Entities : <<slot, e>> \in Paths
        /\ Parent \in Paths
    BY PathTypes DEF Sparing, DirsFit, Fit, Dirs, Siblings
  <1>2. ASSUME NEW e \in Entities, NEW s \in dir["candidate"][e], ReclaimCandidate(e, s)
        PROVE  Sparing' /\ Spares
    <2>1. PICK left \in Remains(s) :
            /\ RemoveTree("candidate", e, s, left, FALSE)
            /\ w' = [w EXCEPT !.todo = @ \ {<<e, s>>},
                              !.res = @ \cup Residual(left # {}, <<"candidate", e>>)]
      BY <1>2 DEF ReclaimCandidate
    <2>2. DirsFit' /\ Spares
      BY <1>1, <2>1, AsideFits, SameSpares
    <2>3. Residual(left # {}, <<"candidate", e>>) \in SUBSET Paths
      BY <1>1, ResidualType DEF Slots
    <2>4. w' \in Commands /\ w'.pc = "reclaim" /\ db' = db
      BY <1>1, <1>2, <2>1, <2>3 DEF Commands, ReclaimCandidate, At
    <2> QED BY <2>2, <2>4, LookedElsewhere, Spared
  <1>3. CASE ReclaimDone
    <2>1. DirsFit' /\ Spares /\ db' = db
      BY <1>1, <1>3, DirsFitSame, SameSpares DEF ReclaimDone
    <2>2. w' \in Commands /\ w'.pc = "recover"
      BY <1>1, <1>3 DEF ReclaimDone, Commands, Points, Slots
    <2> QED BY <2>1, <2>2, LookedElsewhere, Spared
  <1>4. ASSUME NEW e \in Entities, NEW s \in dir["rollback"][e], RestoreRollback(e, s)
        PROVE  Sparing' /\ Spares
    <2>1. PICK renamed \in BOOLEAN, synced \in BOOLEAN :
            /\ Write(IF renamed THEN Moved(dir, "rollback", "final", e, s) ELSE dir,
                     {}, synced)
            /\ w' = [w EXCEPT !.todo = @ \ {<<e, s>>},
                              !.res = @ \cup Residual(~renamed, <<"rollback", e>>)
                                        \cup Residual(renamed /\ ~synced, <<"final", e>>)]
      BY <1>4 DEF RestoreRollback
    <2>2. FinalAbsent(dir, e) /\ db' = db /\ w.pc = "recover"
      BY <1>4 DEF RestoreRollback, Restorable, Recovering, At
    <2>3. DirsFit' /\ Spares
      <3>1. CASE renamed
        <4>1. Write(Moved(dir, "rollback", "final", e, s), {}, synced)
          BY <2>1, <3>1
        <4>2. DirsFit' /\ \A f \in Entities : f # e => dir'["final"][f] = dir["final"][f]
          BY <1>1, <2>2, <4>1, MoveFits DEF Slots
        <4> QED BY <2>2, <4>2 DEF Spares
      <3>2. CASE ~ renamed
        <4>1. Fsync(synced)
          BY <2>1, <3>2 DEF Fsync
        <4> QED BY <1>1, <4>1, FsyncFits, SameSpares
      <3> QED BY <3>1, <3>2
    <2>4. /\ Residual(~renamed, <<"rollback", e>>) \in SUBSET Paths
          /\ Residual(renamed /\ ~synced, <<"final", e>>) \in SUBSET Paths
      BY <1>1, ResidualType DEF Slots
    <2>5. w' \in Commands /\ w'.pc = "recover"
      BY <1>1, <2>1, <2>2, <2>4 DEF Commands
    <2> QED BY <2>2, <2>3, <2>5, LookedElsewhere, Spared
  <1>5. ASSUME NEW e \in Entities, NEW s \in dir["rollback"][e], DropRollback(e, s)
        PROVE  Sparing' /\ Spares
    <2>1. PICK left \in Remains(s), synced \in BOOLEAN :
            /\ RemoveTree("rollback", e, s, left, synced)
            /\ w' = [w EXCEPT !.todo = @ \ {<<e, s>>},
                              !.res = @ \cup Residual(left # {}, <<"rollback", e>>)
                                        \cup Residual(left = {} /\ ~synced, Parent)]
      BY ZenonT(40), <1>5 DEF DropRollback
    <2>2. DirsFit' /\ Spares
      BY <1>1, <2>1, AsideFits, SameSpares
    <2>3. /\ Residual(left # {}, <<"rollback", e>>) \in SUBSET Paths
          /\ Residual(left = {} /\ ~synced, Parent) \in SUBSET Paths
      BY <1>1, ResidualType DEF Slots
    <2>4. w' \in Commands /\ w'.pc = "recover" /\ db' = db
      BY <1>1, <1>5, <2>1, <2>3 DEF Commands, DropRollback, Recovering, At
    <2> QED BY <2>2, <2>4, LookedElsewhere, Spared
  <1>6. ASSUME NEW e \in Entities, NEW s \in dir["rollback"][e], LeaveRollback(e, s)
        PROVE  Sparing' /\ Spares
    <2>1. DirsFit' /\ Spares /\ db' = db
      BY <1>1, <1>6, DirsFitSame, SameSpares DEF LeaveRollback
    <2>2. PICK final \in BOOLEAN :
            w' = [w EXCEPT !.todo = @ \ {<<e, s>>},
                           !.res = @ \cup {<<"rollback", e>>}
                                     \cup Residual(final, <<"final", e>>)]
      BY <1>6 DEF LeaveRollback
    <2>3. /\ Residual(final, <<"final", e>>) \in SUBSET Paths
          /\ {<<"rollback", e>>} \in SUBSET Paths
      BY <1>1, ResidualType DEF Slots
    <2>4. w' \in Commands /\ w'.pc = "recover"
      BY <1>1, <1>6, <2>2, <2>3 DEF Commands, LeaveRollback, Recovering, At
    <2> QED BY <2>1, <2>4, LookedElsewhere, Spared
  <1>7. CASE RecoverDone
    <2>1. DirsFit' /\ Spares /\ db' = db
      BY <1>1, <1>7, DirsFitSame, SameSpares DEF RecoverDone
    <2>2. w.op \in {"export", "change"} /\ w.pass \in {1, 2}
      BY <1>1 DEF Commands
    <2>3. \/ /\ w.op = "change"
             /\ w' = [w EXCEPT !.pc = "commit", !.told = w.res, !.res = {}]
          \/ w' = [w EXCEPT !.pc = "list", !.pass = 2, !.told = w.res, !.res = {}]
          \/ w' = [w EXCEPT !.pc = "select"]
          \/ w' = [w EXCEPT !.pc = "idle", !.out = "incomplete"]
      BY <1>7, <2>2 DEF RecoverDone
    <2>4. w' \in Commands
      <3>2. CASE w' = [w EXCEPT !.pc = "commit", !.told = w.res, !.res = {}]
        BY <1>1, <3>2 DEF Commands, Points
      <3>3. CASE w' = [w EXCEPT !.pc = "list", !.pass = 2, !.told = w.res, !.res = {}]
        BY <1>1, <3>3 DEF Commands, Points
      <3>4. CASE w' = [w EXCEPT !.pc = "select"]
        BY <1>1, <3>4 DEF Commands, Points
      <3>5. CASE w' = [w EXCEPT !.pc = "idle", !.out = "incomplete"]
        BY <1>1, <3>5 DEF Commands, Points, Outcomes
      <3> QED BY <2>3, <3>2, <3>3, <3>4, <3>5
    <2>5. Looked'
      <3>1. CASE w.op = "change" /\ w' = [w EXCEPT !.pc = "commit", !.told = w.res, !.res = {}]
        <4>1. w'.pc = "commit" /\ w'.op = "change"
          BY <1>1, <3>1 DEF Commands
        <4> QED BY <4>1 DEF Looked, At, Building
      <3>2. CASE w'.pc \in {"list", "select", "idle"}
        BY <3>2, LookedElsewhere
      <3> QED BY <1>1, <2>3, <3>1, <3>2 DEF Commands
    <2> QED BY <2>1, <2>4, <2>5, Spared
  <1>8. CASE ListParent
    <2>1. DirsFit' /\ Spares /\ db' = db
      BY <1>1, <1>8, DirsFitSame, SameSpares DEF ListParent
    <2>2. w' \in Commands /\ w'.pc = "reclaim"
      BY <1>1, <1>8 DEF ListParent, Commands, Points, Slots
    <2> QED BY <2>1, <2>2, LookedElsewhere, Spared
  <1>9. CASE ListingFails
    <2>1. DirsFit' /\ Spares /\ db' = db
      BY <1>1, <1>9, DirsFitSame, SameSpares DEF ListingFails
    <2>2. w' \in Commands /\ w'.pc = "recover"
      BY <1>1, <1>9 DEF ListingFails, Commands, Points
    <2> QED BY <2>1, <2>2, LookedElsewhere, Spared
  <1>10. CASE RecoverRaises
    <2>1. DirsFit' /\ Spares /\ db' = db
      BY <1>1, <1>10, DirsFitSame, SameSpares DEF RecoverRaises
    <2>2. w' \in Commands /\ w'.pc = "idle"
      BY <1>1, <1>10 DEF RecoverRaises, Commands, Points, Outcomes
    <2> QED BY <2>1, <2>2, LookedElsewhere, Spared
  <1> QED BY <1>2, <1>3, <1>4, <1>5, <1>6, <1>7, <1>8, <1>9, <1>10 DEF Preamble

(* A step that only takes the command on, to a point that knows its set.   *)
LEMMA QuietSpares ==
  ASSUME Sparing, UNCHANGED <<dir, disk, db>>, w' \in Commands, Looked'
  PROVE  Sparing' /\ Spares
  BY DirsFitSame, SameSpares, Spared DEF Sparing

LEMMA SelectSpares ==
  ASSUME Sparing, Select
  PROVE  Sparing' /\ Spares
  <1>1. /\ w \in Commands /\ UNCHANGED <<dir, disk, db>> /\ dir \in Dirs
        /\ \A s, t : \A e \in Entities : s \in dir["final"][e] /\ t \in dir["final"][e] => s = t
    BY DEF Sparing, Select, DirsFit, Fit
  <1>2. CASE db.current \in Entities /\ db.eligible
    <2> DEFINE seen == {x \in Siblings(dir, "final") :
                          x[1] # db.current /\ FinalValid(dir, x[1])}
    <2>1. w' = [w EXCEPT !.pc = "sweep", !.ent = db.current, !.todo = seen]
      BY <1>2 DEF Select
    <2>2. \A x \in Siblings(dir, "final") :
             \E e \in Entities : \E s \in dir["final"][e] : x = <<e, s>>
      BY DEF Siblings
    <2>3. seen \in SUBSET (Entities \X Sets)
      BY <1>1, <2>2 DEF Dirs, Slots
    <2>4. /\ \A x \in seen : FinalValid(dir, x[1])
          /\ \A x, y \in seen : x[1] = y[1] => x = y
      BY <1>1, <2>2
    <2> HIDE DEF seen
    <2>5. /\ w' \in Commands /\ w'.pc = "sweep" /\ w'.ent = db.current
          /\ w'.todo = seen
      BY <1>1, <1>2, <2>1, <2>3 DEF Commands, Points
    <2>6. \A x \in seen : FinalValid(dir', x[1])
      BY <1>1, <2>4
    <2>7. Looked'
      BY <1>2, <2>4, <2>5, <2>6 DEF Looked, At
    <2> QED BY <1>1, <2>5, <2>7, QuietSpares
  <1>3. CASE ~ (db.current \in Entities /\ db.eligible)
    <2>1. Finish("refused", {})
      BY <1>3 DEF Select
    <2>2. w' \in Commands /\ w'.pc = "idle"
      BY <1>1, <2>1, FinishType DEF Outcomes
    <2> QED BY <1>1, <2>2, LookedElsewhere, QuietSpares
  <1> QED BY <1>2, <1>3

(* A sweep removes what its selection has seen to inspect.                 *)
LEMMA SweepStaleSpares ==
  ASSUME Sparing, NEW e \in Entities, NEW s \in dir["final"][e], SweepStale(e, s)
  PROVE  Sparing' /\ Spares
  <1>1. PICK left \in Remains(s) :
          /\ RemoveTree("final", e, s, left, FALSE)
          /\ w' = [w EXCEPT !.todo = @ \ {<<e, s>>},
                            !.res = @ \cup Residual(left # {}, <<"final", e>>)]
    BY DEF SweepStale
  <1>2. /\ DirsFit /\ w \in Commands /\ w.pc = "sweep" /\ db' = db
        /\ <<e, s>> \in w.todo /\ w.ent \in Entities
        /\ \A x \in w.todo : FinalValid(dir, x[1])
        /\ \A x, y \in w.todo : x[1] = y[1] => x = y
    BY DEF SweepStale, Sparing, Looked, At
  <1>3. /\ DirsFit'
        /\ \A f \in Entities : f # e => dir'["final"][f] = dir["final"][f]
    BY <1>1, <1>2, RemoveFits DEF Slots
  <1>4. FinalValid(dir, e)
    BY <1>2
  <1>5. Spares
    BY <1>3, <1>4 DEF Spares
  <1>6. Residual(left # {}, <<"final", e>>) \in SUBSET Paths
    BY PathTypes, ResidualType DEF Slots
  <1>7. /\ w' \in Commands /\ w'.pc = "sweep" /\ w'.ent = w.ent
        /\ w'.todo = w.todo \ {<<e, s>>}
    BY <1>1, <1>2, <1>6 DEF Commands
  <1>8. \A x \in w'.todo : x \in w.todo /\ x[1] \in Entities /\ x[1] # e
    <2>1. \A x \in w.todo : x[1] \in Entities
      BY <1>2 DEF Commands
    <2>2. \A x \in w.todo : x[1] = <<e, s>>[1] => x = <<e, s>>
      BY <1>2
    <2> QED BY <1>7, <2>1, <2>2
  <1>9. \A x \in w'.todo : FinalValid(dir', x[1])
    BY <1>2, <1>3, <1>8 DEF FinalValid
  <1>10. \A x, y \in w'.todo : x[1] = y[1] => x = y
    BY <1>2, <1>8
  <1>11. Looked'
    BY <1>2, <1>7, <1>9, <1>10 DEF Looked, At
  <1> QED BY <1>2, <1>3, <1>5, <1>7, <1>11, Spared

(* What a command at work on its own set knows.                            *)
LEMMA WorkingFacts ==
  ASSUME Sparing, w.pc \in Building \cup {"sweep", "settle", "discard", "confirm", "clean"}
  PROVE  /\ DirsFit /\ Fit(dir) /\ db \in Databases /\ w \in Commands
         /\ dir \in Dirs /\ w.ent \in Entities
         /\ <<"final", w.ent>> \in Paths /\ <<"candidate", w.ent>> \in Paths
         /\ <<"rollback", w.ent>> \in Paths /\ Parent \in Paths
         /\ {"ok", "failed", "incomplete", "refused", "interrupted"} \subseteq Outcomes
  BY PathTypes DEF Sparing, DirsFit, Fit, Looked, Slots, Outcomes

(* What a sweep could not read stays as it is.                             *)
LEMMA SweepUnreadSpares ==
  ASSUME Sparing, NEW e \in Entities, NEW s \in dir["final"][e], SweepUnread(e, s)
  PROVE  Sparing' /\ Spares
  <1>1. /\ UNCHANGED <<dir, disk, db>>
        /\ w' = [w EXCEPT !.todo = @ \ {<<e, s>>},
                          !.unread = @ \cup {<<"final", e>>}]
    BY DEF SweepUnread
  <1>2. /\ w \in Commands /\ w.pc = "sweep" /\ w.ent \in Entities
        /\ \A x \in w.todo : FinalValid(dir, x[1])
        /\ \A x, y \in w.todo : x[1] = y[1] => x = y
    BY DEF SweepUnread, Sparing, Looked, At
  <1>3. {<<"final", e>>} \in SUBSET Paths
    BY PathTypes DEF Slots
  <1>4. /\ w' \in Commands /\ w'.pc = "sweep" /\ w'.ent = w.ent
        /\ w'.todo = w.todo \ {<<e, s>>}
    BY <1>1, <1>2, <1>3 DEF Commands
  <1>5. \A x \in w'.todo : FinalValid(dir', x[1])
    BY <1>1, <1>2, <1>4
  <1>6. \A x, y \in w'.todo : x[1] = y[1] => x = y
    BY <1>2, <1>4
  <1>7. Looked'
    BY <1>2, <1>4, <1>5, <1>6 DEF Looked, At
  <1> QED BY <1>1, <1>4, <1>7, QuietSpares

LEMMA SweepRaisesSpares ==
  ASSUME Sparing, SweepRaises
  PROVE  Sparing' /\ Spares
  <1>1. /\ UNCHANGED <<dir, disk, db>> /\ w \in Commands
        /\ w' = [w EXCEPT !.pc = "idle", !.todo = {}, !.res = {}, !.out = "failed"]
    BY DEF SweepRaises, Sparing
  <1>2. w' \in Commands /\ w'.pc = "idle"
    BY <1>1 DEF Commands, Points, Outcomes
  <1> QED BY <1>1, <1>2, LookedElsewhere, QuietSpares

LEMMA SweepDoneSpares ==
  ASSUME Sparing, SweepDone
  PROVE  Sparing' /\ Spares
  <1>1. PICK synced \in BOOLEAN :
          /\ Fsync(synced)
          /\ IF synced THEN w' = [w EXCEPT !.pc = "build"]
                       ELSE Finish("incomplete", Residual(w.res = {}, Parent))
    BY DEF SweepDone
  <1>2. w.pc = "sweep" /\ db' = db
    BY DEF SweepDone, At
  <1>3. DirsFit' /\ Spares
    BY <1>1, <1>2, WorkingFacts, FsyncFits, SameSpares
  <1>4. CASE synced
    <2>1. w \in Commands /\ w.ent \in Entities
      BY <1>2, WorkingFacts
    <2>2. w' \in Commands /\ w'.pc = "build" /\ w'.ent = w.ent
      BY <1>1, <1>4, <2>1 DEF Commands, Points
    <2> QED BY <1>2, <1>3, <2>1, <2>2, LookedOn, Spared
  <1>5. CASE ~ synced
    <2>1. Finish("incomplete", Residual(w.res = {}, Parent))
      BY <1>1, <1>5
    <2>2. Residual(w.res = {}, Parent) \in SUBSET Paths
      BY PathTypes, ResidualType
    <2> QED BY <1>2, <1>3, <2>1, <2>2, EndsSparing DEF Outcomes
  <1> QED BY <1>4, <1>5

(* A candidate that is built becomes another set under its own name.       *)
LEMMA CandidateFits ==
  ASSUME Sparing, w.pc \in {"build", "fill", "flush"},
         NEW s, NEW left \in Sets, NEW synced \in BOOLEAN,
         Write(Put(dir, "candidate", w.ent, s, {left}), {}, synced)
  PROVE  DirsFit' /\ Spares
  <1>1. /\ DirsFit /\ Fit(dir) /\ dir \in Dirs /\ w.ent \in Entities
    BY WorkingFacts DEF Building
  <1>2. Fit(Put(dir, "candidate", w.ent, s, {left}))
    BY <1>1, PutFits DEF Slots
  <1>3. DirsFit' /\ dir' = Put(dir, "candidate", w.ent, s, {left})
    BY <1>1, <1>2, WriteFits
  <1>4. SameFinal
    BY <1>1, <1>3, PutFacts DEF Slots, SameFinal
  <1> QED BY <1>3, <1>4, SameSpares

LEMMA BuildSpares ==
  ASSUME Sparing,
         \/ \E i \in Inodes : MakeCandidate(i)
         \/ \E e \in Entities : \E s \in dir["candidate"][e] :
              FillCandidate(s) \/ FlushCandidate(s)
         \/ BuildFails
  PROVE  Sparing' /\ Spares
  <1>1. w.pc \in {"build", "fill", "flush", "place"} /\ db' = db
    BY DEF MakeCandidate, FillCandidate, FlushCandidate, BuildFails, At
  <1>2. w \in Commands /\ db \in Databases /\ dir \in Dirs /\ w.ent \in Entities
    BY <1>1, WorkingFacts DEF Building
  <1>3. ASSUME NEW s, NEW left \in Sets, NEW synced \in BOOLEAN,
               NEW pc \in {"fill", "flush", "place"},
               w.pc \in {"build", "fill", "flush"},
               Write(Put(dir, "candidate", w.ent, s, {left}), {}, synced),
               w' = [w EXCEPT !.pc = pc, !.own = {left}]
        PROVE  Sparing' /\ Spares
    <2>1. DirsFit' /\ Spares
      BY <1>3, CandidateFits
    <2>2. w' \in Commands /\ w'.pc = pc /\ w'.ent = w.ent
      BY <1>2, <1>3 DEF Commands, Points
    <2> QED BY <1>1, <1>2, <2>1, <2>2, LookedOn, Spared
  <1>4. ASSUME NEW i \in Inodes, MakeCandidate(i)
        PROVE  Sparing' /\ Spares
    <2>1. Candidate(i, "partial") \in Sets
      BY <1>2, CandidateType DEF Stages
    <2> QED BY <1>3, <1>4, <2>1 DEF MakeCandidate, At
  <1>5. ASSUME NEW e \in Entities, NEW s \in dir["candidate"][e], FillCandidate(s)
        PROVE  Sparing' /\ Spares
    <2>1. [s EXCEPT !.stage = "written"] \in Sets
      BY <1>2 DEF Dirs, Slots, Sets, Stages
    <2> QED BY <1>3, <1>5, <2>1 DEF FillCandidate, At
  <1>6. ASSUME NEW e \in Entities, NEW s \in dir["candidate"][e], FlushCandidate(s)
        PROVE  Sparing' /\ Spares
    <2>1. [s EXCEPT !.stage = "flushed"] \in Sets
      BY <1>2 DEF Dirs, Slots, Sets, Stages
    <2> QED BY <1>3, <1>6, <2>1 DEF FlushCandidate, At
  <1>7. CASE BuildFails
    <2>1. w' \in Commands /\ w'.pc = "clean" /\ w'.ent = w.ent
      BY <1>2, <1>7 DEF BuildFails, Commands, Points, Outcomes
    <2> QED BY <1>2, <1>7, <2>1, LookedOn, QuietSpares DEF BuildFails
  <1> QED BY <1>4, <1>5, <1>6, <1>7

LEMMA CleanSpares ==
  ASSUME Sparing, CleanCandidate
  PROVE  Sparing' /\ Spares
  <1>1. w.pc = "clean" /\ db' = db
    BY DEF CleanCandidate, At
  <1>2. w \in Commands /\ w.out \in Outcomes /\ DirsFit /\ w.ent \in Entities
    BY <1>1, WorkingFacts DEF Commands
  <1>3. CASE OwnCandidates = {}
    <2>1. Finish(w.out, {}) /\ UNCHANGED <<dir, disk>>
      BY <1>3 DEF CleanCandidate
    <2> QED BY <1>1, <1>2, <2>1, DirsFitSame, SameSpares, EndsSparing
  <1>4. CASE OwnCandidates # {}
    <2>1. PICK s \in OwnCandidates : \E left \in Remains(s) :
            /\ RemoveTree("candidate", w.ent, s, left, FALSE)
            /\ Finish(IF left # {} /\ w.out # "interrupted"
                        THEN "incomplete" ELSE w.out,
                      Residual(left # {}, <<"candidate", w.ent>>))
      BY <1>4 DEF CleanCandidate
    <2>2. PICK left \in Remains(s) :
            /\ RemoveTree("candidate", w.ent, s, left, FALSE)
            /\ Finish(IF left # {} /\ w.out # "interrupted"
                        THEN "incomplete" ELSE w.out,
                      Residual(left # {}, <<"candidate", w.ent>>))
      BY <2>1
    <2>3. s \in dir["candidate"][w.ent]
      BY DEF OwnCandidates
    <2>4. DirsFit' /\ Spares
      BY <1>2, <2>2, <2>3, AsideFits, SameSpares
    <2>5. Residual(left # {}, <<"candidate", w.ent>>) \in SUBSET Paths
      BY <1>2, PathTypes, ResidualType DEF Slots
    <2>6. (IF left # {} /\ w.out # "interrupted" THEN "incomplete" ELSE w.out) \in Outcomes
      BY <1>2 DEF Outcomes
    <2> QED BY <1>1, <2>2, <2>4, <2>5, <2>6, EndsSparing
  <1> QED BY <1>3, <1>4

(* At the final path: what is in the way is left, or has been inspected.   *)
LEMMA PlaceSpares ==
  ASSUME Sparing, AbortOverResidual \/ NothingThere
  PROVE  Sparing' /\ Spares
  <1>1. w.pc = "place" /\ UNCHANGED <<dir, disk, db>>
    BY DEF AbortOverResidual, NothingThere, At
  <1>2. w \in Commands /\ w.ent \in Entities /\ <<"final", w.ent>> \in Paths
    BY <1>1, WorkingFacts DEF Building
  <1>3. CASE AbortOverResidual
    <2>1. w' \in Commands /\ w'.pc = "clean" /\ w'.ent = w.ent
      BY <1>2, <1>3 DEF AbortOverResidual, Commands, Points, Outcomes
    <2> QED BY <1>1, <1>2, <2>1, LookedOn, QuietSpares
  <1>4. CASE NothingThere
    <2>1. w' \in Commands /\ w'.pc = "swap" /\ w'.ent = w.ent
      BY <1>2, <1>4 DEF NothingThere, Commands, Points
    <2>2. FinalAbsent(dir', w'.ent)
      BY <1>1, <1>4, <2>1 DEF NothingThere
    <2>3. Looked'
      BY <1>2, <2>1, <2>2 DEF Looked, At
    <2> QED BY <1>1, <2>1, <2>3, QuietSpares
  <1> QED BY <1>3, <1>4

LEMMA ReuseFinalSpares ==
  ASSUME Sparing, NEW e \in Entities, NEW s \in dir["final"][e],
         NEW c \in dir["candidate"][e], ReuseFinal(s, c)
  PROVE  Sparing' /\ Spares
  <1>1. PICK left \in Remains(c), synced \in BOOLEAN :
          /\ RemoveTree("candidate", w.ent, c, left, synced)
          /\ IF synced
               THEN Finish("ok", {})
               ELSE w' = [w EXCEPT !.pc = "clean", !.out = "incomplete",
                            !.res = @ \cup {IF left = {} THEN Parent
                                            ELSE <<"candidate", w.ent>>}]
    BY DEF ReuseFinal
  <1>2. w.pc = "place" /\ db' = db /\ c \in dir["candidate"][w.ent]
    BY DEF ReuseFinal, At, OwnCandidates
  <1>3. /\ w \in Commands /\ w.ent \in Entities /\ DirsFit
        /\ Parent \in Paths /\ <<"candidate", w.ent>> \in Paths
    BY <1>2, WorkingFacts DEF Building
  <1>4. DirsFit' /\ Spares
    BY <1>1, <1>2, <1>3, AsideFits, SameSpares
  <1>5. CASE synced
    BY <1>1, <1>2, <1>4, <1>5, EndsSparing DEF Outcomes
  <1>6. CASE ~ synced
    <2>1. PICK path \in Paths :
            w' = [w EXCEPT !.pc = "clean", !.out = "incomplete", !.res = @ \cup {path}]
      BY <1>1, <1>3, <1>6
    <2>2. w' \in Commands /\ w'.pc = "clean" /\ w'.ent = w.ent
      BY <1>3, <2>1 DEF Commands, Points, Outcomes
    <2> QED BY <1>2, <1>3, <1>4, <2>2, LookedOn, Spared
  <1> QED BY <1>5, <1>6

(* The prior set went aside after its inspection, under its own flush or   *)
(* not; if it did not, the command gives up.                               *)
LEMMA MoveAsideSpares ==
  ASSUME Sparing, NEW e \in Entities, NEW s \in dir["final"][e],
         NEW c \in dir["candidate"][e], MoveAside(s, c)
  PROVE  Sparing' /\ Spares
  <1> DEFINE aside == Moved(dir, "final", "rollback", w.ent, s)
  <1>1. /\ w.pc = "place" /\ db' = db /\ FinalValid(dir, w.ent)
        /\ s \in dir["final"][w.ent]
    BY DEF MoveAside, At
  <1>2. /\ w \in Commands /\ w.ent \in Entities /\ DirsFit /\ Fit(dir)
        /\ <<"rollback", w.ent>> \in Paths
    BY <1>1, WorkingFacts DEF Building
  <1>3. Fit(aside)
    BY <1>1, <1>2, MovedFits DEF Slots
  <1>4. \E out \in {"failed", "incomplete"}, res \in {{}, {<<"rollback", w.ent>>}}, synced \in BOOLEAN :
           \/ Write(aside, {}, TRUE) /\ w' = [w EXCEPT !.pc = "swap"]
           \/ /\ w' = [w EXCEPT !.pc = "clean", !.out = out, !.res = @ \cup res]
              /\ \/ Write(dir, {}, FALSE)
                 \/ Write(dir, {aside}, synced)
                 \/ Write(aside, {}, FALSE)
    BY DEF MoveAside
  <1>5. PICK out \in {"failed", "incomplete"}, res \in {{}, {<<"rollback", w.ent>>}}, synced \in BOOLEAN :
           \/ Write(aside, {}, TRUE) /\ w' = [w EXCEPT !.pc = "swap"]
           \/ /\ w' = [w EXCEPT !.pc = "clean", !.out = out, !.res = @ \cup res]
              /\ \/ Write(dir, {}, FALSE)
                 \/ Write(dir, {aside}, synced)
                 \/ Write(aside, {}, FALSE)
    BY <1>4
  <1> HIDE DEF aside
  <1>6. DirsFit' /\ dir' \in {dir, aside}
    <2>1. ASSUME NEW d \in {dir, aside}, NEW between \in {{}, {aside}}, NEW flag,
                 Write(d, between, flag)
          PROVE  DirsFit' /\ dir' = d
      <3>1. Fit(d) /\ \A x \in between : Fit(x)
        BY <1>2, <1>3
      <3> QED BY <1>2, <2>1, <3>1, WriteFits
    <2> QED BY <1>5, <2>1
  <1>7. \A f \in Entities : f # w.ent => dir'["final"][f] = dir["final"][f]
    BY <1>1, <1>2, <1>6, MovedFits DEF Slots, aside
  <1>8. Spares
    BY <1>1, <1>7 DEF Spares
  <1>9. CASE Write(aside, {}, TRUE) /\ w' = [w EXCEPT !.pc = "swap"]
    <2>1. w' \in Commands /\ w'.pc = "swap" /\ w'.ent = w.ent
      BY <1>2, <1>9 DEF Commands, Points
    <2>2. FinalAbsent(dir', w.ent)
      BY <1>1, <1>2, <1>9, MoveFits DEF Slots, aside
    <2>3. Looked'
      BY <1>2, <2>1, <2>2 DEF Looked, At
    <2> QED BY <1>1, <1>6, <1>8, <2>1, <2>3, Spared
  <1>10. CASE w' = [w EXCEPT !.pc = "clean", !.out = out, !.res = @ \cup res]
    <2>1. w' \in Commands /\ w'.pc = "clean" /\ w'.ent = w.ent
      BY <1>2, <1>10 DEF Commands, Points, Outcomes
    <2> QED BY <1>1, <1>2, <1>6, <1>8, <2>1, LookedOn, Spared
  <1> QED BY <1>5, <1>9, <1>10

LEMMA SwapSpares ==
  ASSUME Sparing,
         \/ \E e \in Entities : \E s \in dir["candidate"][e] : SwapIn(s)
         \/ SwapFails
  PROVE  Sparing' /\ Spares
  <1>1. w.pc = "swap" /\ db' = db
    BY DEF SwapIn, SwapFails, At
  <1>2. /\ w \in Commands /\ w.ent \in Entities /\ DirsFit
        /\ FinalAbsent(dir, w.ent) /\ <<"rollback", w.ent>> \in Paths
    BY <1>1, WorkingFacts DEF Building, Sparing, Looked, At
  <1>3. ASSUME NEW from \in {"candidate", "rollback"}, NEW s \in dir[from][w.ent],
               NEW synced, Write(Moved(dir, from, "final", w.ent, s), {}, synced)
        PROVE  DirsFit' /\ Spares
    <2>1. DirsFit' /\ \A f \in Entities : f # w.ent => dir'["final"][f] = dir["final"][f]
      BY <1>2, <1>3, MoveFits DEF Slots
    <2> QED BY <1>2, <2>1 DEF Spares
  <1>4. ASSUME NEW e \in Entities, NEW s \in dir["candidate"][e], SwapIn(s)
        PROVE  Sparing' /\ Spares
    <2>1. DirsFit' /\ Spares
      BY <1>3, <1>4 DEF SwapIn, OwnCandidates
    <2>2. w' \in Commands /\ w'.pc = "settle" /\ w'.ent = w.ent
      BY <1>2, <1>4 DEF SwapIn, Commands, Points
    <2> QED BY <1>1, <1>2, <2>1, <2>2, LookedOn, Spared
  <1>5. CASE SwapFails
    <2>1. \/ UNCHANGED <<dir, disk>> /\ w' = [w EXCEPT !.pc = "clean", !.out = "failed"]
          \/ \E s \in dir["rollback"][w.ent], restored, synced \in BOOLEAN :
                /\ Write(IF restored THEN Moved(dir, "rollback", "final", w.ent, s)
                                     ELSE dir, {}, synced)
                /\ w' = [w EXCEPT !.pc = "clean",
                           !.out = IF synced THEN "failed" ELSE "incomplete",
                           !.res = @ \cup Residual(~synced, <<"rollback", w.ent>>)]
      BY <1>5 DEF SwapFails
    <2>2. CASE UNCHANGED <<dir, disk>> /\ w' = [w EXCEPT !.pc = "clean", !.out = "failed"]
      <3>1. w' \in Commands /\ w'.pc = "clean" /\ w'.ent = w.ent
        BY <1>2, <2>2 DEF Commands, Points, Outcomes
      <3> QED BY <1>1, <1>2, <2>2, <3>1, LookedOn, QuietSpares
    <2>3. ASSUME NEW s \in dir["rollback"][w.ent], NEW restored \in BOOLEAN,
                 NEW synced \in BOOLEAN,
                 Write(IF restored THEN Moved(dir, "rollback", "final", w.ent, s)
                                   ELSE dir, {}, synced),
                 w' = [w EXCEPT !.pc = "clean",
                         !.out = IF synced THEN "failed" ELSE "incomplete",
                         !.res = @ \cup Residual(~synced, <<"rollback", w.ent>>)]
          PROVE  Sparing' /\ Spares
      <3>1. DirsFit' /\ Spares
        <4>1. CASE restored
          BY <1>3, <2>3, <4>1
        <4>2. CASE ~ restored
          <5>1. Fsync(synced)
            BY <2>3, <4>2 DEF Fsync
          <5> QED BY <1>2, <5>1, FsyncFits, SameSpares
        <4> QED BY <4>1, <4>2
      <3>2. Residual(~synced, <<"rollback", w.ent>>) \in SUBSET Paths
        BY <1>2, ResidualType
      <3>3. w' \in Commands /\ w'.pc = "clean" /\ w'.ent = w.ent
        BY <1>2, <2>3, <3>2 DEF Commands, Points, Outcomes
      <3> QED BY <1>1, <1>2, <3>1, <3>3, LookedOn, Spared
    <2> QED BY <2>1, <2>2, <2>3
  <1> QED BY <1>4, <1>5

LEMMA SettleSpares ==
  ASSUME Sparing, SettlePublished \/ Confirm
  PROVE  Sparing' /\ Spares
  <1>1. w.pc \in {"settle", "confirm"} /\ db' = db
    BY DEF SettlePublished, Confirm, At
  <1>2. /\ w \in Commands /\ w.ent \in Entities /\ DirsFit
        /\ {<<"final", w.ent>>} \in SUBSET Paths
        /\ {<<"rollback", w.ent>>} \in SUBSET Paths
    BY <1>1, WorkingFacts
  <1>3. CASE SettlePublished
    <2>1. PICK synced \in BOOLEAN :
            /\ Fsync(synced)
            /\ IF synced
                 THEN w' = [w EXCEPT !.pc = "discard"]
                 ELSE Finish("incomplete",
                        {IF dir["rollback"][w.ent] = {} THEN <<"final", w.ent>>
                                                        ELSE <<"rollback", w.ent>>})
      BY <1>3 DEF SettlePublished
    <2>2. DirsFit' /\ Spares
      BY <1>2, <2>1, FsyncFits, SameSpares
    <2>3. CASE synced
      <3>1. w' \in Commands /\ w'.pc = "discard" /\ w'.ent = w.ent
        BY <1>2, <2>1, <2>3 DEF Commands, Points
      <3> QED BY <1>1, <1>2, <2>2, <3>1, LookedOn, Spared
    <2>4. CASE ~ synced
      <3>1. PICK more \in SUBSET Paths : Finish("incomplete", more)
        BY <1>2, <2>1, <2>4
      <3> QED BY <1>1, <2>2, <3>1, EndsSparing DEF Outcomes
    <2> QED BY <2>3, <2>4
  <1>4. CASE Confirm
    <2>1. \E out \in Outcomes, more \in SUBSET Paths : Finish(out, more)
      BY <1>2, <1>4 DEF Confirm, Outcomes
    <2>2. UNCHANGED <<dir, disk>>
      BY <1>4 DEF Confirm
    <2> QED BY <1>1, <1>2, <2>1, <2>2, DirsFitSame, SameSpares, EndsSparing
  <1> QED BY <1>3, <1>4

LEMMA DiscardSpares ==
  ASSUME Sparing, DiscardRollback
  PROVE  Sparing' /\ Spares
  <1>1. w.pc = "discard" /\ db' = db
    BY DEF DiscardRollback, At
  <1>2. /\ w \in Commands /\ w.ent \in Entities /\ DirsFit
        /\ {<<"final", w.ent>>} \in SUBSET Paths
        /\ {<<"rollback", w.ent>>} \in SUBSET Paths
    BY <1>1, WorkingFacts
  <1> DEFINE Gone(synced) ==
               \/ Fsync(synced)
               \/ \E s \in dir["rollback"][w.ent] : \E left \in Remains(s) :
                    RemoveTree("rollback", w.ent, s, left, synced)
             Then(synced, more) == IF synced THEN w' = [w EXCEPT !.pc = "confirm"]
                                             ELSE Finish("incomplete", more)
  <1>3. \E synced \in BOOLEAN, more \in SUBSET Paths : Gone(synced) /\ Then(synced, more)
    <2>1. ASSUME NEW synced \in BOOLEAN, Fsync(synced),
                 IF synced THEN w' = [w EXCEPT !.pc = "confirm"]
                           ELSE Finish("incomplete", {<<"final", w.ent>>})
          PROVE  Gone(synced) /\ Then(synced, {<<"final", w.ent>>})
      BY <2>1
    <2>2. ASSUME NEW s \in dir["rollback"][w.ent], NEW left \in Remains(s),
                 NEW synced \in BOOLEAN,
                 RemoveTree("rollback", w.ent, s, left, synced),
                 IF synced THEN w' = [w EXCEPT !.pc = "confirm"]
                 ELSE Finish("incomplete",
                        {<<IF left = {} THEN "final" ELSE "rollback", w.ent>>})
          PROVE  \E more \in SUBSET Paths : Gone(synced) /\ Then(synced, more)
      <3>1. {<<IF left = {} THEN "final" ELSE "rollback", w.ent>>} \in SUBSET Paths
        BY <1>2
      <3> QED BY <2>2, <3>1
    <2> HIDE DEF Gone, Then
    <2> QED BY <1>2, <2>1, <2>2 DEF DiscardRollback
  <1>4. PICK synced \in BOOLEAN, more \in SUBSET Paths : Gone(synced) /\ Then(synced, more)
    BY <1>3
  <1>5. DirsFit' /\ Spares
    BY <1>2, <1>4, FsyncFits, AsideFits, SameSpares
  <1>6. CASE synced
    <2>1. w' \in Commands /\ w'.pc = "confirm" /\ w'.ent = w.ent
      BY <1>2, <1>4, <1>6 DEF Commands, Points
    <2> QED BY <1>1, <1>2, <1>5, <2>1, LookedOn, Spared
  <1>7. CASE ~ synced
    BY <1>1, <1>4, <1>5, <1>7, EndsSparing DEF Outcomes
  <1> QED BY <1>6, <1>7

(* Only a command that changes the database removes what does not inspect. *)
LEMMA ChangeSpares ==
  ASSUME Sparing, Change
  PROVE  Sparing' /\ (w.op = "export" => Spares)
  <1>1. /\ DirsFit /\ dir \in Dirs /\ db \in Databases /\ w \in Commands
        /\ w.pc \in {"commit", "remove"} => w.op = "change"
    BY DEF Sparing, DirsFit, Fit, Looked
  <1>2. w.op = "change"
    BY <1>1 DEF Change, Amend, Supersede, RollBack, RemoveSet, RemoveDone, At
  <1>2a. ASSUME Withdrawing(db.current)
        PROVE  w' \in Commands /\ w'.pc = "remove" /\ w'.op = w.op
    <2>1. {x \in Siblings(dir, "final") : x[1] = db.current} \in SUBSET (Entities \X Sets)
      BY <1>1 DEF Siblings, Dirs, Slots
    <2>2. {db.current} \ {NoEntity} \in SUBSET Entities
      BY <1>1 DEF Databases
    <2> QED BY <1>1, <1>2a, <2>1, <2>2 DEF Withdrawing, Commands, Points
  <1>3. CASE Amend
    <2>1. DirsFit' /\ w' \in Commands /\ w'.pc = "remove" /\ w'.op = w.op
      BY <1>1, <1>3, <1>2a, DirsFitSame DEF Amend
    <2>2. db' \in Databases
      <3>1. PICK eligible \in BOOLEAN :
              db' = [db EXCEPT !.render = @ + 1, !.eligible = eligible]
        BY <1>3 DEF Amend
      <3>2. db.render \in 1 .. MaxRender /\ db.render < MaxRender
        BY <1>1, <1>3 DEF Amend, Databases, Renders
      <3>3. db.render + 1 \in Renders
        BY <3>2, MaxRenderAssumption DEF Renders
      <3> QED BY <1>1, <3>1, <3>3 DEF Databases
    <2>3. Looked'
      BY <1>2, <2>1 DEF Looked, At, Building
    <2> QED BY <1>2, <2>1, <2>2, <2>3 DEF Sparing
  <1>4. ASSUME NEW next \in (Entities \ db.spent) \cup {NoEntity}, Supersede(next)
        PROVE  Sparing'
    <2>1. DirsFit'
      BY <1>1, <1>4, DirsFitSame DEF Supersede
    <2>2. db' \in Databases
      <3>1. PICK eligible \in BOOLEAN :
              db' = [current |-> next, render |-> 1, eligible |-> eligible,
                     spent |-> db.spent \cup ({db.current} \ {NoEntity})]
        BY <1>4 DEF Supersede
      <3> QED BY <1>1, <3>1, MaxRenderAssumption DEF Databases, Renders
    <2>5. w' \in Commands /\ w'.pc = "remove" /\ w'.op = w.op
      BY <1>4, <1>2a DEF Supersede
    <2>6. Looked'
      BY <1>2, <2>5 DEF Looked, At, Building
    <2> QED BY <2>1, <2>2, <2>5, <2>6 DEF Sparing
  <1>5. CASE RollBack
    BY <1>1, <1>2, <1>5, DirsFitSame, EndsSparing DEF RollBack, Outcomes
  <1>6. ASSUME NEW e \in Entities, NEW s \in dir["final"][e], RemoveSet(e, s)
        PROVE  Sparing'
    <2>1. PICK left \in Remains(s) :
            /\ RemoveTree("final", e, s, left, FALSE)
            /\ w' = [w EXCEPT !.todo = @ \ {<<e, s>>},
                              !.tried = @ \cup {<<"final", e>>},
                              !.res = @ \cup Residual(left # {}, <<"final", e>>)]
      BY <1>6 DEF RemoveSet
    <2>2. DirsFit'
      BY <1>1, <2>1, RemoveFits DEF Slots
    <2>3. <<"final", e>> \in Paths
      BY PathTypes DEF Slots
    <2>4. Residual(left # {}, <<"final", e>>) \in SUBSET Paths
      BY <2>3, ResidualType
    <2>5. w' \in Commands /\ w'.pc = "remove" /\ w'.op = w.op /\ db' = db
      BY <1>1, <1>6, <2>1, <2>3, <2>4 DEF Commands, RemoveSet, At
    <2>6. Looked'
      BY <1>2, <2>5 DEF Looked, At, Building
    <2> QED BY <2>2, <2>5, <2>6, Spared
  <1>7. CASE RemoveDone
    <2>1. PICK synced \in BOOLEAN :
            /\ Fsync(synced)
            /\ LET lost == IF Unlinked # {} /\ ~synced
                             THEN Unlinked \cup {Parent} ELSE {}
               IN  Finish(IF w.res \cup lost \cup w.told = {}
                            THEN "ok" ELSE "incomplete", lost)
      BY <1>7 DEF RemoveDone
    <2>2. PICK lost : lost = IF Unlinked # {} /\ ~synced
                               THEN Unlinked \cup {Parent} ELSE {}
      OBVIOUS
    <2>3. lost \in SUBSET Paths
      BY <1>1, <2>2, PathTypes DEF Unlinked, Commands
    <2>4. PICK out \in {"ok", "incomplete"} : Finish(out, lost)
      BY <2>1, <2>2
    <2>5. DirsFit' /\ db' = db
      BY <1>1, <1>7, <2>1, FsyncFits DEF RemoveDone
    <2> QED BY <1>2, <2>3, <2>4, <2>5, EndsSparing DEF Outcomes
  <1> QED BY <1>2, <1>3, <1>4, <1>5, <1>6, <1>7 DEF Change

(* What ends a command from outside moves nothing, the power apart.        *)
LEMMA EndingsSpare ==
  ASSUME Sparing, Interrupt \/ Kill
  PROVE  Sparing' /\ Spares
  <1>1. DirsFit' /\ Spares /\ db' = db /\ w \in Commands
    BY DirsFitSame, SameSpares DEF Interrupt, Kill, Sparing
  <1>2. CASE Kill
    BY <1>1, <1>2, NoCommandType, LookedElsewhere, Spared DEF Kill
  <1>3. CASE Interrupt /\ w.pc \in {"build", "fill", "flush", "place", "swap"}
    <2>1. w' = [w EXCEPT !.pc = "clean", !.out = "interrupted"]
      BY <1>3 DEF Interrupt
    <2>2. w' \in Commands /\ w'.pc = "clean" /\ w'.ent = w.ent
      BY <1>1, <2>1 DEF Commands, Points, Outcomes
    <2>3. w.ent \in Entities
      BY <1>3, WorkingFacts DEF Building
    <2> QED BY <1>1, <2>2, <2>3, LookedOn, Spared
  <1>4. CASE Interrupt /\ w.pc \notin {"build", "fill", "flush", "place", "swap"}
    <2>1. PICK more : more = IF At("remove") THEN {<<"final", e>> : e \in w.gone}
                                             ELSE {}
      OBVIOUS
    <2>2. more \in SUBSET Paths
      BY <1>1, <2>1, PathTypes DEF Commands, Slots
    <2>3. Finish("interrupted", more)
      BY <1>4, <2>1 DEF Interrupt
    <2> QED BY <1>1, <2>2, <2>3, EndsSparing DEF Outcomes
  <1> QED BY <1>2, <1>3, <1>4

LEMMA PowerLossSparing ==
  ASSUME Sparing, PowerLoss
  PROVE  Sparing'
  <1>1. db' = db /\ w' = NoCommand /\ dir' \in disk /\ disk' = {dir'}
    BY DEF PowerLoss
  <1>2. DirsFit'
    BY <1>1 DEF DirsFit, Sparing, Fit
  <1> QED BY <1>1, <1>2, NoCommandType, LookedElsewhere, Spared

(* Between commands: the new build, and the owner.                         *)
LEMMA NoneInspectsFits ==
  ASSUME NEW d, Fit(d)
  PROVE  Fit(NoneInspects(d))
  <1>1. \A slot \in Slots, e \in Entities : {Torn(s) : s \in d[slot][e]} \in SUBSET Sets
    BY TornType DEF Fit, Dirs
  <1>2. NoneInspects(d) \in Dirs
    BY <1>1 DEF NoneInspects, Dirs
  <1>3. \A e \in Entities : NoneInspects(d)["final"][e] = {Torn(s) : s \in d["final"][e]}
    BY DEF NoneInspects, Slots
  <1> QED BY <1>2, <1>3 DEF Fit

LEMMA BetweenCommandsSparing ==
  ASSUME Sparing, Upgrade \/ SomeRemoval
  PROVE  Sparing' /\ w.pc = "idle"
  <1>1. w' = w /\ db' = db /\ w.pc = "idle" /\ DirsFit /\ w \in Commands
    BY DEF Upgrade, SomeRemoval, OwnerRemoves, At, Sparing
  <1>2. CASE Upgrade
    <2>1. Fit(dir') /\ \A d \in disk' : Fit(d)
      BY <1>1, <1>2, NoneInspectsFits DEF Upgrade, DirsFit
    <2>2. DirsFit'
      BY <2>1 DEF DirsFit, Fit
    <2> QED BY <1>1, <2>2, LookedElsewhere, Spared
  <1>3. CASE SomeRemoval
    <2>1. PICK slot \in Slots, e \in Entities : \E s \in dir[slot][e] :
            RemoveTree(slot, e, s, {}, FALSE)
      BY <1>3 DEF SomeRemoval, OwnerRemoves
    <2>2. DirsFit'
      BY <1>1, <2>1, RemoveFits DEF Remains
    <2> QED BY <1>1, <2>2, LookedElsewhere, Spared
  <1> QED BY <1>1, <1>2, <1>3

LEMMA ExportStepSpares ==
  ASSUME Sparing, Export
  PROVE  Sparing' /\ Spares
  BY SelectSpares, SweepStaleSpares, SweepUnreadSpares,
     SweepRaisesSpares, SweepDoneSpares, BuildSpares, CleanSpares,
     PlaceSpares, ReuseFinalSpares, MoveAsideSpares, SwapSpares, SettleSpares,
     DiscardSpares DEF Export

LEMMA SparingStep ==
  ASSUME Sparing, [LifetimeNext]_vars
  PROVE  /\ Sparing'
         /\ w.op = "export" /\ ~ At("idle") /\ ~ PowerLoss => Spares
  <1>1. CASE CommandStep
    BY <1>1, PreambleSpares, ExportStepSpares, ChangeSpares DEF CommandStep
  <1>2. CASE \E op \in {"export", "change"} : Begin(op)
    BY <1>2, BeginSpares DEF Begin
  <1>3. CASE Interrupt \/ Kill
    BY <1>3, EndingsSpare
  <1>4. CASE PowerLoss
    BY <1>4, PowerLossSparing
  <1>5. CASE Upgrade \/ SomeRemoval
    BY <1>5, BetweenCommandsSparing DEF At
  <1>6. CASE UNCHANGED vars
    <2>1. UNCHANGED <<dir, disk, db>> /\ w' = w /\ w \in Commands
      BY <1>6 DEF vars, Sparing
    <2>2. Looked'
      BY <2>1 DEF Sparing, Looked, At, FinalValid, FinalAbsent
    <2> QED BY <2>1, <2>2, QuietSpares
  <1> QED BY <1>1, <1>2, <1>3, <1>4, <1>5, <1>6 DEF LifetimeNext, Next

LEMMA InitSparing == Init => Sparing
  <1> SUFFICES ASSUME Init PROVE Sparing
    OBVIOUS
  <1>1. Fit(Empty)
    BY DEF Fit, Empty, Dirs, Slots
  <1>2. DirsFit
    BY <1>1 DEF Init, DirsFit
  <1>3. w \in Commands /\ w.pc = "idle" /\ db \in Databases
    BY NoCommandType, MaxRenderAssumption DEF Init, Databases, Renders
  <1> QED BY <1>2, <1>3 DEF Sparing, Looked, At, Building

(* Whatever builds the workspace has lived through and whatever the owner  *)
(* has removed, an export removes, moves or overwrites no final entry that *)
(* it cannot read (_publish_set, the sweep of export_assessment).          *)
THEOREM ExportSparesUnreadableHolds == LifetimeSpec => ExportSparesUnreadable
  <1>1. Sparing /\ [LifetimeNext]_vars => Sparing'
    BY SparingStep
  <1>2. Sparing /\ [LifetimeNext]_vars =>
          [w.op = "export" /\ ~ At("idle") /\ ~ PowerLoss =>
             \A e \in Entities :
               FinalAbsent(dir, e) \/ FinalValid(dir, e)
                 \/ dir'["final"][e] = dir["final"][e]]_vars
    BY SparingStep DEF Spares
  <1>3. Init => Sparing
    BY InitSparing
  <1> QED BY <1>1, <1>2, <1>3, PTL DEF LifetimeSpec, ExportSparesUnreadable
=============================================================================
