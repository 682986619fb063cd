---------------------------- MODULE ManagedStore ----------------------------
(***************************************************************************)
(* What managed publication promises (spec/13, section 13.14 rules 5 and   *)
(* 8): for the current assessment snapshot the exported set is replaced by *)
(* one atomic step, by the rendering the database holds, and is not lost   *)
(* before that rendering moves on; a power failure may only return to a    *)
(* store reached since the last flush. Nothing is promised for a snapshot  *)
(* that is no longer current.                                              *)
(***************************************************************************)
EXTENDS Naturals

CONSTANTS Entities, MaxRender, NoEntity

VARIABLES current,   \* the current snapshot, or NoEntity
          spent,     \* snapshots that were current once and no longer are
          render,    \* the rendering of the current snapshot
          store,     \* per snapshot: {} or the rendering that is published
          stable     \* the stores a power failure may return to

vars == <<current, spent, render, store, stable>>

Renders == 1 .. MaxRender
Stores  == [Entities -> SUBSET Renders]

Init == /\ current = NoEntity
        /\ spent = {}
        /\ render = 1
        /\ store = [e \in Entities |-> {}]
        /\ stable = {store}

(* A later lifecycle operation replaces or retires the current snapshot.   *)
Supersede(next) ==
  /\ current' = next
  /\ spent' = spent \cup ({current} \ {NoEntity})
  /\ render' = 1
  /\ UNCHANGED <<store, stable>>

(* A lifecycle event moves the rendering of the current snapshot.          *)
Amend == /\ render' \in {v \in Renders : v > render}
         /\ UNCHANGED <<current, spent, store, stable>>

(* The visibility commit point of an export.                               *)
Publish == /\ current \in Entities
           /\ store' = [store EXCEPT ![current] = {render}]
           /\ stable' = stable \cup {store'}
           /\ UNCHANGED <<current, spent, render>>

(* What may be withdrawn: any set of a snapshot that is not current, of    *)
(* the current one a set whose rendering the database has left behind.     *)
Due(e) == IF e = current THEN {v \in Renders : v < render} ELSE Renders

(* A set that is due is removed, damaged on the way or replaced by an      *)
(* older one.                                                              *)
Withdraw(e) ==
  /\ store[e] \subseteq Due(e)
  /\ \E left \in SUBSET Due(e) :
       store' = [store EXCEPT ![e] = left]
  /\ \E between \in SUBSET {[store EXCEPT ![e] = left] : left \in SUBSET Due(e)} :
       stable' = stable \cup between
  /\ UNCHANGED <<current, spent, render>>

Flush == /\ stable' = {store}
         /\ UNCHANGED <<current, spent, render, store>>

PowerLoss == /\ store' \in stable
             /\ stable' = {store'}
             /\ UNCHANGED <<current, spent, render>>

Next == \/ \E next \in (Entities \ spent) \cup {NoEntity} : Supersede(next)
        \/ Amend
        \/ Publish
        \/ \E e \in Entities : Withdraw(e)
        \/ Flush
        \/ PowerLoss

Spec == Init /\ [][Next]_vars

=============================================================================
