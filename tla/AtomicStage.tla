----------------------------- MODULE AtomicStage -----------------------------
(***************************************************************************)
(* What a complete stage promises (spec/15 section 15.10 rules 7 and 8):   *)
(* its business rows replace those it read by one step, together with the  *)
(* completion of its run; a run that does not complete leaves no trace in  *)
(* the business rows, however it ended.                                    *)
(***************************************************************************)
CONSTANTS Commands, NoRun

VARIABLES generation,   \* the run whose business rows are current, or NoRun
          basis,        \* per run: the generation its plan was read from
          fate          \* per run: how it ended

vars == <<generation, basis, fate>>

Fates == {"open", "took", "empty", "failed"}

Init == /\ generation = NoRun
        /\ basis = [c \in Commands |-> NoRun]
        /\ fate = [c \in Commands |-> "open"]

Read(c) == /\ fate[c] = "open"
           /\ basis' = [basis EXCEPT ![c] = generation]
           /\ UNCHANGED <<generation, fate>>

(* All calls validated: the swap, over exactly what was read.              *)
Take(c) == /\ fate[c] = "open"
           /\ generation = basis[c]
           /\ generation' = c
           /\ fate' = [fate EXCEPT ![c] = "took"]
           /\ UNCHANGED basis

(* Nothing to call: the run completes without a swap.                      *)
Skip(c) == /\ fate[c] = "open"
           /\ fate' = [fate EXCEPT ![c] = "empty"]
           /\ UNCHANGED <<generation, basis>>

(* Runs end without effect, several at once when a later writer finds them.*)
Fail(S) == /\ \A c \in S : fate[c] = "open"
           /\ fate' = [c \in Commands |-> IF c \in S THEN "failed" ELSE fate[c]]
           /\ UNCHANGED <<generation, basis>>

(* Another writer retires the current rows.                                *)
Retire(S) == /\ \A c \in S : fate[c] = "open"
             /\ fate' = [c \in Commands |-> IF c \in S THEN "failed" ELSE fate[c]]
             /\ generation' = NoRun
             /\ UNCHANGED basis

Next == \/ \E c \in Commands : Read(c) \/ Take(c) \/ Skip(c)
        \/ \E S \in SUBSET Commands : Fail(S) \/ Retire(S)

Spec == Init /\ [][Next]_vars

=============================================================================
