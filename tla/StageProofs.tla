----------------------------- MODULE StageProofs -----------------------------
(***************************************************************************)
(* Proofs about StageRun, for any set of commands, any number of calls and *)
(* any attempt cap. IInv of StageRun is the inductive invariant.           *)
(***************************************************************************)
EXTENDS StageRun, TLAPS

Outs == {"none", "ok", "busy", "failed", "cancelled", "interrupted"}

(* The command became m, the others stayed.                                *)
Became(c, m) == /\ cmd' \in [Commands -> Memory]
                /\ cmd'[c] = m
                /\ \A d \in Commands \ {c} : cmd'[d] = cmd[d]

(* The rows of the other commands stayed, those of this one are rows.      *)
OwnRows(c) == /\ runs' \in [Commands -> RunRows]
              /\ calls' \in [Commands -> [CallIndexes -> CallRows]]
              /\ \A d \in Commands \ {c} : runs'[d] = runs[d] /\ calls'[d] = calls[d]

-----------------------------------------------------------------------------
(* What the helpers of the actions do.                                     *)

LEMMA MoveFacts ==
  ASSUME TypeOK, NEW c \in Commands, NEW m \in Memory,
         cmd' = [cmd EXCEPT ![c] = m]
  PROVE  Became(c, m)
  BY DEF TypeOK, Became

LEMMA GotoFacts ==
  ASSUME TypeOK, NEW c \in Commands, NEW pc \in Points,
         cmd' = [cmd EXCEPT ![c].pc = pc]
  PROVE  Became(c, [cmd[c] EXCEPT !.pc = pc])
  <1>1. [cmd[c] EXCEPT !.pc = pc] \in Memory
    BY DEF TypeOK, Memory
  <1>2. cmd' = [cmd EXCEPT ![c] = [cmd[c] EXCEPT !.pc = pc]]
    OBVIOUS
  <1> QED BY <1>1, <1>2, MoveFacts

LEMMA RemainsFacts ==
  ASSUME TypeOK, NEW c \in Commands, NEW pc \in Points, NEW out \in Outs,
         NEW report \in SUBSET Generations,
         cmd' = [cmd EXCEPT ![c] = Remains(c, pc, out, report)]
  PROVE  Became(c, Remains(c, pc, out, report))
  <1>1. 1 \in CallIndexes /\ 0 \in 0 .. AttemptCap
    BY BoundsAssumption DEF CallIndexes
  <1>2. cmd[c] \in Memory
    BY DEF TypeOK
  <1>3. Remains(c, pc, out, report) \in Memory
    BY <1>1, <1>2 DEF Memory, Remains, Outs
  <1> QED BY <1>3, MoveFacts

LEMMA EndFacts ==
  ASSUME TypeOK, NEW c \in Commands, NEW out \in Outs, End(c, out)
  PROVE  Became(c, Remains(c, "over", out, cmd[c].report)) /\ lock' = NoRun
  <1>1. cmd[c].report \in SUBSET Generations /\ "over" \in Points
    BY DEF TypeOK, Memory, Points
  <1>2. cmd' = [cmd EXCEPT ![c] = Remains(c, "over", out, cmd[c].report)]
    BY DEF End
  <1> QED BY <1>1, <1>2, RemainsFacts DEF End

LEMMA SetCallFacts ==
  ASSUME TypeOK, NEW c \in Commands, NEW row \in CallRows, SetCall(c, row)
  PROVE  /\ calls' \in [Commands -> [CallIndexes -> CallRows]]
         /\ \A d \in Commands \ {c} : calls'[d] = calls[d]
         /\ calls'[c][cmd[c].call] = row
         /\ \A k \in CallIndexes \ {cmd[c].call} : calls'[c][k] = calls[c][k]
  <1>1. cmd[c].call \in CallIndexes
    BY DEF TypeOK, Memory
  <1> QED BY <1>1 DEF TypeOK, SetCall

LEMMA SetRunFacts ==
  ASSUME TypeOK, NEW c \in Commands,
         NEW status \in {"absent", "running", "completed", "failed"},
         NEW code \in Codes, SetRun(c, status, code)
  PROVE  /\ runs' \in [Commands -> RunRows]
         /\ \A d \in Commands \ {c} : runs'[d] = runs[d]
         /\ runs'[c].status = status
  BY DEF TypeOK, SetRun, RunRows

-----------------------------------------------------------------------------
(* Parts of the argument every action uses.                                *)

(* A step of one command leaves the others sound.                          *)
LEMMA OthersSound ==
  ASSUME IInv, NEW c \in Commands,
         \A d \in Commands \ {c} : /\ cmd'[d] = cmd[d] /\ runs'[d] = runs[d]
                                   /\ calls'[d] = calls[d]
                                   /\ lock' = d <=> lock = d,
         runs[c].status = "completed" => runs'[c].status = "completed",
         published' \subseteq published,
         \/ generation' = generation
         \/ generation' = c /\ lock = c /\ runs[c].status # "completed"
  PROVE  \A d \in Commands \ {c} : CommandSound(d)'
  <1> TAKE d \in Commands \ {c}
  <1>0. CommandSound(d) /\ cmd[d] \in Memory
    BY DEF IInv, TypeOK
  <1>1. LockSound(d)'
    BY <1>0 DEF CommandSound, LockSound
  <1>2. RowsSound(d)'
    BY <1>0 DEF CommandSound, RowsSound
  <1>3. MemorySound(d)'
    BY <1>0 DEF CommandSound, MemorySound
  <1>4. ProgressSound(d)'
    BY <1>0 DEF CommandSound, ProgressSound
  <1>5. BasisSound(d)'
    <2>1. lock = c => cmd[d].pc \notin Working
      BY <1>0 DEF CommandSound, LockSound, Locked, Working, Calling, Memory
    <2>2. cmd[d].basis # NoRun => runs'[cmd[d].basis].status = "completed"
      BY <1>0 DEF CommandSound, BasisSound, Memory, Generations
    <2> QED BY <1>0, <2>1, <2>2 DEF CommandSound, BasisSound, Took
  <1>6. ReportSound(d)'
    BY <1>0 DEF CommandSound, ReportSound, Took
  <1> QED BY <1>1, <1>2, <1>3, <1>4, <1>5, <1>6 DEF CommandSound

(* A command that leaves the lock needs to look after its rows only.       *)
LEMMA EndKeeps ==
  ASSUME IInv, NEW c \in Commands, NEW out \in Outs, End(c, out),
         cmd[c].pc \in Locked, OwnRows(c), RowsSound(c)',
         runs'[c].status = "completed" <=> runs[c].status = "completed",
         generation' = generation, published' \subseteq published
  PROVE  IInv'
  <1>0. TypeOK /\ CommandSound(c) /\ lock = c
    BY DEF IInv, CommandSound, LockSound
  <1>1. Became(c, Remains(c, "over", out, cmd[c].report)) /\ lock' = NoRun
    BY <1>0, EndFacts
  <1>2. /\ cmd'[c].pc = "over" /\ cmd'[c].planned = cmd[c].planned
        /\ cmd'[c].basis = cmd[c].basis /\ cmd'[c].report = cmd[c].report
    BY <1>1 DEF Became, Remains
  <1>3. TypeOK'
    BY <1>0, <1>1 DEF TypeOK, Became, OwnRows, Generations
  <1>4. \A d \in Commands \ {c} : CommandSound(d)'
    BY <1>0, <1>1, NoRunAssumption, OthersSound DEF Became, OwnRows
  <1>5. LockSound(c)' /\ MemorySound(c)' /\ ProgressSound(c)'
    BY <1>0, <1>1, <1>2, NoRunAssumption
    DEF LockSound, MemorySound, ProgressSound, CommandSound, Locked, Early,
        Working, Calling
  <1>6. \A d \in Commands : runs[d].status = "completed" => runs'[d].status = "completed"
    BY DEF OwnRows
  <1>7. BasisSound(c)'
    BY <1>0, <1>2, <1>6
    DEF BasisSound, CommandSound, Took, Working, Calling, TypeOK, Memory, Generations
  <1>8. ReportSound(c)'
    BY <1>0, <1>2 DEF ReportSound, CommandSound, Took, Locked
  <1>9. generation' # NoRun => runs'[generation'].status = "completed"
    BY <1>0, <1>6 DEF IInv, TypeOK, Generations
  <1> QED BY <1>3, <1>4, <1>5, <1>7, <1>8, <1>9 DEF IInv, CommandSound

LEMMA RaisesKeeps ==
  ASSUME IInv, NEW c \in Commands, cmd[c].pc \in Locked, Raises(c)
  PROVE  IInv'
  <1>1. End(c, "failed") /\ UNCHANGED <<runs, calls, generation, published>>
    BY DEF Raises, Rows, Business
  <1>2. OwnRows(c)
    BY <1>1 DEF IInv, TypeOK, OwnRows
  <1>3. RowsSound(c)'
    <2>1. cmd'[c].planned = cmd[c].planned
      <3>1. TypeOK /\ "failed" \in Outs
        BY DEF IInv, Outs
      <3>2. Became(c, Remains(c, "over", "failed", cmd[c].report))
        BY <1>1, <3>1, EndFacts
      <3> QED BY <3>2 DEF Became, Remains
    <2> QED BY <1>1, <2>1 DEF IInv, CommandSound, RowsSound
  <1> QED BY <1>1, <1>2, <1>3, EndKeeps DEF Outs

(* A step of one command that stays in memory.                             *)
LEMMA StepKeeps ==
  ASSUME IInv, NEW c \in Commands, NEW m, Became(c, m), OwnRows(c),
         lock' \in Generations,
         \A d \in Commands \ {c} : lock' = d <=> lock = d,
         runs[c].status = "completed" => runs'[c].status = "completed",
         published' \subseteq published,
         \/ generation' = generation
         \/ /\ generation' = c /\ lock = c /\ runs[c].status # "completed"
            /\ runs'[c].status = "completed",
         CommandSound(c)'
  PROVE  IInv'
  <1>1. TypeOK'
    BY DEF IInv, TypeOK, Became, OwnRows, Generations
  <1>2. \A d \in Commands \ {c} : CommandSound(d)'
    BY OthersSound DEF Became, OwnRows
  <1>3. \A d \in Commands : runs[d].status = "completed" => runs'[d].status = "completed"
    BY DEF OwnRows
  <1>4. generation' # NoRun => runs'[generation'].status = "completed"
    BY <1>3 DEF IInv, TypeOK, Generations
  <1> QED BY <1>1, <1>2, <1>4 DEF IInv

(* A step that only moves: neither rows nor business rows are touched.     *)
LEMMA MoveKeeps ==
  ASSUME IInv, NEW c \in Commands, NEW m, Became(c, m),
         UNCHANGED <<lock, runs, calls, generation, published>>,
         cmd[c].pc \in Locked <=> m.pc \in Locked,
         m.planned = cmd[c].planned \/ runs[c].status = "absent",
         MemorySound(c)', ProgressSound(c)', BasisSound(c)', ReportSound(c)'
  PROVE  IInv'
  <1>1. CommandSound(c) /\ OwnRows(c) /\ lock' \in Generations
    BY DEF IInv, TypeOK, OwnRows
  <1>2. LockSound(c)'
    BY <1>1 DEF Became, CommandSound, LockSound
  <1>3. RowsSound(c)'
    BY <1>1 DEF Became, CommandSound, RowsSound, NoCall
  <1>4. CommandSound(c)'
    BY <1>2, <1>3 DEF CommandSound
  <1> QED BY <1>1, <1>4, StepKeeps

(* A step that only changes the place, inside the adapter or to a handler. *)
LEMMA GotoKeeps ==
  ASSUME IInv, NEW c \in Commands, cmd[c].pc \in Locked,
         NEW pc \in Calling \cup {"undo", "cancel_call", "cancel_run"}, Goto(c, pc),
         UNCHANGED <<runs, calls, generation, published>>,
         pc \in Calling => cmd[c].pc \in Calling,
         pc \in {"enter", "attempt", "retry", "backoff"} => cmd[c].attempt < AttemptCap,
         pc \in {"undo", "cancel_call"} => runs[c].status = "running"
  PROVE  IInv'
  <1>1. TypeOK /\ CommandSound(c) /\ cmd[c] \in Memory
    BY DEF IInv, TypeOK
  <1>2. pc \in Points /\ pc \in Locked /\ cmd[c].pc # "dead"
    BY DEF Points, Locked, Calling
  <1>3. UNCHANGED lock /\ Became(c, [cmd[c] EXCEPT !.pc = pc])
    BY <1>1, <1>2, GotoFacts DEF Goto
  <1>4. /\ cmd'[c].pc = pc /\ cmd'[c].planned = cmd[c].planned
        /\ cmd'[c].basis = cmd[c].basis /\ cmd'[c].report = cmd[c].report
        /\ cmd'[c].call = cmd[c].call /\ cmd'[c].attempt = cmd[c].attempt
    BY <1>1, <1>3 DEF Became, Memory
  <1>5. pc \in Working => pc \in Calling /\ cmd[c].pc \in Working
    BY DEF Working, Calling
  <1>6. MemorySound(c)'
    BY <1>1, <1>4, <1>5 DEF CommandSound, MemorySound, Early, Calling
  <1>7. ProgressSound(c)'
    BY <1>1, <1>4, <1>5 DEF CommandSound, ProgressSound, Early, Calling
  <1>8. BasisSound(c)'
    BY <1>1, <1>4, <1>5 DEF CommandSound, BasisSound, Took
  <1>9. ReportSound(c)'
    BY <1>1, <1>2, <1>4 DEF CommandSound, ReportSound, Took, Calling
  <1> QED BY <1>1, <1>2, <1>3, <1>6, <1>7, <1>8, <1>9, MoveKeeps DEF Memory

(* Closing the current call and failing the run.                           *)
LEMMA CloseFacts ==
  ASSUME IInv, NEW c \in Commands, NEW status \in {"failed", "completed"},
         NEW code \in Codes, Call(c).status = "running",
         SetCall(c, [Call(c) EXCEPT !.status = status]), SetRun(c, "failed", code)
  PROVE  OwnRows(c) /\ RowsSound(c)' /\ runs'[c].status = "failed"
  <1>1. TypeOK /\ RowsSound(c) /\ cmd[c].call \in CallIndexes
    BY DEF IInv, CommandSound, TypeOK, Memory
  <1>2. Call(c) \in CallRows
    BY <1>1 DEF TypeOK, Call
  <1>3. [Call(c) EXCEPT !.status = status] \in CallRows
    BY <1>2 DEF CallRows
  <1>4. /\ OwnRows(c)
        /\ runs'[c].status = "failed"
        /\ calls'[c][cmd[c].call] = [Call(c) EXCEPT !.status = status]
        /\ \A k \in CallIndexes \ {cmd[c].call} : calls'[c][k] = calls[c][k]
    BY <1>1, <1>3, SetCallFacts, SetRunFacts DEF OwnRows
  <1>5. calls'[c][cmd[c].call].status = status
    BY <1>2, <1>4 DEF CallRows
  <1>6. \A k \in CallIndexes : cmd[c].call < k => calls[c][k].status = "absent"
    BY <1>1 DEF RowsSound, Call
  <1>7. \A j \in CallIndexes : j < cmd[c].call => calls[c][j].status = "completed"
    BY <1>1 DEF RowsSound, Call
  <1>8. \A k \in CallIndexes : calls'[c][k].status # "absent" =>
          \A j \in CallIndexes : j < k => calls'[c][j].status = "completed"
    <2> SUFFICES ASSUME NEW k \in CallIndexes, calls'[c][k].status # "absent",
                        NEW j \in CallIndexes, j < k
                 PROVE  calls'[c][j].status = "completed"
      OBVIOUS
    <2>1. k \in Nat /\ j \in Nat /\ cmd[c].call \in Nat
      BY <1>1 DEF CallIndexes
    <2>2. CASE k = cmd[c].call
      BY <1>4, <1>7, <2>1, <2>2
    <2>3. CASE k # cmd[c].call
      BY <1>1, <1>4, <1>6, <2>1, <2>3 DEF RowsSound, Call
    <2> QED BY <2>2, <2>3
  <1> QED BY <1>4, <1>8 DEF RowsSound

LEMMA FailKeeps ==
  ASSUME IInv, NEW c \in Commands, NEW code \in Codes, cmd[c].pc \in Calling,
         Fail(c, code)
  PROVE  IInv'
  <1>1. CASE Raises(c)
    BY <1>1, RaisesKeeps DEF Locked, Calling, Points
  <1>2. CASE /\ SetCall(c, [Call(c) EXCEPT !.status = "failed"])
             /\ SetRun(c, "failed", code)
             /\ End(c, IF code = "cancelled" THEN "cancelled" ELSE "failed")
             /\ UNCHANGED Business
    <2>1. Call(c).status = "running" /\ runs[c].status = "running"
      BY DEF IInv, CommandSound, ProgressSound, Call, Calling
    <2>2. OwnRows(c) /\ RowsSound(c)' /\ runs'[c].status = "failed"
      BY <1>2, <2>1, CloseFacts
    <2>3. cmd[c].pc \in Locked
      BY DEF Locked, Calling, Points
    <2> QED BY <1>2, <2>1, <2>2, <2>3, EndKeeps DEF Outs, Business
  <1> QED BY <1>1, <1>2 DEF Fail

-----------------------------------------------------------------------------
(* One lemma per action: before the calls.                                 *)

LEMMA StartKeeps ==
  ASSUME IInv, NEW c \in Commands, Start(c)
  PROVE  IInv'
  <1>1. TypeOK /\ CommandSound(c) /\ cmd[c] \in Memory /\ cmd[c].pc = "idle"
    BY DEF IInv, TypeOK, Start, At
  <1>2. UNCHANGED <<lock, runs, calls, generation, published>>
    BY DEF Start, Goto, Rows, Business
  <1>3. Became(c, [cmd[c] EXCEPT !.pc = "wait"])
    BY <1>1, GotoFacts DEF Start, Goto, Points
  <1>4. /\ cmd'[c].pc = "wait" /\ cmd'[c].planned = cmd[c].planned
        /\ cmd'[c].basis = cmd[c].basis /\ cmd'[c].report = cmd[c].report
        /\ cmd'[c].call = cmd[c].call /\ cmd'[c].attempt = cmd[c].attempt
    BY <1>1, <1>3 DEF Became, Memory
  <1>5. MemorySound(c)' /\ ProgressSound(c)' /\ BasisSound(c)' /\ ReportSound(c)'
    BY <1>1, <1>2, <1>4
    DEF CommandSound, MemorySound, ProgressSound, BasisSound, ReportSound, Took,
        Early, Working, Calling
  <1> QED BY <1>1, <1>2, <1>3, <1>4, <1>5, MoveKeeps DEF Became, Locked

LEMMA AcquireKeeps ==
  ASSUME IInv, NEW c \in Commands, Acquire(c)
  PROVE  IInv'
  <1>1. TypeOK /\ CommandSound(c) /\ cmd[c] \in Memory /\ cmd[c].pc = "wait"
    BY DEF IInv, TypeOK, Acquire, At
  <1>2. /\ UNCHANGED <<runs, calls, generation, published>>
        /\ lock = NoRun /\ lock' = c
    BY DEF Acquire, Rows, Business
  <1>3. Became(c, [cmd[c] EXCEPT !.pc = "sweep"])
    BY <1>1, GotoFacts DEF Acquire, Points
  <1>4. /\ cmd'[c].pc = "sweep" /\ cmd'[c].planned = cmd[c].planned
        /\ cmd'[c].basis = cmd[c].basis /\ cmd'[c].report = cmd[c].report
        /\ cmd'[c].call = cmd[c].call /\ cmd'[c].attempt = cmd[c].attempt
    BY <1>1, <1>3 DEF Became, Memory
  <1>5. MemorySound(c)' /\ ProgressSound(c)' /\ BasisSound(c)' /\ ReportSound(c)'
    BY <1>1, <1>2, <1>4
    DEF CommandSound, MemorySound, ProgressSound, BasisSound, ReportSound, Took,
        Early, Working, Calling
  <1>6. LockSound(c)' /\ RowsSound(c)'
    BY <1>1, <1>2, <1>4 DEF CommandSound, LockSound, RowsSound, Locked, Points
  <1>7. \A d \in Commands \ {c} : lock' = d <=> lock = d
    BY <1>2, NoRunAssumption
  <1>8. OwnRows(c) /\ lock' \in Generations
    BY <1>1, <1>2 DEF OwnRows, TypeOK, Generations
  <1> QED BY <1>2, <1>3, <1>5, <1>6, <1>7, <1>8, StepKeeps DEF CommandSound

LEMMA BusyKeeps ==
  ASSUME IInv, NEW c \in Commands, Busy(c)
  PROVE  IInv'
  <1>1. TypeOK /\ CommandSound(c) /\ cmd[c].pc = "wait"
    BY DEF IInv, Busy, At
  <1>2. UNCHANGED <<lock, runs, calls, generation, published>>
    BY DEF Busy, Rows, Business
  <1>3. Became(c, Remains(c, "over", "busy", {}))
    BY <1>1, RemainsFacts DEF Busy, Points, Outs
  <1>4. /\ cmd'[c].pc = "over" /\ cmd'[c].planned = cmd[c].planned
        /\ cmd'[c].basis = NoRun /\ cmd'[c].report = {}
    BY <1>1, <1>3 DEF Became, Remains, CommandSound, MemorySound, Early
  <1>5. MemorySound(c)' /\ ProgressSound(c)' /\ BasisSound(c)' /\ ReportSound(c)'
    BY <1>1, <1>2, <1>4, NoRunAssumption
    DEF MemorySound, ProgressSound, BasisSound, ReportSound, Early, Working,
        Calling, TypeOK
  <1>6. cmd[c].pc \notin Locked /\ cmd'[c].pc \notin Locked
    BY <1>1, <1>4 DEF Locked
  <1> QED BY <1>2, <1>3, <1>4, <1>5, <1>6, MoveKeeps DEF Became, Remains

LEMMA PlanKeeps ==
  ASSUME IInv, NEW c \in Commands, Plan(c)
  PROVE  IInv'
  <1>1. TypeOK /\ CommandSound(c) /\ cmd[c] \in Memory /\ cmd[c].pc = "plan"
    BY DEF IInv, TypeOK, Plan, At
  <1>2. CASE Raises(c)
    BY <1>1, <1>2, RaisesKeeps DEF Locked, Points
  <1>3. ASSUME NEW n \in 0 .. MaxCalls,
               cmd' = [cmd EXCEPT ![c].pc = IF n = 0 THEN "empty" ELSE "create",
                                  ![c].planned = n, ![c].basis = generation],
               UNCHANGED <<lock, Rows, Business>>
        PROVE  IInv'
    <2> DEFINE pc == IF n = 0 THEN "empty" ELSE "create"
               m == [cmd[c] EXCEPT !.pc = pc, !.planned = n, !.basis = generation]
    <2>1. pc \in Points /\ pc \in Locked /\ pc \in {"empty", "create"}
      BY DEF Points, Locked
    <2>2. UNCHANGED <<lock, runs, calls, generation, published>>
      BY <1>3 DEF Rows, Business
    <2>3. m \in Memory
      BY <1>1, <2>1 DEF Memory, TypeOK
    <2>4. /\ m.pc = pc /\ m.planned = n /\ m.basis = generation
          /\ m.report = {} /\ m.call = 1 /\ m.attempt = cmd[c].attempt
      BY <1>1 DEF Memory, CommandSound, MemorySound, Early
    <2>5. cmd' = [cmd EXCEPT ![c] = m]
      BY <1>3
    <2>6. pc = "empty" <=> n = 0
      OBVIOUS
    <2> HIDE DEF m, pc
    <2>7. Became(c, m)
      BY <1>1, <2>3, <2>5, MoveFacts
    <2>8. runs[c].status = "absent" /\ \A k \in CallIndexes : calls[c][k].status = "absent"
      BY <1>1 DEF CommandSound, ProgressSound, RowsSound, NoCall, Early
    <2>9. MemorySound(c)'
      BY <1>1, <2>1, <2>4, <2>6, <2>7
      DEF Became, CommandSound, MemorySound, Early, Working, Calling
    <2>10. ProgressSound(c)'
      BY <2>1, <2>2, <2>4, <2>7, <2>8, BoundsAssumption
      DEF Became, ProgressSound, Early, Working, Calling, CallIndexes
    <2>11. BasisSound(c)' /\ ReportSound(c)'
      BY <1>1, <2>1, <2>2, <2>4, <2>7, <2>8
      DEF IInv, Became, BasisSound, ReportSound, Took
    <2>12. cmd[c].pc \in Locked /\ m.pc \in Locked
      BY <1>1, <2>1, <2>4 DEF Locked, Points
    <2> QED BY <2>2, <2>7, <2>8, <2>9, <2>10, <2>11, <2>12, MoveKeeps
  <1> QED BY <1>2, <1>3 DEF Plan

LEMMA CompleteEmptyKeeps ==
  ASSUME IInv, NEW c \in Commands, CompleteEmpty(c)
  PROVE  IInv'
  <1>1. TypeOK /\ CommandSound(c) /\ cmd[c] \in Memory /\ cmd[c].pc = "empty"
    BY DEF IInv, TypeOK, CompleteEmpty, At
  <1>2. cmd[c].pc \in Locked /\ lock = c
    BY <1>1 DEF Locked, Points, CommandSound, LockSound
  <1>3. CASE Raises(c)
    BY <1>2, <1>3, RaisesKeeps
  <1>4. CASE /\ SetRun(c, "completed", "none")
             /\ Goto(c, "cleanup")
             /\ UNCHANGED <<calls, Business>>
    <2>1. UNCHANGED <<lock, calls, generation, published>>
      BY <1>4 DEF Goto, Business
    <2>2. OwnRows(c) /\ runs'[c].status = "completed"
      BY <1>1, <1>4, <2>1, SetRunFacts DEF OwnRows, TypeOK, Codes
    <2>3. Became(c, [cmd[c] EXCEPT !.pc = "cleanup"])
      BY <1>1, <1>4, GotoFacts DEF Goto, Points
    <2>4. /\ cmd'[c].pc = "cleanup" /\ cmd'[c].planned = 0
          /\ cmd'[c].basis = cmd[c].basis /\ cmd'[c].report = cmd[c].report
      BY <1>1, <2>3 DEF Became, Memory, CommandSound, MemorySound
    <2>5. \A k \in CallIndexes : calls[c][k].status = "absent"
      BY <1>1 DEF CommandSound, ProgressSound, RowsSound, NoCall
    <2>6. LockSound(c)' /\ MemorySound(c)' /\ ProgressSound(c)'
      BY <1>1, <1>2, <2>1, <2>4
      DEF CommandSound, LockSound, MemorySound, ProgressSound, Locked, Points,
          Early, Working, Calling
    <2>7. RowsSound(c)'
      BY <2>1, <2>2, <2>4, <2>5 DEF RowsSound, CallIndexes
    <2>8. BasisSound(c)' /\ ReportSound(c)'
      BY <1>1, <2>1, <2>2, <2>4
      DEF CommandSound, BasisSound, ReportSound, Took, Working, Calling, OwnRows,
          Memory, Generations
    <2> QED BY <1>1, <2>1, <2>2, <2>3, <2>6, <2>7, <2>8, StepKeeps
            DEF CommandSound, TypeOK
  <1> QED BY <1>3, <1>4 DEF CompleteEmpty

-----------------------------------------------------------------------------
(* The adapter.                                                            *)

LEMMA CreateRowsKeeps ==
  ASSUME IInv, NEW c \in Commands, CreateRows(c)
  PROVE  IInv'
  <1>1. TypeOK /\ CommandSound(c) /\ cmd[c] \in Memory /\ cmd[c].pc = "create"
    BY DEF IInv, TypeOK, CreateRows, At
  <1>2. cmd[c].pc \in Locked /\ lock = c /\ cmd[c].call \in CallIndexes
    BY <1>1 DEF Locked, Points, CommandSound, LockSound, Memory
  <1>3. CASE Raises(c)
    BY <1>2, <1>3, RaisesKeeps
  <1>4. CASE /\ SetRun(c, "running", "none")
             /\ SetCall(c, [NoCall EXCEPT !.status = "running"])
             /\ Goto(c, "enter")
             /\ UNCHANGED Business
    <2>1. UNCHANGED <<lock, generation, published>>
      BY <1>4 DEF Goto, Business
    <2>2. /\ [NoCall EXCEPT !.status = "running"] \in CallRows
          /\ [NoCall EXCEPT !.status = "running"].status = "running"
      BY DEF NoCall, CallRows
    <2>3. /\ OwnRows(c) /\ runs'[c].status = "running"
          /\ calls'[c][cmd[c].call].status = "running"
          /\ \A k \in CallIndexes \ {cmd[c].call} : calls'[c][k] = calls[c][k]
      BY <1>1, <1>4, <2>2, SetRunFacts, SetCallFacts DEF OwnRows, Codes
    <2>4. Became(c, [cmd[c] EXCEPT !.pc = "enter"])
      BY <1>1, <1>4, GotoFacts DEF Goto, Points
    <2>5. /\ cmd'[c].pc = "enter" /\ cmd'[c].planned = cmd[c].planned
          /\ cmd'[c].basis = cmd[c].basis /\ cmd'[c].report = cmd[c].report
          /\ cmd'[c].call = cmd[c].call /\ cmd'[c].attempt = cmd[c].attempt
      BY <1>1, <2>4 DEF Became, Memory
    <2>6. /\ \A k \in CallIndexes : k < cmd[c].call => calls'[c][k].status = "completed"
          /\ \A k \in CallIndexes : k > cmd[c].call => calls'[c][k].status = "absent"
      BY <1>1, <1>2, <2>3 DEF CommandSound, ProgressSound, Working, CallIndexes
    <2>7. LockSound(c)' /\ MemorySound(c)' /\ ProgressSound(c)'
      BY <1>1, <1>2, <2>1, <2>3, <2>5, <2>6
      DEF CommandSound, LockSound, MemorySound, ProgressSound, Locked, Points,
          Early, Working, Calling
    <2>8. RowsSound(c)'
      BY <1>2, <2>3, <2>6 DEF RowsSound, CallIndexes
    <2>9. runs[c].status # "completed"
      BY <1>1 DEF CommandSound, ProgressSound
    <2>10. BasisSound(c)' /\ ReportSound(c)'
      BY <1>1, <2>1, <2>3, <2>5, <2>9
      DEF CommandSound, BasisSound, ReportSound, Took, Working, Calling, OwnRows,
          Memory, Generations
    <2> QED BY <1>1, <2>1, <2>3, <2>4, <2>7, <2>8, <2>9, <2>10, StepKeeps
            DEF CommandSound, TypeOK
  <1> QED BY <1>3, <1>4 DEF CreateRows

(* What holds while a call is being made.                                  *)
LEMMA CallingFacts ==
  ASSUME IInv, NEW c \in Commands, cmd[c].pc \in Calling
  PROVE  /\ TypeOK /\ CommandSound(c) /\ cmd[c] \in Memory
         /\ cmd[c].pc \in Locked /\ lock = c
         /\ cmd[c].call \in CallIndexes /\ Call(c) \in CallRows
         /\ runs[c].status = "running" /\ Call(c).status = "running"
  <1>1. TypeOK /\ CommandSound(c) /\ cmd[c] \in Memory
    BY DEF IInv, TypeOK
  <1>2. cmd[c].pc \in Locked
    BY DEF Locked, Points, Calling
  <1>3. cmd[c].call \in CallIndexes /\ Call(c) \in CallRows
    BY <1>1 DEF Memory, TypeOK, Call
  <1> QED BY <1>1, <1>2, <1>3 DEF CommandSound, LockSound, ProgressSound, Call

(* A step inside the adapter that updates the counters of the open call.   *)
LEMMA CountKeeps ==
  ASSUME IInv, NEW c \in Commands, cmd[c].pc \in Calling,
         NEW row \in CallRows, row.status = "running", SetCall(c, row),
         NEW m, Became(c, m), m.pc \in Calling,
         m.pc \in {"enter", "attempt", "retry", "backoff"} => m.attempt < AttemptCap,
         m.call = cmd[c].call, m.planned = cmd[c].planned,
         m.basis = cmd[c].basis, m.report = cmd[c].report,
         UNCHANGED <<lock, runs, generation, published>>
  PROVE  IInv'
  <1>1. /\ TypeOK /\ CommandSound(c) /\ lock = c /\ cmd[c].call \in CallIndexes
        /\ runs[c].status = "running" /\ Call(c).status = "running"
    BY CallingFacts
  <1>2. /\ OwnRows(c) /\ calls'[c][cmd[c].call] = row
        /\ \A k \in CallIndexes \ {cmd[c].call} : calls'[c][k] = calls[c][k]
    BY <1>1, SetCallFacts DEF OwnRows, TypeOK
  <1>3. cmd'[c] = m
    BY DEF Became
  <1>4. \A k \in CallIndexes : calls'[c][k].status = calls[c][k].status
    BY <1>1, <1>2 DEF Call
  <1>5. RowsSound(c)'
    BY <1>1, <1>3, <1>4 DEF CommandSound, RowsSound
  <1>6. LockSound(c)' /\ MemorySound(c)'
    BY <1>1, <1>3
    DEF CommandSound, LockSound, MemorySound, Locked, Points, Early, Working, Calling
  <1>7. ProgressSound(c)'
    BY <1>1, <1>3, <1>4
    DEF CommandSound, ProgressSound, Early, Working, Calling
  <1>8. BasisSound(c)' /\ ReportSound(c)'
    BY <1>1, <1>3
    DEF CommandSound, BasisSound, ReportSound, Took, Working, Calling
  <1> QED BY <1>1, <1>2, <1>5, <1>6, <1>7, <1>8, StepKeeps DEF CommandSound, TypeOK

LEMMA EnterRoundsKeeps ==
  ASSUME IInv, NEW c \in Commands, EnterRounds(c)
  PROVE  IInv'
  <1>1. cmd[c].pc = "enter" /\ cmd[c].pc \in Calling
    BY DEF EnterRounds, At, Calling
  <1>2. cmd[c].attempt < AttemptCap /\ cmd[c].pc \in Locked
    BY <1>1, CallingFacts DEF CommandSound, MemorySound
  <1>3. CASE Goto(c, "attempt") /\ UNCHANGED <<Rows, Business>>
    BY <1>1, <1>2, <1>3, GotoKeeps DEF Calling, Rows, Business
  <1>4. CASE \E code \in {"other", "cancelled"} : Fail(c, code)
    BY <1>1, <1>4, FailKeeps DEF Codes
  <1> QED BY <1>3, <1>4 DEF EnterRounds

LEMMA AttemptKeeps ==
  ASSUME IInv, NEW c \in Commands, Attempt(c)
  PROVE  IInv'
  <1>1. cmd[c].pc = "attempt" /\ cmd[c].pc \in Calling
    BY DEF Attempt, At, Calling
  <1>2. /\ TypeOK /\ cmd[c] \in Memory /\ Call(c) \in CallRows
        /\ Call(c).status = "running" /\ cmd[c].attempt < AttemptCap
    BY <1>1, CallingFacts DEF CommandSound, MemorySound
  <1>3. CASE /\ SetCall(c, [Call(c) EXCEPT !.sent = @ + 1])
             /\ cmd' = [cmd EXCEPT ![c].pc = "sent", ![c].attempt = @ + 1]
             /\ UNCHANGED <<lock, runs, Business>>
    <2> DEFINE row == [Call(c) EXCEPT !.sent = @ + 1]
               m == [cmd[c] EXCEPT !.pc = "sent", !.attempt = @ + 1]
    <2>1. row \in CallRows /\ row.status = "running"
      BY <1>2 DEF CallRows
    <2>2. cmd[c].attempt + 1 \in 0 .. AttemptCap
      BY <1>2, BoundsAssumption DEF Memory
    <2>3. m \in Memory
      BY <1>2, <2>2 DEF Memory, Points
    <2>4. /\ m.pc = "sent" /\ m.call = cmd[c].call /\ m.planned = cmd[c].planned
          /\ m.basis = cmd[c].basis /\ m.report = cmd[c].report
      BY <1>2 DEF Memory
    <2>5. cmd' = [cmd EXCEPT ![c] = m]
      BY <1>3
    <2>6. Became(c, m)
      BY <1>2, <2>3, <2>5, MoveFacts
    <2>7. SetCall(c, row) /\ UNCHANGED <<lock, runs, generation, published>>
      BY <1>3 DEF Business
    <2>8. m.pc \in Calling /\ m.pc \notin {"enter", "attempt", "retry", "backoff"}
      BY <2>4 DEF Calling
    <2> HIDE DEF m, row
    <2> QED BY <1>1, <2>1, <2>4, <2>6, <2>7, <2>8, CountKeeps
  <1>4. CASE \E code \in {"transport_timeout", "other"} : Fail(c, code)
    BY <1>1, <1>4, FailKeeps DEF Codes
  <1> QED BY <1>3, <1>4 DEF Attempt

LEMMA AnsweredKeeps ==
  ASSUME IInv, NEW c \in Commands, Answered(c)
  PROVE  IInv'
  <1>1. cmd[c].pc = "sent" /\ cmd[c].pc \in Calling
    BY DEF Answered, At, Calling
  <1>2. cmd[c].pc \in Locked
    BY <1>1, CallingFacts
  <1>3. CASE Goto(c, "validate") /\ UNCHANGED <<Rows, Business>>
    BY <1>1, <1>2, <1>3, GotoKeeps DEF Calling, Rows, Business
  <1>4. CASE Retryable(c) /\ Goto(c, "retry") /\ UNCHANGED <<Rows, Business>>
    BY <1>1, <1>2, <1>4, GotoKeeps DEF Calling, Retryable, Rows, Business
  <1>5. CASE \E code \in {"other", "cancelled", "transport_timeout"} : Fail(c, code)
    BY <1>1, <1>5, FailKeeps DEF Codes
  <1> QED BY <1>3, <1>4, <1>5 DEF Answered

LEMMA CountTransportKeeps ==
  ASSUME IInv, NEW c \in Commands, CountTransport(c)
  PROVE  IInv'
  <1>1. cmd[c].pc = "retry" /\ cmd[c].pc \in Calling
    BY DEF CountTransport, At, Calling
  <1>2. /\ TypeOK /\ cmd[c] \in Memory /\ Call(c) \in CallRows /\ cmd[c].pc \in Locked
        /\ Call(c).status = "running" /\ cmd[c].attempt < AttemptCap
    BY <1>1, CallingFacts DEF CommandSound, MemorySound
  <1>3. CASE /\ SetCall(c, [Call(c) EXCEPT !.transport = @ + 1])
             /\ Goto(c, "backoff")
             /\ UNCHANGED <<runs, Business>>
    <2> DEFINE row == [Call(c) EXCEPT !.transport = @ + 1]
               m == [cmd[c] EXCEPT !.pc = "backoff"]
    <2>1. row \in CallRows /\ row.status = "running"
      BY <1>2 DEF CallRows
    <2>2. /\ m.pc = "backoff" /\ m.call = cmd[c].call /\ m.planned = cmd[c].planned
          /\ m.basis = cmd[c].basis /\ m.report = cmd[c].report
          /\ m.attempt = cmd[c].attempt
      BY <1>2 DEF Memory
    <2>3. Became(c, m)
      BY <1>2, <1>3, GotoFacts DEF Goto, Points
    <2>4. SetCall(c, row) /\ UNCHANGED <<lock, runs, generation, published>>
      BY <1>3 DEF Goto, Business
    <2>5. m.pc \in Calling /\ m.attempt < AttemptCap
      BY <1>2, <2>2 DEF Calling
    <2> HIDE DEF m, row
    <2> QED BY <1>1, <2>1, <2>2, <2>3, <2>4, <2>5, CountKeeps
  <1>4. CASE Raises(c)
    BY <1>2, <1>4, RaisesKeeps
  <1> QED BY <1>3, <1>4 DEF CountTransport

LEMMA BackoffKeeps ==
  ASSUME IInv, NEW c \in Commands, Backoff(c)
  PROVE  IInv'
  <1>1. cmd[c].pc = "backoff" /\ cmd[c].pc \in Calling
    BY DEF Backoff, At, Calling
  <1>2. cmd[c].attempt < AttemptCap /\ cmd[c].pc \in Locked
    BY <1>1, CallingFacts DEF CommandSound, MemorySound
  <1>3. CASE Goto(c, "attempt") /\ UNCHANGED <<Rows, Business>>
    BY <1>1, <1>2, <1>3, GotoKeeps DEF Calling, Rows, Business
  <1>4. CASE Fail(c, "transport_timeout")
    BY <1>1, <1>4, FailKeeps DEF Codes
  <1> QED BY <1>3, <1>4 DEF Backoff

LEMMA ValidateKeeps ==
  ASSUME IInv, NEW c \in Commands, Validate(c)
  PROVE  IInv'
  <1>1. cmd[c].pc = "validate" /\ cmd[c].pc \in Calling
    BY DEF Validate, At, Calling
  <1>2. cmd[c].pc \in Locked
    BY <1>1, CallingFacts
  <1>3. CASE Goto(c, "complete") /\ UNCHANGED <<Rows, Business>>
    BY <1>1, <1>2, <1>3, GotoKeeps DEF Calling, Rows, Business
  <1>4. CASE Goto(c, "schema") /\ UNCHANGED <<Rows, Business>>
    BY <1>1, <1>2, <1>4, GotoKeeps DEF Calling, Rows, Business
  <1>5. CASE Fail(c, "other")
    BY <1>1, <1>5, FailKeeps DEF Codes
  <1> QED BY <1>3, <1>4, <1>5 DEF Validate

LEMMA CountSchemaKeeps ==
  ASSUME IInv, NEW c \in Commands, CountSchema(c)
  PROVE  IInv'
  <1>1. cmd[c].pc = "schema" /\ cmd[c].pc \in Calling
    BY DEF CountSchema, At, Calling
  <1>2. /\ TypeOK /\ cmd[c] \in Memory /\ Call(c) \in CallRows /\ cmd[c].pc \in Locked
        /\ Call(c).status = "running"
    BY <1>1, CallingFacts
  <1>3. CASE /\ SetCall(c, [Call(c) EXCEPT !.schema = @ + 1])
             /\ cmd' = [cmd EXCEPT ![c].pc = "attempt", ![c].round = 1, ![c].attempt = 0]
             /\ UNCHANGED <<lock, runs, Business>>
    <2> DEFINE row == [Call(c) EXCEPT !.schema = @ + 1]
               m == [cmd[c] EXCEPT !.pc = "attempt", !.round = 1, !.attempt = 0]
    <2>1. row \in CallRows /\ row.status = "running"
      BY <1>2 DEF CallRows
    <2>2. 0 \in 0 .. AttemptCap /\ 0 < AttemptCap
      BY BoundsAssumption
    <2>3. m \in Memory
      BY <1>2, <2>2 DEF Memory, Points
    <2>4. /\ m.pc = "attempt" /\ m.call = cmd[c].call /\ m.planned = cmd[c].planned
          /\ m.basis = cmd[c].basis /\ m.report = cmd[c].report /\ m.attempt = 0
      BY <1>2 DEF Memory
    <2>5. cmd' = [cmd EXCEPT ![c] = m]
      BY <1>3
    <2>6. Became(c, m)
      BY <1>2, <2>3, <2>5, MoveFacts
    <2>7. SetCall(c, row) /\ UNCHANGED <<lock, runs, generation, published>>
      BY <1>3 DEF Business
    <2>8. m.pc \in Calling /\ m.attempt < AttemptCap
      BY <2>2, <2>4 DEF Calling
    <2> HIDE DEF m, row
    <2> QED BY <1>1, <2>1, <2>4, <2>6, <2>7, <2>8, CountKeeps
  <1>4. CASE Raises(c)
    BY <1>2, <1>4, RaisesKeeps
  <1> QED BY <1>3, <1>4 DEF CountSchema

LEMMA CompleteCallKeeps ==
  ASSUME IInv, NEW c \in Commands, CompleteCall(c)
  PROVE  IInv'
  <1>1. cmd[c].pc = "complete" /\ cmd[c].pc \in Calling
    BY DEF CompleteCall, At, Calling
  <1>2. /\ TypeOK /\ CommandSound(c) /\ cmd[c] \in Memory /\ Call(c) \in CallRows
        /\ cmd[c].pc \in Locked /\ lock = c /\ cmd[c].call \in CallIndexes
        /\ runs[c].status = "running" /\ Call(c).status = "running"
    BY <1>1, CallingFacts
  <1>3. CASE /\ SetCall(c, [Call(c) EXCEPT !.status = "completed"])
             /\ Goto(c, "returned")
             /\ UNCHANGED <<runs, Business>>
    <2>1. UNCHANGED <<lock, runs, generation, published>>
      BY <1>3 DEF Goto, Business
    <2>2. /\ [Call(c) EXCEPT !.status = "completed"] \in CallRows
          /\ [Call(c) EXCEPT !.status = "completed"].status = "completed"
      BY <1>2 DEF CallRows
    <2>3. /\ OwnRows(c) /\ calls'[c][cmd[c].call].status = "completed"
          /\ \A k \in CallIndexes \ {cmd[c].call} : calls'[c][k] = calls[c][k]
      BY <1>2, <1>3, <2>1, <2>2, SetCallFacts DEF OwnRows, TypeOK
    <2>4. Became(c, [cmd[c] EXCEPT !.pc = "returned"])
      BY <1>2, <1>3, GotoFacts DEF Goto, Points
    <2>5. /\ cmd'[c].pc = "returned" /\ cmd'[c].planned = cmd[c].planned
          /\ cmd'[c].basis = cmd[c].basis /\ cmd'[c].report = cmd[c].report
          /\ cmd'[c].call = cmd[c].call
      BY <1>2, <2>4 DEF Became, Memory
    <2>6. /\ \A k \in CallIndexes : k < cmd[c].call => calls'[c][k].status = "completed"
          /\ \A k \in CallIndexes : k > cmd[c].call => calls'[c][k].status = "absent"
      BY <1>1, <1>2, <2>3 DEF CommandSound, ProgressSound, Working, CallIndexes
    <2>7. LockSound(c)' /\ MemorySound(c)' /\ ProgressSound(c)'
      BY <1>1, <1>2, <2>1, <2>3, <2>5, <2>6
      DEF CommandSound, LockSound, MemorySound, ProgressSound, Locked, Points,
          Early, Working, Calling
    <2>8. RowsSound(c)'
      BY <1>2, <2>1, <2>3, <2>6 DEF RowsSound, CallIndexes
    <2>9. BasisSound(c)' /\ ReportSound(c)'
      BY <1>1, <1>2, <2>1, <2>5
      DEF CommandSound, BasisSound, ReportSound, Took, Working, Calling
    <2> QED BY <1>2, <2>1, <2>3, <2>4, <2>7, <2>8, <2>9, StepKeeps
            DEF CommandSound, TypeOK
  <1>4. CASE Goto(c, "business") /\ UNCHANGED <<Rows, Business>>
    BY <1>1, <1>2, <1>4, GotoKeeps DEF Calling, Rows, Business
  <1> QED BY <1>3, <1>4 DEF CompleteCall

LEMMA FailBusinessKeeps ==
  ASSUME IInv, NEW c \in Commands, FailBusiness(c)
  PROVE  IInv'
  <1>1. cmd[c].pc \in Calling
    BY DEF FailBusiness, At, Calling
  <1>2. cmd[c].pc \in Locked /\ runs[c].status = "running" /\ Call(c).status = "running"
    BY <1>1, CallingFacts
  <1>3. CASE /\ SetCall(c, [Call(c) EXCEPT !.status = "completed"])
             /\ SetRun(c, "failed", "other")
             /\ End(c, "failed")
             /\ UNCHANGED Business
    <2>1. OwnRows(c) /\ RowsSound(c)' /\ runs'[c].status = "failed"
      BY <1>2, <1>3, CloseFacts DEF Codes
    <2> QED BY <1>2, <1>3, <2>1, EndKeeps DEF Outs, Business
  <1>4. CASE Raises(c)
    BY <1>2, <1>4, RaisesKeeps
  <1> QED BY <1>3, <1>4 DEF FailBusiness

-----------------------------------------------------------------------------
(* The stage around its calls.                                             *)

LEMMA ResolveKeeps ==
  ASSUME IInv, NEW c \in Commands, Resolve(c)
  PROVE  IInv'
  <1>1. TypeOK /\ CommandSound(c) /\ cmd[c] \in Memory /\ cmd[c].pc = "returned"
    BY DEF IInv, TypeOK, Resolve, At
  <1>2. /\ cmd[c].pc \in Locked /\ lock = c /\ runs[c].status = "running"
        /\ cmd[c].pc \in Working /\ cmd[c].call \in CallIndexes
        /\ cmd[c].call <= cmd[c].planned
    BY <1>1
    DEF Locked, Points, CommandSound, LockSound, ProgressSound, MemorySound,
        Memory, Working
  <1>3. CASE /\ cmd[c].call < cmd[c].planned
             /\ cmd' = [cmd EXCEPT ![c].pc = "create", ![c].call = @ + 1,
                                   ![c].round = 0, ![c].attempt = 0]
             /\ UNCHANGED <<lock, Rows, Business>>
    <2> DEFINE m == [cmd[c] EXCEPT !.pc = "create", !.call = @ + 1, !.round = 0,
                                   !.attempt = 0]
    <2>1. /\ cmd[c].call + 1 \in CallIndexes /\ 0 \in 0 .. AttemptCap /\ 0 < AttemptCap
          /\ cmd[c].call + 1 <= cmd[c].planned /\ cmd[c].call + 1 # 1
      BY <1>1, <1>2, <1>3, BoundsAssumption DEF Memory, CallIndexes
    <2>2. m \in Memory
      BY <1>1, <2>1 DEF Memory, Points
    <2>3. /\ m.pc = "create" /\ m.call = cmd[c].call + 1 /\ m.planned = cmd[c].planned
          /\ m.basis = cmd[c].basis /\ m.report = cmd[c].report /\ m.attempt = 0
      BY <1>1 DEF Memory
    <2>4. cmd' = [cmd EXCEPT ![c] = m]
      BY <1>3
    <2>5. UNCHANGED <<lock, runs, calls, generation, published>>
      BY <1>3 DEF Rows, Business
    <2> HIDE DEF m
    <2>6. Became(c, m)
      BY <1>1, <2>2, <2>4, MoveFacts
    <2>7. cmd'[c] = m
      BY <2>6 DEF Became
    <2>8. MemorySound(c)'
      BY <1>1, <2>1, <2>3, <2>7 DEF CommandSound, MemorySound, Early, Working, Calling
    <2>9. /\ calls[c][cmd[c].call + 1].status = "absent"
          /\ \A k \in CallIndexes :
               /\ k < cmd[c].call + 1 => calls[c][k].status = "completed"
               /\ k > cmd[c].call + 1 => calls[c][k].status = "absent"
      BY <1>1, <1>2, <2>1 DEF CommandSound, ProgressSound, CallIndexes
    <2>10. ProgressSound(c)'
      BY <1>2, <2>1, <2>3, <2>5, <2>7, <2>9 DEF ProgressSound, Early, Working, Calling
    <2>11. BasisSound(c)' /\ ReportSound(c)'
      BY <1>1, <1>2, <2>3, <2>5, <2>7 DEF CommandSound, BasisSound, ReportSound, Took
    <2>12. m.pc \in Locked
      BY <2>3 DEF Locked, Points
    <2> QED BY <1>2, <2>3, <2>5, <2>6, <2>8, <2>10, <2>11, <2>12, MoveKeeps
  <1>4. CASE /\ cmd[c].call = cmd[c].planned
             /\ Goto(c, "commit")
             /\ UNCHANGED <<Rows, Business>>
    <2>1. UNCHANGED <<lock, runs, calls, generation, published>>
      BY <1>4 DEF Goto, Rows, Business
    <2>2. Became(c, [cmd[c] EXCEPT !.pc = "commit"])
      BY <1>1, <1>4, GotoFacts DEF Goto, Points
    <2>3. /\ cmd'[c].pc = "commit" /\ cmd'[c].planned = cmd[c].planned
          /\ cmd'[c].basis = cmd[c].basis /\ cmd'[c].report = cmd[c].report
          /\ cmd'[c].call = cmd[c].call
      BY <1>1, <2>2 DEF Became, Memory
    <2>4. MemorySound(c)'
      BY <1>1, <1>2, <1>4, <2>3 DEF CommandSound, MemorySound, Early, Working, Calling
    <2>5. ProgressSound(c)' /\ BasisSound(c)'
      BY <1>1, <1>2, <2>1, <2>3
      DEF CommandSound, ProgressSound, BasisSound, Took, Early, Working, Calling
    <2>6. cmd'[c].pc \in Locked
      BY <2>3 DEF Locked, Points
    <2>7. ReportSound(c)'
      BY <1>1, <1>2, <2>1, <2>3 DEF CommandSound, ReportSound, Took
    <2> QED BY <1>2, <2>1, <2>2, <2>3, <2>4, <2>5, <2>6, <2>7, MoveKeeps DEF Became
  <1>5. CASE Goto(c, "undo") /\ UNCHANGED <<Rows, Business>>
    BY <1>2, <1>5, GotoKeeps DEF Rows, Business, Calling
  <1> QED BY <1>3, <1>4, <1>5 DEF Resolve

LEMMA ReportStaleKeeps ==
  ASSUME IInv, NEW c \in Commands, ReportStale(c)
  PROVE  IInv'
  <1>1. TypeOK /\ CommandSound(c) /\ cmd[c] \in Memory /\ cmd[c].pc = "commit"
    BY DEF IInv, TypeOK, ReportStale, At
  <1>2. /\ cmd[c].pc \in Locked /\ cmd[c].pc \in Working
        /\ runs[c].status = "running" /\ cmd[c].basis = generation
    BY <1>1
    DEF Locked, Points, Working, CommandSound, ProgressSound, BasisSound
  <1>3. CASE /\ cmd' = [cmd EXCEPT ![c].pc = "swap",
                                   ![c].report = {generation} \cap published]
             /\ UNCHANGED <<lock, Rows, Business>>
    <2> DEFINE m == [cmd[c] EXCEPT !.pc = "swap", !.report = {generation} \cap published]
    <2>1. m \in Memory
      BY <1>1 DEF Memory, Points, TypeOK, Generations
    <2>2. /\ m.pc = "swap" /\ m.call = cmd[c].call /\ m.planned = cmd[c].planned
          /\ m.basis = cmd[c].basis /\ m.report = {generation} \cap published
      BY <1>1 DEF Memory
    <2>3. cmd' = [cmd EXCEPT ![c] = m] /\ UNCHANGED <<lock, runs, calls, generation, published>>
      BY <1>3 DEF Rows, Business
    <2> HIDE DEF m
    <2>4. Became(c, m)
      BY <1>1, <2>1, <2>3, MoveFacts
    <2>5. MemorySound(c)' /\ ProgressSound(c)' /\ BasisSound(c)' /\ ReportSound(c)'
      BY <1>1, <1>2, <2>2, <2>3, <2>4
      DEF Became, CommandSound, MemorySound, ProgressSound, BasisSound, ReportSound,
          Took, Early, Working, Calling
    <2>6. m.pc \in Locked
      BY <2>2 DEF Locked, Points
    <2> QED BY <1>2, <2>2, <2>3, <2>4, <2>5, <2>6, MoveKeeps
  <1>4. CASE Goto(c, "undo") /\ UNCHANGED <<Rows, Business>>
    BY <1>2, <1>4, GotoKeeps DEF Rows, Business, Calling
  <1> QED BY <1>3, <1>4 DEF ReportStale, Rows, Business

LEMMA SwapKeeps ==
  ASSUME IInv, NEW c \in Commands, Swap(c)
  PROVE  IInv'
  <1>1. TypeOK /\ CommandSound(c) /\ cmd[c] \in Memory /\ cmd[c].pc = "swap"
    BY DEF IInv, TypeOK, Swap, At
  <1>2. cmd[c].pc \in Locked /\ lock = c /\ runs[c].status = "running"
    BY <1>1 DEF Locked, Points, CommandSound, LockSound, ProgressSound
  <1>3. CASE /\ generation' = c
             /\ SetRun(c, "completed", "none")
             /\ Goto(c, "cleanup")
             /\ UNCHANGED <<calls, published>>
    <2>1. UNCHANGED <<lock, calls, published>>
      BY <1>3 DEF Goto
    <2>2. OwnRows(c) /\ runs'[c].status = "completed"
      BY <1>1, <1>3, <2>1, SetRunFacts DEF OwnRows, TypeOK, Codes
    <2>3. Became(c, [cmd[c] EXCEPT !.pc = "cleanup"])
      BY <1>1, <1>3, GotoFacts DEF Goto, Points
    <2>4. /\ cmd'[c].pc = "cleanup" /\ cmd'[c].planned = cmd[c].planned
          /\ cmd'[c].basis = cmd[c].basis /\ cmd'[c].report = cmd[c].report
      BY <1>1, <2>3 DEF Became, Memory
    <2>5. \A k \in CallIndexes :
            /\ k <= cmd[c].planned => calls[c][k].status = "completed"
            /\ k > cmd[c].planned => calls[c][k].status = "absent"
      BY <1>1 DEF CommandSound, MemorySound, ProgressSound, Working, Memory, CallIndexes
    <2>6. LockSound(c)' /\ MemorySound(c)' /\ ProgressSound(c)'
      BY <1>1, <1>2, <2>1, <2>4
      DEF CommandSound, LockSound, MemorySound, ProgressSound, Locked, Points,
          Early, Working, Calling
    <2>7. RowsSound(c)'
      BY <1>1, <2>1, <2>2, <2>4, <2>5 DEF RowsSound, CallIndexes, Memory
    <2>8. cmd[c].basis # c /\ (cmd[c].basis # NoRun => runs'[cmd[c].basis].status = "completed")
      BY <1>1, <1>2, <2>2, NoRunAssumption
      DEF CommandSound, BasisSound, OwnRows, Memory, Generations
    <2>9. BasisSound(c)' /\ ReportSound(c)'
      BY <1>1, <1>3, <2>1, <2>4, <2>8
      DEF CommandSound, BasisSound, ReportSound, Working, Calling
    <2> QED BY <1>1, <1>2, <1>3, <2>1, <2>2, <2>3, <2>6, <2>7, <2>9, StepKeeps
            DEF CommandSound, TypeOK
  <1>4. CASE Goto(c, "undo") /\ UNCHANGED <<Rows, Business>>
    BY <1>2, <1>4, GotoKeeps DEF Rows, Business, Calling
  <1> QED BY <1>3, <1>4 DEF Swap

LEMMA CleanupKeeps ==
  ASSUME IInv, NEW c \in Commands, Cleanup(c)
  PROVE  IInv'
  <1>1. TypeOK /\ CommandSound(c) /\ cmd[c].pc \in Locked
    BY DEF IInv, Cleanup, At, Locked, Points
  <1>2. /\ UNCHANGED <<runs, calls, generation>> /\ published' \subseteq published
        /\ End(c, "ok")
    BY DEF Cleanup, Rows
  <1>3. cmd'[c].planned = cmd[c].planned
    <2>1. Became(c, Remains(c, "over", "ok", cmd[c].report))
      BY <1>1, <1>2, EndFacts DEF Outs
    <2> QED BY <2>1 DEF Became, Remains
  <1>4. OwnRows(c) /\ RowsSound(c)'
    BY <1>1, <1>2, <1>3 DEF TypeOK, OwnRows, CommandSound, RowsSound
  <1> QED BY <1>1, <1>2, <1>4, EndKeeps DEF Outs

-----------------------------------------------------------------------------
(* The handlers, and what reaches a command from outside.                  *)

LEMMA LeaveKeeps ==
  ASSUME IInv, NEW c \in Commands, NEW out \in Outs, NEW code \in Codes,
         cmd[c].pc \in Locked, Leave(c, out),
         FinishIfRunning(c, code) \/ UNCHANGED runs,
         UNCHANGED <<calls, generation, published>>
  PROVE  IInv'
  <1>1. TypeOK /\ CommandSound(c) /\ cmd[c] \in Memory /\ lock = c
    BY DEF IInv, TypeOK, CommandSound, LockSound
  <1> DEFINE m == [cmd[c] EXCEPT !.pc = "withdraw", !.out = out]
  <1>2. m \in Memory
    BY <1>1 DEF Memory, Points, Outs
  <1>3. /\ m.pc = "withdraw" /\ m.planned = cmd[c].planned
        /\ m.basis = cmd[c].basis /\ m.report = cmd[c].report
    BY <1>1 DEF Memory
  <1>4. cmd' = [cmd EXCEPT ![c] = m] /\ UNCHANGED lock
    BY DEF Leave
  <1> HIDE DEF m
  <1>5. Became(c, m) /\ cmd'[c] = m
    BY <1>1, <1>2, <1>4, MoveFacts DEF Became
  <1>6. /\ OwnRows(c)
        /\ \/ runs'[c].status = runs[c].status
           \/ runs[c].status = "running" /\ runs'[c].status = "failed"
    <2>1. CASE UNCHANGED runs
      BY <1>1, <2>1 DEF OwnRows, TypeOK
    <2>2. CASE runs[c].status = "running" /\ SetRun(c, "failed", code)
      BY <1>1, <2>2, SetRunFacts DEF OwnRows, TypeOK
    <2> QED BY <2>1, <2>2 DEF FinishIfRunning
  <1>7. RowsSound(c)'
    BY <1>1, <1>3, <1>5, <1>6 DEF CommandSound, RowsSound
  <1>8. LockSound(c)' /\ MemorySound(c)' /\ ProgressSound(c)'
    BY <1>1, <1>3, <1>4, <1>5
    DEF CommandSound, LockSound, MemorySound, ProgressSound, Locked, Points,
        Early, Working, Calling
  <1>9. BasisSound(c)' /\ ReportSound(c)'
    BY <1>1, <1>3, <1>5, <1>6
    DEF CommandSound, BasisSound, ReportSound, Took, Working, Calling, OwnRows,
        Memory, Generations, Locked
  <1> QED BY <1>1, <1>4, <1>5, <1>6, <1>7, <1>8, <1>9, StepKeeps
          DEF CommandSound, TypeOK

LEMMA UndoKeeps ==
  ASSUME IInv, NEW c \in Commands, Undo(c)
  PROVE  IInv'
  BY LeaveKeeps DEF Undo, At, Locked, Points, Outs, Codes, Business

LEMMA CancelRunKeeps ==
  ASSUME IInv, NEW c \in Commands, CancelRun(c)
  PROVE  IInv'
  BY LeaveKeeps DEF CancelRun, At, Locked, Points, Outs, Codes, Business

LEMMA CancelCallKeeps ==
  ASSUME IInv, NEW c \in Commands, CancelCall(c)
  PROVE  IInv'
  <1>1. TypeOK /\ CommandSound(c) /\ cmd[c].pc \in Locked /\ runs[c].status = "running"
    BY DEF IInv, CancelCall, At, Locked, Points, CommandSound, ProgressSound
  <1>2. End(c, "cancelled") /\ UNCHANGED <<generation, published>>
    BY DEF CancelCall, Business
  <1>3. CASE /\ Call(c).status = "running"
             /\ SetCall(c, [Call(c) EXCEPT !.status = "failed"])
             /\ SetRun(c, "failed", "cancelled")
    <2>1. OwnRows(c) /\ RowsSound(c)' /\ runs'[c].status = "failed"
      BY <1>3, CloseFacts DEF Codes
    <2> QED BY <1>1, <1>2, <2>1, EndKeeps DEF Outs
  <1>4. CASE UNCHANGED Rows
    <2>1. cmd'[c].planned = cmd[c].planned
      <3>1. Became(c, Remains(c, "over", "cancelled", cmd[c].report))
        BY <1>1, <1>2, EndFacts DEF Outs
      <3> QED BY <3>1 DEF Became, Remains
    <2>2. OwnRows(c) /\ RowsSound(c)' /\ UNCHANGED runs
      BY <1>1, <1>4, <2>1 DEF Rows, TypeOK, OwnRows, CommandSound, RowsSound
    <2> QED BY <1>1, <1>2, <2>2, EndKeeps DEF Outs
  <1> QED BY <1>3, <1>4 DEF CancelCall

(* The report is withdrawn only of a run whose swap did not commit.        *)
LEMMA WithdrawKeeps ==
  ASSUME IInv, NEW c \in Commands, Withdraw(c)
  PROVE  IInv'
  <1>1. TypeOK /\ CommandSound(c) /\ cmd[c] \in Memory /\ cmd[c].pc = "withdraw"
    BY DEF IInv, TypeOK, Withdraw, At
  <1>2. PICK proven \in BOOLEAN :
          /\ proven => generation \in cmd[c].report
          /\ cmd' = [cmd EXCEPT ![c] = Remains(c, "over", cmd[c].out,
                                          IF proven THEN {} ELSE cmd[c].report)]
    BY DEF Withdraw
  <1> DEFINE report == IF proven THEN {} ELSE cmd[c].report
  <1>3. UNCHANGED <<runs, calls, generation, published>> /\ lock' = NoRun /\ lock = c
    BY <1>1 DEF Withdraw, Rows, Business, CommandSound, LockSound, Locked, Points
  <1>4. report \subseteq cmd[c].report /\ report \in SUBSET Generations
    BY <1>1 DEF Memory
  <1>5. Became(c, Remains(c, "over", cmd[c].out, report))
    BY ZenonT(40), <1>1, <1>2, <1>4, RemainsFacts DEF Memory, Points, Outs
  <1>6. /\ cmd'[c].pc = "over" /\ cmd'[c].planned = cmd[c].planned
        /\ cmd'[c].basis = cmd[c].basis /\ cmd'[c].report = report
    BY <1>5 DEF Became, Remains
  <1>7. Took(c) => cmd[c].basis \notin published \/ cmd[c].basis \in report
    <2> SUFFICES ASSUME Took(c), cmd[c].basis \in published
                 PROVE  cmd[c].basis \in report
      OBVIOUS
    <2>1. cmd[c].basis \in cmd[c].report /\ cmd[c].basis # NoRun
      BY <1>1, NoRunAssumption DEF CommandSound, ReportSound, TypeOK
    <2>2. cmd[c].basis # generation /\ cmd[c].report \subseteq {cmd[c].basis}
      BY <1>1, <2>1 DEF CommandSound, BasisSound, MemorySound
    <2> QED BY <1>2, <2>1, <2>2
  <1> HIDE DEF report
  <1>8. LockSound(c)' /\ MemorySound(c)' /\ ProgressSound(c)'
    BY <1>1, <1>3, <1>4, <1>6, NoRunAssumption
    DEF LockSound, MemorySound, ProgressSound, CommandSound, Locked, Early,
        Working, Calling
  <1>9. RowsSound(c)' /\ BasisSound(c)' /\ ReportSound(c)'
    BY <1>1, <1>3, <1>6, <1>7
    DEF RowsSound, BasisSound, ReportSound, CommandSound, Took, Working, Calling
  <1>10. OwnRows(c) /\ lock' \in Generations /\ \A d \in Commands \ {c} : lock' = d <=> lock = d
    BY <1>1, <1>3, NoRunAssumption DEF OwnRows, TypeOK, Generations
  <1> QED BY <1>3, <1>5, <1>8, <1>9, <1>10, StepKeeps DEF CommandSound

LEMMA KillKeeps ==
  ASSUME IInv, NEW c \in Commands, Kill(c)
  PROVE  IInv'
  <1>1. TypeOK /\ CommandSound(c) /\ cmd[c] \in Memory
    BY DEF IInv, TypeOK
  <1>2. /\ UNCHANGED <<runs, calls, generation, published>>
        /\ lock' = IF lock = c THEN NoRun ELSE lock
    BY DEF Kill, Rows, Business
  <1>3. Became(c, Remains(c, "dead", "none", {}))
    BY <1>1, RemainsFacts DEF Kill, Points, Outs
  <1>4. /\ cmd'[c].pc = "dead" /\ cmd'[c].planned = cmd[c].planned
        /\ cmd'[c].basis = cmd[c].basis /\ cmd'[c].report = {}
    BY <1>3 DEF Became, Remains
  <1>5. LockSound(c)' /\ MemorySound(c)' /\ ProgressSound(c)'
    BY <1>1, <1>2, <1>4, NoRunAssumption
    DEF LockSound, MemorySound, ProgressSound, CommandSound, Locked, Early,
        Working, Calling
  <1>6. RowsSound(c)' /\ BasisSound(c)' /\ ReportSound(c)'
    BY <1>1, <1>2, <1>4
    DEF RowsSound, BasisSound, ReportSound, CommandSound, Took, Working, Calling
  <1>7. OwnRows(c) /\ lock' \in Generations /\ \A d \in Commands \ {c} : lock' = d <=> lock = d
    BY <1>1, <1>2, NoRunAssumption DEF OwnRows, TypeOK, Generations
  <1> QED BY <1>2, <1>3, <1>5, <1>6, <1>7, StepKeeps DEF CommandSound

LEMMA HandlerFacts ==
  ASSUME NEW pc \in Points, NEW handler \in Handlers(pc)
  PROVE  /\ handler \in {"cancel_call", "cancel_run", "withdraw", "over"}
         /\ handler = "cancel_call" => pc \in Calling \cup {"returned"}
         /\ handler # "over" => pc \in Locked
         /\ handler = "over" => pc \in {"cleanup", "wait", "sweep", "plan", "withdraw"}
  BY DEF Handlers, Points, Calling, Locked

LEMMA InterruptKeeps ==
  ASSUME IInv, NEW c \in Commands, Interrupt(c)
  PROVE  IInv'
  <1>1. TypeOK /\ CommandSound(c) /\ cmd[c] \in Memory /\ cmd[c].pc \in Points
    BY DEF IInv, TypeOK, Memory
  <1>2. UNCHANGED <<runs, calls, generation, published>>
    BY DEF Interrupt, Rows, Business
  <1>3. PICK handler \in Handlers(cmd[c].pc) :
          CASE handler = "over" /\ lock = c -> End(c, "interrupted")
            [] handler = "over" /\ lock # c ->
                 /\ cmd' = [cmd EXCEPT ![c].pc = "over", ![c].out = "interrupted"]
                 /\ UNCHANGED lock
            [] handler = "withdraw" -> Leave(c, "interrupted")
            [] OTHER -> Goto(c, handler)
    BY DEF Interrupt
  <1>4. CASE handler = "over" /\ lock = c
    <2>1. End(c, "interrupted") /\ cmd[c].pc \in Locked
      BY <1>1, <1>3, <1>4 DEF CommandSound, LockSound
    <2>2. cmd'[c].planned = cmd[c].planned
      <3>1. Became(c, Remains(c, "over", "interrupted", cmd[c].report))
        BY <1>1, <2>1, EndFacts DEF Outs
      <3> QED BY <3>1 DEF Became, Remains
    <2>3. OwnRows(c) /\ RowsSound(c)'
      BY <1>1, <1>2, <2>2 DEF TypeOK, OwnRows, CommandSound, RowsSound
    <2> QED BY <1>2, <2>1, <2>3, EndKeeps DEF Outs
  <1>5. CASE handler = "over" /\ lock # c
    <2> DEFINE m == [cmd[c] EXCEPT !.pc = "over", !.out = "interrupted"]
    <2>1. cmd' = [cmd EXCEPT ![c] = m] /\ UNCHANGED lock
      BY <1>3, <1>5
    <2>2. m \in Memory /\ m.pc = "over" /\ m.planned = cmd[c].planned
          /\ m.basis = cmd[c].basis /\ m.report = cmd[c].report
      BY <1>1 DEF Memory, Points
    <2> HIDE DEF m
    <2>3. Became(c, m) /\ cmd'[c] = m
      BY <1>1, <2>1, <2>2, MoveFacts DEF Became
    <2>4. cmd[c].pc \notin Locked /\ m.pc \notin Locked
      BY <1>1, <1>5, <2>2 DEF CommandSound, LockSound, Locked
    <2>5. cmd[c].pc # "dead"
      BY <1>5, HandlerFacts, <1>1
    <2>6. MemorySound(c)' /\ ProgressSound(c)' /\ BasisSound(c)' /\ ReportSound(c)'
      BY <1>1, <1>2, <2>2, <2>3, <2>5
      DEF CommandSound, MemorySound, ProgressSound, BasisSound, ReportSound, Took,
          Early, Working, Calling
    <2> QED BY <1>2, <2>1, <2>2, <2>3, <2>4, <2>6, MoveKeeps
  <1>6. CASE handler = "withdraw"
    <2>1. Leave(c, "interrupted") /\ cmd[c].pc \in Locked
      BY <1>1, <1>3, <1>6, HandlerFacts
    <2> QED BY <1>2, <2>1, LeaveKeeps DEF Outs, Codes
  <1>7. CASE handler \in {"cancel_call", "cancel_run"}
    <2>1. Goto(c, handler) /\ cmd[c].pc \in Locked
      BY <1>1, <1>3, <1>7, HandlerFacts
    <2>2. handler = "cancel_call" => runs[c].status = "running"
      BY <1>1, HandlerFacts DEF CommandSound, ProgressSound
    <2>3. handler \notin Calling
      BY <1>7 DEF Calling
    <2> QED BY <1>2, <1>7, <2>1, <2>2, <2>3, GotoKeeps DEF Calling
  <1> QED BY <1>1, <1>4, <1>5, <1>6, <1>7, HandlerFacts

-----------------------------------------------------------------------------
(* Steps that close what dead commands left.                               *)

Swept(status) == IF status = "running" THEN "failed" ELSE status

LEMMA ReconcileFacts ==
  ASSUME TypeOK, ReconcileAbandoned
  PROVE  /\ runs' \in [Commands -> RunRows]
         /\ calls' \in [Commands -> [CallIndexes -> CallRows]]
         /\ \A d \in Commands :
              /\ runs'[d].status = Swept(runs[d].status)
              /\ runs[d].status # "running" => runs'[d] = runs[d]
              /\ \A k \in CallIndexes :
                   /\ calls'[d][k].status = Swept(calls[d][k].status)
                   /\ calls[d][k].status # "running" => calls'[d][k] = calls[d][k]
  <1>1. runs' \in [Commands -> RunRows]
    BY DEF TypeOK, ReconcileAbandoned, RunRows, Codes
  <1>2. \A d \in Commands : /\ runs'[d].status = Swept(runs[d].status)
                            /\ runs[d].status # "running" => runs'[d] = runs[d]
    BY DEF TypeOK, ReconcileAbandoned, RunRows, Swept
  <1>3. ASSUME NEW d \in Commands, NEW k \in CallIndexes
        PROVE  /\ calls'[d][k] \in CallRows
               /\ calls'[d][k].status = Swept(calls[d][k].status)
               /\ calls[d][k].status # "running" => calls'[d][k] = calls[d][k]
    <2>1. calls'[d][k] = IF calls[d][k].status = "running"
                           THEN [calls[d][k] EXCEPT !.status = "failed"] ELSE calls[d][k]
      BY DEF ReconcileAbandoned
    <2>2. calls[d][k] \in CallRows
      BY DEF TypeOK
    <2> QED BY <2>1, <2>2 DEF CallRows, Swept
  <1>4. calls' \in [Commands -> [CallIndexes -> CallRows]]
    BY <1>3 DEF ReconcileAbandoned
  <1> QED BY <1>1, <1>2, <1>3, <1>4

(* Whoever is outside the lock stays sound when a writer sweeps and then   *)
(* publishes or retires the current rows.                                  *)
LEMMA OutsideSound ==
  ASSUME IInv, ReconcileAbandoned, NEW d \in Commands, cmd'[d] = cmd[d],
         cmd[d].pc \notin Locked, lock' # d,
         generation' \in {generation, NoRun},
         published' \subseteq Commands, published' \subseteq published \cup {generation}
  PROVE  CommandSound(d)'
  <1>1. TypeOK /\ CommandSound(d) /\ cmd[d] \in Memory
    BY DEF IInv, TypeOK
  <1>2. \A e \in Commands :
          /\ runs'[e].status = Swept(runs[e].status)
          /\ \A k \in CallIndexes :
               /\ calls'[e][k].status = Swept(calls[e][k].status)
               /\ calls[e][k].status # "running" => calls'[e][k] = calls[e][k]
    BY <1>1, ReconcileFacts
  <1>3. cmd[d].pc \notin Working /\ cmd[d].pc \in {"idle", "wait", "over", "dead"}
    BY <1>1 DEF Locked, Working, Calling, Points, Memory
  <1>4. LockSound(d)' /\ MemorySound(d)' /\ ProgressSound(d)'
    BY <1>1, <1>2, <1>3
    DEF CommandSound, LockSound, MemorySound, ProgressSound, Swept, Calling
  <1>5. RowsSound(d)'
    BY <1>1, <1>2 DEF CommandSound, RowsSound, Swept, NoCall
  <1>6. BasisSound(d)'
    BY <1>1, <1>2, <1>3 DEF CommandSound, BasisSound, Took, Swept, Memory, Generations
  <1>7. ReportSound(d)'
    BY <1>1, <1>2, <1>3, NoRunAssumption
    DEF CommandSound, ReportSound, BasisSound, Took, Swept
  <1> QED BY <1>4, <1>5, <1>6, <1>7 DEF CommandSound

LEMMA SweepKeeps ==
  ASSUME IInv, NEW c \in Commands, Sweep(c)
  PROVE  IInv'
  <1>1. TypeOK /\ CommandSound(c) /\ cmd[c] \in Memory /\ cmd[c].pc = "sweep"
    BY DEF IInv, TypeOK, Sweep, At
  <1>2. cmd[c].pc \in Locked /\ lock = c
    BY <1>1 DEF Locked, Points, CommandSound, LockSound
  <1>3. CASE Raises(c)
    BY <1>2, <1>3, RaisesKeeps
  <1>4. CASE ReconcileAbandoned /\ Goto(c, "plan") /\ UNCHANGED Business
    <2>1. UNCHANGED <<lock, generation, published>>
      BY <1>4 DEF Goto, Business
    <2>2. Became(c, [cmd[c] EXCEPT !.pc = "plan"])
      BY <1>1, <1>4, GotoFacts DEF Goto, Points
    <2>3. /\ cmd'[c].pc = "plan" /\ cmd'[c].planned = cmd[c].planned
          /\ cmd'[c].basis = cmd[c].basis /\ cmd'[c].report = cmd[c].report
          /\ cmd'[c].call = cmd[c].call /\ cmd'[c].attempt = cmd[c].attempt
      BY <1>1, <2>2 DEF Became, Memory
    <2>4. /\ runs' \in [Commands -> RunRows]
          /\ calls' \in [Commands -> [CallIndexes -> CallRows]]
          /\ \A d \in Commands : runs'[d].status = Swept(runs[d].status)
          /\ \A k \in CallIndexes :
               calls[c][k].status # "running" => calls'[c][k] = calls[c][k]
      BY <1>1, <1>4, ReconcileFacts
    <2>5. TypeOK'
      BY <1>1, <2>1, <2>2, <2>4 DEF TypeOK, Became
    <2>6. \A d \in Commands \ {c} : CommandSound(d)'
      <3> TAKE d \in Commands \ {c}
      <3>1. cmd[d].pc \notin Locked /\ cmd'[d] = cmd[d] /\ lock' # d
        BY <1>2, <2>1, <2>2 DEF IInv, CommandSound, LockSound, Became
      <3>2. published' \subseteq Commands
        BY <1>1, <2>1 DEF TypeOK
      <3> QED BY <1>4, <2>1, <3>1, <3>2, OutsideSound
    <2>7. runs[c].status = "absent" /\ \A k \in CallIndexes : calls[c][k] = NoCall
      BY <1>1 DEF CommandSound, ProgressSound, RowsSound, Early
    <2>8. runs'[c].status = "absent" /\ \A k \in CallIndexes : calls'[c][k] = NoCall
      BY <2>4, <2>7 DEF Swept, NoCall
    <2>9. LockSound(c)' /\ MemorySound(c)' /\ ProgressSound(c)'
      BY <1>1, <1>2, <2>1, <2>3, <2>8
      DEF CommandSound, LockSound, MemorySound, ProgressSound, Locked, Points,
          Early, Working, Calling
    <2>10. RowsSound(c)'
      BY <2>8 DEF RowsSound, NoCall
    <2>11. BasisSound(c)' /\ ReportSound(c)'
      BY <1>1, <2>3, <2>8
      DEF CommandSound, MemorySound, BasisSound, ReportSound, Took, Early,
          Working, Calling
    <2>12. generation' # NoRun => runs'[generation'].status = "completed"
      BY <1>1, <2>1, <2>4 DEF IInv, TypeOK, Generations, Swept
    <2> QED BY <2>5, <2>6, <2>9, <2>10, <2>11, <2>12 DEF IInv, CommandSound
  <1> QED BY <1>3, <1>4 DEF Sweep

LEMMA OtherWriterKeeps ==
  ASSUME IInv, OtherWriter
  PROVE  IInv'
  <1>1. TypeOK /\ lock = NoRun /\ ReconcileAbandoned /\ UNCHANGED <<lock, cmd>>
    BY DEF IInv, OtherWriter
  <1>2. /\ generation' \in {generation, NoRun}
        /\ published' \subseteq Commands /\ published' \subseteq published \cup {generation}
    BY DEF IInv, TypeOK, OtherWriter, Business, Generations
  <1>3. /\ runs' \in [Commands -> RunRows]
        /\ calls' \in [Commands -> [CallIndexes -> CallRows]]
        /\ \A d \in Commands : runs'[d].status = Swept(runs[d].status)
    BY <1>1, ReconcileFacts
  <1>4. TypeOK'
    BY <1>1, <1>2, <1>3 DEF TypeOK, Generations
  <1>5. \A d \in Commands : CommandSound(d)'
    <2> TAKE d \in Commands
    <2>1. cmd[d].pc \notin Locked /\ cmd'[d] = cmd[d] /\ lock' # d
      BY <1>1, NoRunAssumption DEF IInv, CommandSound, LockSound
    <2> QED BY <1>1, <1>2, <2>1, OutsideSound
  <1>6. generation' # NoRun => runs'[generation'].status = "completed"
    BY <1>1, <1>2, <1>3 DEF IInv, TypeOK, Generations, Swept
  <1> QED BY <1>4, <1>5, <1>6 DEF IInv

-----------------------------------------------------------------------------
(* The invariant, and what follows from it.                                *)

LEMMA InitSound == Init => IInv
  <1> SUFFICES ASSUME Init PROVE IInv
    OBVIOUS
  <1>1. /\ Fresh.pc = "idle" /\ Fresh.planned = 0 /\ Fresh.call = 1
        /\ Fresh.attempt = 0 /\ Fresh.basis = NoRun /\ Fresh.report = {}
        /\ Fresh \in Memory
    <2>1. 1 \in CallIndexes /\ 0 \in 0 .. AttemptCap /\ 0 \in 0 .. MaxCalls
      BY BoundsAssumption DEF CallIndexes
    <2> QED BY <2>1 DEF Fresh, Memory, Points, Generations
  <1>2. NoRow \in RunRows /\ NoRow.status = "absent"
    BY DEF NoRow, RunRows, Codes
  <1>3. NoCall \in CallRows /\ NoCall.status = "absent"
    BY DEF NoCall, CallRows
  <1>4. TypeOK
    BY <1>1, <1>2, <1>3 DEF Init, TypeOK, Generations
  <1>5. ASSUME NEW c \in Commands PROVE CommandSound(c)
    <2>1. /\ cmd[c] = Fresh /\ lock = NoRun /\ runs[c] = NoRow
          /\ \A k \in CallIndexes : calls[c][k] = NoCall
      BY DEF Init
    <2>2. LockSound(c) /\ MemorySound(c) /\ ProgressSound(c)
      BY <1>1, <1>2, <2>1, NoRunAssumption, BoundsAssumption
      DEF LockSound, MemorySound, ProgressSound, Locked, Early, Working, Calling
    <2>3. RowsSound(c) /\ BasisSound(c) /\ ReportSound(c)
      BY <1>1, <1>2, <1>3, <2>1
      DEF RowsSound, BasisSound, ReportSound, Took, Working, Calling
    <2> QED BY <2>2, <2>3 DEF CommandSound
  <1> QED BY <1>4, <1>5 DEF Init, IInv

LEMMA Inductive == IInv /\ [Next]_vars => IInv'
  <1> SUFFICES ASSUME IInv, [Next]_vars PROVE IInv'
    OBVIOUS
  <1>1. ASSUME NEW c \in Commands, Start(c) \/ Interrupt(c) \/ Kill(c) PROVE IInv'
    BY <1>1, StartKeeps, InterruptKeeps, KillKeeps
  <1>2. ASSUME NEW c \in Commands, Step(c) PROVE IInv'
    BY <1>2, AcquireKeeps, BusyKeeps, SweepKeeps, PlanKeeps, CompleteEmptyKeeps,
       CreateRowsKeeps, EnterRoundsKeeps, AttemptKeeps, AnsweredKeeps,
       CountTransportKeeps, BackoffKeeps, ValidateKeeps, CountSchemaKeeps,
       CompleteCallKeeps, FailBusinessKeeps, ResolveKeeps, ReportStaleKeeps,
       SwapKeeps, CleanupKeeps, UndoKeeps, CancelCallKeeps, CancelRunKeeps,
       WithdrawKeeps
    DEF Step
  <1>3. CASE OtherWriter
    BY <1>3, OtherWriterKeeps
  <1>4. CASE UNCHANGED vars
    BY <1>4
    DEF vars, IInv, TypeOK, CommandSound, LockSound, RowsSound, MemorySound,
        ProgressSound, BasisSound, ReportSound, Took
  <1> QED BY <1>1, <1>2, <1>3, <1>4 DEF Next

LEMMA Invariant == Spec => []IInv
  BY InitSound, Inductive, PTL DEF Spec

(* Every state has the types TypeOK gives it; in particular no budget of   *)
(* attempts or calls is ever exceeded.                                     *)
THEOREM TypeCorrect == Spec => []TypeOK
  BY Invariant, PTL DEF IInv

(* The telemetry rows agree with themselves and with each other, whatever  *)
(* is interrupted, killed or rolled back.                                  *)
THEOREM RowsAgreeHolds == Spec => []RowsAgree
  <1>1. ASSUME IInv, NEW c \in Commands
        PROVE  /\ runs[c].status = "absent" => \A k \in CallIndexes : calls[c][k] = NoCall
               /\ runs[c].status = "completed" =>
                    \A k \in 1 .. cmd[c].planned : calls[c][k].status = "completed"
               /\ \A k \in CallIndexes :
                    calls[c][k].status = "failed" => runs[c].status = "failed"
               /\ \A k \in CallIndexes : \A j \in 1 .. k - 1 :
                    calls[c][k].status # "absent" => calls[c][j].status = "completed"
    <2>1. RowsSound(c) /\ cmd[c].planned \in 0 .. MaxCalls
      BY <1>1 DEF IInv, CommandSound, TypeOK, Memory
    <2>2. \A k \in 1 .. cmd[c].planned : k \in CallIndexes /\ k <= cmd[c].planned
      BY <2>1, BoundsAssumption DEF CallIndexes
    <2>3. \A k \in CallIndexes : \A j \in 1 .. k - 1 : j \in CallIndexes /\ j < k
      BY BoundsAssumption DEF CallIndexes
    <2> QED BY <2>1, <2>2, <2>3 DEF RowsSound
  <1>2. IInv => RowsAgree
    BY <1>1 DEF RowsAgree
  <1> QED BY <1>2, Invariant, PTL

(* A command that ends by itself after its swap has removed or reported    *)
(* the managed set the swap made stale.                                    *)
THEOREM StaleReportedHolds == Spec => []StaleReported
  <1>1. ASSUME IInv, NEW c \in Commands, At(c, "over"), Fate(c) = "took",
               cmd[c].basis \in published
        PROVE  cmd[c].basis \in cmd[c].report
    BY <1>1 DEF IInv, CommandSound, ReportSound, Took, Fate, At
  <1>2. IInv => StaleReported
    BY <1>1 DEF StaleReported
  <1> QED BY <1>2, Invariant, PTL

-----------------------------------------------------------------------------
(* Every step but Sweep, Plan, CompleteEmpty, Swap and OtherWriter is of   *)
(* this shape: it leaves the other commands and the business rows alone,   *)
(* completes no run, and touches rows only inside the lock.                *)

Local(c) ==
  /\ \A d \in Commands \ {c} : cmd'[d] = cmd[d] /\ runs'[d] = runs[d] /\ calls'[d] = calls[d]
  /\ cmd'[c].planned = cmd[c].planned /\ cmd'[c].basis = cmd[c].basis
  /\ \/ runs'[c].status = runs[c].status
     \/ runs[c].status \in {"absent", "running"} /\ runs'[c].status \in {"running", "failed"}
  /\ cmd[c].pc \in Locked \/ UNCHANGED <<runs, calls>>
  /\ generation' = generation

(* What a local step may do with the rows of its command.                  *)
OwnWork(c) ==
  /\ \/ UNCHANGED runs
     \/ /\ runs[c].status \in {"absent", "running"}
        /\ \E code \in Codes : SetRun(c, "running", code) \/ SetRun(c, "failed", code)
  /\ UNCHANGED calls \/ \E row \in CallRows : SetCall(c, row)
  /\ cmd[c].pc \in Locked \/ UNCHANGED <<runs, calls>>
  /\ generation' = generation

LEMMA LocalFacts ==
  ASSUME IInv, NEW c \in Commands, OwnWork(c), NEW m, Became(c, m),
         m.planned = cmd[c].planned, m.basis = cmd[c].basis
  PROVE  Local(c)
  <1>1. TypeOK
    BY DEF IInv
  <1>2. \A d \in Commands \ {c} : runs'[d] = runs[d] /\ calls'[d] = calls[d]
    BY <1>1 DEF OwnWork, SetRun, SetCall, TypeOK
  <1>3. \/ runs'[c].status = runs[c].status
        \/ runs[c].status \in {"absent", "running"} /\ runs'[c].status \in {"running", "failed"}
    BY <1>1, SetRunFacts DEF OwnWork
  <1> QED BY <1>2, <1>3 DEF Local, Became, OwnWork

LEMMA GotoLocal ==
  ASSUME IInv, NEW c \in Commands, NEW pc \in Points, Goto(c, pc), OwnWork(c)
  PROVE  Local(c)
  <1>1. TypeOK /\ cmd[c] \in Memory
    BY DEF IInv, TypeOK
  <1>2. Became(c, [cmd[c] EXCEPT !.pc = pc])
    BY <1>1, GotoFacts DEF Goto
  <1>3. /\ [cmd[c] EXCEPT !.pc = pc].planned = cmd[c].planned
        /\ [cmd[c] EXCEPT !.pc = pc].basis = cmd[c].basis
    BY <1>1 DEF Memory
  <1> QED BY <1>2, <1>3, LocalFacts

LEMMA EndLocal ==
  ASSUME IInv, NEW c \in Commands, NEW out \in Outs, End(c, out), OwnWork(c)
  PROVE  Local(c)
  <1>1. Became(c, Remains(c, "over", out, cmd[c].report))
    BY EndFacts DEF IInv
  <1> QED BY <1>1, LocalFacts DEF Remains

LEMMA LeaveLocal ==
  ASSUME IInv, NEW c \in Commands, NEW out \in Outs, Leave(c, out), OwnWork(c)
  PROVE  Local(c)
  <1> DEFINE m == [cmd[c] EXCEPT !.pc = "withdraw", !.out = out]
  <1>1. TypeOK /\ cmd[c] \in Memory
    BY DEF IInv, TypeOK
  <1>2. m \in Memory /\ m.planned = cmd[c].planned /\ m.basis = cmd[c].basis
    BY <1>1 DEF Memory, Points, Outs
  <1>3. cmd' = [cmd EXCEPT ![c] = m]
    BY DEF Leave
  <1> HIDE DEF m
  <1> QED BY <1>1, <1>2, <1>3, MoveFacts, LocalFacts

LEMMA RaisesLocal ==
  ASSUME IInv, NEW c \in Commands, Raises(c)
  PROVE  Local(c)
  <1>1. End(c, "failed") /\ OwnWork(c)
    BY DEF Raises, OwnWork, Rows, Business
  <1> QED BY <1>1, EndLocal DEF Outs

LEMMA FailLocal ==
  ASSUME IInv, NEW c \in Commands, NEW code \in Codes, cmd[c].pc \in Calling,
         Fail(c, code)
  PROVE  Local(c)
  <1>1. /\ cmd[c].pc \in Locked /\ runs[c].status = "running" /\ Call(c) \in CallRows
    BY CallingFacts
  <1>2. CASE Raises(c)
    BY <1>2, RaisesLocal
  <1>3. CASE /\ SetCall(c, [Call(c) EXCEPT !.status = "failed"])
             /\ SetRun(c, "failed", code)
             /\ End(c, IF code = "cancelled" THEN "cancelled" ELSE "failed")
             /\ UNCHANGED Business
    <2>1. [Call(c) EXCEPT !.status = "failed"] \in CallRows
      BY <1>1 DEF CallRows
    <2>2. OwnWork(c)
      BY <1>1, <1>3, <2>1 DEF OwnWork, Business
    <2> QED BY <1>3, <2>2, EndLocal DEF Outs
  <1> QED BY <1>2, <1>3 DEF Fail

LEMMA BeforeLocal ==
  ASSUME IInv, NEW c \in Commands, Start(c) \/ Acquire(c) \/ Busy(c)
  PROVE  Local(c)
  <1>1. OwnWork(c)
    BY DEF Start, Acquire, Busy, OwnWork, Rows, Business
  <1>2. CASE Start(c)
    BY <1>1, <1>2, GotoLocal DEF Start, Points
  <1>3. CASE Acquire(c)
    <2>1. TypeOK /\ cmd[c] \in Memory
      BY DEF IInv, TypeOK
    <2>2. Became(c, [cmd[c] EXCEPT !.pc = "sweep"])
      BY <1>3, <2>1, GotoFacts DEF Acquire, Points
    <2>3. /\ [cmd[c] EXCEPT !.pc = "sweep"].planned = cmd[c].planned
          /\ [cmd[c] EXCEPT !.pc = "sweep"].basis = cmd[c].basis
      BY <2>1 DEF Memory
    <2> QED BY <1>1, <2>2, <2>3, LocalFacts
  <1>4. CASE Busy(c)
    <2>1. Became(c, Remains(c, "over", "busy", {}))
      BY <1>4, RemainsFacts DEF IInv, Busy, Points, Outs
    <2> QED BY <1>1, <2>1, LocalFacts DEF Remains
  <1> QED BY <1>2, <1>3, <1>4

LEMMA CreateRowsLocal ==
  ASSUME IInv, NEW c \in Commands, CreateRows(c)
  PROVE  Local(c)
  <1>1. /\ cmd[c].pc = "create" /\ cmd[c].pc \in Locked
        /\ runs[c].status \in {"absent", "running"}
    BY DEF IInv, CommandSound, ProgressSound, CreateRows, At, Locked, Points
  <1>2. CASE Raises(c)
    BY <1>2, RaisesLocal
  <1>3. CASE /\ SetRun(c, "running", "none")
             /\ SetCall(c, [NoCall EXCEPT !.status = "running"])
             /\ Goto(c, "enter")
             /\ UNCHANGED Business
    <2>1. [NoCall EXCEPT !.status = "running"] \in CallRows
      BY DEF NoCall, CallRows
    <2>2. OwnWork(c)
      BY <1>1, <1>3, <2>1 DEF OwnWork, Business, Codes
    <2> QED BY <1>3, <2>2, GotoLocal DEF Points
  <1> QED BY <1>2, <1>3 DEF CreateRows

(* The steps of the adapter between the two transactions that bound it.    *)
LEMMA CallingLocal ==
  ASSUME IInv, NEW c \in Commands,
         \/ EnterRounds(c) \/ Attempt(c) \/ Answered(c) \/ CountTransport(c)
         \/ Backoff(c) \/ Validate(c) \/ CountSchema(c)
         \/ CompleteCall(c) \/ FailBusiness(c)
  PROVE  Local(c)
  <1>1. cmd[c].pc \in Calling
    BY DEF EnterRounds, Attempt, Answered, CountTransport, Backoff, Validate,
           CountSchema, CompleteCall, FailBusiness, At, Calling
  <1>2. /\ TypeOK /\ cmd[c] \in Memory /\ cmd[c].pc \in Locked
        /\ runs[c].status = "running" /\ Call(c) \in CallRows
    BY <1>1, CallingFacts
  <1>3. ASSUME NEW code \in Codes, Fail(c, code) PROVE Local(c)
    BY <1>1, <1>3, FailLocal
  <1>4. ASSUME NEW pc \in Calling, Goto(c, pc), UNCHANGED <<Rows, Business>>
        PROVE  Local(c)
    <2>1. OwnWork(c) /\ pc \in Points
      BY <1>4 DEF OwnWork, Rows, Business, Calling, Points
    <2> QED BY <1>4, <2>1, GotoLocal
  <1>5. ASSUME NEW row \in CallRows, SetCall(c, row), UNCHANGED <<runs, Business>>
        PROVE  OwnWork(c)
    BY <1>2, <1>5 DEF OwnWork, Business
  <1>6. /\ [Call(c) EXCEPT !.sent = @ + 1] \in CallRows
        /\ [Call(c) EXCEPT !.transport = @ + 1] \in CallRows
        /\ [Call(c) EXCEPT !.schema = @ + 1] \in CallRows
        /\ [Call(c) EXCEPT !.status = "completed"] \in CallRows
    BY <1>2 DEF CallRows
  <1>7. CASE Raises(c)
    BY <1>7, RaisesLocal
  <1>8. CASE EnterRounds(c)
    BY <1>3, <1>4, <1>8 DEF EnterRounds, Calling, Codes
  <1>9. CASE Attempt(c)
    <2>1. CASE /\ SetCall(c, [Call(c) EXCEPT !.sent = @ + 1])
               /\ cmd' = [cmd EXCEPT ![c].pc = "sent", ![c].attempt = @ + 1]
               /\ UNCHANGED <<lock, runs, Business>>
      <3>1. OwnWork(c)
        BY <1>5, <1>6, <2>1
      <3>2. /\ cmd'[c].planned = cmd[c].planned /\ cmd'[c].basis = cmd[c].basis
            /\ \A d \in Commands \ {c} : cmd'[d] = cmd[d]
        BY <1>2, <2>1 DEF TypeOK, Memory
      <3>3. cmd' \in [Commands -> Memory]
        BY AttemptKeeps, <1>9 DEF IInv, TypeOK
      <3> QED BY <3>1, <3>2, <3>3, LocalFacts DEF Became
    <2> QED BY <1>3, <1>9, <2>1 DEF Attempt, Codes
  <1>10. CASE Answered(c)
    BY <1>3, <1>4, <1>10 DEF Answered, Calling, Codes
  <1>11. CASE CountTransport(c)
    <2>1. CASE /\ SetCall(c, [Call(c) EXCEPT !.transport = @ + 1])
               /\ Goto(c, "backoff")
               /\ UNCHANGED <<runs, Business>>
      BY <1>5, <1>6, <2>1, GotoLocal DEF Points
    <2> QED BY <1>7, <1>11, <2>1 DEF CountTransport
  <1>12. CASE Backoff(c)
    BY <1>3, <1>4, <1>12 DEF Backoff, Calling, Codes
  <1>13. CASE Validate(c)
    BY <1>3, <1>4, <1>13 DEF Validate, Calling, Codes
  <1>14. CASE CountSchema(c)
    <2>1. CASE /\ SetCall(c, [Call(c) EXCEPT !.schema = @ + 1])
               /\ cmd' = [cmd EXCEPT ![c].pc = "attempt", ![c].round = 1, ![c].attempt = 0]
               /\ UNCHANGED <<lock, runs, Business>>
      <3>1. OwnWork(c)
        BY <1>5, <1>6, <2>1
      <3>2. /\ cmd'[c].planned = cmd[c].planned /\ cmd'[c].basis = cmd[c].basis
            /\ \A d \in Commands \ {c} : cmd'[d] = cmd[d]
        BY <1>2, <2>1 DEF TypeOK, Memory
      <3>3. cmd' \in [Commands -> Memory]
        BY CountSchemaKeeps, <1>14 DEF IInv, TypeOK
      <3> QED BY <3>1, <3>2, <3>3, LocalFacts DEF Became
    <2> QED BY <1>7, <1>14, <2>1 DEF CountSchema
  <1>15. CASE CompleteCall(c)
    <2>1. CASE /\ SetCall(c, [Call(c) EXCEPT !.status = "completed"])
               /\ Goto(c, "returned")
               /\ UNCHANGED <<runs, Business>>
      BY <1>5, <1>6, <2>1, GotoLocal DEF Points
    <2> QED BY <1>4, <1>15, <2>1 DEF CompleteCall, Calling
  <1>16. CASE FailBusiness(c)
    <2>1. CASE /\ SetCall(c, [Call(c) EXCEPT !.status = "completed"])
               /\ SetRun(c, "failed", "other")
               /\ End(c, "failed")
               /\ UNCHANGED Business
      <3>1. OwnWork(c)
        BY <1>2, <1>6, <2>1 DEF OwnWork, Business, Codes
      <3> QED BY <2>1, <3>1, EndLocal DEF Outs
    <2> QED BY <1>7, <1>16, <2>1 DEF FailBusiness
  <1> QED BY <1>8, <1>9, <1>10, <1>11, <1>12, <1>13, <1>14, <1>15, <1>16

(* The steps of the stage after a call, but for the swap.                  *)
LEMMA StageLocal ==
  ASSUME IInv, NEW c \in Commands,
         \/ Resolve(c) \/ ReportStale(c) \/ Cleanup(c) \/ Undo(c)
         \/ CancelCall(c) \/ CancelRun(c) \/ Withdraw(c)
  PROVE  Local(c)
  <1>1. TypeOK /\ cmd[c] \in Memory /\ cmd[c].pc \in Locked
    BY DEF IInv, TypeOK, Resolve, ReportStale, Cleanup, Undo, CancelCall,
           CancelRun, Withdraw, At, Locked, Points
  <1>2. CASE UNCHANGED <<runs, calls, generation>>
    <2>1. OwnWork(c)
      BY <1>2 DEF OwnWork
    <2>2. CASE Resolve(c)
      <3>1. /\ cmd'[c].planned = cmd[c].planned /\ cmd'[c].basis = cmd[c].basis
            /\ \A d \in Commands \ {c} : cmd'[d] = cmd[d]
        BY <1>1, <2>2 DEF Resolve, Goto, TypeOK, Memory
      <3>2. cmd' \in [Commands -> Memory]
        BY ResolveKeeps, <2>2 DEF IInv, TypeOK
      <3> QED BY <2>1, <3>1, <3>2, LocalFacts DEF Became
    <2>3. CASE ReportStale(c)
      <3>1. /\ cmd'[c].planned = cmd[c].planned /\ cmd'[c].basis = cmd[c].basis
            /\ \A d \in Commands \ {c} : cmd'[d] = cmd[d]
        BY <1>1, <2>3 DEF ReportStale, Goto, TypeOK, Memory
      <3>2. cmd' \in [Commands -> Memory]
        BY ReportStaleKeeps, <2>3 DEF IInv, TypeOK
      <3> QED BY <2>1, <3>1, <3>2, LocalFacts DEF Became
    <2>4. CASE Cleanup(c)
      BY <2>1, <2>4, EndLocal DEF Cleanup, Outs
    <2>5. CASE Undo(c) \/ CancelRun(c)
      BY <2>1, <2>5, LeaveLocal DEF Undo, CancelRun, Outs
    <2>6. CASE CancelCall(c)
      BY <2>1, <2>6, EndLocal DEF CancelCall, Outs
    <2>7. CASE Withdraw(c)
      <3>1. /\ cmd'[c].planned = cmd[c].planned /\ cmd'[c].basis = cmd[c].basis
            /\ \A d \in Commands \ {c} : cmd'[d] = cmd[d]
        BY <1>1, <2>7 DEF Withdraw, Remains, TypeOK
      <3>2. cmd' \in [Commands -> Memory]
        BY WithdrawKeeps, <2>7 DEF IInv, TypeOK
      <3> QED BY <2>1, <3>1, <3>2, LocalFacts DEF Became
    <2> QED BY <2>2, <2>3, <2>4, <2>5, <2>6, <2>7
  <1>3. CASE Undo(c) \/ CancelRun(c)
    <2>1. UNCHANGED runs \/ (runs[c].status = "running" /\
            \E code \in Codes : SetRun(c, "failed", code))
      BY <1>3 DEF Undo, CancelRun, FinishIfRunning, Codes
    <2>2. OwnWork(c)
      BY <1>1, <1>3, <2>1 DEF OwnWork, Undo, CancelRun, Business
    <2> QED BY <1>3, <2>2, LeaveLocal DEF Undo, CancelRun, Outs
  <1>4. CASE /\ CancelCall(c)
             /\ SetCall(c, [Call(c) EXCEPT !.status = "failed"])
             /\ SetRun(c, "failed", "cancelled")
    <2>1. runs[c].status = "running"
      BY <1>4 DEF IInv, CommandSound, ProgressSound, CancelCall, At
    <2>2. Call(c) \in CallRows
      BY <1>1 DEF Call, TypeOK, Memory
    <2>3. [Call(c) EXCEPT !.status = "failed"] \in CallRows
      BY <2>2 DEF CallRows
    <2>4. OwnWork(c)
      BY <1>1, <1>4, <2>1, <2>3 DEF OwnWork, CancelCall, Business, Codes
    <2> QED BY <1>4, <2>4, EndLocal DEF CancelCall, Outs
  <1> QED BY <1>2, <1>3, <1>4
          DEF Resolve, ReportStale, Cleanup, CancelCall, Withdraw, Rows, Business

LEMMA OutsideLocal ==
  ASSUME IInv, NEW c \in Commands, Interrupt(c) \/ Kill(c)
  PROVE  Local(c)
  <1>1. TypeOK /\ cmd[c] \in Memory
    BY DEF IInv, TypeOK
  <1>2. OwnWork(c)
    BY DEF OwnWork, Interrupt, Kill, Rows, Business
  <1>3. cmd' \in [Commands -> Memory]
    BY InterruptKeeps, KillKeeps DEF IInv, TypeOK
  <1>4. CASE Kill(c)
    <2>1. Became(c, Remains(c, "dead", "none", {}))
      BY <1>1, <1>4, RemainsFacts DEF Kill, Points, Outs
    <2> QED BY <1>2, <2>1, LocalFacts DEF Remains
  <1>5. CASE Interrupt(c)
    <2>1. PICK handler \in Handlers(cmd[c].pc) :
            CASE handler = "over" /\ lock = c -> End(c, "interrupted")
              [] handler = "over" /\ lock # c ->
                   /\ cmd' = [cmd EXCEPT ![c].pc = "over", ![c].out = "interrupted"]
                   /\ UNCHANGED lock
              [] handler = "withdraw" -> Leave(c, "interrupted")
              [] OTHER -> Goto(c, handler)
      BY <1>5 DEF Interrupt
    <2>2. CASE End(c, "interrupted")
      BY <1>2, <2>2, EndLocal DEF Outs
    <2>3. CASE Leave(c, "interrupted")
      BY <1>2, <2>3, LeaveLocal DEF Outs
    <2>4. CASE cmd' = [cmd EXCEPT ![c].pc = "over", ![c].out = "interrupted"]
      <3>1. /\ cmd'[c].planned = cmd[c].planned /\ cmd'[c].basis = cmd[c].basis
            /\ \A d \in Commands \ {c} : cmd'[d] = cmd[d]
        BY <1>1, <2>4 DEF TypeOK, Memory
      <3> QED BY <1>2, <1>3, <3>1, LocalFacts DEF Became
    <2>5. CASE handler \in {"cancel_call", "cancel_run"} /\ Goto(c, handler)
      BY <1>2, <2>5, GotoLocal DEF Points
    <2>6. handler \in {"cancel_call", "cancel_run", "withdraw", "over"}
      BY <1>1, HandlerFacts DEF Memory
    <2> QED BY <2>1, <2>2, <2>3, <2>4, <2>5, <2>6
  <1> QED BY <1>4, <1>5

(* All steps of a command: local ones and the four that are not.           *)
LEMMA StepsAreLocal ==
  ASSUME IInv, NEW c \in Commands, Start(c) \/ Step(c) \/ Interrupt(c) \/ Kill(c)
  PROVE  \/ Local(c) \/ Sweep(c) \/ Plan(c) \/ CompleteEmpty(c) \/ Swap(c)
  BY BeforeLocal, CreateRowsLocal, CallingLocal, StageLocal, OutsideLocal DEF Step

-----------------------------------------------------------------------------
(* Ownership of the telemetry rows.                                        *)

(* A sweep finds no open row of a command that waits or has not begun.     *)
LEMMA SweepSparesLive ==
  ASSUME IInv, ReconcileAbandoned, NEW d \in Commands, lock # d, ~Ended(d)
  PROVE  runs'[d] = runs[d] /\ calls'[d] = calls[d]
  <1>1. TypeOK /\ CommandSound(d) /\ cmd[d] \in Memory
    BY DEF IInv, TypeOK
  <1>2. cmd[d].pc \in Early
    BY <1>1 DEF CommandSound, LockSound, Locked, Points, Memory, Ended, Early
  <1>3. runs[d].status = "absent" /\ \A k \in CallIndexes : calls[d][k] = NoCall
    BY <1>1, <1>2 DEF CommandSound, ProgressSound, RowsSound
  <1>4. runs'[d] = runs[d] /\ \A k \in CallIndexes : calls'[d][k] = calls[d][k]
    BY <1>1, <1>3, ReconcileFacts DEF NoCall
  <1>5. calls[d] \in [CallIndexes -> CallRows] /\ calls'[d] \in [CallIndexes -> CallRows]
    BY <1>1, ReconcileFacts DEF TypeOK
  <1> QED BY <1>4, <1>5

LEMMA StepOwnsRows ==
  ASSUME IInv, Next, NEW d \in Commands,
         runs'[d] # runs[d] \/ calls'[d] # calls[d]
  PROVE  lock = d \/ Ended(d)
  <1>1. CASE OtherWriter
    BY <1>1, SweepSparesLive DEF OtherWriter
  <1>2. ASSUME NEW c \in Commands, Local(c) PROVE lock = d \/ Ended(d)
    <2>1. d = c /\ cmd[c].pc \in Locked
      BY <1>2 DEF Local
    <2> QED BY <2>1 DEF IInv, CommandSound, LockSound
  <1>3. ASSUME NEW c \in Commands, Sweep(c) PROVE lock = d \/ Ended(d)
    <2>1. CASE ReconcileAbandoned
      BY <2>1, SweepSparesLive
    <2>2. CASE Raises(c)
      BY <2>2, RaisesLocal, <1>2
    <2> QED BY <1>3, <2>1, <2>2 DEF Sweep
  <1>4. ASSUME NEW c \in Commands, Plan(c) PROVE lock = d \/ Ended(d)
    <2>1. UNCHANGED <<runs, calls>>
      BY <1>4 DEF Plan, Raises, Rows, Business
    <2> QED BY <2>1
  <1>5. ASSUME NEW c \in Commands, CompleteEmpty(c) \/ Swap(c) PROVE lock = d \/ Ended(d)
    <2>1. lock = c
      BY <1>5
      DEF IInv, CommandSound, LockSound, Locked, Points, CompleteEmpty, Swap, At
    <2>2. UNCHANGED calls /\ (c # d => runs'[d] = runs[d])
      BY <1>5 DEF CompleteEmpty, Swap, SetRun, Raises, Rows, Business, IInv, TypeOK
    <2> QED BY <2>1, <2>2
  <1> QED BY <1>1, <1>2, <1>3, <1>4, <1>5, StepsAreLocal DEF Next

(* Rows are written under the lock by their own command, or closed once    *)
(* their command is no more: no sweep cancels a live invocation.           *)
THEOREM LiveRowsAreOwnHolds == Spec => LiveRowsAreOwn
  <1>1. IInv /\ [Next]_vars =>
          [\A c \in Commands :
             (runs'[c] # runs[c] \/ calls'[c] # calls[c]) => lock = c \/ Ended(c)]_vars
    BY StepOwnsRows
  <1> QED BY <1>1, Invariant, PTL DEF Spec, LiveRowsAreOwn

-----------------------------------------------------------------------------
(* The atomic stage.                                                       *)

(* The state of the abstract specification, under a name.                  *)
BasisMap == [c \in Commands |-> cmd[c].basis]
FateMap  == [c \in Commands |-> Fate(c)]

(* Steps that complete nothing are failures of some runs, or of none.      *)
LEMMA FailMaps ==
  ASSUME generation' = generation, BasisMap' = BasisMap,
         \A d \in Commands : Fate(d)' = Fate(d) \/ (Fate(d) = "open" /\ Fate(d)' = "failed")
  PROVE  Promise!Next
  <1> DEFINE S == {d \in Commands : Fate(d) = "open" /\ Fate(d)' = "failed"}
  <1>1. FateMap' = [d \in Commands |-> IF d \in S THEN "failed" ELSE FateMap[d]]
    BY DEF FateMap
  <1>2. \A d \in S : FateMap[d] = "open"
    BY DEF FateMap
  <1>3. S \in SUBSET Commands
    OBVIOUS
  <1> HIDE DEF S
  <1>4. Promise!Fail(S)
    BY <1>1, <1>2 DEF Promise!Fail, BasisMap, FateMap
  <1> QED BY <1>3, <1>4 DEF Promise!Next

LEMMA LocalMaps ==
  ASSUME IInv, NEW c \in Commands, Local(c)
  PROVE  Promise!Next
  <1>1. BasisMap' = BasisMap
    BY DEF Local, BasisMap
  <1>2. \A d \in Commands : Fate(d)' = Fate(d) \/ (Fate(d) = "open" /\ Fate(d)' = "failed")
    BY DEF Local, Fate
  <1> QED BY <1>1, <1>2, FailMaps DEF Local

LEMMA SweptFates ==
  ASSUME IInv, ReconcileAbandoned,
         \A d \in Commands : cmd'[d].planned = cmd[d].planned
  PROVE  \A d \in Commands : Fate(d)' = Fate(d) \/ (Fate(d) = "open" /\ Fate(d)' = "failed")
  <1>1. \A d \in Commands : runs'[d].status = Swept(runs[d].status)
    BY ReconcileFacts DEF IInv
  <1> QED BY <1>1 DEF Fate, Swept

LEMMA SweepMaps ==
  ASSUME IInv, NEW c \in Commands, Sweep(c)
  PROVE  Promise!Next
  <1>1. CASE Raises(c)
    BY <1>1, RaisesLocal, LocalMaps
  <1>2. CASE ReconcileAbandoned /\ Goto(c, "plan") /\ UNCHANGED Business
    <2>1. TypeOK /\ UNCHANGED generation
      BY <1>2 DEF IInv, Business
    <2>2. \A d \in Commands : cmd'[d].planned = cmd[d].planned /\ cmd'[d].basis = cmd[d].basis
      BY <1>2, <2>1 DEF Goto, TypeOK, Memory
    <2>3. BasisMap' = BasisMap
      BY <2>2 DEF BasisMap
    <2> QED BY <1>2, <2>1, <2>2, <2>3, SweptFates, FailMaps
  <1> QED BY <1>1, <1>2 DEF Sweep

LEMMA PlanMaps ==
  ASSUME IInv, NEW c \in Commands, Plan(c)
  PROVE  Promise!Next
  <1>1. TypeOK /\ CommandSound(c) /\ cmd[c].pc = "plan"
    BY DEF IInv, Plan, At
  <1>2. CASE Raises(c)
    BY <1>2, RaisesLocal, LocalMaps
  <1>3. ASSUME NEW n \in 0 .. MaxCalls,
               cmd' = [cmd EXCEPT ![c].pc = IF n = 0 THEN "empty" ELSE "create",
                                  ![c].planned = n, ![c].basis = generation],
               UNCHANGED <<lock, Rows, Business>>
        PROVE  Promise!Next
    <2>1. UNCHANGED <<runs, generation>> /\ runs[c].status = "absent"
      BY <1>1, <1>3 DEF Rows, Business, CommandSound, ProgressSound, Early
    <2>2. \A d \in Commands : /\ cmd'[d].basis = IF d = c THEN generation ELSE cmd[d].basis
                              /\ d # c => cmd'[d].planned = cmd[d].planned
      BY <1>1, <1>3 DEF TypeOK, Memory
    <2>3. \A d \in Commands : Fate(d)' = Fate(d)
      BY <2>1, <2>2 DEF Fate
    <2>4. Fate(c) = "open"
      BY <2>1 DEF Fate
    <2>5. BasisMap' = [BasisMap EXCEPT ![c] = generation]
      BY <2>2 DEF BasisMap
    <2>6. FateMap' = FateMap /\ FateMap[c] = "open"
      BY <2>3, <2>4 DEF FateMap
    <2>7. Promise!Read(c)
      BY <2>1, <2>5, <2>6 DEF Promise!Read, BasisMap, FateMap
    <2> QED BY <2>7 DEF Promise!Next
  <1> QED BY <1>2, <1>3 DEF Plan

LEMMA CompleteEmptyMaps ==
  ASSUME IInv, NEW c \in Commands, CompleteEmpty(c)
  PROVE  Promise!Next
  <1>1. /\ TypeOK /\ cmd[c].pc = "empty"
        /\ cmd[c].planned = 0 /\ runs[c].status = "absent"
    BY DEF IInv, CompleteEmpty, At, CommandSound, MemorySound, ProgressSound
  <1>2. CASE Raises(c)
    BY <1>2, RaisesLocal, LocalMaps
  <1>3. CASE /\ SetRun(c, "completed", "none")
             /\ Goto(c, "cleanup")
             /\ UNCHANGED <<calls, Business>>
    <2>1. UNCHANGED generation
      BY <1>3 DEF Business
    <2>2. \A d \in Commands : cmd'[d].planned = cmd[d].planned /\ cmd'[d].basis = cmd[d].basis
      BY <1>1, <1>3 DEF Goto, TypeOK, Memory
    <2>3. runs'[c].status = "completed" /\ \A d \in Commands \ {c} : runs'[d] = runs[d]
      BY <1>1, <1>3, SetRunFacts DEF Codes
    <2>4. \A d \in Commands : Fate(d)' = IF d = c THEN "empty" ELSE Fate(d)
      BY <1>1, <2>2, <2>3 DEF Fate
    <2>5. Fate(c) = "open"
      BY <1>1 DEF Fate
    <2>6. FateMap' = [FateMap EXCEPT ![c] = "empty"] /\ FateMap[c] = "open"
      BY <2>4, <2>5 DEF FateMap
    <2>7. BasisMap' = BasisMap
      BY <2>2 DEF BasisMap
    <2>8. Promise!Skip(c)
      BY <2>1, <2>6, <2>7 DEF Promise!Skip, BasisMap, FateMap
    <2> QED BY <2>8 DEF Promise!Next
  <1> QED BY <1>2, <1>3 DEF CompleteEmpty

LEMMA SwapMaps ==
  ASSUME IInv, NEW c \in Commands, Swap(c)
  PROVE  Promise!Next
  <1>1. TypeOK /\ CommandSound(c) /\ cmd[c] \in Memory /\ cmd[c].pc = "swap"
    BY DEF IInv, TypeOK, Swap, At
  <1>2. /\ cmd[c].pc \in Locked /\ runs[c].status = "running"
        /\ cmd[c].basis = generation /\ cmd[c].planned # 0
    BY <1>1
    DEF Locked, Points, Working, CommandSound, ProgressSound, BasisSound,
        MemorySound, Memory, CallIndexes
  <1>3. CASE Goto(c, "undo") /\ UNCHANGED <<Rows, Business>>
    <2>1. OwnWork(c)
      BY <1>3 DEF OwnWork, Rows, Business
    <2> QED BY <1>3, <2>1, GotoLocal, LocalMaps DEF Points
  <1>4. CASE /\ generation' = c
             /\ SetRun(c, "completed", "none")
             /\ Goto(c, "cleanup")
             /\ UNCHANGED <<calls, published>>
    <2>1. \A d \in Commands : cmd'[d].planned = cmd[d].planned /\ cmd'[d].basis = cmd[d].basis
      BY <1>1, <1>4 DEF Goto, TypeOK, Memory
    <2>2. runs'[c].status = "completed" /\ \A d \in Commands \ {c} : runs'[d] = runs[d]
      BY <1>1, <1>4, SetRunFacts DEF Codes
    <2>3. \A d \in Commands : Fate(d)' = IF d = c THEN "took" ELSE Fate(d)
      BY <1>2, <2>1, <2>2 DEF Fate
    <2>4. Fate(c) = "open"
      BY <1>2 DEF Fate
    <2>5. FateMap' = [FateMap EXCEPT ![c] = "took"] /\ FateMap[c] = "open"
      BY <2>3, <2>4 DEF FateMap
    <2>6. BasisMap' = BasisMap /\ BasisMap[c] = generation
      BY <1>2, <2>1 DEF BasisMap
    <2>7. Promise!Take(c)
      BY <1>4, <2>5, <2>6 DEF Promise!Take, BasisMap, FateMap
    <2> QED BY <2>7 DEF Promise!Next
  <1> QED BY <1>3, <1>4 DEF Swap

LEMMA OtherWriterMaps ==
  ASSUME IInv, OtherWriter
  PROVE  Promise!Next
  <1>1. ReconcileAbandoned /\ UNCHANGED cmd
    BY DEF OtherWriter
  <1>2. \A d \in Commands : Fate(d)' = Fate(d) \/ (Fate(d) = "open" /\ Fate(d)' = "failed")
    BY <1>1, SweptFates
  <1>3. BasisMap' = BasisMap
    BY <1>1 DEF BasisMap
  <1>4. CASE generation' = generation
    BY <1>2, <1>3, <1>4, FailMaps
  <1>5. CASE generation' = NoRun
    <2> DEFINE S == {d \in Commands : Fate(d) = "open" /\ Fate(d)' = "failed"}
    <2>1. FateMap' = [d \in Commands |-> IF d \in S THEN "failed" ELSE FateMap[d]]
      BY <1>2 DEF FateMap
    <2>2. \A d \in S : FateMap[d] = "open"
      BY DEF FateMap
    <2>3. S \in SUBSET Commands
      OBVIOUS
    <2> HIDE DEF S
    <2>4. Promise!Retire(S)
      BY <1>3, <1>5, <2>1, <2>2 DEF Promise!Retire, BasisMap, FateMap
    <2> QED BY <2>3, <2>4 DEF Promise!Next
  <1> QED BY <1>4, <1>5 DEF OtherWriter, Business

(* Stages implement the atomic stage: the business rows change only with   *)
(* the completion of a run that read exactly the rows it replaces.         *)
THEOREM ImplementsAtomicStageHolds == Spec => ImplementsAtomicStage
  <1>1. Init => Promise!Init
    <2> SUFFICES ASSUME Init PROVE Promise!Init
      OBVIOUS
    <2>1. \A c \in Commands : cmd[c].basis = NoRun /\ Fate(c) = "open"
      BY DEF Init, Fresh, NoRow, Fate
    <2> QED BY <2>1 DEF Promise!Init, Init
  <1>2. IInv /\ [Next]_vars => [Promise!Next]_(Promise!vars)
    <2> SUFFICES ASSUME IInv, [Next]_vars PROVE [Promise!Next]_(Promise!vars)
      OBVIOUS
    <2>1. CASE OtherWriter
      BY <2>1, OtherWriterMaps
    <2>2. ASSUME NEW c \in Commands, Start(c) \/ Step(c) \/ Interrupt(c) \/ Kill(c)
          PROVE  Promise!Next
      BY <2>2, StepsAreLocal, LocalMaps, SweepMaps, PlanMaps, CompleteEmptyMaps, SwapMaps
    <2>3. CASE UNCHANGED vars
      BY <2>3 DEF vars, Promise!vars, Fate
    <2> QED BY <2>1, <2>2, <2>3 DEF Next
  <1> QED BY <1>1, <1>2, Invariant, PTL DEF Spec, ImplementsAtomicStage, Promise!Spec

-----------------------------------------------------------------------------
(* The attempts and their counters.                                        *)

RowCounted(row) ==
  LET retries == row.transport + row.schema
  IN  /\ retries <= row.sent /\ row.sent <= retries + 1
      /\ row.status = "completed" => row.sent = retries + 1
      /\ row.sent <= 2 * AttemptCap /\ row.schema <= 1

RowsCounted(c) == \A k \in CallIndexes : RowCounted(calls[c][k])

(* The current call: which attempts were made, which of them were counted, *)
(* and how much of the budget of both rounds is used.                      *)
CallCounted(c) ==
  LET m == cmd[c]
      row == Call(c)
      uncounted == IF m.pc \in {"enter", "attempt", "backoff"} THEN 0 ELSE 1
      before == IF m.round = 0 THEN 0 ELSE AttemptCap
  IN  /\ m.pc \in Early \cup {"create", "enter"} => m.attempt = 0 /\ m.round = 0
      /\ m.pc = "schema" => m.round = 0
      /\ m.pc \in Calling =>
           /\ row.schema = m.round
           /\ row.sent = row.transport + row.schema + uncounted
           /\ row.sent <= before + m.attempt

Counted == \A c \in Commands : RowsCounted(c) /\ CallCounted(c)

Aside == Points \ (Calling \cup Early \cup {"create"})

LEMMA AsideCounted ==
  ASSUME NEW c \in Commands, cmd'[c].pc \in Aside
  PROVE  CallCounted(c)'
  BY DEF CallCounted, Aside, Calling, Early, Points

LEMMA CountedFacts ==
  ASSUME IInv, Counted, NEW c \in Commands
  PROVE  /\ TypeOK /\ cmd[c] \in Memory /\ RowsCounted(c) /\ CallCounted(c)
         /\ cmd[c].call \in CallIndexes
         /\ calls[c] \in [CallIndexes -> CallRows] /\ Call(c) \in CallRows
         /\ AttemptCap \in Nat
  BY BoundsAssumption DEF IInv, TypeOK, Counted, Memory, Call

(* A row of which the counters stay, and which is not completed by this.   *)
LEMMA SameCounters ==
  ASSUME NEW row, NEW other, RowCounted(row), other.status # "completed",
         other.sent = row.sent, other.transport = row.transport,
         other.schema = row.schema
  PROVE  RowCounted(other)
  BY DEF RowCounted

LEMMA RowSet ==
  ASSUME IInv, Counted, NEW c \in Commands, NEW row \in CallRows, SetCall(c, row),
         RowCounted(row)
  PROVE  RowsCounted(c)' /\ calls'[c][cmd[c].call] = row
  <1>1. /\ calls'[c][cmd[c].call] = row
        /\ \A k \in CallIndexes \ {cmd[c].call} : calls'[c][k] = calls[c][k]
    BY CountedFacts, SetCallFacts
  <1>2. \A k \in CallIndexes : RowCounted(calls'[c][k])
    BY <1>1, CountedFacts DEF RowsCounted
  <1> QED BY <1>1, <1>2 DEF RowsCounted, RowCounted

LEMMA RowsSame ==
  ASSUME IInv, Counted, NEW c \in Commands, calls'[c] = calls[c]
  PROVE  RowsCounted(c)'
  BY CountedFacts DEF RowsCounted, RowCounted

(* The open call goes on, with the counters of row, to the place m.        *)
LEMMA OpenCounted ==
  ASSUME IInv, Counted, NEW c \in Commands, NEW row \in CallRows, row.status = "running",
         SetCall(c, row) \/ (UNCHANGED calls /\ row = Call(c)),
         NEW m \in Memory, cmd'[c] = m, m.call = cmd[c].call,
         m.pc \in Calling \ {"enter"}, m.pc = "schema" => m.round = 0,
         row.schema = m.round,
         row.sent = row.transport + row.schema
                      + (IF m.pc \in {"attempt", "backoff"} THEN 0 ELSE 1),
         row.sent <= (IF m.round = 0 THEN 0 ELSE AttemptCap) + m.attempt
  PROVE  RowsCounted(c)' /\ CallCounted(c)'
  <1>1. /\ row.sent \in Nat /\ row.transport \in Nat /\ row.schema \in Nat
        /\ m.round \in {0, 1} /\ m.attempt \in 0 .. AttemptCap /\ AttemptCap \in Nat
    BY CountedFacts DEF CallRows, Memory
  <1>2. RowCounted(row)
    BY <1>1 DEF RowCounted
  <1>3. RowsCounted(c)' /\ calls'[c][cmd[c].call] = row
    BY <1>2, RowSet, RowsSame DEF Call
  <1>4. Call(c)' = row
    BY <1>3 DEF Call
  <1>5. CallCounted(c)'
    BY <1>4 DEF CallCounted, Calling, Early
  <1> QED BY <1>3, <1>5

LEMMA EndCounted ==
  ASSUME IInv, Counted, NEW c \in Commands, NEW out \in Outs, End(c, out),
         \/ calls'[c] = calls[c]
         \/ \E row \in CallRows : SetCall(c, row) /\ RowCounted(row)
  PROVE  RowsCounted(c)' /\ CallCounted(c)'
  <1>1. Became(c, Remains(c, "over", out, cmd[c].report))
    BY CountedFacts, EndFacts
  <1>2. cmd'[c].pc = "over"
    BY <1>1 DEF Became, Remains
  <1> QED BY <1>2, AsideCounted, RowsSame, RowSet DEF Aside, Calling, Early, Points

LEMMA RaisesCounted ==
  ASSUME IInv, Counted, NEW c \in Commands, Raises(c)
  PROVE  RowsCounted(c)' /\ CallCounted(c)'
  BY EndCounted DEF Raises, Rows, Outs

LEMMA FailCounted ==
  ASSUME IInv, Counted, NEW c \in Commands, NEW code \in Codes, Fail(c, code)
  PROVE  RowsCounted(c)' /\ CallCounted(c)'
  <1>1. CASE Raises(c)
    BY <1>1, RaisesCounted
  <1>2. CASE /\ SetCall(c, [Call(c) EXCEPT !.status = "failed"])
             /\ SetRun(c, "failed", code)
             /\ End(c, IF code = "cancelled" THEN "cancelled" ELSE "failed")
             /\ UNCHANGED Business
    <2> DEFINE row == [Call(c) EXCEPT !.status = "failed"]
    <2>1. /\ row \in CallRows /\ row.status = "failed" /\ row.sent = Call(c).sent
          /\ row.transport = Call(c).transport /\ row.schema = Call(c).schema
      BY CountedFacts DEF CallRows
    <2>2. RowCounted(Call(c))
      BY CountedFacts DEF RowsCounted, Call
    <2> HIDE DEF row
    <2>3. RowCounted(row)
      BY <2>1, <2>2, SameCounters
    <2> QED BY <1>2, <2>1, <2>3, EndCounted DEF Outs, row
  <1> QED BY <1>1, <1>2 DEF Fail

(* The command moves on without an attempt or a count.                     *)
LEMMA GoesOnCounted ==
  ASSUME IInv, Counted, NEW c \in Commands, cmd[c].pc \in Calling,
         NEW pc \in Calling \ {"enter"}, Goto(c, pc), UNCHANGED calls,
         cmd[c].pc \in {"enter", "attempt", "backoff"} <=> pc \in {"attempt", "backoff"},
         pc = "schema" => cmd[c].round = 0
  PROVE  RowsCounted(c)' /\ CallCounted(c)'
  <1>1. Became(c, [cmd[c] EXCEPT !.pc = pc])
    BY CountedFacts, GotoFacts DEF Goto, Calling, Points
  <1>2. PICK m : m = [cmd[c] EXCEPT !.pc = pc]
    OBVIOUS
  <1>3. /\ m \in Memory /\ m.pc = pc /\ m.call = cmd[c].call
        /\ m.round = cmd[c].round /\ m.attempt = cmd[c].attempt
    BY <1>1, <1>2, CountedFacts DEF Memory, Calling, Points
  <1>4. PICK row \in CallRows : row = Call(c)
    BY CountedFacts
  <1>5. row.status = "running" /\ cmd'[c] = m
    BY <1>1, <1>2, <1>4, CallingFacts DEF Became
  <1>6. /\ row.schema = m.round
        /\ row.sent = row.transport + row.schema
                       + (IF m.pc \in {"attempt", "backoff"} THEN 0 ELSE 1)
        /\ row.sent <= (IF m.round = 0 THEN 0 ELSE AttemptCap) + m.attempt
    BY <1>3, <1>4, CountedFacts DEF CallCounted
  <1> QED BY <1>3, <1>4, <1>5, <1>6, OpenCounted

LEMMA EnterRoundsCounted ==
  ASSUME IInv, Counted, NEW c \in Commands,
         EnterRounds(c) \/ Answered(c) \/ Backoff(c) \/ Validate(c)
  PROVE  RowsCounted(c)' /\ CallCounted(c)'
  <1>1. ASSUME NEW code \in Codes, Fail(c, code)
        PROVE  RowsCounted(c)' /\ CallCounted(c)'
    BY <1>1, FailCounted
  <1>2. CASE EnterRounds(c)
    BY <1>1, <1>2, GoesOnCounted DEF EnterRounds, At, Codes, Calling, Rows
  <1>3. CASE Answered(c)
    BY <1>1, <1>3, GoesOnCounted DEF Answered, At, Codes, Calling, Rows
  <1>4. CASE Backoff(c)
    BY <1>1, <1>4, GoesOnCounted DEF Backoff, At, Codes, Calling, Rows
  <1>5. CASE Validate(c)
    BY <1>1, <1>5, GoesOnCounted DEF Validate, At, Codes, Calling, Rows
  <1> QED BY <1>2, <1>3, <1>4, <1>5

LEMMA CreateRowsCounted ==
  ASSUME IInv, Counted, NEW c \in Commands, CreateRows(c)
  PROVE  RowsCounted(c)' /\ CallCounted(c)'
  <1>1. CASE Raises(c)
    BY <1>1, RaisesCounted
  <1>2. CASE /\ SetCall(c, [NoCall EXCEPT !.status = "running"]) /\ Goto(c, "enter")
    <2>1. PICK row : row = [NoCall EXCEPT !.status = "running"]
      OBVIOUS
    <2>2. /\ row \in CallRows /\ row.status = "running" /\ row.sent = 0
          /\ row.transport = 0 /\ row.schema = 0
      BY <2>1 DEF NoCall, CallRows
    <2>3. RowCounted(row)
      BY <2>2, CountedFacts DEF RowCounted
    <2>4. RowsCounted(c)' /\ calls'[c][cmd[c].call] = row
      BY <1>2, <2>1, <2>2, <2>3, RowSet
    <2>5. Became(c, [cmd[c] EXCEPT !.pc = "enter"])
      BY <1>2, CountedFacts, GotoFacts DEF Goto, Points
    <2>6. /\ cmd'[c].pc = "enter" /\ cmd'[c].call = cmd[c].call
          /\ cmd'[c].round = cmd[c].round /\ cmd'[c].attempt = cmd[c].attempt
      BY <2>5, CountedFacts DEF Became, Memory
    <2>7. cmd[c].round = 0 /\ cmd[c].attempt = 0
      BY CountedFacts DEF CreateRows, At, CallCounted
    <2>8. Call(c)' = row
      BY <2>4, <2>6 DEF Call
    <2> QED BY <2>2, <2>4, <2>6, <2>7, <2>8 DEF CallCounted, Early, Calling
  <1> QED BY <1>1, <1>2 DEF CreateRows

LEMMA AttemptCounted ==
  ASSUME IInv, Counted, NEW c \in Commands, Attempt(c)
  PROVE  RowsCounted(c)' /\ CallCounted(c)'
  <1>1. cmd[c].pc = "attempt" /\ cmd[c].pc \in Calling
    BY DEF Attempt, At, Calling
  <1>2. CASE \E code \in {"transport_timeout", "other"} : Fail(c, code)
    BY <1>2, FailCounted DEF Codes
  <1>3. CASE /\ SetCall(c, [Call(c) EXCEPT !.sent = @ + 1])
             /\ cmd' = [cmd EXCEPT ![c].pc = "sent", ![c].attempt = @ + 1]
    <2>1. PICK row, m : row = [Call(c) EXCEPT !.sent = @ + 1]
                        /\ m = [cmd[c] EXCEPT !.pc = "sent", !.attempt = @ + 1]
      OBVIOUS
    <2>2. /\ row \in CallRows /\ row.status = "running" /\ row.sent = Call(c).sent + 1
          /\ row.transport = Call(c).transport /\ row.schema = Call(c).schema
      BY <1>1, <2>1, CallingFacts DEF CallRows
    <2>3. cmd'[c] = m
      BY <1>3, <2>1, CountedFacts DEF TypeOK
    <2>4. m \in Memory
      BY <2>3, AttemptKeeps DEF IInv, TypeOK
    <2>5. /\ m.pc = "sent" /\ m.call = cmd[c].call /\ m.round = cmd[c].round
          /\ m.attempt = cmd[c].attempt + 1
      BY <2>1, CountedFacts DEF Memory
    <2>6. /\ row.schema = m.round
          /\ row.sent = row.transport + row.schema
                          + (IF m.pc \in {"attempt", "backoff"} THEN 0 ELSE 1)
          /\ row.sent <= (IF m.round = 0 THEN 0 ELSE AttemptCap) + m.attempt
      <3>1. /\ Call(c).schema = cmd[c].round
            /\ Call(c).sent = Call(c).transport + Call(c).schema + 0
            /\ Call(c).sent <= (IF cmd[c].round = 0 THEN 0 ELSE AttemptCap) + cmd[c].attempt
        BY <1>1, CountedFacts DEF CallCounted
      <3> QED BY <2>2, <2>5, <3>1, CountedFacts DEF CallRows, Memory
    <2>7. SetCall(c, row) /\ m.pc \in Calling \ {"enter"} /\ m.pc # "schema"
      BY <1>3, <2>1, <2>5 DEF Calling
    <2> QED BY <2>2, <2>3, <2>4, <2>5, <2>6, <2>7, OpenCounted
  <1> QED BY <1>2, <1>3 DEF Attempt

LEMMA CountTransportCounted ==
  ASSUME IInv, Counted, NEW c \in Commands, CountTransport(c)
  PROVE  RowsCounted(c)' /\ CallCounted(c)'
  <1>1. cmd[c].pc = "retry" /\ cmd[c].pc \in Calling
    BY DEF CountTransport, At, Calling
  <1>2. CASE Raises(c)
    BY <1>2, RaisesCounted
  <1>3. CASE /\ SetCall(c, [Call(c) EXCEPT !.transport = @ + 1]) /\ Goto(c, "backoff")
    <2>1. PICK row, m : row = [Call(c) EXCEPT !.transport = @ + 1]
                        /\ m = [cmd[c] EXCEPT !.pc = "backoff"]
      OBVIOUS
    <2>2. /\ row \in CallRows /\ row.status = "running" /\ row.sent = Call(c).sent
          /\ row.transport = Call(c).transport + 1 /\ row.schema = Call(c).schema
      BY <1>1, <2>1, CallingFacts DEF CallRows
    <2>3. cmd'[c] = m
      BY <1>3, <2>1, CountedFacts DEF TypeOK, Goto
    <2>4. m \in Memory
      BY <2>3, CountTransportKeeps DEF IInv, TypeOK
    <2>5. /\ m.pc = "backoff" /\ m.call = cmd[c].call /\ m.round = cmd[c].round
          /\ m.attempt = cmd[c].attempt
      BY <2>1, CountedFacts DEF Memory
    <2>6. /\ row.schema = m.round
          /\ row.sent = row.transport + row.schema + 0
          /\ row.sent <= (IF m.round = 0 THEN 0 ELSE AttemptCap) + m.attempt
      <3>1. /\ Call(c).schema = cmd[c].round
            /\ Call(c).sent = Call(c).transport + Call(c).schema + 1
            /\ Call(c).sent <= (IF cmd[c].round = 0 THEN 0 ELSE AttemptCap) + cmd[c].attempt
        BY <1>1, CountedFacts DEF CallCounted
      <3> QED BY <2>2, <2>5, <3>1, CountedFacts DEF CallRows, Memory
    <2>7. SetCall(c, row) /\ m.pc \in Calling \ {"enter"} /\ m.pc # "schema"
      BY <1>3, <2>1, <2>5 DEF Calling
    <2> QED BY <2>2, <2>3, <2>4, <2>5, <2>6, <2>7, OpenCounted
  <1> QED BY <1>2, <1>3 DEF CountTransport

LEMMA CountSchemaCounted ==
  ASSUME IInv, Counted, NEW c \in Commands, CountSchema(c)
  PROVE  RowsCounted(c)' /\ CallCounted(c)'
  <1>1. cmd[c].pc = "schema" /\ cmd[c].pc \in Calling
    BY DEF CountSchema, At, Calling
  <1>2. CASE Raises(c)
    BY <1>2, RaisesCounted
  <1>3. CASE /\ SetCall(c, [Call(c) EXCEPT !.schema = @ + 1])
             /\ cmd' = [cmd EXCEPT ![c].pc = "attempt", ![c].round = 1, ![c].attempt = 0]
    <2>1. PICK row, m : row = [Call(c) EXCEPT !.schema = @ + 1]
                        /\ m = [cmd[c] EXCEPT !.pc = "attempt", !.round = 1, !.attempt = 0]
      OBVIOUS
    <2>2. /\ row \in CallRows /\ row.status = "running" /\ row.sent = Call(c).sent
          /\ row.transport = Call(c).transport /\ row.schema = Call(c).schema + 1
      BY <1>1, <2>1, CallingFacts DEF CallRows
    <2>3. cmd'[c] = m
      BY <1>3, <2>1, CountedFacts DEF TypeOK
    <2>4. m \in Memory
      BY <2>3, CountSchemaKeeps DEF IInv, TypeOK
    <2>5. m.pc = "attempt" /\ m.call = cmd[c].call /\ m.round = 1 /\ m.attempt = 0
      BY <2>1, CountedFacts DEF Memory
    <2>6. /\ row.schema = m.round
          /\ row.sent = row.transport + row.schema
                          + (IF m.pc \in {"attempt", "backoff"} THEN 0 ELSE 1)
          /\ row.sent <= (IF m.round = 0 THEN 0 ELSE AttemptCap) + m.attempt
      <3>1. /\ Call(c).schema = 0 /\ cmd[c].round = 0
            /\ Call(c).sent = Call(c).transport + Call(c).schema + 1
            /\ Call(c).sent <= 0 + cmd[c].attempt
        BY <1>1, CountedFacts DEF CallCounted
      <3> QED BY <2>2, <2>5, <3>1, CountedFacts DEF CallRows, Memory
    <2>7. SetCall(c, row) /\ m.pc \in Calling \ {"enter"} /\ m.pc # "schema"
      BY <1>3, <2>1, <2>5 DEF Calling
    <2> QED BY <2>2, <2>3, <2>4, <2>5, <2>6, <2>7, OpenCounted
  <1> QED BY <1>2, <1>3 DEF CountSchema

(* The answer completes the call: the attempts were counted to the last.   *)
LEMMA CompleteCallCounted ==
  ASSUME IInv, Counted, NEW c \in Commands, CompleteCall(c) \/ FailBusiness(c)
  PROVE  RowsCounted(c)' /\ CallCounted(c)'
  <1>1. cmd[c].pc \in {"complete", "business"} /\ cmd[c].pc \in Calling
    BY DEF CompleteCall, FailBusiness, At, Calling
  <1>2. PICK row : row = [Call(c) EXCEPT !.status = "completed"]
    OBVIOUS
  <1>3. /\ row \in CallRows /\ row.status = "completed" /\ row.sent = Call(c).sent
        /\ row.transport = Call(c).transport /\ row.schema = Call(c).schema
    BY <1>2, CountedFacts DEF CallRows
  <1>4. RowCounted(row)
    <2>1. RowCounted(Call(c)) /\ Call(c).sent = Call(c).transport + Call(c).schema + 1
      BY <1>1, CountedFacts DEF CallCounted, RowsCounted, Call
    <2> QED BY <1>3, <2>1 DEF RowCounted
  <1>5. CASE Raises(c)
    BY <1>5, RaisesCounted
  <1>6. CASE SetCall(c, row) /\ Goto(c, "returned")
    <2>1. cmd'[c].pc = "returned"
      BY <1>6, CountedFacts DEF Goto, TypeOK, Memory
    <2> QED BY <1>3, <1>4, <1>6, <2>1, RowSet, AsideCounted
            DEF Aside, Calling, Early, Points
  <1>7. CASE SetCall(c, row) /\ End(c, "failed")
    BY <1>3, <1>4, <1>7, EndCounted DEF Outs
  <1>8. CASE cmd[c].pc = "complete" /\ Goto(c, "business") /\ UNCHANGED calls
    BY <1>8, GoesOnCounted DEF Calling
  <1> QED BY <1>2, <1>5, <1>6, <1>7, <1>8 DEF CompleteCall, FailBusiness, At, Rows

(* The steps of the stage around its calls.                                *)
LEMMA StageCounted ==
  ASSUME IInv, Counted, NEW c \in Commands, Next,
         \/ Start(c) \/ Acquire(c) \/ Busy(c) \/ Plan(c) \/ CompleteEmpty(c) \/ Resolve(c)
         \/ ReportStale(c) \/ Swap(c) \/ Cleanup(c) \/ Undo(c) \/ CancelRun(c)
         \/ Withdraw(c) \/ Kill(c) \/ Interrupt(c)
  PROVE  RowsCounted(c)' /\ CallCounted(c)'
  <1>1. RowsCounted(c)'
    <2>1. calls'[c] = calls[c]
      BY DEF Start, Acquire, Busy, Plan, CompleteEmpty, Resolve, ReportStale, Swap, Cleanup,
             Undo, CancelRun, Withdraw, Kill, Interrupt, Raises, Rows, Business
    <2> QED BY <2>1, RowsSame
  <1>2. cmd \in [Commands -> Memory] /\ cmd[c] \in Memory
    BY CountedFacts DEF TypeOK
  <1>3. CASE Start(c) \/ Acquire(c) \/ Plan(c) \/ Resolve(c)
    <2>1. \/ cmd'[c].pc \in Aside
          \/ /\ cmd'[c].pc \in Early \cup {"create"}
             /\ cmd'[c].round = 0 /\ cmd'[c].attempt = 0
      <3>1. cmd[c].pc \in Early => cmd[c].round = 0 /\ cmd[c].attempt = 0
        BY CountedFacts DEF CallCounted
      <3>2. CASE Start(c) \/ Acquire(c)
        BY <1>2, <3>1, <3>2 DEF Start, Acquire, Goto, At, Early, Memory
      <3>3. CASE Plan(c)
        <4>1. CASE Raises(c)
          BY <1>2, <4>1 DEF Raises, End, Remains, Memory, Aside, Points, Calling, Early
        <4>2. CASE \E n \in 0 .. MaxCalls :
                     cmd' = [cmd EXCEPT ![c].pc = IF n = 0 THEN "empty" ELSE "create",
                                        ![c].planned = n, ![c].basis = generation]
          <5>1. cmd[c].pc \in Early
            BY <3>3 DEF Plan, At, Early
          <5>2. PICK n \in 0 .. MaxCalls :
                  cmd' = [cmd EXCEPT ![c].pc = IF n = 0 THEN "empty" ELSE "create",
                                     ![c].planned = n, ![c].basis = generation]
            BY <4>2
          <5>3. /\ cmd'[c].pc = IF n = 0 THEN "empty" ELSE "create"
                /\ cmd'[c].round = cmd[c].round
                /\ cmd'[c].attempt = cmd[c].attempt
            BY <1>2, <5>2 DEF Memory
          <5> QED BY <3>1, <5>1, <5>3 DEF Early, Aside, Points, Calling
        <4> QED BY <3>3, <4>1, <4>2 DEF Plan
      <3>4. CASE Resolve(c)
        BY <1>2, <3>4 DEF Resolve, Goto, At, Early, Memory, Aside, Points, Calling
      <3> QED BY <1>3, <3>2, <3>3, <3>4
    <2>2. cmd'[c].pc \in Early \cup {"create"} => cmd'[c].pc \notin Calling \cup {"schema"}
      BY DEF Early, Calling
    <2> QED BY <1>1, <2>1, <2>2, AsideCounted DEF CallCounted
  <1>4. CASE \/ Busy(c) \/ CompleteEmpty(c) \/ ReportStale(c) \/ Swap(c) \/ Cleanup(c)
             \/ Undo(c) \/ CancelRun(c) \/ Withdraw(c) \/ Kill(c)
    <2>1. cmd'[c].pc \in Aside
      BY <1>2, <1>4
      DEF Busy, CompleteEmpty, ReportStale, Swap, Cleanup, Undo, CancelRun, Withdraw, Kill,
          Raises, End, Leave, Remains, Goto, Memory, Aside, Points, Calling, Early
    <2> QED BY <1>1, <2>1, AsideCounted
  <1>5. CASE Interrupt(c)
    <2>1. PICK handler \in Handlers(cmd[c].pc) :
            CASE handler = "over" /\ lock = c -> End(c, "interrupted")
              [] handler = "over" /\ lock # c ->
                   /\ cmd' = [cmd EXCEPT ![c].pc = "over", ![c].out = "interrupted"]
                   /\ UNCHANGED lock
              [] handler = "withdraw" -> Leave(c, "interrupted")
              [] OTHER -> Goto(c, handler)
      BY <1>5 DEF Interrupt
    <2>2. handler \in {"cancel_call", "cancel_run", "withdraw", "over"}
      BY <1>2, HandlerFacts DEF Memory
    <2>3. cmd'[c].pc \in {"cancel_call", "cancel_run", "withdraw", "over"}
      BY <1>2, <2>1, <2>2 DEF End, Leave, Goto, Remains, Memory
    <2> QED BY <1>1, <2>3, AsideCounted DEF Aside, Points, Calling, Early
  <1> QED BY <1>3, <1>4, <1>5

LEMMA CancelCallCounted ==
  ASSUME IInv, Counted, NEW c \in Commands, CancelCall(c)
  PROVE  RowsCounted(c)' /\ CallCounted(c)'
  <1>1. CASE UNCHANGED Rows
    BY <1>1, EndCounted DEF CancelCall, Rows, Outs
  <1>2. CASE SetCall(c, [Call(c) EXCEPT !.status = "failed"])
    <2>1. PICK row : row = [Call(c) EXCEPT !.status = "failed"]
      OBVIOUS
    <2>2. /\ row \in CallRows /\ row.status = "failed" /\ row.sent = Call(c).sent
          /\ row.transport = Call(c).transport /\ row.schema = Call(c).schema
      BY <2>1, CountedFacts DEF CallRows
    <2>3. RowCounted(Call(c))
      BY CountedFacts DEF RowsCounted, Call
    <2>4. RowCounted(row)
      BY <2>2, <2>3, SameCounters
    <2> QED BY <1>2, <2>1, <2>2, <2>4, EndCounted DEF CancelCall, Outs
  <1> QED BY <1>1, <1>2 DEF CancelCall

(* Rows that a sweep closes keep their counters; nobody but the sweeping   *)
(* command is between its calls.                                           *)
LEMMA SweptCounted ==
  ASSUME IInv, Counted, ReconcileAbandoned, NEW d \in Commands
  PROVE  RowsCounted(d)'
  <1>1. ASSUME NEW k \in CallIndexes PROVE RowCounted(calls'[d][k])
    <2>1. calls'[d][k] = IF calls[d][k].status = "running"
                           THEN [calls[d][k] EXCEPT !.status = "failed"] ELSE calls[d][k]
      BY DEF ReconcileAbandoned
    <2>2. RowCounted(calls[d][k]) /\ calls[d][k] \in CallRows
      BY CountedFacts DEF RowsCounted
    <2>3. CASE calls[d][k].status = "running"
      <3>1. PICK row : row = [calls[d][k] EXCEPT !.status = "failed"]
        OBVIOUS
      <3>2. /\ row.status = "failed" /\ row.sent = calls[d][k].sent
            /\ row.transport = calls[d][k].transport /\ row.schema = calls[d][k].schema
        BY <2>2, <3>1 DEF CallRows
      <3> QED BY <2>1, <2>2, <2>3, <3>1, <3>2, SameCounters
    <2>4. CASE calls[d][k].status # "running"
      BY <2>1, <2>2, <2>4
    <2> QED BY <2>3, <2>4
  <1> QED BY <1>1 DEF RowsCounted, RowCounted

LEMMA IdleCounted ==
  ASSUME IInv, Counted, NEW d \in Commands, lock # d, cmd'[d] = cmd[d]
  PROVE  CallCounted(d)'
  <1>1. cmd[d].pc \notin Calling
    BY CountedFacts DEF IInv, CommandSound, LockSound, Locked, Calling, Points
  <1> QED BY <1>1, CountedFacts DEF CallCounted, Calling

LEMMA SweepCounted ==
  ASSUME IInv, Counted, NEW c \in Commands, Sweep(c), ReconcileAbandoned, Goto(c, "plan")
  PROVE  Counted'
  <1>1. Became(c, [cmd[c] EXCEPT !.pc = "plan"])
    BY CountedFacts, GotoFacts DEF Goto, Points
  <1>2. /\ cmd'[c].pc = "plan" /\ cmd'[c].round = cmd[c].round
        /\ cmd'[c].attempt = cmd[c].attempt
    BY <1>1, CountedFacts DEF Became, Memory
  <1>3. cmd[c].pc = "sweep" /\ lock = c
    BY DEF Sweep, At, IInv, CommandSound, LockSound, Locked, Points
  <1>4. CallCounted(c)'
    BY <1>2, <1>3, CountedFacts DEF CallCounted, Calling, Early
  <1>5. \A d \in Commands \ {c} : CallCounted(d)'
    BY <1>1, <1>3, IdleCounted DEF Became
  <1> QED BY <1>4, <1>5, SweptCounted DEF Counted

LEMMA CountedInductive == IInv /\ Counted /\ [Next]_vars => Counted'
  <1> SUFFICES ASSUME IInv, Counted, [Next]_vars PROVE Counted'
    OBVIOUS
  <1>1. CASE UNCHANGED vars
    BY <1>1 DEF vars, Counted, RowsCounted, CallCounted, Call
  <1>2. CASE OtherWriter
    <2>1. \A d \in Commands : lock # d
      BY <1>2, NoRunAssumption DEF OtherWriter
    <2>2. \A d \in Commands : CallCounted(d)'
      BY <1>2, <2>1, IdleCounted DEF OtherWriter
    <2> QED BY <1>2, <2>2, SweptCounted DEF OtherWriter, Counted
  <1>3. ASSUME NEW c \in Commands, Start(c) \/ Step(c) \/ Interrupt(c) \/ Kill(c), Next
        PROVE  Counted'
    <2>1. CASE Sweep(c) /\ ReconcileAbandoned /\ Goto(c, "plan")
      BY <2>1, SweepCounted
    <2>2. CASE ~ (Sweep(c) /\ ReconcileAbandoned /\ Goto(c, "plan"))
      <3>1. \A d \in Commands \ {c} : cmd'[d] = cmd[d] /\ calls'[d] = calls[d]
        <4>1. CASE Local(c)
          BY <4>1 DEF Local
        <4>2. CASE Raises(c)
          BY <4>2, RaisesLocal DEF Local
        <4>3. CASE Plan(c) \/ CompleteEmpty(c) \/ Swap(c)
          <5>1. calls' = calls
            BY <4>3 DEF Plan, CompleteEmpty, Swap, Raises, Rows
          <5>2. \A d \in Commands \ {c} : cmd'[d] = cmd[d]
            BY <4>3, CountedFacts DEF Plan, CompleteEmpty, Swap, Raises, End, Goto, TypeOK
          <5> QED BY <5>1, <5>2
        <4> QED BY <1>3, <2>2, <4>1, <4>2, <4>3, StepsAreLocal DEF Sweep
      <3>2. \A d \in Commands \ {c} : RowsCounted(d)' /\ CallCounted(d)'
        BY <3>1, CountedFacts, RowsSame DEF CallCounted, Call
      <3>3. RowsCounted(c)' /\ CallCounted(c)'
        <4>1. Sweep(c) => Raises(c)
          BY <2>2 DEF Sweep
        <4> QED
          BY <1>3, <4>1, RaisesCounted, EnterRoundsCounted, CreateRowsCounted, AttemptCounted,
             CountTransportCounted, CountSchemaCounted, CompleteCallCounted, StageCounted,
             CancelCallCounted DEF Step
      <3> QED BY <3>2, <3>3 DEF Counted
    <2> QED BY <2>1, <2>2
  <1> QED BY <1>1, <1>2, <1>3 DEF Next

(* The counters of a call tell its attempts, whatever crash or failed      *)
(* transaction cut it short, and the budget bounds both rounds together.   *)
THEOREM AttemptsAccountedHolds == Spec => []AttemptsAccounted
  <1>1. Init => Counted
    <2> SUFFICES ASSUME Init PROVE Counted
      OBVIOUS
    <2>1. \A c \in Commands : cmd[c].pc = "idle" /\ cmd[c].round = 0 /\ cmd[c].attempt = 0
      BY DEF Init, Fresh
    <2>2. \A c \in Commands, k \in CallIndexes : calls[c][k] = NoCall
      BY DEF Init
    <2>3. RowCounted(NoCall)
      BY BoundsAssumption DEF RowCounted, NoCall
    <2>4. \A c \in Commands : RowsCounted(c)
      BY <2>2, <2>3 DEF RowsCounted
    <2>5. \A c \in Commands : CallCounted(c)
      BY <2>1 DEF CallCounted, Calling
    <2> QED BY <2>4, <2>5 DEF Counted
  <1>2. Counted => AttemptsAccounted
    BY DEF Counted, RowsCounted, RowCounted, AttemptsAccounted
  <1> QED BY <1>1, <1>2, CountedInductive, Invariant, PTL DEF Spec
=============================================================================
