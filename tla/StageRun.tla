------------------------------- MODULE StageRun -------------------------------
(***************************************************************************)
(* Complete stages as pipeline/orchestration.py and llm/adapter.py run     *)
(* them: each command takes the writer lock, closes the telemetry rows of  *)
(* dead commands, invokes the planned calls one after the other with       *)
(* transport and schema retries, and swaps the business rows in a single   *)
(* transaction. A transaction may raise anywhere, the owner may interrupt  *)
(* or kill a command between any two of its steps.                         *)
(***************************************************************************)
EXTENDS Naturals, FiniteSets

CONSTANTS Commands,     \* stage commands; each owns the run of its name
          NoRun,        \* no run, and nobody
          MaxCalls,     \* bound on the calls one stage plans
          AttemptCap    \* transport_attempt_cap of the call budgets

ASSUME NoRunAssumption == NoRun \notin Commands
ASSUME BoundsAssumption == MaxCalls \in Nat \ {0} /\ AttemptCap \in Nat \ {0}

VARIABLES lock,         \* the command holding the writer lock, or NoRun
          runs,         \* processing_runs
          calls,        \* llm_calls; their field `sent` is a history variable:
                        \* the physical attempts really made
          generation,   \* the run whose business rows are current, or NoRun
          published,    \* generations with a managed set on the file system
          cmd           \* the commands

vars == <<lock, runs, calls, generation, published, cmd>>

-----------------------------------------------------------------------------

Generations == Commands \cup {NoRun}
CallIndexes == 1 .. MaxCalls

Codes == {"none", "transport_timeout", "cancelled", "other"}

RunRows == [status : {"absent", "running", "completed", "failed"}, code : Codes]

CallRows == [status : {"absent", "running", "completed", "failed"},
             transport : Nat, schema : Nat, sent : Nat]

Points == {"idle", "wait", "sweep", "plan", "empty", "create", "enter",
           "attempt", "sent", "retry", "backoff", "validate", "schema",
           "complete", "business", "returned", "commit", "swap", "cleanup",
           "undo", "cancel_call", "cancel_run", "withdraw", "over", "dead"}

(* Commands in memory: where it is, the calls planned, the current one,    *)
(* its validation round and physical attempts in it, the generation read   *)
(* for the plan, the stale sets in the residual sink, and how it ended.    *)
Memory == [pc : Points, planned : 0 .. MaxCalls, call : CallIndexes,
           round : {0, 1}, attempt : 0 .. AttemptCap, basis : Generations,
           report : SUBSET Generations,
           out : {"none", "ok", "busy", "failed", "cancelled", "interrupted"}]

TypeOK == /\ lock \in Generations
          /\ runs \in [Commands -> RunRows]
          /\ calls \in [Commands -> [CallIndexes -> CallRows]]
          /\ generation \in Generations
          /\ published \in SUBSET Commands
          /\ cmd \in [Commands -> Memory]

NoRow  == [status |-> "absent", code |-> "none"]
NoCall == [status |-> "absent", transport |-> 0, schema |-> 0, sent |-> 0]
Fresh  == [pc |-> "idle", planned |-> 0, call |-> 1, round |-> 0, attempt |-> 0,
           basis |-> NoRun, report |-> {}, out |-> "none"]

Init == /\ lock = NoRun
        /\ runs = [c \in Commands |-> NoRow]
        /\ calls = [c \in Commands |-> [k \in CallIndexes |-> NoCall]]
        /\ generation = NoRun
        /\ published = {}
        /\ cmd = [c \in Commands |-> Fresh]

-----------------------------------------------------------------------------

At(c, pc) == cmd[c].pc = pc

Rows     == <<runs, calls>>
Business == <<generation, published>>

Goto(c, pc) == cmd' = [cmd EXCEPT ![c].pc = pc] /\ UNCHANGED lock

(* What is left of a command that ended: what it planned and read, for the *)
(* properties, its answer and the stale sets that answer reports.          *)
Remains(c, pc, out, report) ==
  [pc |-> pc, planned |-> cmd[c].planned, call |-> 1, round |-> 0, attempt |-> 0,
   basis |-> cmd[c].basis, report |-> report, out |-> out]

(* The command leaves writer_database: its answer is given, the lock free. *)
End(c, out) == /\ cmd' = [cmd EXCEPT ![c] = Remains(c, "over", out, @.report)]
               /\ lock' = NoRun

Call(c) == calls[c][cmd[c].call]

SetCall(c, row) == calls' = [calls EXCEPT ![c][cmd[c].call] = row]
SetRun(c, status, code) ==
  runs' = [runs EXCEPT ![c] = [status |-> status, code |-> code]]

(* A step whose only effect is that a transaction or a check raised: the   *)
(* error leaves the command as it is.                                      *)
Raises(c) == End(c, "failed") /\ UNCHANGED <<Rows, Business>>

-----------------------------------------------------------------------------
(* Taking the lock, and rule 8 for what dead commands left.                *)

Start(c) == At(c, "idle") /\ Goto(c, "wait") /\ UNCHANGED <<Rows, Business>>

(* Mutant: the lock is shared.                                             *)
AcquireShared(c) ==
  /\ At(c, "wait")
  /\ cmd' = [cmd EXCEPT ![c].pc = "sweep"]
  /\ lock' = c
  /\ UNCHANGED <<Rows, Business>>

Acquire(c) == /\ At(c, "wait")
              /\ lock = NoRun
              /\ cmd' = [cmd EXCEPT ![c].pc = "sweep"]
              /\ lock' = c
              /\ UNCHANGED <<Rows, Business>>

(* WorkspaceBusyError: the timeout passed with the lock held elsewhere.    *)
Busy(c) == /\ At(c, "wait")
           /\ lock # NoRun
           /\ cmd' = [cmd EXCEPT ![c] = Remains(c, "over", "busy", {})]
           /\ UNCHANGED <<lock, Rows, Business>>

(* Mutant: abandoned calls are closed, their runs are not.                 *)
AbandonedCallsOnly ==
  /\ calls' = [c \in Commands |-> [k \in CallIndexes |->
                IF calls[c][k].status = "running"
                  THEN [calls[c][k] EXCEPT !.status = "failed"]
                  ELSE calls[c][k]]]
  /\ UNCHANGED runs

(* reconcile_abandoned_telemetry: every nonterminal row, whoever owns it.  *)
ReconcileAbandoned ==
  /\ runs' = [c \in Commands |->
                IF runs[c].status = "running"
                  THEN [status |-> "failed", code |-> "cancelled"] ELSE runs[c]]
  /\ calls' = [c \in Commands |-> [k \in CallIndexes |->
                IF calls[c][k].status = "running"
                  THEN [calls[c][k] EXCEPT !.status = "failed"]
                  ELSE calls[c][k]]]

Sweep(c) == /\ At(c, "sweep")
            /\ \/ ReconcileAbandoned /\ Goto(c, "plan") /\ UNCHANGED Business
               \/ Raises(c)

(* The stage reads the current rows and plans its calls from them.         *)
Plan(c) ==
  /\ At(c, "plan")
  /\ \/ \E n \in 0 .. MaxCalls :
          /\ cmd' = [cmd EXCEPT ![c].pc = IF n = 0 THEN "empty" ELSE "create",
                                ![c].planned = n, ![c].basis = generation]
          /\ UNCHANGED <<lock, Rows, Business>>
     \/ Raises(c)

(* No call: the run is created and completed by one transaction.           *)
CompleteEmpty(c) ==
  /\ At(c, "empty")
  /\ \/ /\ SetRun(c, "completed", "none")
        /\ Goto(c, "cleanup")
        /\ UNCHANGED <<calls, Business>>
     \/ Raises(c)

-----------------------------------------------------------------------------
(* invoke_contract.                                                        *)

(* The first call creates the run, a later one requires it still running.  *)
CreateRows(c) ==
  /\ At(c, "create")
  /\ \/ /\ cmd[c].call > 1 => runs[c].status = "running"
        /\ SetRun(c, "running", "none")
        /\ SetCall(c, [NoCall EXCEPT !.status = "running"])
        /\ Goto(c, "enter")
        /\ UNCHANGED Business
     \/ Raises(c)

(* fail(): call and run become failed together, unless that transaction    *)
(* raises too: then both stay open for the next writer.                    *)
Fail(c, code) ==
  \/ /\ SetCall(c, [Call(c) EXCEPT !.status = "failed"])
     /\ SetRun(c, "failed", code)
     /\ End(c, IF code = "cancelled" THEN "cancelled" ELSE "failed")
     /\ UNCHANGED Business
  \/ Raises(c)

(* The capability check and the first preflight.                           *)
EnterRounds(c) ==
  /\ At(c, "enter")
  /\ \/ Goto(c, "attempt") /\ UNCHANGED <<Rows, Business>>
     \/ \E code \in {"other", "cancelled"} : Fail(c, code)

(* One physical attempt: the deadline and preflight are tested before it.  *)
Attempt(c) ==
  /\ At(c, "attempt")
  /\ \/ /\ SetCall(c, [Call(c) EXCEPT !.sent = @ + 1])
        /\ cmd' = [cmd EXCEPT ![c].pc = "sent", ![c].attempt = @ + 1]
        /\ UNCHANGED <<lock, runs, Business>>
     \/ \E code \in {"transport_timeout", "other"} : Fail(c, code)

(* Mutant: the cap is tested as if this attempt were not made yet.         *)
RetryableOnceMore(c) == cmd[c].attempt <= AttemptCap

Retryable(c) == cmd[c].attempt < AttemptCap

(* The result of the attempt, as classify_failure sees it.                 *)
Answered(c) ==
  /\ At(c, "sent")
  /\ \/ Goto(c, "validate") /\ UNCHANGED <<Rows, Business>>
     \/ Retryable(c) /\ Goto(c, "retry") /\ UNCHANGED <<Rows, Business>>
     \/ \E code \in {"other", "cancelled", "transport_timeout"} : Fail(c, code)

(* Mutant: the retry is counted once it has been made, with the outcome.   *)
CountTransportLate(c) ==
  /\ At(c, "retry")
  /\ \/ Goto(c, "backoff") /\ UNCHANGED <<Rows, Business>>
     \/ Raises(c)

(* The counter is committed, then the backoff may run into the deadline.   *)
CountTransport(c) ==
  /\ At(c, "retry")
  /\ \/ /\ SetCall(c, [Call(c) EXCEPT !.transport = @ + 1])
        /\ Goto(c, "backoff")
        /\ UNCHANGED <<runs, Business>>
     \/ Raises(c)

Backoff(c) ==
  /\ At(c, "backoff")
  /\ \/ Goto(c, "attempt") /\ UNCHANGED <<Rows, Business>>
     \/ Fail(c, "transport_timeout")

(* One diagnostic-only retry after an invalid answer, none after a second. *)
Validate(c) ==
  /\ At(c, "validate")
  /\ \/ Goto(c, "complete") /\ UNCHANGED <<Rows, Business>>
     \/ cmd[c].round = 0 /\ Goto(c, "schema") /\ UNCHANGED <<Rows, Business>>
     \/ Fail(c, "other")

CountSchema(c) ==
  /\ At(c, "schema")
  /\ \/ /\ SetCall(c, [Call(c) EXCEPT !.schema = @ + 1])
        /\ cmd' = [cmd EXCEPT ![c].pc = "attempt", ![c].round = 1,
                              ![c].attempt = 0]
        /\ UNCHANGED <<lock, runs, Business>>
     \/ Raises(c)

(* The call is completed; the run stays running for the stage to finish.   *)
CompleteCall(c) ==
  /\ At(c, "complete")
  /\ \/ /\ SetCall(c, [Call(c) EXCEPT !.status = "completed"])
        /\ Goto(c, "returned")
        /\ UNCHANGED <<runs, Business>>
     \/ Goto(c, "business") /\ UNCHANGED <<Rows, Business>>

FailBusiness(c) ==
  /\ At(c, "business")
  /\ \/ /\ SetCall(c, [Call(c) EXCEPT !.status = "completed"])
        /\ SetRun(c, "failed", "other")
        /\ End(c, "failed")
        /\ UNCHANGED Business
     \/ Raises(c)

-----------------------------------------------------------------------------
(* run_complete_stage: after each call, and after the last one.            *)

Resolve(c) ==
  /\ At(c, "returned")
  /\ \/ /\ cmd[c].call < cmd[c].planned
        /\ cmd' = [cmd EXCEPT ![c].pc = "create", ![c].call = @ + 1,
                              ![c].round = 0, ![c].attempt = 0]
        /\ UNCHANGED lock
     \/ cmd[c].call = cmd[c].planned /\ Goto(c, "commit")
     \/ Goto(c, "undo")
  /\ UNCHANGED <<Rows, Business>>

(* commit(): inside the transaction, the sets it makes stale are reported. *)
ReportStale(c) ==
  /\ At(c, "commit")
  /\ \/ /\ cmd' = [cmd EXCEPT ![c].pc = "swap",
                              ![c].report = {generation} \cap published]
        /\ UNCHANGED lock
     \/ Goto(c, "undo")
  /\ UNCHANGED <<Rows, Business>>

(* Mutant: the run is finished by a transaction of its own, later.         *)
SwapRowsOnly(c) ==
  /\ At(c, "swap")
  /\ \/ /\ generation' = c
        /\ Goto(c, "cleanup")
        /\ UNCHANGED <<Rows, published>>
     \/ Goto(c, "undo") /\ UNCHANGED <<Rows, Business>>

(* The business replacement and the end of the run commit together.        *)
Swap(c) ==
  /\ At(c, "swap")
  /\ \/ /\ generation' = c
        /\ SetRun(c, "completed", "none")
        /\ Goto(c, "cleanup")
        /\ UNCHANGED <<calls, published>>
     \/ Goto(c, "undo") /\ UNCHANGED <<Rows, Business>>

(* The set of the replaced generation is removed, or stays and is reported.*)
Cleanup(c) ==
  /\ At(c, "cleanup")
  /\ \/ published' = published \ cmd[c].report
     \/ UNCHANGED published
  /\ End(c, "ok")
  /\ UNCHANGED <<Rows, generation>>

FinishIfRunning(c, code) ==
  IF runs[c].status = "running" THEN SetRun(c, "failed", code) ELSE UNCHANGED runs

Leave(c, out) ==
  /\ cmd' = [cmd EXCEPT ![c].pc = "withdraw", ![c].out = out]
  /\ UNCHANGED lock

(* A resolution or the swap raised: the run is failed, or that raises too. *)
Undo(c) == /\ At(c, "undo")
           /\ FinishIfRunning(c, "other") \/ UNCHANGED runs
           /\ Leave(c, "failed")
           /\ UNCHANGED <<calls, Business>>

(* The adapter's handler of an interrupt: best effort on both rows, which  *)
(* fails as a whole when the call row is already terminal.                 *)
CancelCall(c) ==
  /\ At(c, "cancel_call")
  /\ \/ /\ Call(c).status = "running"
        /\ SetCall(c, [Call(c) EXCEPT !.status = "failed"])
        /\ SetRun(c, "failed", "cancelled")
     \/ UNCHANGED Rows
  /\ End(c, "cancelled")
  /\ UNCHANGED Business

(* The stage's handler: best effort on the run row alone.                  *)
CancelRun(c) == /\ At(c, "cancel_run")
                /\ FinishIfRunning(c, "cancelled") \/ UNCHANGED runs
                /\ Leave(c, "cancelled")
                /\ UNCHANGED <<calls, Business>>

(* Mutant: any error withdraws the report.                                 *)
WithdrawAlways(c) ==
  /\ At(c, "withdraw")
  /\ cmd' = [cmd EXCEPT ![c] = Remains(c, "over", @.out, {})]
  /\ lock' = NoRun
  /\ UNCHANGED <<Rows, Business>>

(* withdraw_pending_unless_superseded: the report goes only when a read    *)
(* proves that what was read for the swap is still current.                *)
Withdraw(c) ==
  /\ At(c, "withdraw")
  /\ \E proven \in BOOLEAN :
       /\ proven => generation \in cmd[c].report
       /\ cmd' = [cmd EXCEPT ![c] = Remains(c, "over", @.out,
                                            IF proven THEN {} ELSE @.report)]
  /\ lock' = NoRun
  /\ UNCHANGED <<Rows, Business>>

-----------------------------------------------------------------------------
(* What reaches a command from outside.                                    *)

(* Where KeyboardInterrupt goes: to the adapter's handler inside run_rounds,*)
(* to the stage's handler around it; at "enter" and "returned" either, for *)
(* the row is committed just before the one begins or the other resumes.   *)
Handlers(pc) ==
  CASE pc \in {"attempt", "sent", "retry", "backoff", "validate", "schema",
               "complete", "business"} -> {"cancel_call"}
    [] pc \in {"enter", "returned"} -> {"cancel_call", "cancel_run"}
    [] pc \in {"empty", "create", "commit", "swap", "undo", "cancel_call"} ->
         {"cancel_run"}
    [] pc = "cleanup" -> {"cancel_run", "over"}
    [] pc = "cancel_run" -> {"withdraw"}
    [] pc \in {"wait", "sweep", "plan", "withdraw"} -> {"over"}
    [] OTHER -> {}

Interrupt(c) ==
  /\ \E handler \in Handlers(cmd[c].pc) :
       CASE handler = "over" /\ lock = c -> End(c, "interrupted")
         [] handler = "over" /\ lock # c ->
              /\ cmd' = [cmd EXCEPT ![c].pc = "over", ![c].out = "interrupted"]
              /\ UNCHANGED lock
         [] handler = "withdraw" -> Leave(c, "interrupted")
         [] OTHER -> Goto(c, handler)
  /\ UNCHANGED <<Rows, Business>>

(* Mutant: a lock file that outlives its process.                          *)
KillKeepingLock(c) ==
  /\ cmd[c].pc \notin {"idle", "over", "dead"}
  /\ cmd' = [cmd EXCEPT ![c] = Remains(c, "dead", "none", {})]
  /\ UNCHANGED <<lock, Rows, Business>>

(* The process dies: flock goes with it, an open transaction rolls back.   *)
Kill(c) ==
  /\ cmd[c].pc \notin {"idle", "over", "dead"}
  /\ cmd' = [cmd EXCEPT ![c] = Remains(c, "dead", "none", {})]
  /\ lock' = IF lock = c THEN NoRun ELSE lock
  /\ UNCHANGED <<Rows, Business>>

(* Any other writer command, as one step under the same lock: it closes    *)
(* abandoned rows, then changes nothing, publishes the current generation, *)
(* or retires it, with its managed set or leaving that behind.             *)
OtherWriter ==
  /\ lock = NoRun
  /\ ReconcileAbandoned
  /\ \/ UNCHANGED Business
     \/ /\ generation # NoRun
        /\ published' = published \cup {generation}
        /\ UNCHANGED generation
     \/ /\ generation' = NoRun
        /\ published' \in {published, published \ {generation}}
  /\ UNCHANGED <<lock, cmd>>

-----------------------------------------------------------------------------

Step(c) == \/ Acquire(c) \/ Busy(c) \/ Sweep(c) \/ Plan(c)
           \/ CompleteEmpty(c) \/ CreateRows(c) \/ EnterRounds(c)
           \/ Attempt(c) \/ Answered(c) \/ CountTransport(c) \/ Backoff(c)
           \/ Validate(c) \/ CountSchema(c)
           \/ CompleteCall(c) \/ FailBusiness(c)
           \/ Resolve(c) \/ ReportStale(c) \/ Swap(c) \/ Cleanup(c)
           \/ Undo(c) \/ CancelCall(c) \/ CancelRun(c) \/ Withdraw(c)

Next == \/ \E c \in Commands : Start(c) \/ Step(c) \/ Interrupt(c) \/ Kill(c)
        \/ OtherWriter

Spec == Init /\ [][Next]_vars

(* A running command takes its next step: no step waits for another actor, *)
(* the lock wait and every provider call have a timeout. The owner runs    *)
(* further commands: an assumption about the environment.                  *)
FairSpec == /\ Spec
            /\ \A c \in Commands : WF_vars(Step(c))
            /\ WF_vars(OtherWriter)

-----------------------------------------------------------------------------
(* Properties.                                                             *)

Ended(c) == cmd[c].pc \in {"over", "dead"}

Fate(c) == CASE runs[c].status = "failed" -> "failed"
             [] runs[c].status = "completed" ->
                  IF cmd[c].planned = 0 THEN "empty" ELSE "took"
             [] OTHER -> "open"

Promise == INSTANCE AtomicStage WITH
             generation <- generation,
             basis <- [c \in Commands |-> cmd[c].basis],
             fate <- [c \in Commands |-> Fate(c)]

(* Stages implement the atomic stage: business rows change only with the   *)
(* completion of a run that read exactly the rows it replaces, whatever    *)
(* interrupts, kills, retries and failed transactions came before          *)
(* (run_complete_stage, commit_complete).                                  *)
ImplementsAtomicStage == Promise!Spec

(* Telemetry agrees with itself at every moment: a completed run has only  *)
(* completed calls, a failed call has a failed run, calls are made in      *)
(* order, and none is left open in a run that completed.                   *)
RowsAgree ==
  \A c \in Commands :
    /\ runs[c].status = "absent" => \A k \in CallIndexes : calls[c][k] = NoCall
    /\ runs[c].status = "completed" =>
         \A k \in 1 .. cmd[c].planned : calls[c][k].status = "completed"
    /\ \A k \in CallIndexes :
         calls[c][k].status = "failed" => runs[c].status = "failed"
    /\ \A k \in CallIndexes : \A j \in 1 .. k - 1 :
         calls[c][k].status # "absent" => calls[c][j].status = "completed"

(* The counters tell the attempts: whatever a crash or a failed            *)
(* transaction cut short, at most one attempt beyond the counted retries   *)
(* was made and at most one counted retry was not, a completed call has    *)
(* counted exactly, and the budget bounds both rounds together.            *)
AttemptsAccounted ==
  \A c \in Commands, k \in CallIndexes :
    LET row == calls[c][k]
        retries == row.transport + row.schema
    IN  /\ retries <= row.sent /\ row.sent <= retries + 1
        /\ row.status = "completed" => row.sent = retries + 1
        /\ row.sent <= 2 * AttemptCap /\ row.schema <= 1

(* A command that ends by itself has removed or reported the managed set   *)
(* its committed swap made stale, also when an interrupt arrived between   *)
(* the durable commit and the cleanup.                                     *)
StaleReported ==
  \A c \in Commands :
    At(c, "over") /\ Fate(c) = "took" /\ cmd[c].basis \in published =>
      cmd[c].basis \in cmd[c].report

(* Nobody but the command itself touches the rows of a run whose command   *)
(* is still alive: a sweep never cancels a live invocation.                *)
LiveRowsAreOwn ==
  [][\A c \in Commands :
       (runs'[c] # runs[c] \/ calls'[c] # calls[c]) =>
          lock = c \/ Ended(c)]_vars

(* Every telemetry row that is opened is closed, by its command or, after  *)
(* it died or gave up, by a later writer.                                  *)
RowsClose ==
  \A c \in Commands :
    (\/ runs[c].status = "running"
     \/ \E k \in CallIndexes : calls[c][k].status = "running")
    ~> (/\ runs[c].status # "running"
        /\ \A k \in CallIndexes : calls[c][k].status # "running")

(* Cancellation "finishes the run and any created call row" (spec/15,      *)
(* section 15.10 rule 8): a run recorded as cancelled has no open call.    *)
CancelledRowsClosed ==
  \A c \in Commands : runs[c].code = "cancelled" =>
    \A k \in CallIndexes : calls[c][k].status # "running"

-----------------------------------------------------------------------------
(* The inductive invariant of the proofs, per command.                     *)

Locked  == Points \ {"idle", "wait", "over", "dead"}
Early   == {"idle", "wait", "sweep", "plan"}
Calling == {"enter", "attempt", "sent", "retry", "backoff", "validate",
            "schema", "complete", "business"}
Working == Calling \cup {"create", "returned", "commit", "swap"}

(* The lock is held exactly by the command inside writer_database.         *)
LockSound(c) == cmd[c].pc \in Locked <=> lock = c

(* RowsAgree, and no open call in a run that is not open or failed.        *)
RowsSound(c) ==
  /\ runs[c].status = "absent" => \A k \in CallIndexes : calls[c][k] = NoCall
  /\ runs[c].status = "completed" =>
       \A k \in CallIndexes : k <= cmd[c].planned => calls[c][k].status = "completed"
  /\ \A k \in CallIndexes :
       /\ calls[c][k].status = "failed" => runs[c].status = "failed"
       /\ calls[c][k].status = "running" => runs[c].status \in {"running", "failed"}
       /\ calls[c][k].status # "absent" =>
            \A j \in CallIndexes : j < k => calls[c][j].status = "completed"

(* What the place of a command says of its own memory.                     *)
MemorySound(c) ==
  LET m == cmd[c] IN
  /\ m.pc \in Early => m.call = 1 /\ m.basis = NoRun /\ m.report = {}
  /\ m.pc \in Early \cup {"empty", "create", "enter", "attempt", "retry", "backoff"} =>
       m.attempt < AttemptCap
  /\ m.pc = "empty" => m.planned = 0
  /\ m.pc \in Working => m.call <= m.planned
  /\ m.pc \in {"commit", "swap"} => m.call = m.planned
  /\ m.report \subseteq {m.basis}

(* What it says of its rows.                                               *)
ProgressSound(c) ==
  LET m == cmd[c] IN
  /\ m.pc \in Early \cup {"empty"} => runs[c].status = "absent"
  /\ m.pc = "create" =>
       /\ runs[c].status = IF m.call = 1 THEN "absent" ELSE "running"
       /\ calls[c][m.call].status = "absent"
  /\ m.pc \in Calling => calls[c][m.call].status = "running"
  /\ m.pc \in Calling \cup {"returned", "commit", "swap", "undo", "cancel_call"} =>
       runs[c].status = "running"
  /\ m.pc \in {"returned", "commit", "swap"} => calls[c][m.call].status = "completed"
  /\ m.pc \in Working => \A k \in CallIndexes :
       /\ k < m.call => calls[c][k].status = "completed"
       /\ k > m.call => calls[c][k].status = "absent"

Took(c) == runs[c].status = "completed" /\ cmd[c].planned # 0

(* What it says of the business rows: nobody replaces those it has read    *)
(* before it does, and rows once replaced never become current again.      *)
BasisSound(c) ==
  /\ cmd[c].pc \in Working => cmd[c].basis = generation
  /\ cmd[c].basis # NoRun => runs[cmd[c].basis].status = "completed"
  /\ Took(c) /\ cmd[c].basis # NoRun => cmd[c].basis # generation

ReportSound(c) ==
  cmd[c].pc = "swap" \/ (Took(c) /\ cmd[c].pc # "dead") =>
    (cmd[c].basis \in published => cmd[c].basis \in cmd[c].report)

CommandSound(c) == /\ LockSound(c) /\ RowsSound(c) /\ MemorySound(c)
                   /\ ProgressSound(c) /\ BasisSound(c) /\ ReportSound(c)

IInv == /\ TypeOK
        /\ generation # NoRun => runs[generation].status = "completed"
        /\ \A c \in Commands : CommandSound(c)

=============================================================================
