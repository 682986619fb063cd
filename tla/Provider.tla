-------------------------------- MODULE Provider --------------------------------
(***************************************************************************)
(* One call of a stage to its provider, from the refusals that send        *)
(* nothing to the class of each attempt's result (llm/adapter.py,          *)
(* runner.py, codex.py, claude.py, sandbox.py, preflight.py, config.py).   *)
(* Each attempt is a private directory and a process group: a leader in a  *)
(* session of its own, and the sandbox's child, which leaves the group for *)
(* a namespace that dies with the leader. The runtime may end in any way,  *)
(* or never; the owner may interrupt at any step. StageRun has the rows    *)
(* that record the call, and takes the class of an attempt as given.       *)
(***************************************************************************)
EXTENDS Sources

CONSTANTS
  Answers,        \* how a runtime may end by itself
  Silence,        \* a runtime that was killed left nothing to go by
  AttemptCap,     \* transport_attempt_cap
  MaxInterrupts   \* interrupts by the owner in one behaviour

ASSUME AttemptsAssumption == AttemptCap \in Nat \ {0} /\ MaxInterrupts \in Nat

\* A runtime that was killed did not exit 0.
ASSUME SilenceAssumption == Silence.end # "exit 0"

VARIABLES
  setting,        \* the configuration, the host and the prompt of the call
  call,           \* where the call stands
  group,          \* the processes of the attempt
  directory,      \* its contract workspace, and whether an earlier one stayed
  late,           \* the deadline of the invocation has passed
  interrupts      \* what is left of MaxInterrupts

providerVars == <<setting, call, group, directory, late, interrupts>>

(***************************************************************************)
(* What is refused before anything leaves                                  *)
(***************************************************************************)

\* A check fails if one of its defects is there.
Fails(defects, present, code) == <<defects \intersect present # {}, code>>

\* load_workspace_config: the file and the sections beside the selection.
FileChecks(present) ==
  << Fails({"unreadable", "credential", "section", "timezone", "ignore pattern"}, present,
           "configuration_invalid"),
     Fails({"unknown key"}, present, "llm_config_key_unknown"),
     Fails({"executable path", "effort undeclared"}, present, "configuration_invalid") >>

\* resolve_selection: both keys or neither, and a registered adapter.
SelectionChecks(present) ==
  << Fails({"half a selection"}, present, "llm_selection_missing"),
     Fails({"adapter"}, present, "llm_adapter_unknown"),
     Fails({"openai-compat"}, present, "llm_adapter_not_registered"),
     Fails({"model"}, present, "llm_model_invalid") >>

\* What is checked behind the selection, and build_llm_execution, which needs one.
ConfigVerdict(present) ==
  FirstOf(FileChecks(present) \o SelectionChecks(present)
            \o << Fails({"environment name", "number"}, present, "configuration_invalid"),
                  Fails({"no selection"}, present, "llm_selection_missing") >>, "")

\* One token for three bytes, rounded up.
Tokens(bytes) == (bytes + 2) \div 3

\* What build_llm_execution asks of a call: the whole output budget is planned,
\* and the context is the two budgets together.
CallBudgets(limits) ==
  [bytes |-> limits.bytes, input |-> limits.input, output |-> limits.output,
   planned |-> limits.output, model_output |-> limits.output,
   context |-> limits.input + limits.output, calls |-> 1, ceiling |-> limits.ceiling]

\* preflight_call: sizes first, then secrets.  No adapter declares a price.
PreflightVerdict(prompt, budgets) ==
  LET tokens == Tokens(prompt.bytes)
  IN FirstOf(<< <<prompt.bytes > budgets.bytes, "budget_exceeded">>,
                <<tokens > budgets.input, "budget_exceeded">>,
                <<budgets.planned > budgets.output, "budget_exceeded">>,
                <<budgets.planned > budgets.model_output, "context_overflow">>,
                <<tokens + budgets.planned > budgets.context, "context_overflow">>,
                <<budgets.calls > budgets.ceiling, "budget_exceeded">>,
                <<prompt.secret, "credential_detected">> >>, "")

\* An executable that cannot be run: Codex's launcher names its native file,
\* Claude's must be the native file.
CodexUnusable == {"no executable"}
ClaudeUnusable == {"no executable", "launcher"}

\* A session's home that cannot be used: Claude's has a place of its own when
\* its variable is not set.
CodexHomeless == {"home unset", "no home"}
ClaudeHomeless == {"no home"}

Unconfined == {"no bwrap", "no namespaces", "canary read"}

\* build_runner and preflight_adapter: the executable before the session's
\* home, the version, the sandbox and its canary, and the session's file last.
HostChecks(unusable, homeless, present) ==
  << Fails({"effort unsupported"} \union unusable, present, "capability_mismatch"),
     Fails(homeless, present, "transport_auth_failed"),
     Fails({"no version", "version untested"} \union Unconfined, present, "capability_mismatch"),
     Fails({"no session"}, present, "transport_auth_failed") >>

CodexHost(present) == FirstOf(HostChecks(CodexUnusable, CodexHomeless, present), "")
ClaudeHost(present) == FirstOf(HostChecks(ClaudeUnusable, ClaudeHomeless, present), "")

HostVerdict(present) ==
  IF setting.adapter = "codex-cli" THEN CodexHost(present) ELSE ClaudeHost(present)

(***************************************************************************)
(* The class of a result                                                   *)
(***************************************************************************)

Class(code, retry) == [code |-> code, retry |-> retry]
Accepted == Class("", FALSE)

\* Claude's envelope reports a status; 0 stands for none.
StatusClass(status) ==
  CASE status = 408 -> Class("transport_timeout", TRUE)
    [] status = 429 -> Class("transport_rate_limited", TRUE)
    [] status \in {401, 403} -> Class("transport_auth_failed", FALSE)
    [] status \in 500 .. 599 -> Class("transport_provider_error", TRUE)
    [] status = 404 -> Class("transport_model_unavailable", FALSE)
    [] status \in {400, 422} -> Class("transport_request_rejected", FALSE)
    [] status \in (400 .. 499) \ {400, 401, 403, 404, 408, 422, 429} ->
         Class("transport_provider_error", FALSE)
    [] OTHER -> Accepted

\* What an error channel names, in the order an adapter looks for it.
MarkerClass(marker) ==
  CASE marker = "timeout" -> Class("transport_timeout", TRUE)
    [] marker = "rate" -> Class("transport_rate_limited", TRUE)
    [] marker = "auth" -> Class("transport_auth_failed", FALSE)
    [] marker = "lost" -> Class("transport_lost_response", TRUE)
    [] marker = "outage" -> Class("transport_provider_error", TRUE)

Marked(markers, channel) ==
  FirstOf([i \in DOMAIN markers |-> <<markers[i] \in channel, MarkerClass(markers[i])>>],
          Class("transport_provider_error", FALSE))

ClassifyCodex(r) ==
  FirstOf(<< <<r.end = "cancelled", Class("cancelled", FALSE)>>,
             <<r.end = "timed out", Class("transport_timeout", TRUE)>>,
             <<r.end = "exit 0" /\ r.final # "", Accepted>> >>,
          Marked(<<"timeout", "rate", "auth", "lost", "outage">>, r.channel))

ClassifyClaude(r) ==
  FirstOf(<< <<r.end = "timed out", Class("transport_timeout", TRUE)>>,
             <<r.end = "cancelled", Class("cancelled", FALSE)>>,
             <<StatusClass(r.status).code # "", StatusClass(r.status)>>,
             <<r.end = "exit 0" /\ r.final # "", Accepted>> >>,
          Marked(<<"auth", "rate", "timeout", "lost", "outage">>, r.channel))

Classify(r) == IF setting.adapter = "codex-cli" THEN ClassifyCodex(r) ELSE ClassifyClaude(r)

(***************************************************************************)
(* The result of an attempt                                                *)
(***************************************************************************)

\* What an OSError anywhere in an attempt is taken for.
ConnectionFailure == [end |-> "none", final |-> "", status |-> 0, channel |-> {"outage"}]

\* Codex's final message is the file of a run that exited 0.
CodexFinal(a) == IF a.file = "none" THEN "" ELSE IF a.file = "valid" THEN "valid" ELSE "invalid"

\* Mutant: the envelope's own structured output is not compared.
ClaudeFinalUncompared(a) == IF a.file \in {"valid", "invalid"} /\ ~ a.error THEN a.file ELSE ""

\* Claude's is the result its envelope carries, if it is no error and agrees
\* with the structured output beside it.
ClaudeFinal(a) == IF a.file \in {"valid", "invalid"} /\ ~ a.error /\ a.agrees THEN a.file ELSE ""

\* What is read of an attempt whose processes are gone.
Outcome(end, a) ==
  LET claude == setting.adapter = "claude-agent-sdk"
      final == IF end # "exit 0" THEN ""
               ELSE IF claude THEN ClaudeFinal(a) ELSE CodexFinal(a)
  IN [end |-> end, final |-> final,
      status |-> IF claude /\ a.file \notin {"none", "torn"} THEN a.status ELSE 0,
      channel |-> IF claude /\ final # "" THEN {} ELSE a.channel]

(***************************************************************************)
(* The call                                                                *)
(***************************************************************************)

At(pc) == call.pc = pc
Moves(pc) == call' = [call EXCEPT !.pc = pc]
Ends(code) == call' = [call EXCEPT !.pc = "over", !.code = code]
Results(r) == call' = [call EXCEPT !.pc = "cleanup", !.result = r]
Raises(code) == call' = [call EXCEPT !.pc = "cleanup", !.raised = code]

NewCall == [pc |-> "load", code |-> "", built |-> FALSE, attempt |-> 0, round |-> 0,
            result |-> ConnectionFailure, raised |-> "", struck |-> FALSE]

Nobody == [leader |-> "none", child |-> "none", answer |-> Silence]

\* build_llm_execution.
Loads ==
  /\ At("load")
  /\ LET verdict == ConfigVerdict(setting.defects)
     IN IF verdict = "" THEN Moves("assemble") ELSE Ends(verdict)
  /\ UNCHANGED <<setting, group, directory, late, interrupts>>

\* invoke_contract: the prompt carries every stored locator.
Assembles ==
  /\ At("assemble")
  /\ IF \A locator \in stored : Reauthorized(locator) THEN Moves("preflight")
     ELSE Ends("locator_reauthorization_failed")
  /\ UNCHANGED <<setting, group, directory, late, interrupts>>

\* The deadline counts from here.
Preflights ==
  /\ At("preflight")
  /\ LET verdict == PreflightVerdict(setting.prompt, CallBudgets(setting.limits))
     IN IF verdict = "" THEN Moves("attempt") ELSE Ends(verdict)
  /\ UNCHANGED <<setting, group, directory, late, interrupts>>

\* LazyPreflightRunner: the first attempt builds the runner.
Attempts ==
  /\ At("attempt")
  /\ LET fault == HostVerdict(setting.host)
     IN IF late THEN Ends("transport_timeout")
        ELSE IF ~ call.built /\ fault # "" THEN Ends(fault)
        ELSE call' = [call EXCEPT !.pc = "make", !.built = TRUE]
  /\ UNCHANGED <<setting, group, directory, late, interrupts>>

Makes ==
  /\ At("make")
  /\ \E made \in BOOLEAN :
       /\ directory' = [made |-> made, left |-> directory.left \/ directory.made]
       /\ call' = IF made THEN [call EXCEPT !.pc = "made"]
                  ELSE [call EXCEPT !.pc = "classify", !.result = ConnectionFailure]
  /\ group' = Nobody
  /\ UNCHANGED <<setting, late, interrupts>>

\* The mode is restricted before the try that removes the directory.
Restricts ==
  /\ At("made")
  /\ Moves("write") \/ call' = [call EXCEPT !.pc = "classify", !.result = ConnectionFailure]
  /\ UNCHANGED <<setting, group, directory, late, interrupts>>

\* The input, the schema, the diagnostics of the round before, and a proxy
\* without credentials.
Writes ==
  /\ At("write")
  /\ IF "proxy" \in setting.host THEN Raises("credential_detected")
     ELSE Moves("spawn") \/ Results(ConnectionFailure)
  /\ UNCHANGED <<setting, group, directory, late, interrupts>>

Spawns ==
  /\ At("spawn")
  /\ \/ /\ Moves("spawned")
        /\ group' = [Nobody EXCEPT !.leader = "runs", !.child = "group"]
     \/ Results(ConnectionFailure) /\ UNCHANGED group
  /\ UNCHANGED <<setting, directory, late, interrupts>>

Listens ==
  /\ At("spawned") /\ Moves("communicate")
  /\ UNCHANGED <<setting, group, directory, late, interrupts>>

\* Mutant: the error channel is not waited for.
QuietLeader == group.leader = "ended"

\* The leader has ended and nobody holds the error channel.
Quiet == group.leader = "ended" /\ group.child = "none"

Stopped(end) == call' = [call EXCEPT !.pc = "terminate", !.result.end = end]

Communicates ==
  /\ At("communicate")
  /\ \/ /\ Quiet
        /\ call' = [call EXCEPT !.pc = "read", !.result.end = group.answer.end]
     \/ late /\ Stopped("timed out")
  /\ UNCHANGED <<setting, group, directory, late, interrupts>>

\* _terminate_process_group: TERM, a grace period, KILL.
Terminates ==
  /\ At("terminate") /\ Moves("grace")
  /\ UNCHANGED <<setting, group, directory, late, interrupts>>

\* Mutant: a leader that ended in the grace period shields its group.
KilledLeader == IF group.leader = "runs" THEN [group EXCEPT !.leader = "ended", !.answer = Silence]
                ELSE group

Killed == [leader |-> "ended", child |-> IF group.child = "group" THEN "none" ELSE group.child,
           answer |-> IF group.leader = "runs" THEN Silence ELSE group.answer]

Kills ==
  /\ At("grace") /\ Moves("drain")
  /\ group' = Killed
  /\ UNCHANGED <<setting, directory, late, interrupts>>

Drains ==
  /\ At("drain") /\ Quiet /\ Moves("read")
  /\ UNCHANGED <<setting, group, directory, late, interrupts>>

Collects ==
  /\ At("read") /\ Results(Outcome(call.result.end, group.answer))
  /\ UNCHANGED <<setting, group, directory, late, interrupts>>

\* shutil.rmtree in the finally: its OSError replaces the result, or what was
\* being raised.
Cleans ==
  /\ At("cleanup")
  /\ directory' = [directory EXCEPT !.made = FALSE]
  /\ IF call.raised # "" THEN Ends(call.raised) ELSE Moves("classify")
  /\ UNCHANGED <<setting, group, late, interrupts>>

\* Mutant: rmtree is told to ignore its errors.
CleaningIgnored ==
  /\ At("cleanup")
  /\ IF call.raised # "" THEN Ends(call.raised) ELSE Moves("classify")
  /\ UNCHANGED <<setting, group, directory, late, interrupts>>

CleaningFails ==
  /\ At("cleanup")
  /\ call' = [call EXCEPT !.pc = "classify", !.result = ConnectionFailure, !.raised = ""]
  /\ UNCHANGED <<setting, group, directory, late, interrupts>>

Decides ==
  /\ At("classify")
  /\ LET class == Classify(call.result)
     IN IF class.code = "" THEN Moves("validate")
        ELSE IF class.retry /\ call.attempt + 1 < AttemptCap THEN Moves("backoff")
        ELSE Ends(class.code)
  /\ UNCHANGED <<setting, group, directory, late, interrupts>>

\* The delay must end before the deadline.
BacksOff ==
  /\ At("backoff")
  /\ \/ ~ late /\ call' = [call EXCEPT !.pc = "attempt", !.attempt = @ + 1]
     \/ Ends("transport_timeout")
  /\ UNCHANGED <<setting, group, directory, late, interrupts>>

\* The contract's verdict; a second invalid answer ends the call, and so does
\* an error of the enrichment that runs between parsing and the verdict.
Validates ==
  /\ At("validate")
  /\ \/ CASE call.result.final = "valid" -> Moves("commit")
            [] call.result.final # "valid" /\ call.round = 1 -> Ends("response_validation_failed")
            [] OTHER -> call' = [call EXCEPT !.pc = "attempt", !.attempt = 0, !.round = 1]
     \/ Ends("deterministic_enrichment_failed")
  /\ UNCHANGED <<setting, group, directory, late, interrupts>>

\* The transaction that completes the call; StageRun has what it writes.
Commits ==
  /\ At("commit")
  /\ Ends("") \/ Ends("business_commit_failed")
  /\ UNCHANGED <<setting, group, directory, late, interrupts>>

CallStep ==
  Loads \/ Assembles \/ Preflights \/ Attempts \/ Makes \/ Restricts \/ Writes \/ Spawns
    \/ Listens \/ Communicates \/ Terminates \/ Kills \/ Drains \/ Collects \/ Cleans
    \/ CleaningFails \/ Decides \/ BacksOff \/ Validates \/ Commits

\* SIGINT: caught while the runtime is awaited, and raised everywhere else,
\* through the removal of the directory where its try has begun.  Before the
\* try, and in the removal itself, the directory stays.
Tried == {"write", "spawn", "spawned", "terminate", "grace", "drain", "read"}

Interrupt ==
  /\ interrupts > 0 /\ call.pc \notin {"load", "over"}
  /\ interrupts' = interrupts - 1
  /\ CASE At("communicate") -> Stopped("cancelled")
       [] call.pc \in Tried ->
            call' = [call EXCEPT !.pc = "cleanup", !.raised = "cancelled",
                                 !.struck = @ \/ group.leader = "runs" \/ group.child # "none"]
       [] OTHER -> call' = [call EXCEPT !.pc = "over", !.code = "cancelled"]
  /\ UNCHANGED <<setting, group, directory, late>>

(***************************************************************************)
(* The processes and the clock                                             *)
(***************************************************************************)

\* The sandbox is up: its child has a session and dies with the leader.
ChildSettles ==
  /\ group.leader = "runs" /\ group.child = "group"
  /\ group' = [group EXCEPT !.child = "session"]
  /\ UNCHANGED <<setting, call, directory, late, interrupts>>

\* Ended by itself, or on TERM; a sandbox that failed to come up says nothing.
RuntimeEnds ==
  /\ group.leader = "runs"
  /\ \E answer \in Answers :
       /\ group.child = "group" => answer.file = "none" /\ answer.end # "exit 0"
       /\ group' = [group EXCEPT !.leader = "ended", !.answer = answer]
  /\ UNCHANGED <<setting, call, directory, late, interrupts>>

ChildEnds ==
  /\ group.child = "group"
  /\ group' = [group EXCEPT !.child = "none"]
  /\ UNCHANGED <<setting, call, directory, late, interrupts>>

\* The kernel ends the namespace with its leader.
NamespaceEnds ==
  /\ group.leader = "ended" /\ group.child = "session"
  /\ group' = [group EXCEPT !.child = "none"]
  /\ UNCHANGED <<setting, call, directory, late, interrupts>>

DeadlinePasses ==
  /\ ~ late /\ call.pc \notin {"load", "assemble", "preflight", "over"}
  /\ late' = TRUE
  /\ UNCHANGED <<setting, call, group, directory, interrupts>>

WorldStep == ChildSettles \/ RuntimeEnds \/ ChildEnds \/ NamespaceEnds \/ DeadlinePasses

ProviderInit(settings) ==
  /\ setting \in settings
  /\ call = NewCall
  /\ group = Nobody
  /\ directory = [made |-> FALSE, left |-> FALSE]
  /\ late = FALSE
  /\ interrupts = MaxInterrupts

ProviderStep == (CallStep \/ Interrupt \/ WorldStep) /\ UNCHANGED sourceVars

\* Each command runs by itself.  A capture and an import load the patterns
\* once, a call loads them again when it assembles its prompt.
ProviderNext ==
  \/ SourceStep /\ UNCHANGED providerVars
  \/ /\ OwnerEdits(capture.pc \in {"idle", "over"} /\ import.pc \in {"start", "over"})
     /\ UNCHANGED providerVars
  \/ capture.pc = "over" /\ import.pc = "over" /\ ProviderStep

\* The command goes on, the kernel ends a namespace, time passes.  Nothing is
\* asked of the runtime, of its child in the group, or of the owner.
ProviderFairness ==
  /\ WF_<<sourceVars, providerVars>>(CallStep /\ UNCHANGED sourceVars)
  /\ WF_<<sourceVars, providerVars>>(NamespaceEnds /\ UNCHANGED sourceVars)
  /\ WF_<<sourceVars, providerVars>>(DeadlinePasses /\ UNCHANGED sourceVars)

(***************************************************************************)
(* Properties                                                              *)
(***************************************************************************)

\* An answer to be accepted: of a run that exited 0, valid under the contract,
\* and nowhere contradicted by the envelope it came in.
Sound(answer) ==
  /\ answer.end = "exit 0" /\ answer.file = "valid"
  /\ setting.adapter = "claude-agent-sdk" =>
       ~ answer.error /\ answer.agrees /\ StatusClass(answer.status).code = ""

\* A call succeeds with nothing but a sound answer of a run that ended by
\* itself, and never with what a runtime left that was stopped.  The deadline
\* and a directory that does not go away replace the result; a sound answer
\* that was kept is thrown away only for an interrupt, an error of the local
\* enrichment, or the commit itself (codex.py and claude.py, run_contract and
\* classify; adapter.py, run_rounds).
AcceptedExactly ==
  At("over") =>
    /\ call.code = "" => Sound(group.answer) /\ call.result.end = "exit 0"
    /\ Sound(group.answer) /\ call.result.end = "exit 0" =>
         call.code \in {"", "cancelled", "deterministic_enrichment_failed", "business_commit_failed"}

\* Where the result of an attempt is classified, or the next one is made, or
\* the call is over.
Between == {"classify", "validate", "commit", "backoff", "attempt", "over"}

\* Between the attempts no process is left to write; only an interrupt that
\* strikes while one runs escapes that (runner.py, _terminate_process_group).
\* The directory of the last attempt, with its prompt, is there only if that
\* attempt counts as a lost connection or the call was cancelled, and one of
\* an earlier attempt only if that attempt was made again: no answer is taken
\* from an attempt whose directory stays (codex.py and claude.py, the finally
\* of run_contract).
NothingLeftBehind ==
  /\ call.pc \in Between /\ ~ call.struck => group.leader # "runs" /\ group.child = "none"
  /\ call.pc \in Between /\ directory.made =>
       call.result = ConnectionFailure \/ (At("over") /\ call.code = "cancelled")
  /\ directory.left => call.attempt > 0 \/ call.round > 0

\* What 15-llm-contracts.md says of the directory: deleted on every path.
DirectoryDeleted == At("over") => ~ directory.made /\ ~ directory.left

\* A call that has begun ends, although its runtime may never end and what it
\* left in its group may keep the error channel open: the deadline and the
\* kill of the whole group are enough (runner.py, run_subprocess).
AttemptsEnd == At("attempt") ~> At("over")
=============================================================================
