----------------------------- MODULE ProviderProofs -----------------------------
(***************************************************************************)
(* What TLAPS proves of Sources and Provider.  A call's invariant Inv has  *)
(* four parts: Shape, the shape of the records; Tidy, where processes may  *)
(* exist; Swept, what a directory that stays belongs to; Answered, what the result of an attempt says of  *)
(* the runtime's answer, from the moment the result is known to the end of *)
(* the call.  For the locators it is Stored: whatever entrance stored one, *)
(* it is remote and of an admitted form, or a resolved path.  For an       *)
(* import it is ImportSound: what its two passes have read and counted,    *)
(* and that what it reports partitions what the second one has read.       *)
(***************************************************************************)
EXTENDS Provider, FiniteSetTheorems, WellFoundedInduction, TLAPS

(***************************************************************************)
(* The first check that holds                                              *)
(***************************************************************************)

(* A set of natural numbers that is not empty has a least member.          *)
LEMMA LeastNat ==
  ASSUME NEW T \in SUBSET Nat, T # {}
  PROVE  \E x \in T : \A y \in T : x =< y
<1>1. PICK x \in T : \A y \in T : <<y, x>> \notin OpToRel(<, Nat)
  BY NatLessThanWellFounded, WFMin, Zenon
<1>2. \A y \in T : ~ (y < x)
  BY <1>1, Zenon DEF OpToRel
<1> QED BY <1>2

LEMMA Least ==
  ASSUME NEW T \in SUBSET Nat, NEW x \in T, \A y \in T : x =< y
  PROVE  Min(T) = x
<1> DEFINE least(z) == z \in T /\ \A y \in T : z =< y
<1>1. least(x)
  OBVIOUS
<1>2. \A z \in T : least(z) => z = x
  OBVIOUS
<1>3. Min(T) = CHOOSE z \in T : \A y \in T : z =< y
  BY DEF Min
<1> QED BY <1>1, <1>2, <1>3

LEMMA MinIsLeast ==
  ASSUME NEW T \in SUBSET Nat, T # {}
  PROVE  Min(T) \in T
BY LeastNat, Least

(* Nothing is refused exactly when no check holds, whatever the checks.    *)
LEMMA FirstOfNothing ==
  ASSUME NEW n \in Nat, NEW checks, DOMAIN checks = 1 .. n, NEW otherwise,
         \A i \in 1 .. n : checks[i][2] # ""
  PROVE  FirstOf(checks, otherwise) = ""
           <=> otherwise = "" /\ \A i \in 1 .. n : ~ checks[i][1]
<1> DEFINE T == {i \in 1 .. n : checks[i][1]}
<1>1. FirstOf(checks, otherwise) = IF T = {} THEN otherwise ELSE checks[Min(T)][2]
  BY DEF FirstOf
<1>2. T \in SUBSET Nat
  <2>1. \A i \in 1 .. n : i \in Nat
    <3>1. n \in Nat
      OBVIOUS
    <3> QED BY ONLY <3>1
  <2>2. \A i \in T : i \in 1 .. n
    OBVIOUS
  <2> HIDE DEF T
  <2> QED BY <2>1, <2>2
<1>3. CASE T = {}
  BY <1>1, <1>3
<1>4. CASE T # {}
  <2> HIDE DEF T
  <2>1. Min(T) \in T
    BY <1>2, <1>4, MinIsLeast
  <2>2. Min(T) \in 1 .. n /\ checks[Min(T)][1]
    BY <2>1 DEF T
  <2> QED BY <1>1, <1>4, <2>2
<1> QED BY <1>3, <1>4

(* Of three or four checks, the verdict of the first that holds.           *)
LEMMA FirstOfThree ==
  ASSUME NEW checks, DOMAIN checks = 1 .. 3, NEW otherwise
  PROVE  FirstOf(checks, otherwise) =
           IF checks[1][1] THEN checks[1][2] ELSE IF checks[2][1] THEN checks[2][2] ELSE
           IF checks[3][1] THEN checks[3][2] ELSE otherwise
<1> DEFINE T == {i \in DOMAIN checks : checks[i][1]}
<1>0. FirstOf(checks, otherwise) = IF T = {} THEN otherwise ELSE checks[Min(T)][2]
  BY DEF FirstOf
<1>1. T \in SUBSET Nat /\ \A i \in 1 .. 3 : i \in T <=> checks[i][1]
  OBVIOUS
<1>2. \A i \in T : i \in 1 .. 3
  OBVIOUS
<1> HIDE DEF T
<1>3. CASE 1 \in T
  <2>1. \A i \in T : 1 =< i  BY <1>2, <1>3
  <2>2. Min(T) = 1  BY <1>1, <1>3, <2>1, Least
  <2> QED BY <1>0, <1>1, <1>3, <2>2
<1>4. CASE 1 \notin T /\ 2 \in T
  <2>1. \A i \in T : 2 =< i  BY <1>2, <1>4
  <2>2. Min(T) = 2  BY <1>1, <1>4, <2>1, Least
  <2> QED BY <1>0, <1>1, <1>4, <2>2
<1>5. CASE 1 \notin T /\ 2 \notin T /\ 3 \in T
  <2>1. \A i \in T : 3 =< i  BY <1>2, <1>5
  <2>2. Min(T) = 3  BY <1>1, <1>5, <2>1, Least
  <2> QED BY <1>0, <1>1, <1>5, <2>2
<1>6. CASE T = {}
  BY <1>0, <1>1, <1>6
<1> QED BY <1>2, <1>3, <1>4, <1>5, <1>6

LEMMA FirstOfFour ==
  ASSUME NEW checks, DOMAIN checks = 1 .. 4, NEW otherwise
  PROVE  FirstOf(checks, otherwise) =
           IF checks[1][1] THEN checks[1][2] ELSE IF checks[2][1] THEN checks[2][2] ELSE
           IF checks[3][1] THEN checks[3][2] ELSE IF checks[4][1] THEN checks[4][2] ELSE otherwise
<1> DEFINE T == {i \in DOMAIN checks : checks[i][1]}
<1>0. FirstOf(checks, otherwise) = IF T = {} THEN otherwise ELSE checks[Min(T)][2]
  BY DEF FirstOf
<1>1. T \in SUBSET Nat /\ \A i \in 1 .. 4 : i \in T <=> checks[i][1]
  OBVIOUS
<1>2. \A i \in T : i \in 1 .. 4
  OBVIOUS
<1> HIDE DEF T
<1>3. CASE 1 \in T
  <2>1. \A i \in T : 1 =< i  BY <1>2, <1>3
  <2>2. Min(T) = 1  BY <1>1, <1>3, <2>1, Least
  <2> QED BY <1>0, <1>1, <1>3, <2>2
<1>4. CASE 1 \notin T /\ 2 \in T
  <2>1. \A i \in T : 2 =< i  BY <1>2, <1>4
  <2>2. Min(T) = 2  BY <1>1, <1>4, <2>1, Least
  <2> QED BY <1>0, <1>1, <1>4, <2>2
<1>5. CASE 1 \notin T /\ 2 \notin T /\ 3 \in T
  <2>1. \A i \in T : 3 =< i  BY <1>2, <1>5
  <2>2. Min(T) = 3  BY <1>1, <1>5, <2>1, Least
  <2> QED BY <1>0, <1>1, <1>5, <2>2
<1>6. CASE 1 \notin T /\ 2 \notin T /\ 3 \notin T /\ 4 \in T
  <2>1. \A i \in T : 4 =< i  BY <1>2, <1>6
  <2>2. Min(T) = 4  BY <1>1, <1>6, <2>1, Least
  <2> QED BY <1>0, <1>1, <1>6, <2>2
<1>7. CASE T = {}
  BY <1>0, <1>1, <1>7
<1> QED BY <1>2, <1>3, <1>4, <1>5, <1>6, <1>7

(***************************************************************************)
(* No class of a failed result is the accepted one                         *)
(***************************************************************************)

LEMMA MarkedFails ==
  ASSUME NEW markers, markers \in [1 .. 5 -> {"timeout", "rate", "auth", "lost", "outage"}],
         NEW channel
  PROVE  Marked(markers, channel).code # ""
<1> DEFINE checks == [i \in DOMAIN markers |-> <<markers[i] \in channel, MarkerClass(markers[i])>>]
           T == {i \in DOMAIN checks : checks[i][1]}
<1>1. T \in SUBSET Nat /\ T \subseteq 1 .. 5
  OBVIOUS
<1>2. \A i \in 1 .. 5 : checks[i][2].code # ""
  BY DEF MarkerClass, Class
<1>3. CASE T = {}
  BY <1>3 DEF Marked, FirstOf, Class
<1>4. CASE T # {}
  <2>1. Min(T) \in 1 .. 5
    BY <1>1, <1>4, MinIsLeast
  <2>2. Marked(markers, channel) = checks[Min(T)][2]
    BY <1>4 DEF Marked, FirstOf
  <2> QED BY <1>2, <2>1, <2>2
<1> QED BY <1>3, <1>4

LEMMA FailureCodes ==
  /\ Class("cancelled", FALSE).code # "" /\ Class("transport_timeout", TRUE).code # ""
  /\ Accepted.code = ""
BY DEF Class, Accepted

LEMMA CodexAccepts ==
  ASSUME NEW r
  PROVE  ClassifyCodex(r).code = "" <=> r.end = "exit 0" /\ r.final # ""
<1> DEFINE a == r.end = "cancelled"
           b == r.end = "timed out"
           c == r.end = "exit 0" /\ r.final # ""
           markers == <<"timeout", "rate", "auth", "lost", "outage">>
           o == Marked(markers, r.channel)
<1>1. o.code # ""
  <2>1. markers \in [1 .. 5 -> {"timeout", "rate", "auth", "lost", "outage"}]
    OBVIOUS
  <2> QED BY <2>1, MarkedFails
<1> DEFINE checks == << <<a, Class("cancelled", FALSE)>>, <<b, Class("transport_timeout", TRUE)>>,
                       <<c, Accepted>> >>
<1>2. FirstOf(checks, o) =
          IF checks[1][1] THEN checks[1][2] ELSE IF checks[2][1] THEN checks[2][2] ELSE
           IF checks[3][1] THEN checks[3][2] ELSE o
  <2>1. DOMAIN checks = 1 .. 3
    OBVIOUS
  <2> HIDE DEF checks, o
  <2> QED BY <2>1, FirstOfThree
<1>3. ClassifyCodex(r) = FirstOf(checks, o)
  BY DEF ClassifyCodex
<1> HIDE DEF o
<1> QED BY <1>1, <1>2, <1>3, FailureCodes

LEMMA ClaudeAccepts ==
  ASSUME NEW r
  PROVE  ClassifyClaude(r).code = "" <=>
           r.end = "exit 0" /\ r.final # "" /\ StatusClass(r.status).code = ""
<1> DEFINE a == r.end = "timed out"
           b == r.end = "cancelled"
           s == StatusClass(r.status)
           c == s.code # ""
           d == r.end = "exit 0" /\ r.final # ""
           markers == <<"auth", "rate", "timeout", "lost", "outage">>
           o == Marked(markers, r.channel)
<1>1. o.code # ""
  <2>1. markers \in [1 .. 5 -> {"timeout", "rate", "auth", "lost", "outage"}]
    OBVIOUS
  <2> QED BY <2>1, MarkedFails
<1> DEFINE checks == << <<a, Class("transport_timeout", TRUE)>>, <<b, Class("cancelled", FALSE)>>,
                       <<c, s>>, <<d, Accepted>> >>
<1>2. FirstOf(checks, o) =
          IF checks[1][1] THEN checks[1][2] ELSE IF checks[2][1] THEN checks[2][2] ELSE
           IF checks[3][1] THEN checks[3][2] ELSE IF checks[4][1] THEN checks[4][2] ELSE o
  <2>1. DOMAIN checks = 1 .. 4
    OBVIOUS
  <2> HIDE DEF checks, o
  <2> QED BY <2>1, FirstOfFour
<1>3. ClassifyClaude(r) = FirstOf(checks, o)
  BY DEF ClassifyClaude
<1> HIDE DEF o
<1> QED BY <1>1, <1>2, <1>3, FailureCodes

(***************************************************************************)
(* The shape of the state                                                  *)
(***************************************************************************)

Shape ==
  /\ DOMAIN call = {"pc", "code", "built", "attempt", "round", "result", "raised", "struck"}
  /\ DOMAIN call.result = {"end", "final", "status", "channel"}
  /\ DOMAIN group = {"leader", "child", "answer"}
  /\ DOMAIN directory = {"made", "left"}

(***************************************************************************)
(* The processes and the directory of an attempt                           *)
(***************************************************************************)

Opened == {"made", "write", "spawn", "spawned", "communicate", "terminate", "grace", "drain",
           "read", "cleanup"}

Running == {"spawned", "communicate", "terminate", "grace", "drain"}

Tidy ==
  /\ call.pc \in {"made", "write", "spawn"} => group = Nobody
  /\ At("read") => Quiet
  /\ \/ call.struck
     \/ call.pc \in Running
     \/ group.leader # "runs" /\ group.child = "none"

(* A directory that stays belongs to an attempt that counts as a lost      *)
(* connection, or to a call that was cancelled.                            *)
Lost == call.result = ConnectionFailure

Swept ==
  /\ directory.made =>
       \/ call.pc \in Opened
       \/ call.pc \in {"classify", "backoff", "attempt", "make"} /\ Lost
       \/ At("over") /\ (Lost \/ call.code = "cancelled")
  /\ call.attempt \in Nat /\ call.round \in {0, 1}
  /\ directory.made /\ call.pc \in {"attempt", "make"} => call.attempt > 0
  /\ directory.left => call.attempt > 0 \/ call.round = 1

(***************************************************************************)
(* What the result of an attempt says of its answer                        *)
(***************************************************************************)

(* The result is a failure to connect, or what is read of the answer of a  *)
(* leader that ended.                                                      *)
Known ==
  \/ call.result = ConnectionFailure
  \/ /\ group.leader # "runs"
     /\ call.result = Outcome(call.result.end, group.answer)
     /\ call.result.end = "exit 0" => group.answer.end = "exit 0"

(* Nothing sound is thrown away when the call goes on, or fails.           *)
SoundAnswer == Sound(group.answer)

Spent == call.result.end = "exit 0" => group.leader # "runs" /\ ~ SoundAnswer

AcceptedResult == Classify(call.result).code = ""

(* How a call may end that has a sound answer.                             *)
Kinds == {"", "cancelled", "deterministic_enrichment_failed", "business_commit_failed"}

Answered ==
  /\ call.raised \in {"", "cancelled", "credential_detected"}
  /\ call.raised # "" => call.pc \in {"cleanup", "over"}
  /\ call.pc \in {"load", "assemble", "preflight", "terminate", "grace", "drain"} =>
       call.result.end # "exit 0"
  /\ At("read") /\ call.result.end = "exit 0" => group.answer.end = "exit 0"
  /\ At("cleanup") /\ call.raised = "" => Known
  /\ At("cleanup") /\ call.raised = "credential_detected" => group = Nobody
  /\ call.pc \in {"classify", "validate"} => Known
  /\ At("validate") => AcceptedResult
  /\ At("commit") => call.result.end = "exit 0" /\ group.leader # "runs" /\ SoundAnswer
  /\ call.pc \in {"attempt", "make", "backoff"} => Spent
  /\ At("over") =>
       /\ call.code = "" =>
            call.result.end = "exit 0" /\ group.leader # "runs" /\ SoundAnswer
       /\ call.code \in Kinds \/ Spent

Inv == Shape /\ Tidy /\ Swept /\ Answered

LEMMA NoStatus == StatusClass(0).code = ""
<1>1. StatusClass(0) = Accepted
  BY SMTT(30) DEF StatusClass
<1> QED BY <1>1, FailureCodes

LEMMA NoConnection ==
  /\ DOMAIN ConnectionFailure = {"end", "final", "status", "channel"}
  /\ ConnectionFailure.end = "none"
  /\ Classify(ConnectionFailure).code # ""
<1>1. /\ DOMAIN ConnectionFailure = {"end", "final", "status", "channel"}
      /\ ConnectionFailure.end = "none"
  BY DEF ConnectionFailure
<1>2. ClassifyCodex(ConnectionFailure).code # ""
  BY <1>1, CodexAccepts
<1>3. ClassifyClaude(ConnectionFailure).code # ""
  BY <1>1, ClaudeAccepts
<1> QED BY <1>1, <1>2, <1>3 DEF Classify

(* A result is accepted and valid exactly when it is read of a sound       *)
(* answer.                                                                 *)
LEMMA SoundIsAccepted ==
  ASSUME NEW answer, NEW end, end = "exit 0" => answer.end = "exit 0"
  PROVE  /\ DOMAIN Outcome(end, answer) = {"end", "final", "status", "channel"}
         /\ Outcome(end, answer).end = end
         /\ end = "exit 0" /\ Sound(answer)
              <=> /\ Classify(Outcome(end, answer)).code = ""
                  /\ Outcome(end, answer).final = "valid"
<1> DEFINE r == Outcome(end, answer)
<1>1. DOMAIN r = {"end", "final", "status", "channel"} /\ r.end = end
  BY DEF Outcome
<1>2. Classify(r).code = "" <=>
        /\ r.end = "exit 0" /\ r.final # ""
        /\ setting.adapter # "codex-cli" => StatusClass(r.status).code = ""
  BY CodexAccepts, ClaudeAccepts DEF Classify
<1>3. CASE setting.adapter = "claude-agent-sdk"
  <2>1. r.final = "valid" <=>
          end = "exit 0" /\ answer.file = "valid" /\ ~ answer.error /\ answer.agrees
    BY <1>3 DEF Outcome, ClaudeFinal
  <2>2. r.final = "valid" => r.status = answer.status
    BY <1>3 DEF Outcome, ClaudeFinal
  <2> QED BY <1>1, <1>2, <1>3, <2>1, <2>2 DEF Sound
<1>4. CASE setting.adapter # "claude-agent-sdk"
  <2>1. r.final = "valid" <=> end = "exit 0" /\ answer.file = "valid"
    BY <1>4 DEF Outcome, CodexFinal
  <2>2. r.status = 0
    BY <1>4 DEF Outcome
  <2> QED BY <1>1, <1>2, <1>4, <2>1, <2>2, NoStatus DEF Sound
<1> QED BY <1>1, <1>3, <1>4

LEMMA Begins ==
  ASSUME NEW settings, ProviderInit(settings)
  PROVE  Inv
BY SilenceAssumption, NoConnection
DEF ProviderInit, Inv, Shape, Tidy, Swept, Kinds, Answered, NewCall, Nobody, At, Running, Opened

(* What is said of a result, and of an answer, changes with them alone.    *)
LEMMA Stays ==
  ASSUME setting' = setting, call'.result = call.result, group'.leader = group.leader,
         group'.answer = group.answer
  PROVE  /\ Known' <=> Known
         /\ Spent' <=> Spent
         /\ SoundAnswer' <=> SoundAnswer
         /\ AcceptedResult' <=> AcceptedResult
<1>1. SoundAnswer' <=> SoundAnswer
  BY DEF SoundAnswer, Sound
<1>2. AcceptedResult' <=> AcceptedResult
  BY DEF AcceptedResult, Classify
<1>3. Known' <=> Known
  BY DEF Known, Outcome
<1> QED BY <1>1, <1>2, <1>3 DEF Spent

LEMMA NobodyIs == Nobody.leader = "none" /\ Nobody.child = "none" /\ Nobody.answer = Silence
BY DEF Nobody

LEMMA NobodySpends ==
  ASSUME group = Nobody
  PROVE  Spent
<1>1. ~ Sound(Silence)
  BY SilenceAssumption DEF Sound
<1> QED BY <1>1, NobodyIs DEF Spent, SoundAnswer

(* The same of the state's own answer.                                     *)
LEMMA OutcomeVerdict ==
  ASSUME NEW r, r = Outcome(call.result.end, group.answer),
         call.result.end = "exit 0" => group.answer.end = "exit 0"
  PROVE  /\ r.end = call.result.end
         /\ r.end = "exit 0" /\ SoundAnswer <=> Classify(r).code = "" /\ r.final = "valid"
<1> DEFINE end == call.result.end
           answer == group.answer
<1>1. end = "exit 0" => answer.end = "exit 0"
  OBVIOUS
<1>2. r = Outcome(end, answer) /\ (SoundAnswer <=> Sound(answer))
  BY DEF SoundAnswer
<1> HIDE DEF end, answer
<1>3. /\ Outcome(end, answer).end = end
      /\ end = "exit 0" /\ Sound(answer)
              <=> /\ Classify(Outcome(end, answer)).code = ""
                  /\ Outcome(end, answer).final = "valid"
  BY <1>1, SoundIsAccepted
<1>4. r.end = end /\ (r.end = "exit 0" /\ SoundAnswer <=> Classify(r).code = "" /\ r.final = "valid")
  BY <1>2, <1>3
<1> QED BY <1>4 DEF end

(* The verdict on a known result is the verdict on its answer.             *)
LEMMA KnownVerdict ==
  ASSUME Known
  PROVE  /\ AcceptedResult /\ call.result.final = "valid" =>
              call.result.end = "exit 0" /\ group.leader # "runs" /\ SoundAnswer
         /\ ~ (AcceptedResult /\ call.result.final = "valid") => Spent
<1>1. CASE call.result = ConnectionFailure
  BY <1>1, NoConnection DEF AcceptedResult, Spent
<1>2. CASE /\ group.leader # "runs"
           /\ call.result = Outcome(call.result.end, group.answer)
           /\ call.result.end = "exit 0" => group.answer.end = "exit 0"
  <2>1. call.result.end = "exit 0" /\ SoundAnswer
          <=> AcceptedResult /\ call.result.final = "valid"
    BY <1>2, OutcomeVerdict DEF AcceptedResult
  <2> QED BY <1>2, <2>1 DEF Spent
<1> QED BY <1>1, <1>2 DEF Known

(***************************************************************************)
(* Every step keeps the invariant                                          *)
(***************************************************************************)

LEMMA StepShape ==
  ASSUME Inv, CallStep \/ Interrupt \/ WorldStep
  PROVE  Shape'
<1> USE DEF Inv, Shape, Moves, Ends, Results, Raises, Stopped, Nobody, Killed, At
<1>1. CASE Loads  BY <1>1, NoConnection DEF Loads
<1>2. CASE Assembles  BY <1>2, NoConnection DEF Assembles
<1>3. CASE Preflights  BY <1>3, NoConnection DEF Preflights
<1>4. CASE Attempts  BY <1>4, NoConnection DEF Attempts
<1>5. CASE Makes  BY <1>5, NoConnection DEF Makes
<1>6. CASE Restricts  BY <1>6, NoConnection DEF Restricts
<1>7. CASE Writes  BY <1>7, NoConnection DEF Writes
<1>8. CASE Spawns  BY <1>8, NoConnection DEF Spawns
<1>9. CASE Listens  BY <1>9, NoConnection DEF Listens
<1>10. CASE Communicates  BY <1>10, NoConnection DEF Communicates
<1>11. CASE Terminates  BY <1>11, NoConnection DEF Terminates
<1>12. CASE Kills  BY <1>12, NoConnection DEF Kills
<1>13. CASE Drains  BY <1>13, NoConnection DEF Drains
<1>14. CASE Collects  BY <1>14, NoConnection DEF Collects, Outcome
<1>15. CASE Cleans  BY <1>15, NoConnection DEF Cleans
<1>16. CASE CleaningFails  BY <1>16, NoConnection DEF CleaningFails
<1>17. CASE Decides  BY <1>17, NoConnection DEF Decides
<1>18. CASE BacksOff  BY <1>18, NoConnection DEF BacksOff
<1>19. CASE Validates  BY <1>19, NoConnection DEF Validates
<1>20. CASE Interrupt  BY <1>20, NoConnection DEF Interrupt
<1>26. CASE Commits  BY <1>26, NoConnection DEF Commits
<1>21. CASE ChildSettles  BY <1>21, NoConnection DEF ChildSettles
<1>22. CASE RuntimeEnds  BY <1>22, NoConnection DEF RuntimeEnds
<1>23. CASE ChildEnds  BY <1>23, NoConnection DEF ChildEnds
<1>24. CASE NamespaceEnds  BY <1>24, NoConnection DEF NamespaceEnds
<1>25. CASE DeadlinePasses  BY <1>25, NoConnection DEF DeadlinePasses
<1> QED BY <1>1, <1>2, <1>3, <1>4, <1>5, <1>6, <1>7, <1>8, <1>9, <1>10, <1>11, <1>12, <1>13, <1>14, <1>15, <1>16, <1>17, <1>18, <1>19, <1>20, <1>21, <1>22, <1>23, <1>24, <1>25, <1>26 DEF CallStep, WorldStep

LEMMA StepTidy ==
  ASSUME Inv, CallStep \/ Interrupt \/ WorldStep
  PROVE  Tidy'
<1> USE DEF Inv, Shape, Tidy, Opened, Running, Moves, Ends, Results, Raises, Stopped, Quiet, At
<1>1. CASE Loads  BY <1>1 DEF Loads
<1>2. CASE Assembles  BY <1>2 DEF Assembles
<1>3. CASE Preflights  BY <1>3 DEF Preflights
<1>4. CASE Attempts  BY <1>4 DEF Attempts
<1>5. CASE Makes  BY <1>5 DEF Makes, Nobody
<1>6. CASE Restricts  BY <1>6 DEF Restricts, Nobody
<1>7. CASE Writes  BY <1>7 DEF Writes, Nobody
<1>8. CASE Spawns  BY <1>8 DEF Spawns, Nobody
<1>9. CASE Listens  BY <1>9 DEF Listens
<1>10. CASE Communicates  BY <1>10 DEF Communicates
<1>11. CASE Terminates  BY <1>11 DEF Terminates
<1>12. CASE Kills  BY <1>12 DEF Kills, Killed
<1>13. CASE Drains  BY <1>13 DEF Drains
<1>14. CASE Collects  BY <1>14 DEF Collects
<1>15. CASE Cleans  BY <1>15 DEF Cleans
<1>16. CASE CleaningFails  BY <1>16 DEF CleaningFails
<1>17. CASE Decides
  <2>1. /\ call.pc = "classify" /\ call'.struck = call.struck /\ group' = group
        /\ call'.pc \in {"validate", "backoff", "over"}
    BY <1>17 DEF Decides
  <2> QED BY <2>1
<1>18. CASE BacksOff  BY <1>18 DEF BacksOff
<1>19. CASE Validates  BY <1>19 DEF Validates
<1>20. CASE Interrupt  BY <1>20 DEF Interrupt, Tried
<1>26. CASE Commits  BY <1>26 DEF Commits
<1>21. CASE ChildSettles
  <2>1. group.leader = "runs" /\ call' = call
    BY <1>21 DEF ChildSettles
  <2>2. (call.struck \/ call.pc \in Running) /\ ~ Quiet /\ group # Nobody
    BY <2>1, NobodyIs
  <2> QED BY <2>1, <2>2
<1>22. CASE RuntimeEnds
  <2>1. group.leader = "runs" /\ call' = call
    BY <1>22 DEF RuntimeEnds
  <2>2. (call.struck \/ call.pc \in Running) /\ ~ Quiet /\ group # Nobody
    BY <2>1, NobodyIs
  <2> QED BY <2>1, <2>2
<1>23. CASE ChildEnds  BY <1>23 DEF ChildEnds, Nobody
<1>24. CASE NamespaceEnds  BY <1>24 DEF NamespaceEnds, Nobody
<1>25. CASE DeadlinePasses  BY <1>25 DEF DeadlinePasses
<1> QED BY <1>1, <1>2, <1>3, <1>4, <1>5, <1>6, <1>7, <1>8, <1>9, <1>10, <1>11, <1>12, <1>13, <1>14, <1>15, <1>16, <1>17, <1>18, <1>19, <1>20, <1>21, <1>22, <1>23, <1>24, <1>25, <1>26 DEF CallStep, WorldStep

LEMMA StepSwept ==
  ASSUME Inv, CallStep \/ Interrupt \/ WorldStep
  PROVE  Swept'
<1> USE DEF Inv, Shape, Swept, Lost, Opened, Moves, Ends, Results, Raises, Stopped, At
<1>1. CASE Loads  BY <1>1 DEF Loads
<1>2. CASE Assembles  BY <1>2 DEF Assembles
<1>3. CASE Preflights  BY <1>3 DEF Preflights
<1>4. CASE Attempts  BY <1>4 DEF Attempts
<1>5. CASE Makes
  <2>1. PICK made \in BOOLEAN :
          /\ call.pc = "make"
          /\ directory' = [made |-> made, left |-> directory.left \/ directory.made]
          /\ call' = IF made THEN [call EXCEPT !.pc = "made"]
                     ELSE [call EXCEPT !.pc = "classify", !.result = ConnectionFailure]
    BY <1>5 DEF Makes
  <2>2. /\ directory'.made = made /\ directory'.left = (directory.left \/ directory.made)
        /\ made => call'.pc = "made"
        /\ call'.attempt = call.attempt /\ call'.round = call.round
        /\ call'.pc \in {"made", "classify"}
    BY <2>1
  <2>3. directory'.left => directory.left \/ directory.made
    BY <2>2
  <2> QED BY <2>1, <2>2, <2>3
<1>6. CASE Restricts  BY <1>6 DEF Restricts
<1>7. CASE Writes  BY ZenonT(40), <1>7 DEF Writes
<1>8. CASE Spawns  BY <1>8 DEF Spawns
<1>9. CASE Listens  BY <1>9 DEF Listens
<1>10. CASE Communicates  BY <1>10 DEF Communicates
<1>11. CASE Terminates  BY <1>11 DEF Terminates
<1>12. CASE Kills  BY <1>12 DEF Kills
<1>13. CASE Drains  BY <1>13 DEF Drains
<1>14. CASE Collects  BY <1>14 DEF Collects
<1>15. CASE Cleans  BY <1>15 DEF Cleans
<1>16. CASE CleaningFails  BY <1>16 DEF CleaningFails
<1>17. CASE Decides
  <2>1. /\ call.pc = "classify" /\ call'.result = call.result /\ directory' = directory
        /\ call'.attempt = call.attempt /\ call'.round = call.round
        /\ call'.pc \in {"validate", "backoff", "over"}
        /\ call'.pc = "validate" => Classify(call.result).code = ""
    BY <1>17 DEF Decides
  <2>2. directory.made => Lost /\ call'.pc # "validate"
    BY <2>1, NoConnection
  <2> QED BY <2>1, <2>2
<1>18. CASE BacksOff
  <2>1. /\ call.pc = "backoff" /\ call'.result = call.result /\ directory' = directory
        /\ call'.round = call.round
        /\ \/ call'.pc = "attempt" /\ call'.attempt = call.attempt + 1
           \/ call'.pc = "over" /\ call'.attempt = call.attempt
    BY <1>18 DEF BacksOff
  <2>2. /\ call.attempt \in Nat /\ call'.attempt \in Nat
        /\ call.attempt > 0 => call'.attempt > 0
        /\ call'.pc = "attempt" => call'.attempt > 0
    BY <2>1
  <2> QED BY <2>1, <2>2
<1>19. CASE Validates
  <2>1. /\ call.pc = "validate" /\ directory' = directory /\ ~ directory.made
    BY <1>19 DEF Validates
  <2>2. \/ call'.attempt = call.attempt /\ call'.round = call.round
        \/ call'.attempt = 0 /\ call'.round = 1
    BY <1>19 DEF Validates
  <2>3. directory'.made = directory.made /\ directory'.left = directory.left
    BY <2>1
  <2> QED BY <2>1, <2>2, <2>3
<1>20. CASE Interrupt  BY ZenonT(40), <1>20 DEF Interrupt, Tried
<1>21. CASE ChildSettles  BY <1>21 DEF ChildSettles
<1>22. CASE RuntimeEnds  BY <1>22 DEF RuntimeEnds
<1>23. CASE ChildEnds  BY <1>23 DEF ChildEnds
<1>24. CASE NamespaceEnds  BY <1>24 DEF NamespaceEnds
<1>25. CASE DeadlinePasses  BY <1>25 DEF DeadlinePasses
<1>26. CASE Commits  BY <1>26 DEF Commits
<1> QED BY <1>1, <1>2, <1>3, <1>4, <1>5, <1>6, <1>7, <1>8, <1>9, <1>10, <1>11, <1>12, <1>13, <1>14, <1>15, <1>16, <1>17, <1>18, <1>19, <1>20, <1>21, <1>22, <1>23, <1>24, <1>25, <1>26 DEF CallStep, WorldStep

LEMMA StepAnswered ==
  ASSUME Inv, CallStep \/ Interrupt \/ WorldStep
  PROVE  Answered'
<1> USE DEF Inv, Shape, Kinds, Answered, Moves, Ends, Results, Raises, Stopped, At
<1>1. CASE Loads
  BY <1>1, Stays, NoConnection DEF Loads, Spent
<1>2. CASE Assembles
  BY <1>2, Stays, NoConnection DEF Assembles, Spent
<1>3. CASE Preflights
  BY <1>3, Stays, NoConnection DEF Preflights, Spent
<1>4. CASE Attempts
  BY ZenonT(40), <1>4, Stays, NoConnection DEF Attempts, Spent
<1>5. CASE Makes
  <2>1. /\ call'.raised = "" /\ call'.pc \in {"made", "classify"}
        /\ call'.pc = "classify" => call'.result = ConnectionFailure
    BY <1>5 DEF Makes
  <2>2. call'.pc = "classify" => Known'
    BY <2>1 DEF Known
  <2> QED BY <2>1, <2>2
<1>6. CASE Restricts
  <2>1. /\ group' = group /\ setting' = setting /\ call'.raised = call.raised
        /\ call'.pc \in {"write", "classify"} /\ call.raised = ""
        /\ call'.pc = "classify" => call'.result = ConnectionFailure
    BY <1>6 DEF Restricts
  <2>2. call'.pc = "classify" => Known'
    BY <2>1 DEF Known
  <2> QED BY <2>1, <2>2
<1>7. CASE Writes
  <2>1. /\ call'.pc \in {"spawn", "cleanup"} /\ call'.raised \in {"", "credential_detected"}
        /\ call'.pc = "spawn" => call'.raised = ""
        /\ call'.pc = "cleanup" /\ call'.raised = "" => call'.result = ConnectionFailure
    BY <1>7 DEF Writes
  <2>2. group' = Nobody
    BY <1>7 DEF Writes, Tidy
  <2>3. call'.pc = "cleanup" /\ call'.raised = "" => Known'
    BY <2>1 DEF Known
  <2> QED BY <2>1, <2>2, <2>3
<1>8. CASE Spawns
  <2>1. /\ call'.pc \in {"spawned", "cleanup"} /\ call'.raised = ""
        /\ call'.pc = "cleanup" => call'.result = ConnectionFailure
    BY <1>8 DEF Spawns
  <2>2. call'.pc = "cleanup" => Known'
    BY <2>1 DEF Known
  <2> QED BY <2>1, <2>2
<1>9. CASE Listens
  BY <1>9, Stays, NoConnection DEF Listens
<1>10. CASE Communicates
  <2>1. group' = group /\ setting' = setting /\ call'.raised = ""
    BY <1>10 DEF Communicates
  <2>2. \/ call'.pc = "read" /\ call'.result = [call.result EXCEPT !.end = group.answer.end]
        \/ call'.pc = "terminate" /\ call'.result = [call.result EXCEPT !.end = "timed out"]
    BY <1>10 DEF Communicates
  <2>3. \/ call'.pc = "read" /\ call'.result.end = group.answer.end
        \/ call'.pc = "terminate" /\ call'.result.end = "timed out"
    BY <2>2
  <2> QED BY <2>1, <2>3
<1>11. CASE Terminates
  BY <1>11, Stays, NoConnection DEF Terminates
<1>12. CASE Kills
  BY <1>12, Stays, NoConnection DEF Kills
<1>13. CASE Drains
  BY <1>13, Stays, NoConnection DEF Drains
<1>14. CASE Collects
  <2>1. /\ call'.pc = "cleanup" /\ call'.raised = "" /\ group' = group /\ setting' = setting
        /\ call'.result = Outcome(call.result.end, group.answer)
    BY <1>14 DEF Collects
  <2>2. /\ group.leader # "runs"
        /\ call.result.end = "exit 0" => group.answer.end = "exit 0"
    BY <1>14 DEF Collects, Tidy, Quiet
  <2>3. call'.result.end = call.result.end
    BY <2>1, <2>2, OutcomeVerdict
  <2>4. Known'
    BY ZenonT(40), <2>1, <2>2, <2>3 DEF Known, Outcome
  <2> QED BY <2>1, <2>4
<1>15. CASE Cleans
  <2>1. /\ group' = group /\ setting' = setting /\ call'.result = call.result
        /\ call'.raised = call.raised
    BY <1>15 DEF Cleans
  <2>2. CASE call.raised = ""
    <3>1. Known /\ call'.pc = "classify"
      BY <1>15, <2>2 DEF Cleans
    <3> QED BY <2>1, <2>2, <3>1, Stays
  <2>3. CASE call.raised = "cancelled"
    <3>1. call'.pc = "over" /\ call'.code = "cancelled"
      BY <1>15, <2>3 DEF Cleans
    <3> QED BY <2>1, <2>3, <3>1
  <2>4. CASE call.raised = "credential_detected"
    <3>1. call'.pc = "over" /\ call'.code = "credential_detected" /\ Spent
      BY <1>15, <2>4, NobodySpends DEF Cleans
    <3> QED BY <2>1, <2>4, <3>1, Stays
  <2> QED BY <2>2, <2>3, <2>4
<1>16. CASE CleaningFails
  <2>1. call'.result = ConnectionFailure => Known'
    BY <1>16 DEF Known, CleaningFails
  <2> QED BY <1>16, <2>1, Stays, NoConnection DEF CleaningFails
<1>17. CASE Decides
  <2>1. /\ group' = group /\ setting' = setting /\ call'.result = call.result
        /\ call'.raised = call.raised /\ call.raised = ""
    BY <1>17 DEF Decides
  <2>2. Known /\ (Spent \/ AcceptedResult)
    BY <1>17, KnownVerdict DEF Decides
  <2>3. \/ call'.pc = "validate" /\ AcceptedResult
        \/ call'.pc = "backoff" /\ ~ AcceptedResult
        \/ call'.pc = "over" /\ call'.code # "" /\ ~ AcceptedResult
    BY <1>17 DEF Decides, AcceptedResult
  <2> QED BY <2>1, <2>2, <2>3, Stays
<1>18. CASE BacksOff
  BY ZenonT(40), <1>18, Stays, NoConnection DEF BacksOff
<1>19. CASE Validates
  <2>1. /\ group' = group /\ setting' = setting /\ call'.result = call.result
        /\ call'.raised = call.raised /\ call.raised = ""
    BY <1>19 DEF Validates
  <2>2. \/ /\ call.result.final = "valid" /\ call.result.end = "exit 0"
           /\ group.leader # "runs" /\ SoundAnswer
        \/ call.result.final # "valid" /\ Spent
    BY <1>19, KnownVerdict DEF Validates
  <2>3. \/ call'.pc = "commit" /\ call.result.final = "valid"
        \/ /\ call'.pc = "over" /\ call'.code = "response_validation_failed"
           /\ call.result.final # "valid"
        \/ call'.pc = "attempt" /\ call.result.final # "valid"
        \/ call'.pc = "over" /\ call'.code = "deterministic_enrichment_failed"
    BY <1>19 DEF Validates
  <2> QED BY <2>1, <2>2, <2>3, Stays
<1>20. CASE Interrupt
  <2>1. /\ group' = group /\ setting' = setting
    BY <1>20 DEF Interrupt
  <2>2. CASE At("communicate")
    <3>1. call' = [call EXCEPT !.pc = "terminate", !.result.end = "cancelled"]
      BY <1>20, <2>2 DEF Interrupt, Tried
    <3>2. /\ call'.pc = "terminate" /\ call'.raised = call.raised
          /\ call'.result = [call.result EXCEPT !.end = "cancelled"]
      BY <3>1
    <3>3. call'.result.end = "cancelled"
      BY <3>2
    <3> QED BY <2>1, <2>2, <3>2, <3>3
  <2>3. CASE call.pc \in Tried
    <3>1. call'.pc = "cleanup" /\ call'.raised = "cancelled"
      BY <1>20, <2>3 DEF Interrupt, Tried
    <3> QED BY <2>1, <3>1
  <2>4. CASE ~ At("communicate") /\ call.pc \notin Tried
    <3>1. call'.pc = "over" /\ call'.code = "cancelled" /\ call'.raised = call.raised
      BY <1>20, <2>4 DEF Interrupt
    <3> QED BY <2>1, <3>1
  <2> QED BY <2>2, <2>3, <2>4
<1>26. CASE Commits
  <2>1. /\ group' = group /\ setting' = setting /\ call'.result = call.result
        /\ call'.raised = call.raised /\ call.raised = "" /\ call'.pc = "over"
        /\ call'.code \in {"", "business_commit_failed"}
    BY <1>26 DEF Commits
  <2>2. call.result.end = "exit 0" /\ group.leader # "runs" /\ SoundAnswer
    BY <1>26 DEF Commits
  <2> QED BY <2>1, <2>2, Stays
<1>21. CASE ChildSettles
  <2>1. /\ call' = call /\ setting' = setting /\ group'.leader = group.leader
        /\ group'.answer = group.answer /\ group.child # "none"
    BY <1>21 DEF ChildSettles
  <2>2. group # Nobody
    BY <2>1, NobodyIs
  <2> QED BY <2>1, <2>2, Stays
<1>22. CASE RuntimeEnds
  <2>1. group.leader = "runs" /\ group'.leader = "ended" /\ call' = call /\ setting' = setting
    BY <1>22 DEF RuntimeEnds
  <2>2. Known => Known'
    BY <2>1, NoConnection DEF Known
  <2>3. Spent => Spent'
    BY <2>1 DEF Spent
  <2>4. AcceptedResult' <=> AcceptedResult
    BY <2>1 DEF AcceptedResult, Classify
  <2>5. ~ At("read") /\ group # Nobody
    BY <2>1, NobodyIs DEF Tidy, Quiet
  <2>6. ~ (At("over") /\ call.code = "")
    BY <2>1
  <2> QED BY <2>1, <2>2, <2>3, <2>4, <2>5, <2>6
<1>23. CASE ChildEnds
  <2>1. /\ call' = call /\ setting' = setting /\ group'.leader = group.leader
        /\ group'.answer = group.answer /\ group.child # "none"
    BY <1>23 DEF ChildEnds
  <2>2. group # Nobody
    BY <2>1, NobodyIs
  <2> QED BY <2>1, <2>2, Stays
<1>24. CASE NamespaceEnds
  <2>1. /\ call' = call /\ setting' = setting /\ group'.leader = group.leader
        /\ group'.answer = group.answer /\ group.child # "none"
    BY <1>24 DEF NamespaceEnds
  <2>2. group # Nobody
    BY <2>1, NobodyIs
  <2> QED BY <2>1, <2>2, Stays
<1>25. CASE DeadlinePasses
  BY <1>25, Stays, NoConnection DEF DeadlinePasses
<1> QED BY <1>1, <1>2, <1>3, <1>4, <1>5, <1>6, <1>7, <1>8, <1>9, <1>10, <1>11, <1>12, <1>13, <1>14, <1>15, <1>16, <1>17, <1>18, <1>19, <1>20, <1>21, <1>22, <1>23, <1>24, <1>25, <1>26 DEF CallStep, WorldStep

LEMMA StepKeeps ==
  ASSUME Inv, [ProviderNext]_<<sourceVars, providerVars>>
  PROVE  Inv'
<1>1. CASE CallStep \/ Interrupt \/ WorldStep
  BY <1>1, StepShape, StepTidy, StepSwept, StepAnswered DEF Inv
<1>2. CASE UNCHANGED providerVars
  <2>1. UNCHANGED <<setting, call, group, directory>>
    BY <1>2 DEF providerVars
  <2>2. Answered'
    BY <2>1, Stays DEF Inv, Answered, At
  <2>3. Swept'
    BY <2>1 DEF Inv, Swept, Lost, At
  <2> QED BY <2>1, <2>2, <2>3 DEF Inv, Shape, Tidy, Quiet, At
<1> QED BY <1>1, <1>2 DEF ProviderNext, ProviderStep

THEOREM ProviderInvariant ==
  ASSUME NEW settings
  PROVE  ProviderInit(settings) /\ [][ProviderNext]_<<sourceVars, providerVars>> => []Inv
<1>1. ProviderInit(settings) => Inv
  BY Begins
<1>2. Inv /\ [ProviderNext]_<<sourceVars, providerVars>> => Inv'
  BY StepKeeps
<1> QED BY <1>1, <1>2, PTL

(* Between the attempts no process is left to write, unless an interrupt   *)
(* struck while one ran; the directory of the last attempt stays only if   *)
(* the attempt counts as a lost connection or the call was cancelled, that *)
(* of an earlier one only if the attempt was made again (runner.py,        *)
(* _terminate_process_group; codex.py and claude.py, run_contract).  For   *)
(* any configuration, host and prompt, any way a runtime may end, any      *)
(* number of attempts and interrupts, and a removal that fails at any time.*)
THEOREM NothingLeftBehindHolds ==
  ASSUME NEW settings
  PROVE  ProviderInit(settings) /\ [][ProviderNext]_<<sourceVars, providerVars>>
           => []NothingLeftBehind
<1>1. Inv => NothingLeftBehind
  <2> SUFFICES ASSUME Inv PROVE NothingLeftBehind
    OBVIOUS
  <2>1. call.pc \in Between /\ ~ call.struck => group.leader # "runs" /\ group.child = "none"
    BY DEF Inv, Tidy, Running, Between
  <2>2. call.pc \in Between /\ directory.made =>
          call.result = ConnectionFailure \/ (At("over") /\ call.code = "cancelled")
    BY DEF Inv, Swept, Lost, Opened, Between
  <2>3. directory.left => call.attempt > 0 \/ call.round > 0
    BY DEF Inv, Swept
  <2> QED BY <2>1, <2>2, <2>3 DEF NothingLeftBehind
<1> QED BY <1>1, ProviderInvariant, PTL

(* A call succeeds with nothing but a sound answer of a run that ended by  *)
(* itself; such an answer is thrown away only for an interrupt, an error   *)
(* of the enrichment, or the commit (adapter.py, run_rounds; codex.py and  *)
(* claude.py, run_contract and classify).                                  *)
THEOREM AcceptedExactlyHolds ==
  ASSUME NEW settings
  PROVE  ProviderInit(settings) /\ [][ProviderNext]_<<sourceVars, providerVars>>
           => []AcceptedExactly
<1>1. Inv => AcceptedExactly
  BY DEF Inv, Answered, Kinds, Spent, SoundAnswer, AcceptedExactly, At
<1> QED BY <1>1, ProviderInvariant, PTL

(***************************************************************************)
(* What an entrance admits                                                 *)
(***************************************************************************)

(* What a stored locator is, whichever entrance admitted it.               *)
Kept(locator) ==
  \/ locator.scheme = "remote" /\ ~ Forbidden(locator, TRUE)
  \/ \E place : locator = Canonical(place)

LEMMA SpellingAdmitted ==
  ASSUME NEW v, NEW policy, NEW otherwise
  PROVE  FirstOf(SuppliedChecks(v, policy), otherwise) = "" <=>
           /\ otherwise = ""
           /\ ~ (policy.structural /\ "not structural" \in v.marks)
           /\ ~ (FormRefused(v, policy.form))
<1> DEFINE checks == SuppliedChecks(v, policy)
<1>1. DOMAIN checks = 1 .. 2 /\ \A i \in 1 .. 2 : checks[i][2] # ""
  BY DEF SuppliedChecks
<1>2. /\ checks[1][1] <=> policy.structural /\ "not structural" \in v.marks
      /\ checks[2][1] <=> FormRefused(v, policy.form)
  BY DEF SuppliedChecks
<1> HIDE DEF checks
<1>3. FirstOf(checks, otherwise) = "" <=> otherwise = "" /\ \A i \in 1 .. 2 : ~ checks[i][1]
  <2>1. 2 \in Nat
    OBVIOUS
  <2>2. DOMAIN checks = 1 .. 2
    BY <1>1
  <2>3. \A i \in 1 .. 2 : checks[i][2] # ""
    BY <1>1
  <2> QED BY ONLY <2>1, <2>2, <2>3, FirstOfNothing
<1>4. (\A i \in 1 .. 2 : ~ checks[i][1])
        <=> ~ checks[1][1] /\ ~ checks[2][1]
  OBVIOUS
<1> QED BY <1>2, <1>3, <1>4 DEF checks

(* What lets a local locator, and the place it resolves to, pass.          *)
LocalPasses(v, policy, rooted) ==
  /\ ~ (IsFileUri(v, policy) /\ (~ policy.file_uri \/ "bad uri" \in v.marks))
  /\ policy.local
  /\ ~ (policy.posix /\ v.scheme = "none"
          /\ ("not structural" \in v.marks \/ Forbidden(v, FALSE)))
  /\ ~ (rooted /\ (v.scheme # "none" \/ v.marks \intersect {"absolute", "parent"} # {}))
  /\ Resolves(Named(v, policy))

PlacePasses(place, policy, rooted) ==
  /\ ~ (policy.require_file /\ tree[place] # "file")
  /\ ~ (rooted /\ place \notin Inside)

LEMMA LocalAdmitted ==
  ASSUME NEW v, NEW policy, NEW rooted, NEW otherwise
  PROVE  FirstOf(LocalChecks(v, policy, rooted), otherwise) = "" <=>
           otherwise = "" /\ LocalPasses(v, policy, rooted)
<1> DEFINE checks == LocalChecks(v, policy, rooted)
<1>1. DOMAIN checks = 1 .. 5 /\ \A i \in 1 .. 5 : checks[i][2] # ""
  BY DEF LocalChecks
<1>2. /\ checks[1][1] <=> (IsFileUri(v, policy) /\ (~ policy.file_uri \/ "bad uri" \in v.marks))
      /\ checks[2][1] <=> ~ policy.local
      /\ checks[3][1] <=> (policy.posix /\ v.scheme = "none"
                  /\ ("not structural" \in v.marks \/ Forbidden(v, FALSE)))
      /\ checks[4][1] <=> (rooted /\ (v.scheme # "none" \/ v.marks \intersect {"absolute", "parent"} # {}))
      /\ checks[5][1] <=> ~ Resolves(Named(v, policy))
  BY DEF LocalChecks
<1> HIDE DEF checks
<1>3. FirstOf(checks, otherwise) = "" <=> otherwise = "" /\ \A i \in 1 .. 5 : ~ checks[i][1]
  <2>1. 5 \in Nat
    OBVIOUS
  <2>2. DOMAIN checks = 1 .. 5
    BY <1>1
  <2>3. \A i \in 1 .. 5 : checks[i][2] # ""
    BY <1>1
  <2> QED BY ONLY <2>1, <2>2, <2>3, FirstOfNothing
<1>4. (\A i \in 1 .. 5 : ~ checks[i][1])
        <=> ~ checks[1][1] /\ ~ checks[2][1] /\ ~ checks[3][1] /\ ~ checks[4][1] /\ ~ checks[5][1]
  OBVIOUS
<1> QED BY <1>2, <1>3, <1>4 DEF checks, LocalPasses

LEMMA PlaceAdmitted ==
  ASSUME NEW place, NEW policy, NEW rooted, NEW otherwise
  PROVE  FirstOf(PlaceChecks(place, policy, rooted), otherwise) = "" <=>
           otherwise = "" /\ PlacePasses(place, policy, rooted)
<1> DEFINE checks == PlaceChecks(place, policy, rooted)
<1>1. DOMAIN checks = 1 .. 2 /\ \A i \in 1 .. 2 : checks[i][2] # ""
  BY DEF PlaceChecks
<1>2. /\ checks[1][1] <=> policy.require_file /\ tree[place] # "file"
      /\ checks[2][1] <=> rooted /\ place \notin Inside
  BY DEF PlaceChecks
<1> HIDE DEF checks
<1>3. FirstOf(checks, otherwise) = "" <=> otherwise = "" /\ \A i \in 1 .. 2 : ~ checks[i][1]
  <2>1. 2 \in Nat
    OBVIOUS
  <2>2. DOMAIN checks = 1 .. 2
    BY <1>1
  <2>3. \A i \in 1 .. 2 : checks[i][2] # ""
    BY <1>1
  <2> QED BY ONLY <2>1, <2>2, <2>3, FirstOfNothing
<1>4. (\A i \in 1 .. 2 : ~ checks[i][1])
        <=> ~ checks[1][1] /\ ~ checks[2][1]
  OBVIOUS
<1> QED BY <1>2, <1>3, <1>4 DEF checks, PlacePasses

LEMMA ClassAdmitted ==
  ASSUME NEW place, NEW otherwise
  PROVE  FirstOf(Classified(place), otherwise) = "" <=>
           /\ otherwise = ""
           /\ ~ (place \in Denied)
           /\ ~ (place \in ignored)
           /\ ~ (place \in Awkward)
<1> DEFINE checks == Classified(place)
<1>1. DOMAIN checks = 1 .. 3 /\ \A i \in 1 .. 3 : checks[i][2] # ""
  BY DEF Classified
<1>2. /\ checks[1][1] <=> place \in Denied
      /\ checks[2][1] <=> place \in ignored
      /\ checks[3][1] <=> place \in Awkward
  BY DEF Classified
<1> HIDE DEF checks
<1>3. FirstOf(checks, otherwise) = "" <=> otherwise = "" /\ \A i \in 1 .. 3 : ~ checks[i][1]
  <2>1. 3 \in Nat
    OBVIOUS
  <2>2. DOMAIN checks = 1 .. 3
    BY <1>1
  <2>3. \A i \in 1 .. 3 : checks[i][2] # ""
    BY <1>1
  <2> QED BY ONLY <2>1, <2>2, <2>3, FirstOfNothing
<1>4. (\A i \in 1 .. 3 : ~ checks[i][1])
        <=> ~ checks[1][1] /\ ~ checks[2][1] /\ ~ checks[3][1]
  OBVIOUS
<1> QED BY <1>2, <1>3, <1>4 DEF checks

(* An admission refuses nothing exactly when each check lets it pass.      *)
LEMMA RefusesNothing ==
  ASSUME NEW v, NEW policy, NEW rooted
  PROVE  Refusal(v, policy, rooted) = "" <=>
           /\ ~ (policy.structural /\ "not structural" \in v.marks)
           /\ ~ FormRefused(v, policy.form)
           /\ IsRemote(v, policy) => "bad uri" \notin v.marks
           /\ ~ IsRemote(v, policy) =>
                /\ ~ (IsFileUri(v, policy) /\ (~ policy.file_uri \/ "bad uri" \in v.marks))
                /\ policy.local
                /\ ~ (policy.posix /\ v.scheme = "none"
                        /\ ("not structural" \in v.marks \/ Forbidden(v, FALSE)))
                /\ ~ (rooted /\ (v.scheme # "none" \/ v.marks \intersect {"absolute", "parent"} # {}))
                /\ Resolves(Named(v, policy))
                /\ ~ (policy.require_file /\ tree[Resolved(Named(v, policy))] # "file")
                /\ ~ (rooted /\ Resolved(Named(v, policy)) \notin Inside)
                /\ Resolved(Named(v, policy)) \notin Denied \union ignored \union Awkward
<1> DEFINE place == Resolved(Named(v, policy))
           d == FirstOf(Classified(place), "")
           c == FirstOf(PlaceChecks(place, policy, rooted), d)
           b == FirstOf(LocalChecks(v, policy, rooted), c)
           a == IF IsRemote(v, policy) THEN IF "bad uri" \in v.marks THEN "invalid" ELSE "" ELSE b
<1>1. Refusal(v, policy, rooted) = FirstOf(SuppliedChecks(v, policy), a)
  BY DEF Refusal
<1>2. d = "" <=> place \notin Denied \union ignored \union Awkward
  <2> HIDE DEF place
  <2> QED BY ClassAdmitted
<1>3. c = "" <=> d = "" /\ PlacePasses(place, policy, rooted)
  <2> HIDE DEF place, d
  <2> QED BY ONLY PlaceAdmitted
<1>4. b = "" <=> c = "" /\ LocalPasses(v, policy, rooted)
  <2> HIDE DEF c
  <2> QED BY ONLY LocalAdmitted
<1>5. FirstOf(SuppliedChecks(v, policy), a) = "" <=>
        /\ a = ""
        /\ ~ (policy.structural /\ "not structural" \in v.marks)
        /\ ~ FormRefused(v, policy.form)
  <2> HIDE DEF a
  <2> QED BY SpellingAdmitted
<1>6. a = "" <=> IF IsRemote(v, policy) THEN "bad uri" \notin v.marks ELSE b = ""
  OBVIOUS
<1> HIDE DEF a, b, c, d
<1> QED BY <1>1, <1>2, <1>3, <1>4, <1>5, <1>6 DEF LocalPasses, PlacePasses

(***************************************************************************)
(* What is stored stays admissible in its form                             *)
(***************************************************************************)

LEMMA PolicyFields ==
  /\ ArtifactPolicy.remote = TRUE /\ ArtifactPolicy.form = "drive"
  /\ RemotePolicy.remote = TRUE /\ RemotePolicy.form = "rule 18" /\ RemotePolicy.local = FALSE
  /\ PayloadPolicy.remote = FALSE
  /\ PromptPolicy.structural = FALSE /\ PromptPolicy.form = "rule 18" /\ PromptPolicy.local = TRUE
  /\ PromptPolicy.require_file = FALSE
BY DEF ArtifactPolicy, RemotePolicy, PayloadPolicy, PromptPolicy

(* The locator an artifact is stored under.                                *)
LEMMA ArtifactKept ==
  ASSUME NEW v \in Spelled, Refusal(v, ArtifactPolicy, FALSE) = ""
  PROVE  Kept(Authorize(v, ArtifactPolicy, FALSE).locator)
<1>1. CASE v.scheme = "remote"
  <2>1. IsRemote(v, ArtifactPolicy)
    BY <1>1, PolicyFields DEF IsRemote
  <2>2. Authorize(v, ArtifactPolicy, FALSE).locator = v
    BY <2>1 DEF Authorize
  <2>3. "bad uri" \notin v.marks /\ ~ FormRefused(v, "drive")
    BY <2>1, RefusesNothing, PolicyFields
  <2>4. ~ Forbidden(v, TRUE)
    BY <1>1, <2>3, SpelledAssumption DEF Forbidden, FormRefused
  <2> QED BY <1>1, <2>2, <2>4 DEF Kept
<1>2. CASE v.scheme # "remote"
  BY <1>2 DEF Authorize, IsRemote, Kept
<1> QED BY <1>1, <1>2

(* The locator of a GitHub record.                                         *)
LEMMA RemoteKept ==
  ASSUME NEW v, Refusal(v, RemotePolicy, FALSE) = ""
  PROVE  Kept(v)
<1>1. IsRemote(v, RemotePolicy) /\ ~ FormRefused(v, "rule 18")
  BY RefusesNothing, PolicyFields
<1> QED BY <1>1 DEF Kept, IsRemote, FormRefused

(* The locator of an Atlas record.                                         *)
LEMMA PayloadKept ==
  ASSUME NEW v, NEW rooted, Refusal(v, PayloadPolicy, rooted) = ""
  PROVE  Kept(Authorize(v, PayloadPolicy, rooted).locator)
BY PolicyFields DEF Authorize, IsRemote, Kept

(* A kept locator is let into a prompt exactly when it would be now.       *)
LEMMA KeptPermitted ==
  ASSUME NEW locator, Kept(locator)
  PROVE  Reauthorized(locator) <=>
           \/ locator.scheme = "remote"
           \/ /\ Resolves(locator.place)
              /\ Resolved(locator.place) \notin Denied \union ignored \union Awkward
<1>1. CASE locator.scheme = "remote" /\ ~ Forbidden(locator, TRUE)
  BY <1>1 DEF Reauthorized
<1>2. ASSUME NEW place, locator = Canonical(place)
      PROVE  Reauthorized(locator) <=>
               Resolves(place) /\ Resolved(place) \notin Denied \union ignored \union Awkward
  <2>1. /\ locator.scheme = "none" /\ locator.marks = {"absolute"} /\ locator.place = place
    BY <1>2 DEF Canonical
  <2>2. ~ Forbidden(locator, TRUE) /\ ~ Forbidden(locator, FALSE)
    BY <2>1 DEF Forbidden
  <2>3. /\ ~ IsRemote(locator, PromptPolicy) /\ ~ IsFileUri(locator, PromptPolicy)
        /\ Named(locator, PromptPolicy) = place
    BY <2>1 DEF IsRemote, IsFileUri, Named
  <2>4. ~ FormRefused(locator, PromptPolicy.form)
    BY <2>2, PolicyFields DEF FormRefused
  <2>5. Refusal(locator, PromptPolicy, FALSE) = "" <=>
          Resolves(place) /\ Resolved(place) \notin Denied \union ignored \union Awkward
    BY <2>1, <2>2, <2>3, <2>4, RefusesNothing, PolicyFields
  <2>6. Reauthorized(locator) <=> Refusal(locator, PromptPolicy, FALSE) = ""
    BY <2>1 DEF Reauthorized, Authorize
  <2> QED BY <2>5, <2>6
<1>3. ASSUME NEW place, locator = Canonical(place)
      PROVE  locator.scheme # "remote" /\ locator.place = place
  BY <1>3 DEF Canonical
<1> QED BY <1>1, <1>2, <1>3 DEF Kept

(***************************************************************************)
(* Every entrance stores only what is kept                                 *)
(***************************************************************************)

(* A verdict is that of a check that holds, or none holds.                 *)
LEMMA FirstOfSome ==
  ASSUME NEW n \in Nat, NEW checks, DOMAIN checks = 1 .. n, NEW otherwise
  PROVE  \/ FirstOf(checks, otherwise) = otherwise /\ \A i \in 1 .. n : ~ checks[i][1]
         \/ \E i \in 1 .. n : checks[i][1] /\ FirstOf(checks, otherwise) = checks[i][2]
<1> DEFINE T == {i \in 1 .. n : checks[i][1]}
<1>1. FirstOf(checks, otherwise) = IF T = {} THEN otherwise ELSE checks[Min(T)][2]
  BY DEF FirstOf
<1>2. T \in SUBSET Nat
  <2>1. \A i \in 1 .. n : i \in Nat
    <3>1. n \in Nat
      OBVIOUS
    <3> QED BY ONLY <3>1
  <2>2. \A i \in T : i \in 1 .. n
    OBVIOUS
  <2> HIDE DEF T
  <2> QED BY <2>1, <2>2
<1>3. CASE T = {}
  BY <1>1, <1>3
<1>4. CASE T # {}
  <2> HIDE DEF T
  <2>1. Min(T) \in T
    BY <1>2, <1>4, MinIsLeast
  <2>2. Min(T) \in 1 .. n /\ checks[Min(T)][1]
    BY <2>1 DEF T
  <2> QED BY <1>1, <1>4, <2>2
<1> QED BY <1>3, <1>4

(* An accepted record passed every check there is, and a duplicate is what *)
(* was retained.                                                           *)
LEMMA VerdictPasses ==
  ASSUME NEW line
  PROVE  /\ Verdict(line) \in {"accepted", "duplicate", "rejected"}
         /\ Verdict(line) = "duplicate" => Held(line) /\ import.retained[line.id] = line.hash
         /\ Verdict(line) = "accepted" => ~ Held(line)
         /\ Verdict(line) = "accepted" =>
              /\ line.kind \in {"plain", "unfaithful"} /\ ~ Check(line)
              /\ line.kind = "plain" => Planned(line).refusal = ""
<1> DEFINE held == Held(line) /\ import.retained[line.id] = line.hash
           refused == line.kind = "plain" /\ Planned(line).refusal # ""
           defective == line.kind \in {"plain", "unfaithful"} /\ Check(line)
           checks ==
             << <<line.kind \notin {"plain", "unfaithful"}, "rejected">>, <<defective, "rejected">>,
                <<held, "duplicate">>, <<Held(line), "rejected">>, <<refused, "rejected">> >>
<1>1. Verdict(line) = FirstOf(checks, "accepted")
  BY DEF Verdict
<1>2. DOMAIN checks = 1 .. 5 /\ \A i \in 1 .. 5 : checks[i][2] \in {"duplicate", "rejected"}
  <2> HIDE DEF held, refused, defective
  <2> QED OBVIOUS
<1>7. \A i \in 1 .. 5 : checks[i][1] /\ checks[i][2] = "duplicate" => held
  <2> HIDE DEF held, refused, defective
  <2> QED OBVIOUS
<1>8. checks[4][1] <=> Held(line)
  <2> HIDE DEF held, refused, defective
  <2> QED OBVIOUS
<1>3. /\ checks[1][1] <=> line.kind \notin {"plain", "unfaithful"}
      /\ checks[2][1] <=> defective
      /\ checks[5][1] <=> refused
  <2> HIDE DEF held, refused, defective
  <2> QED OBVIOUS
<1> HIDE DEF checks
<1>4. \/ FirstOf(checks, "accepted") = "accepted" /\ \A i \in 1 .. 5 : ~ checks[i][1]
      \/ \E i \in 1 .. 5 : checks[i][1] /\ FirstOf(checks, "accepted") = checks[i][2]
  <2>1. 5 \in Nat
    OBVIOUS
  <2>2. DOMAIN checks = 1 .. 5
    BY <1>2
  <2> QED BY ONLY <2>1, <2>2, FirstOfSome
<1>5. CASE \E i \in 1 .. 5 : checks[i][1] /\ FirstOf(checks, "accepted") = checks[i][2]
  <2>1. PICK i \in 1 .. 5 : checks[i][1] /\ Verdict(line) = checks[i][2]
    BY <1>1, <1>5
  <2>2. Verdict(line) \in {"duplicate", "rejected"} /\ (Verdict(line) = "duplicate" => held)
    BY <1>2, <1>7, <2>1
  <2> QED BY <2>2
<1>6. CASE FirstOf(checks, "accepted") = "accepted" /\ \A i \in 1 .. 5 : ~ checks[i][1]
  <2>1. ~ checks[1][1] /\ ~ checks[2][1] /\ ~ checks[5][1]
    BY <1>6
  <2>2. line.kind \in {"plain", "unfaithful"} /\ ~ defective /\ ~ refused
    <3> HIDE DEF defective, refused
    <3> QED BY <2>1, <1>3
  <2>3. Verdict(line) = "accepted" /\ ~ Held(line)
    BY <1>1, <1>6, <1>8
  <2> QED BY <2>2, <2>3
<1> QED BY <1>4, <1>5, <1>6

(* The contract of the import is one that is run, and what is stored kept. *)
Stored ==
  /\ "contract" \in DOMAIN import /\ import.contract \in Contracts
  /\ \A locator \in stored : Kept(locator)

LEMMA PlannedKept ==
  ASSUME Stored, NEW line, Verdict(line) = "accepted", Planned(line).locator # NoLocator
  PROVE  Kept(Planned(line).locator)
<1>1. import.contract \in {"ephemeris", "atlas", "github"}
  BY ContractsAssumption DEF Stored
<1>2. line.kind \in {"plain", "unfaithful"} /\ ~ Check(line)
      /\ (line.kind = "plain" => Planned(line).refusal = "")
  BY VerdictPasses
<1>3. CASE import.contract = "github"
  <2>1. Authorize(line.locator, RemotePolicy, FALSE).refusal = ""
    BY <1>2, <1>3 DEF Check
  <2>2. Refusal(line.locator, RemotePolicy, FALSE) = ""
    BY <2>1 DEF Authorize
  <2>3. Planned(line).locator = line.locator
    BY <1>3 DEF Planned, Multi
  <2> QED BY <2>2, <2>3, RemoteKept
<1>4. CASE import.contract = "atlas"
  <2>1. line.kind = "plain"
    BY <1>2, <1>4 DEF Check
  <2>2. Planned(line) = Authorize(line.locator, PayloadPolicy, TRUE)
    BY <1>4 DEF Planned, Multi
  <2>4. Authorize(line.locator, PayloadPolicy, TRUE).refusal = ""
    BY <1>2, <2>1, <2>2
  <2>3. Refusal(line.locator, PayloadPolicy, TRUE) = ""
    BY <2>4 DEF Authorize
  <2> QED BY <2>2, <2>3, PayloadKept
<1>5. CASE import.contract = "ephemeris"
  BY <1>5 DEF Planned, Multi
<1> QED BY <1>1, <1>3, <1>4, <1>5

LEMMA AdmittedKept ==
  ASSUME NEW supplied \in SeqOf(Spelled, MaxLocators + 1), ~ Artifacts(supplied).refusal,
         NEW locator \in Artifacts(supplied).locators
  PROVE  Kept(locator)
<1> DEFINE verdict(i) == Authorize(supplied[i], ArtifactPolicy, FALSE)
           admitted == {verdict(i).locator : i \in DOMAIN supplied}
           all == /\ Len(supplied) <= MaxLocators
                  /\ \A i \in DOMAIN supplied : verdict(i).refusal = ""
                  /\ Cardinality(admitted) = Len(supplied)
<1>1. Artifacts(supplied) = IF all THEN [refusal |-> FALSE, locators |-> admitted]
                            ELSE [refusal |-> TRUE, locators |-> {}]
  BY DEF Artifacts
<1>2. all
  <2> HIDE DEF all, admitted
  <2> QED BY <1>1
<1>3. locator \in admitted
  <2> HIDE DEF all, admitted
  <2> QED BY <1>1, <1>2
<1>4. PICK i \in DOMAIN supplied : locator = verdict(i).locator
  BY <1>3
<1>5. supplied[i] \in Spelled
  BY <1>4 DEF SeqOf
<1>6. Refusal(supplied[i], ArtifactPolicy, FALSE) = ""
  BY <1>2, <1>4 DEF Authorize
<1> QED BY <1>4, <1>5, <1>6, ArtifactKept

(* One more line ends the import, or is read.                              *)
LEMMA ReadsEither ==
  ASSUME NEW read, NEW line, Reads(read, line)
  PROVE  \/ /\ \E code : code # "success" /\ ImportEnds(code)
            /\ \/ line.kind = "not utf8" \/ (line.kind \in {"not json", "blank"} /\ ~ Multi)
               \/ import.objects + line.objects > MaxObjects
         \/ /\ line.kind # "not utf8" /\ (line.kind \in {"not json", "blank"} => Multi)
            /\ ~ (import.objects + line.objects > MaxObjects)
            /\ import' = [import EXCEPT ![read] = Append(import[read], line),
                                        !.objects = import.objects + line.objects]
<1> DEFINE objects == import.objects + line.objects
           bytes == line.kind = "not utf8"
           many == objects > MaxObjects
           foreign == line.kind \in {"not json", "blank"} /\ ~ Multi
           checks == << <<bytes, "input_not_utf8">>,
                        <<foreign, "import_payload_invalid">>,
                        <<many, "import_payload_too_large">> >>
           defect == FirstOf(checks, "")
<1>1. IF defect # "" THEN ImportEnds(defect)
      ELSE import' = [import EXCEPT ![read] = Append(import[read], line), !.objects = objects]
  BY DEF Reads
<1>2. /\ DOMAIN checks = 1 .. 3
      /\ checks[1][2] = "input_not_utf8" /\ (checks[1][1] <=> bytes)
      /\ checks[2][2] = "import_payload_invalid" /\ (checks[2][1] <=> foreign)
      /\ checks[3][2] = "import_payload_too_large" /\ (checks[3][1] <=> many)
  <2> HIDE DEF bytes, many, foreign
  <2> QED OBVIOUS
<1> HIDE DEF objects, bytes, many, foreign, checks
<1>3. /\ defect # "success" /\ (defect # "" => bytes \/ foreign \/ many)
      /\ defect = "" => ~ bytes /\ ~ foreign /\ ~ many
  BY <1>2, FirstOfThree
<1> HIDE DEF defect
<1>4. CASE defect # ""
  <2>1. \E code : code # "success" /\ ImportEnds(code)
    BY <1>1, <1>3, <1>4
  <2>2. \/ line.kind = "not utf8" \/ (line.kind \in {"not json", "blank"} /\ ~ Multi)
        \/ import.objects + line.objects > MaxObjects
    BY <1>3, <1>4 DEF bytes, many, foreign, objects
  <2> QED BY <2>1, <2>2
<1>5. CASE defect = ""
  <2>1. import' = [import EXCEPT ![read] = Append(import[read], line),
                                 !.objects = import.objects + line.objects]
    BY <1>1, <1>5 DEF objects
  <2>2. /\ line.kind # "not utf8" /\ (line.kind \in {"not json", "blank"} => Multi)
        /\ ~ (import.objects + line.objects > MaxObjects)
    BY <1>3, <1>5 DEF bytes, many, foreign, objects
  <2> QED BY <2>1, <2>2
<1> QED BY <1>4, <1>5

(* A step of an import leaves its contract as it is, and stores nothing    *)
(* but what was planned for a record it accepted.                          *)
LEMMA ImportStores ==
  ASSUME Stored, ImportStep
  PROVE  /\ "contract" \in DOMAIN import' /\ import'.contract = import.contract
         /\ \A locator \in stored' :
              \/ locator \in stored
              \/ \E line : /\ Verdict(line) = "accepted" /\ locator = Planned(line).locator
                           /\ locator # NoLocator
<1>1. "contract" \in DOMAIN import
  BY DEF Stored
<1>2. ASSUME NEW code, ImportEnds(code)
      PROVE  "contract" \in DOMAIN import' /\ import'.contract = import.contract
  BY <1>1, <1>2 DEF ImportEnds
<1>3. ASSUME NEW read \in {"first", "second"}, NEW line, Reads(read, line)
      PROVE  "contract" \in DOMAIN import' /\ import'.contract = import.contract
  <2> DEFINE objects == import.objects + line.objects
             longer == Append(import[read], line)
  <2>1. CASE import' = [import EXCEPT ![read] = Append(import[read], line),
                                      !.objects = import.objects + line.objects]
    <3>1. import' = [import EXCEPT ![read] = longer, !.objects = objects]
      BY <2>1
    <3> HIDE DEF longer, objects
    <3> QED BY <1>1, <3>1
  <2>2. CASE \E code : ImportEnds(code)
    BY <1>2, <2>2
  <2>3. (\E code : ImportEnds(code))
          \/ import' = [import EXCEPT ![read] = Append(import[read], line),
                                     !.objects = import.objects + line.objects]
    BY <1>3, ReadsEither
  <2> QED BY <2>1, <2>2, <2>3
<1>4. CASE ImportOpens
  BY <1>1, <1>4 DEF ImportOpens
<1>5. CASE ImportCounts
  <2>1. stored' = stored
    BY <1>5 DEF ImportCounts
  <2>2. \/ ImportEnds("import_payload_invalid")
        \/ Reads("first", payload.lines[Len(import.first) + 1])
    BY <1>5 DEF ImportCounts
  <2> QED BY <1>2, <1>3, <2>1, <2>2
<1>6. CASE ImportReconfirms
  <2>1. stored' = stored
    BY <1>6 DEF ImportReconfirms
  <2>2. \/ ImportEnds("import_payload_changed")
        \/ \E pc : import' = [import EXCEPT !.objects = 0, !.pc = pc]
    BY <1>6 DEF ImportReconfirms
  <2> QED BY <1>1, <1>2, <2>1, <2>2
<1>7. CASE ImportLocks
  BY <1>1, <1>7 DEF ImportLocks
<1>8. ASSUME NEW line, NEW read, Banks(line, read)
      PROVE  /\ "contract" \in DOMAIN import' /\ import'.contract = import.contract
             /\ \A locator \in stored' :
                  \/ locator \in stored
                  \/ /\ Verdict(line) = "accepted" /\ locator = Planned(line).locator
                     /\ locator # NoLocator
  <2>1. Verdict(line) # "contract"
    BY VerdictPasses
  <2>2. "contract" \in DOMAIN import' /\ import'.contract = import.contract
    BY <1>1, <1>8, <2>1 DEF Banks
  <2>3. stored' = IF Verdict(line) = "accepted"
                  THEN stored \union ({Planned(line).locator} \ {NoLocator}) ELSE stored
    BY <1>8 DEF Banks
  <2> QED BY <2>2, <2>3
<1>9. CASE ImportClassifies
  <2> DEFINE line == IF Multi THEN payload.lines[Len(import.second) + 1] ELSE import.first[1]
             read == Append(import.second, line)
  <2>1. (Reads("second", line) /\ UNCHANGED stored) \/ Banks(line, read)
    BY <1>9 DEF ImportClassifies
  <2> HIDE DEF line, read
  <2> QED BY <2>1, <1>3, <1>8
<1>10. CASE ImportFinishes
  <2>1. stored' = stored /\ \E code : ImportEnds(code)
    BY <1>10 DEF ImportFinishes
  <2> QED BY <1>2, <2>1
<1>11. CASE ImportRaises
  <2>1. stored' = stored /\ \E code : ImportEnds(code)
    BY <1>11 DEF ImportRaises
  <2> QED BY <1>2, <2>1
<1> QED BY <1>4, <1>5, <1>6, <1>7, <1>9, <1>10, <1>11 DEF ImportStep

LEMMA StoredKept ==
  ASSUME Stored, [ProviderNext]_<<sourceVars, providerVars>>
  PROVE  Stored'
<1>1. CASE UNCHANGED <<stored, import>>
  BY <1>1 DEF Stored
<1>2. CASE ImportStep
  <2>1. \A locator \in stored' : Kept(locator)
    BY <1>2, ImportStores, PlannedKept DEF Stored
  <2> QED BY <1>2, <2>1, ImportStores DEF Stored
<1>3. ASSUME NEW supplied \in SeqOf(Spelled, MaxLocators + 1), CaptureStores(supplied)
      PROVE  Stored'
  <2>1. import' = import
    BY <1>3 DEF CaptureStores
  <2>2. Kept(Canonical(capture.place))
    BY DEF Kept
  <2>3. \A locator \in stored' :
          \/ locator \in stored
          \/ locator = Canonical(capture.place)
          \/ ~ Artifacts(supplied).refusal /\ locator \in Artifacts(supplied).locators
    BY <1>3 DEF CaptureStores
  <2>4. \A locator \in stored' : Kept(locator)
    BY <2>2, <2>3, AdmittedKept DEF Stored
  <2> QED BY <2>1, <2>4 DEF Stored
<1>4. CASE SourceStep
  <2>1. ASSUME NEW v \in Spelled, CaptureSelects(v)
        PROVE  UNCHANGED <<stored, import>>
    BY <2>1 DEF CaptureSelects
  <2>2. CaptureOpens => UNCHANGED <<stored, import>>
    BY DEF CaptureOpens
  <2> QED BY <1>1, <1>2, <1>3, <1>4, <2>1, <2>2 DEF SourceStep
<1>5. ASSUME NEW between, OwnerEdits(between)
      PROVE  UNCHANGED <<stored, import>>
  BY <1>5 DEF OwnerEdits
<1>6. CASE ProviderStep \/ UNCHANGED <<sourceVars, providerVars>>
  <2>1. UNCHANGED sourceVars
    BY <1>6 DEF ProviderStep
  <2> QED BY <1>1, <2>1 DEF sourceVars
<1> QED BY <1>1, <1>4, <1>5, <1>6 DEF ProviderNext

(* A locator admitted once is let into a prompt if and only if it would be *)
(* admitted now, whichever entrance admitted it (source_files.py,          *)
(* reauthorize_prompt_locators).  For any tree and edits of it, any        *)
(* patterns, locators and payloads, and any import that begins.            *)
THEOREM PromptsPermittedHolds ==
  ASSUME NEW captures, NEW imports, NEW payloads, NEW budget,
         \A new \in imports : "contract" \in DOMAIN new /\ new.contract \in Contracts
  PROVE  SourceInit(captures, imports, payloads, budget)
           /\ [][ProviderNext]_<<sourceVars, providerVars>> => []PromptsPermitted
<1>1. SourceInit(captures, imports, payloads, budget) => Stored
  BY DEF SourceInit, Stored
<1>2. Stored /\ [ProviderNext]_<<sourceVars, providerVars>> => Stored'
  BY StoredKept
<1>3. Stored => PromptsPermitted
  BY KeptPermitted DEF Stored, PromptsPermitted
<1> QED BY <1>1, <1>2, <1>3, PTL

(***************************************************************************)
(* The records of a payload                                                *)
(***************************************************************************)

LEMMA RecordsFinite ==
  ASSUME NEW n \in Nat, NEW lines, DOMAIN lines = 1 .. n
  PROVE  /\ IsFiniteSet(Records(lines)) /\ Cardinality(Records(lines)) \in Nat
         /\ \A i \in Records(lines) : /\ i \in 1 .. n
                                      /\ Told(lines, i).number \in 1 .. Cardinality(Records(lines))
<1>1. IsFiniteSet(1 .. n)
  BY FS_Interval
<1>2. Records(lines) \subseteq 1 .. n
  BY DEF Records
<1>3. IsFiniteSet(Records(lines))
  BY <1>1, <1>2, FS_Subset
<1>4. Cardinality(Records(lines)) \in Nat
  BY <1>3, FS_CardinalityType
<1>5. ASSUME NEW i \in Records(lines)
      PROVE  Told(lines, i).number \in 1 .. Cardinality(Records(lines))
  <2> DEFINE upTo == {j \in Records(lines) : j =< i}
  <2>1. upTo \subseteq Records(lines) /\ i \in upTo
    BY <1>2, <1>5
  <2>2. IsFiniteSet(upTo) /\ Cardinality(upTo) =< Cardinality(Records(lines))
    BY <1>3, <2>1, FS_Subset
  <2>3. Cardinality(upTo) \in Nat /\ Cardinality(upTo) # 0
    BY <2>1, <2>2, FS_CardinalityType, FS_EmptySet
  <2>4. Told(lines, i).number = Cardinality(upTo)
    BY DEF Told
  <2> HIDE DEF upTo
  <2> QED BY <1>4, <2>2, <2>3, <2>4
<1> QED BY <1>2, <1>3, <1>4, <1>5

(* One more line: the records before it are told as they were, and its own *)
(* number, if it is one, is the next.                                      *)
LEMMA OneMoreLine ==
  ASSUME NEW n \in Nat, NEW lines, NEW read, DOMAIN lines = 1 .. n, DOMAIN read = 1 .. n + 1,
         \A i \in 1 .. n : read[i] = lines[i]
  PROVE  /\ \A i \in Records(lines) : Told(read, i) = Told(lines, i)
         /\ read[n + 1].kind = "blank" => Records(read) = Records(lines)
         /\ read[n + 1].kind # "blank" =>
              /\ Records(read) = Records(lines) \union {n + 1}
              /\ Cardinality(Records(read)) = Cardinality(Records(lines)) + 1
              /\ Told(read, n + 1).number = Cardinality(Records(lines)) + 1
<1>1. \A i \in 1 .. n : i \in 1 .. n + 1 /\ i # n + 1 /\ i =< n
  OBVIOUS
<1>2. \A i \in 1 .. n + 1 : i \in 1 .. n \/ i = n + 1
  OBVIOUS
<1>3. n + 1 \in 1 .. n + 1 /\ n + 1 \notin 1 .. n
  OBVIOUS
<1>4. Records(lines) = {i \in 1 .. n : lines[i].kind # "blank"}
  BY DEF Records
<1>5. Records(read) = {i \in 1 .. n + 1 : read[i].kind # "blank"}
  BY DEF Records
<1>6. Records(read) = Records(lines) \union {i \in {n + 1} : read[n + 1].kind # "blank"}
  <2>1. \A i : i \in Records(read) => i \in Records(lines) \/ (i = n + 1 /\ read[n + 1].kind # "blank")
    BY <1>2, <1>4, <1>5
  <2>2. \A i : i \in Records(lines) => i \in Records(read)
    BY <1>1, <1>4, <1>5
  <2>3. read[n + 1].kind # "blank" => n + 1 \in Records(read)
    BY <1>3, <1>5
  <2> QED BY <2>1, <2>2, <2>3
<1>7. ASSUME NEW i \in Records(lines) PROVE Told(read, i) = Told(lines, i)
  <2>1. i \in 1 .. n
    BY <1>4
  <2>2. ~ (n + 1 =< i)
    BY <2>1
  <2>3. {j \in Records(read) : j =< i} = {j \in Records(lines) : j =< i}
    BY <1>6, <2>2
  <2>4. read[i] = lines[i]
    BY <2>1
  <2> QED BY <2>3, <2>4 DEF Told
<1>8. CASE read[n + 1].kind # "blank"
  <2>1. Records(read) = Records(lines) \union {n + 1}
    BY <1>6, <1>8
  <2>2. n + 1 \notin Records(lines)
    BY <1>3, <1>4
  <2>3. IsFiniteSet(Records(lines))
    BY RecordsFinite
  <2>4. Cardinality(Records(lines) \union {n + 1}) = Cardinality(Records(lines)) + 1
    BY <2>2, <2>3, FS_AddElement
  <2>5. {j \in Records(read) : j =< n + 1} = Records(read)
    BY <1>5
  <2>6. Told(read, n + 1).number = Cardinality(Records(read))
    BY <2>5 DEF Told
  <2> QED BY <1>7, <1>8, <2>1, <2>4, <2>6
<1>9. CASE read[n + 1].kind = "blank"
  BY <1>6, <1>7, <1>9
<1> QED BY <1>8, <1>9

(* What an import reports of the lines it has read in its second pass.     *)
Reported(c) == c.accepted \union c.duplicate \union c.rejected

Partition(c) ==
  /\ Reported(c) = {Told(c.second, i) : i \in Records(c.second)}
  /\ IsFiniteSet(c.accepted) /\ IsFiniteSet(c.duplicate) /\ IsFiniteSet(c.rejected)
  /\ Cardinality(c.accepted) + Cardinality(c.duplicate) + Cardinality(c.rejected)
       = Cardinality(Records(c.second))

(* Where each identity it retains comes from.                              *)
Traced(c) ==
  /\ \A r, s \in c.accepted : r.id \notin DOMAIN c.known /\ (r.id = s.id => r = s)
  /\ \A r \in c.duplicate :
       \/ r.id \in DOMAIN c.known /\ c.known[r.id] = r.hash
       \/ \E s \in c.accepted : s.number < r.number /\ s.id = r.id /\ s.hash = r.hash
  /\ DOMAIN c.retained = DOMAIN c.known \union {r.id : r \in c.accepted}
  /\ \A id \in DOMAIN c.known : c.retained[id] = c.known[id]
  /\ \A r \in c.accepted : c.retained[r.id] = r.hash

(* The line read last is the record t, and put into one of the three sets. *)
Follows(n, lines, read, t) ==
  /\ n \in Nat /\ DOMAIN lines = 1 .. n /\ DOMAIN read = 1 .. n + 1
  /\ \A i \in 1 .. n : read[i] = lines[i]
  /\ read[n + 1].kind # "blank" /\ t = Told(read, n + 1)

Placed(c, e, t) ==
  \/ e.accepted = c.accepted \union {t} /\ e.duplicate = c.duplicate /\ e.rejected = c.rejected
  \/ e.accepted = c.accepted /\ e.duplicate = c.duplicate \union {t} /\ e.rejected = c.rejected
  \/ e.accepted = c.accepted /\ e.duplicate = c.duplicate /\ e.rejected = c.rejected \union {t}

LEMMA NumbersGrow ==
  ASSUME NEW c, NEW n, NEW read, NEW t, Partition(c), Follows(n, c.second, read, t)
  PROVE  \A r \in Reported(c) : r.number < t.number
<1> DEFINE was == c.second
           many == Cardinality(Records(was))
<1>0. n \in Nat /\ DOMAIN was = 1 .. n
  BY DEF Follows
<1>1. t.number = many + 1
  BY SMTT(20), OneMoreLine DEF Follows
<1>2. many \in Nat /\ \A i \in Records(was) : Told(was, i).number \in 1 .. many
  BY <1>0, RecordsFinite
<1>3. \A r \in Reported(c) : r.number \in 1 .. many
  BY <1>2 DEF Partition
<1> HIDE DEF many
<1> QED BY <1>1, <1>2, <1>3

(* The banking of one record, whatever its verdict, keeps both.            *)
LEMMA BankPartitions ==
  ASSUME NEW c, NEW e, NEW n, NEW read, NEW t, Partition(c), Follows(n, c.second, read, t),
         e.second = read, Placed(c, e, t)
  PROVE  Partition(e)
<1> DEFINE was == c.second
           many == Cardinality(Records(was))
<1>1. /\ \A i \in Records(was) : Told(read, i) = Told(was, i)
      /\ Records(read) = Records(was) \union {n + 1}
      /\ Cardinality(Records(read)) = many + 1
      /\ t.number = many + 1
  BY OneMoreLine DEF Follows
<1>2. many \in Nat
  BY RecordsFinite DEF Follows
<1>3. Reported(c) = {Told(was, i) : i \in Records(was)}
  BY DEF Partition
<1>4. \A r \in Reported(c) : r.number < t.number
  BY NumbersGrow
<1>6. t \notin Reported(c)
  <2>1. ~ (t.number < t.number)
    <3> HIDE DEF many
    <3> QED BY <1>1, <1>2
  <2> QED BY <1>4, <2>1
<1>7. Reported(e) = Reported(c) \union {t}
  BY DEF Reported, Placed
<1>8. {Told(read, i) : i \in Records(read)} = {Told(was, i) : i \in Records(was)} \union {t}
  <2>1. t = Told(read, n + 1)
    BY DEF Follows
  <2> HIDE DEF was
  <2> QED BY <1>1, <2>1
<1>9. t \notin c.accepted /\ t \notin c.duplicate /\ t \notin c.rejected
  BY <1>6 DEF Reported
<1>10. IsFiniteSet(c.accepted) /\ IsFiniteSet(c.duplicate) /\ IsFiniteSet(c.rejected)
  BY DEF Partition
<1>11. /\ IsFiniteSet(c.accepted \union {t})
       /\ Cardinality(c.accepted \union {t}) = Cardinality(c.accepted) + 1
       /\ IsFiniteSet(c.duplicate \union {t})
       /\ Cardinality(c.duplicate \union {t}) = Cardinality(c.duplicate) + 1
       /\ IsFiniteSet(c.rejected \union {t})
       /\ Cardinality(c.rejected \union {t}) = Cardinality(c.rejected) + 1
  BY <1>9, <1>10, FS_AddElement
<1>12. /\ Cardinality(c.accepted) \in Nat /\ Cardinality(c.duplicate) \in Nat
       /\ Cardinality(c.rejected) \in Nat
  BY <1>10, FS_CardinalityType
<1>13. Cardinality(c.accepted) + Cardinality(c.duplicate) + Cardinality(c.rejected) = many
  BY DEF Partition
<1>14. /\ IsFiniteSet(e.accepted) /\ IsFiniteSet(e.duplicate) /\ IsFiniteSet(e.rejected)
       /\ Cardinality(e.accepted) + Cardinality(e.duplicate) + Cardinality(e.rejected) = many + 1
  <2> DEFINE accepted == Cardinality(c.accepted)
             duplicate == Cardinality(c.duplicate)
             rejected == Cardinality(c.rejected)
  <2>1. /\ IsFiniteSet(e.accepted) /\ IsFiniteSet(e.duplicate) /\ IsFiniteSet(e.rejected)
        /\ \/ /\ Cardinality(e.accepted) = accepted + 1
              /\ Cardinality(e.duplicate) = duplicate /\ Cardinality(e.rejected) = rejected
           \/ /\ Cardinality(e.duplicate) = duplicate + 1
              /\ Cardinality(e.accepted) = accepted /\ Cardinality(e.rejected) = rejected
           \/ /\ Cardinality(e.rejected) = rejected + 1
              /\ Cardinality(e.duplicate) = duplicate /\ Cardinality(e.accepted) = accepted
    BY <1>10, <1>11 DEF Placed
  <2>2. /\ accepted \in Nat /\ duplicate \in Nat /\ rejected \in Nat
        /\ accepted + duplicate + rejected = many
    BY <1>12, <1>13
  <2> HIDE DEF many, accepted, duplicate, rejected
  <2> QED BY <2>1, <2>2
<1> HIDE DEF many, was
<1> QED BY <1>1, <1>3, <1>7, <1>8, <1>14 DEF Partition

LEMMA BankTraces ==
  ASSUME NEW c, NEW e, NEW t, NEW line, Traced(c), e.known = c.known,
         t.id = line.id, t.hash = line.hash,
         \A r \in Reported(c) : r.number < t.number,
         \/ /\ e.accepted = c.accepted \union {t} /\ e.duplicate = c.duplicate
            /\ line.id \notin DOMAIN c.retained /\ e.retained = Retains(c.retained, line)
         \/ /\ e.accepted = c.accepted /\ e.duplicate = c.duplicate \union {t}
            /\ line.id \in DOMAIN c.retained /\ c.retained[line.id] = line.hash
            /\ e.retained = c.retained
         \/ e.accepted = c.accepted /\ e.duplicate = c.duplicate /\ e.retained = c.retained
  PROVE  Traced(e)
<1>1. CASE /\ e.accepted = c.accepted \union {t} /\ e.duplicate = c.duplicate
           /\ line.id \notin DOMAIN c.retained /\ e.retained = Retains(c.retained, line)
  <2>1. /\ DOMAIN e.retained = DOMAIN c.retained \union {line.id}
        /\ e.retained[line.id] = line.hash
        /\ \A id \in DOMAIN c.retained : e.retained[id] = c.retained[id]
    BY <1>1 DEF Retains
  <2>2. line.id \notin DOMAIN c.known /\ \A r \in c.accepted : r.id # line.id
    BY <1>1 DEF Traced
  <2>3. DOMAIN e.retained = DOMAIN e.known \union {r.id : r \in e.accepted}
    BY <1>1, <2>1 DEF Traced
  <2>4. \A id \in DOMAIN e.known : e.retained[id] = e.known[id]
    BY <2>1 DEF Traced
  <2>5. \A r \in e.accepted : e.retained[r.id] = r.hash
    BY <1>1, <2>1 DEF Traced
  <2>6. \A r, s \in e.accepted : r.id \notin DOMAIN e.known /\ (r.id = s.id => r = s)
    BY <1>1, <2>2 DEF Traced
  <2>7. \A r \in e.duplicate :
          \/ r.id \in DOMAIN e.known /\ e.known[r.id] = r.hash
          \/ \E s \in e.accepted : s.number < r.number /\ s.id = r.id /\ s.hash = r.hash
    BY <1>1 DEF Traced
  <2> QED BY <2>3, <2>4, <2>5, <2>6, <2>7 DEF Traced
<1>2. CASE /\ e.accepted = c.accepted /\ e.duplicate = c.duplicate \union {t}
           /\ line.id \in DOMAIN c.retained /\ c.retained[line.id] = line.hash
           /\ e.retained = c.retained
  <2>1. \/ t.id \in DOMAIN c.known /\ c.known[t.id] = t.hash
        \/ \E s \in c.accepted : s.number < t.number /\ s.id = t.id /\ s.hash = t.hash
    <3>1. line.id \in DOMAIN c.known \/ \E s \in c.accepted : s.id = line.id
      BY <1>2 DEF Traced
    <3>2. \A s \in c.accepted : s.number < t.number
      BY DEF Reported
    <3> QED BY <1>2, <3>1, <3>2 DEF Traced
  <2> QED BY <1>2, <2>1 DEF Traced
<1>3. CASE e.accepted = c.accepted /\ e.duplicate = c.duplicate /\ e.retained = c.retained
  BY <1>3 DEF Traced
<1> QED BY <1>1, <1>2, <1>3

(***************************************************************************)
(* The two passes of an import                                             *)
(***************************************************************************)

Lines == UNION {{lines[i] : i \in DOMAIN lines} : lines \in Payloads}

LEMMA PayloadsAreLines ==
  /\ \A lines \in Payloads : lines \in Seq(Lines)
  /\ \A line \in Lines : line.objects \in Nat
<1>1. ASSUME NEW lines \in Payloads PROVE lines \in Seq(Lines)
  <2>1. lines \in Seq({lines[i] : i \in DOMAIN lines})
    BY PayloadsAssumption
  <2>2. {lines[i] : i \in DOMAIN lines} \subseteq Lines
    BY DEF Lines
  <2>3. PICK n \in Nat : lines \in [1 .. n -> {lines[i] : i \in DOMAIN lines}]
    BY <2>1
  <2>4. lines \in [1 .. n -> Lines]
    BY <2>2, <2>3
  <2> QED BY <2>4
<1>2. \A line \in Lines : line.objects \in Nat
  BY PayloadsAssumption DEF Lines
<1> QED BY <1>1, <1>2

Passing == {"count", "iterate", "lock", "replay", "classify"}

ImportShape ==
  /\ DOMAIN import = {"pc", "contract", "code", "stamp", "objects", "first", "second", "known",
                      "retained", "accepted", "duplicate", "rejected"}
  /\ import.pc \in Passing \union {"start", "over"}
  /\ import.first \in Seq(Lines) /\ import.second \in Seq(Lines)
  /\ import.objects \in Nat
  /\ payload.lines \in Seq(Lines)
  /\ payload.rewritten \in BOOLEAN

(* What each pass has read.                                                *)
PassesSound ==
  /\ import.pc = "start" => import.first = <<>> /\ import.objects = 0
  /\ import.pc \notin {"classify", "over"} => import.second = <<>> /\ Reported(import) = {}
  /\ ~ Multi => /\ import.pc = "count" => Len(import.first) =< 1
                /\ import.pc \in {"iterate", "lock", "replay", "classify"} => Len(import.first) = 1
                /\ import.pc = "classify" =>
                     /\ Len(import.second) =< 1
                     /\ Len(import.second) = 1 => import.second[1] = import.first[1]
  /\ import.pc \in {"iterate", "lock", "replay"} => import.objects = 0
  /\ import.pc = "over" /\ import.code = "success" => import.second = import.first

(* The first pass saw no line it would have ended at, and no more objects  *)
(* in all than the limit.                                                  *)
FirstSound ==
  /\ \A i \in 1 .. Len(import.first) :
       /\ import.first[i].kind # "not utf8"
       /\ ~ Multi => import.first[i].kind # "blank"
  /\ \E sums \in [1 .. Len(import.first) + 1 -> Nat] :
       /\ sums[1] = 0
       /\ \A i \in 1 .. Len(import.first) :
            sums[i + 1] = sums[i] + import.first[i].objects /\ sums[i + 1] =< MaxObjects
       /\ import.pc \in {"start", "count"} => import.objects = sums[Len(import.first) + 1]
       /\ import.pc = "classify" /\ ~ payload.rewritten /\ Len(import.second) =< Len(import.first) =>
            import.objects = sums[Len(import.second) + 1]

(* While the owner has edited nothing the payload is what the first pass   *)
(* saw, and the second sees it again.                                      *)
Unedited ==
  ~ payload.rewritten =>
    /\ import.pc \in Passing =>
         /\ payload.stamp = import.stamp
         /\ Multi => /\ Len(import.first) =< Len(payload.lines)
                     /\ \A i \in 1 .. Len(import.first) : import.first[i] = payload.lines[i]
         /\ Multi /\ import.pc # "count" => Len(import.first) = Len(payload.lines)
    /\ import.pc = "classify" =>
         /\ Len(import.second) =< Len(import.first)
         /\ \A i \in 1 .. Len(import.second) : import.second[i] = import.first[i]
    /\ import.pc = "over" /\ import.code \in PayloadFaults => import.accepted = {}

ImportSound ==
  /\ ImportShape /\ PassesSound /\ FirstSound /\ Unedited
  /\ Partition(import) /\ Traced(import)

LEMMA NoRecords == Records(<<>>) = {}
BY DEF Records

LEMMA ImportBegins ==
  ASSUME NEW captures, NEW imports, NEW payloads \in SUBSET (Payloads \union {<<>>}), NEW budget,
         \A new \in imports : new.contract \in Contracts
           /\ \/ new = NewImport(new.contract)
              \/ new = [NewImport(new.contract) EXCEPT !.pc = "over"],
         SourceInit(captures, imports, payloads, budget)
  PROVE  ImportSound
<1>1. /\ DOMAIN import = {"pc", "contract", "code", "stamp", "objects", "first", "second", "known",
                          "retained", "accepted", "duplicate", "rejected"}
      /\ import.pc \in {"start", "over"} /\ import.code = "" /\ import.objects = 0
      /\ import.first = <<>> /\ import.second = <<>> /\ import.known = <<>> /\ import.retained = <<>>
      /\ import.accepted = {} /\ import.duplicate = {} /\ import.rejected = {}
  <2>1. \/ import = NewImport(import.contract)
        \/ import = [NewImport(import.contract) EXCEPT !.pc = "over"]
    BY DEF SourceInit
  <2> DEFINE contract == import.contract
  <2>2. import = NewImport(contract) \/ import = [NewImport(contract) EXCEPT !.pc = "over"]
    BY <2>1
  <2> DEFINE new == NewImport(contract)
  <2>3. new = [pc |-> "start", contract |-> contract, code |-> "", stamp |-> 0, objects |-> 0,
               first |-> <<>>, second |-> <<>>, known |-> <<>>, retained |-> <<>>,
               accepted |-> {}, duplicate |-> {}, rejected |-> {}]
    BY DEF NewImport
  <2>6. import = new \/ import = [new EXCEPT !.pc = "over"]
    BY <2>2
  <2> HIDE DEF contract, new
  <2>4. CASE import = new
    BY <2>3, <2>4
  <2>5. CASE import = [new EXCEPT !.pc = "over"]
    BY <2>3, <2>5
  <2> QED BY <2>4, <2>5, <2>6
<1>2. payload.lines \in Seq(Lines) /\ payload.rewritten \in BOOLEAN
  <2>2. PICK lines \in payloads : payload = [lines |-> lines, stamp |-> 0, rewritten |-> FALSE]
    BY DEF SourceInit
  <2>3. lines \in Payloads \/ lines = <<>>
    BY <2>2
  <2>4. <<>> \in Seq(Lines)
    OBVIOUS
  <2>5. lines \in Seq(Lines)
    BY <2>3, <2>4, PayloadsAreLines
  <2> QED BY <2>2, <2>5
<1>3. ImportShape
  <2>1. <<>> \in Seq(Lines) /\ 0 \in Nat
    OBVIOUS
  <2> QED BY <1>1, <1>2, <2>1 DEF ImportShape
<1>4. PassesSound
  BY <1>1 DEF PassesSound, Reported
<1>5. FirstSound
  <2> DEFINE sums == [i \in 1 .. 1 |-> 0]
  <2>1. Len(import.first) = 0
    BY <1>1
  <2>2. sums \in [1 .. Len(import.first) + 1 -> Nat] /\ sums[1] = 0 /\ sums[Len(import.first) + 1] = 0
    BY <2>1
  <2>3. import.pc # "classify"
    BY <1>1
  <2>4. \A i : i \notin 1 .. Len(import.first)
    BY <2>1
  <2>5. import.objects = sums[Len(import.first) + 1]
    BY <1>1, <2>2
  <2> HIDE DEF sums
  <2> QED BY <2>2, <2>3, <2>4, <2>5 DEF FirstSound
<1>6. Unedited
  BY <1>1 DEF Unedited, Passing
<1>7. Partition(import)
  <2>1. Records(import.second) = {} /\ Reported(import) = {}
    BY <1>1, NoRecords DEF Reported
  <2>2. IsFiniteSet({}) /\ Cardinality({}) = 0
    BY FS_EmptySet
  <2>3. {Told(import.second, i) : i \in Records(import.second)} = {}
    BY <2>1
  <2>4. /\ IsFiniteSet(import.accepted) /\ IsFiniteSet(import.duplicate)
        /\ IsFiniteSet(import.rejected)
    BY <1>1, <2>2
  <2>5. /\ Cardinality(import.accepted) = 0 /\ Cardinality(import.duplicate) = 0
        /\ Cardinality(import.rejected) = 0 /\ Cardinality(Records(import.second)) = 0
    BY <1>1, <2>1, <2>2
  <2> QED BY <2>1, <2>3, <2>4, <2>5 DEF Partition
<1>8. Traced(import)
  BY <1>1 DEF Traced
<1> QED BY <1>3, <1>4, <1>5, <1>6, <1>7, <1>8 DEF ImportSound

LEMMA ImportEndsSound ==
  ASSUME ImportSound, NEW code, ImportEnds(code), UNCHANGED payload,
         code = "success" => import.second = import.first,
         ~ payload.rewritten /\ code \in PayloadFaults => import.accepted = {}
  PROVE  ImportSound'
<1> DEFINE Same(f) == import'[f] = import[f]
<1>1. /\ DOMAIN import' = DOMAIN import
      /\ import'.pc = "over" /\ import'.code = code
      /\ \A f \in DOMAIN import \ {"pc", "code"} : Same(f)
  BY DEF ImportSound, ImportShape, ImportEnds
<1>2. /\ Same("first") /\ Same("second") /\ Same("objects") /\ Same("accepted") /\ Same("duplicate")
      /\ Same("rejected") /\ Same("known") /\ Same("retained") /\ Same("contract")
  BY <1>1 DEF ImportSound, ImportShape
<1>3. ImportShape'
  BY <1>1, <1>2 DEF ImportSound, ImportShape
<1>4. PassesSound'
  BY <1>1, <1>2 DEF PassesSound, Multi
<1>5. FirstSound'
  BY ZenonT(40), <1>1, <1>2 DEF ImportSound, FirstSound, Multi
<1>6. Unedited'
  BY <1>1, <1>2 DEF Unedited, Passing
<1>7. Partition(import)' /\ Traced(import)'
  BY <1>2 DEF ImportSound, Partition, Traced, Reported
<1> QED BY <1>3, <1>4, <1>5, <1>6, <1>7 DEF ImportSound

LEMMA ImportOpensSound ==
  ASSUME ImportSound, ImportOpens
  PROVE  ImportSound'
<1>1. /\ import.pc = "start" /\ UNCHANGED payload
      /\ import' = [import EXCEPT !.pc = "count", !.stamp = payload.stamp]
  BY DEF ImportOpens, owned
<1>2. /\ DOMAIN import' = DOMAIN import /\ import'.pc = "count" /\ import'.stamp = payload.stamp
      /\ \A f \in DOMAIN import \ {"pc", "stamp"} : import'[f] = import[f]
  BY <1>1 DEF ImportSound, ImportShape
<1>3. /\ import'.first = import.first /\ import'.second = import.second
      /\ import'.objects = import.objects /\ import'.accepted = import.accepted
      /\ import'.duplicate = import.duplicate /\ import'.rejected = import.rejected
      /\ import'.known = import.known /\ import'.retained = import.retained
      /\ import'.contract = import.contract
  BY <1>2 DEF ImportSound, ImportShape
<1>4. import.first = <<>> /\ Len(import.first) = 0
  BY <1>1 DEF ImportSound, PassesSound
<1>5. ImportShape'
  BY <1>1, <1>2, <1>3 DEF ImportSound, ImportShape, Passing
<1>6. PassesSound'
  BY <1>1, <1>2, <1>3, <1>4 DEF ImportSound, PassesSound, Multi, Reported
<1>7. FirstSound'
  <2>1. PICK sums \in [1 .. Len(import.first) + 1 -> Nat] :
          /\ sums[1] = 0
          /\ \A i \in 1 .. Len(import.first) :
               sums[i + 1] = sums[i] + import.first[i].objects /\ sums[i + 1] =< MaxObjects
          /\ import.objects = sums[Len(import.first) + 1]
    BY <1>1 DEF ImportSound, FirstSound
  <2>2. \A i \in 1 .. Len(import'.first) : /\ import'.first[i].kind # "not utf8"
                                           /\ ~ Multi' => import'.first[i].kind # "blank"
    BY <1>3 DEF ImportSound, FirstSound, Multi
  <2> QED BY <1>2, <1>3, <2>1, <2>2 DEF FirstSound
<1>8. Unedited'
  <2>1. Len(payload.lines) \in Nat
    BY DEF ImportSound, ImportShape
  <2> QED BY <1>1, <1>2, <1>3, <1>4, <2>1 DEF Unedited, Passing, Multi
<1>9. Partition(import)' /\ Traced(import)'
  BY <1>3 DEF ImportSound, Partition, Traced, Reported
<1> QED BY <1>5, <1>6, <1>7, <1>8, <1>9 DEF ImportSound

LEMMA ImportLocksSound ==
  ASSUME ImportSound, ImportLocks
  PROVE  ImportSound'
<1>1. PICK known \in Retained :
        /\ import.pc = "lock" /\ UNCHANGED payload
        /\ import' = [import EXCEPT !.known = known, !.retained = known,
                        !.pc = IF Multi THEN "replay" ELSE "classify"]
  BY DEF ImportLocks, owned
<1>2. /\ DOMAIN import' = DOMAIN import /\ import'.pc = IF Multi THEN "replay" ELSE "classify"
      /\ import'.known = known /\ import'.retained = known
      /\ \A f \in DOMAIN import \ {"pc", "known", "retained"} : import'[f] = import[f]
  BY <1>1 DEF ImportSound, ImportShape
<1>3. /\ import'.first = import.first /\ import'.second = import.second
      /\ import'.objects = import.objects /\ import'.accepted = import.accepted
      /\ import'.duplicate = import.duplicate /\ import'.rejected = import.rejected
      /\ import'.stamp = import.stamp /\ import'.code = import.code
      /\ import'.contract = import.contract
  BY <1>2 DEF ImportSound, ImportShape
<1>4. /\ import.second = <<>> /\ Reported(import) = {} /\ import.objects = 0
      /\ Len(import.second) = 0
  BY <1>1 DEF ImportSound, PassesSound
<1>5. ImportShape'
  BY <1>1, <1>2, <1>3 DEF ImportSound, ImportShape, Passing
<1>6. PassesSound'
  BY <1>1, <1>2, <1>3, <1>4 DEF ImportSound, PassesSound, Multi, Reported
<1>7. FirstSound'
  <2>1. PICK sums \in [1 .. Len(import.first) + 1 -> Nat] :
          /\ sums[1] = 0
          /\ \A i \in 1 .. Len(import.first) :
               sums[i + 1] = sums[i] + import.first[i].objects /\ sums[i + 1] =< MaxObjects
    BY DEF ImportSound, FirstSound
  <2>2. \A i \in 1 .. Len(import'.first) : /\ import'.first[i].kind # "not utf8"
                                           /\ ~ Multi' => import'.first[i].kind # "blank"
    BY <1>3 DEF ImportSound, FirstSound, Multi
  <2>3. import'.objects = sums[Len(import'.second) + 1]
    BY <1>3, <1>4, <2>1
  <2>4. import'.pc \notin {"start", "count"}
    BY <1>2
  <2> QED BY <1>3, <2>1, <2>2, <2>3, <2>4 DEF FirstSound
<1>8. Unedited'
  <2>1. Len(import.first) \in Nat
    BY DEF ImportSound, ImportShape
  <2> QED BY <1>1, <1>2, <1>3, <1>4, <2>1 DEF ImportSound, Unedited, Passing, Multi
<1>9. Partition(import)'
  BY <1>3 DEF ImportSound, Partition, Reported
<1>10. Traced(import)'
  BY <1>2, <1>3, <1>4 DEF Traced, Reported
<1> QED BY <1>5, <1>6, <1>7, <1>8, <1>9, <1>10 DEF ImportSound

LEMMA ImportReconfirmsSound ==
  ASSUME ImportSound, ImportReconfirms
  PROVE  ImportSound'
<1> DEFINE next == CASE import.pc = "count" -> "iterate" [] import.pc = "iterate" -> "lock"
                     [] import.pc = "replay" -> "classify"
<1>1. /\ import.pc \in {"count", "iterate", "replay"} /\ UNCHANGED payload
      /\ import.pc = "count" => Exhausted("first")
      /\ \/ SamePayload /\ import' = [import EXCEPT !.objects = 0, !.pc = next]
         \/ ~ SamePayload /\ ImportEnds("import_payload_changed")
  BY DEF ImportReconfirms, owned
<1>2. import.second = <<>> /\ Reported(import) = {} /\ import.accepted = {} /\ Len(import.second) = 0
  BY <1>1 DEF ImportSound, PassesSound, Reported
<1>3. CASE ~ SamePayload /\ ImportEnds("import_payload_changed")
  BY <1>1, <1>2, <1>3, ImportEndsSound
<1>4. CASE import' = [import EXCEPT !.objects = 0, !.pc = next]
  <2>1. /\ next \in {"iterate", "lock", "classify"}
        /\ next = "classify" => import.pc = "replay"
        /\ next = "lock" => import.pc = "iterate"
        /\ next = "iterate" => import.pc = "count"
    BY <1>1
  <2> HIDE DEF next
  <2>2. /\ DOMAIN import' = DOMAIN import /\ import'.pc = next /\ import'.objects = 0
        /\ \A f \in DOMAIN import \ {"pc", "objects"} : import'[f] = import[f]
    BY <1>4 DEF ImportSound, ImportShape
  <2>3. /\ import'.first = import.first /\ import'.second = import.second
        /\ import'.stamp = import.stamp /\ import'.accepted = import.accepted
        /\ import'.duplicate = import.duplicate /\ import'.rejected = import.rejected
        /\ import'.known = import.known /\ import'.retained = import.retained
        /\ import'.contract = import.contract /\ import'.code = import.code
    BY <2>2 DEF ImportSound, ImportShape
  <2>4. Len(import.first) \in Nat /\ Len(payload.lines) \in Nat
    BY DEF ImportSound, ImportShape
  <2>5. import.pc = "count" => /\ Multi => Len(import.first) >= Len(payload.lines)
                               /\ ~ Multi => Len(import.first) >= 1
    BY <1>1 DEF Exhausted
  <2>6. ImportShape'
    BY <1>1, <2>1, <2>2, <2>3 DEF ImportSound, ImportShape, Passing
  <2>7. PassesSound'
    <3>1. ASSUME ~ Multi PROVE Len(import.first) = 1
      <4>1. import.pc = "count" => Len(import.first) =< 1
        BY <3>1 DEF ImportSound, PassesSound
      <4>2. import.pc \in {"iterate", "replay"} => Len(import.first) = 1
        BY <3>1 DEF ImportSound, PassesSound
      <4> DEFINE n == Len(import.first)
      <4>3. n \in Nat /\ (import.pc = "count" => n >= 1 /\ n =< 1)
        BY <2>4, <2>5, <3>1, <4>1
      <4>4. import.pc = "count" => n = 1
        <5> HIDE DEF n
        <5> QED BY <4>3
      <4> QED BY <1>1, <4>2, <4>4
    <3> QED BY <1>2, <2>1, <2>2, <2>3, <3>1 DEF PassesSound, Multi, Reported
  <2>8. FirstSound'
    <3>1. PICK sums \in [1 .. Len(import.first) + 1 -> Nat] :
            /\ sums[1] = 0
            /\ \A i \in 1 .. Len(import.first) :
                 sums[i + 1] = sums[i] + import.first[i].objects /\ sums[i + 1] =< MaxObjects
      BY DEF ImportSound, FirstSound
    <3>2. \A i \in 1 .. Len(import'.first) : /\ import'.first[i].kind # "not utf8"
                                             /\ ~ Multi' => import'.first[i].kind # "blank"
      BY <2>3 DEF ImportSound, FirstSound, Multi
    <3>3. import'.objects = sums[Len(import'.second) + 1]
      BY <1>2, <2>2, <2>3, <3>1
    <3>4. import'.pc \notin {"start", "count"}
      BY <2>1, <2>2
    <3> QED BY <2>3, <3>1, <3>2, <3>3, <3>4 DEF FirstSound
  <2>9. Unedited'
    <3>1. ASSUME ~ payload.rewritten, Multi PROVE Len(import.first) = Len(payload.lines)
      <4>1. Len(import.first) =< Len(payload.lines)
        BY <1>1, <3>1 DEF ImportSound, Unedited, Passing
      <4>2. import.pc # "count" => Len(import.first) = Len(payload.lines)
        BY <1>1, <3>1 DEF ImportSound, Unedited, Passing
      <4> QED BY <2>4, <2>5, <3>1, <4>1, <4>2
    <3> QED BY <1>1, <1>2, <2>1, <2>2, <2>3, <2>4, <3>1 DEF ImportSound, Unedited, Passing, Multi
  <2>10. Partition(import)' /\ Traced(import)'
    BY <2>3 DEF ImportSound, Partition, Traced, Reported
  <2> QED BY <2>6, <2>7, <2>8, <2>9, <2>10 DEF ImportSound
<1> QED BY <1>1, <1>3, <1>4

LEMMA ImportCountsSound ==
  ASSUME ImportSound, ImportCounts
  PROVE  ImportSound'
<1> DEFINE n == Len(import.first)
           line == payload.lines[n + 1]
           longer == Append(import.first, line)
           objects == import.objects + line.objects
<1>1. /\ import.pc = "count" /\ ~ Exhausted("first") /\ UNCHANGED payload
      /\ \/ ImportEnds("import_payload_invalid")
         \/ (Multi \/ Len(payload.lines) = 1) /\ Reads("first", line)
  BY DEF ImportCounts, owned
<1>2. import.second = <<>> /\ Reported(import) = {} /\ import.accepted = {}
  BY <1>1 DEF ImportSound, PassesSound, Reported
<1>3. ASSUME NEW code, code # "success", ImportEnds(code) PROVE ImportSound'
  BY <1>1, <1>2, <1>3, ImportEndsSound
<1>4. /\ import.first \in Seq(Lines) /\ payload.lines \in Seq(Lines) /\ n \in Nat
      /\ Len(payload.lines) \in Nat /\ import.objects \in Nat
  BY DEF ImportSound, ImportShape
<1>5. ASSUME Multi \/ Len(payload.lines) = 1, Reads("first", line) PROVE ImportSound'
  <2>1. (Multi => n + 1 =< Len(payload.lines)) /\ (~ Multi => n = 0 /\ n + 1 =< Len(payload.lines))
    <3>1. ~ (n >= IF Multi THEN Len(payload.lines) ELSE 1)
      BY <1>1 DEF Exhausted
    <3> HIDE DEF n
    <3> QED BY <1>4, <1>5, <3>1
  <2>2. line \in Lines /\ line.objects \in Nat
    <3>1. n + 1 \in 1 .. Len(payload.lines)
      BY <1>4, <2>1
    <3>2. line \in Lines
      BY <1>4, <3>1
    <3> QED BY <3>2, PayloadsAreLines
  <2>3. \/ \E code : code # "success" /\ ImportEnds(code)
        \/ /\ line.kind # "not utf8" /\ (~ Multi => line.kind # "blank") /\ objects =< MaxObjects
           /\ import' = [import EXCEPT !["first"] = longer, !.objects = objects]
    <3>1. CASE \E code : code # "success" /\ ImportEnds(code)
      BY <3>1
    <3>2. CASE /\ line.kind # "not utf8" /\ (line.kind \in {"not json", "blank"} => Multi)
               /\ ~ (import.objects + line.objects > MaxObjects)
               /\ import' = [import EXCEPT !["first"] = Append(import["first"], line),
                                           !.objects = import.objects + line.objects]
      <4>1. import' = [import EXCEPT !["first"] = longer, !.objects = objects]
        BY <3>2
      <4>2. objects =< MaxObjects
        <5>1. objects \in Nat /\ MaxObjects \in Nat
          BY SMTT(20), <1>4, <2>2, LimitsAssumption
        <5>2. ~ (objects > MaxObjects)
          BY <3>2
        <5> HIDE DEF objects
        <5> QED BY <5>1, <5>2
      <4>3. line.kind # "not utf8" /\ (~ Multi => line.kind # "blank")
        BY <3>2
      <4> QED BY <4>1, <4>2, <4>3
    <3> QED BY <1>5, <3>1, <3>2, ReadsEither
  <2>4. CASE /\ line.kind # "not utf8" /\ (~ Multi => line.kind # "blank") /\ objects =< MaxObjects
             /\ import' = [import EXCEPT !["first"] = longer, !.objects = objects]
    <3>1. /\ longer \in Seq(Lines) /\ Len(longer) = n + 1 /\ objects \in Nat
          /\ \A i \in 1 .. n : longer[i] = import.first[i]
          /\ longer[n + 1] = line
      BY <1>4, <2>2
    <3>9. /\ line.kind # "not utf8" /\ (~ Multi => line.kind # "blank") /\ objects =< MaxObjects
      BY <2>4
    <3>8. import' = [import EXCEPT !["first"] = longer, !.objects = objects]
      BY <2>4
    <3>7. objects = import.objects + line.objects /\ line = payload.lines[n + 1]
      OBVIOUS
    <3> HIDE DEF longer, objects, line
    <3>2. /\ import'.first = longer /\ import'.objects = objects /\ DOMAIN import' = DOMAIN import
          /\ \A f \in DOMAIN import \ {"first", "objects"} : import'[f] = import[f]
      BY <3>8 DEF ImportSound, ImportShape
    <3>3. /\ import'.second = import.second /\ import'.pc = "count" /\ import'.code = import.code
          /\ import'.stamp = import.stamp /\ import'.accepted = import.accepted
          /\ import'.duplicate = import.duplicate /\ import'.rejected = import.rejected
          /\ import'.known = import.known /\ import'.retained = import.retained
          /\ import'.contract = import.contract
      BY <1>1, <3>2 DEF ImportSound, ImportShape
    <3>4. ImportShape'
      BY <1>1, <3>1, <3>2, <3>3 DEF ImportSound, ImportShape, Passing
    <3>5. PassesSound'
      BY <1>2, <2>1, <3>1, <3>2, <3>3 DEF PassesSound, Multi, Reported
    <3>6. FirstSound'
      <4>1. PICK sums \in [1 .. n + 1 -> Nat] :
              /\ sums[1] = 0
              /\ \A i \in 1 .. n :
                   sums[i + 1] = sums[i] + import.first[i].objects /\ sums[i + 1] =< MaxObjects
              /\ import.objects = sums[n + 1]
        BY <1>1 DEF ImportSound, FirstSound
      <4> DEFINE further == [i \in 1 .. n + 2 |-> IF i = n + 2 THEN objects ELSE sums[i]]
      <4> HIDE DEF n
      <4>2. /\ further \in [1 .. n + 2 -> Nat] /\ further[n + 2] = objects
            /\ \A i \in 1 .. n + 1 : further[i] = sums[i]
        BY <1>4, <3>1
      <4> HIDE DEF further
      <4>3. \A i \in 1 .. n + 1 :
              further[i + 1] = further[i] + longer[i].objects /\ further[i + 1] =< MaxObjects
        <5>1. ASSUME NEW i \in 1 .. n
              PROVE  further[i + 1] = further[i] + longer[i].objects /\ further[i + 1] =< MaxObjects
          <6>1. i \in 1 .. n + 1 /\ i + 1 \in 1 .. n + 1
            BY <1>4
          <6> QED BY <3>1, <4>1, <4>2, <6>1
        <5>2. /\ further[(n + 1) + 1] = further[n + 1] + longer[n + 1].objects
              /\ further[(n + 1) + 1] =< MaxObjects
          <6>1. (n + 1) + 1 = n + 2 /\ n + 1 \in 1 .. n + 1
            BY <1>4
          <6> QED BY <3>1, <3>7, <3>9, <4>1, <4>2, <6>1
        <5>3. \A i \in 1 .. n + 1 : i \in 1 .. n \/ i = n + 1
          BY <1>4
        <5> QED BY <5>1, <5>2, <5>3
      <4>4. further[1] = 0
        <5>1. 1 \in 1 .. n + 1
          BY <1>4
        <5> QED BY <4>1, <4>2, <5>1
      <4>5. Len(import'.first) = n + 1 /\ (n + 1) + 1 = n + 2
        BY <1>4, <3>1, <3>2
      <4>6. \A i \in 1 .. n + 1 : /\ longer[i].kind # "not utf8"
                                  /\ ~ Multi => longer[i].kind # "blank"
        <5>1. \A i \in 1 .. n : /\ import.first[i].kind # "not utf8"
                                /\ ~ Multi => import.first[i].kind # "blank"
          BY DEF ImportSound, FirstSound, n
        <5>2. \A i \in 1 .. n + 1 : i \in 1 .. n \/ i = n + 1
          BY <1>4
        <5> QED BY <3>1, <3>9, <5>1, <5>2
      <4>7. Multi' = Multi
        BY <3>3 DEF Multi
      <4> QED BY ZenonT(40), <3>2, <3>3, <4>2, <4>3, <4>4, <4>5, <4>6, <4>7 DEF FirstSound
    <3>10. Unedited'
      <4>1. ASSUME ~ payload.rewritten, Multi
            PROVE  \A i \in 1 .. n + 1 : longer[i] = payload.lines[i]
        <5>1. \A i \in 1 .. n : import.first[i] = payload.lines[i]
          BY <1>1, <4>1 DEF ImportSound, Unedited, Passing
        <5>2. \A i \in 1 .. n + 1 : i \in 1 .. n \/ i = n + 1
          BY <1>4
        <5> QED BY <3>1, <3>7, <5>1, <5>2
      <4>2. ~ payload.rewritten => payload.stamp = import.stamp
        BY <1>1 DEF ImportSound, Unedited, Passing
      <4>3. import'.pc = "count" /\ Multi' = Multi
        BY <3>3 DEF Multi
      <4>4. Len(import'.first) = n + 1 /\ import'.first = longer
        BY <3>1, <3>2
      <4> HIDE DEF n
      <4> QED BY <1>1, <2>1, <3>3, <4>1, <4>2, <4>3, <4>4 DEF Unedited
    <3>11. Partition(import)' /\ Traced(import)'
      BY <3>3 DEF ImportSound, Partition, Traced, Reported
    <3> QED BY <3>4, <3>5, <3>6, <3>10, <3>11 DEF ImportSound
  <2> QED BY <1>3, <2>3, <2>4
<1> QED BY <1>1, <1>3, <1>5

(* What the second pass reads next, and that it is a line of the first one *)
(* as long as nothing was edited.                                          *)
LEMMA NextLine ==
  ASSUME ImportSound, import.pc = "classify", ~ Exhausted("second"),
         NEW line, line = IF Multi THEN payload.lines[Len(import.second) + 1] ELSE import.first[1]
  PROVE  /\ line \in Lines /\ line.objects \in Nat
         /\ ~ Multi => Len(import.second) = 0 /\ line = import.first[1]
         /\ ~ payload.rewritten =>
              /\ Len(import.second) + 1 =< Len(import.first)
              /\ line = import.first[Len(import.second) + 1]
              /\ line.kind # "not utf8" /\ (~ Multi => line.kind # "blank")
              /\ import.objects + line.objects =< MaxObjects
<1> DEFINE n == Len(import.second)
           m == Len(import.first)
<1>1. /\ n \in Nat /\ m \in Nat /\ Len(payload.lines) \in Nat
      /\ import.first \in Seq(Lines) /\ payload.lines \in Seq(Lines)
  BY DEF ImportSound, ImportShape
<1>2. ~ (n >= IF Multi THEN Len(payload.lines) ELSE 1)
  BY DEF Exhausted
<1>3. ~ Multi => m = 1 /\ n =< 1
  BY DEF ImportSound, PassesSound
<1>4. /\ Multi => n + 1 =< Len(payload.lines)
      /\ ~ Multi => n = 0 /\ m = 1
  <2> HIDE DEF n, m
  <2> QED BY <1>1, <1>2, <1>3
<1>5. line \in Lines
  <2>1. CASE Multi
    <3>1. n + 1 \in 1 .. Len(payload.lines)
      BY <1>1, <1>4, <2>1
    <3> QED BY <1>1, <2>1, <3>1
  <2>2. CASE ~ Multi
    <3>1. 1 \in 1 .. Len(import.first)
      BY <1>4, <2>2
    <3> QED BY <1>1, <2>2, <3>1
  <2> QED BY <2>1, <2>2
<1>6. ASSUME ~ payload.rewritten
      PROVE  /\ n + 1 =< m /\ line = import.first[n + 1]
             /\ line.kind # "not utf8" /\ (~ Multi => line.kind # "blank")
             /\ import.objects + line.objects =< MaxObjects
  <2>1. Multi => /\ m = Len(payload.lines)
                 /\ \A i \in 1 .. m : import.first[i] = payload.lines[i]
    BY <1>6 DEF ImportSound, Unedited, Passing
  <2>2. n + 1 =< m /\ n + 1 \in 1 .. m /\ n =< m
    <3> HIDE DEF n, m
    <3> QED BY <1>1, <1>4, <2>1
  <2>3. line = import.first[n + 1]
    <3>1. CASE Multi
      BY <2>1, <2>2, <3>1
    <3>2. CASE ~ Multi
      <4>1. n + 1 = 1
        BY <1>4, <3>2
      <4> QED BY <3>2, <4>1
    <3> QED BY <3>1, <3>2
  <2>4. line.kind # "not utf8" /\ (~ Multi => line.kind # "blank")
    BY <2>2, <2>3 DEF ImportSound, FirstSound
  <2>5. PICK sums \in [1 .. m + 1 -> Nat] :
          /\ \A i \in 1 .. m :
               sums[i + 1] = sums[i] + import.first[i].objects /\ sums[i + 1] =< MaxObjects
          /\ import.objects = sums[n + 1]
    BY <1>6, <2>2 DEF ImportSound, FirstSound
  <2>6. import.objects + line.objects =< MaxObjects
    BY <2>2, <2>3, <2>5
  <2> QED BY <2>2, <2>3, <2>4, <2>6
<1> QED BY <1>4, <1>5, <1>6, PayloadsAreLines

(* One more line read in the second pass, whatever becomes of it.          *)
LEMMA SecondLonger ==
  ASSUME ImportSound, import.pc = "classify", ~ Exhausted("second"), UNCHANGED payload,
         NEW line, line = IF Multi THEN payload.lines[Len(import.second) + 1] ELSE import.first[1],
         import'.second = Append(import.second, line),
         import'.objects = import.objects + line.objects,
         DOMAIN import' = DOMAIN import, import'.pc = import.pc, import'.code = import.code,
         import'.stamp = import.stamp, import'.first = import.first,
         import'.contract = import.contract
  PROVE  ImportShape' /\ PassesSound' /\ FirstSound' /\ Unedited'
<1> DEFINE n == Len(import.second)
           m == Len(import.first)
           longer == Append(import.second, line)
<1>1. /\ line \in Lines /\ line.objects \in Nat
      /\ ~ Multi => n = 0 /\ line = import.first[1]
      /\ ~ payload.rewritten => n + 1 =< m /\ line = import.first[n + 1]
  BY NextLine
<1>2. n \in Nat /\ m \in Nat /\ import.second \in Seq(Lines) /\ import.objects \in Nat
  BY DEF ImportSound, ImportShape
<1>3. /\ longer \in Seq(Lines) /\ Len(longer) = n + 1
      /\ \A i \in 1 .. n : longer[i] = import.second[i]
      /\ longer[n + 1] = line
  BY <1>1, <1>2
<1>4. import'.second = longer /\ Len(import'.second) = n + 1 /\ Multi' = Multi
  BY <1>3 DEF Multi
<1> HIDE DEF longer
<1>5. ImportShape'
  <2>1. import.objects + line.objects \in Nat
    BY <1>1, <1>2
  <2>2. payload' = payload /\ payload.lines \in Seq(Lines) /\ payload.rewritten \in BOOLEAN
    BY DEF ImportSound, ImportShape
  <2> QED BY <1>3, <1>4, <2>1, <2>2 DEF ImportSound, ImportShape
<1>6. PassesSound'
  <2>1. ~ Multi => m = 1
    BY DEF ImportSound, PassesSound
  <2>2. ~ Multi => Len(import'.second) =< 1 /\ import'.second[1] = import.first[1]
    <3>1. ASSUME ~ Multi PROVE Len(import'.second) =< 1 /\ import'.second[1] = import.first[1]
      <4>1. n + 1 = 1
        BY <1>1, <3>1
      <4> QED BY <1>1, <1>3, <1>4, <3>1, <4>1
    <3> QED BY <3>1
  <2> QED BY <1>4, <2>1, <2>2 DEF PassesSound
<1>7. FirstSound'
  <2>1. PICK sums \in [1 .. m + 1 -> Nat] :
          /\ sums[1] = 0
          /\ \A i \in 1 .. m :
               sums[i + 1] = sums[i] + import.first[i].objects /\ sums[i + 1] =< MaxObjects
          /\ ~ payload.rewritten /\ n =< m => import.objects = sums[n + 1]
    BY DEF ImportSound, FirstSound
  <2>2. ~ payload.rewritten => import'.objects = sums[(n + 1) + 1]
    <3>1. ASSUME ~ payload.rewritten PROVE import'.objects = sums[(n + 1) + 1]
      <4>1. n =< m /\ n + 1 \in 1 .. m
        <5>1. n + 1 =< m
          BY <1>1, <3>1
        <5> HIDE DEF n, m
        <5> QED BY <1>2, <5>1
      <4>2. line = import.first[n + 1]
        BY <1>1, <3>1
      <4> QED BY <2>1, <3>1, <4>1, <4>2
    <3> QED BY <3>1
  <2>3. \A i \in 1 .. m : /\ import'.first[i].kind # "not utf8"
                          /\ ~ Multi' => import'.first[i].kind # "blank"
    BY <1>4 DEF ImportSound, FirstSound
  <2> QED BY <1>4, <2>1, <2>2, <2>3 DEF FirstSound
<1>8. Unedited'
  <2>1. ASSUME ~ payload.rewritten
        PROVE  n + 1 =< m /\ \A i \in 1 .. n + 1 : longer[i] = import.first[i]
    <3>1. n + 1 =< m /\ line = import.first[n + 1]
      BY <1>1, <2>1
    <3>2. \A i \in 1 .. n : import.second[i] = import.first[i]
      BY <2>1 DEF ImportSound, Unedited
    <3>3. \A i \in 1 .. n + 1 : i \in 1 .. n \/ i = n + 1
      BY <1>2
    <3> QED BY <1>3, <3>1, <3>2, <3>3
  <2>2. ~ payload.rewritten =>
          /\ payload.stamp = import.stamp
          /\ Multi => /\ m =< Len(payload.lines)
                      /\ \A i \in 1 .. m : import.first[i] = payload.lines[i]
                      /\ m = Len(payload.lines)
    BY DEF ImportSound, Unedited, Passing
  <2> QED BY <1>4, <2>1, <2>2 DEF Unedited, Passing
<1> QED BY <1>5, <1>6, <1>7, <1>8

LEMMA ImportClassifiesSound ==
  ASSUME ImportSound, ImportClassifies
  PROVE  ImportSound'
<1> DEFINE n == Len(import.second)
           line == IF Multi THEN payload.lines[n + 1] ELSE import.first[1]
           longer == Append(import.second, line)
           skipped == \/ line.kind = "not utf8" \/ line.kind = "blank"
                      \/ import.objects + line.objects > MaxObjects
<1>1. /\ import.pc = "classify" /\ ~ Exhausted("second") /\ UNCHANGED payload
      /\ IF skipped THEN Reads("second", line) ELSE Banks(line, longer)
  BY DEF ImportClassifies, owned
<1>2. /\ line \in Lines /\ line.objects \in Nat
      /\ ~ payload.rewritten =>
           /\ line.kind # "not utf8" /\ (~ Multi => line.kind # "blank")
           /\ import.objects + line.objects =< MaxObjects
  BY <1>1, NextLine
<1>3. /\ import.second \in Seq(Lines) /\ n \in Nat /\ import.objects \in Nat /\ MaxObjects \in Nat
      /\ DOMAIN import.second = 1 .. n
  BY LimitsAssumption DEF ImportSound, ImportShape
<1>5. line = IF Multi THEN payload.lines[Len(import.second) + 1] ELSE import.first[1]
  OBVIOUS
<1> HIDE DEF line
<1>4. /\ DOMAIN longer = 1 .. n + 1 /\ Len(longer) = n + 1 /\ longer[n + 1] = line
      /\ \A i \in 1 .. n : longer[i] = import.second[i]
  <2>1. import.second \in Seq(Lines) /\ line \in Lines
    BY <1>2, <1>3
  <2>2. /\ longer \in Seq(Lines) /\ Len(longer) = n + 1 /\ longer[n + 1] = line
        /\ \A i \in 1 .. n : longer[i] = import.second[i]
    BY <2>1
  <2>3. DOMAIN longer = 1 .. Len(longer)
    BY <2>2
  <2> QED BY <2>2, <2>3
<1>6. longer = Append(import.second, line)
  OBVIOUS
<1>7. skipped <=> \/ line.kind = "not utf8" \/ line.kind = "blank"
                  \/ import.objects + line.objects > MaxObjects
  OBVIOUS
<1> HIDE DEF longer, skipped
<1>8. CASE skipped
  <2>1. Reads("second", line)
    BY <1>1, <1>8
  <2>2. CASE /\ \E code : code # "success" /\ ImportEnds(code)
             /\ \/ line.kind = "not utf8" \/ (line.kind \in {"not json", "blank"} /\ ~ Multi)
                \/ import.objects + line.objects > MaxObjects
    <3>1. payload.rewritten
      <4>1. ASSUME ~ payload.rewritten PROVE FALSE
        <5>1. ~ (import.objects + line.objects > MaxObjects)
          <6> DEFINE total == import.objects + line.objects
          <6>3. line.objects \in Nat /\ import.objects \in Nat
            BY <1>2, <1>3
          <6>4. total \in Nat
            BY <6>3
          <6>5. total =< MaxObjects
            BY <1>2, <4>1
          <6>1. total \in Nat /\ total =< MaxObjects
            BY <6>4, <6>5
          <6> HIDE DEF total
          <6>2. ~ (total > MaxObjects)
            BY <1>3, <6>1
          <6> QED BY <6>2 DEF total
        <5> QED BY <1>2, <1>7, <1>8, <2>2, <4>1, <5>1
      <4> QED BY <4>1
    <3> QED BY <1>1, <2>2, <3>1, ImportEndsSound
  <2>3. CASE /\ line.kind # "not utf8"
             /\ ~ (import.objects + line.objects > MaxObjects)
             /\ import' = [import EXCEPT !["second"] = Append(import["second"], line),
                                         !.objects = import.objects + line.objects]
    <3>1. longer[n + 1].kind = "blank"
      BY <1>4, <1>7, <1>8, <2>3
    <3>2. import' = [import EXCEPT !.second = longer, !.objects = import.objects + line.objects]
      BY <1>6, <2>3
    <3>3. /\ DOMAIN import' = DOMAIN import /\ import'.second = longer
          /\ import'.objects = import.objects + line.objects
          /\ \A f \in DOMAIN import \ {"second", "objects"} : import'[f] = import[f]
      BY <3>2 DEF ImportSound, ImportShape
    <3>4. /\ import'.pc = import.pc /\ import'.code = import.code /\ import'.stamp = import.stamp
          /\ import'.first = import.first /\ import'.contract = import.contract
          /\ import'.accepted = import.accepted /\ import'.duplicate = import.duplicate
          /\ import'.rejected = import.rejected /\ import'.known = import.known
          /\ import'.retained = import.retained
      BY <3>3 DEF ImportSound, ImportShape
    <3>5. ImportShape' /\ PassesSound' /\ FirstSound' /\ Unedited'
      BY <1>1, <1>5, <1>6, <3>3, <3>4, SecondLonger
    <3>6. /\ \A i \in Records(import.second) : Told(longer, i) = Told(import.second, i)
          /\ Records(longer) = Records(import.second)
      BY <1>3, <1>4, <3>1, OneMoreLine
    <3>7. {Told(longer, i) : i \in Records(longer)}
            = {Told(import.second, i) : i \in Records(import.second)}
      BY <3>6
    <3>8. Partition(import)'
      BY <3>3, <3>4, <3>6, <3>7 DEF ImportSound, Partition, Reported
    <3>9. Traced(import)'
      BY <3>4 DEF ImportSound, Traced
    <3> QED BY <3>5, <3>8, <3>9 DEF ImportSound
  <2> QED BY <2>1, <2>2, <2>3, ReadsEither
<1>9. CASE ~ skipped
  <2> DEFINE verdict == Verdict(line)
             t == Told(longer, n + 1)
  <2>1. Banks(line, longer)
    BY <1>1, <1>9
  <2>2. /\ verdict \in {"accepted", "duplicate", "rejected"}
        /\ verdict = "duplicate" => /\ line.id \in DOMAIN import.retained
                                    /\ import.retained[line.id] = line.hash
        /\ verdict = "accepted" => line.id \notin DOMAIN import.retained
    BY VerdictPasses DEF Held
  <2>3. t.id = line.id /\ t.hash = line.hash /\ t = Told(longer, n + 1)
    BY <1>4 DEF Told
  <2>4. import' = [import EXCEPT ![verdict] = import[verdict] \union {t}, !.second = longer,
                     !.objects = import.objects + line.objects,
                     !.retained = IF verdict = "accepted" THEN Retains(import.retained, line)
                                  ELSE import.retained]
    <3>1. import' = [import EXCEPT ![verdict] = @ \union {t}, !.second = longer,
                       !.objects = @ + line.objects,
                       !.retained = IF verdict = "accepted" THEN Retains(@, line) ELSE @]
      BY <1>4, <2>1 DEF Banks
    <3>2. verdict \notin {"second", "objects", "retained"}
      BY <2>2
    <3> HIDE DEF verdict, t
    <3> QED BY <3>1, <3>2
  <2> HIDE DEF verdict, t
  <2>5. /\ DOMAIN import' = DOMAIN import /\ import'.second = longer
        /\ import'.objects = import.objects + line.objects
        /\ import'.retained = IF verdict = "accepted" THEN Retains(import.retained, line)
                              ELSE import.retained
        /\ import'[verdict] = import[verdict] \union {t}
        /\ \A f \in DOMAIN import \ {verdict, "second", "objects", "retained"} :
             import'[f] = import[f]
    BY <2>2, <2>4 DEF ImportSound, ImportShape
  <2>6. /\ import'.pc = import.pc /\ import'.code = import.code /\ import'.stamp = import.stamp
        /\ import'.first = import.first /\ import'.contract = import.contract
        /\ import'.known = import.known
    BY <2>2, <2>5 DEF ImportSound, ImportShape
  <2>7. /\ verdict = "accepted" =>
             /\ import'.accepted = import.accepted \union {t}
             /\ import'.duplicate = import.duplicate /\ import'.rejected = import.rejected
        /\ verdict = "duplicate" =>
             /\ import'.duplicate = import.duplicate \union {t}
             /\ import'.accepted = import.accepted /\ import'.rejected = import.rejected
        /\ verdict = "rejected" =>
             /\ import'.rejected = import.rejected \union {t}
             /\ import'.duplicate = import.duplicate /\ import'.accepted = import.accepted
    BY <2>2, <2>5 DEF ImportSound, ImportShape
  <2>8. ImportShape' /\ PassesSound' /\ FirstSound' /\ Unedited'
    BY <1>1, <1>5, <1>6, <2>5, <2>6, SecondLonger
  <2>9. longer[n + 1].kind # "blank"
    BY <1>4, <1>7, <1>9
  <2>10. Partition(import) /\ Traced(import)
    BY DEF ImportSound
  <2> DEFINE next == import'
  <2>14. Placed(import, next, t)
    BY <2>2, <2>7 DEF Placed
  <2>15. \/ /\ next.accepted = import.accepted \union {t} /\ next.duplicate = import.duplicate
            /\ line.id \notin DOMAIN import.retained
            /\ next.retained = Retains(import.retained, line)
         \/ /\ next.accepted = import.accepted /\ next.duplicate = import.duplicate \union {t}
            /\ line.id \in DOMAIN import.retained /\ import.retained[line.id] = line.hash
            /\ next.retained = import.retained
         \/ /\ next.accepted = import.accepted /\ next.duplicate = import.duplicate
            /\ next.retained = import.retained
    BY <2>2, <2>5, <2>7
  <2>16. next.second = longer /\ next.known = import.known
    BY <2>5, <2>6
  <2> HIDE DEF next
  <2>11. /\ Partition(next) /\ \A r \in Reported(import) : r.number < t.number
    <3>1. Follows(n, import.second, longer, t)
      BY <1>3, <1>4, <2>3, <2>9 DEF Follows
    <3> HIDE DEF n
    <3> QED BY ONLY <2>10, <2>14, <2>16, <3>1, BankPartitions, NumbersGrow
  <2>12. Traced(next)
    BY ZenonT(40), <2>3, <2>10, <2>11, <2>15, <2>16, BankTraces
  <2>13. Partition(import)' /\ Traced(import)'
    BY <2>11, <2>12 DEF Partition, Traced, Reported, next
  <2> QED BY <2>8, <2>13 DEF ImportSound
<1> QED BY <1>8, <1>9

LEMMA SequencesEqual ==
  ASSUME NEW S, NEW s \in Seq(S), NEW t \in Seq(S), Len(s) = Len(t),
         \A i \in 1 .. Len(s) : s[i] = t[i]
  PROVE  s = t
<1>1. s \in [1 .. Len(s) -> S] /\ t \in [1 .. Len(s) -> S]
  OBVIOUS
<1> QED BY <1>1

LEMMA ImportFinishesSound ==
  ASSUME ImportSound, ImportFinishes
  PROVE  ImportSound'
<1> DEFINE n == Len(import.second)
           m == Len(import.first)
           code == IF SameContent THEN "success" ELSE "import_payload_changed"
<1>1. /\ import.pc = "classify" /\ Exhausted("second") /\ UNCHANGED payload
      /\ ImportEnds(code)
  BY DEF ImportFinishes, owned
<1>2. /\ n \in Nat /\ m \in Nat /\ Len(payload.lines) \in Nat
      /\ import.second \in Seq(Lines) /\ import.first \in Seq(Lines)
  BY DEF ImportSound, ImportShape
<1>3. n >= IF Multi THEN Len(payload.lines) ELSE 1
  BY <1>1 DEF Exhausted
<1>4. ~ Multi => m = 1 /\ n =< 1 /\ (n = 1 => import.second[1] = import.first[1])
  BY <1>1 DEF ImportSound, PassesSound
<1>5. ASSUME ~ Multi PROVE import.second = import.first
  <2>1. m = 1 /\ n = 1
    <3> HIDE DEF n, m
    <3> QED BY <1>2, <1>3, <1>4, <1>5
  <2>2. \A i \in 1 .. Len(import.second) : import.second[i] = import.first[i]
    <3>1. \A i \in 1 .. 1 : i = 1
      OBVIOUS
    <3> QED BY <1>4, <1>5, <2>1, <3>1
  <2> QED BY <1>2, <2>1, <2>2, SequencesEqual
<1>6. code = "success" => import.second = import.first
  BY <1>5 DEF SameContent
<1>7. ASSUME ~ payload.rewritten, code # "success" PROVE FALSE
  <2>1. Multi /\ import.second # import.first
    BY <1>5, <1>7 DEF SameContent
  <2>2. /\ m = Len(payload.lines) /\ n =< m
        /\ \A i \in 1 .. n : import.second[i] = import.first[i]
    BY <1>1, <1>7, <2>1 DEF ImportSound, Unedited, Passing
  <2>3. n = m
    <3> HIDE DEF n, m
    <3> QED BY <1>2, <1>3, <2>1, <2>2
  <2> QED BY <1>2, <2>1, <2>2, <2>3, SequencesEqual
<1>8. code \in PayloadFaults => code # "success"
  BY DEF PayloadFaults
<1> HIDE DEF code
<1> QED BY <1>1, <1>6, <1>7, <1>8, ImportEndsSound

(* Whatever is raised, it does not blame the payload.                      *)
LEMMA ImportRaisesSound ==
  ASSUME ImportSound, ImportRaises
  PROVE  ImportSound'
<1>1. ImportEnds("raised") /\ payload' = payload
  BY DEF ImportRaises, owned
<1> DEFINE code == "raised"
<1>2. code \notin PayloadFaults /\ code # "success"
  BY DEF PayloadFaults
<1>3. ImportEnds(code)
  BY <1>1
<1> HIDE DEF code
<1> QED BY <1>1, <1>2, <1>3, ImportEndsSound

(* An edit by the owner: the payload stays what it is, or was rewritten.   *)
LEMMA EditSound ==
  ASSUME ImportSound, NEW between, OwnerEdits(between)
  PROVE  ImportSound'
<1>1. /\ import' = import
      /\ \/ payload' = payload
         \/ \E lines \in Payloads : \E stamp :
              payload' = [lines |-> lines, stamp |-> stamp, rewritten |-> TRUE]
  BY DEF OwnerEdits
<1>2. payload' = payload \/ payload'.rewritten = TRUE
  BY <1>1
<1>3. payload'.rewritten \in BOOLEAN
  BY <1>2 DEF ImportSound, ImportShape
<1>4. payload'.lines \in Seq(Lines)
  BY <1>1, PayloadsAreLines DEF ImportSound, ImportShape
<1>5. ImportShape'
  BY <1>1, <1>3, <1>4 DEF ImportSound, ImportShape
<1>6. PassesSound'
  BY <1>1 DEF ImportSound, PassesSound, Multi, Reported
<1>7. FirstSound'
  BY <1>1, <1>2 DEF ImportSound, FirstSound, Multi
<1>8. Unedited'
  BY <1>1, <1>2 DEF ImportSound, Unedited, Multi
<1>9. Partition(import)' /\ Traced(import)'
  BY <1>1 DEF ImportSound, Partition, Traced, Reported
<1> QED BY <1>5, <1>6, <1>7, <1>8, <1>9 DEF ImportSound

LEMMA ImportKept ==
  ASSUME ImportSound, [ProviderNext]_<<sourceVars, providerVars>>
  PROVE  ImportSound'
<1>1. CASE UNCHANGED <<import, payload>>
  <2>1. ImportShape'
    BY <1>1 DEF ImportSound, ImportShape
  <2>2. PassesSound' /\ FirstSound'
    BY ZenonT(40), <1>1 DEF ImportSound, PassesSound, FirstSound, Multi, Reported
  <2>3. Unedited'
    BY <1>1 DEF ImportSound, Unedited, Multi
  <2>4. Partition(import)' /\ Traced(import)'
    BY <1>1 DEF ImportSound, Partition, Traced, Reported
  <2> QED BY <2>1, <2>2, <2>3, <2>4 DEF ImportSound
<1>2. CASE ImportStep
  BY <1>2, ImportOpensSound, ImportCountsSound, ImportReconfirmsSound, ImportLocksSound,
     ImportClassifiesSound, ImportFinishesSound, ImportRaisesSound DEF ImportStep
<1>3. CASE SourceStep
  <2>1. ASSUME NEW v \in Spelled, CaptureSelects(v) PROVE UNCHANGED <<import, payload>>
    BY <2>1 DEF CaptureSelects, owned
  <2>2. CaptureOpens => UNCHANGED <<import, payload>>
    BY DEF CaptureOpens, owned
  <2>3. ASSUME NEW supplied, CaptureStores(supplied) PROVE UNCHANGED <<import, payload>>
    BY <2>3 DEF CaptureStores, owned
  <2> QED BY <1>1, <1>2, <1>3, <2>1, <2>2, <2>3 DEF SourceStep
<1>4. CASE ProviderStep \/ UNCHANGED <<sourceVars, providerVars>>
  BY <1>1, <1>4 DEF ProviderStep, sourceVars
<1> QED BY <1>3, <1>4, EditSound DEF ProviderNext

LEMMA OnePayloadReported ==
  ASSUME ImportSound
  PROVE  ReportsOnePayload
<1> DEFINE read == IF import.code = "success" THEN import.first ELSE import.second
<1>1. ASSUME import.pc = "over" PROVE read = import.second /\ Partition(import) /\ Traced(import)
  BY <1>1 DEF ImportSound, PassesSound
<1>2. ASSUME import.pc = "over", import.code \in PayloadFaults, import.accepted # {}
      PROVE  payload.rewritten
  BY <1>2 DEF ImportSound, Unedited
<1>3. ASSUME import.pc = "over"
      PROVE  /\ import.accepted \union import.duplicate \union import.rejected
                  = {Told(read, i) : i \in Records(read)}
             /\ Cardinality(import.accepted) + Cardinality(import.duplicate)
                  + Cardinality(import.rejected) = Cardinality(Records(read))
  <2> HIDE DEF read
  <2> QED BY <1>1, <1>3 DEF Partition, Reported
<1>4. ASSUME import.pc = "over"
      PROVE  /\ \A r, s \in import.accepted :
                  r.id \notin DOMAIN import.known /\ (r.id = s.id => r = s)
             /\ \A r \in import.duplicate :
                  \/ r.id \in DOMAIN import.known /\ import.known[r.id] = r.hash
                  \/ \E s \in import.accepted :
                       s.number < r.number /\ s.id = r.id /\ s.hash = r.hash
  BY <1>1, <1>4 DEF Traced
<1> QED BY <1>2, <1>3, <1>4 DEF ReportsOnePayload

(* However an import ends, what it reports is what its second pass has     *)
(* read, each record once and no identity accepted twice; if it succeeds   *)
(* these are the records of the one payload its first pass saw whole, and  *)
(* it blames the payload after it has accepted a record only if it was     *)
(* rewritten while open (PayloadRecords, _classify, _reconfirm_content;    *)
(* import_payload).  For any payloads, any identities retained, any edits  *)
(* of the owner, and an interrupt or an error at any moment.               *)
THEOREM ReportsOnePayloadHolds ==
  ASSUME NEW captures, NEW imports, NEW payloads \in SUBSET (Payloads \union {<<>>}), NEW budget,
         \A new \in imports : new.contract \in Contracts
           /\ \/ new = NewImport(new.contract)
              \/ new = [NewImport(new.contract) EXCEPT !.pc = "over"]
  PROVE  SourceInit(captures, imports, payloads, budget)
           /\ [][ProviderNext]_<<sourceVars, providerVars>> => []ReportsOnePayload
<1>1. SourceInit(captures, imports, payloads, budget) => ImportSound
  BY ImportBegins
<1>2. ImportSound /\ [ProviderNext]_<<sourceVars, providerVars>> => ImportSound'
  BY ImportKept
<1>3. ImportSound => ReportsOnePayload
  BY OnePayloadReported
<1> QED BY <1>1, <1>2, <1>3, PTL

===============================================================================
