------------------------------ MODULE ViewServer ------------------------------
(***************************************************************************)
(* The loopback server of services/view_server.py: the main thread opens,  *)
(* accepts, drains and stops; every SIGINT pushes a handler frame on that  *)
(* same thread; each admitted connection has a thread, its resolver a      *)
(* child process, a starter thread and the reaper. Expiry of a phase is a  *)
(* choice, expiry of the drain is the flag `late`.                         *)
(***************************************************************************)
EXTENDS Naturals, Sequences, FiniteSets

CONSTANTS Conns,        \* connections that may arrive
          NoConn,       \* no connection
          Slots,        \* MAX_CONNECTIONS, of admissions and of starts
          MaxSignals    \* bound on the interrupts the owner sends

ASSUME NoConnAssumption == NoConn \notin Conns
ASSUME SlotsAssumption == Slots \in Nat \ {0} /\ MaxSignals \in Nat
ASSUME ConnsAssumption == IsFiniteSet(Conns)

VARIABLES stack,        \* frames of the main thread, the handlers' on top
          result,       \* what serve() returned or raised
          signals,      \* interrupts delivered so far
          srv,          \* listener, flags, reporter
          free,         \* _slots
          startFree,    \* _process_start_slots
          active,       \* _active
          handles,      \* connections with a registered _ProcessHandle
          link,         \* connection threads with their admission leases
          start,        \* starter threads with their _ProcessHandle
          event,        \* the multiprocessing events of a resolver
          child,        \* resolver processes
          reaper        \* the reaper thread and its queue

vars == <<stack, result, signals, srv, free, startFree, active, handles, link,
          start, event, child, reaper>>

-----------------------------------------------------------------------------

(* A frame of the main thread; `todo` is the snapshot _force_close wakes,  *)
(* `cur` the handle or connection in hand.                                 *)
Frames == [pc : {"open", "register", "assign", "advertise", "announce", "serve", "loop",
                 "admit", "spawn", "leave", "drain", "snap", "wake", "waking", "woken",
                 "kill", "answer", "stop", "over",
                 "first", "setting", "second", "forcing"},
           todo : SUBSET Conns, cur : Conns \cup {NoConn}, expired : BOOLEAN]

(* A `missed` listener was registered behind the interrupt.                *)
Servers == [listener : {"none", "bound", "open", "missed", "closed"},
            draining : BOOLEAN, immediate : BOOLEAN, late : BOOLEAN,
            reporter : BOOLEAN, sentinel : BOOLEAN, stopping : BOOLEAN]

Links == [pc : {"idle", "refused", "accepted", "receive", "resolve", "begin",
                "waiting", "result", "wake", "woken", "finish", "finishing",
                "finished", "defer", "emit", "release", "over"},
          page : BOOLEAN, forced : BOOLEAN, lateLine : BOOLEAN,
          connectionDone : BOOLEAN, processDone : BOOLEAN, released : BOOLEAN]

(* `ok`: process.start() returned; `seen`: complete_start saw the          *)
(* cancellation.                                                           *)
Starts == [pc : {"none", "start", "events", "kill", "done"},
           started : BOOLEAN, failed : BOOLEAN, cancelled : BOOLEAN,
           ok : BOOLEAN, seen : BOOLEAN]

(* `holder` has the lock inside the cancel event, which thread and child   *)
(* share; `lost`: the child was killed asleep on the start event.          *)
Events == [set : BOOLEAN, allowed : BOOLEAN, lost : BOOLEAN,
           holder : {"free", "main", "child"}]

Children == [at : {"none", "gate", "polling", "final", "working", "dead"}, killed : BOOLEAN]

Reapers == [pc : {"none", "idle", "wake", "finish", "gone"},
            cur : Conns \cup {NoConn}, queue : SUBSET Conns,
            round : SUBSET Conns, leased : SUBSET Conns]

TypeOK ==
  /\ stack \in Seq(Frames) /\ Len(stack) \in 1 .. MaxSignals + 1
  /\ result \in {"none", "drained", "expired", "interrupted", "failed"}
  /\ signals \in 0 .. MaxSignals
  /\ srv \in Servers
  /\ free \in 0 .. Slots /\ startFree \in 0 .. Slots
  /\ active \in 0 .. Cardinality(Conns)
  /\ handles \in SUBSET Conns
  /\ link \in [Conns -> Links]
  /\ start \in [Conns -> Starts]
  /\ event \in [Conns -> Events]
  /\ child \in [Conns -> Children]
  /\ reaper \in Reapers

Frame(pc) == [pc |-> pc, todo |-> {}, cur |-> NoConn, expired |-> FALSE]

Init ==
  /\ stack = <<Frame("open")>>
  /\ result = "none" /\ signals = 0
  /\ srv = [listener |-> "none", draining |-> FALSE, immediate |-> FALSE,
            late |-> FALSE, reporter |-> FALSE, sentinel |-> FALSE,
            stopping |-> FALSE]
  /\ free = Slots /\ startFree = Slots /\ active = 0 /\ handles = {}
  /\ link = [c \in Conns |->
        [pc |-> "idle", page |-> FALSE, forced |-> FALSE, lateLine |-> FALSE,
         connectionDone |-> FALSE, processDone |-> TRUE, released |-> FALSE]]
  /\ start = [c \in Conns |->
        [pc |-> "none", started |-> FALSE, failed |-> FALSE,
         cancelled |-> FALSE, ok |-> FALSE, seen |-> FALSE]]
  /\ event = [c \in Conns |-> [set |-> FALSE, allowed |-> FALSE, lost |-> FALSE,
                               holder |-> "free"]]
  /\ child = [c \in Conns |-> [at |-> "none", killed |-> FALSE]]
  /\ reaper = [pc |-> "none", cur |-> NoConn, queue |-> {}, round |-> {},
                leased |-> {}]

-----------------------------------------------------------------------------
(* The main thread: only its topmost frame runs.                           *)

Top     == stack[Len(stack)]
At(pc)  == Top.pc = pc
Base    == stack[1]
SetTop(frame) == stack' = [stack EXCEPT ![Len(stack)] = frame]
Goto(pc) == SetTop([Top EXCEPT !.pc = pc])
Return  == stack' = SubSeq(stack, 1, Len(stack) - 1)

Threads == <<handles, link, start, event, child, reaper>>
Counts  == <<free, startFree, active>>
Rest    == <<signals, Counts, Threads>>     \* what most main steps leave alone

(* A signal is handled between two steps of the main thread, also of a     *)
(* handler's; the handler begins by testing the two flags.                 *)
Interrupt ==
  /\ signals < MaxSignals /\ Base.pc # "over"
  /\ signals' = signals + 1
  /\ stack' = IF ~ srv.draining THEN Append(stack, Frame("first"))
              ELSE IF ~ srv.immediate THEN Append(stack, Frame("second"))
              ELSE stack
  /\ UNCHANGED <<result, srv, Counts, Threads>>

(* open(): refused by an interrupt, bound, or failed.                      *)
Open ==
  /\ At("open")
  /\ \/ srv.draining /\ Goto("advertise") /\ UNCHANGED <<result, srv>>
     \/ /\ ~ srv.draining
        /\ srv' = [srv EXCEPT !.listener = "bound"]
        /\ Goto("register") /\ UNCHANGED result
     \/ /\ ~ srv.draining
        /\ result' = "failed" /\ Goto("over") /\ UNCHANGED srv
  /\ UNCHANGED Rest

(* The drain check under the state lock, ...                               *)
Register ==
  /\ At("register")
  /\ \/ /\ srv.draining
        /\ srv' = [srv EXCEPT !.listener = "closed"]
        /\ Goto("advertise")
     \/ ~ srv.draining /\ Goto("assign") /\ UNCHANGED srv
  /\ UNCHANGED <<result, Rest>>

(* ... and the registration. The lock is reentrant and is_set() is a call, *)
(* behind which Python 3.10 handles signals: a handler that ran since the  *)
(* check found no listener to close, and nobody closes this one later.     *)
Assign ==
  /\ At("assign")
  /\ srv' = [srv EXCEPT !.listener = IF srv.draining THEN "missed" ELSE "open"]
  /\ Goto("advertise")
  /\ UNCHANGED <<result, Rest>>

(* advertise(): the reporter is started, its refusal closes the listener.  *)
Advertise ==
  /\ At("advertise")
  /\ \/ /\ srv.listener # "open" \/ srv.draining
        /\ Goto("serve") /\ UNCHANGED <<result, srv>>
     \/ /\ srv.listener = "open" /\ ~ srv.draining
        /\ srv' = [srv EXCEPT !.reporter = TRUE]
        /\ Goto("announce") /\ UNCHANGED result
     \/ /\ srv.listener = "open" /\ ~ srv.draining
        /\ srv' = [srv EXCEPT !.listener = "closed"]
        /\ result' = "failed" /\ Goto("over")
  /\ UNCHANGED Rest

(* The URLs are out, or were dropped by an interrupt; a failed write       *)
(* aborts: listener closed, reporter stopped.                              *)
Announce ==
  /\ At("announce")
  /\ \/ Goto("serve") /\ UNCHANGED <<result, srv>>
     \/ /\ srv' = [srv EXCEPT !.listener = "closed", !.sentinel = TRUE]
        /\ result' = "failed" /\ Goto("over")
  /\ UNCHANGED Rest

(* An interruption before serving: nothing to accept, and nothing to close *)
(* that the handler has not closed.                                        *)
Serve == /\ At("serve")
         /\ Goto(IF srv.draining THEN "drain" ELSE "loop")
         /\ UNCHANGED <<result, srv, Rest>>

(* The accept loop of _serve. An accept that waits is ended by the closed  *)
(* listener only, and the flag tells why.                                  *)
LeaveLoop == /\ At("loop") /\ srv.draining /\ srv.listener = "closed"
             /\ Goto("leave")
             /\ UNCHANGED <<result, srv, Rest>>

(* Refused without a slot, or on its way to admission.                     *)
Accept(c) ==
  /\ At("loop") /\ link[c].pc = "idle" /\ srv.listener = "open"
  /\ \/ /\ free = 0
        /\ link' = [link EXCEPT ![c].pc = "refused"]
        /\ UNCHANGED <<stack, free>>
     \/ /\ free > 0
        /\ free' = free - 1
        /\ link' = [link EXCEPT ![c].pc = "accepted"]
        /\ SetTop([Top EXCEPT !.pc = "admit", !.cur = c])
  /\ UNCHANGED <<result, signals, srv, startFree, active, handles, start, event,
                 child, reaper>>

AcceptFails == /\ At("loop") /\ ~ srv.draining
               /\ result' = "failed"
               /\ Goto("snap")
               /\ UNCHANGED <<srv, Rest>>

(* Mutant: the admission is not counted.                                   *)
AdmitUncounted ==
  /\ At("admit")
  /\ IF srv.draining
       THEN /\ free' = free + 1
            /\ link' = [link EXCEPT ![Top.cur].pc = "refused"]
            /\ SetTop([Top EXCEPT !.pc = "loop", !.cur = NoConn])
       ELSE Goto("spawn") /\ UNCHANGED <<free, link>>
  /\ UNCHANGED <<result, signals, srv, startFree, active, handles, start, event,
                 child, reaper>>

(* The drain boundary is checked again after accept returned.              *)
Admit ==
  /\ At("admit")
  /\ IF srv.draining
       THEN /\ free' = free + 1
            /\ link' = [link EXCEPT ![Top.cur].pc = "refused"]
            /\ SetTop([Top EXCEPT !.pc = "loop", !.cur = NoConn])
            /\ UNCHANGED active
       ELSE active' = active + 1 /\ Goto("spawn") /\ UNCHANGED <<free, link>>
  /\ UNCHANGED <<result, signals, srv, startFree, handles, start, event, child,
                 reaper>>

(* The connection's thread starts, or the system refuses it.               *)
Spawn ==
  /\ At("spawn")
  /\ SetTop([Top EXCEPT !.pc = "loop", !.cur = NoConn])
  /\ \/ /\ link' = [link EXCEPT ![Top.cur].pc = "receive"]
        /\ UNCHANGED <<free, active>>
     \/ /\ link' = [link EXCEPT ![Top.cur].pc = "refused"]
        /\ free' = free + 1 /\ active' = active - 1
  /\ UNCHANGED <<result, signals, srv, startFree, handles, start, event, child,
                 reaper>>

Leave == /\ At("leave")
         /\ srv' = [srv EXCEPT !.listener = "closed"]
         /\ Goto(IF result = "failed" THEN "stop" ELSE "drain")
         /\ UNCHANGED <<result, Rest>>

-----------------------------------------------------------------------------
(* The drain, the forced close and the end of serve().                     *)

(* The drain deadline, fixed at the first interrupt, passes.               *)
Expire == /\ srv.draining /\ ~ srv.late
          /\ srv' = [srv EXCEPT !.late = TRUE]
          /\ UNCHANGED <<stack, result, Rest>>

(* Mutant: the drain does not wait for the admitted count.                 *)
DrainAtOnce ==
  /\ At("drain")
  /\ Goto("answer")
  /\ UNCHANGED <<result, srv, Rest>>

(* _wait_idle: the admitted count is zero or the close is immediate, or    *)
(* the deadline passed first and the close is forced.                      *)
Drain ==
  /\ At("drain")
  /\ \/ (active = 0 \/ srv.immediate) /\ Goto("answer")
     \/ /\ active > 0 /\ ~ srv.immediate /\ srv.late
        /\ SetTop([Top EXCEPT !.pc = "snap", !.expired = TRUE])
  /\ UNCHANGED <<result, srv, Rest>>

(* _force_close, in the base frame or in a handler's.                      *)
Snapshot == /\ At("snap")
            /\ SetTop([Top EXCEPT !.pc = "wake", !.todo = handles])
            /\ UNCHANGED <<result, srv, Rest>>

PickHandle ==
  /\ At("wake") /\ Top.todo # {}
  /\ \E c \in Top.todo :
       SetTop([Top EXCEPT !.pc = "waking", !.cur = c, !.todo = @ \ {c}])
  /\ UNCHANGED <<result, srv, Rest>>

Forced == /\ At("wake") /\ Top.todo = {}
          /\ IF Len(stack) > 1 THEN Return
             ELSE Goto(IF result = "failed" THEN "leave" ELSE "answer")
          /\ UNCHANGED <<result, srv, Rest>>

(* handle.wake(): the event is set under the lock inside it, ...           *)
LockEvent == /\ At("waking") /\ event[Top.cur].holder = "free"
             /\ event' = [event EXCEPT ![Top.cur].holder = "main"]
             /\ Goto("woken")
             /\ UNCHANGED <<result, signals, srv, Counts, handles, link, start,
                            child, reaper>>

SetEvent == /\ At("woken")
            /\ event' = [event EXCEPT ![Top.cur].holder = "free",
                                      ![Top.cur].set = TRUE]
            /\ Goto("kill")
            /\ UNCHANGED <<result, signals, srv, Counts, handles, link, start,
                           child, reaper>>

(* _kill: a process that runs is killed; it dies in a step of its own.     *)
Killed(c) == IF child[c].at \in {"none", "dead"} THEN child
             ELSE [child EXCEPT ![c].killed = TRUE]

(* Mutant: the process is left to read the event.                          *)
CancelOnly(c) == /\ start' = [start EXCEPT ![c].cancelled = TRUE]
                 /\ UNCHANGED child

(* ... then the handle is cancelled, and its process killed if it started. *)
MarkCancelled(c) ==
  /\ start' = [start EXCEPT ![c].cancelled = TRUE]
  /\ child' = IF start[c].started THEN Killed(c) ELSE child

KillHandle == /\ At("kill")
              /\ MarkCancelled(Top.cur)
              /\ SetTop([Top EXCEPT !.pc = "wake", !.cur = NoConn])
              /\ UNCHANGED <<result, signals, srv, Counts, handles, link, event,
                             reaper>>

Answer ==
  /\ At("answer")
  /\ result' = IF srv.immediate THEN "interrupted"
               ELSE IF Top.expired THEN "expired" ELSE "drained"
  /\ SetTop(Frame("stop"))
  /\ UNCHANGED <<srv, Rest>>

(* _stop_reporter: the producers are awaited no longer than a fresh        *)
(* allowance, then the sentinel is queued; the reaper is told to end.      *)
Stop == /\ At("stop")
        /\ srv' = [srv EXCEPT !.sentinel = srv.reporter, !.stopping = TRUE]
        /\ Goto("over")
        /\ UNCHANGED <<result, Rest>>

-----------------------------------------------------------------------------
(* ViewServer.interrupt, run by a handler frame. The state lock is         *)
(* reentrant; the locks inside the two Event objects are not.              *)

Below(pc) == \E i \in 1 .. Len(stack) - 1 : stack[i].pc = pc

LockDraining == /\ At("first") /\ ~ Below("setting")
                /\ Goto("setting")
                /\ UNCHANGED <<result, srv, Rest>>

(* Mutant: the listener is left to the accept loop.                        *)
DrainKeepingListener ==
  /\ At("setting")
  /\ srv' = [srv EXCEPT !.draining = TRUE]
  /\ Return
  /\ UNCHANGED <<result, Rest>>

(* The listener is shut down and closed if it is registered.               *)
SetDraining ==
  /\ At("setting")
  /\ srv' = [srv EXCEPT !.draining = TRUE,
                        !.listener = IF @ = "open" THEN "closed" ELSE @]
  /\ Return
  /\ UNCHANGED <<result, Rest>>

LockImmediate == /\ At("second") /\ ~ Below("forcing")
                 /\ Goto("forcing")
                 /\ UNCHANGED <<result, srv, Rest>>

SetImmediate == /\ At("forcing")
                /\ srv' = [srv EXCEPT !.immediate = TRUE]
                /\ Goto("snap")
                /\ UNCHANGED <<result, Rest>>

-----------------------------------------------------------------------------
(* A connection's thread.                                                  *)

In(c, pc)   == link[c].pc = pc
Step(c, pc) == link' = [link EXCEPT ![c].pc = pc]
Page(c, pc) == link' = [link EXCEPT ![c].pc = pc, ![c].page = TRUE]

Main   == <<stack, result, signals, srv>>
Gone   == srv.immediate \/ srv.late
Finished(c) == start[c].pc = "done"          \* _start_done is set

(* The request is complete and needs the resolver, is refused with a fixed *)
(* page, or never completes.                                               *)
Receive(c) ==
  /\ In(c, "receive")
  /\ \/ ~ srv.late /\ (Step(c, "resolve") \/ Page(c, "emit"))
     \/ Step(c, "release")
  /\ UNCHANGED <<Main, Counts, handles, start, event, child, reaper>>

(* _resolve_in_process up to the registration of the handle; the reaper is *)
(* started first, and anything before the handle may fail into a page.     *)
Resolve(c) ==
  /\ In(c, "resolve")
  /\ \/ Gone /\ Step(c, "release") /\ UNCHANGED <<handles, reaper>>
     \/ ~ Gone /\ Page(c, "emit") /\ UNCHANGED <<handles, reaper>>
     \/ /\ ~ Gone
        /\ reaper' = IF reaper.pc = "none" THEN [reaper EXCEPT !.pc = "idle"]
                     ELSE reaper
        /\ handles' = handles \cup {c}
        /\ link' = [link EXCEPT ![c].pc = "begin", ![c].forced = srv.immediate]
  /\ UNCHANGED <<Main, Counts, start, event, child>>

(* _begin_process_start: a starter thread, or a start that failed at once; *)
(* a close forced before the registration is seen only here.               *)
Begin(c) ==
  /\ In(c, "begin")
  /\ \/ /\ startFree > 0
        /\ startFree' = startFree - 1
        /\ start' = [start EXCEPT ![c].pc = "start"]
        /\ link' = [link EXCEPT ![c].forced = FALSE, ![c].pc =
             IF link[c].forced \/ srv.late THEN "wake" ELSE "waiting"]
        /\ UNCHANGED event
     \/ /\ event[c].holder = "free"
        /\ start' = [start EXCEPT ![c].pc = "done", ![c].failed = TRUE]
        /\ event' = [event EXCEPT ![c].set = TRUE]
        /\ Page(c, "finish")
        /\ UNCHANGED startFree
  /\ UNCHANGED <<Main, free, active, handles, child, reaper>>

(* The start is done, or the phase has expired while it was pending.       *)
AwaitStart(c) ==
  /\ In(c, "waiting")
  /\ \/ Page(c, "wake")
     \/ /\ Finished(c)
        /\ IF Gone THEN Step(c, "wake")
           ELSE IF start[c].failed THEN Page(c, "finish") ELSE Step(c, "result")
  /\ UNCHANGED <<Main, Counts, handles, start, event, child, reaper>>

(* _receive_process_result: the page of the child, of its death, of the    *)
(* processing deadline, or nothing.                                        *)
AwaitResult(c) ==
  /\ In(c, "result")
  /\ \/ Gone /\ Step(c, "finish")
     \/ Page(c, "finish")
  /\ UNCHANGED <<Main, Counts, handles, start, event, child, reaper>>

SetCancel(c) == /\ event[c].holder = "free"
                /\ event' = [event EXCEPT ![c].set = TRUE]

(* handle.wake() on abandonment, and once more by handle.finish().         *)
Wake(c) == /\ \/ In(c, "wake") /\ Step(c, "woken")
              \/ In(c, "finish") /\ Step(c, "finishing")
           /\ SetCancel(c)
           /\ UNCHANGED <<Main, Counts, handles, start, child, reaper>>

Kill(c) == /\ \/ In(c, "woken") /\ Step(c, "finish")
              \/ In(c, "finishing") /\ Step(c, "finished")
           /\ MarkCancelled(c)
           /\ UNCHANGED <<Main, Counts, handles, event, reaper>>

(* What finish() returns: no process, or one that has ended.               *)
Reaped(c) == Finished(c) /\ (start[c].started => child[c].at = "dead")

(* The handle leaves the set a forced close takes its snapshot of.         *)
Unregister(c) == handles' = handles \ {c}
Onward(c)     == IF link[c].page THEN "emit" ELSE "release"

Finish(c) == /\ In(c, "finished")
             /\ IF Reaped(c) THEN Step(c, Onward(c)) /\ Unregister(c)
                ELSE Step(c, "defer") /\ UNCHANGED handles
             /\ UNCHANGED <<Main, Counts, start, event, child, reaper>>

(* Mutant: the slot waits for a process whose lease nobody got.            *)
DeferPending(c) ==
  /\ In(c, "defer")
  /\ reaper' = [reaper EXCEPT !.queue = @ \cup {c},
                              !.leased = IF Finished(c) THEN @ \cup {c} ELSE @]
  /\ link' = [link EXCEPT ![c].pc = Onward(c), ![c].processDone = FALSE]
  /\ Unregister(c)
  /\ UNCHANGED <<Main, Counts, start, event, child>>

(* The process goes to the reaper, with the lease unless the start is      *)
(* still pending.                                                          *)
Defer(c) ==
  /\ In(c, "defer")
  /\ reaper' = [reaper EXCEPT !.queue = @ \cup {c},
                              !.leased = IF Finished(c) THEN @ \cup {c} ELSE @]
  /\ link' = [link EXCEPT ![c].pc = Onward(c), ![c].processDone = ~ Finished(c)]
  /\ Unregister(c)
  /\ UNCHANGED <<Main, Counts, start, event, child>>

(* The page is sent as far as it goes; its line is queued, or dropped by a *)
(* full queue.                                                             *)
Emit(c) ==
  /\ In(c, "emit")
  /\ \E queued \in BOOLEAN :
       link' = [link EXCEPT ![c].pc = "release", ![c].page = FALSE,
                            ![c].lateLine = queued /\ srv.sentinel]
  /\ UNCHANGED <<Main, Counts, handles, start, event, child, reaper>>

(* _AdmissionLease: the slot goes back once both parties are done; then    *)
(* the connection leaves the count the drain waits on.                     *)
Release(c) ==
  /\ In(c, "release")
  /\ link' = [link EXCEPT ![c].pc = "over", ![c].page = FALSE,
                ![c].connectionDone = TRUE, ![c].released = link[c].processDone]
  /\ free' = IF link[c].processDone THEN free + 1 ELSE free
  /\ active' = active - 1
  /\ UNCHANGED <<Main, startFree, handles, start, event, child, reaper>>

-----------------------------------------------------------------------------
(* The starter thread of a connection.                                     *)

(* process.start() returns or raises, and complete_start records it under  *)
(* the handle's lock, where it sees a cancellation or precedes it.         *)
StartProcess(c) ==
  /\ start[c].pc = "start"
  /\ \E ok \in BOOLEAN :
       /\ start' = [start EXCEPT ![c] = [@ EXCEPT !.pc = "events", !.ok = ok,
                      !.started = ok, !.failed = ~ ok, !.seen = start[c].cancelled]]
       /\ child' = IF ok THEN [child EXCEPT ![c].at = "gate"] ELSE child
  /\ UNCHANGED <<Main, Counts, handles, link, event, reaper>>

(* The gate is closed for good, or opened: which waits for the child if it *)
(* was asleep on it.                                                       *)
Signal(c) ==
  /\ start[c].pc = "events"
  /\ IF ~ start[c].ok \/ start[c].seen THEN SetCancel(c)
     ELSE ~ event[c].lost /\ event' = [event EXCEPT ![c].allowed = TRUE]
  /\ start' = [start EXCEPT ![c].pc = "kill"]
  /\ UNCHANGED <<Main, Counts, handles, link, child, reaper>>

StartDone(c) ==
  /\ start[c].pc = "kill"
  /\ child' = IF start[c].ok /\ start[c].seen THEN Killed(c) ELSE child
  /\ start' = [start EXCEPT ![c].pc = "done", ![c].ok = FALSE, ![c].seen = FALSE]
  /\ startFree' = startFree + 1
  /\ UNCHANGED <<Main, free, active, handles, link, event, reaper>>

-----------------------------------------------------------------------------
(* The resolver process: a gate before the work, and death by a kill.      *)

Alive(c) == child[c].at \notin {"none", "dead"}
Runs(c, at) == child[c].at = at /\ ~ child[c].killed
Become(c, at) == child' = [child EXCEPT ![c] = [at |-> at, killed |-> FALSE]]
Others == <<Main, Counts, handles, link, start, reaper>>

(* Awake from the gate, the child takes the cancel event's lock to read it. *)
Gate(c) == /\ Runs(c, "gate") /\ event[c].holder = "free"
           /\ Become(c, IF event[c].allowed THEN "final" ELSE "polling")
           /\ event' = [event EXCEPT ![c].holder = "child"]
           /\ UNCHANGED Others

ReadCancel(c) ==
  /\ Runs(c, "polling") \/ Runs(c, "final")
  /\ event' = [event EXCEPT ![c].holder = "free"]
  /\ Become(c, IF event[c].set THEN "dead"
               ELSE IF child[c].at = "final" THEN "working" ELSE "gate")
  /\ UNCHANGED Others

(* The resolver answers, or fails; it need not do either.                  *)
Work(c) == Runs(c, "working") /\ Become(c, "dead") /\ UNCHANGED <<event, Others>>

(* The kill takes effect; the lock the child held stays held, and if it    *)
(* was asleep at the gate its place among the sleepers stays taken.        *)
Die(c) == /\ Alive(c) /\ child[c].killed
          /\ Become(c, "dead")
          /\ \E asleep \in BOOLEAN :
               event' = [event EXCEPT ![c].lost = asleep /\ child[c].at = "gate"]
          /\ UNCHANGED Others

-----------------------------------------------------------------------------
(* The reaper thread: finish() of each pending handle in turn.             *)

ReapNext ==
  LET round == IF reaper.round = {} THEN reaper.queue ELSE reaper.round
  IN /\ reaper.pc = "idle"
     /\ \E c \in round :
          reaper' = [reaper EXCEPT !.pc = "wake", !.cur = c, !.round = round \ {c}]
     /\ UNCHANGED <<Main, Counts, handles, link, start, event, child>>

ReapWake == /\ reaper.pc = "wake"
            /\ SetCancel(reaper.cur)
            /\ MarkCancelled(reaper.cur)
            /\ reaper' = [reaper EXCEPT !.pc = "finish"]
            /\ UNCHANGED <<Main, Counts, handles, link>>

(* The deferred party of the lease is done with the process.               *)
ReapFinish ==
  LET c    == reaper.cur
      done == Reaped(c)
      back == done /\ c \in reaper.leased /\ link[c].connectionDone
  IN /\ reaper.pc = "finish"
     /\ reaper' = [reaper EXCEPT !.pc = "idle", !.cur = NoConn,
                     !.queue = IF done THEN @ \ {c} ELSE @]
     /\ link' = [link EXCEPT ![c].processDone = @ \/ done,
                             ![c].released = @ \/ back]
     /\ free' = IF back THEN free + 1 ELSE free
     /\ UNCHANGED <<Main, startFree, active, handles, start, event, child>>

(* Mutant: the reaper ends with its queue, not with the last connection.   *)
ReapGoneEarly ==
  /\ reaper.pc = "idle" /\ reaper.queue = {} /\ srv.stopping
  /\ reaper' = [reaper EXCEPT !.pc = "gone"]
  /\ UNCHANGED <<Main, Counts, handles, link, start, event, child>>

ReapGone ==
  /\ reaper.pc = "idle" /\ reaper.queue = {} /\ srv.stopping /\ active = 0
  /\ reaper' = [reaper EXCEPT !.pc = "gone"]
  /\ UNCHANGED <<Main, Counts, handles, link, start, event, child>>

-----------------------------------------------------------------------------

MainStep == \/ Open \/ Register \/ Assign \/ Advertise \/ Announce \/ Serve \/ LeaveLoop
            \/ Admit \/ Spawn \/ Leave \/ Drain \/ Snapshot
            \/ PickHandle \/ Forced \/ LockEvent \/ SetEvent \/ KillHandle
            \/ Answer \/ Stop \/ LockDraining
            \/ SetDraining \/ LockImmediate \/ SetImmediate

LinkStep(c) == \/ Receive(c) \/ Resolve(c) \/ Begin(c)
               \/ AwaitStart(c) \/ AwaitResult(c) \/ Wake(c) \/ Kill(c)
               \/ Finish(c) \/ Defer(c) \/ Emit(c) \/ Release(c)

StartStep(c) == StartProcess(c) \/ Signal(c) \/ StartDone(c)

ChildStep(c) == Gate(c) \/ ReadCancel(c) \/ Die(c)

ReapStep == ReapNext \/ ReapWake \/ ReapFinish \/ ReapGone

Next == \/ Interrupt \/ Expire \/ AcceptFails \/ MainStep \/ ReapStep
        \/ \E c \in Conns : \/ Accept(c) \/ LinkStep(c) \/ StartStep(c)
                            \/ ChildStep(c) \/ Work(c)

Spec == Init /\ [][Next]_vars

(* Every thread runs, every deadline passes, a killed process dies.        *)
(* Neither connections nor interrupts nor an answer of the resolver have   *)
(* to come.                                                                *)
FairSpec == /\ Spec
            /\ WF_vars(MainStep) /\ WF_vars(Expire) /\ WF_vars(ReapStep)
            /\ \A c \in Conns : /\ WF_vars(LinkStep(c)) /\ WF_vars(StartStep(c))
                               /\ WF_vars(ChildStep(c))

-----------------------------------------------------------------------------

InThread(c) == link[c].pc \notin {"idle", "refused", "accepted", "over"}

(* An admission slot stays taken while the connection has its thread and   *)
(* while its resolver is at work and was not killed: nothing is resolved   *)
(* beside the admitted 32, however start, kill, reaping and release        *)
(* interleave (_AdmissionLease, _ProcessHandle, _resolve_in_process).      *)
SlotCoversWork ==
  \A c \in Conns : InThread(c) \/ Runs(c, "working") => ~ link[c].released

(* A drained run left nothing behind: no admitted connection, no live      *)
(* resolver without the reaper, and no line behind the reporter's sentinel *)
(* (_drain, _enqueue_report, _release_admission). However the run ends its *)
(* listening socket is closed; the one exception is an interrupt handled   *)
(* between the drain check and the registration in open(), and then the    *)
(* run has accepted nobody (open, interrupt, _serve).                      *)
DrainedIsComplete ==
  /\ Base.pc = "over" => \/ srv.listener \in {"none", "closed"}
                         \/ /\ srv.listener = "missed"
                            /\ \A c \in Conns : link[c].pc = "idle"
  /\ result = "drained" =>
       \A c \in Conns : /\ link[c].pc \in {"idle", "refused", "over"}
                        /\ ~ link[c].lateLine
                        /\ Alive(c) => c \in reaper.queue

(* The reaper does not end while a process may still come to it            *)
(* (_process_reap_loop, _ensure_process_reaper).                           *)
ReaperOutlivesWork ==
  reaper.pc = "gone" => \A c \in Conns : ~ Alive(c) /\ ~ InThread(c)

(* What a kill or a nested handler can leave locked for good.              *)
EventOrphaned(c) == event[c].holder = "child" /\ child[c].at = "dead"
GateOrphaned(c)  == event[c].lost /\ start[c].pc = "events"
SelfWait == \/ At("first") /\ Below("setting")
            \/ At("second") /\ Below("forcing")
            \/ /\ At("waking")
               /\ \E i \in 1 .. Len(stack) - 1 :
                    stack[i].pc = "woken" /\ stack[i].cur = Top.cur

Stuck == SelfWait \/ \E c \in Conns : EventOrphaned(c) \/ GateOrphaned(c)

(* Every admitted connection gives its slot back, whether or not its       *)
(* resolver ever answers, unless a lock was left behind for good.          *)
SlotsComeBack == \A c \in Conns : In(c, "receive") ~> link[c].released \/ Stuck

(* An interrupt ends the run, whatever the connections do, unless a lock   *)
(* was left behind for good.                                               *)
ServingEnds == srv.draining ~> Base.pc = "over" \/ Stuck

(* What open() says of its registration, "Atomic with the drain check:     *)
(* whoever takes the lock first owns the close": an ended run has closed   *)
(* its listener.                                                           *)
ListenerClosed == Base.pc = "over" => srv.listener \in {"none", "closed"}

(* What cli.py says of ViewServer.interrupt: "safe from a handler at any   *)
(* instant", so the main thread never waits for a lock that it holds.      *)
NoSelfWait == ~ SelfWait

===============================================================================
