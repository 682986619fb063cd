---------------------------- MODULE ServerProofs ----------------------------
(***************************************************************************)
(* Proofs about ViewServer, for any finite set of connections, any number  *)
(* of slots and of interrupts. The inductive invariant is Kept: where the  *)
(* frames of the main thread may be, which admissions and starts the free  *)
(* slots account for, who holds which half of a lease, and what is known   *)
(* of a resolver at each point of its connection.                          *)
(***************************************************************************)
EXTENDS ViewServer, FiniteSetTheorems, TLAPS

Forcing   == {"snap", "wake", "waking", "woken", "kill"}
Handling  == {"first", "setting", "second", "forcing"}
Admission == {"admit", "spawn"}
Pointing  == {"admit", "spawn", "waking", "woken", "kill"}
Outside   == {"idle", "refused"}
Before    == {"idle", "refused", "accepted", "receive", "resolve", "begin"}
After     == {"emit", "release", "over"}

(* TypeOK, with the counts' bounds left to SlotsCounted.                   *)
Shaped ==
  /\ stack \in Seq(Frames) /\ Len(stack) >= 1
  /\ result \in {"none", "drained", "expired", "interrupted", "failed"}
  /\ signals \in 0 .. MaxSignals
  /\ srv \in Servers
  /\ free \in Nat /\ startFree \in Nat /\ active \in Nat
  /\ handles \in SUBSET Conns
  /\ link \in [Conns -> Links]
  /\ start \in [Conns -> Starts]
  /\ event \in [Conns -> Events]
  /\ child \in [Conns -> Children]
  /\ reaper \in Reapers

(* Handlers' frames above that of serve(), and what each has in hand.      *)
StackShape ==
  /\ Len(stack) <= signals + 1
  /\ stack[1].pc \notin Handling
  /\ \A i \in 2 .. Len(stack) : stack[i].pc \in Forcing \cup Handling
  /\ \A i \in 1 .. Len(stack) : stack[i].pc \in Pointing => stack[i].cur \in Conns
  /\ stack[1].pc = "over" => Len(stack) = 1

(* A connection between accept() and its thread is in that frame's hand.   *)
AdmissionShape ==
  \A c \in Conns :
    link[c].pc = "accepted" <=> Base.pc \in Admission /\ Base.cur = c

Holders  == {c \in Conns : link[c].pc \notin Outside /\ ~ link[c].released}
Starters == {c \in Conns : start[c].pc \in {"start", "events", "kill"}}
Admitted == {c \in Conns : InThread(c) \/ (Base.pc = "spawn" /\ Base.cur = c)}

SlotsCounted == /\ free + Cardinality(Holders) = Slots
                /\ startFree + Cardinality(Starters) = Slots
                /\ active = Cardinality(Admitted)

(* The lease of a connection: its own half, and that of its process while  *)
(* the reaper has it.                                                      *)
Lease(c) ==
  /\ link[c].connectionDone <=> link[c].pc = "over"
  /\ link[c].released <=> link[c].connectionDone /\ link[c].processDone
  /\ ~ link[c].processDone <=> c \in reaper.queue /\ c \in reaper.leased
  /\ c \in reaper.queue \/ c \in reaper.leased => link[c].pc \in After

Leases == \A c \in Conns : Lease(c)

ReaperShape ==
  /\ reaper.pc \in {"wake", "finish"} =>
       reaper.cur \in reaper.queue /\ reaper.cur \notin reaper.round
  /\ reaper.round \subseteq reaper.queue

(* What is known of the resolver at each point of its connection.          *)
Resolver(c) ==
  /\ link[c].pc \in Before => start[c].pc = "none"
  /\ link[c].pc \notin Before \cup After => start[c].pc # "none"
  /\ start[c].pc \in {"none", "start"} => child[c].at = "none" /\ ~ start[c].started
  /\ child[c].at # "none" => start[c].started
  /\ link[c].pc \in {"woken", "finishing"} => event[c].set
  /\ \/ link[c].pc \in {"finished", "defer"}
     \/ link[c].pc \in After /\ start[c].pc # "none"
     => event[c].set /\ ~ Runs(c, "working")
  /\ link[c].pc \in After /\ start[c].pc # "none" => c \in reaper.queue \/ Reaped(c)

Resolvers == \A c \in Conns : Resolver(c)

(* How the base frame comes to its end.                                    *)
Ending ==
  /\ srv.listener = "bound" <=> Base.pc \in {"register", "assign"}
  /\ Base.pc = "open" => srv.listener = "none"
  /\ srv.draining => srv.listener # "open"
  /\ Base.pc \in {"drain", "answer", "stop", "over"} =>
       srv.listener \in {"none", "missed", "closed"}
  /\ Base.pc \in Forcing /\ result # "failed" =>
       srv.listener \in {"none", "missed", "closed"} /\ Base.expired
  /\ Base.pc \in Forcing \cup {"leave"} => result \in {"none", "failed"}
  /\ Base.pc \notin Forcing \cup {"leave", "stop", "over"} => result = "none"
  /\ srv.sentinel \/ srv.stopping => Base.pc = "over"
  /\ Base.pc = "answer" => active = 0 \/ srv.immediate \/ Base.expired
  /\ result = "drained" => active = 0
  /\ reaper.pc = "gone" => srv.stopping /\ reaper.queue = {} /\ active = 0

LateLines == \A c \in Conns : link[c].lateLine => srv.sentinel

Kept == /\ Shaped /\ StackShape /\ AdmissionShape /\ SlotsCounted /\ Leases
        /\ ReaperShape /\ Resolvers /\ Ending /\ LateLines

-----------------------------------------------------------------------------
(* The main thread's frames.                                               *)

LEMMA StackFacts ==
  ASSUME Shaped
  PROVE  /\ Len(stack) \in Nat /\ 1 \in 1 .. Len(stack) /\ Len(stack) \in 1 .. Len(stack)
         /\ Top \in Frames /\ Base \in Frames
         /\ \A i \in 1 .. Len(stack) : stack[i] \in Frames
  BY DEF Shaped, Top, Base

LEMMA Depth ==
  ASSUME Shaped
  PROVE  Len(stack) = 1 \/ Len(stack) > 1
  <1>1. stack \in Seq(Frames) /\ Len(stack) >= 1
    BY DEF Shaped
  <1>2. PICK n \in Nat : n = Len(stack)
    BY <1>1
  <1>3. n >= 1
    BY <1>1, <1>2
  <1>4. n = 1 \/ n > 1
    BY <1>3
  <1> QED BY <1>2, <1>4

LEMMA PutTop ==
  ASSUME Shaped, NEW frame \in Frames, SetTop(frame)
  PROVE  /\ stack' \in Seq(Frames) /\ Len(stack') = Len(stack)
         /\ stack'[Len(stack)] = frame
         /\ \A i \in 1 .. Len(stack) - 1 : stack'[i] = stack[i]
  BY StackFacts DEF Shaped, SetTop

(* A step of the topmost frame, whichever it is.                           *)
LEMMA TopStep ==
  ASSUME Shaped, StackShape, NEW frame \in Frames, SetTop(frame), signals' = signals,
         IF Len(stack) = 1 THEN frame.pc \notin Handling
                           ELSE frame.pc \in Forcing \cup Handling,
         frame.pc \in Pointing => frame.cur \in Conns
  PROVE  /\ stack' \in Seq(Frames) /\ Len(stack') = Len(stack) /\ StackShape'
         /\ Base' = IF Len(stack) = 1 THEN frame ELSE Base
  <1>1. /\ stack' \in Seq(Frames) /\ Len(stack') = Len(stack)
        /\ stack'[Len(stack)] = frame
        /\ \A i \in 1 .. Len(stack) - 1 : stack'[i] = stack[i]
    BY PutTop
  <1>2. Len(stack) \in Nat /\ Len(stack) >= 1
    BY StackFacts DEF Shaped
  <1>3. \A i \in 1 .. Len(stack) : i = Len(stack) \/ i \in 1 .. Len(stack) - 1
    BY <1>2
  <1>4. Base' = IF Len(stack) = 1 THEN frame ELSE Base
    BY <1>1, <1>2 DEF Base
  <1>5. Len(stack') <= signals' + 1
    BY <1>1 DEF StackShape
  <1>6. stack'[1].pc \notin Handling
    BY <1>1, <1>2 DEF StackShape
  <1>7. \A i \in 2 .. Len(stack') : stack'[i].pc \in Forcing \cup Handling
    BY <1>1, <1>2, <1>3 DEF StackShape
  <1>8. \A i \in 1 .. Len(stack') : stack'[i].pc \in Pointing => stack'[i].cur \in Conns
    BY <1>1, <1>2, <1>3 DEF StackShape
  <1>9. stack'[1].pc = "over" => Len(stack') = 1
    BY <1>1, <1>2 DEF StackShape, Forcing, Handling
  <1> QED BY <1>1, <1>4, <1>5, <1>6, <1>7, <1>8, <1>9 DEF StackShape

(* A frame of serve() runs only while no handler does.                     *)
LEMMA AtBase ==
  ASSUME Shaped, StackShape, Top.pc \notin Forcing \cup Handling
  PROVE  Len(stack) = 1 /\ Top = Base
  <1>1. Len(stack) \in Nat /\ Len(stack) >= 1
    BY StackFacts DEF Shaped
  <1>2. \A i \in 2 .. Len(stack) : stack[i].pc \in Forcing \cup Handling
    BY DEF StackShape
  <1>3. stack[Len(stack)].pc \notin Forcing \cup Handling
    BY DEF Top
  <1>4. Len(stack) = 1
    <2>1. Len(stack) # 1 => Len(stack) \in 2 .. Len(stack)
      BY <1>1
    <2> QED BY <1>2, <1>3, <2>1
  <1> QED BY <1>4 DEF Top, Base

LEMMA BaseStep ==
  ASSUME Shaped, StackShape, Top.pc \notin Forcing \cup Handling,
         NEW frame \in Frames, SetTop(frame), signals' = signals,
         frame.pc \notin Handling, frame.pc \in Pointing => frame.cur \in Conns
  PROVE  /\ stack' \in Seq(Frames) /\ Len(stack') >= 1 /\ StackShape'
         /\ Top = Base /\ Base' = frame
  BY AtBase, TopStep

-----------------------------------------------------------------------------
(* Steps that leave threads and counts alone.                              *)

LEMMA ControlKept ==
  ASSUME Kept, UNCHANGED <<Counts, Threads>>, Shaped', StackShape', Ending',
         Base.pc \in Admission \/ Base'.pc \in Admission => Base' = Base,
         srv.sentinel => srv'.sentinel
  PROVE  Kept'
  <1>1. AdmissionShape'
    BY DEF Kept, AdmissionShape, Threads
  <1>2. Holders' = Holders /\ Starters' = Starters
    BY DEF Holders, Starters, Threads
  <1>3. Admitted' = Admitted
    BY DEF Admitted, InThread, Threads, Admission
  <1>4. SlotsCounted'
    BY <1>2, <1>3 DEF Kept, SlotsCounted, Counts
  <1>5. Leases' /\ ReaperShape'
    BY DEF Kept, Leases, Lease, ReaperShape, Threads
  <1>6. Resolvers'
    BY DEF Kept, Resolvers, Resolver, Threads, Runs, Reaped, Finished
  <1>7. LateLines'
    BY DEF Kept, LateLines, Threads
  <1> QED BY <1>1, <1>4, <1>5, <1>6, <1>7 DEF Kept

LEMMA ShapedControl ==
  ASSUME Kept, UNCHANGED <<Counts, Threads>>,
         stack' \in Seq(Frames), Len(stack') >= 1, srv' \in Servers,
         result' \in {"none", "drained", "expired", "interrupted", "failed"},
         signals' \in 0 .. MaxSignals
  PROVE  Shaped'
  BY DEF Kept, Shaped, Counts, Threads

(* The base frame alone moves.                                             *)
LEMMA BaseKept ==
  ASSUME Kept, UNCHANGED <<signals, Counts, Threads>>, Top.pc \notin Forcing \cup Handling,
         NEW frame \in Frames, SetTop(frame), frame.pc \notin Handling \cup Admission,
         frame.pc \in Pointing => frame.cur \in Conns, Top.pc \notin Admission,
         srv' \in Servers,
         result' \in {"none", "drained", "expired", "interrupted", "failed"},
         srv.sentinel => srv'.sentinel,
         Base' = frame => Ending'
  PROVE  Kept'
  <1>1. /\ stack' \in Seq(Frames) /\ Len(stack') >= 1 /\ StackShape'
        /\ Top = Base /\ Base' = frame
    BY BaseStep DEF Kept
  <1>2. Shaped'
    BY <1>1, ShapedControl DEF Kept, Shaped
  <1> QED BY <1>1, <1>2, ControlKept

LEMMA GotoFrame ==
  ASSUME Kept, NEW pc,
         pc \in {"open", "register", "assign", "advertise", "announce", "serve", "loop",
                 "admit", "spawn", "leave", "drain", "snap", "wake", "waking", "woken", "kill",
                 "answer", "stop", "over", "first", "setting", "second", "forcing"}
  PROVE  /\ [Top EXCEPT !.pc = pc] \in Frames
         /\ [Top EXCEPT !.pc = pc].pc = pc
         /\ [Top EXCEPT !.pc = pc].cur = Top.cur
         /\ [Top EXCEPT !.pc = pc].expired = Top.expired
  BY StackFacts DEF Kept, Frames

LEMMA GotoKept ==
  ASSUME Kept, UNCHANGED <<signals, Counts, Threads>>,
         Top.pc \notin Forcing \cup Handling \cup Admission, NEW pc, Goto(pc),
         pc \in {"open", "register", "assign", "advertise", "announce", "serve", "loop",
                 "leave", "drain", "snap", "answer", "stop", "over"},
         srv' \in Servers,
         result' \in {"none", "drained", "expired", "interrupted", "failed"},
         srv.sentinel => srv'.sentinel,
         Top = Base /\ Base'.pc = pc /\ Base'.expired = Base.expired => Ending'
  PROVE  Kept'
  <1> DEFINE frame == [Top EXCEPT !.pc = pc]
  <1>1. frame \in Frames /\ frame.pc = pc /\ frame.expired = Top.expired
    BY GotoFrame
  <1>2. SetTop(frame)
    BY DEF Goto
  <1>3. Top = Base
    BY AtBase DEF Kept
  <1>4. pc \notin Pointing /\ pc \notin Handling \cup Admission
    BY DEF Pointing, Handling, Admission
  <1>5. Base' = frame => Ending'
    BY <1>1, <1>3
  <1> HIDE DEF frame
  <1> QED BY <1>1, <1>2, <1>4, <1>5, BaseKept

LEMMA OpeningKept ==
  ASSUME Kept, Open \/ Register \/ Assign \/ Advertise \/ Announce
  PROVE  Kept'
  <1>1. /\ srv \in Servers /\ result \in {"none", "drained", "expired", "interrupted", "failed"}
        /\ Ending
    BY DEF Kept, Shaped
  <1>2. UNCHANGED <<signals, Counts, Threads>> /\ active' = active /\ reaper' = reaper
    BY DEF Open, Register, Assign, Advertise, Announce, Rest, Counts, Threads
  <1>3. CASE Open
    <2>1. Top.pc \notin Forcing \cup Handling \cup Admission /\ Top.pc = "open"
      BY <1>3 DEF Open, At, Forcing, Handling, Admission
    <2>2. CASE srv.draining /\ Goto("advertise") /\ UNCHANGED <<result, srv>>
      <3>1. Top = Base /\ Base'.pc = "advertise" /\ Base'.expired = Base.expired => Ending'
        BY <1>1, <1>2, <2>1, <2>2 DEF Ending, Forcing
      <3> QED BY <1>1, <1>2, <2>1, <2>2, <3>1, GotoKept
    <2>3. CASE /\ ~ srv.draining /\ srv' = [srv EXCEPT !.listener = "bound"]
               /\ Goto("register") /\ UNCHANGED result
      <3>1. srv' \in Servers /\ (srv.sentinel => srv'.sentinel)
        BY <1>1, <2>3 DEF Servers
      <3>2. Top = Base /\ Base'.pc = "register" /\ Base'.expired = Base.expired => Ending'
        BY <1>1, <1>2, <2>1, <2>3 DEF Ending, Forcing, Servers
      <3> QED BY <1>1, <1>2, <2>1, <2>3, <3>1, <3>2, GotoKept
    <2>4. CASE ~ srv.draining /\ result' = "failed" /\ Goto("over") /\ UNCHANGED srv
      <3>1. Top = Base /\ Base'.pc = "over" /\ Base'.expired = Base.expired => Ending'
        BY <1>1, <1>2, <2>1, <2>4 DEF Ending, Forcing
      <3> QED BY <1>1, <1>2, <2>1, <2>4, <3>1, GotoKept
    <2> QED BY <1>3, <2>2, <2>3, <2>4 DEF Open
  <1>4. CASE Register
    <2>1. Top.pc \notin Forcing \cup Handling \cup Admission /\ Top.pc = "register"
      BY <1>4 DEF Register, At, Forcing, Handling, Admission
    <2>2. CASE /\ srv.draining /\ srv' = [srv EXCEPT !.listener = "closed"]
               /\ Goto("advertise") /\ UNCHANGED result
      <3>1. srv' \in Servers /\ (srv.sentinel => srv'.sentinel)
        BY <1>1, <2>2 DEF Servers
      <3>2. Top = Base /\ Base'.pc = "advertise" /\ Base'.expired = Base.expired => Ending'
        BY <1>1, <1>2, <2>1, <2>2 DEF Ending, Forcing, Servers
      <3> QED BY <1>1, <1>2, <2>1, <2>2, <3>1, <3>2, GotoKept
    <2>3. CASE ~ srv.draining /\ Goto("assign") /\ UNCHANGED <<result, srv>>
      <3>1. Top = Base /\ Base'.pc = "assign" /\ Base'.expired = Base.expired => Ending'
        BY <1>1, <1>2, <2>1, <2>3 DEF Ending, Forcing
      <3> QED BY <1>1, <1>2, <2>1, <2>3, <3>1, GotoKept
    <2> QED BY <1>4, <2>2, <2>3 DEF Register
  <1>7. CASE Assign
    <2>1. Top.pc \notin Forcing \cup Handling \cup Admission /\ Top.pc = "assign"
      BY <1>7 DEF Assign, At, Forcing, Handling, Admission
    <2>2. /\ srv' = [srv EXCEPT !.listener = IF srv.draining THEN "missed" ELSE "open"]
          /\ Goto("advertise") /\ UNCHANGED result
      BY <1>7 DEF Assign
    <2>3. srv' \in Servers /\ (srv.sentinel => srv'.sentinel)
      BY <1>1, <2>2 DEF Servers
    <2>4. Top = Base /\ Base'.pc = "advertise" /\ Base'.expired = Base.expired => Ending'
      BY <1>1, <1>2, <2>1, <2>2 DEF Ending, Forcing, Servers
    <2> QED BY <1>1, <1>2, <2>1, <2>2, <2>3, <2>4, GotoKept
  <1>5. CASE Advertise
    <2>1. Top.pc \notin Forcing \cup Handling \cup Admission /\ Top.pc = "advertise"
      BY <1>5 DEF Advertise, At, Forcing, Handling, Admission
    <2>2. CASE (srv.listener # "open" \/ srv.draining) /\ Goto("serve") /\ UNCHANGED <<result, srv>>
      <3>1. Top = Base /\ Base'.pc = "serve" /\ Base'.expired = Base.expired => Ending'
        BY <1>1, <1>2, <2>1, <2>2 DEF Ending, Forcing
      <3> QED BY <1>1, <1>2, <2>1, <2>2, <3>1, GotoKept
    <2>3. CASE srv' = [srv EXCEPT !.reporter = TRUE] /\ Goto("announce") /\ UNCHANGED result
      <3>1. srv' \in Servers /\ (srv.sentinel => srv'.sentinel)
        BY <1>1, <2>3 DEF Servers
      <3>2. Top = Base /\ Base'.pc = "announce" /\ Base'.expired = Base.expired => Ending'
        BY <1>1, <1>2, <2>1, <2>3 DEF Ending, Forcing, Servers
      <3> QED BY <1>1, <1>2, <2>1, <2>3, <3>1, <3>2, GotoKept
    <2>4. CASE /\ srv' = [srv EXCEPT !.listener = "closed"]
               /\ result' = "failed" /\ Goto("over")
      <3>1. srv' \in Servers /\ (srv.sentinel => srv'.sentinel)
        BY <1>1, <2>4 DEF Servers
      <3>2. Top = Base /\ Base'.pc = "over" /\ Base'.expired = Base.expired => Ending'
        BY <1>1, <1>2, <2>1, <2>4 DEF Ending, Forcing, Servers
      <3> QED BY <1>1, <1>2, <2>1, <2>4, <3>1, <3>2, GotoKept
    <2> QED BY <1>5, <2>2, <2>3, <2>4 DEF Advertise
  <1>6. CASE Announce
    <2>1. Top.pc \notin Forcing \cup Handling \cup Admission /\ Top.pc = "announce"
      BY <1>6 DEF Announce, At, Forcing, Handling, Admission
    <2>2. CASE Goto("serve") /\ UNCHANGED <<result, srv>>
      <3>1. Top = Base /\ Base'.pc = "serve" /\ Base'.expired = Base.expired => Ending'
        BY <1>1, <1>2, <2>1, <2>2 DEF Ending, Forcing
      <3> QED BY <1>1, <1>2, <2>1, <2>2, <3>1, GotoKept
    <2>3. CASE /\ srv' = [srv EXCEPT !.listener = "closed", !.sentinel = TRUE]
               /\ result' = "failed" /\ Goto("over")
      <3>1. srv' \in Servers /\ (srv.sentinel => srv'.sentinel)
        BY <1>1, <2>3 DEF Servers
      <3>2. Top = Base /\ Base'.pc = "over" /\ Base'.expired = Base.expired => Ending'
        BY <1>1, <1>2, <2>1, <2>3 DEF Ending, Forcing, Servers
      <3> QED BY <1>1, <1>2, <2>1, <2>3, <3>1, <3>2, GotoKept
    <2> QED BY <1>6, <2>2, <2>3 DEF Announce
  <1> QED BY <1>3, <1>4, <1>5, <1>6, <1>7

LEMMA ServingKept ==
  ASSUME Kept, Serve \/ LeaveLoop \/ AcceptFails \/ Leave \/ Drain \/ Answer \/ Stop
  PROVE  Kept'
  <1>1. /\ srv \in Servers /\ result \in {"none", "drained", "expired", "interrupted", "failed"}
        /\ Ending
    BY DEF Kept, Shaped
  <1>2. UNCHANGED <<signals, Counts, Threads>> /\ active' = active /\ reaper' = reaper
    BY DEF Serve, LeaveLoop, AcceptFails, Leave, Drain, Answer, Stop, Rest, Counts, Threads
  <1>3. CASE Serve
    <2>1. Top.pc \notin Forcing \cup Handling \cup Admission /\ Top.pc = "serve"
      BY <1>3 DEF Serve, At, Forcing, Handling, Admission
    <2> DEFINE pc == IF srv.draining THEN "drain" ELSE "loop"
    <2>2. Goto(pc) /\ UNCHANGED <<result, srv>> /\ pc \in {"drain", "loop"}
      BY <1>3 DEF Serve
    <2>3. Top = Base /\ Base'.pc = pc /\ Base'.expired = Base.expired => Ending'
      BY <1>1, <1>2, <2>1, <2>2 DEF Ending, Forcing, Servers
    <2> HIDE DEF pc
    <2> QED BY <1>1, <1>2, <2>1, <2>2, <2>3, GotoKept
  <1>4. CASE LeaveLoop
    <2>1. Top.pc \notin Forcing \cup Handling \cup Admission /\ Top.pc = "loop"
      BY <1>4 DEF LeaveLoop, At, Forcing, Handling, Admission
    <2>2. Goto("leave") /\ UNCHANGED <<result, srv>>
      BY <1>4 DEF LeaveLoop
    <2>3. Top = Base /\ Base'.pc = "leave" /\ Base'.expired = Base.expired => Ending'
      BY <1>1, <1>2, <2>1, <2>2 DEF Ending, Forcing
    <2> QED BY <1>1, <1>2, <2>1, <2>2, <2>3, GotoKept
  <1>5. CASE AcceptFails
    <2>1. Top.pc \notin Forcing \cup Handling \cup Admission /\ Top.pc = "loop"
      BY <1>5 DEF AcceptFails, At, Forcing, Handling, Admission
    <2>2. Goto("snap") /\ UNCHANGED srv /\ result' = "failed"
      BY <1>5 DEF AcceptFails
    <2>3. Top = Base /\ Base'.pc = "snap" /\ Base'.expired = Base.expired => Ending'
      BY <1>1, <1>2, <2>1, <2>2 DEF Ending, Forcing
    <2> QED BY <1>1, <1>2, <2>1, <2>2, <2>3, GotoKept
  <1>6. CASE Leave
    <2>1. Top.pc \notin Forcing \cup Handling \cup Admission /\ Top.pc = "leave"
      BY <1>6 DEF Leave, At, Forcing, Handling, Admission
    <2> DEFINE pc == IF result = "failed" THEN "stop" ELSE "drain"
    <2>2. /\ Goto(pc) /\ UNCHANGED result /\ pc \in {"drain", "stop"}
          /\ srv' = [srv EXCEPT !.listener = "closed"]
      BY <1>6 DEF Leave
    <2>3. srv' \in Servers /\ (srv.sentinel => srv'.sentinel)
      BY <1>1, <2>2 DEF Servers
    <2>4. Top = Base /\ Base'.pc = pc /\ Base'.expired = Base.expired => Ending'
      BY <1>1, <1>2, <2>1, <2>2 DEF Ending, Forcing, Servers
    <2> HIDE DEF pc
    <2> QED BY <1>1, <1>2, <2>1, <2>2, <2>3, <2>4, GotoKept
  <1>7. CASE Drain
    <2>1. Top.pc \notin Forcing \cup Handling \cup Admission /\ Top.pc = "drain"
      BY <1>7 DEF Drain, At, Forcing, Handling, Admission
    <2>2. UNCHANGED <<result, srv>>
      BY <1>7 DEF Drain
    <2>3. CASE (active = 0 \/ srv.immediate) /\ Goto("answer")
      <3>1. Top = Base /\ Base'.pc = "answer" /\ Base'.expired = Base.expired => Ending'
        BY <1>1, <1>2, <2>1, <2>2, <2>3 DEF Ending, Forcing
      <3> QED BY <1>1, <1>2, <2>1, <2>2, <2>3, <3>1, GotoKept
    <2>4. CASE SetTop([Top EXCEPT !.pc = "snap", !.expired = TRUE])
      <3> DEFINE frame == [Top EXCEPT !.pc = "snap", !.expired = TRUE]
      <3>1. frame \in Frames /\ frame.pc = "snap" /\ frame.expired
        BY StackFacts DEF Kept, Frames
      <3>2. Top = Base
        BY <2>1, AtBase DEF Kept
      <3>3. Base' = frame => Ending'
        BY <1>1, <1>2, <2>1, <2>2, <3>1, <3>2 DEF Ending, Forcing
      <3>4. SetTop(frame)
        BY <2>4
      <3> HIDE DEF frame
      <3> QED
        BY <1>1, <1>2, <2>1, <2>2, <3>1, <3>3, <3>4, BaseKept
        DEF Handling, Admission, Pointing
    <2> QED BY <1>7, <2>3, <2>4 DEF Drain
  <1>8. CASE Answer
    <2>1. Top.pc \notin Forcing \cup Handling \cup Admission /\ Top.pc = "answer"
      BY <1>8 DEF Answer, At, Forcing, Handling, Admission
    <2>2. /\ UNCHANGED srv /\ SetTop(Frame("stop"))
          /\ result' = IF srv.immediate THEN "interrupted"
                       ELSE IF Top.expired THEN "expired" ELSE "drained"
      BY <1>8 DEF Answer
    <2>3. Frame("stop") \in Frames /\ Frame("stop").pc = "stop"
      BY DEF Frame, Frames
    <2>4. Top = Base
      BY <2>1, AtBase DEF Kept
    <2>5. Base' = Frame("stop") => Ending'
      BY <1>1, <1>2, <2>1, <2>2, <2>3, <2>4 DEF Ending, Forcing
    <2>6. result' \in {"none", "drained", "expired", "interrupted", "failed"}
      BY <2>2
    <2> QED
      BY <1>1, <1>2, <2>1, <2>2, <2>3, <2>5, <2>6, BaseKept
      DEF Handling, Admission, Pointing
  <1>9. CASE Stop
    <2>1. Top.pc \notin Forcing \cup Handling \cup Admission /\ Top.pc = "stop"
      BY <1>9 DEF Stop, At, Forcing, Handling, Admission
    <2>2. /\ Goto("over") /\ UNCHANGED result
          /\ srv' = [srv EXCEPT !.sentinel = srv.reporter, !.stopping = TRUE]
      BY <1>9 DEF Stop
    <2>3. Top = Base
      BY <2>1, AtBase DEF Kept
    <2>4. srv' \in Servers /\ (srv.sentinel => srv'.sentinel)
      BY <1>1, <2>1, <2>2, <2>3 DEF Servers, Ending
    <2>5. Base'.pc = "over" /\ Base'.expired = Base.expired => Ending'
      BY <1>1, <1>2, <2>1, <2>2, <2>3 DEF Ending, Forcing, Servers
    <2> QED BY <1>1, <1>2, <2>1, <2>2, <2>4, <2>5, GotoKept
  <1> QED BY <1>3, <1>4, <1>5, <1>6, <1>7, <1>8, <1>9

LEMMA ForcingStep ==
  ASSUME Kept, Top.pc \in Forcing, NEW frame \in Frames, SetTop(frame),
         frame.pc \in Forcing, frame.pc \in Pointing => frame.cur \in Conns,
         frame.expired = Top.expired,
         UNCHANGED <<result, signals, srv, active, reaper>>
  PROVE  /\ stack' \in Seq(Frames) /\ Len(stack') >= 1 /\ StackShape' /\ Ending'
         /\ Base.pc \in Admission \/ Base'.pc \in Admission => Base' = Base
  <1>1. /\ stack' \in Seq(Frames) /\ Len(stack') = Len(stack) /\ StackShape'
        /\ Base' = IF Len(stack) = 1 THEN frame ELSE Base
    BY TopStep DEF Kept, Forcing, Handling
  <1>2. Len(stack) >= 1 /\ (Len(stack) = 1 => Base = Top)
    BY DEF Kept, Shaped, Top, Base
  <1>3. Ending'
    <2>1. CASE Len(stack) = 1
      BY <1>1, <1>2, <2>1 DEF Kept, Ending, Forcing
    <2>2. CASE Len(stack) # 1
      BY <1>1, <2>2 DEF Kept, Ending
    <2> QED BY <2>1, <2>2
  <1>4. Base.pc \in Admission \/ Base'.pc \in Admission => Base' = Base
    BY <1>1, <1>2 DEF Forcing, Admission
  <1> QED BY <1>1, <1>2, <1>3, <1>4

LEMMA ReturnStep ==
  ASSUME Kept, Len(stack) > 1, Return, UNCHANGED signals
  PROVE  stack' \in Seq(Frames) /\ Len(stack') >= 1 /\ StackShape' /\ Base' = Base
  <1>1. stack \in Seq(Frames) /\ Len(stack) \in Nat
    BY DEF Kept, Shaped
  <1>2. /\ stack' \in Seq(Frames) /\ Len(stack') = Len(stack) - 1
        /\ \A i \in 1 .. Len(stack') : stack'[i] = stack[i]
    BY <1>1 DEF Return
  <1>3. stack'[1] = stack[1]
    BY <1>1, <1>2
  <1>4. Len(stack') <= signals' + 1
    BY <1>1, <1>2 DEF Kept, StackShape, Shaped
  <1>5. stack[1].pc # "over"
    BY DEF Kept, StackShape
  <1>6. \A i \in 2 .. Len(stack') : stack'[i].pc \in Forcing \cup Handling
    BY <1>1, <1>2 DEF Kept, StackShape
  <1>7. \A i \in 1 .. Len(stack') : stack'[i].pc \in Pointing => stack'[i].cur \in Conns
    BY <1>1, <1>2 DEF Kept, StackShape
  <1>8. stack'[1].pc \notin Handling
    BY <1>3 DEF Kept, StackShape
  <1>9. StackShape'
    BY <1>3, <1>4, <1>5, <1>6, <1>7, <1>8 DEF StackShape
  <1> QED BY <1>1, <1>2, <1>3, <1>9 DEF Base

(* What is above the frame of serve().                                     *)
LEMMA HandlerAbove ==
  ASSUME Kept, Top.pc \in Handling
  PROVE  Len(stack) # 1
  BY DEF Kept, StackShape, Top

LEMMA InterruptKept ==
  ASSUME Kept, Interrupt \/ Expire
  PROVE  Kept'
  <1>1. /\ srv \in Servers /\ result \in {"none", "drained", "expired", "interrupted", "failed"}
        /\ Ending /\ stack \in Seq(Frames) /\ Len(stack) >= 1 /\ signals \in 0 .. MaxSignals
        /\ StackShape /\ Len(stack) \in Nat
    BY DEF Kept, Shaped
  <1>2. UNCHANGED <<Counts, Threads>> /\ active' = active /\ reaper' = reaper
    BY DEF Interrupt, Expire, Rest, Counts, Threads
  <1>3. CASE Interrupt
    <2>1. /\ signals' = signals + 1 /\ signals' \in 0 .. MaxSignals
          /\ UNCHANGED <<result, srv>> /\ Base.pc # "over"
      BY <1>1, <1>3, SlotsAssumption DEF Interrupt
    <2>2. CASE stack' = stack
      <3>1. StackShape' /\ Base' = Base
        BY <1>1, <2>1, <2>2 DEF StackShape, Base
      <3>2. Ending'
        BY <1>1, <1>2, <2>1, <3>1 DEF Ending
      <3>3. Shaped'
        BY <1>1, <1>2, <2>1, <2>2, ShapedControl
      <3> QED BY <1>2, <2>1, <3>1, <3>2, <3>3, ControlKept
    <2>3. CASE \E pc \in {"first", "second"} : stack' = Append(stack, Frame(pc))
      <3>1. PICK pc \in {"first", "second"} : stack' = Append(stack, Frame(pc))
        BY <2>3
      <3>2. Frame(pc) \in Frames /\ Frame(pc).pc = pc
        BY DEF Frame, Frames
      <3> HIDE DEF Frame
      <3>3. /\ stack' \in Seq(Frames) /\ Len(stack') = Len(stack) + 1
            /\ stack'[Len(stack) + 1] = Frame(pc)
            /\ \A i \in 1 .. Len(stack) : stack'[i] = stack[i]
        BY <1>1, <3>1, <3>2
      <3>4. Base' = Base
        BY <1>1, <3>3 DEF Base
      <3>5. \A i \in 1 .. Len(stack') : i = Len(stack) + 1 \/ i \in 1 .. Len(stack)
        BY <1>1, <3>3
      <3>6. \A i \in 2 .. Len(stack') : stack'[i].pc \in Forcing \cup Handling
        BY <1>1, <3>2, <3>3, <3>5 DEF StackShape, Handling
      <3>7. \A i \in 1 .. Len(stack') : stack'[i].pc \in Pointing => stack'[i].cur \in Conns
        BY <1>1, <3>2, <3>3, <3>5 DEF StackShape, Pointing
      <3>8. Len(stack') <= signals' + 1
        BY <1>1, <2>1, <3>3 DEF StackShape
      <3>9. stack'[1].pc \notin Handling /\ stack'[1].pc # "over"
        BY <1>1, <2>1, <3>4 DEF StackShape, Base
      <3>10. StackShape'
        BY <3>6, <3>7, <3>8, <3>9 DEF StackShape
      <3>11. Ending'
        BY <1>1, <1>2, <2>1, <3>4 DEF Ending
      <3>12. Len(stack') >= 1
        BY <1>1, <3>3
      <3>13. Shaped'
        BY <1>1, <1>2, <2>1, <3>3, <3>12, ShapedControl
      <3> QED BY <1>2, <2>1, <3>4, <3>10, <3>11, <3>13, ControlKept
    <2> QED BY <1>3, <2>2, <2>3 DEF Interrupt
  <1>4. CASE Expire
    <2>1. srv' = [srv EXCEPT !.late = TRUE] /\ UNCHANGED <<stack, result, signals>>
      BY <1>4 DEF Expire, Rest
    <2>2. srv' \in Servers /\ (srv.sentinel => srv'.sentinel)
      BY <1>1, <2>1 DEF Servers
    <2>3. StackShape' /\ Base' = Base
      BY <1>1, <2>1 DEF StackShape, Base
    <2>4. Ending'
      BY <1>1, <1>2, <2>1, <2>3 DEF Ending, Servers
    <2>5. Shaped'
      BY <1>1, <1>2, <2>1, <2>2, ShapedControl
    <2> QED BY <1>2, <2>2, <2>3, <2>4, <2>5, ControlKept
  <1> QED BY <1>3, <1>4

LEMMA HandlerKept ==
  ASSUME Kept, LockDraining \/ SetDraining \/ LockImmediate \/ SetImmediate
  PROVE  Kept'
  <1>1. /\ srv \in Servers /\ result \in {"none", "drained", "expired", "interrupted", "failed"}
        /\ Ending /\ Shaped /\ StackShape /\ signals \in 0 .. MaxSignals
    BY DEF Kept, Shaped
  <1>2. UNCHANGED <<result, signals, Counts, Threads>> /\ active' = active /\ reaper' = reaper
    BY DEF LockDraining, SetDraining, LockImmediate, SetImmediate, Rest, Counts, Threads
  <1>3. Top.pc \in Handling
    BY DEF LockDraining, SetDraining, LockImmediate, SetImmediate, At, Handling
  <1>4. Len(stack) # 1 /\ Len(stack) > 1
    <2>1. Len(stack) # 1
      BY <1>3, HandlerAbove
    <2> QED BY <1>1, <2>1, Depth
  <1>5. srv' \in Servers /\ (srv.sentinel => srv'.sentinel)
    BY <1>1 DEF LockDraining, SetDraining, LockImmediate, SetImmediate, Servers
  <1>6. stack' \in Seq(Frames) /\ Len(stack') >= 1 /\ StackShape' /\ Base' = Base
    <2>1. CASE SetDraining
      BY <1>2, <1>4, <2>1, ReturnStep DEF SetDraining
    <2>2. ASSUME NEW pc \in {"setting", "forcing", "snap"}, Goto(pc)
          PROVE  stack' \in Seq(Frames) /\ Len(stack') >= 1 /\ StackShape' /\ Base' = Base
      <3> DEFINE frame == [Top EXCEPT !.pc = pc]
      <3>1. frame \in Frames /\ frame.pc = pc
        BY GotoFrame
      <3>2. SetTop(frame)
        BY <2>2 DEF Goto
      <3>3. pc \in Forcing \cup Handling /\ pc \notin Pointing
        BY DEF Forcing, Handling, Pointing
      <3> HIDE DEF frame
      <3> QED BY <1>1, <1>2, <1>4, <3>1, <3>2, <3>3, TopStep DEF Shaped
    <2> QED BY <2>1, <2>2 DEF LockDraining, LockImmediate, SetImmediate
  <1>7. Ending'
    <2>1. CASE UNCHANGED srv
      BY <1>1, <1>2, <1>6, <2>1 DEF Ending
    <2>2. CASE SetDraining \/ SetImmediate
      BY <1>1, <1>2, <1>6, <2>2 DEF Ending, SetDraining, SetImmediate, Servers
    <2> QED BY <2>1, <2>2 DEF LockDraining, LockImmediate
  <1>8. Shaped'
    BY <1>1, <1>2, <1>5, <1>6, ShapedControl
  <1> QED BY <1>2, <1>5, <1>6, <1>7, <1>8, ControlKept

LEMMA ForcedKept ==
  ASSUME Kept, Snapshot \/ PickHandle \/ Forced
  PROVE  Kept'
  <1>1. /\ srv \in Servers /\ result \in {"none", "drained", "expired", "interrupted", "failed"}
        /\ Ending /\ Shaped /\ StackShape /\ signals \in 0 .. MaxSignals
        /\ handles \in SUBSET Conns /\ Top \in Frames
    BY StackFacts DEF Kept, Shaped
  <1>2. UNCHANGED <<result, signals, srv, Counts, Threads>> /\ active' = active /\ reaper' = reaper
    BY DEF Snapshot, PickHandle, Forced, Rest, Counts, Threads
  <1>3. Top.pc \in Forcing
    BY DEF Snapshot, PickHandle, Forced, At, Forcing
  <1>4. ASSUME NEW frame \in Frames, SetTop(frame), frame.pc \in Forcing,
               frame.pc \in Pointing => frame.cur \in Conns, frame.expired = Top.expired
        PROVE  Kept'
    <2>1. /\ stack' \in Seq(Frames) /\ Len(stack') >= 1 /\ StackShape' /\ Ending'
          /\ Base.pc \in Admission \/ Base'.pc \in Admission => Base' = Base
      BY <1>2, <1>3, <1>4, ForcingStep
    <2>2. Shaped'
      BY <1>1, <1>2, <2>1, ShapedControl
    <2> QED BY <1>2, <2>1, <2>2, ControlKept
  <1>5. CASE Snapshot
    <2> DEFINE frame == [Top EXCEPT !.pc = "wake", !.todo = handles]
    <2>1. frame \in Frames /\ frame.pc = "wake" /\ frame.expired = Top.expired
      BY <1>1 DEF Frames
    <2>2. SetTop(frame)
      BY <1>5 DEF Snapshot
    <2> HIDE DEF frame
    <2> QED BY <1>4, <2>1, <2>2 DEF Forcing, Pointing
  <1>6. CASE PickHandle
    <2>1. PICK c \in Top.todo :
            SetTop([Top EXCEPT !.pc = "waking", !.cur = c, !.todo = @ \ {c}])
      BY <1>6 DEF PickHandle
    <2> DEFINE frame == [Top EXCEPT !.pc = "waking", !.cur = c, !.todo = @ \ {c}]
    <2>2. c \in Conns
      BY <1>1, <2>1 DEF Frames
    <2>3. frame \in Frames /\ frame.pc = "waking" /\ frame.expired = Top.expired /\ frame.cur = c
      BY <1>1, <2>2 DEF Frames
    <2>4. SetTop(frame)
      BY <2>1
    <2> HIDE DEF frame
    <2> QED BY <1>4, <2>2, <2>3, <2>4 DEF Forcing, Pointing
  <1>7. CASE Forced
    <2>1. CASE Len(stack) > 1
      <3>1. Return
        BY <1>7, <2>1 DEF Forced
      <3>2. stack' \in Seq(Frames) /\ Len(stack') >= 1 /\ StackShape' /\ Base' = Base
        BY <1>2, <2>1, <3>1, ReturnStep
      <3>3. Ending'
        BY <1>1, <1>2, <3>2 DEF Ending
      <3>4. Shaped'
        BY <1>1, <1>2, <3>2, ShapedControl
      <3> QED BY <1>2, <3>2, <3>3, <3>4, ControlKept
    <2>2. CASE ~ (Len(stack) > 1)
      <3> DEFINE pc == IF result = "failed" THEN "leave" ELSE "answer"
      <3>1. Goto(pc) /\ pc \in {"leave", "answer"}
        BY <1>7, <2>2 DEF Forced
      <3>2. Len(stack) = 1 /\ Top = Base
        BY <1>1, <2>2, Depth DEF Top, Base
      <3> DEFINE frame == [Top EXCEPT !.pc = pc]
      <3>3. frame \in Frames /\ frame.pc = pc /\ frame.expired = Top.expired
        BY <3>1, GotoFrame
      <3>4. SetTop(frame)
        BY <3>1 DEF Goto
      <3>5. pc \notin Handling \cup Admission \cup Pointing
        BY DEF Handling, Admission, Pointing
      <3>6. pc = IF result = "failed" THEN "leave" ELSE "answer"
        OBVIOUS
      <3> HIDE DEF frame, pc
      <3>7. /\ stack' \in Seq(Frames) /\ Len(stack') = Len(stack) /\ StackShape'
            /\ Base' = IF Len(stack) = 1 THEN frame ELSE Base
        BY <1>1, <1>2, <3>2, <3>3, <3>4, <3>5, TopStep
      <3>8. Ending'
        BY <1>1, <1>2, <1>3, <3>2, <3>3, <3>6, <3>7 DEF Ending, Forcing
      <3>9. Shaped'
        BY <1>1, <1>2, <3>2, <3>7, ShapedControl
      <3>10. Base.pc \notin Admission /\ Base'.pc \notin Admission
        BY <1>3, <3>2, <3>3, <3>5, <3>7 DEF Forcing, Admission
      <3> QED BY <1>2, <3>7, <3>8, <3>9, <3>10, ControlKept
    <2> QED BY <2>1, <2>2
  <1> QED BY <1>5, <1>6, <1>7

-----------------------------------------------------------------------------
(* Counting.                                                               *)

One(b) == IF b THEN 1 ELSE 0

LEMMA Counting ==
  ASSUME NEW S, NEW T, NEW c, IsFiniteSet(S), \A d : d # c => (d \in S <=> d \in T)
  PROVE  Cardinality(T) = Cardinality(S) + One(c \in T) - One(c \in S)
  <1>1. Cardinality(S) \in Nat
    BY FS_CardinalityType
  <1>2. CASE c \in S /\ c \in T
    <2>1. S = T
      BY <1>2
    <2> QED BY <1>1, <1>2, <2>1 DEF One
  <1>3. CASE c \notin S /\ c \notin T
    <2>1. S = T
      BY <1>3
    <2> QED BY <1>1, <1>3, <2>1 DEF One
  <1>4. CASE c \in S /\ c \notin T
    <2>1. T = S \ {c}
      BY <1>4
    <2>2. Cardinality(T) = Cardinality(S) - 1
      BY <1>4, <2>1, FS_RemoveElement
    <2> QED BY <1>1, <1>4, <2>2 DEF One
  <1>5. CASE c \notin S /\ c \in T
    <2>1. T = S \cup {c}
      BY <1>5
    <2>2. Cardinality(T) = Cardinality(S) + 1
      BY <1>5, <2>1, FS_AddElement
    <2> QED BY <1>1, <1>5, <2>2 DEF One
  <1> QED BY <1>2, <1>3, <1>4, <1>5

LEMMA CountsFinite ==
  /\ IsFiniteSet(Holders) /\ IsFiniteSet(Starters) /\ IsFiniteSet(Admitted)
  /\ IsFiniteSet(Holders)' /\ IsFiniteSet(Starters)' /\ IsFiniteSet(Admitted)'
  <1>1. /\ Holders \subseteq Conns /\ Starters \subseteq Conns /\ Admitted \subseteq Conns
        /\ Holders' \subseteq Conns /\ Starters' \subseteq Conns /\ Admitted' \subseteq Conns
    BY DEF Holders, Starters, Admitted
  <1> QED BY <1>1, ConnsAssumption, FS_Subset

(* What Kept says of the counts.                                           *)
LEMMA CountsFacts ==
  ASSUME Shaped, SlotsCounted
  PROVE  /\ free \in Nat /\ startFree \in Nat /\ active \in Nat /\ Slots \in Nat
         /\ Cardinality(Holders) \in Nat /\ Cardinality(Starters) \in Nat
         /\ Cardinality(Admitted) \in Nat
         /\ free + Cardinality(Holders) = Slots
         /\ startFree + Cardinality(Starters) = Slots
         /\ active = Cardinality(Admitted)
  <1>1. /\ Cardinality(Holders) \in Nat /\ Cardinality(Starters) \in Nat
        /\ Cardinality(Admitted) \in Nat
    BY CountsFinite, FS_CardinalityType
  <1>2. free \in Nat /\ startFree \in Nat
    BY DEF Shaped
  <1> QED BY <1>1, <1>2, SlotsAssumption DEF SlotsCounted

LEMMA CountsTyped ==
  ASSUME Shaped, StackShape, SlotsCounted
  PROVE  TypeOK
  <1>1. Cardinality(Admitted) <= Cardinality(Conns) /\ Cardinality(Conns) \in Nat
    <2>1. Admitted \subseteq Conns
      BY DEF Admitted
    <2> QED BY <2>1, ConnsAssumption, FS_Subset, FS_CardinalityType
  <1>2. free \in 0 .. Slots
    BY CountsFacts
  <1>3. startFree \in 0 .. Slots
    BY CountsFacts
  <1>4. active \in 0 .. Cardinality(Conns)
    BY <1>1, CountsFacts
  <1>5. stack \in Seq(Frames) /\ Len(stack) \in 1 .. MaxSignals + 1
    <2>1. stack \in Seq(Frames) /\ Len(stack) >= 1 /\ signals \in 0 .. MaxSignals
      BY DEF Shaped
    <2>2. PICK n \in Nat : n = Len(stack)
      BY <2>1
    <2>3. n >= 1 /\ n <= signals + 1
      BY <2>1, <2>2 DEF StackShape
    <2>4. n \in 1 .. MaxSignals + 1
      BY <2>1, <2>3, SlotsAssumption
    <2> QED BY <2>1, <2>2, <2>4
  <1> QED BY <1>2, <1>3, <1>4, <1>5 DEF Shaped, TypeOK

(* The drain waits for every connection with a thread.                     *)
LEMMA Threaded ==
  ASSUME Kept, NEW c \in Conns, InThread(c)
  PROVE  active >= 1
  <1>1. c \in Admitted
    BY DEF Admitted
  <1>2. Cardinality(Admitted) # 0
    BY <1>1, CountsFinite, FS_EmptySet
  <1>3. Cardinality(Admitted) \in Nat
    BY CountsFinite, FS_CardinalityType
  <1> QED BY <1>2, <1>3 DEF Kept, SlotsCounted

-----------------------------------------------------------------------------
(* Steps that concern one connection.                                      *)

Elsewhere(c) ==
  \A d \in Conns \ {c} :
    /\ link'[d] = link[d] /\ start'[d] = start[d] /\ event'[d] = event[d]
    /\ child'[d] = child[d]
    /\ d \in reaper'.queue <=> d \in reaper.queue
    /\ d \in reaper'.leased <=> d \in reaper.leased

LEMMA OthersKept ==
  ASSUME Kept, NEW c \in Conns, Elsewhere(c), Lease(c)', Resolver(c)',
         link'[c].lateLine => srv'.sentinel, srv.sentinel => srv'.sentinel
  PROVE  Leases' /\ Resolvers' /\ LateLines'
  <1>1. ASSUME NEW d \in Conns \ {c}
        PROVE  Lease(d)' /\ Resolver(d)' /\ (link'[d].lateLine => srv'.sentinel)
    <2>1. Lease(d) /\ Resolver(d) /\ (link[d].lateLine => srv.sentinel)
      BY DEF Kept, Leases, Resolvers, LateLines
    <2>2. /\ link'[d] = link[d] /\ start'[d] = start[d] /\ event'[d] = event[d]
          /\ child'[d] = child[d]
          /\ d \in reaper'.queue <=> d \in reaper.queue
          /\ d \in reaper'.leased <=> d \in reaper.leased
      BY DEF Elsewhere
    <2>3. Lease(d)'
      BY <2>1, <2>2 DEF Lease
    <2>4. Resolver(d)'
      BY <2>1, <2>2 DEF Resolver, Runs, Reaped, Finished
    <2> QED BY <2>1, <2>2, <2>3, <2>4
  <1> QED BY <1>1 DEF Leases, Resolvers, LateLines

(* ... its starter or its process, by whatever thread.                     *)
LEMMA ProcessKept ==
  ASSUME Kept, NEW c \in Conns, Elsewhere(c), UNCHANGED <<free, active, link, reaper>>,
         Shaped', StackShape', Ending', Resolver(c)',
         Base.pc \in Admission \/ Base'.pc \in Admission => Base' = Base,
         srv.sentinel => srv'.sentinel,
         startFree' = startFree + One(c \in Starters) - One(c \in Starters')
  PROVE  Kept'
  <1>1. AdmissionShape'
    BY DEF Kept, AdmissionShape
  <1>2. Holders' = Holders /\ Admitted' = Admitted
    BY DEF Holders, Admitted, InThread, Admission
  <1>3. Cardinality(Starters') = Cardinality(Starters) + One(c \in Starters') - One(c \in Starters)
    <2>1. \A d : d # c => (d \in Starters <=> d \in Starters')
      BY DEF Starters, Elsewhere
    <2> QED BY <2>1, CountsFinite, Counting
  <1>4. SlotsCounted'
    <2>1. Shaped /\ SlotsCounted
      BY DEF Kept
    <2>2. startFree' + Cardinality(Starters') = Slots
      BY <1>3, <2>1, CountsFacts DEF One
    <2> QED BY <1>2, <2>1, <2>2 DEF SlotsCounted
  <1>5. Lease(c)' /\ ReaperShape' /\ (link'[c].lateLine => srv'.sentinel)
    BY DEF Kept, Leases, Lease, ReaperShape, LateLines
  <1>6. Leases' /\ Resolvers' /\ LateLines'
    BY <1>5, OthersKept
  <1> QED BY <1>1, <1>4, <1>5, <1>6 DEF Kept

(* ... its thread.                                                         *)
LEMMA ThreadKept ==
  ASSUME Kept, NEW c \in Conns, InThread(c), UNCHANGED Main, Shaped', Elsewhere(c),
         Lease(c)', Resolver(c)', ReaperShape',
         link'[c].pc \notin {"idle", "refused", "accepted"},
         link'[c].lateLine => srv.sentinel,
         reaper'.pc = "gone" => reaper.pc = "gone",
         free' = IF link'[c].released THEN free + 1 ELSE free,
         startFree' = startFree + One(c \in Starters) - One(c \in Starters'),
         active' = IF link'[c].pc = "over" THEN active - 1 ELSE active
  PROVE  Kept'
  <1>1. active >= 1
    BY Threaded
  <1>2. Base' = Base
    BY DEF Main, Base
  <1>3. StackShape' /\ srv' = srv
    BY DEF Kept, StackShape, Main
  <1>4. Ending'
    BY <1>1, <1>2, <1>3 DEF Kept, Ending, Shaped, Main
  <1>5. AdmissionShape'
    <2>1. \A d \in Conns : link'[d].pc = "accepted" <=> link[d].pc = "accepted"
      BY DEF Elsewhere, InThread
    <2> QED BY <1>2, <2>1 DEF Kept, AdmissionShape
  <1>6. ~ link[c].released /\ link[c].pc \notin Outside /\ link[c].pc # "accepted"
    BY DEF Kept, Leases, Lease, InThread, Outside
  <1>7. Shaped /\ SlotsCounted
    BY DEF Kept
  <1>8. free' + Cardinality(Holders') = Slots
    <2>1. \A d : d # c => (d \in Holders <=> d \in Holders')
      BY DEF Holders, Elsewhere
    <2>2. Cardinality(Holders') = Cardinality(Holders) + One(c \in Holders') - One(c \in Holders)
      BY <2>1, CountsFinite, Counting
    <2>3. c \in Holders /\ (c \in Holders' <=> ~ link'[c].released)
      BY <1>6 DEF Holders, Outside
    <2> QED BY <1>7, <2>2, <2>3, CountsFacts DEF One
  <1>9. startFree' + Cardinality(Starters') = Slots
    <2>1. \A d : d # c => (d \in Starters <=> d \in Starters')
      BY DEF Starters, Elsewhere
    <2>2. Cardinality(Starters') = Cardinality(Starters) + One(c \in Starters') - One(c \in Starters)
      BY <2>1, CountsFinite, Counting
    <2> QED BY <1>7, <2>2, CountsFacts DEF One
  <1>10. active' = Cardinality(Admitted')
    <2>1. \A d : d # c => (d \in Admitted <=> d \in Admitted')
      BY <1>2 DEF Admitted, InThread, Elsewhere
    <2>2. Cardinality(Admitted') = Cardinality(Admitted) + One(c \in Admitted') - One(c \in Admitted)
      BY <2>1, CountsFinite, Counting
    <2>3. ~ (Base.pc = "spawn" /\ Base.cur = c)
      BY <1>6 DEF Kept, AdmissionShape, Admission
    <2>4. c \in Admitted /\ (c \in Admitted' <=> link'[c].pc # "over")
      BY <1>2, <2>3 DEF Admitted, InThread
    <2> QED BY <1>7, <2>2, <2>4, CountsFacts DEF One
  <1>11. Leases' /\ Resolvers' /\ LateLines'
    BY <1>3, OthersKept
  <1> QED BY <1>3, <1>4, <1>5, <1>8, <1>9, <1>10, <1>11 DEF Kept, SlotsCounted

-----------------------------------------------------------------------------
(* The steps of a connection's thread.                                     *)

LinkPoints == {"idle", "refused", "accepted", "receive", "resolve", "begin",
               "waiting", "result", "wake", "woken", "finish", "finishing",
               "finished", "defer", "emit", "release", "over"}

Linked(c) == /\ link' \in [Conns -> Links]
             /\ \A d \in Conns \ {c} : link'[d] = link[d]

Leased(c) == <<link[c].connectionDone, link[c].processDone, link[c].released>>

LEMMA LinkPut ==
  ASSUME Kept, NEW c \in Conns, NEW l \in Links, link' = [link EXCEPT ![c] = l]
  PROVE  Linked(c) /\ link'[c] = l
  BY DEF Kept, Shaped, Linked

LEMMA StepFacts ==
  ASSUME Kept, NEW c \in Conns, NEW pc \in LinkPoints, Step(c, pc) \/ Page(c, pc)
  PROVE  /\ Linked(c) /\ link'[c].pc = pc /\ UNCHANGED Leased(c)
         /\ link'[c].lateLine = link[c].lateLine
  BY DEF Kept, Shaped, Links, Step, Page, Linked, Leased, LinkPoints

(* The process side of a connection: who changed nothing elsewhere.        *)
Processes(c) ==
  /\ start' \in [Conns -> Starts] /\ event' \in [Conns -> Events]
  /\ child' \in [Conns -> Children]
  /\ \A d \in Conns \ {c} :
       start'[d] = start[d] /\ event'[d] = event[d] /\ child'[d] = child[d]

LEMMA SameProcesses ==
  ASSUME Kept, NEW c, UNCHANGED <<start, event, child>>
  PROVE  Processes(c)
  BY DEF Kept, Shaped, Processes

LEMMA PlainKept ==
  ASSUME Kept, NEW c \in Conns, InThread(c), UNCHANGED <<Main, free, active>>,
         handles' \in SUBSET Conns, startFree' \in Nat,
         startFree' = startFree + One(c \in Starters) - One(c \in Starters'),
         Linked(c), UNCHANGED Leased(c), link'[c].lateLine => srv.sentinel,
         link'[c].pc \notin {"idle", "refused", "accepted", "over"},
         link[c].pc \in After => link'[c].pc \in After,
         Processes(c), reaper' = reaper \/ reaper' = [reaper EXCEPT !.pc = "idle"],
         reaper' # reaper => reaper.pc = "none",
         Resolver(c)'
  PROVE  Kept'
  <1>1. /\ reaper' \in Reapers /\ reaper'.queue = reaper.queue
        /\ reaper'.leased = reaper.leased /\ reaper'.round = reaper.round
        /\ reaper'.cur = reaper.cur
        /\ reaper'.pc = reaper.pc \/ reaper'.pc = "idle"
    BY DEF Kept, Shaped, Reapers
  <1>2. Shaped'
    BY <1>1 DEF Kept, Shaped, Linked, Processes, Main
  <1>3. Elsewhere(c)
    BY <1>1 DEF Elsewhere, Linked, Processes
  <1>4. Lease(c)'
    <2>1. /\ link'[c].connectionDone = link[c].connectionDone
          /\ link'[c].processDone = link[c].processDone
          /\ link'[c].released = link[c].released
      BY DEF Leased
    <2>2. Lease(c) /\ link[c].pc # "over"
      BY DEF Kept, Leases, InThread
    <2> QED BY <1>1, <2>1, <2>2 DEF Lease
  <1>5. ReaperShape'
    BY <1>1 DEF Kept, ReaperShape
  <1>6. ~ link'[c].released
    BY <1>4 DEF Lease
  <1>7. /\ free' = IF link'[c].released THEN free + 1 ELSE free
        /\ active' = IF link'[c].pc = "over" THEN active - 1 ELSE active
    BY <1>6
  <1>8. reaper'.pc = "gone" => reaper.pc = "gone"
    BY <1>1
  <1> QED BY <1>2, <1>3, <1>4, <1>5, <1>7, <1>8, ThreadKept

(* ... which neither starts nor ends a start.                              *)
LEMMA SameStarters ==
  ASSUME Kept, NEW c \in Conns, startFree' = startFree,
         start'[c].pc = start[c].pc \/ UNCHANGED start
  PROVE  /\ startFree' \in Nat
         /\ startFree' = startFree + One(c \in Starters) - One(c \in Starters')
  <1>1. startFree \in Nat
    BY DEF Kept, Shaped
  <1>2. c \in Starters <=> c \in Starters'
    BY DEF Starters
  <1> QED BY <1>1, <1>2 DEF One

LEMMA KeptFacts ==
  ASSUME Kept, NEW c \in Conns
  PROVE  /\ link[c] \in Links /\ start[c] \in Starts /\ event[c] \in Events
         /\ child[c] \in Children /\ Lease(c) /\ Resolver(c)
         /\ link[c].lateLine => srv.sentinel
         /\ handles \in SUBSET Conns
  BY DEF Kept, Shaped, Leases, Resolvers, LateLines

LEMMA ReceiveKept ==
  ASSUME Kept, NEW c \in Conns, Receive(c) \/ AwaitStart(c) \/ AwaitResult(c)
  PROVE  Kept'
  <1>1. /\ UNCHANGED <<Main, free, active, startFree, handles, start, event, child, reaper>>
        /\ InThread(c) /\ link[c].pc \in {"receive", "waiting", "result"}
    BY DEF Receive, AwaitStart, AwaitResult, Counts, In, InThread
  <1>2. PICK pc \in LinkPoints :
          /\ Step(c, pc) \/ Page(c, pc)
          /\ IF link[c].pc = "receive" THEN pc \in {"resolve", "emit", "release"}
             ELSE pc \in {"wake", "finish", "result"}
    BY DEF Receive, AwaitStart, AwaitResult, In, LinkPoints
  <1>3. /\ Linked(c) /\ link'[c].pc = pc /\ UNCHANGED Leased(c)
        /\ link'[c].lateLine = link[c].lateLine
    BY <1>2, StepFacts
  <1>4. Resolver(c)'
    BY <1>1, <1>2, <1>3, KeptFacts DEF Resolver, Before, After, Runs, Reaped, Finished
  <1>5. /\ link'[c].pc \notin {"idle", "refused", "accepted", "over"}
        /\ link[c].pc \in After => link'[c].pc \in After
    BY <1>1, <1>2, <1>3 DEF After
  <1> QED
    BY <1>1, <1>3, <1>4, <1>5, KeptFacts, SameProcesses, SameStarters, PlainKept

LEMMA ResolveKept ==
  ASSUME Kept, NEW c \in Conns, Resolve(c)
  PROVE  Kept'
  <1>1. /\ UNCHANGED <<Main, free, active, startFree, start, event, child>>
        /\ InThread(c) /\ link[c].pc = "resolve"
    BY DEF Resolve, Counts, In, InThread
  <1>2. /\ Linked(c) /\ link'[c].pc \in {"release", "emit", "begin"} /\ UNCHANGED Leased(c)
        /\ link'[c].lateLine = link[c].lateLine
    <2>1. CASE Step(c, "release") \/ Page(c, "emit")
      BY <2>1, StepFacts DEF LinkPoints
    <2>2. CASE link' = [link EXCEPT ![c].pc = "begin", ![c].forced = srv.immediate]
      <3> DEFINE l == [link[c] EXCEPT !.pc = "begin", !.forced = srv.immediate]
      <3>1. srv.immediate \in BOOLEAN /\ link[c] \in Links
        BY KeptFacts DEF Kept, Shaped, Servers
      <3>2. l \in Links
        BY <3>1 DEF Links
      <3>3. /\ l.pc = "begin" /\ l.connectionDone = link[c].connectionDone
            /\ l.processDone = link[c].processDone
            /\ l.released = link[c].released
            /\ l.lateLine = link[c].lateLine
        BY <3>1 DEF Links
      <3>4. link' = [link EXCEPT ![c] = l]
        BY <2>2
      <3> HIDE DEF l
      <3>5. Linked(c) /\ link'[c] = l
        BY <3>2, <3>4, LinkPut
      <3> QED BY <3>3, <3>5 DEF Leased
    <2> QED BY <2>1, <2>2 DEF Resolve
  <1>3. /\ handles' \in SUBSET Conns
        /\ reaper' = reaper \/ reaper' = [reaper EXCEPT !.pc = "idle"]
        /\ reaper' # reaper => reaper.pc = "none"
    BY KeptFacts DEF Resolve
  <1>4. reaper'.queue = reaper.queue
    BY <1>3 DEF Kept, Shaped, Reapers
  <1>5. Resolver(c)'
    BY <1>1, <1>2, <1>4, KeptFacts DEF Resolver, Before, After, Runs, Reaped, Finished
  <1>6. /\ link'[c].pc \notin {"idle", "refused", "accepted", "over"}
        /\ link[c].pc \in After => link'[c].pc \in After
    BY <1>1, <1>2 DEF After
  <1> QED
    BY <1>1, <1>2, <1>3, <1>5, <1>6, KeptFacts, SameProcesses, SameStarters, PlainKept

(* What a cancellation does, whoever makes it.                             *)
LEMMA SetFacts ==
  ASSUME Kept, NEW c \in Conns, SetCancel(c)
  PROVE  /\ event' \in [Conns -> Events] /\ event'[c].set
         /\ \A d \in Conns \ {c} : event'[d] = event[d]
  BY DEF Kept, Shaped, SetCancel, Events

LEMMA MarkFacts ==
  ASSUME Kept, NEW c \in Conns, MarkCancelled(c)
  PROVE  /\ start' \in [Conns -> Starts] /\ child' \in [Conns -> Children]
         /\ \A d \in Conns \ {c} : start'[d] = start[d] /\ child'[d] = child[d]
         /\ start'[c].pc = start[c].pc /\ start'[c].started = start[c].started
         /\ child'[c].at = child[c].at
         /\ ~ Runs(c, "working")'
  <1>1. /\ start' \in [Conns -> Starts]
        /\ \A d \in Conns \ {c} : start'[d] = start[d]
        /\ start'[c].pc = start[c].pc /\ start'[c].started = start[c].started
    BY DEF Kept, Shaped, MarkCancelled, Starts
  <1>2. /\ child' \in [Conns -> Children]
        /\ \A d \in Conns \ {c} : child'[d] = child[d]
        /\ child'[c].at = child[c].at
    BY DEF Kept, Shaped, MarkCancelled, Killed, Children
  <1>3. child[c].at = "working" => child'[c].killed
    BY KeptFacts DEF Kept, Shaped, MarkCancelled, Killed, Children, Resolver
  <1>4. ~ Runs(c, "working")'
    BY <1>2, <1>3 DEF Runs
  <1> QED BY <1>1, <1>2, <1>4

LEMMA WakeKept ==
  ASSUME Kept, NEW c \in Conns, Wake(c) \/ Kill(c)
  PROVE  Kept'
  <1>1. /\ UNCHANGED <<Main, free, active, startFree, handles, reaper>>
        /\ InThread(c) /\ link[c].pc \in {"wake", "finish", "woken", "finishing"}
    BY DEF Wake, Kill, Counts, In, InThread
  <1>2. PICK pc \in LinkPoints :
          /\ Step(c, pc)
          /\ link[c].pc = "wake" => pc = "woken"
          /\ link[c].pc = "woken" => pc = "finish"
          /\ link[c].pc = "finish" => pc = "finishing"
          /\ link[c].pc = "finishing" => pc = "finished"
    BY DEF Wake, Kill, In, LinkPoints
  <1>3. /\ Linked(c) /\ link'[c].pc = pc /\ UNCHANGED Leased(c)
        /\ link'[c].lateLine = link[c].lateLine
    BY <1>2, StepFacts
  <1>4. CASE Wake(c)
    <2>1. UNCHANGED <<start, child>> /\ SetCancel(c) /\ link[c].pc \in {"wake", "finish"}
      BY <1>4 DEF Wake, In
    <2>2. event'[c].set
      BY <2>1, SetFacts
    <2>3. Processes(c)
      BY <2>1, SetFacts DEF Processes, Kept, Shaped
    <2>4. Resolver(c)'
      BY <1>1, <1>2, <1>3, <2>1, <2>2, KeptFacts
      DEF Resolver, Before, After, Runs, Reaped, Finished
    <2>5. /\ link'[c].pc \notin {"idle", "refused", "accepted", "over"}
          /\ link[c].pc \in After => link'[c].pc \in After
      BY <1>1, <1>2, <1>3 DEF After
    <2> QED BY <1>1, <1>3, <2>1, <2>3, <2>4, <2>5, KeptFacts, SameStarters, PlainKept
  <1>5. CASE Kill(c)
    <2>1. UNCHANGED event /\ MarkCancelled(c) /\ link[c].pc \in {"woken", "finishing"}
      BY <1>5 DEF Kill, In
    <2>2. /\ start'[c].pc = start[c].pc /\ start'[c].started = start[c].started
          /\ child'[c].at = child[c].at /\ ~ Runs(c, "working")'
      BY <2>1, MarkFacts
    <2>3. Processes(c)
      BY <2>1, MarkFacts DEF Processes, Kept, Shaped
    <2>4. Resolver(c)'
      <3>1. pc \in {"finish", "finished"} /\ (pc = "finished" => event[c].set)
        BY <1>2, <2>1, KeptFacts DEF Resolver
      <3>2. Resolver(c)
        BY KeptFacts
      <3> QED
        BY <1>1, <1>3, <2>1, <2>2, <3>1, <3>2 DEF Resolver, Before, After
    <2>5. /\ link'[c].pc \notin {"idle", "refused", "accepted", "over"}
          /\ link[c].pc \in After => link'[c].pc \in After
      BY <1>2, <1>3, <2>1 DEF After
    <2> QED BY <1>1, <1>3, <2>2, <2>3, <2>4, <2>5, KeptFacts, SameStarters, PlainKept
  <1> QED BY <1>4, <1>5

LEMMA BeginKept ==
  ASSUME Kept, NEW c \in Conns, Begin(c)
  PROVE  Kept'
  <1>1. /\ UNCHANGED <<Main, free, active, handles, child, reaper>>
        /\ InThread(c) /\ link[c].pc = "begin"
    BY DEF Begin, In, InThread
  <1>2. /\ start[c].pc = "none" /\ child[c].at = "none" /\ ~ start[c].started
        /\ c \notin Starters /\ startFree \in Nat
    BY <1>1, KeptFacts DEF Resolver, Before, Kept, Shaped, Starters
  <1>3. CASE /\ startFree > 0
             /\ startFree' = startFree - 1
             /\ start' = [start EXCEPT ![c].pc = "start"]
             /\ link' = [link EXCEPT ![c].forced = FALSE, ![c].pc =
                  IF link[c].forced \/ srv.late THEN "wake" ELSE "waiting"]
             /\ UNCHANGED event
    <2>1. PICK pc \in {"wake", "waiting"} :
            link' = [link EXCEPT ![c].forced = FALSE, ![c].pc = pc]
      BY <1>3
    <2>2. /\ Linked(c) /\ link'[c].pc = pc /\ UNCHANGED Leased(c)
          /\ link'[c].lateLine = link[c].lateLine
      <3> DEFINE l == [link[c] EXCEPT !.forced = FALSE, !.pc = pc]
      <3>1. /\ l \in Links /\ l.pc = pc /\ l.connectionDone = link[c].connectionDone
            /\ l.processDone = link[c].processDone
            /\ l.released = link[c].released
            /\ l.lateLine = link[c].lateLine
        BY KeptFacts DEF Links
      <3>2. link' = [link EXCEPT ![c] = l]
        BY <2>1
      <3> HIDE DEF l
      <3>3. Linked(c) /\ link'[c] = l
        BY <3>1, <3>2, LinkPut
      <3> QED BY <3>1, <3>3 DEF Leased
    <2>3. /\ start' \in [Conns -> Starts] /\ \A d \in Conns \ {c} : start'[d] = start[d]
          /\ start'[c].pc = "start" /\ start'[c].started = start[c].started
      BY <1>3 DEF Kept, Shaped, Starts
    <2>4. Processes(c)
      BY <1>1, <1>3, <2>3 DEF Processes, Kept, Shaped
    <2>5. startFree' = startFree + One(c \in Starters) - One(c \in Starters')
      BY <1>2, <1>3, <2>3 DEF Starters, One
    <2>6. Resolver(c)'
      BY <1>1, <1>2, <2>2, <2>3 DEF Resolver, Before, After
    <2>7. link'[c].pc \notin {"idle", "refused", "accepted", "over"} /\ startFree' \in Nat
      BY <1>2, <1>3, <2>2
    <2>8. link[c].pc \notin After
      BY <1>1 DEF After
    <2> QED BY <1>1, <2>2, <2>4, <2>5, <2>6, <2>7, <2>8, KeptFacts, PlainKept
  <1>4. CASE /\ event[c].holder = "free"
             /\ start' = [start EXCEPT ![c].pc = "done", ![c].failed = TRUE]
             /\ event' = [event EXCEPT ![c].set = TRUE]
             /\ Page(c, "finish")
             /\ UNCHANGED startFree
    <2>1. /\ Linked(c) /\ link'[c].pc = "finish" /\ UNCHANGED Leased(c)
          /\ link'[c].lateLine = link[c].lateLine
      BY <1>4, StepFacts DEF LinkPoints
    <2>2. /\ start' \in [Conns -> Starts] /\ \A d \in Conns \ {c} : start'[d] = start[d]
          /\ start'[c].pc = "done" /\ start'[c].started = start[c].started
      BY ZenonT(40), <1>4 DEF Kept, Shaped, Starts
    <2>3. SetCancel(c)
      BY <1>4 DEF SetCancel
    <2>4. Processes(c)
      BY <1>1, <2>2, <2>3, SetFacts DEF Processes, Kept, Shaped
    <2>5. startFree' = startFree + One(c \in Starters) - One(c \in Starters')
      BY <1>2, <1>4, <2>2 DEF Starters, One
    <2>6. Resolver(c)'
      BY <1>1, <1>2, <2>1, <2>2 DEF Resolver, Before, After
    <2>7. link'[c].pc \notin {"idle", "refused", "accepted", "over"} /\ startFree' \in Nat
      BY <1>2, <1>4, <2>1
    <2>8. link[c].pc \notin After
      BY <1>1 DEF After
    <2> QED BY <1>1, <2>1, <2>4, <2>5, <2>6, <2>7, <2>8, KeptFacts, PlainKept
  <1> QED BY <1>3, <1>4 DEF Begin

LEMMA EmitKept ==
  ASSUME Kept, NEW c \in Conns, Emit(c)
  PROVE  Kept'
  <1>1. /\ UNCHANGED <<Main, free, active, startFree, handles, start, event, child, reaper>>
        /\ InThread(c) /\ link[c].pc = "emit"
    BY DEF Emit, Counts, In, InThread
  <1>2. PICK late \in BOOLEAN :
          /\ link' = [link EXCEPT ![c].pc = "release", ![c].page = FALSE,
                                  ![c].lateLine = late]
          /\ late => srv.sentinel
    <2>1. PICK queued \in BOOLEAN :
            link' = [link EXCEPT ![c].pc = "release", ![c].page = FALSE,
                                 ![c].lateLine = queued /\ srv.sentinel]
      BY DEF Emit
    <2>2. (queued /\ srv.sentinel) \in BOOLEAN
      OBVIOUS
    <2> QED BY <2>1, <2>2
  <1> DEFINE l == [link[c] EXCEPT !.pc = "release", !.page = FALSE, !.lateLine = late]
  <1>3. /\ l \in Links /\ l.pc = "release" /\ l.connectionDone = link[c].connectionDone
        /\ l.processDone = link[c].processDone
        /\ l.released = link[c].released
        /\ l.lateLine = late
    BY KeptFacts DEF Links
  <1>4. link' = [link EXCEPT ![c] = l]
    BY <1>2
  <1> HIDE DEF l
  <1>5. Linked(c) /\ link'[c] = l
    BY <1>3, <1>4, LinkPut
  <1>6. UNCHANGED Leased(c) /\ (link'[c].lateLine => srv.sentinel)
    BY <1>2, <1>3, <1>5 DEF Leased
  <1>7. Resolver(c)'
    BY <1>1, <1>3, <1>5, KeptFacts DEF Resolver, Before, After, Runs, Reaped, Finished
  <1>8. /\ link'[c].pc \notin {"idle", "refused", "accepted", "over"}
        /\ link[c].pc \in After => link'[c].pc \in After
    BY <1>3, <1>5 DEF After
  <1> QED
    BY <1>1, <1>5, <1>6, <1>7, <1>8, KeptFacts, SameProcesses, SameStarters, PlainKept

LEMMA FinishKept ==
  ASSUME Kept, NEW c \in Conns, Finish(c)
  PROVE  Kept'
  <1>1. /\ UNCHANGED <<Main, free, active, startFree, start, event, child, reaper>>
        /\ InThread(c) /\ link[c].pc = "finished" /\ handles' \in SUBSET Conns
    BY KeptFacts DEF Finish, Counts, In, InThread, Unregister
  <1>2. PICK pc \in {"emit", "release", "defer"} :
          Step(c, pc) /\ (pc # "defer" => Reaped(c))
    BY DEF Finish, Onward
  <1>3. /\ Linked(c) /\ link'[c].pc = pc /\ UNCHANGED Leased(c)
        /\ link'[c].lateLine = link[c].lateLine
    BY <1>2, StepFacts DEF LinkPoints
  <1>4. Resolver(c)'
    BY <1>1, <1>2, <1>3, KeptFacts DEF Resolver, Before, After, Runs, Reaped, Finished
  <1>5. /\ link'[c].pc \notin {"idle", "refused", "accepted", "over"}
        /\ link[c].pc \in After => link'[c].pc \in After
    BY <1>1, <1>3 DEF After
  <1> QED
    BY <1>1, <1>3, <1>4, <1>5, KeptFacts, SameProcesses, SameStarters, PlainKept

LEMMA DeferKept ==
  ASSUME Kept, NEW c \in Conns, Defer(c)
  PROVE  Kept'
  <1>1. /\ UNCHANGED <<Main, free, active, startFree, start, event, child>>
        /\ InThread(c) /\ link[c].pc = "defer" /\ handles' \in SUBSET Conns
    BY KeptFacts DEF Defer, Counts, In, InThread, Unregister
  <1>2. PICK leased \in BOOLEAN : leased <=> Finished(c)
    <2>1. Finished(c) \in BOOLEAN
      BY DEF Finished
    <2> QED BY <2>1
  <1>3. PICK pc \in {"emit", "release"} :
          link' = [link EXCEPT ![c].pc = pc, ![c].processDone = ~ leased]
    BY <1>2 DEF Defer, Onward, Finished
  <1> DEFINE l == [link[c] EXCEPT !.pc = pc, !.processDone = ~ leased]
  <1>4. /\ l \in Links /\ l.pc = pc /\ l.connectionDone = link[c].connectionDone
        /\ l.processDone = ~ leased
        /\ l.released = link[c].released
        /\ l.lateLine = link[c].lateLine
    BY KeptFacts DEF Links
  <1>5. link' = [link EXCEPT ![c] = l]
    BY <1>3
  <1> HIDE DEF l
  <1>6. Linked(c) /\ link'[c] = l
    BY <1>4, <1>5, LinkPut
  <1>7. Lease(c) /\ Resolver(c) /\ (link[c].lateLine => srv.sentinel)
    BY KeptFacts
  <1>8. /\ reaper' \in Reapers /\ reaper'.pc = reaper.pc /\ reaper'.cur = reaper.cur
        /\ reaper'.round = reaper.round
        /\ reaper'.queue = reaper.queue \cup {c}
        /\ reaper'.leased = IF leased THEN reaper.leased \cup {c} ELSE reaper.leased
    BY <1>2 DEF Kept, Shaped, Reapers, Defer
  <1>9. c \notin reaper.queue /\ c \notin reaper.leased /\ ~ link[c].connectionDone
    BY <1>1, <1>7 DEF Lease, After
  <1>10. Lease(c)'
    BY <1>4, <1>6, <1>7, <1>8, <1>9 DEF Lease, After
  <1>11. Resolver(c)'
    BY <1>1, <1>4, <1>6, <1>7, <1>8 DEF Resolver, Before, After, Runs, Reaped, Finished
  <1>12. ReaperShape'
    <2>1. reaper.pc \in {"wake", "finish"} => reaper'.cur \in reaper'.queue
      BY <1>8 DEF Kept, ReaperShape
    <2>2. reaper.pc \in {"wake", "finish"} => reaper'.cur \notin reaper'.round
      BY <1>8 DEF Kept, ReaperShape
    <2>3. reaper'.round \subseteq reaper'.queue
      BY <1>8 DEF Kept, ReaperShape
    <2> QED BY <1>8, <2>1, <2>2, <2>3 DEF ReaperShape
  <1>13. Elsewhere(c)
    BY <1>1, <1>6, <1>8 DEF Elsewhere, Linked
  <1>14. Shaped'
    BY <1>1, <1>6, <1>8 DEF Kept, Shaped, Linked, Main
  <1>15. /\ link'[c].pc \notin {"idle", "refused", "accepted", "over"}
         /\ ~ link'[c].released
    BY <1>4, <1>6, <1>7, <1>9 DEF Lease
  <1>16. /\ free' = IF link'[c].released THEN free + 1 ELSE free
         /\ active' = IF link'[c].pc = "over" THEN active - 1 ELSE active
         /\ reaper'.pc = "gone" => reaper.pc = "gone"
         /\ link'[c].lateLine => srv.sentinel
    BY <1>1, <1>4, <1>6, <1>7, <1>8, <1>15
  <1> QED
    BY <1>1, <1>10, <1>11, <1>12, <1>13, <1>14, <1>15, <1>16, SameStarters, ThreadKept

LEMMA ReleaseKept ==
  ASSUME Kept, NEW c \in Conns, Release(c)
  PROVE  Kept'
  <1>1. /\ UNCHANGED <<Main, startFree, handles, start, event, child, reaper>>
        /\ InThread(c) /\ link[c].pc = "release" /\ active' = active - 1
    BY DEF Release, In, InThread
  <1>2. PICK done \in BOOLEAN : done = link[c].processDone
    BY KeptFacts DEF Links
  <1> DEFINE l == [link[c] EXCEPT !.pc = "over", !.page = FALSE,
                     !.connectionDone = TRUE, !.released = done]
  <1>3. /\ l \in Links /\ l.pc = "over" /\ l.connectionDone
        /\ l.processDone = done /\ l.released = done
        /\ l.lateLine = link[c].lateLine
    BY <1>2, KeptFacts DEF Links
  <1>4. link' = [link EXCEPT ![c] = l]
    BY <1>2 DEF Release
  <1> HIDE DEF l
  <1>5. Linked(c) /\ link'[c] = l
    BY <1>3, <1>4, LinkPut
  <1>6. Lease(c) /\ Resolver(c) /\ (link[c].lateLine => srv.sentinel)
    BY KeptFacts
  <1>7. Lease(c)'
    BY <1>1, <1>2, <1>3, <1>5, <1>6 DEF Lease, After
  <1>8. Resolver(c)'
    BY <1>1, <1>3, <1>5, <1>6 DEF Resolver, Before, After, Runs, Reaped, Finished
  <1>9. free' = IF link'[c].released THEN free + 1 ELSE free
    BY <1>2, <1>3, <1>5 DEF Release
  <1>10. active >= 1 /\ active' \in Nat /\ free' \in Nat
    <2>1. active >= 1
      BY <1>1, Threaded
    <2>2. free \in Nat /\ active \in Nat
      BY DEF Kept, Shaped
    <2> QED BY <1>1, <1>9, <2>1, <2>2
  <1>11. ReaperShape' /\ Elsewhere(c)
    BY <1>1, <1>5 DEF Kept, ReaperShape, Elsewhere, Linked
  <1>12. Shaped'
    BY <1>1, <1>5, <1>10 DEF Kept, Shaped, Linked, Main
  <1>13. /\ link'[c].pc \notin {"idle", "refused", "accepted"}
         /\ link'[c].lateLine => srv.sentinel
         /\ active' = IF link'[c].pc = "over" THEN active - 1 ELSE active
    BY <1>1, <1>3, <1>5, <1>6
  <1> QED
    BY <1>1, <1>7, <1>8, <1>9, <1>11, <1>12, <1>13, SameStarters, ThreadKept

-----------------------------------------------------------------------------
(* Starters and processes.                                                 *)

LEMMA QuietMain ==
  ASSUME Kept, UNCHANGED <<Main, active, reaper>>
  PROVE  StackShape' /\ Ending' /\ Base' = Base /\ srv' = srv
  <1>1. Base' = Base
    BY DEF Main, Base
  <1>2. StackShape'
    BY DEF Kept, StackShape, Main
  <1>3. Ending'
    BY <1>1 DEF Kept, Ending, Main
  <1> QED BY <1>1, <1>2, <1>3 DEF Main

LEMMA BesideKept ==
  ASSUME Kept, NEW c \in Conns, UNCHANGED <<Main, free, active, handles, link, reaper>>,
         Processes(c), Resolver(c)', startFree' \in Nat,
         startFree' = startFree + One(c \in Starters) - One(c \in Starters')
  PROVE  Kept'
  <1>1. Shaped'
    BY DEF Kept, Shaped, Main, Processes
  <1>2. Elsewhere(c)
    BY DEF Elsewhere, Processes
  <1> QED BY <1>1, <1>2, QuietMain, ProcessKept

LEMMA StartPut ==
  ASSUME Kept, NEW c \in Conns, NEW s \in Starts, start' = [start EXCEPT ![c] = s]
  PROVE  /\ start' \in [Conns -> Starts] /\ start'[c] = s
         /\ \A d \in Conns \ {c} : start'[d] = start[d]
  BY DEF Kept, Shaped

LEMMA StarterKept ==
  ASSUME Kept, NEW c \in Conns, StartStep(c)
  PROVE  Kept'
  <1>1. UNCHANGED <<Main, free, active, handles, link, reaper>> /\ startFree \in Nat
    BY DEF StartStep, StartProcess, Signal, StartDone, Counts, Kept, Shaped
  <1>2. Resolver(c) /\ start[c] \in Starts /\ child[c] \in Children
    BY KeptFacts
  <1>3. CASE StartProcess(c)
    <2>1. PICK ok \in BOOLEAN, seen \in BOOLEAN :
            /\ start' = [start EXCEPT ![c] = [@ EXCEPT !.pc = "events", !.ok = ok,
                           !.started = ok, !.failed = ~ ok, !.seen = seen]]
            /\ child' = IF ok THEN [child EXCEPT ![c].at = "gate"] ELSE child
      <3>1. start[c].cancelled \in BOOLEAN
        BY <1>2 DEF Starts
      <3> QED BY <1>3, <3>1 DEF StartProcess
    <2>2. start[c].pc = "start" /\ UNCHANGED <<event, startFree>>
      BY <1>3 DEF StartProcess, Counts
    <2>3. /\ start' \in [Conns -> Starts] /\ \A d \in Conns \ {c} : start'[d] = start[d]
          /\ start'[c].pc = "events" /\ start'[c].started = ok
      <3> DEFINE s == [start[c] EXCEPT !.pc = "events", !.ok = ok, !.started = ok,
                                       !.failed = ~ ok, !.seen = seen]
      <3>1. s \in Starts /\ s.pc = "events" /\ s.started = ok
        BY <1>2 DEF Starts
      <3>2. start' = [start EXCEPT ![c] = s]
        BY <2>1
      <3> HIDE DEF s
      <3> QED BY <3>1, <3>2, StartPut
    <2>4. /\ child' \in [Conns -> Children] /\ \A d \in Conns \ {c} : child'[d] = child[d]
          /\ child'[c].at = IF ok THEN "gate" ELSE child[c].at
      BY <2>1 DEF Kept, Shaped, Children
    <2>5. Processes(c)
      BY <2>2, <2>3, <2>4 DEF Processes, Kept, Shaped
    <2>6. startFree' = startFree + One(c \in Starters) - One(c \in Starters')
      BY <1>1, <2>2, <2>3 DEF Starters, One
    <2>7. Resolver(c)'
      BY <1>1, <1>2, <2>2, <2>3, <2>4
      DEF Resolver, Before, After, Runs, Reaped, Finished
    <2> QED BY <1>1, <2>2, <2>5, <2>6, <2>7, BesideKept
  <1>4. CASE Signal(c)
    <2>1. /\ start[c].pc = "events" /\ UNCHANGED <<child, startFree>>
          /\ start' = [start EXCEPT ![c].pc = "kill"]
          /\ SetCancel(c) \/ event' = [event EXCEPT ![c].allowed = TRUE]
      BY <1>4 DEF Signal, Counts
    <2>2. /\ start' \in [Conns -> Starts] /\ \A d \in Conns \ {c} : start'[d] = start[d]
          /\ start'[c].pc = "kill" /\ start'[c].started = start[c].started
      BY <2>1 DEF Kept, Shaped, Starts
    <2>3. /\ event' \in [Conns -> Events] /\ \A d \in Conns \ {c} : event'[d] = event[d]
          /\ event[c].set => event'[c].set
      <3>1. CASE SetCancel(c)
        BY <3>1, SetFacts
      <3>2. CASE event' = [event EXCEPT ![c].allowed = TRUE]
        BY <3>2 DEF Kept, Shaped, Events
      <3> QED BY <2>1, <3>1, <3>2
    <2>4. Processes(c)
      BY <2>1, <2>2, <2>3 DEF Processes, Kept, Shaped
    <2>5. startFree' = startFree + One(c \in Starters) - One(c \in Starters')
      BY <1>1, <2>1, <2>2 DEF Starters, One
    <2>6. Resolver(c)'
      BY <1>1, <1>2, <2>1, <2>2, <2>3
      DEF Resolver, Before, After, Runs, Reaped, Finished
    <2> QED BY <1>1, <2>1, <2>4, <2>5, <2>6, BesideKept
  <1>5. CASE StartDone(c)
    <2>1. /\ start[c].pc = "kill" /\ UNCHANGED event /\ startFree' = startFree + 1
          /\ start' = [start EXCEPT ![c].pc = "done", ![c].ok = FALSE, ![c].seen = FALSE]
          /\ child' = Killed(c) \/ child' = child
      BY <1>5 DEF StartDone
    <2>2. /\ start' \in [Conns -> Starts] /\ \A d \in Conns \ {c} : start'[d] = start[d]
          /\ start'[c].pc = "done" /\ start'[c].started = start[c].started
      <3> DEFINE s == [start[c] EXCEPT !.pc = "done", !.ok = FALSE, !.seen = FALSE]
      <3>1. s \in Starts /\ s.pc = "done" /\ s.started = start[c].started
        BY <1>2 DEF Starts
      <3>2. start' = [start EXCEPT ![c] = s]
        BY <2>1
      <3> HIDE DEF s
      <3> QED BY <3>1, <3>2, StartPut
    <2>3. /\ child' \in [Conns -> Children] /\ \A d \in Conns \ {c} : child'[d] = child[d]
          /\ child'[c].at = child[c].at /\ (child[c].killed => child'[c].killed)
      BY ZenonT(40), <2>1 DEF Kept, Shaped, Children, Killed
    <2>4. Processes(c)
      BY <2>1, <2>2, <2>3 DEF Processes, Kept, Shaped
    <2>5. startFree' = startFree + One(c \in Starters) - One(c \in Starters')
      BY <1>1, <2>1, <2>2 DEF Starters, One
    <2>6. Resolver(c)'
      BY <1>1, <1>2, <2>1, <2>2, <2>3
      DEF Resolver, Before, After, Runs, Reaped, Finished
    <2>7. startFree' \in Nat
      BY <1>1, <2>1
    <2> QED BY <1>1, <2>4, <2>5, <2>6, <2>7, BesideKept
  <1> QED BY <1>3, <1>4, <1>5 DEF StartStep

LEMMA ChildKept ==
  ASSUME Kept, NEW c \in Conns, ChildStep(c) \/ Work(c)
  PROVE  Kept'
  <1>1. UNCHANGED <<Main, free, active, startFree, handles, link, start, reaper>>
    BY DEF ChildStep, Gate, ReadCancel, Die, Work, Others, Counts
  <1>2. Resolver(c) /\ start[c] \in Starts /\ child[c] \in Children
    BY KeptFacts
  <1>3. PICK at \in {"polling", "final", "working", "gate", "dead"} :
          /\ Become(c, at)
          /\ at = "working" => ~ event[c].set
    <2>1. CASE ReadCancel(c)
      BY <2>1 DEF ReadCancel
    <2>2. CASE Gate(c) \/ Die(c) \/ Work(c)
      BY <2>2 DEF Gate, Die, Work
    <2> QED BY <2>1, <2>2 DEF ChildStep
  <1>4. child[c].at \notin {"none", "dead"}
    BY DEF ChildStep, Gate, ReadCancel, Die, Work, Runs, Alive
  <1>5. /\ child' \in [Conns -> Children] /\ \A d \in Conns \ {c} : child'[d] = child[d]
        /\ child'[c].at = at
    BY <1>3 DEF Become, Kept, Shaped, Children
  <1>6. /\ event' \in [Conns -> Events] /\ \A d \in Conns \ {c} : event'[d] = event[d]
        /\ event[c].set => event'[c].set
    <2>1. CASE Gate(c) \/ ReadCancel(c) \/ Work(c)
      <3>1. CASE \E holder \in {"free", "child"} : event' = [event EXCEPT ![c].holder = holder]
        BY <3>1 DEF Kept, Shaped, Events
      <3>2. CASE event' = event
        BY <3>2 DEF Kept, Shaped
      <3> QED BY <2>1, <3>1, <3>2 DEF Gate, ReadCancel, Work
    <2>2. CASE Die(c)
      <3>1. PICK lost \in BOOLEAN : event' = [event EXCEPT ![c].lost = lost]
        <4>1. PICK asleep \in BOOLEAN :
                event' = [event EXCEPT ![c].lost = asleep /\ child[c].at = "gate"]
          BY <2>2 DEF Die
        <4>2. (asleep /\ child[c].at = "gate") \in BOOLEAN
          OBVIOUS
        <4> QED BY <4>1, <4>2
      <3> QED BY <3>1 DEF Kept, Shaped, Events
    <2> QED BY <2>1, <2>2 DEF ChildStep
  <1>7. Processes(c)
    BY <1>1, <1>5, <1>6 DEF Processes, Kept, Shaped
  <1>8. Resolver(c)'
    BY <1>1, <1>2, <1>3, <1>4, <1>5, <1>6
    DEF Resolver, Before, After, Runs, Reaped, Finished
  <1> QED BY <1>1, <1>7, <1>8, SameStarters, BesideKept

-----------------------------------------------------------------------------
(* The reaper.                                                             *)

LEMMA ReapedKept ==
  ASSUME Kept, NEW c \in Conns, UNCHANGED <<Main, startFree, active, handles>>,
         Elsewhere(c), Shaped', Lease(c)', Resolver(c)', ReaperShape',
         link'[c].pc = link[c].pc, start'[c].pc = start[c].pc,
         link'[c].lateLine = link[c].lateLine,
         reaper'.pc = "gone" => reaper.pc = "gone" /\ reaper' = reaper,
         link[c].released => link'[c].released,
         free' = IF link'[c].released /\ ~ link[c].released THEN free + 1 ELSE free,
         link'[c].released => link[c].pc = "over"
  PROVE  Kept'
  <1>1. Base' = Base /\ StackShape' /\ srv' = srv
    BY DEF Kept, StackShape, Main, Base
  <1>2. Ending'
    BY <1>1 DEF Kept, Ending, Main
  <1>3. /\ \A d \in Conns : link'[d].pc = link[d].pc /\ start'[d].pc = start[d].pc
    BY DEF Elsewhere
  <1>4. AdmissionShape' /\ Admitted' = Admitted /\ Starters' = Starters
    BY <1>1, <1>3 DEF Kept, AdmissionShape, Admitted, InThread, Starters
  <1>5. Cardinality(Holders') = Cardinality(Holders) + One(c \in Holders') - One(c \in Holders)
    <2>1. \A d : d # c => (d \in Holders <=> d \in Holders')
      BY DEF Holders, Elsewhere
    <2> QED BY <2>1, CountsFinite, Counting
  <1>6. SlotsCounted'
    <2>1. Shaped /\ SlotsCounted
      BY DEF Kept
    <2>2. /\ link'[c].released /\ ~ link[c].released => c \in Holders /\ c \notin Holders'
          /\ ~ (link'[c].released /\ ~ link[c].released) => (c \in Holders <=> c \in Holders')
      BY <1>3 DEF Holders, Outside
    <2>3. free' + Cardinality(Holders') = Slots
      BY <1>5, <2>1, <2>2, CountsFacts DEF One
    <2> QED BY <1>4, <2>1, <2>3 DEF SlotsCounted
  <1>7. link[c].lateLine => srv.sentinel
    BY KeptFacts
  <1>8. Leases' /\ Resolvers' /\ LateLines'
    BY <1>1, <1>7, OthersKept
  <1> QED BY <1>1, <1>2, <1>4, <1>6, <1>8 DEF Kept

(* ... when it only turns to something else.                               *)
LEMMA TurnKept ==
  ASSUME Kept, UNCHANGED <<Main, Counts, handles, link, start, event, child>>,
         reaper' \in Reapers, reaper'.queue = reaper.queue, reaper'.leased = reaper.leased,
         ReaperShape', Ending'
  PROVE  Kept'
  <1>1. Base' = Base /\ StackShape' /\ srv' = srv
    BY DEF Kept, StackShape, Main, Base
  <1>2. AdmissionShape' /\ Holders' = Holders /\ Starters' = Starters /\ Admitted' = Admitted
    BY <1>1 DEF Kept, AdmissionShape, Holders, Starters, Admitted, InThread
  <1>3. SlotsCounted' /\ Shaped'
    BY <1>2 DEF Kept, SlotsCounted, Counts, Shaped, Main
  <1>4. Leases'
    BY DEF Kept, Leases, Lease
  <1>5. Resolvers' /\ LateLines'
    BY <1>1 DEF Kept, Resolvers, Resolver, Runs, Reaped, Finished, LateLines
  <1> QED BY <1>1, <1>2, <1>3, <1>4, <1>5 DEF Kept

LEMMA ReaperKept ==
  ASSUME Kept, ReapStep
  PROVE  Kept'
  <1>1. reaper \in Reapers /\ Ending /\ ReaperShape
    BY DEF Kept, Shaped
  <1>2. CASE ReapNext
    <2> DEFINE round == IF reaper.round = {} THEN reaper.queue ELSE reaper.round
    <2>1. round \subseteq reaper.queue /\ round \subseteq Conns
      BY <1>1 DEF ReaperShape, Reapers
    <2>2. PICK c \in round :
            reaper' = [reaper EXCEPT !.pc = "wake", !.cur = c, !.round = round \ {c}]
      BY <1>2 DEF ReapNext
    <2> HIDE DEF round
    <2>3. c \in Conns /\ round \ {c} \subseteq Conns
      BY <2>1
    <2>4. /\ reaper' \in Reapers /\ reaper'.queue = reaper.queue
          /\ reaper'.leased = reaper.leased /\ reaper'.pc = "wake"
          /\ reaper'.cur = c /\ reaper'.round = round \ {c}
      BY <1>1, <2>2, <2>3 DEF Reapers
    <2>5. ReaperShape'
      BY <2>1, <2>4 DEF ReaperShape
    <2>6. UNCHANGED <<Main, Counts, handles, link, start, event, child>>
      BY <1>2 DEF ReapNext
    <2>7. Ending'
      BY <1>1, <2>4, <2>6 DEF Ending, Base, Main, Counts
    <2> QED BY <2>4, <2>5, <2>6, <2>7, TurnKept
  <1>3. CASE ReapGone
    <2>1. /\ reaper' = [reaper EXCEPT !.pc = "gone"] /\ reaper.queue = {}
          /\ srv.stopping /\ active = 0
          /\ UNCHANGED <<Main, Counts, handles, link, start, event, child>>
      BY <1>3 DEF ReapGone
    <2>2. /\ reaper' \in Reapers /\ reaper'.queue = reaper.queue
          /\ reaper'.leased = reaper.leased /\ reaper'.pc = "gone"
          /\ reaper'.round = reaper.round
      BY <1>1, <2>1 DEF Reapers
    <2>3. ReaperShape'
      BY <1>1, <2>2 DEF ReaperShape
    <2>4. Ending'
      BY <1>1, <2>1, <2>2 DEF Ending, Base, Main, Counts
    <2> QED BY <2>1, <2>2, <2>3, <2>4, TurnKept
  <1>4. CASE ReapWake
    <2>1. /\ reaper.pc = "wake" /\ SetCancel(reaper.cur) /\ MarkCancelled(reaper.cur)
          /\ reaper' = [reaper EXCEPT !.pc = "finish"]
          /\ UNCHANGED <<Main, Counts, handles, link>>
      BY <1>4 DEF ReapWake
    <2>2. PICK c \in Conns : c = reaper.cur /\ c \in reaper.queue
      BY <1>1, <2>1 DEF ReaperShape, Reapers
    <2>3. SetCancel(c) /\ MarkCancelled(c)
      BY <2>1, <2>2
    <2>4. /\ reaper' \in Reapers /\ reaper'.queue = reaper.queue
          /\ reaper'.leased = reaper.leased /\ reaper'.pc = "finish"
          /\ reaper'.cur = reaper.cur /\ reaper'.round = reaper.round
      BY <1>1, <2>1 DEF Reapers
    <2>5. /\ event' \in [Conns -> Events] /\ event'[c].set
          /\ \A d \in Conns \ {c} : event'[d] = event[d]
      BY <2>3, SetFacts
    <2>6. /\ start' \in [Conns -> Starts] /\ child' \in [Conns -> Children]
          /\ \A d \in Conns \ {c} : start'[d] = start[d] /\ child'[d] = child[d]
          /\ start'[c].pc = start[c].pc /\ start'[c].started = start[c].started
          /\ child'[c].at = child[c].at
          /\ ~ Runs(c, "working")'
      BY <2>3, MarkFacts
    <2>7. Elsewhere(c)
      BY <2>1, <2>4, <2>5, <2>6 DEF Elsewhere
    <2>8. Lease(c)'
      BY <2>1, <2>4, KeptFacts DEF Lease
    <2>9. Resolver(c)'
      BY <2>1, <2>2, <2>4, <2>5, <2>6, KeptFacts DEF Resolver, Before, After
    <2>10. ReaperShape'
      BY <1>1, <2>1, <2>4 DEF ReaperShape
    <2>11. Shaped'
      BY <2>1, <2>4, <2>5, <2>6 DEF Kept, Shaped, Main, Counts
    <2>12. link[c].released => link[c].pc = "over"
      BY KeptFacts DEF Lease
    <2> QED
      BY <2>1, <2>4, <2>6, <2>7, <2>8, <2>9, <2>10, <2>11, <2>12, ReapedKept DEF Counts
  <1>5. CASE ReapFinish
    <2>1. PICK c \in Conns : c = reaper.cur /\ c \in reaper.queue
      BY <1>1, <1>5 DEF ReaperShape, Reapers, ReapFinish
    <2>2. PICK done \in BOOLEAN : done <=> Reaped(c)
      <3>1. Reaped(c) \in BOOLEAN
        BY DEF Reaped, Finished
      <3> QED BY <3>1
    <2>3. Lease(c) /\ Resolver(c) /\ link[c] \in Links
      BY KeptFacts
    <2>4. PICK back \in BOOLEAN : back <=> done /\ c \in reaper.leased /\ link[c].connectionDone
      <3>1. (done /\ c \in reaper.leased /\ link[c].connectionDone) \in BOOLEAN
        OBVIOUS
      <3> QED BY <3>1
    <2>5. /\ reaper' = [reaper EXCEPT !.pc = "idle", !.cur = NoConn,
                          !.queue = IF done THEN @ \ {c} ELSE @]
          /\ free' = IF back THEN free + 1 ELSE free
          /\ UNCHANGED <<Main, startFree, active, handles, start, event, child>>
      BY <1>5, <2>1, <2>2, <2>4 DEF ReapFinish
    <2>6. PICK over \in BOOLEAN, gone \in BOOLEAN :
            /\ over <=> link[c].processDone \/ done
            /\ gone <=> link[c].released \/ back
            /\ link' = [link EXCEPT ![c].processDone = over, ![c].released = gone]
      <3>1. /\ (link[c].processDone \/ done) \in BOOLEAN
            /\ (link[c].released \/ back) \in BOOLEAN
        OBVIOUS
      <3>2. link' = [link EXCEPT ![c].processDone = link[c].processDone \/ done,
                                 ![c].released = link[c].released \/ back]
        <4>1. PICK d \in Conns, y \in BOOLEAN, z \in BOOLEAN :
                /\ d = reaper.cur
                /\ y = Reaped(d)
                /\ z = (y /\ d \in reaper.leased /\ link[d].connectionDone)
                /\ link' = [link EXCEPT ![d].processDone = @ \/ y, ![d].released = @ \/ z]
          BY <1>5, <2>1 DEF ReapFinish, Reaped, Finished
        <4>2. d = c /\ (y <=> done) /\ (z <=> back)
          BY <2>1, <2>2, <2>4, <4>1
        <4> QED BY <4>1, <4>2
      <3> QED BY <3>1, <3>2
    <2> DEFINE l == [link[c] EXCEPT !.processDone = over, !.released = gone]
    <2>7. /\ l \in Links /\ l.pc = link[c].pc /\ l.connectionDone = link[c].connectionDone
          /\ l.processDone = over /\ l.released = gone
          /\ l.lateLine = link[c].lateLine
      BY <2>3 DEF Links
    <2>8. link' = [link EXCEPT ![c] = l]
      BY <2>6
    <2> HIDE DEF l
    <2>9. Linked(c) /\ link'[c] = l
      BY <2>7, <2>8, LinkPut
    <2>10. /\ reaper' \in Reapers /\ reaper'.pc = "idle" /\ reaper'.leased = reaper.leased
           /\ reaper'.round = reaper.round
           /\ reaper'.queue = IF done THEN reaper.queue \ {c} ELSE reaper.queue
      BY <1>1, <2>5 DEF Reapers
    <2>11. Elsewhere(c)
      BY <2>5, <2>9, <2>10 DEF Elsewhere, Linked
    <2>12. Lease(c)'
      BY <2>1, <2>3, <2>4, <2>6, <2>7, <2>9, <2>10 DEF Lease
    <2>13. Resolver(c)'
      BY <2>1, <2>2, <2>3, <2>5, <2>7, <2>9, <2>10
      DEF Resolver, Before, After, Runs, Reaped, Finished
    <2>14. ReaperShape'
      <3>1. c \notin reaper.round
        BY <1>1, <1>5, <2>1 DEF ReaperShape, ReapFinish
      <3> QED BY <1>1, <2>10, <3>1 DEF ReaperShape
    <2>15. free' \in Nat
      BY <2>5 DEF Kept, Shaped
    <2>16. Shaped'
      BY <2>5, <2>9, <2>10, <2>15 DEF Kept, Shaped, Main, Linked
    <2>17. /\ link[c].released => link'[c].released
           /\ link'[c].released => link[c].pc = "over"
      BY <2>3, <2>4, <2>6, <2>7, <2>9 DEF Lease
    <2>18. free' = IF link'[c].released /\ ~ link[c].released THEN free + 1 ELSE free
      BY <2>1, <2>3, <2>4, <2>5, <2>6, <2>7, <2>9 DEF Lease
    <2> QED
      BY <2>5, <2>7, <2>9, <2>10, <2>11, <2>12, <2>13, <2>14, <2>16, <2>17, <2>18, ReapedKept
  <1> QED BY <1>2, <1>3, <1>4, <1>5 DEF ReapStep

-----------------------------------------------------------------------------
(* Admission, and the wakes and kills of a forced close.                   *)

LEMMA ForcedCloseKept ==
  ASSUME Kept, LockEvent \/ SetEvent \/ KillHandle
  PROVE  Kept'
  <1>1. /\ Top.pc \in {"waking", "woken", "kill"}
        /\ UNCHANGED <<result, signals, srv, Counts, handles, link, reaper>>
    BY DEF LockEvent, SetEvent, KillHandle, At
  <1>2. Top.cur \in Conns /\ Top \in Frames
    <2>1. Len(stack) \in 1 .. Len(stack) /\ Top \in Frames
      BY StackFacts DEF Kept
    <2> QED BY <1>1, <2>1 DEF Kept, StackShape, Top, Pointing
  <1>3. PICK c \in Conns : c = Top.cur
    BY <1>2
  <1>4. PICK frame \in Frames :
          /\ SetTop(frame) /\ frame.pc \in Forcing /\ frame.expired = Top.expired
          /\ frame.pc \in Pointing => frame.cur \in Conns
    <2>1. ASSUME NEW pc \in {"woken", "kill"}, Goto(pc)
          PROVE  \E frame \in Frames :
                   /\ SetTop(frame) /\ frame.pc \in Forcing /\ frame.expired = Top.expired
                   /\ frame.pc \in Pointing => frame.cur \in Conns
      <3> DEFINE frame == [Top EXCEPT !.pc = pc]
      <3>1. frame \in Frames /\ frame.pc = pc /\ frame.expired = Top.expired /\ frame.cur \in Conns
        BY <1>2 DEF Frames
      <3>2. SetTop(frame)
        BY <2>1 DEF Goto
      <3> HIDE DEF frame
      <3> QED BY <3>1, <3>2 DEF Forcing
    <2>2. CASE KillHandle
      <3> DEFINE frame == [Top EXCEPT !.pc = "wake", !.cur = NoConn]
      <3>1. frame \in Frames /\ frame.pc = "wake" /\ frame.expired = Top.expired
        BY <1>2 DEF Frames
      <3>2. SetTop(frame)
        BY <2>2 DEF KillHandle
      <3> HIDE DEF frame
      <3> QED BY <3>1, <3>2 DEF Forcing, Pointing
    <2> QED BY <2>1, <2>2 DEF LockEvent, SetEvent
  <1>5. /\ stack' \in Seq(Frames) /\ Len(stack') >= 1 /\ StackShape' /\ Ending'
        /\ Base.pc \in Admission \/ Base'.pc \in Admission => Base' = Base
    BY <1>1, <1>4, ForcingStep DEF Forcing, Counts
  <1>6. /\ Processes(c)
        /\ start'[c].pc = start[c].pc /\ start'[c].started = start[c].started
        /\ child'[c].at = child[c].at /\ (event[c].set => event'[c].set)
        /\ Runs(c, "working")' => Runs(c, "working")
    <2>1. CASE LockEvent
      <3>1. event' = [event EXCEPT ![c].holder = "main"] /\ UNCHANGED <<start, child>>
        BY <1>3, <2>1 DEF LockEvent
      <3>2. /\ event' \in [Conns -> Events] /\ \A d \in Conns \ {c} : event'[d] = event[d]
            /\ event'[c].set = event[c].set
        BY <3>1 DEF Kept, Shaped, Events
      <3> QED BY <3>1, <3>2 DEF Processes, Kept, Shaped, Runs
    <2>2. CASE SetEvent
      <3>1. /\ event' = [event EXCEPT ![c].holder = "free", ![c].set = TRUE]
            /\ UNCHANGED <<start, child>>
        BY <1>3, <2>2 DEF SetEvent
      <3>2. /\ event' \in [Conns -> Events] /\ \A d \in Conns \ {c} : event'[d] = event[d]
            /\ event'[c].set
        BY <3>1 DEF Kept, Shaped, Events
      <3> QED BY <3>1, <3>2 DEF Processes, Kept, Shaped, Runs
    <2>3. CASE KillHandle
      <3>1. MarkCancelled(c) /\ UNCHANGED event
        BY <1>3, <2>3 DEF KillHandle
      <3> QED BY <3>1, MarkFacts DEF Processes, Kept, Shaped
    <2> QED BY <2>1, <2>2, <2>3
  <1>7. Shaped'
    BY <1>1, <1>5, <1>6 DEF Kept, Shaped, Counts, Processes
  <1>8. Elsewhere(c)
    BY <1>1, <1>6 DEF Elsewhere, Processes
  <1>9. Resolver(c)'
    <2>1. Resolver(c)
      BY KeptFacts
    <2>2. Reaped(c) => Reaped(c)'
      BY <1>6 DEF Reaped, Finished
    <2> QED BY <1>1, <1>6, <2>1, <2>2 DEF Resolver, Before, After
  <1>10. startFree' = startFree + One(c \in Starters) - One(c \in Starters')
    BY <1>1, <1>6, SameStarters DEF Counts
  <1> QED BY <1>1, <1>5, <1>7, <1>8, <1>9, <1>10, ProcessKept DEF Counts

LEMMA AdmittingKept ==
  ASSUME Kept, NEW c \in Conns,
         UNCHANGED <<signals, startFree, handles, start, event, child, reaper>>,
         srv' = srv, Linked(c), UNCHANGED Leased(c), link'[c].lateLine = link[c].lateLine,
         link[c].pc \in {"idle", "accepted"},
         link'[c].pc \in {"refused", "accepted", "receive"},
         Shaped', StackShape', Ending', AdmissionShape',
         \A d \in Conns \ {c} : d \in Admitted <=> d \in Admitted',
         free' = free + One(c \in Holders) - One(c \in Holders'),
         active' = active + One(c \in Admitted') - One(c \in Admitted)
  PROVE  Kept'
  <1>1. Shaped /\ SlotsCounted
    BY DEF Kept
  <1>2. Cardinality(Holders') = Cardinality(Holders) + One(c \in Holders') - One(c \in Holders)
    <2>1. \A d : d # c => (d \in Holders <=> d \in Holders')
      BY DEF Holders, Linked
    <2> QED BY <2>1, CountsFinite, Counting
  <1>3. Cardinality(Admitted') = Cardinality(Admitted) + One(c \in Admitted') - One(c \in Admitted)
    <2>1. \A d : d # c => (d \in Admitted <=> d \in Admitted')
      BY DEF Admitted
    <2> QED BY <2>1, CountsFinite, Counting
  <1>4. Starters' = Starters
    BY DEF Starters
  <1>5. free' + Cardinality(Holders') = Slots
    BY <1>1, <1>2, CountsFacts DEF One
  <1>6. active' = Cardinality(Admitted')
    BY <1>1, <1>3, CountsFacts DEF One
  <1>7. SlotsCounted'
    BY <1>1, <1>4, <1>5, <1>6 DEF SlotsCounted
  <1>8. Lease(c)'
    <2>1. /\ link'[c].connectionDone = link[c].connectionDone
          /\ link'[c].processDone = link[c].processDone
          /\ link'[c].released = link[c].released
      BY DEF Leased
    <2>2. Lease(c)
      BY KeptFacts
    <2> QED BY <2>1, <2>2 DEF Lease, After
  <1>9. Resolver(c)'
    BY KeptFacts DEF Resolver, Before, After, Runs, Reaped, Finished
  <1>10. ReaperShape' /\ Elsewhere(c)
    BY DEF Kept, ReaperShape, Elsewhere, Linked
  <1>11. Leases' /\ Resolvers' /\ LateLines'
    BY <1>8, <1>9, <1>10, KeptFacts, OthersKept
  <1> QED BY <1>7, <1>10, <1>11 DEF Kept

LEMMA AcceptKept ==
  ASSUME Kept, NEW c \in Conns, Accept(c)
  PROVE  Kept'
  <1>1. /\ UNCHANGED <<result, signals, srv, startFree, active, handles, start, event,
                       child, reaper>>
        /\ Top.pc = "loop" /\ link[c].pc = "idle"
    BY DEF Accept, At
  <1>2. Top.pc \notin Forcing \cup Handling
    BY <1>1 DEF Forcing, Handling
  <1>3. Top = Base /\ Top \in Frames
    BY <1>2, AtBase, StackFacts DEF Kept
  <1>4. Lease(c) /\ ~ link[c].released
    BY <1>1, KeptFacts DEF Lease
  <1>5. c \notin Holders /\ c \notin Admitted
    BY <1>1, <1>3 DEF Holders, Outside, Admitted, InThread
  <1>6. \A d \in Conns : link[d].pc # "accepted"
    BY <1>1, <1>3 DEF Kept, AdmissionShape, Admission
  <1>7. CASE link' = [link EXCEPT ![c].pc = "refused"] /\ UNCHANGED <<stack, free>>
    <2>1. /\ Linked(c) /\ link'[c].pc = "refused" /\ UNCHANGED Leased(c)
          /\ link'[c].lateLine = link[c].lateLine
      BY <1>7, StepFacts DEF Step, LinkPoints
    <2>2. Base' = Base /\ StackShape'
      BY <1>1, <1>7 DEF Kept, StackShape, Base
    <2>3. Ending'
      BY <1>1, <2>2 DEF Kept, Ending
    <2>4. Shaped'
      BY <1>1, <1>7, <2>1 DEF Kept, Shaped, Linked
    <2>5. AdmissionShape'
      BY <1>1, <1>3, <1>6, <2>1, <2>2 DEF AdmissionShape, Admission, Linked
    <2>6. \A d \in Conns \ {c} : d \in Admitted <=> d \in Admitted'
      BY <2>1, <2>2 DEF Admitted, InThread, Linked
    <2>7. c \notin Holders' /\ c \notin Admitted'
      BY <1>1, <1>3, <2>1, <2>2 DEF Holders, Outside, Admitted, InThread
    <2>8. free' = free + One(c \in Holders) - One(c \in Holders')
      BY <1>5, <1>7, <2>7 DEF One, Kept, Shaped
    <2>9. active' = active + One(c \in Admitted') - One(c \in Admitted)
      BY <1>1, <1>5, <2>7 DEF One, Kept, Shaped
    <2> QED
      BY <1>1, <2>1, <2>2, <2>3, <2>4, <2>5, <2>6, <2>8, <2>9, AdmittingKept
  <1>8. CASE /\ free > 0
             /\ free' = free - 1
             /\ link' = [link EXCEPT ![c].pc = "accepted"]
             /\ SetTop([Top EXCEPT !.pc = "admit", !.cur = c])
    <2>1. /\ Linked(c) /\ link'[c].pc = "accepted" /\ UNCHANGED Leased(c)
          /\ link'[c].lateLine = link[c].lateLine
      BY <1>8, StepFacts DEF Step, LinkPoints
    <2> DEFINE frame == [Top EXCEPT !.pc = "admit", !.cur = c]
    <2>2. frame \in Frames /\ frame.pc = "admit" /\ frame.cur = c
      BY <1>3 DEF Frames
    <2>3. SetTop(frame)
      BY <1>8
    <2> HIDE DEF frame
    <2>4. /\ stack' \in Seq(Frames) /\ Len(stack') >= 1 /\ StackShape'
          /\ Base' = frame
      BY <1>1, <1>2, <2>2, <2>3, BaseStep DEF Kept, Handling
    <2>5. Ending'
      BY <1>1, <1>3, <2>2, <2>4 DEF Kept, Ending, Forcing
    <2>6. free \in Nat /\ active \in Nat /\ free' \in Nat
      BY <1>8 DEF Kept, Shaped
    <2>7. Shaped'
      BY <1>1, <2>1, <2>4, <2>6 DEF Kept, Shaped, Linked
    <2>8. AdmissionShape'
      BY <1>6, <2>1, <2>2, <2>4 DEF AdmissionShape, Admission, Linked
    <2>9. \A d \in Conns \ {c} : d \in Admitted <=> d \in Admitted'
      BY <1>1, <1>3, <2>1, <2>2, <2>4 DEF Admitted, InThread, Linked
    <2>10. c \in Holders' /\ c \notin Admitted'
      <3>1. ~ link'[c].released
        BY <1>4, <2>1 DEF Leased
      <3> QED BY <2>1, <2>2, <2>4, <3>1 DEF Holders, Outside, Admitted, InThread
    <2>11. free' = free + One(c \in Holders) - One(c \in Holders')
      BY <1>5, <1>8, <2>6, <2>10 DEF One
    <2>12. active' = active + One(c \in Admitted') - One(c \in Admitted)
      BY <1>1, <1>5, <2>6, <2>10 DEF One
    <2> QED
      BY <1>1, <2>1, <2>4, <2>5, <2>7, <2>8, <2>9, <2>11, <2>12, AdmittingKept
  <1> QED BY <1>7, <1>8 DEF Accept

LEMMA AdmitKept ==
  ASSUME Kept, Admit \/ Spawn
  PROVE  Kept'
  <1>1. /\ UNCHANGED <<result, signals, srv, startFree, handles, start, event, child, reaper>>
        /\ Top.pc \in {"admit", "spawn"}
    BY DEF Admit, Spawn, At
  <1>2. Top.pc \notin Forcing \cup Handling
    BY <1>1 DEF Forcing, Handling
  <1>3. Top = Base /\ Top \in Frames
    BY <1>2, AtBase, StackFacts DEF Kept
  <1>4. PICK c \in Conns : c = Top.cur /\ link[c].pc = "accepted"
    <2>1. Top.cur \in Conns
      BY <1>1, <1>3, StackFacts DEF Kept, StackShape, Base, Pointing
    <2> QED BY <1>1, <1>3, <2>1 DEF Kept, AdmissionShape, Admission
  <1>5. c \in Holders /\ ~ link[c].released
    BY <1>4, KeptFacts DEF Lease, Holders, Outside
  <1>6. \A d \in Conns \ {c} : link[d].pc # "accepted"
    BY <1>3, <1>4 DEF Kept, AdmissionShape
  <1>7. c \in Admitted <=> Base.pc = "spawn"
    BY <1>3, <1>4 DEF Admitted, InThread
  <1>8. free \in Nat /\ active \in Nat
    BY DEF Kept, Shaped
  <1>9. CASE /\ Top.pc = "admit" /\ active' = active + 1 /\ Goto("spawn")
             /\ UNCHANGED <<free, link>>
    <2> DEFINE frame == [Top EXCEPT !.pc = "spawn"]
    <2>1. frame \in Frames /\ frame.pc = "spawn" /\ frame.cur = c
      BY <1>3, <1>4 DEF Frames
    <2>2. SetTop(frame)
      BY <1>9 DEF Goto
    <2> HIDE DEF frame
    <2>3. /\ stack' \in Seq(Frames) /\ Len(stack') >= 1 /\ StackShape'
          /\ Base' = frame
      BY <1>1, <1>2, <2>1, <2>2, BaseStep DEF Kept, Handling
    <2>4. srv' = srv /\ result' = result /\ reaper' = reaper
      BY <1>1
    <2>5. reaper.pc # "gone" /\ result # "drained"
      BY <1>1, <1>3 DEF Kept, Ending, Forcing
    <2>6. Ending'
      BY <1>1, <1>3, <2>1, <2>3, <2>4, <2>5 DEF Kept, Ending, Forcing
    <2>7. Shaped'
      BY <1>1, <1>8, <1>9, <2>3 DEF Kept, Shaped
    <2>8. AdmissionShape'
      BY <1>4, <1>6, <1>9, <2>1, <2>3 DEF AdmissionShape, Admission
    <2>9. \A d \in Conns \ {c} : d \in Admitted <=> d \in Admitted'
      BY <1>3, <1>4, <1>9, <2>1, <2>3 DEF Admitted, InThread
    <2>10. c \in Holders' /\ c \in Admitted' /\ c \notin Admitted
      BY <1>3, <1>5, <1>7, <1>9, <2>1, <2>3 DEF Holders, Admitted
    <2>11. free' = free + One(c \in Holders) - One(c \in Holders')
      BY <1>5, <1>8, <1>9, <2>10 DEF One
    <2>12. active' = active + One(c \in Admitted') - One(c \in Admitted)
      BY <1>8, <1>9, <2>10 DEF One
    <2>13. Linked(c) /\ UNCHANGED Leased(c)
      BY <1>9 DEF Kept, Shaped, Linked, Leased
    <2> QED
      BY <1>1, <1>4, <1>9, <2>3, <2>6, <2>7, <2>8, <2>9, <2>11, <2>12, <2>13, AdmittingKept
  <1>10. CASE /\ SetTop([Top EXCEPT !.pc = "loop", !.cur = NoConn])
              /\ \/ /\ Top.pc = "spawn" /\ Step(c, "receive") /\ UNCHANGED <<free, active>>
                 \/ /\ Step(c, "refused") /\ free' = free + 1
                    /\ active' = IF Top.pc = "spawn" THEN active - 1 ELSE active
    <2> DEFINE frame == [Top EXCEPT !.pc = "loop", !.cur = NoConn]
    <2>1. frame \in Frames /\ frame.pc = "loop"
      BY <1>3 DEF Frames
    <2>2. SetTop(frame)
      BY <1>10
    <2> HIDE DEF frame
    <2>3. /\ stack' \in Seq(Frames) /\ Len(stack') >= 1 /\ StackShape'
          /\ Base' = frame
      BY <1>1, <1>2, <2>1, <2>2, BaseStep DEF Kept, Handling, Pointing
    <2>4. PICK pc \in {"receive", "refused"} :
            /\ Step(c, pc)
            /\ pc = "receive" => Top.pc = "spawn" /\ UNCHANGED <<free, active>>
            /\ pc = "refused" => /\ free' = free + 1
                                 /\ active' = IF Top.pc = "spawn" THEN active - 1 ELSE active
      BY <1>10
    <2>5. /\ Linked(c) /\ link'[c].pc = pc /\ UNCHANGED Leased(c)
          /\ link'[c].lateLine = link[c].lateLine
      BY <2>4, StepFacts DEF LinkPoints
    <2>6. reaper.pc # "gone" /\ result # "drained"
      BY <1>1, <1>3 DEF Kept, Ending, Forcing
    <2>7. Ending'
      BY <1>1, <1>3, <2>1, <2>3, <2>6 DEF Kept, Ending, Forcing
    <2>8. Top.pc = "spawn" => active >= 1
      <3>1. ASSUME Top.pc = "spawn" PROVE Cardinality(Admitted) # 0
        <4>1. c \in Admitted
          BY <1>3, <1>7, <3>1
        <4> QED BY <4>1, CountsFinite, FS_EmptySet
      <3> QED BY <1>8, <3>1 DEF Kept, SlotsCounted
    <2>9. free' \in Nat /\ active' \in Nat
      BY <1>8, <2>4, <2>8
    <2>10. Shaped'
      BY <1>1, <2>3, <2>5, <2>9 DEF Kept, Shaped, Linked
    <2>11. AdmissionShape'
      BY <1>6, <2>1, <2>3, <2>5 DEF AdmissionShape, Admission, Linked
    <2>12. \A d \in Conns \ {c} : d \in Admitted <=> d \in Admitted'
      BY <1>3, <1>4, <2>1, <2>3, <2>5 DEF Admitted, InThread, Linked
    <2>13. /\ c \in Holders' <=> pc = "receive"
           /\ c \in Admitted' <=> pc = "receive"
      <3>1. ~ link'[c].released
        BY <1>5, <2>5 DEF Leased
      <3> QED BY <2>1, <2>3, <2>5, <3>1 DEF Holders, Outside, Admitted, InThread
    <2>14. free' = free + One(c \in Holders) - One(c \in Holders')
      BY <1>5, <1>8, <2>4, <2>13 DEF One
    <2>15. active' = active + One(c \in Admitted') - One(c \in Admitted)
      BY <1>3, <1>7, <1>8, <2>4, <2>13 DEF One
    <2> QED
      BY <1>1, <1>4, <2>3, <2>5, <2>7, <2>10, <2>11, <2>12, <2>14, <2>15, AdmittingKept
  <1>11. CASE Admit
    <2>1. Top.pc = "admit"
      BY <1>11 DEF Admit, At
    <2> QED BY <1>4, <1>9, <1>10, <1>11, <2>1 DEF Admit, Step
  <1>12. CASE Spawn
    <2>1. Top.pc = "spawn"
      BY <1>12 DEF Spawn, At
    <2> QED BY <1>4, <1>10, <1>12, <2>1 DEF Spawn, Step
  <1> QED BY <1>11, <1>12

-----------------------------------------------------------------------------
(* The invariant, and what it implies.                                     *)

LEMMA InitKept == Init => Kept
  <1> SUFFICES ASSUME Init PROVE Kept
    OBVIOUS
  <1>1. Frame("open") \in Frames /\ Frame("open").pc = "open"
    BY DEF Frame, Frames
  <1>2. /\ stack \in Seq(Frames) /\ Len(stack) = 1 /\ stack[1] = Frame("open")
        /\ Base = Frame("open")
    BY <1>1 DEF Init, Base
  <1>3. Shaped
    <2>1. srv \in Servers /\ reaper \in Reapers
      BY DEF Init, Servers, Reapers
    <2>2. link \in [Conns -> Links] /\ start \in [Conns -> Starts]
      BY DEF Init, Links, Starts
    <2>3. event \in [Conns -> Events] /\ child \in [Conns -> Children]
      BY DEF Init, Events, Children
    <2> QED BY <1>2, <2>1, <2>2, <2>3, SlotsAssumption DEF Init, Shaped
  <1>4. StackShape
    BY <1>1, <1>2 DEF Init, StackShape, Handling, Forcing, Pointing
  <1>5. AdmissionShape
    BY <1>1, <1>2 DEF Init, AdmissionShape, Admission
  <1>6. Holders = {} /\ Starters = {} /\ Admitted = {}
    BY <1>1, <1>2 DEF Init, Holders, Starters, Admitted, Outside, InThread
  <1>7. SlotsCounted
    BY <1>6, FS_EmptySet, SlotsAssumption DEF Init, SlotsCounted
  <1>8. Leases /\ LateLines
    BY DEF Init, Leases, Lease, LateLines
  <1>9. ReaperShape
    BY DEF Init, ReaperShape
  <1>10. Resolvers
    BY DEF Init, Resolvers, Resolver, Before, After, Runs
  <1>11. Ending
    BY <1>1, <1>2 DEF Init, Ending, Forcing
  <1> QED BY <1>3, <1>4, <1>5, <1>7, <1>8, <1>9, <1>10, <1>11 DEF Kept

LEMMA StutterKept == Kept /\ UNCHANGED vars => Kept'
  <1> SUFFICES ASSUME Kept, UNCHANGED vars PROVE Kept'
    OBVIOUS
  <1>1. UNCHANGED <<Counts, Threads>> /\ UNCHANGED <<stack, result, signals, srv>>
    BY DEF vars, Counts, Threads
  <1>2. Base' = Base /\ StackShape' /\ Ending'
    BY <1>1 DEF Kept, StackShape, Base, Ending, Counts, Threads
  <1>3. Shaped'
    BY <1>1 DEF Kept, Shaped, Counts, Threads
  <1> QED BY <1>1, <1>2, <1>3, ControlKept

LEMMA KeptInductive == Kept /\ [Next]_vars => Kept'
  <1> SUFFICES ASSUME Kept, [Next]_vars PROVE Kept'
    OBVIOUS
  <1>1. CASE UNCHANGED vars
    BY <1>1, StutterKept
  <1>2. CASE Interrupt \/ Expire
    BY <1>2, InterruptKept
  <1>3. CASE AcceptFails \/ MainStep
    BY <1>3, OpeningKept, ServingKept, HandlerKept, ForcedKept, ForcedCloseKept, AdmitKept
    DEF MainStep
  <1>4. CASE ReapStep
    BY <1>4, ReaperKept
  <1>5. CASE \E c \in Conns : \/ Accept(c) \/ LinkStep(c) \/ StartStep(c)
                              \/ ChildStep(c) \/ Work(c)
    <2>1. PICK c \in Conns : \/ Accept(c) \/ LinkStep(c) \/ StartStep(c)
                             \/ ChildStep(c) \/ Work(c)
      BY <1>5
    <2>2. CASE LinkStep(c)
      BY <2>2, ReceiveKept, ResolveKept, BeginKept, WakeKept, FinishKept, DeferKept,
         EmitKept, ReleaseKept
      DEF LinkStep
    <2> QED BY <2>1, <2>2, AcceptKept, StarterKept, ChildKept
  <1> QED BY <1>1, <1>2, <1>3, <1>4, <1>5 DEF Next

LEMMA AlwaysKept == Spec => []Kept
  BY InitKept, KeptInductive, PTL DEF Spec

(* Every reachable state is of its declared shape: for any number of        *)
(* connections no more of them are admitted, and no more starts are under   *)
(* way, than there are slots; the frames of the main thread are never more  *)
(* than the interrupts account for.                                         *)
THEOREM TypeCorrect == Spec => []TypeOK
  <1>1. Kept => TypeOK
    BY CountsTyped DEF Kept
  <1> QED BY <1>1, AlwaysKept, PTL

(* No resolver works beside the admitted connections: a slot is not given  *)
(* back while its connection's thread runs or its process is at work.      *)
THEOREM SlotCoversWorkHolds == Spec => []SlotCoversWork
  <1>1. Kept => SlotCoversWork
    <2> SUFFICES ASSUME Kept, NEW c \in Conns, InThread(c) \/ Runs(c, "working")
                 PROVE  ~ link[c].released
      BY DEF SlotCoversWork
    <2>1. Lease(c) /\ Resolver(c)
      BY KeptFacts
    <2>2. InThread(c) => link[c].pc # "over"
      BY DEF InThread
    <2>3. Runs(c, "working") => child[c].at # "none"
      BY DEF Runs
    <2> QED BY <2>1, <2>2, <2>3 DEF Lease, Resolver, After
  <1> QED BY <1>1, AlwaysKept, PTL

(* The reaper is there as long as a process may still come to it.          *)
THEOREM ReaperOutlivesWorkHolds == Spec => []ReaperOutlivesWork
  <1>1. Kept => ReaperOutlivesWork
    <2> SUFFICES ASSUME Kept, reaper.pc = "gone", NEW c \in Conns
                 PROVE  ~ Alive(c) /\ ~ InThread(c)
      BY DEF ReaperOutlivesWork
    <2>1. active = 0 /\ reaper.queue = {}
      BY DEF Kept, Ending
    <2>2. ~ InThread(c)
      BY <2>1, Threaded
    <2>3. link[c].pc \in {"idle", "refused", "accepted", "over"}
      BY <2>2 DEF InThread
    <2>4. Resolver(c)
      BY KeptFacts
    <2>5. ~ Alive(c)
      BY <2>1, <2>3, <2>4 DEF Resolver, Before, After, Reaped, Alive
    <2> QED BY <2>2, <2>5
  <1> QED BY <1>1, AlwaysKept, PTL

(* No line is queued behind the sentinel of a drained run.                 *)
Reported == result = "drained" => \A c \in Conns : ~ link[c].lateLine

LEMMA LinesKept ==
  ASSUME Kept, Next, NEW c \in Conns, ~ InThread(c)
  PROVE  link'[c].lateLine => link[c].lateLine
  <1>1. CASE Interrupt \/ Expire \/ AcceptFails \/ MainStep
    <2>1. CASE Admit \/ Spawn
      <3> DEFINE Moved(pc) == link' = [link EXCEPT ![Top.cur].pc = pc]
      <3>1. link' = link \/ Moved("refused") \/ Moved("receive")
        <4>1. CASE Admit
          BY <4>1 DEF Admit
        <4>2. CASE Spawn
          BY <4>2 DEF Spawn
        <4> QED BY <2>1, <4>1, <4>2
      <3>2. link \in [Conns -> Links]
        BY DEF Kept, Shaped
      <3> HIDE DEF Top
      <3>3. ASSUME NEW pc, Moved(pc)
            PROVE  link'[c].lateLine => link[c].lateLine
        BY <3>2, <3>3 DEF Links
      <3> QED BY <3>1, <3>3
    <2>2. CASE ~ (Admit \/ Spawn)
      <3>1. link' = link
        BY <1>1, <2>2
        DEF Interrupt, Expire, AcceptFails, MainStep, Open, Register, Assign, Advertise, Announce,
            Serve,
            LeaveLoop, Leave, Drain, Snapshot, PickHandle, Forced, LockEvent, SetEvent, KillHandle,
            Answer, Stop, LockDraining, SetDraining, LockImmediate, SetImmediate, Rest, Threads
      <3> QED BY <3>1
    <2> QED BY <2>1, <2>2
  <1>2. CASE ReapStep
    <2> DEFINE Marked(d, x, y) ==
                 link' = [link EXCEPT ![d].processDone = x, ![d].released = y]
    <2>1. CASE ReapNext \/ ReapWake \/ ReapGone
      BY <2>1 DEF ReapNext, ReapWake, ReapGone
    <2>2. ReapFinish => \E d, x, y : Marked(d, x, y)
      <3> DEFINE d == reaper.cur
                 x == link[d].processDone \/ Reaped(d)
                 y == link[d].released \/ (Reaped(d) /\ d \in reaper.leased /\ link[d].connectionDone)
      <3>1. ReapFinish => Marked(d, x, y)
        BY Zenon DEF ReapFinish
      <3> QED BY <3>1
    <2>3. link \in [Conns -> Links]
      BY DEF Kept, Shaped
    <2>4. ASSUME NEW d, NEW x, NEW y, Marked(d, x, y)
          PROVE  link'[c].lateLine => link[c].lateLine
      BY <2>3, <2>4 DEF Links
    <2> QED BY <1>2, <2>1, <2>2, <2>4 DEF ReapStep
  <1>3. ASSUME NEW d \in Conns,
               Accept(d) \/ LinkStep(d) \/ StartStep(d) \/ ChildStep(d) \/ Work(d)
        PROVE  link'[c].lateLine => link[c].lateLine
    <2>1. CASE StartStep(d) \/ ChildStep(d) \/ Work(d)
      <3>1. link' = link
        BY <2>1 DEF StartStep, StartProcess, Signal, StartDone, ChildStep, Gate, ReadCancel,
                    Die, Work, Others
      <3> QED BY <3>1
    <2>2. CASE Accept(d)
      <3>1. \E pc : link' = [link EXCEPT ![d].pc = pc]
        BY <2>2 DEF Accept
      <3> QED BY <3>1 DEF Kept, Shaped, Links
    <2>3. CASE LinkStep(d)
      <3>1. InThread(d)
        BY <2>3 DEF LinkStep, Receive, Resolve, Begin, AwaitStart, AwaitResult, Wake, Kill, Finish,
                    Defer, Emit, Release, In, InThread
      <3>2. \E l : link' = [link EXCEPT ![d] = l]
        BY <2>3 DEF LinkStep, Receive, Resolve, Begin, AwaitStart, AwaitResult, Wake, Kill, Finish,
                    Defer, Emit, Release, Step, Page
      <3> QED BY <3>1, <3>2 DEF Kept, Shaped
    <2> QED BY <1>3, <2>1, <2>2, <2>3
  <1> QED BY <1>1, <1>2, <1>3 DEF Next

LEMMA ReportedInductive == Kept /\ Reported /\ [Next]_vars => Reported'
  <1> SUFFICES ASSUME Kept, Reported, [Next]_vars, result' = "drained", NEW c \in Conns
               PROVE  ~ link'[c].lateLine
    BY DEF Reported
  <1>1. CASE UNCHANGED vars
    BY <1>1 DEF Reported, vars
  <1>2. CASE result = "drained" /\ Next
    <2>1. active = 0
      BY <1>2 DEF Kept, Ending
    <2>2. ~ InThread(c)
      BY <2>1, Threaded
    <2> QED BY <1>2, <2>2, LinesKept DEF Reported
  <1>3. CASE result # "drained" /\ Next
    <2>1. Answer
      BY ZenonT(40), <1>3
      DEF Next, Interrupt, Expire, AcceptFails, MainStep, Open, Register, Assign, Advertise, Announce,
            Serve,
          LeaveLoop, Leave, Drain, Snapshot, PickHandle, Forced, LockEvent, SetEvent, KillHandle,
          Stop, LockDraining, SetDraining, LockImmediate, SetImmediate, Admit, Spawn,
          ReapStep, ReapNext, ReapWake, ReapFinish, ReapGone, Accept, LinkStep, Receive, Resolve,
          Begin, AwaitStart, AwaitResult, Wake, Kill, Finish, Defer, Emit, Release, StartStep,
          StartProcess, Signal, StartDone, ChildStep, Gate, ReadCancel, Die, Work, Others, Main
    <2>2. Top.pc = "answer" /\ link' = link
      BY <2>1 DEF Answer, At, Rest, Threads
    <2>3. Base.pc = "answer"
      BY <2>2, AtBase DEF Kept, Forcing, Handling
    <2>4. ~ srv.sentinel
      BY <2>3 DEF Kept, Ending
    <2> QED BY <2>2, <2>4, KeptFacts
  <1> QED BY <1>1, <1>2, <1>3

(* Until the listener is registered, and when it was registered behind an  *)
(* interrupt, no connection is accepted.                                   *)
Unheard == srv.listener \in {"none", "bound", "missed"} =>
             \A c \in Conns : link[c].pc = "idle"

LEMMA UnheardInductive == Kept /\ Unheard /\ [Next]_vars => Unheard'
  <1> SUFFICES ASSUME Kept, Unheard, [Next]_vars,
                      srv'.listener \in {"none", "bound", "missed"}, NEW c \in Conns
               PROVE  link'[c].pc = "idle"
    BY DEF Unheard
  <1>1. CASE UNCHANGED vars
    BY <1>1 DEF Unheard, vars
  <1>2. CASE Next
    <2>1. srv \in Servers /\ link \in [Conns -> Links]
      BY DEF Kept, Shaped
    <2>2. srv.listener \in {"none", "bound", "missed"}
      <3>1. CASE Open \/ Assign
        <4>1. Base.pc \in {"open", "assign"}
          BY <3>1, AtBase DEF Kept, Open, Assign, At, Forcing, Handling
        <4> QED BY <4>1 DEF Kept, Ending
      <3>2. CASE Register \/ Advertise \/ Announce \/ Leave \/ Stop \/ SetDraining \/ SetImmediate
        BY <2>1, <3>2 DEF Register, Advertise, Announce, Leave, Stop, SetDraining, SetImmediate, Servers
      <3>3. CASE Expire
        BY <2>1, <3>3 DEF Expire, Servers
      <3>4. CASE srv' = srv
        BY <3>4
      <3>5. Open \/ Assign \/ Register \/ Advertise \/ Announce \/ Leave \/ Stop
             \/ SetDraining \/ SetImmediate \/ Expire \/ srv' = srv
        BY ZenonT(40), <1>2
        DEF Next, Interrupt, AcceptFails, MainStep, Serve, LeaveLoop, Drain, Snapshot,
            PickHandle, Forced, LockEvent, SetEvent, KillHandle, Answer, LockDraining,
            LockImmediate, Admit, Spawn, ReapStep, ReapNext, ReapWake, ReapFinish, ReapGone,
            Accept, LinkStep, Receive, Resolve, Begin, AwaitStart, AwaitResult, Wake, Kill,
            Finish, Defer, Emit, Release, StartStep, StartProcess, Signal, StartDone,
            ChildStep, Gate, ReadCancel, Die, Work, Others, Main
      <3> QED BY <3>1, <3>2, <3>3, <3>4, <3>5
    <2>3. \A d \in Conns : link[d].pc = "idle"
      BY <2>2 DEF Unheard
    <2>4. ~ (Admit \/ Spawn)
      <3> SUFFICES ASSUME Top.pc \in Admission PROVE FALSE
        BY DEF Admit, Spawn, At, Admission
      <3>1. Top = Base
        BY AtBase DEF Kept, Admission, Forcing, Handling
      <3>2. Base.cur \in Conns
        BY <3>1, StackFacts DEF Kept, StackShape, Pointing, Admission, Base
      <3> QED BY <2>3, <3>1, <3>2 DEF Kept, AdmissionShape
    <2>5. CASE link' = link
      BY <2>3, <2>5
    <2>6. CASE ReapFinish
      BY <2>1, <2>3, <2>6 DEF ReapFinish, Links
    <2>7. \A d \in Conns : ~ LinkStep(d) /\ ~ Accept(d)
      BY <2>2, <2>3 DEF LinkStep, Receive, Resolve, Begin, AwaitStart, AwaitResult, Wake, Kill,
                       Finish, Defer, Emit, Release, In, Accept
    <2>8. link' = link \/ ReapFinish
      BY <1>2, <2>4, <2>7
      DEF Next, Interrupt, Expire, AcceptFails, MainStep, Open, Register, Assign, Advertise,
          Announce, Serve,
          LeaveLoop, Leave, Drain, Snapshot, PickHandle, Forced, LockEvent, SetEvent, KillHandle,
          Answer, Stop, LockDraining, SetDraining, LockImmediate, SetImmediate,
          ReapStep, ReapNext, ReapWake, ReapGone, StartStep, StartProcess, Signal, StartDone,
          ChildStep, Gate, ReadCancel, Die, Work, Others, Rest, Threads
    <2> QED BY <2>5, <2>6, <2>8
  <1> QED BY <1>1, <1>2

(* A drained run left nothing behind, and however the run ends its socket  *)
(* is closed, but for an interrupt between drain check and registration.   *)
THEOREM DrainedIsCompleteHolds == Spec => []DrainedIsComplete
  <1>1. Init => Reported /\ Unheard
    BY DEF Init, Reported, Unheard
  <1>2. Kept /\ Reported /\ Unheard => DrainedIsComplete
    <2> SUFFICES ASSUME Kept, Reported, Unheard PROVE DrainedIsComplete
      OBVIOUS
    <2>1. Base.pc = "over" => \/ srv.listener \in {"none", "closed"}
                              \/ /\ srv.listener = "missed"
                                 /\ \A c \in Conns : link[c].pc = "idle"
      BY DEF Kept, Ending, Unheard
    <2>2. ASSUME result = "drained", NEW c \in Conns
          PROVE  /\ link[c].pc \in {"idle", "refused", "over"}
                 /\ ~ link[c].lateLine
                 /\ Alive(c) => c \in reaper.queue
      <3>1. active = 0 /\ Base.pc \in {"stop", "over"}
        BY <2>2 DEF Kept, Ending
      <3>2. ~ InThread(c)
        BY <3>1, Threaded
      <3>3. link[c].pc # "accepted"
        BY <3>1 DEF Kept, AdmissionShape, Admission
      <3>4. link[c].pc \in {"idle", "refused", "over"}
        BY <3>2, <3>3 DEF InThread
      <3>5. Resolver(c)
        BY KeptFacts
      <3>6. Alive(c) => c \in reaper.queue
        BY <3>4, <3>5 DEF Resolver, Before, After, Reaped, Alive
      <3> QED BY <2>2, <3>4, <3>6 DEF Reported
    <2> QED BY <2>1, <2>2 DEF DrainedIsComplete
  <1> QED BY <1>1, <1>2, AlwaysKept, ReportedInductive, UnheardInductive, PTL DEF Spec

=============================================================================
