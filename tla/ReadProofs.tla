------------------------------ MODULE ReadProofs ------------------------------
(***************************************************************************)
(* What TLAPS proves of ViewRead: what the lock-free read serves, and that *)
(* nothing the writer does elsewhere makes it refuse.  The invariant has   *)
(* three parts: Shape, Collected (what the reader has verified so far is   *)
(* of the graph it loaded, whatever the directory holds by now) and        *)
(* Undisturbed (while nothing touches the loaded graph's export, every     *)
(* look at it sees the same whole set).                                    *)
(***************************************************************************)
EXTENDS ViewRead, TLAPS

Shape ==
  /\ DOMAIN r = {"pc", "ent", "render", "id", "manifest", "left", "got", "pending", "verdict",
                 "steady"}
  /\ DOMAIN r.got = Members

(* What is served is what was verified, member by member.                  *)
Collected ==
  /\ r.pc = "members" => /\ r.manifest = {r.render}
                         /\ \A m \in Members \ r.left : r.got[m] = Bytes(m, r.render)
  /\ r.pending # "current"
  /\ r.verdict = "current" => /\ r.pc = "done"
                              /\ \A m \in Members : r.got[m] = Bytes(m, r.render)

(* The export of the loaded graph stands whole at the final path.          *)
Standing ==
  /\ dir["final"][r.ent] # {}
  /\ \A s \in dir["final"][r.ent] : Valid(s) /\ s.render = r.render

Undisturbed ==
  r.steady =>
    /\ r.pc \in {"identify", "manifest", "inspect", "match", "members", "done"}
    /\ Standing
    /\ r.pc \notin {"identify", "done"} => r.id = {s.id : s \in dir["final"][r.ent]}
    /\ r.pc \in {"inspect", "match", "members"} => r.manifest = {r.render}
    /\ r.pc = "done" => r.verdict = "current"

ReadInv == Shape /\ Collected /\ Undisturbed

(***************************************************************************)
(* The steps                                                               *)
(***************************************************************************)

LEMMA Begins == ReadInit => ReadInv
BY DEF ReadInit, NoRead, ReadInv, Shape, Collected, Undisturbed

(* A step of the reader that looks at the directory leaves it as it is.    *)
LEMMA StepsLook ==
  ASSUME ReadInv, ReadStep \/ LoadGraph
  PROVE  dir' = dir
BY DEF ReadStep, LoadGraph, Identify, ReadManifest, InspectMember, ReadMember, Inspected, MatchGraph,
       Served, Stable, Look

LEMMA LoadKeeps ==
  ASSUME ReadInv, LoadGraph
  PROVE  ReadInv'
<1>1. r' = [NoRead EXCEPT !.pc = "identify", !.ent = db.current, !.render = db.render,
                          !.steady = Exported(db.current)]
  BY DEF LoadGraph
<1>2. /\ DOMAIN r' = {"pc", "ent", "render", "id", "manifest", "left", "got", "pending", "verdict",
                 "steady"}
      /\ DOMAIN r'.got = Members
      /\ r'.pc = "identify" /\ r'.ent = db.current /\ r'.render = db.render
      /\ r'.pending = "none" /\ r'.verdict = "none" /\ r'.steady = Exported(db.current)
  BY <1>1 DEF NoRead
<1>3. dir' = dir
  BY StepsLook
<1>4. r'.steady => Standing'
  BY <1>2, <1>3 DEF Exported, FinalValid, Standing
<1> QED BY <1>2, <1>4 DEF ReadInv, Shape, Collected, Undisturbed

LEMMA IdentifyKeeps ==
  ASSUME ReadInv, Identify
  PROVE  ReadInv'
<1>1. dir' = dir /\ r.pc = "identify"
  BY DEF Identify, Look
<1>2. CASE Seen = {}
  <2>1. Answer("not_current") /\ ~ r.steady
    BY <1>2 DEF Identify, ReadInv, Undisturbed, Standing, Seen
  <2> QED BY <1>1, <2>1 DEF Answer, NoBytes, ReadInv, Shape, Collected, Undisturbed
<1>3. CASE Seen # {}
  <2>1. r' = [r EXCEPT !.pc = "manifest", !.id = Identity]
    BY <1>3 DEF Identify
  <2>2. r'.id = {s.id : s \in dir["final"][r.ent]}
    BY <2>1 DEF ReadInv, Shape, Identity, Seen
  <2> QED BY <1>1, <2>1, <2>2 DEF ReadInv, Shape, Collected, Undisturbed, Standing
<1> QED BY <1>2, <1>3

(* Suspicion never arises of a set that stands whole.                      *)
LEMMA NoSuspicion ==
  ASSUME ReadInv, r.steady
  PROVE  ~ MayMiss /\ \A v : MayRead(v) => v = r.render
BY DEF ReadInv, Undisturbed, Standing, MayMiss, MayRead, Seen

LEMMA SuspectKeeps ==
  ASSUME ReadInv, ~ r.steady, dir' = dir, NEW verdict, verdict # "current", Suspect(verdict),
         r.pc # "done"
  PROVE  ReadInv'
BY DEF Suspect, NoBytes, ReadInv, Shape, Collected, Undisturbed

LEMMA ManifestKeeps ==
  ASSUME ReadInv, ReadManifest
  PROVE  ReadInv'
<1>1. dir' = dir /\ r.pc = "manifest"
  BY DEF ReadManifest, Look
<1>2. ASSUME NEW v \in Renders, MayRead(v),
             r' = [r EXCEPT !.pc = "inspect", !.manifest = {v}, !.left = Members]
      PROVE  ReadInv'
  BY <1>1, <1>2, NoSuspicion DEF ReadInv, Shape, Collected, Undisturbed, Standing
<1>3. CASE MayMiss /\ Suspect("residual")
  BY <1>1, <1>3, NoSuspicion, SuspectKeeps
<1> QED BY <1>2, <1>3 DEF ReadManifest

LEMMA InspectKeeps ==
  ASSUME ReadInv, NEW m \in Members, InspectMember(m)
  PROVE  ReadInv'
<1>1. dir' = dir /\ r.pc = "inspect"
  BY DEF InspectMember, Look
<1>2. CASE r' = [r EXCEPT !.left = @ \ {m}]
  BY <1>1, <1>2 DEF ReadInv, Shape, Collected, Undisturbed, Standing
<1>3. ASSUME NEW v \in Renders, MayRead(v), Bytes(m, v) \notin Digest(m), Suspect("residual")
      PROVE  ReadInv'
  <2>1. ~ r.steady
    BY <1>1, <1>3, NoSuspicion DEF ReadInv, Undisturbed, Digest
  <2> QED BY <1>1, <1>3, <2>1, SuspectKeeps
<1>4. CASE MayMiss /\ Suspect("residual")
  BY <1>1, <1>4, NoSuspicion, SuspectKeeps
<1> QED BY <1>2, <1>3, <1>4 DEF InspectMember

LEMMA MatchKeeps ==
  ASSUME ReadInv, Inspected \/ MatchGraph
  PROVE  ReadInv'
<1>1. CASE Inspected
  BY <1>1 DEF Inspected, Look, ReadInv, Shape, Collected, Undisturbed, Standing
<1>2. CASE MatchGraph /\ r.manifest = {r.render}
  BY <1>2 DEF MatchGraph, Look, ReadInv, Shape, Collected, Undisturbed, Standing
<1>3. CASE MatchGraph /\ r.manifest # {r.render}
  <2>1. dir' = dir /\ r.pc = "match" /\ Suspect("not_current")
    BY <1>3 DEF MatchGraph, Look
  <2>2. ~ r.steady
    BY <1>3, <2>1 DEF ReadInv, Undisturbed
  <2> QED BY <2>1, <2>2, SuspectKeeps
<1> QED BY <1>1, <1>2, <1>3

(* What passes the digest the manifest names is the loaded graph's member. *)
LEMMA MemberKeeps ==
  ASSUME ReadInv, NEW m \in Members, ReadMember(m)
  PROVE  ReadInv'
<1>1. dir' = dir /\ r.pc = "members" /\ r.manifest = {r.render}
  BY DEF ReadMember, Look, ReadInv, Collected
<1>2. ASSUME NEW v \in Renders, Bytes(m, v) \in Digest(m),
             r' = [r EXCEPT !.left = @ \ {m}, !.got[m] = Bytes(m, v)]
      PROVE  ReadInv'
  <2>1. Bytes(m, v) = Bytes(m, r.render)
    BY <1>1, <1>2 DEF Digest
  <2> DEFINE b == Bytes(m, v)
  <2>2. r' = [r EXCEPT !.left = @ \ {m}, !.got = [r.got EXCEPT ![m] = b]]
    BY <1>2 DEF ReadInv, Shape
  <2> HIDE DEF b
  <2>3. /\ DOMAIN r' = DOMAIN r /\ r'.left = r.left \ {m} /\ r'.got = [r.got EXCEPT ![m] = b]
        /\ r'.pc = r.pc /\ r'.ent = r.ent /\ r'.render = r.render /\ r'.id = r.id
        /\ r'.manifest = r.manifest /\ r'.pending = r.pending /\ r'.verdict = r.verdict
        /\ r'.steady = r.steady
    BY <2>2 DEF ReadInv, Shape
  <2>4. Shape'
    BY <2>3 DEF ReadInv, Shape
  <2>5. \A n \in Members \ r'.left : r'.got[n] = Bytes(n, r'.render)
    <3> SUFFICES ASSUME NEW n \in Members, n \notin r'.left
                 PROVE  r'.got[n] = Bytes(n, r'.render)
      OBVIOUS
    <3>1. CASE n = m
      BY <2>1, <2>3, <3>1 DEF ReadInv, Shape, b
    <3>2. CASE n # m
      BY <1>1, <2>3, <3>2 DEF ReadInv, Shape, Collected
    <3> QED BY <3>1, <3>2
  <2>6. Collected'
    BY <1>1, <2>3, <2>5 DEF ReadInv, Collected
  <2>7. Undisturbed'
    BY <1>1, <2>3 DEF ReadInv, Undisturbed, Standing
  <2> QED BY <2>4, <2>6, <2>7 DEF ReadInv
<1>3. ASSUME NEW v \in Renders, MayRead(v), Bytes(m, v) \notin Digest(m), Suspect("residual")
      PROVE  ReadInv'
  <2>1. ~ r.steady
    BY <1>1, <1>3, NoSuspicion DEF Digest
  <2> QED BY <1>1, <1>3, <2>1, SuspectKeeps
<1>4. CASE MayMiss /\ Suspect("residual")
  BY <1>1, <1>4, NoSuspicion, SuspectKeeps
<1> QED BY <1>2, <1>3, <1>4 DEF ReadMember

LEMMA AnswerKeeps ==
  ASSUME ReadInv, Served \/ Stable
  PROVE  ReadInv'
<1>1. CASE Served
  <2>1. dir' = dir /\ r.pc = "members" /\ r.left = {}
        /\ Answer(IF Identity = r.id THEN "current" ELSE "changed")
    BY <1>1 DEF Served, Look
  <2>2. r.steady => Identity = r.id
    BY <2>1 DEF ReadInv, Undisturbed, Identity, Seen
  <2>3. \A m \in Members : r.got[m] = Bytes(m, r.render)
    BY <2>1 DEF ReadInv, Collected
  <2> QED BY <2>1, <2>2, <2>3 DEF Answer, NoBytes, ReadInv, Shape, Collected, Undisturbed, Standing
<1>2. CASE Stable
  <2>1. dir' = dir /\ r.pc = "stable"
        /\ Answer(IF Identity = r.id THEN r.pending ELSE "changed")
    BY <1>2 DEF Stable, Look
  <2> QED BY <2>1 DEF Answer, NoBytes, ReadInv, Shape, Collected, Undisturbed
<1> QED BY <1>1, <1>2

LEMMA WriterKeeps ==
  ASSUME ReadInv, WriterStep
  PROVE  ReadInv'
<1> DEFINE still == r.steady /\ dir'["final"][r.ent] = dir["final"][r.ent]
<1>1. r' = [r EXCEPT !.steady = still]
  BY DEF WriterStep
<1> HIDE DEF still
<1>2. /\ DOMAIN r' = DOMAIN r /\ r'.steady = still /\ r'.pc = r.pc /\ r'.ent = r.ent
      /\ r'.render = r.render /\ r'.id = r.id /\ r'.manifest = r.manifest /\ r'.left = r.left
      /\ r'.got = r.got /\ r'.pending = r.pending /\ r'.verdict = r.verdict
  BY <1>1 DEF ReadInv, Shape
<1>3. Shape' /\ Collected'
  BY <1>2 DEF ReadInv, Shape, Collected
<1>4. Undisturbed'
  BY <1>2 DEF ReadInv, Undisturbed, Standing, still
<1> QED BY <1>3, <1>4 DEF ReadInv

LEMMA StepKeeps ==
  ASSUME ReadInv, [ReadNext]_readVars
  PROVE  ReadInv'
<1>1. CASE ReadStep
  BY <1>1, IdentifyKeeps, ManifestKeeps, InspectKeeps, MemberKeeps, MatchKeeps, AnswerKeeps
     DEF ReadStep
<1>2. CASE r' = NoRead
  BY <1>2 DEF NoRead, ReadInv, Shape, Collected, Undisturbed
<1>3. CASE UNCHANGED readVars
  BY <1>3 DEF readVars, ReadInv, Shape, Collected, Undisturbed, Standing
<1> QED BY <1>1, <1>2, <1>3, LoadKeeps, WriterKeeps DEF ReadNext

THEOREM ReadInvariant == ReadSpec => []ReadInv
<1>1. ReadInit => ReadInv
  BY Begins
<1>2. ReadInv /\ [ReadNext]_readVars => ReadInv'
  BY StepKeeps
<1> QED BY <1>1, <1>2, PTL DEF ReadSpec

(* What is served is exactly the set of the graph that was loaded, member  *)
(* by member, whatever the writer replaced, swept or removed meanwhile     *)
(* (views.py, read_current_assessment_members).  For any snapshots, sets,  *)
(* renderings and members.                                                 *)
THEOREM ServedIsLoadedGraphHolds == ReadSpec => []ServedIsLoadedGraph
<1>1. ReadInv => ServedIsLoadedGraph
  BY DEF ReadInv, Collected, ServedIsLoadedGraph
<1> QED BY <1>1, ReadInvariant, PTL

(* A read during which the export of its graph was never touched serves    *)
(* it, whatever the writer does elsewhere.                                 *)
THEOREM SteadyReadServesHolds == ReadSpec => []SteadyReadServes
<1>1. ReadInv => SteadyReadServes
  BY DEF ReadInv, Undisturbed, SteadyReadServes
<1> QED BY <1>1, ReadInvariant, PTL
=============================================================================
