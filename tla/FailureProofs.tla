----------------------------- MODULE FailureProofs -----------------------------
(***************************************************************************)
(* What TLAPS proves of commands that fail: over sound data, nothing fails *)
(* by itself.  After(shape, s) is the schema a statement leaves and        *)
(* Stages(v) the schemas of the step from v, one per statement; Rowed says *)
(* which rows each of its statements meets.  Prepared is the inductive     *)
(* invariant: what the database always offers (DbReady), what each command *)
(* has prepared for its next statement (Ready), and that a failure has an  *)
(* excuse that stays (Excused).                                            *)
(***************************************************************************)
EXTENDS OperationsProofs

(***************************************************************************)
(* What a shape lists of one table                                         *)
(***************************************************************************)

Of(shape, table) == {entry \in shape : entry[1] = table}

LEMMA OfDef ==
  ASSUME NEW table, NEW parts, NEW text
  PROVE  Of(Def(table, parts, text), table) = Def(table, parts, text)
BY DEF Of, Def

LEMMA OfOther ==
  ASSUME NEW table, NEW parts, NEW text, NEW other, other # table
  PROVE  Of(Def(table, parts, text), other) = {}
BY DEF Of, Def

LEMMA OfUnion ==
  ASSUME NEW shape, NEW defs, NEW table
  PROVE  /\ Of(shape \union defs, table) = Of(shape, table) \union Of(defs, table)
         /\ Of(defs, table) = {} => Of(shape \union defs, table) = Of(shape, table)
         /\ Of(shape, table) = {} => Of(shape \union defs, table) = Of(defs, table)
BY DEF Of

LEMMA OfSame ==
  ASSUME NEW shape, NEW defs, NEW table, NEW had, Of(shape, table) = had, Of(defs, table) = {}
  PROVE  Of(shape \union defs, table) = had
BY OfUnion

LEMMA OfNew ==
  ASSUME NEW shape, NEW defs, NEW table, NEW has, Of(shape, table) = {}, Of(defs, table) = has
  PROVE  Of(shape \union defs, table) = has
BY OfUnion

LEMMA OfWithout ==
  ASSUME NEW shape, NEW table, NEW parts, NEW other, other # table
  PROVE  Of(Without(shape, table, parts), other) = Of(shape, other)
BY DEF Of, Without

LEMMA OfRewritten ==
  ASSUME NEW shape, NEW table, NEW parts, NEW text, NEW other, other # table
  PROVE  Of(Rewritten(shape, table, parts, text), other) = Of(shape, other)
BY DEF Of, Rewritten, Without, Def

(* Rewritten where everything it has is of parts a version's DDL names.    *)
LEMMA OfRewrittenDef ==
  ASSUME NEW shape, NEW table, NEW all, NEW text, Of(shape, table) = Def(table, all, text),
         NEW parts, NEW new
  PROVE  Of(Rewritten(shape, table, parts, new), table)
           = Def(table, all \ parts, text) \union Def(table, parts, new)
<1>1. Of(Without(shape, table, parts), table) = {e \in Of(shape, table) : e[2] \notin parts}
  BY DEF Of, Without
<1>2. {e \in Def(table, all, text) : e[2] \notin parts} = Def(table, all \ parts, text)
  BY DEF Def
<1>3. Of(Rewritten(shape, table, parts, new), table)
        = Of(Without(shape, table, parts), table) \union Of(Def(table, parts, new), table)
  BY OfUnion DEF Rewritten
<1> QED BY <1>1, <1>2, <1>3, OfDef

(* A table that is rebuilt: what it had goes, the rewritten parts and the  *)
(* rest come back.                                                         *)
LEMMA RebuildsShape ==
  ASSUME NEW shape, NEW table, NEW parts, parts \subseteq Indexed, NEW text,
         \A entry \in Of(shape, table) : entry[2] \in Indexed
  PROVE  Without(shape, table, Indexed)
           \union (Def(table, parts, text) \union {entry \in Of(shape, table) : entry[2] \notin parts})
           = Rewritten(shape, table, parts, text)
BY DEF Without, Rewritten, Of

LEMMA RebuildsDef ==
  ASSUME NEW shape, NEW table, NEW all, all \subseteq Indexed, NEW old,
         Of(shape, table) = Def(table, all, old), NEW parts, parts \subseteq Indexed, NEW text
  PROVE  Without(shape, table, Indexed) \union (Def(table, parts, text) \union Def(table, all \ parts, old))
           = Rewritten(shape, table, parts, text)
<1>1. {e \in Def(table, all, old) : e[2] \notin parts} = Def(table, all \ parts, old)
  BY DEF Def
<1>2. \A entry \in Def(table, all, old) : entry[2] \in Indexed
  BY DEF Def
<1>3. Without(shape, table, Indexed)
        \union (Def(table, parts, text) \union {entry \in Of(shape, table) : entry[2] \notin parts})
        = Rewritten(shape, table, parts, text)
  BY <1>2, RebuildsShape
<1> QED BY <1>1, <1>3

(***************************************************************************)
(* The tables of every version                                             *)
(***************************************************************************)

LEMMA TablesUnion ==
  ASSUME NEW shape, NEW defs
  PROVE  TablesOf(shape \union defs) = TablesOf(shape) \union TablesOf(defs)
BY DEF TablesOf

LEMMA TablesMore ==
  ASSUME NEW shape, NEW defs, NEW some, NEW more, TablesOf(shape) = some, TablesOf(defs) = more
  PROVE  TablesOf(shape \union defs) = some \union more
BY TablesUnion

LEMMA TablesDef ==
  ASSUME NEW table, table # "schema_meta", NEW parts, NEW part \in parts, NEW text
  PROVE  TablesOf(Def(table, parts, text)) = {table}
<1>1. \A entry \in Def(table, parts, text) : entry[1] = table
  BY DEF Def
<1>2. <<table, part, text>> \in Def(table, parts, text) /\ <<table, part, text>>[1] = table
  BY DEF Def
<1> QED BY <1>1, <1>2 DEF TablesOf

LEMMA TablesRewritten ==
  ASSUME NEW shape, NEW table, table # "schema_meta", NEW parts, NEW part \in parts, NEW text
  PROVE  TablesOf(Rewritten(shape, table, parts, text)) = TablesOf(shape) \union {table}
<1>1. TablesOf(Def(table, parts, text)) = {table}
  BY TablesDef
<1>2. TablesOf(Without(shape, table, parts)) \subseteq TablesOf(shape)
  BY DEF TablesOf, Without
<1>3. TablesOf(shape) \ {table} \subseteq TablesOf(Without(shape, table, parts))
  BY DEF TablesOf, Without
<1> QED BY <1>1, <1>2, <1>3, TablesUnion DEF Rewritten

LEMMA NoneOf ==
  ASSUME NEW shape, NEW table, table # "schema_meta", table \notin TablesOf(shape)
  PROVE  Of(shape, table) = {}
BY DEF TablesOf, Of

(* Versions 4 to 7 add what they add to tables of their own.               *)
LEMMA LaterParts ==
  ASSUME NEW table
  PROVE  /\ table \notin {"gap_questions", "contradictions"} => Of(V4, table) = Of(V3, table)
         /\ table # "self_signals" => Of(V5, table) = Of(V4, table)
         /\ table \notin {"assessment_snapshots", "self_claims"} => Of(V6, table) = Of(V5, table)
         /\ table # "verification_findings" => Of(V7, table) = Of(V6, table)
<1>1. ASSUME table \notin {"gap_questions", "contradictions"} PROVE Of(V4, table) = Of(V3, table)
  <2>1. Of(Def("gap_questions", Guarded, 4), table) = {} /\ Of(Def("contradictions", Guarded, 4), table) = {}
    BY <1>1, OfOther
  <2>2. Of(Detections, table) = {}
    BY <2>1, OfUnion DEF Detections
  <2> QED BY <2>2, OfUnion DEF V4
<1>2. ASSUME table # "self_signals" PROVE Of(V5, table) = Of(V4, table)
  <2>1. Of(Signals, table) = {}
    BY <1>2, OfOther DEF Signals
  <2> QED BY <2>1, OfUnion DEF V5
<1>3. ASSUME table \notin {"assessment_snapshots", "self_claims"} PROVE Of(V6, table) = Of(V5, table)
  <2>1. Of(Snapshots, table) = {} /\ Of(Claims, table) = {}
    BY <1>3, OfOther DEF Snapshots, Claims
  <2>2. Of(V5 \union Snapshots, table) = Of(V5, table)
    BY <2>1, OfUnion
  <2> QED BY <2>1, <2>2, OfUnion DEF V6
<1>4. ASSUME table # "verification_findings" PROVE Of(V7, table) = Of(V6, table)
  <2>1. Of(Findings, table) = {}
    BY <1>4, OfOther DEF Findings
  <2> QED BY <2>1, OfUnion DEF V7
<1> QED BY <1>1, <1>2, <1>3, <1>4

T1 == {"raw_logs", "evidence_items"}
T2 == T1 \union {"processing_runs", "llm_calls"}
T3 == T2 \union {"experience_facts", "fact_sources"}
T4 == T3 \union {"gap_questions", "contradictions"}
T5 == T4 \union {"self_signals"}
T6 == T5 \union {"assessment_snapshots", "self_claims"}
T7 == T6 \union {"verification_findings"}
T9 == T7 \ {"self_signals"}
T11 == T9 \union {"job_descriptions"}
T12 == T11 \union {"resume_branches", "resume_bullets"}

LEMMA TablesListed ==
  /\ TablesOf(V1) = T1 /\ TablesOf(V2) = T2 /\ TablesOf(V3) = T3 /\ TablesOf(V4) = T4
  /\ TablesOf(V5) = T5 /\ TablesOf(V6) = T6 /\ TablesOf(V7) = T7 /\ TablesOf(V8) = T7
  /\ TablesOf(V9) = T9 /\ TablesOf(V10) = T9 /\ TablesOf(V11) = T11 /\ TablesOf(V12) = T12
<1>p. "table" \in {"table"} /\ "table" \in Guarded /\ "table" \in Indexed /\ "table" \in {"table", "update guard"}
  BY PartsAre DEF Guarded
<1>0. TablesOf(Meta) = {}
  BY DEF TablesOf, Meta, Def
<1>1. TablesOf(V1) = T1
  <2>1. /\ TablesOf(Def("raw_logs", Indexed, 1)) = {"raw_logs"}
        /\ TablesOf(Def("evidence_items", Indexed, 1)) = {"evidence_items"}
    BY <1>p, TablesDef
  <2> DEFINE logs == Def("raw_logs", Indexed, 1)
             found == Def("evidence_items", Indexed, 1)
  <2> HIDE DEF logs, found
  <2>2. TablesOf(V1) = ({} \union {"raw_logs"}) \union {"evidence_items"}
    <3>1. TablesOf(Meta \union logs) = {} \union {"raw_logs"}
      BY <1>0, <2>1, TablesMore DEF logs
    <3>2. TablesOf((Meta \union logs) \union found) = ({} \union {"raw_logs"}) \union {"evidence_items"}
      BY <2>1, <3>1, TablesMore DEF found
    <3> QED BY <3>2 DEF V1, logs, found
  <2> QED BY <2>2 DEF T1
<1>2. TablesOf(V2) = T2
  <2>1. TablesOf(Runs) = {"processing_runs"} /\ TablesOf(Calls) = {"llm_calls"}
    BY <1>p, TablesDef DEF Runs, Calls
  <2>2. TablesOf(V2) = (T1 \union {"processing_runs"}) \union {"llm_calls"}
    <3>1. TablesOf(V1 \union Runs) = T1 \union {"processing_runs"}
      BY <1>1, <2>1, TablesMore
    <3>2. TablesOf((V1 \union Runs) \union Calls) = (T1 \union {"processing_runs"}) \union {"llm_calls"}
      BY <2>1, <3>1, TablesMore
    <3> QED BY <3>2 DEF V2
  <2> QED BY <2>2 DEF T2
<1>3. TablesOf(V3) = T3
  <2>1. TablesOf(Facts) = {"experience_facts"} /\ TablesOf(Sources) = {"fact_sources"}
    BY <1>p, TablesDef DEF Facts, Sources
  <2>2. TablesOf(Rewritten(V2, "raw_logs", {"table"}, 3)) = T2
    <3>1. TablesOf(Rewritten(V2, "raw_logs", {"table"}, 3)) = TablesOf(V2) \union {"raw_logs"}
      BY <1>p, TablesRewritten
    <3> QED BY <1>2, <3>1 DEF T2, T1
  <2>3. TablesOf(V3) = (T2 \union {"experience_facts"}) \union {"fact_sources"}
    <3> DEFINE s == Rewritten(V2, "raw_logs", {"table"}, 3)
    <3> HIDE DEF s
    <3>0. TablesOf(s) = T2
      BY <2>2 DEF s
    <3>1. TablesOf(s \union Facts) = T2 \union {"experience_facts"}
      BY <2>1, <3>0, TablesMore
    <3>2. TablesOf((s \union Facts) \union Sources) = (T2 \union {"experience_facts"}) \union {"fact_sources"}
      BY <2>1, <3>1, TablesMore
    <3> QED BY <3>2 DEF V3, s
  <2> QED BY <2>3 DEF T3
<1>4. TablesOf(V4) = T4
  <2>1. TablesOf(Detections) = {"gap_questions", "contradictions"}
    <3>1. /\ TablesOf(Def("gap_questions", Guarded, 4)) = {"gap_questions"}
          /\ TablesOf(Def("contradictions", Guarded, 4)) = {"contradictions"}
      BY <1>p, TablesDef
    <3> QED BY <3>1, TablesUnion DEF Detections
  <2> QED BY <1>3, <2>1, TablesUnion DEF V4, T4
<1>5. TablesOf(V5) = T5
  <2>1. TablesOf(Signals) = {"self_signals"}
    BY <1>p, TablesDef DEF Signals
  <2> QED BY <1>4, <2>1, TablesUnion DEF V5, T5
<1>6. TablesOf(V6) = T6
  <2>1. TablesOf(Snapshots) = {"assessment_snapshots"} /\ TablesOf(Claims) = {"self_claims"}
    BY <1>p, TablesDef DEF Snapshots, Claims
  <2>2. TablesOf(V6) = (T5 \union {"assessment_snapshots"}) \union {"self_claims"}
    <3>1. TablesOf(V5 \union Snapshots) = T5 \union {"assessment_snapshots"}
      BY <1>5, <2>1, TablesMore
    <3>2. TablesOf((V5 \union Snapshots) \union Claims) = (T5 \union {"assessment_snapshots"}) \union {"self_claims"}
      BY <2>1, <3>1, TablesMore
    <3> QED BY <3>2 DEF V6
  <2> QED BY <2>2 DEF T6
<1>7. TablesOf(V7) = T7
  <2>1. TablesOf(Findings) = {"verification_findings"}
    BY <1>p, TablesDef DEF Findings
  <2> QED BY <1>6, <2>1, TablesUnion DEF V7, T7
<1>8. TablesOf(V8) = T7
  <2> DEFINE s == Rewritten(V7, "raw_logs", {"table"}, 8)
  <2>1. TablesOf(s) = T7
    BY <1>7, <1>p, TablesRewritten DEF T7, T6, T5, T4, T3, T2, T1
  <2> HIDE DEF s
  <2>2. TablesOf(Rewritten(s, "experience_facts", {"table"}, 8)) = TablesOf(s) \union {"experience_facts"}
    BY <1>p, TablesRewritten
  <2> QED BY <2>1, <2>2 DEF V8, s, T7, T6, T5, T4, T3
<1>9. TablesOf(V9) = T9
  <2>1. Of(V4, "self_signals") = {}
    BY <1>4, NoneOf DEF T4, T3, T2, T1
  <2>2. Of(V5, "self_signals") = Signals
    BY <2>1, OfUnion, OfDef DEF V5, Signals
  <2>3. Of(V7, "self_signals") = Signals
    BY <2>2, LaterParts
  <2>4. Of(V8, "self_signals") = Signals
    BY <2>3, OfRewritten DEF V8
  <2> DEFINE s == Without(V8, "self_signals", Guarded)
  <2>5. TablesOf(s) = T7 \ {"self_signals"}
    <3>1. \A entry \in Signals : entry[2] \in Guarded
      BY DEF Signals, Def
    <3>2. \A entry \in s : entry[1] # "self_signals" /\ entry \in V8
      BY <2>4, <3>1 DEF Without, Of
    <3>3. \A entry \in V8 : entry[1] # "self_signals" => entry \in s
      BY DEF Without
    <3> HIDE DEF s
    <3> QED BY <1>8, <3>2, <3>3 DEF TablesOf
  <2> HIDE DEF s
  <2>6. TablesOf(Rewritten(s, "self_claims", {"table", "update guard"}, 9)) = TablesOf(s) \union {"self_claims"}
    BY ZenonT(40), <1>p, TablesRewritten
  <2>7. "self_claims" \in T7 \ {"self_signals"}
    BY DEF T7, T6
  <2> QED BY <2>5, <2>6, <2>7 DEF V9, s, T9
<1>10. TablesOf(V10) = T9
  <2>1. "assessment_snapshots" \in T9
    BY DEF T9, T7, T6
  <2>2. TablesOf(V10) = TablesOf(V9) \union {"assessment_snapshots"}
    BY ZenonT(40), <1>p, TablesRewritten DEF V10
  <2> QED BY <1>9, <2>1, <2>2
<1>11. TablesOf(V11) = T11
  <2>1. TablesOf(Vacancies) = {"job_descriptions"}
    BY <1>p, TablesDef DEF Vacancies
  <2> QED BY <1>10, <2>1, TablesUnion DEF V11, T11
<1>12. TablesOf(V12) = T12
  <2>1. TablesOf(Branches) = {"resume_branches"} /\ TablesOf(Bullets) = {"resume_bullets"}
    BY <1>p, TablesDef DEF Branches, Bullets
  <2>2. TablesOf(V12) = (T11 \union {"resume_branches"}) \union {"resume_bullets"}
    <3>1. TablesOf(V11 \union Branches) = T11 \union {"resume_branches"}
      BY <1>11, <2>1, TablesMore
    <3>2. TablesOf((V11 \union Branches) \union Bullets) = (T11 \union {"resume_branches"}) \union {"resume_bullets"}
      BY <2>1, <3>1, TablesMore
    <3> QED BY <3>2 DEF V12
  <2> QED BY <2>2 DEF T12
<1> QED BY <1>1, <1>2, <1>3, <1>4, <1>5, <1>6, <1>7, <1>8, <1>9, <1>10, <1>11, <1>12

(* What the rebuilt and dropped tables are before their migrations.        *)
LEMMA TablesBefore ==
  /\ Of(V2, "raw_logs") = Def("raw_logs", Indexed, 1)
  /\ Of(V7, "raw_logs") = Def("raw_logs", Indexed \ {"table"}, 1) \union Def("raw_logs", {"table"}, 3)
  /\ Of(V7, "experience_facts") = Facts
  /\ Of(V8, "self_signals") = Signals /\ Of(V8, "assessment_snapshots") = Snapshots
  /\ Of(V8, "self_claims") = Claims /\ Of(V8, "verification_findings") = Findings
  /\ Of(V9, "assessment_snapshots") = Snapshots /\ Of(V9, "verification_findings") = Findings
  /\ Of(V9, "self_claims") = Def("self_claims", Indexed \ {"table", "update guard"}, 6)
                               \union Def("self_claims", {"table", "update guard"}, 9)
<1>1. Of(V2, "raw_logs") = Def("raw_logs", Indexed, 1)
  <2> DEFINE logs == Def("raw_logs", Indexed, 1)
  <2>1. /\ Of(Meta, "raw_logs") = {} /\ Of(logs, "raw_logs") = logs
        /\ Of(Def("evidence_items", Indexed, 1), "raw_logs") = {}
        /\ Of(Runs, "raw_logs") = {} /\ Of(Calls, "raw_logs") = {}
    BY OfDef, OfOther DEF Meta, Runs, Calls
  <2> HIDE DEF logs
  <2>2. Of(Meta \union logs, "raw_logs") = logs
    BY <2>1, OfNew
  <2>3. Of((Meta \union logs) \union Def("evidence_items", Indexed, 1), "raw_logs") = logs
    BY <2>1, <2>2, OfSame
  <2>4. Of(V1 \union Runs, "raw_logs") = logs
    BY <2>1, <2>3, OfSame DEF V1, logs
  <2>5. Of((V1 \union Runs) \union Calls, "raw_logs") = logs
    BY <2>1, <2>4, OfSame
  <2> QED BY <2>5 DEF V2, logs
<1>2. Of(V3, "raw_logs") = Def("raw_logs", Indexed \ {"table"}, 1) \union Def("raw_logs", {"table"}, 3)
  <2>1. Of(Rewritten(V2, "raw_logs", {"table"}, 3), "raw_logs")
          = Def("raw_logs", Indexed \ {"table"}, 1) \union Def("raw_logs", {"table"}, 3)
    BY <1>1, OfRewrittenDef
  <2>2. Of(Facts, "raw_logs") = {} /\ Of(Sources, "raw_logs") = {}
    BY OfOther DEF Facts, Sources
  <2> DEFINE s == Rewritten(V2, "raw_logs", {"table"}, 3)
             logs == Def("raw_logs", Indexed \ {"table"}, 1) \union Def("raw_logs", {"table"}, 3)
  <2>3. V3 = (s \union Facts) \union Sources
    BY DEF V3
  <2>4. Of(s, "raw_logs") = logs
    BY <2>1
  <2> HIDE DEF s, logs
  <2>5. Of(s \union Facts, "raw_logs") = logs
    BY <2>2, <2>4, OfSame
  <2>6. Of((s \union Facts) \union Sources, "raw_logs") = logs
    BY <2>2, <2>5, OfSame
  <2> QED BY <2>3, <2>6 DEF logs
<1>3. Of(V7, "raw_logs") = Of(V3, "raw_logs")
  BY LaterParts
<1>4. Of(V7, "experience_facts") = Facts
  <2>1. Of(Rewritten(V2, "raw_logs", {"table"}, 3), "experience_facts") = {}
    <3>1. Of(V2, "experience_facts") = {}
      BY TablesListed, NoneOf DEF T2, T1
    <3> QED BY <3>1, OfRewritten
  <2>2. Of(V3, "experience_facts") = Facts
    <3>1. Of(Facts, "experience_facts") = Facts /\ Of(Sources, "experience_facts") = {}
      BY OfDef, OfOther DEF Facts, Sources
    <3>2. Of(Rewritten(V2, "raw_logs", {"table"}, 3) \union Facts, "experience_facts") = Facts
      BY <2>1, <3>1, OfUnion
    <3> QED BY <3>1, <3>2, OfUnion DEF V3
  <2> QED BY <2>2, LaterParts
<1>5. Of(V7, "self_signals") = Signals
  <2>1. Of(V4, "self_signals") = {}
    BY TablesListed, NoneOf DEF T4, T3, T2, T1
  <2>2. Of(V5, "self_signals") = Signals
    BY <2>1, OfUnion, OfDef DEF V5, Signals
  <2> QED BY <2>2, LaterParts
<1>6. Of(V7, "assessment_snapshots") = Snapshots /\ Of(V7, "self_claims") = Claims
  <2>1. Of(V5, "assessment_snapshots") = {} /\ Of(V5, "self_claims") = {}
    BY TablesListed, NoneOf DEF T5, T4, T3, T2, T1
  <2>2. /\ Of(Snapshots, "assessment_snapshots") = Snapshots /\ Of(Claims, "assessment_snapshots") = {}
        /\ Of(Snapshots, "self_claims") = {} /\ Of(Claims, "self_claims") = Claims
    BY OfDef, OfOther DEF Snapshots, Claims
  <2>3. /\ Of(V5 \union Snapshots, "assessment_snapshots") = Snapshots
        /\ Of(V5 \union Snapshots, "self_claims") = {}
    BY <2>1, <2>2, OfUnion
  <2>4. Of(V6, "assessment_snapshots") = Snapshots /\ Of(V6, "self_claims") = Claims
    BY <2>2, <2>3, OfSame, OfNew DEF V6
  <2> QED BY <2>4, LaterParts
<1>7. Of(V7, "verification_findings") = Findings
  <2>1. Of(V6, "verification_findings") = {}
    BY TablesListed, NoneOf DEF T6, T5, T4, T3, T2, T1
  <2>2. Of(Findings, "verification_findings") = Findings
    BY OfDef DEF Findings
  <2> QED BY <2>1, <2>2, OfUnion DEF V7
<1>8. ASSUME NEW table, table # "raw_logs", table # "experience_facts"
      PROVE  Of(V8, table) = Of(V7, table)
  BY <1>8, OfRewritten DEF V8
<1>9. ASSUME NEW table, table # "self_signals", table # "self_claims"
      PROVE  Of(V9, table) = Of(V8, table)
  <2> DEFINE s == Without(V8, "self_signals", Guarded)
  <2>1. Of(s, table) = Of(V8, table)
    BY <1>9, OfWithout
  <2> HIDE DEF s
  <2>2. Of(Rewritten(s, "self_claims", {"table", "update guard"}, 9), table) = Of(s, table)
    <3> DEFINE parts == {"table", "update guard"}
    <3> HIDE DEF parts
    <3>1. Of(Rewritten(s, "self_claims", parts, 9), table) = Of(s, table)
      BY <1>9, OfRewritten
    <3> QED BY <3>1 DEF parts
  <2> QED BY <2>1, <2>2 DEF V9, s
<1>10. Of(V9, "self_claims") = Def("self_claims", Indexed \ {"table", "update guard"}, 6)
                                 \union Def("self_claims", {"table", "update guard"}, 9)
  <2> DEFINE s == Without(V8, "self_signals", Guarded)
  <2>1. Of(s, "self_claims") = Def("self_claims", Indexed, 6)
    BY <1>6, <1>8, OfWithout DEF Claims
  <2> HIDE DEF s
  <2> DEFINE parts == {"table", "update guard"}
  <2> HIDE DEF parts
  <2>2. Of(Rewritten(s, "self_claims", parts, 9), "self_claims")
          = Def("self_claims", Indexed \ parts, 6) \union Def("self_claims", parts, 9)
    BY <2>1, OfRewrittenDef
  <2> QED BY <2>2 DEF V9, s, parts
<1> QED BY <1>1, <1>2, <1>3, <1>4, <1>5, <1>6, <1>7, <1>8, <1>9, <1>10


LEMMA DefOf ==
  ASSUME NEW table, NEW parts, NEW text
  PROVE  \A entry \in Def(table, parts, text) : entry[1] = table /\ entry[2] \in parts
BY DEF Def

(***************************************************************************)
(* What a statement makes of the shape                                     *)
(***************************************************************************)

After(shape, s) ==
  CASE s.op = "create" -> shape \union s.defs
    [] s.op = "delete" -> shape
    [] s.op = "drop trigger" -> Without(shape, s.table, s.parts)
    [] s.op \in {"drop", "rebuild"} -> Without(shape, s.table, s.parts) \union s.defs

Follow(d, s, next) ==
  next.blank = d.blank /\ next.unreadable = d.unreadable /\ next.shape = After(d.shape, s)

LEMMA RemovedKeeps ==
  ASSUME NEW d \in Database, NEW table, NEW ks, NEW fk
  PROVE  /\ RemoveRows(d, table, ks, fk).blank = d.blank
         /\ RemoveRows(d, table, ks, fk).unreadable = d.unreadable
         /\ RemoveRows(d, table, ks, fk).shape = d.shape
         /\ RemoveRows(d, table, ks, fk).sound = d.sound
<1> DEFINE rows == [t \in Tables |-> IF t \in Touched(table, fk) THEN d.rows[t] \ ks ELSE d.rows[t]]
<1>1. RemoveRows(d, table, ks, fk) = [d EXCEPT !.rows = rows]
  BY DEF RemoveRows, Touched
<1> HIDE DEF rows
<1> QED BY <1>1, DatabaseIs

(* A statement on a sound database fails only when it is refused.          *)
LEMMA ExecuteLeaves ==
  ASSUME NEW d \in Database, d.sound = TRUE, NEW s, StatementOK(s), NEW fk, NEW owner,
         NEW next, next = Execute(d, s, fk, owner)
  PROVE  /\ next.sound = TRUE => Follow(d, s, next)
         /\ s.op \in {"create", "drop trigger"} => next.sound = TRUE
         /\ s.op = "delete" /\ ~ Refused(d, s.table, s.rows, fk, owner, TRUE) => next.sound = TRUE
         /\ s.op \in {"drop", "rebuild"} /\ ~ Refused(d, s.table, Keys, fk, owner, FALSE) => next.sound = TRUE
<1>0. Fail(d).sound = FALSE
  BY DatabaseIs DEF Fail
<1>1. CASE s.op = "create"
  <2>1. next = [d EXCEPT !.shape = @ \union s.defs]
    BY <1>1 DEF Execute
  <2>2. next.sound = TRUE /\ next.blank = d.blank /\ next.unreadable = d.unreadable
        /\ next.shape = d.shape \union s.defs
    BY <2>1, DatabaseIs
  <2> QED BY <1>1, <2>2 DEF Follow, After
<1>2. CASE s.op = "drop trigger"
  <2> DEFINE shape == Without(d.shape, s.table, s.parts)
  <2>1. next = [d EXCEPT !.shape = shape]
    BY <1>2 DEF Execute
  <2> HIDE DEF shape
  <2>2. next.sound = TRUE /\ next.blank = d.blank /\ next.unreadable = d.unreadable
        /\ next.shape = shape
    BY <2>1, DatabaseIs
  <2> QED BY <1>2, <2>2 DEF Follow, After, shape
<1>3. CASE s.op = "delete"
  <2> DEFINE refused == Refused(d, s.table, s.rows, fk, owner, TRUE)
             removed == RemoveRows(d, s.table, s.rows, fk)
             ks == s.rows
  <2>1. next = IF refused THEN Fail(d) ELSE removed
    BY <1>3 DEF Execute
  <2>2. /\ removed.blank = d.blank /\ removed.unreadable = d.unreadable
        /\ removed.shape = d.shape /\ removed.sound = d.sound
    <3>1. /\ RemoveRows(d, s.table, ks, fk).blank = d.blank
          /\ RemoveRows(d, s.table, ks, fk).unreadable = d.unreadable
          /\ RemoveRows(d, s.table, ks, fk).shape = d.shape
          /\ RemoveRows(d, s.table, ks, fk).sound = d.sound
      <4>1. d \in Database
        OBVIOUS
      <4> QED BY ONLY <4>1, RemovedKeeps
    <3> QED BY <3>1
  <2>3. After(d.shape, s) = d.shape
    BY <1>3 DEF After
  <2> HIDE DEF refused, removed
  <2>4. next.sound = TRUE => next = removed
    BY <1>0, <2>1
  <2>5. ~ refused => next.sound = TRUE
    BY <2>1, <2>2
  <2> QED BY <1>3, <2>2, <2>3, <2>4, <2>5 DEF Follow, refused
<1>4. CASE s.op \in {"drop", "rebuild"}
  <2> DEFINE refused == Refused(d, s.table, Keys, fk, owner, FALSE)
             removed == RemoveRows(d, s.table, Keys, fk)
             kept == IF s.op = "rebuild" THEN s.rows ELSE {}
             shape == Without(d.shape, s.table, s.parts) \union s.defs
             rows == [removed.rows EXCEPT ![s.table] = kept]
             rebuilt == [removed EXCEPT !.shape = shape, !.rows = rows]
  <2>1. next = IF refused THEN Fail(d)
               ELSE [removed EXCEPT !.shape = Without(@, s.table, s.parts) \union s.defs,
                                    !.rows[s.table] = kept]
    BY <1>4 DEF Execute
  <2>2. /\ removed.blank = d.blank /\ removed.unreadable = d.unreadable
        /\ removed.shape = d.shape /\ removed.sound = d.sound /\ removed \in Database
    <3>1. d \in Database
      OBVIOUS
    <3> QED BY ONLY <3>1, RemovedKeeps, RemovedTyped
  <2> HIDE DEF removed
  <2>3. [removed EXCEPT !.shape = Without(@, s.table, s.parts) \union s.defs, !.rows[s.table] = kept] = rebuilt
    <3> HIDE DEF kept
    <3> QED BY <2>2, DatabaseIs
  <2>4. After(d.shape, s) = shape
    BY <1>4 DEF After
  <2> HIDE DEF refused, shape, rows
  <2>5. /\ rebuilt.blank = d.blank /\ rebuilt.unreadable = d.unreadable /\ rebuilt.shape = shape
        /\ rebuilt.sound = TRUE
    BY <2>2, DatabaseIs
  <2> HIDE DEF rebuilt
  <2>6. next = IF refused THEN Fail(d) ELSE rebuilt
    BY <2>1, <2>3
  <2>7. (next.sound = TRUE => next = rebuilt) /\ (~ refused => next.sound = TRUE)
    BY <1>0, <2>5, <2>6
  <2> QED BY <1>4, <2>4, <2>5, <2>7 DEF Follow, refused
<1> QED BY <1>1, <1>2, <1>3, <1>4 DEF StatementOK, Ops

(***************************************************************************)
(* The shapes a migration passes through: before each statement of a step, *)
(* and after its last                                                      *)
(***************************************************************************)

ViewStages ==
  LET s2 == Without(V9, "verification_findings", {"delete guard"})
      s3 == Without(s2, "self_claims", {"delete guard"})
  IN  <<V9, s2, s3, s3, s3, V9, V10>>

Stages(v) ==
  CASE v = 2 -> <<V2, V2 \union (Facts \union Sources), V3>>
    [] v = 7 -> <<V7, Rewritten(V7, "raw_logs", {"table"}, 8), V8>>
    [] v = 8 -> LET s2 == Without(V8, "verification_findings", Indexed)
                    s3 == Without(s2, "self_claims", Indexed)
                    s4 == Without(s3, "assessment_snapshots", Indexed)
                IN  <<V8, s2, s3, s4, Without(s4, "self_signals", Indexed), V9>>
    [] v = 9 -> ViewStages
    [] v = 12 -> <<V12>>
    [] OTHER -> <<SchemaSQL[v], SchemaSQL[v + 1]>>

Advances(d, v, i) ==
  LET s == Statements(d, v)[i]
  IN  /\ s.parts \subseteq Indexed
      /\ i + 1 \in 1 .. Len(Stages(v)) /\ After(Stages(v)[i], s) = Stages(v)[i + 1]
      /\ s.op = "delete" => \A entry \in Stages(v)[i] : entry[1] = s.table => entry[2] # "delete guard"

LEMMA CreateAfter ==
  ASSUME NEW defs, NEW shape
  PROVE  /\ After(shape, Create(defs)) = shape \union defs /\ Create(defs).parts = {}
         /\ Create(defs).op = "create"
BY DEF After, Create

LEMMA DropAfter ==
  ASSUME NEW table, NEW shape
  PROVE  /\ After(shape, Drop(table)) = Without(shape, table, Indexed) /\ Drop(table).parts = Indexed
         /\ Drop(table).op = "drop"
BY DEF After, Drop

LEMMA DropTriggerAfter ==
  ASSUME NEW table, NEW parts, NEW shape
  PROVE  /\ After(shape, DropTrigger(table, parts)) = Without(shape, table, parts)
         /\ DropTrigger(table, parts).parts = parts /\ DropTrigger(table, parts).op = "drop trigger"
BY DEF After, DropTrigger

LEMMA RebuildAfter ==
  ASSUME NEW table, NEW kept, NEW defs, NEW shape
  PROVE  /\ After(shape, Rebuild(table, kept, defs)) = Without(shape, table, Indexed) \union defs
         /\ Rebuild(table, kept, defs).parts = Indexed /\ Rebuild(table, kept, defs).op = "rebuild"
BY DEF After, Rebuild

(* The steps of one statement create what the next version adds.           *)
LEMMA CreatingAdvances ==
  ASSUME NEW d, NEW v \in {1, 3, 4, 5, 6, 10, 11}
  PROVE  /\ Len(Statements(d, v)) = 1 /\ Stages(v) = <<SchemaSQL[v], SchemaSQL[v + 1]>>
         /\ Advances(d, v, 1)
<1>1. \E defs : Statements(d, v) = <<Create(defs)>> /\ SchemaSQL[v + 1] = SchemaSQL[v] \union defs
  <2>1. CASE v = 1
    <3>1. V2 = V1 \union (Runs \union Calls)
      BY DEF V2
    <3> QED BY <2>1, <3>1, VersionsAre DEF Statements, To2
  <2>2. CASE v = 3
    BY <2>2, VersionsAre DEF Statements, To4, V4
  <2>3. CASE v = 4
    BY <2>3, VersionsAre DEF Statements, To5, V5
  <2>4. CASE v = 5
    <3>1. V6 = V5 \union (Snapshots \union Claims)
      BY DEF V6
    <3> QED BY <2>4, <3>1, VersionsAre DEF Statements, To6
  <2>5. CASE v = 6
    BY <2>5, VersionsAre DEF Statements, To7, V7
  <2>6. CASE v = 10
    BY <2>6, VersionsAre DEF Statements, To11, V11
  <2>7. CASE v = 11
    <3>1. V12 = V11 \union (Branches \union Bullets)
      BY DEF V12
    <3> QED BY <2>7, <3>1, VersionsAre DEF Statements, To12
  <2> QED BY <2>1, <2>2, <2>3, <2>4, <2>5, <2>6, <2>7
<1>2. PICK defs : Statements(d, v) = <<Create(defs)>> /\ SchemaSQL[v + 1] = SchemaSQL[v] \union defs
  BY <1>1
<1> DEFINE s == Create(defs)
           shape == SchemaSQL[v]
           then == SchemaSQL[v + 1]
<1>3. Stages(v) = <<shape, then>>
  <2>1. v # 2 /\ v # 7 /\ v # 8 /\ v # 9 /\ v # 12
    OBVIOUS
  <2> HIDE DEF shape, then
  <2>2. Stages(v) = <<SchemaSQL[v], SchemaSQL[v + 1]>>
    BY ONLY <2>1 DEF Stages
  <2> QED BY <2>2 DEF shape, then
<1>4. After(shape, s) = then /\ s.parts = {} /\ s.op = "create"
  BY <1>2, CreateAfter
<1>5. Statements(d, v) = <<s>>
  BY <1>2
<1> HIDE DEF s, shape, then
<1>6. /\ Statements(d, v)[1] = s /\ Stages(v)[1] = shape /\ Stages(v)[2] = then
      /\ Len(Stages(v)) = 2 /\ Len(Statements(d, v)) = 1
  BY <1>3, <1>5
<1>7. 2 \in 1 .. 2 /\ 1 + 1 = 2
  OBVIOUS
<1>8. Advances(d, v, 1)
  BY <1>4, <1>6, <1>7 DEF Advances
<1> QED BY <1>3, <1>6, <1>8 DEF shape, then

(* 2 -> 3, 7 -> 8: the rebuilt tables are as the version listed them.      *)
LEMMA LogsAdvance ==
  ASSUME NEW d
  PROVE  /\ Len(Statements(d, 2)) = 2 /\ Len(Stages(2)) = 3 /\ Stages(2)[1] = V2 /\ Stages(2)[3] = V3
         /\ \A i \in 1 .. 2 : Advances(d, 2, i)
<1> DEFINE parts == {"table"}
           defs == Def("raw_logs", {"table"}, 3) \union Def("raw_logs", Indexed \ {"table"}, 1)
           more == Facts \union Sources
           shape == V2 \union more
           s1 == Create(more)
           s2 == Rebuild("raw_logs", d.rows["raw_logs"], defs)
<1>1. Statements(d, 2) = <<s1, s2>>
  BY DEF Statements, To3
<1>2. Stages(2) = <<V2, shape, V3>>
  BY DEF Stages
<1>3. After(V2, s1) = shape /\ s1.parts = {} /\ s1.op = "create"
  BY CreateAfter
<1>4. /\ After(shape, s2) = Without(shape, "raw_logs", Indexed) \union defs
      /\ s2.parts = Indexed /\ s2.op = "rebuild"
  <2> DEFINE kept == d.rows["raw_logs"]
  <2> HIDE DEF shape, defs, kept
  <2> QED BY RebuildAfter DEF kept
<1>5. Without(shape, "raw_logs", Indexed) \union defs = V3
  <2>1. Without(V2, "raw_logs", Indexed) \union (Def("raw_logs", parts, 3) \union Def("raw_logs", Indexed \ parts, 1))
          = Rewritten(V2, "raw_logs", parts, 3)
    <3> DEFINE table == "raw_logs"
               old == V2
               all == Indexed
               was == 1
               new == 3
    <3>1. Of(old, table) = Def(table, all, was) /\ all \subseteq Indexed
      BY TablesBefore
    <3>2. parts \subseteq Indexed
      BY PartsAre
    <3> HIDE DEF parts, table, old, all, was, new
    <3>3. Without(old, table, Indexed) \union (Def(table, parts, new) \union Def(table, all \ parts, was))
            = Rewritten(old, table, parts, new)
      BY ONLY <3>1, <3>2, RebuildsDef
    <3> QED BY <3>3 DEF table, old, all, was, new
  <2>2. Without(shape, "raw_logs", Indexed) = Without(V2, "raw_logs", Indexed) \union more
    <3>1. \A entry \in more : entry[1] # "raw_logs"
      BY DEF Facts, Sources, Def
    <3> HIDE DEF more
    <3> QED BY <3>1 DEF Without
  <2>3. V3 = Rewritten(V2, "raw_logs", parts, 3) \union more
    BY DEF V3
  <2> HIDE DEF shape, more
  <2> QED BY <2>1, <2>2, <2>3
<1> HIDE DEF s1, s2, shape, defs
<1>6. /\ Statements(d, 2)[1] = s1 /\ Statements(d, 2)[2] = s2 /\ Len(Statements(d, 2)) = 2
      /\ Stages(2)[1] = V2 /\ Stages(2)[2] = shape /\ Stages(2)[3] = V3 /\ Len(Stages(2)) = 3
  BY <1>1, <1>2
<1>7. 1 + 1 = 2 /\ 2 + 1 = 3 /\ 2 \in 1 .. 3 /\ 3 \in 1 .. 3
  OBVIOUS
<1>8. Advances(d, 2, 1)
  BY <1>3, <1>6, <1>7 DEF Advances
<1>9. Advances(d, 2, 2)
  BY <1>4, <1>5, <1>6, <1>7 DEF Advances
<1>10. \A i \in 1 .. 2 : i = 1 \/ i = 2
  OBVIOUS
<1> QED BY <1>6, <1>8, <1>9, <1>10

LEMMA FactsAdvance ==
  ASSUME NEW d
  PROVE  /\ Len(Statements(d, 7)) = 2 /\ Len(Stages(7)) = 3 /\ Stages(7)[1] = V7 /\ Stages(7)[3] = V8
         /\ \A i \in 1 .. 2 : Advances(d, 7, i)
<1> DEFINE parts == {"table"}
           defs == Def("raw_logs", {"table"}, 8) \union Def("raw_logs", Indexed \ {"table"}, 1)
           more == Def("experience_facts", {"table"}, 8) \union Def("experience_facts", Guards, 3)
           shape == Rewritten(V7, "raw_logs", {"table"}, 8)
           s1 == Rebuild("raw_logs", d.rows["raw_logs"], defs)
           s2 == Rebuild("experience_facts", d.rows["experience_facts"], more)
<1>1. Statements(d, 7) = <<s1, s2>>
  BY DEF Statements, To8
<1>2. Stages(7) = <<V7, shape, V8>>
  BY DEF Stages
<1>3. /\ After(V7, s1) = Without(V7, "raw_logs", Indexed) \union defs
      /\ s1.parts = Indexed /\ s1.op = "rebuild"
  <2> HIDE DEF defs
  <2> QED BY RebuildAfter
<1>4. /\ After(shape, s2) = Without(shape, "experience_facts", Indexed) \union more
      /\ s2.parts = Indexed /\ s2.op = "rebuild"
  <2> HIDE DEF shape, more
  <2> QED BY RebuildAfter
<1>5. Without(V7, "raw_logs", Indexed) \union defs = shape
  <2> DEFINE rest == {entry \in Of(V7, "raw_logs") : entry[2] \notin parts}
  <2>1. Of(V7, "raw_logs") = Def("raw_logs", Indexed \ {"table"}, 1) \union Def("raw_logs", {"table"}, 3)
    BY TablesBefore
  <2>2. \A entry \in Of(V7, "raw_logs") : entry[2] \in Indexed
    <3> DEFINE some == Indexed \ {"table"}
               one == {"table"}
    <3>1. some \subseteq Indexed /\ one \subseteq Indexed
      BY PartsAre
    <3>2. Of(V7, "raw_logs") = Def("raw_logs", some, 1) \union Def("raw_logs", one, 3)
      BY <2>1
    <3> HIDE DEF some, one
    <3>3. (\A entry \in Def("raw_logs", some, 1) : entry[2] \in some)
          /\ (\A entry \in Def("raw_logs", one, 3) : entry[2] \in one)
      BY DefOf
    <3> QED BY <3>1, <3>2, <3>3
  <2>3. rest = Def("raw_logs", Indexed \ {"table"}, 1)
    BY <2>1 DEF Def
  <2>4. parts \subseteq Indexed
    BY PartsAre
  <2> HIDE DEF parts
  <2>5. Without(V7, "raw_logs", Indexed) \union (Def("raw_logs", parts, 8) \union rest)
          = Rewritten(V7, "raw_logs", parts, 8)
    BY <2>2, <2>4, RebuildsShape
  <2> QED BY <2>3, <2>5 DEF parts
<1>6. Without(shape, "experience_facts", Indexed) \union more = V8
  <2> DEFINE table == "experience_facts"
             all == Guarded
             was == 3
             new == 8
             old == shape
  <2>1. Of(shape, table) = Def(table, all, was)
    <3>1. Of(shape, table) = Of(V7, table)
      BY OfRewritten
    <3> HIDE DEF shape
    <3> QED BY <3>1, TablesBefore DEF Facts
  <2>2. Guarded \ parts = Guards
    BY DEF Guarded, Guards
  <2>3. parts \subseteq Indexed /\ all \subseteq Indexed
    BY PartsAre
  <2>4. Of(old, table) = Def(table, all, was)
    BY <2>1
  <2> HIDE DEF parts, old, table, all, was, new
  <2>5. Without(old, table, Indexed) \union (Def(table, parts, new) \union Def(table, all \ parts, was))
          = Rewritten(old, table, parts, new)
    BY ONLY <2>3, <2>4, RebuildsDef
  <2> QED BY <2>2, <2>5 DEF V8, old, shape, parts, table, all, was, new
<1> HIDE DEF s1, s2, shape, defs, more
<1>7. /\ Statements(d, 7)[1] = s1 /\ Statements(d, 7)[2] = s2 /\ Len(Statements(d, 7)) = 2
      /\ Stages(7)[1] = V7 /\ Stages(7)[2] = shape /\ Stages(7)[3] = V8 /\ Len(Stages(7)) = 3
  BY <1>1, <1>2
<1>8. 1 + 1 = 2 /\ 2 + 1 = 3 /\ 2 \in 1 .. 3 /\ 3 \in 1 .. 3
  OBVIOUS
<1>9. Advances(d, 7, 1)
  BY <1>3, <1>5, <1>7, <1>8 DEF Advances
<1>10. Advances(d, 7, 2)
  BY <1>4, <1>6, <1>7, <1>8 DEF Advances
<1>11. \A i \in 1 .. 2 : i = 1 \/ i = 2
  OBVIOUS
<1> QED BY <1>7, <1>9, <1>10, <1>11

(* 8 -> 9: the four tables go, three come back.                            *)
LEMMA SignalsAdvance ==
  ASSUME NEW d
  PROVE  /\ Len(Statements(d, 8)) = 5 /\ Len(Stages(8)) = 6 /\ Stages(8)[1] = V8 /\ Stages(8)[6] = V9
         /\ \A i \in 1 .. 5 : Advances(d, 8, i)
<1> DEFINE defs == Snapshots \union Findings \union Def("self_claims", {"table", "update guard"}, 9)
                     \union Def("self_claims", {"index", "delete guard"}, 6)
           g2 == Without(V8, "verification_findings", Indexed)
           g3 == Without(g2, "self_claims", Indexed)
           g4 == Without(g3, "assessment_snapshots", Indexed)
           g5 == Without(g4, "self_signals", Indexed)
           s1 == Drop("verification_findings")
           s2 == Drop("self_claims")
           s3 == Drop("assessment_snapshots")
           s4 == Drop("self_signals")
           s5 == Create(defs)
<1>1. Statements(d, 8) = <<s1, s2, s3, s4, s5>>
  <2>1. Statements(d, 8) = To9
    BY DEF Statements
  <2> QED BY <2>1 DEF To9
<1>2. Stages(8) = <<V8, g2, g3, g4, g5, V9>>
  BY DEF Stages
<1>3. /\ After(V8, s1) = g2 /\ After(g2, s2) = g3 /\ After(g3, s3) = g4 /\ After(g4, s4) = g5
      /\ s1.parts = Indexed /\ s2.parts = Indexed /\ s3.parts = Indexed /\ s4.parts = Indexed
      /\ s1.op = "drop" /\ s2.op = "drop" /\ s3.op = "drop" /\ s4.op = "drop"
  BY DropAfter
<1>4. After(g5, s5) = g5 \union defs /\ s5.parts = {} /\ s5.op = "create"
  BY CreateAfter
<1>5. g5 \union defs = V9
  <2> DEFINE four == {"verification_findings", "self_claims", "assessment_snapshots", "self_signals"}
             kept == {entry \in V8 : entry[1] \notin four}
             parts == {"table", "update guard"}
             rest == {"index", "delete guard"}
  <2>0. /\ \A entry \in V8 : entry[1] = "self_signals" => entry \in Signals
        /\ \A entry \in V8 : entry[1] = "assessment_snapshots" => entry \in Snapshots
        /\ \A entry \in V8 : entry[1] = "self_claims" => entry \in Claims
        /\ \A entry \in V8 : entry[1] = "verification_findings" => entry \in Findings
        /\ Snapshots \subseteq V8 /\ Findings \subseteq V8 /\ Claims \subseteq V8
    BY TablesBefore DEF Of
  <2>1. /\ \A entry \in Snapshots : entry[1] = "assessment_snapshots" /\ entry[2] \in Indexed
        /\ \A entry \in Findings : entry[1] = "verification_findings" /\ entry[2] \in Indexed
        /\ \A entry \in Claims : entry[1] = "self_claims" /\ entry[2] \in Indexed
        /\ \A entry \in Signals : entry[1] = "self_signals" /\ entry[2] \in Guarded /\ entry[2] \in Indexed
    <3>1. \A entry \in Snapshots : entry[1] = "assessment_snapshots" /\ entry[2] \in Guarded
      BY DefOf DEF Snapshots
    <3>2. \A entry \in Findings : entry[1] = "verification_findings" /\ entry[2] \in Indexed
      BY DefOf DEF Findings
    <3>3. \A entry \in Claims : entry[1] = "self_claims" /\ entry[2] \in Indexed
      BY DefOf DEF Claims
    <3>4. \A entry \in Signals : entry[1] = "self_signals" /\ entry[2] \in Guarded
      BY DefOf DEF Signals
    <3> QED BY <3>1, <3>2, <3>3, <3>4, PartsAre
  <2>2. g5 = kept
    <3>1. \A entry \in V8 : entry[1] \in four => entry[2] \in Indexed
      BY <2>0, <2>1
    <3> QED BY <3>1 DEF Without
  <2>3. Claims = Def("self_claims", parts, 6) \union Def("self_claims", rest, 6)
    <3>1. Indexed = parts \union rest
      BY DEF Indexed, Guarded, Guards
    <3> QED BY <3>1 DEF Claims, Def
  <2>4. parts \intersect rest = {}
    OBVIOUS
  <2>5. Rewritten(Without(V8, "self_signals", Guarded), "self_claims", parts, 9)
          = kept \union (Snapshots \union Findings \union Def("self_claims", parts, 9) \union Def("self_claims", rest, 6))
    <3> DEFINE left == Without(Without(V8, "self_signals", Guarded), "self_claims", parts)
    <3>1. ASSUME NEW entry \in left
          PROVE  entry \in kept \/ entry \in Snapshots \/ entry \in Findings \/ entry \in Def("self_claims", rest, 6)
      <4>1. /\ entry \in V8 /\ ~ (entry[1] = "self_signals" /\ entry[2] \in Guarded)
            /\ ~ (entry[1] = "self_claims" /\ entry[2] \in parts)
        BY <3>1 DEF Without
      <4>2. CASE entry[1] = "self_claims"
        <5>1. entry \notin Def("self_claims", parts, 6)
          BY ZenonT(40), <4>1, <4>2, DefOf
        <5> QED BY <2>0, <2>3, <4>1, <4>2, <5>1
      <4> HIDE DEF parts
      <4> QED BY <2>0, <2>1, <4>1, <4>2
    <3>2. kept \subseteq left
      BY DEF Without
    <3>3. Snapshots \subseteq left /\ Findings \subseteq left
      BY <2>0, <2>1 DEF Without
    <3>4. Def("self_claims", rest, 6) \subseteq left
      <4>1. \A entry \in Def("self_claims", rest, 6) : entry[1] = "self_claims" /\ entry[2] \in rest /\ entry \in V8
        <5>1. Def("self_claims", rest, 6) \subseteq V8
          BY <2>0, <2>3
        <5> DEFINE left6 == Def("self_claims", rest, 6)
        <5>2. \A entry \in left6 : entry[1] = "self_claims" /\ entry[2] \in rest
          <6> HIDE DEF rest
          <6> QED BY DefOf
        <5> QED BY <5>1, <5>2
      <4> QED BY <2>4, <4>1 DEF Without
    <3> HIDE DEF left, kept, parts, rest
    <3>5. left = kept \union Snapshots \union Findings \union Def("self_claims", rest, 6)
      BY <3>1, <3>2, <3>3, <3>4
    <3>6. Rewritten(Without(V8, "self_signals", Guarded), "self_claims", parts, 9)
            = left \union Def("self_claims", parts, 9)
      BY DEF Rewritten, left
    <3> QED BY <3>5, <3>6
  <2> HIDE DEF g5, kept
  <2> QED BY <2>2, <2>5 DEF V9
<1> HIDE DEF s1, s2, s3, s4, s5, g2, g3, g4, g5, defs
<1>6. /\ Statements(d, 8)[1] = s1 /\ Statements(d, 8)[2] = s2 /\ Statements(d, 8)[3] = s3
      /\ Statements(d, 8)[4] = s4 /\ Statements(d, 8)[5] = s5 /\ Len(Statements(d, 8)) = 5
  BY <1>1
<1>7. /\ Stages(8)[1] = V8 /\ Stages(8)[2] = g2 /\ Stages(8)[3] = g3
      /\ Stages(8)[4] = g4 /\ Stages(8)[5] = g5 /\ Stages(8)[6] = V9 /\ Len(Stages(8)) = 6
  BY <1>2
<1>8. /\ 1 + 1 = 2 /\ 2 + 1 = 3 /\ 3 + 1 = 4 /\ 4 + 1 = 5 /\ 5 + 1 = 6
      /\ 2 \in 1 .. 6 /\ 3 \in 1 .. 6 /\ 4 \in 1 .. 6 /\ 5 \in 1 .. 6 /\ 6 \in 1 .. 6
  OBVIOUS
<1>9. Advances(d, 8, 1)
  BY <1>3, <1>6, <1>7, <1>8 DEF Advances
<1>10. Advances(d, 8, 2)
  BY <1>3, <1>6, <1>7, <1>8 DEF Advances
<1>11. Advances(d, 8, 3)
  BY <1>3, <1>6, <1>7, <1>8 DEF Advances
<1>12. Advances(d, 8, 4)
  BY <1>3, <1>6, <1>7, <1>8 DEF Advances
<1>13. Advances(d, 8, 5)
  BY <1>4, <1>5, <1>6, <1>7, <1>8 DEF Advances
<1>14. \A i \in 1 .. 5 : i \in {1, 2, 3, 4, 5}
  OBVIOUS
<1> QED BY <1>6, <1>7, <1>9, <1>10, <1>11, <1>12, <1>13, <1>14

(* 9 -> 10: two delete guards stand aside and come back.                   *)
LEMMA ViewsAdvance ==
  ASSUME NEW d
  PROVE  /\ Len(Statements(d, 9)) = 6 /\ Len(Stages(9)) = 7 /\ Stages(9)[1] = V9 /\ Stages(9)[7] = V10
         /\ \A i \in 1 .. 6 : Advances(d, 9, i)
<1> DEFINE views == d.scoped \intersect d.rows["assessment_snapshots"]
           guards == Def("verification_findings", {"delete guard"}, 7)
                       \union Def("self_claims", {"delete guard"}, 6)
           defs == Def("assessment_snapshots", {"table", "update guard"}, 10)
                     \union Def("assessment_snapshots", {"delete guard"}, 6)
           found == views \intersect d.rows["self_claims"]
           kept == d.rows["assessment_snapshots"] \ views
           s1 == DropTrigger("verification_findings", {"delete guard"})
           s2 == DropTrigger("self_claims", {"delete guard"})
           s3 == DeleteFrom("verification_findings", found)
           s4 == DeleteFrom("self_claims", views)
           s5 == Create(guards)
           s6 == Rebuild("assessment_snapshots", kept, defs)
           g2 == Without(V9, "verification_findings", {"delete guard"})
           g3 == Without(g2, "self_claims", {"delete guard"})
<1>1. Statements(d, 9) = <<s1, s2, s3, s4, s5, s6>>
  <2>1. Statements(d, 9) = To10(d)
    BY DEF Statements
  <2> QED BY <2>1 DEF To10
<1>2. Stages(9) = <<V9, g2, g3, g3, g3, V9, V10>>
  <2>1. Stages(9) = ViewStages
    BY DEF Stages
  <2> QED BY <2>1 DEF ViewStages
<1>3. /\ After(V9, s1) = g2 /\ After(g2, s2) = g3
      /\ s1.parts = {"delete guard"} /\ s2.parts = {"delete guard"}
      /\ s1.op = "drop trigger" /\ s2.op = "drop trigger"
  <2> DEFINE parts == {"delete guard"}
             t1 == DropTrigger("verification_findings", parts)
             t2 == DropTrigger("self_claims", parts)
  <2> HIDE DEF parts
  <2>1. After(V9, t1) = Without(V9, "verification_findings", parts) /\ t1.parts = parts /\ t1.op = "drop trigger"
    BY DropTriggerAfter
  <2>2. After(g2, t2) = Without(g2, "self_claims", parts) /\ t2.parts = parts /\ t2.op = "drop trigger"
    <3> HIDE DEF g2
    <3> QED BY DropTriggerAfter
  <2> QED BY <2>1, <2>2 DEF parts
<1>4. /\ After(g3, s3) = g3 /\ After(g3, s4) = g3 /\ s3.parts = {} /\ s4.parts = {}
      /\ s3.table = "verification_findings" /\ s4.table = "self_claims"
  <2> HIDE DEF views, found, g3
  <2>1. After(g3, s3) = g3 /\ s3.parts = {} /\ s3.table = "verification_findings"
    BY DEF DeleteFrom, After
  <2>2. After(g3, s4) = g3 /\ s4.parts = {} /\ s4.table = "self_claims"
    BY DEF DeleteFrom, After
  <2> QED BY <2>1, <2>2
<1>5. \A entry \in g3 : entry[1] \in {"verification_findings", "self_claims"} => entry[2] # "delete guard"
  BY DEF Without
<1>6. After(g3, s5) = g3 \union guards /\ s5.parts = {} /\ s5.op = "create"
  BY CreateAfter
<1>7. g3 \union guards = V9
  <2>1. \A entry \in V9 : entry[1] = "verification_findings" => entry \in Findings
    BY TablesBefore DEF Of
  <2>2. Findings \subseteq V9
    BY TablesBefore DEF Of
  <2>3. <<"verification_findings", "delete guard", 7>> \in V9 /\ <<"self_claims", "delete guard", 6>> \in V9
    <3>1. <<"verification_findings", "delete guard", 7>> \in Findings
      BY PartsAre DEF Findings, Def
    <3>2. <<"self_claims", "delete guard", 6>> \in Def("self_claims", Indexed \ {"table", "update guard"}, 6)
      BY PartsAre DEF Def
    <3>3. <<"self_claims", "delete guard", 6>> \in Of(V9, "self_claims")
      BY <3>2, TablesBefore
    <3> QED BY <2>2, <3>1, <3>3 DEF Of
  <2>4. guards = {<<"verification_findings", "delete guard", 7>>, <<"self_claims", "delete guard", 6>>}
    BY DEF Def
  <2>5. ASSUME NEW entry \in V9, entry[1] = "verification_findings", entry[2] = "delete guard"
        PROVE  entry \in guards
    <3>1. entry \in Findings
      BY <2>1, <2>5
    <3>2. PICK part \in Indexed : entry = <<"verification_findings", part, 7>>
      BY <3>1 DEF Findings, Def
    <3> QED BY <2>4, <2>5, <3>2
  <2>6. ASSUME NEW entry \in V9, entry[1] = "self_claims", entry[2] = "delete guard"
        PROVE  entry \in guards
    <3>1. entry \in Def("self_claims", Indexed \ {"table", "update guard"}, 6)
                       \union Def("self_claims", {"table", "update guard"}, 9)
      BY <2>6, TablesBefore DEF Of
    <3> DEFINE parts == {"table", "update guard"}
    <3>a. entry[2] \notin parts
      BY <2>6
    <3> HIDE DEF parts
    <3>b. \A e \in Def("self_claims", parts, 9) : e[2] \in parts
      BY DefOf
    <3>2. entry \in Def("self_claims", Indexed \ {"table", "update guard"}, 6)
      BY <3>1, <3>a, <3>b DEF parts
    <3>3. PICK part \in Indexed : entry = <<"self_claims", part, 6>>
      BY <3>2 DEF Def
    <3> QED BY <2>4, <2>6, <3>3
  <2>7. guards \subseteq V9
    BY <2>3, <2>4
  <2> HIDE DEF guards
  <2>8. g3 \subseteq V9
    BY DEF Without
  <2>9. \A entry \in V9 : entry \in g3 \/ entry \in guards
    BY <2>5, <2>6 DEF Without
  <2> HIDE DEF g3
  <2> QED BY <2>7, <2>8, <2>9
<1>8. /\ After(V9, s6) = Without(V9, "assessment_snapshots", Indexed) \union defs
      /\ s6.parts = Indexed /\ s6.op = "rebuild"
  <2> HIDE DEF defs, kept
  <2> QED BY RebuildAfter
<1>9. Without(V9, "assessment_snapshots", Indexed) \union defs = V10
  <2> DEFINE parts == {"table", "update guard"}
  <2> DEFINE table == "assessment_snapshots"
             old == V9
             all == Guarded
             was == 6
             new == 10
  <2>1. Of(old, table) = Def(table, all, was)
    BY TablesBefore DEF Snapshots
  <2>2. Guarded \ parts = {"delete guard"}
    BY DEF Guarded, Guards
  <2>3. parts \subseteq Indexed /\ all \subseteq Indexed
    BY PartsAre
  <2> HIDE DEF parts, table, old, all, was, new
  <2>4. Without(old, table, Indexed) \union (Def(table, parts, new) \union Def(table, all \ parts, was))
          = Rewritten(old, table, parts, new)
    BY ONLY <2>1, <2>3, RebuildsDef
  <2> QED BY <2>2, <2>4 DEF V10, parts, table, old, all, was, new
<1> HIDE DEF s1, s2, s3, s4, s5, s6, g2, g3, defs, guards, found, kept, views
<1>10. /\ Statements(d, 9)[1] = s1 /\ Statements(d, 9)[2] = s2 /\ Statements(d, 9)[3] = s3
       /\ Statements(d, 9)[4] = s4 /\ Statements(d, 9)[5] = s5 /\ Statements(d, 9)[6] = s6
       /\ Len(Statements(d, 9)) = 6
  BY <1>1
<1>11. /\ Stages(9)[1] = V9 /\ Stages(9)[2] = g2 /\ Stages(9)[3] = g3 /\ Stages(9)[4] = g3
       /\ Stages(9)[5] = g3 /\ Stages(9)[6] = V9 /\ Stages(9)[7] = V10 /\ Len(Stages(9)) = 7
  BY <1>2
<1>12. /\ 1 + 1 = 2 /\ 2 + 1 = 3 /\ 3 + 1 = 4 /\ 4 + 1 = 5 /\ 5 + 1 = 6 /\ 6 + 1 = 7
       /\ 2 \in 1 .. 7 /\ 3 \in 1 .. 7 /\ 4 \in 1 .. 7 /\ 5 \in 1 .. 7 /\ 6 \in 1 .. 7 /\ 7 \in 1 .. 7
  OBVIOUS
<1>p. {"delete guard"} \subseteq Indexed
  BY PartsAre
<1>13. Advances(d, 9, 1) /\ Advances(d, 9, 2)
  BY <1>3, <1>10, <1>11, <1>12, <1>p DEF Advances
<1>14. Advances(d, 9, 3)
  BY <1>4, <1>5, <1>10, <1>11, <1>12 DEF Advances
<1>15. Advances(d, 9, 4)
  BY <1>4, <1>5, <1>10, <1>11, <1>12 DEF Advances
<1>16. Advances(d, 9, 5)
  BY <1>6, <1>7, <1>10, <1>11, <1>12 DEF Advances
<1>17. Advances(d, 9, 6)
  BY <1>8, <1>9, <1>10, <1>11, <1>12 DEF Advances
<1>18. \A i \in 1 .. 6 : i \in {1, 2, 3, 4, 5, 6}
  OBVIOUS
<1> QED BY <1>10, <1>11, <1>13, <1>14, <1>15, <1>16, <1>17, <1>18

LEMMA StagesAdvance ==
  ASSUME NEW d, NEW v \in 1 .. 11
  PROVE  /\ Len(Statements(d, v)) \in 1 .. 6 /\ Len(Stages(v)) = Len(Statements(d, v)) + 1
         /\ Stages(v)[1] = SchemaSQL[v] /\ Stages(v)[Len(Statements(d, v)) + 1] = SchemaSQL[v + 1]
         /\ \A i \in 1 .. Len(Statements(d, v)) : Advances(d, v, i)
<1>1. CASE v \in {1, 3, 4, 5, 6, 10, 11}
  <2>1. /\ Len(Statements(d, v)) = 1 /\ Stages(v) = <<SchemaSQL[v], SchemaSQL[v + 1]>> /\ Advances(d, v, 1)
    BY <1>1, CreatingAdvances
  <2>2. \A i \in 1 .. 1 : i = 1
    OBVIOUS
  <2> QED BY <2>1, <2>2
<1>2. CASE v = 2
  <2>1. 2 + 1 = 3 /\ 2 \in 1 .. 6
    OBVIOUS
  <2> QED BY <1>2, <2>1, LogsAdvance, VersionsAre
<1>3. CASE v = 7
  <2>1. 2 + 1 = 3 /\ 2 \in 1 .. 6 /\ 7 + 1 = 8
    OBVIOUS
  <2> QED BY <1>3, <2>1, FactsAdvance, VersionsAre
<1>4. CASE v = 8
  <2>1. 5 + 1 = 6 /\ 5 \in 1 .. 6 /\ 8 + 1 = 9
    OBVIOUS
  <2> QED BY <1>4, <2>1, SignalsAdvance, VersionsAre
<1>5. CASE v = 9
  <2>1. 6 + 1 = 7 /\ 6 \in 1 .. 6 /\ 9 + 1 = 10
    OBVIOUS
  <2> QED BY <1>5, <2>1, ViewsAdvance, VersionsAre
<1> QED BY <1>1, <1>2, <1>3, <1>4, <1>5


(***************************************************************************)
(* The rows a migration meets                                              *)
(***************************************************************************)

References == Cascading \union (Restricting \ {<<"gap_questions", "raw_logs">>})

(* Every reference holds.                                                  *)
Rooted(d) == \A r \in References : d.rows[r[1]] \subseteq d.rows[r[2]]

(* Before statement i of the step from version v.                          *)
Rowed(d, v, i) ==
  /\ Rooted(d)
  /\ d.rows["resume_branches"] = {}
  /\ v = 8 /\ i > 2 => d.rows["self_claims"] = {}
  /\ v = 9 /\ i \in {5, 6} =>
       d.rows["self_claims"] \intersect d.scoped \intersect d.rows["assessment_snapshots"] = {}
  /\ v > 8 \/ (v = 8 /\ i > 4) => d.rows["self_signals"] = {}

LEMMA ReferencesAre ==
  ASSUME NEW r \in References
  PROVE  /\ r[1] \in Tables /\ r[2] \in Tables
         /\ r[2] \notin {"verification_findings", "self_claims", "self_signals"}
         /\ r[2] = "assessment_snapshots" => r[1] \in {"self_claims", "resume_branches"}
<1>1. CASE r \in Cascading
  BY <1>1, TableNames DEF Cascading
<1>2. CASE r \in Produced \X {"processing_runs"}
  <2>1. r[1] \in Produced /\ r[2] = "processing_runs"
    BY <1>2
  <2> QED BY <2>1, TableNames DEF Produced
<1>3. CASE r \in {<<"self_claims", "assessment_snapshots">>, <<"resume_branches", "assessment_snapshots">>,
                  <<"resume_branches", "job_descriptions">>, <<"resume_bullets", "resume_branches">>}
  BY <1>3, TableNames
<1> QED BY <1>1, <1>2, <1>3 DEF References, Restricting

(* One table lost rows, and none a child of it still has.                  *)
LEMMA StaysRooted ==
  ASSUME NEW d, Rooted(d), NEW table, NEW next,
         \A t \in Tables : t # table => next.rows[t] = d.rows[t],
         table \in Tables => next.rows[table] \subseteq d.rows[table],
         \A r \in References : r[2] = table => next.rows[r[1]] \intersect d.rows[table] \subseteq next.rows[table]
  PROVE  Rooted(next)
<1> SUFFICES ASSUME NEW r \in References
             PROVE  next.rows[r[1]] \subseteq next.rows[r[2]]
  BY DEF Rooted
<1>1. r[1] \in Tables /\ r[2] \in Tables
  BY ReferencesAre
<1>2. d.rows[r[1]] \subseteq d.rows[r[2]]
  BY DEF Rooted
<1>3. next.rows[r[1]] \subseteq d.rows[r[1]]
  BY <1>1
<1>4. CASE r[2] = table
  BY <1>2, <1>3, <1>4
<1>5. CASE r[2] # table
  BY <1>1, <1>2, <1>3, <1>5
<1> QED BY <1>4, <1>5

(* A statement that leaves every row.                                      *)
SameRows(d, next) == next.scoped = d.scoped /\ \A t \in Tables : next.rows[t] = d.rows[t]

LEMMA SameRowed ==
  ASSUME NEW d, NEW next, SameRows(d, next), NEW v, NEW i, NEW j, Rowed(d, v, i),
         v = 8 => (j > 2 => i > 2) /\ (j > 4 => i > 4),
         v = 9 => (j \in {5, 6} => i \in {5, 6})
  PROVE  Rowed(next, v, j)
<1>1. \A r \in References : r[1] \in Tables /\ r[2] \in Tables
  BY ReferencesAre
<1>2. Rooted(next)
  BY <1>1 DEF Rooted, SameRows, Rowed
<1>3. /\ next.rows["resume_branches"] = d.rows["resume_branches"]
      /\ next.rows["self_claims"] = d.rows["self_claims"]
      /\ next.rows["self_signals"] = d.rows["self_signals"]
      /\ next.rows["assessment_snapshots"] = d.rows["assessment_snapshots"]
      /\ next.scoped = d.scoped
  BY TableNames DEF SameRows
<1> QED BY <1>2, <1>3 DEF Rowed

(* Outside of 8 -> 9 and 9 -> 10 no step changes a row.                    *)
LEMMA QuietRows ==
  ASSUME NEW d \in Database, NEW v \in 1 .. 11, v \notin {8, 9}, NEW s, Sure(d, v, s),
         NEW fk, v <= 9 => fk = FALSE, NEW next, RowsAfter(d, s, fk, next)
  PROVE  SameRows(d, next)
<1>1. CASE s.op \in {"create", "drop trigger"}
  BY <1>1 DEF RowsAfter, SameRows
<1>2. CASE s.op = "rebuild"
  <2>1. v <= 9 /\ s.rows = d.rows[s.table]
    BY <1>2 DEF Sure, Harmless
  <2>2. \A t \in Tables : next.rows[t] = IF t = s.table THEN IF s.op = "rebuild" THEN s.rows ELSE {}
                                    ELSE IF t \in Touched(s.table, fk) THEN {} ELSE d.rows[t]
    BY <1>2 DEF RowsAfter
  <2>3. Touched(s.table, fk) = {s.table}
    BY <2>1 DEF Touched
  <2>4. next.scoped = d.scoped
    BY DEF RowsAfter
  <2> QED BY <1>2, <2>1, <2>2, <2>3, <2>4 DEF SameRows
<1>3. s.op \in {"create", "drop trigger"} \/ s.op = "rebuild"
  BY DEF Sure, Harmless
<1> QED BY <1>1, <1>2, <1>3

(* A dropped, cleared or rebuilt table, foreign keys off.                  *)
OneTable(d, next, table, left) ==
  /\ next.scoped = d.scoped /\ next.rows[table] = left
  /\ \A t \in Tables : t # table => next.rows[t] = d.rows[t]

LEMMA DropRows ==
  ASSUME NEW d, NEW table \in Tables, NEW next, NEW s, s = Drop(table), RowsAfter(d, s, FALSE, next)
  PROVE  OneTable(d, next, table, {})
<1>1. s.op = "drop" /\ s.table = table
  BY DEF Drop
<1>2. \A t \in Tables : next.rows[t] = IF t = s.table THEN IF s.op = "rebuild" THEN s.rows ELSE {}
                                    ELSE IF t \in Touched(s.table, FALSE) THEN {} ELSE d.rows[t]
  BY <1>1 DEF RowsAfter
<1>3. Touched(s.table, FALSE) = {table} /\ next.scoped = d.scoped
  BY <1>1 DEF Touched, RowsAfter
<1> QED BY <1>1, <1>2, <1>3 DEF OneTable

LEMMA DeleteRows ==
  ASSUME NEW d, NEW table \in Tables, NEW ks, NEW next, NEW s, s = DeleteFrom(table, ks),
         RowsAfter(d, s, FALSE, next)
  PROVE  OneTable(d, next, table, d.rows[table] \ ks)
<1>1. s.op = "delete" /\ s.table = table /\ s.rows = ks
  BY DEF DeleteFrom
<1>2. \A t \in Tables : next.rows[t] = IF t \in Touched(s.table, FALSE) THEN d.rows[t] \ s.rows ELSE d.rows[t]
  BY <1>1 DEF RowsAfter
<1>3. Touched(s.table, FALSE) = {table} /\ next.scoped = d.scoped
  BY <1>1 DEF Touched, RowsAfter
<1> QED BY <1>1, <1>2, <1>3 DEF OneTable

LEMMA RebuildRows ==
  ASSUME NEW d, NEW table \in Tables, NEW kept, NEW defs, NEW next, NEW s, s = Rebuild(table, kept, defs),
         RowsAfter(d, s, FALSE, next)
  PROVE  OneTable(d, next, table, kept)
<1>1. s.op = "rebuild" /\ s.table = table /\ s.rows = kept
  BY DEF Rebuild
<1>2. \A t \in Tables : next.rows[t] = IF t = s.table THEN IF s.op = "rebuild" THEN s.rows ELSE {}
                                    ELSE IF t \in Touched(s.table, FALSE) THEN {} ELSE d.rows[t]
  BY <1>1 DEF RowsAfter
<1>3. Touched(s.table, FALSE) = {table} /\ next.scoped = d.scoped
  BY <1>1 DEF Touched, RowsAfter
<1> QED BY <1>1, <1>2, <1>3 DEF OneTable

(* 8 -> 9: the claims go before the snapshots they refer to.               *)
LEMMA SignalsRows ==
  ASSUME NEW d \in Database, NEW i \in 1 .. 5, Rowed(d, 8, i), NEW next,
         RowsAfter(d, Statements(d, 8)[i], FALSE, next)
  PROVE  Rowed(next, 8, i + 1)
<1> DEFINE defs == Snapshots \union Findings \union Def("self_claims", {"table", "update guard"}, 9)
                     \union Def("self_claims", {"index", "delete guard"}, 6)
           s1 == Drop("verification_findings")
           s2 == Drop("self_claims")
           s3 == Drop("assessment_snapshots")
           s4 == Drop("self_signals")
           s5 == Create(defs)
<1>1. Statements(d, 8) = <<s1, s2, s3, s4, s5>>
  <2>1. Statements(d, 8) = To9
    BY DEF Statements
  <2> QED BY <2>1 DEF To9
<1>2. s5.op = "create"
  BY CreateAfter
<1> HIDE DEF s1, s2, s3, s4, s5
<1>3. /\ Statements(d, 8)[1] = s1 /\ Statements(d, 8)[2] = s2 /\ Statements(d, 8)[3] = s3
      /\ Statements(d, 8)[4] = s4 /\ Statements(d, 8)[5] = s5
  BY <1>1
<1>4. /\ Rooted(d) /\ d.rows["resume_branches"] = {}
      /\ i > 2 => d.rows["self_claims"] = {}
      /\ i > 4 => d.rows["self_signals"] = {}
  BY DEF Rowed
<1>t. /\ "verification_findings" \in Tables /\ "self_claims" \in Tables /\ "assessment_snapshots" \in Tables
      /\ "self_signals" \in Tables /\ "resume_branches" \in Tables
  BY TableNames
<1>d. ASSUME NEW table \in {"verification_findings", "self_claims", "assessment_snapshots", "self_signals"},
             OneTable(d, next, table, {}),
             table = "assessment_snapshots" => d.rows["self_claims"] = {}
      PROVE  /\ Rooted(next) /\ next.rows["resume_branches"] = {} /\ next.rows[table] = {}
             /\ \A t \in {"self_claims", "self_signals"} : t # table => next.rows[t] = d.rows[t]
  <2>1. /\ \A t \in Tables : t # table => next.rows[t] = d.rows[t]
        /\ next.rows[table] = {} /\ next.rows[table] \subseteq d.rows[table]
    BY <1>d DEF OneTable
  <2>2. \A r \in References : r[2] = table => next.rows[r[1]] \intersect d.rows[table] \subseteq next.rows[table]
    <3> SUFFICES ASSUME NEW r \in References, r[2] = table
                 PROVE  next.rows[r[1]] = {}
      OBVIOUS
    <3>1. table = "assessment_snapshots" /\ r[1] \in {"self_claims", "resume_branches"}
      BY ReferencesAre, <1>d
    <3> QED BY <3>1, <2>1, <1>4, <1>t, <1>d
  <2>3. Rooted(next)
    BY <1>4, <2>1, <2>2, StaysRooted
  <2> QED BY <1>4, <1>t, <2>1, <2>3
<1>5. CASE i = 1
  <2>1. OneTable(d, next, "verification_findings", {})
    BY <1>5, <1>3, <1>t, DropRows DEF s1
  <2> QED BY <1>5, <1>d, <2>1 DEF Rowed
<1>6. CASE i = 2
  <2>1. OneTable(d, next, "self_claims", {})
    BY <1>6, <1>3, <1>t, DropRows DEF s2
  <2> QED BY <1>6, <1>d, <2>1 DEF Rowed
<1>7. CASE i = 3
  <2>1. OneTable(d, next, "assessment_snapshots", {})
    BY <1>7, <1>3, <1>t, DropRows DEF s3
  <2> QED BY <1>4, <1>7, <1>d, <2>1 DEF Rowed
<1>8. CASE i = 4
  <2>1. OneTable(d, next, "self_signals", {})
    BY <1>8, <1>3, <1>t, DropRows DEF s4
  <2> QED BY <1>4, <1>8, <1>d, <2>1 DEF Rowed
<1>9. CASE i = 5
  <2>1. SameRows(d, next)
    <3>1. RowsAfter(d, s5, FALSE, next)
      BY <1>3, <1>9
    <3> QED BY <1>2, <3>1 DEF RowsAfter, SameRows
  <2> QED BY <1>9, <2>1, SameRowed
<1> QED BY <1>5, <1>6, <1>7, <1>8, <1>9

(* 9 -> 10: the claims of the views go before the views.                   *)
LEMMA ViewsRows ==
  ASSUME NEW d \in Database, NEW i \in 1 .. 6, Rowed(d, 9, i), NEW next,
         RowsAfter(d, Statements(d, 9)[i], FALSE, next)
  PROVE  Rowed(next, 9, i + 1)
<1> DEFINE views == d.scoped \intersect d.rows["assessment_snapshots"]
           guards == Def("verification_findings", {"delete guard"}, 7)
                       \union Def("self_claims", {"delete guard"}, 6)
           defs == Def("assessment_snapshots", {"table", "update guard"}, 10)
                     \union Def("assessment_snapshots", {"delete guard"}, 6)
           found == views \intersect d.rows["self_claims"]
           kept == d.rows["assessment_snapshots"] \ views
           s1 == DropTrigger("verification_findings", {"delete guard"})
           s2 == DropTrigger("self_claims", {"delete guard"})
           s3 == DeleteFrom("verification_findings", found)
           s4 == DeleteFrom("self_claims", views)
           s5 == Create(guards)
           s6 == Rebuild("assessment_snapshots", kept, defs)
<1>1. Statements(d, 9) = <<s1, s2, s3, s4, s5, s6>>
  <2>1. Statements(d, 9) = To10(d)
    BY DEF Statements
  <2> QED BY <2>1 DEF To10
<1>2. s1.op = "drop trigger" /\ s2.op = "drop trigger" /\ s5.op = "create"
  BY DEF Create, DropTrigger
<1> HIDE DEF s1, s2, s3, s4, s5, s6
<1>3. /\ Statements(d, 9)[1] = s1 /\ Statements(d, 9)[2] = s2 /\ Statements(d, 9)[3] = s3
      /\ Statements(d, 9)[4] = s4 /\ Statements(d, 9)[5] = s5 /\ Statements(d, 9)[6] = s6
  BY <1>1
<1>4. /\ Rooted(d) /\ d.rows["resume_branches"] = {} /\ d.rows["self_signals"] = {}
      /\ i \in {5, 6} => d.rows["self_claims"] \intersect d.scoped \intersect d.rows["assessment_snapshots"] = {}
  BY DEF Rowed
<1>t. /\ "verification_findings" \in Tables /\ "self_claims" \in Tables /\ "assessment_snapshots" \in Tables
      /\ "self_signals" \in Tables /\ "resume_branches" \in Tables
  BY TableNames
<1>5. CASE i \in {1, 2, 5}
  <2>1. SameRows(d, next)
    <3>1. \E s \in {s1, s2, s5} : s.op \in {"create", "drop trigger"} /\ RowsAfter(d, s, FALSE, next)
      BY <1>2, <1>3, <1>5
    <3> QED BY <3>1 DEF RowsAfter, SameRows
  <2> QED BY <1>5, <2>1, SameRowed
<1>6. CASE i = 3
  <2> HIDE DEF found
  <2>1. OneTable(d, next, "verification_findings", d.rows["verification_findings"] \ found)
    BY <1>6, <1>3, <1>t, DeleteRows DEF s3
  <2> DEFINE table == "verification_findings"
  <2>2. /\ \A t \in Tables : t # table => next.rows[t] = d.rows[t]
        /\ next.rows[table] \subseteq d.rows[table]
    BY <2>1 DEF OneTable
  <2>3. \A r \in References : r[2] # table
    BY ReferencesAre
  <2>4. Rooted(next)
    <3> HIDE DEF table
    <3> QED BY <1>4, <2>2, <2>3, StaysRooted
  <2> QED BY <1>4, <1>6, <1>t, <2>2, <2>4 DEF Rowed
<1>7. CASE i = 4
  <2>1. OneTable(d, next, "self_claims", d.rows["self_claims"] \ views)
    <3> HIDE DEF views
    <3> QED BY <1>7, <1>3, <1>t, DeleteRows DEF s4
  <2> DEFINE table == "self_claims"
  <2>2. /\ \A t \in Tables : t # table => next.rows[t] = d.rows[t]
        /\ next.rows[table] \subseteq d.rows[table] /\ next.rows[table] = d.rows[table] \ views
        /\ next.scoped = d.scoped
    <3> HIDE DEF views
    <3> QED BY <2>1 DEF OneTable
  <2>3. \A r \in References : r[2] # table
    BY ReferencesAre
  <2>4. Rooted(next)
    <3> HIDE DEF table, views
    <3> QED BY <1>4, <2>2, <2>3, StaysRooted
  <2>5. next.rows["self_claims"] \intersect next.scoped \intersect next.rows["assessment_snapshots"] = {}
    BY <1>t, <2>2
  <2> QED BY <1>4, <1>7, <1>t, <2>2, <2>4, <2>5 DEF Rowed
<1>8. CASE i = 6
  <2>1. OneTable(d, next, "assessment_snapshots", kept)
    <3> HIDE DEF kept, defs
    <3> QED BY <1>8, <1>3, <1>t, RebuildRows DEF s6
  <2> DEFINE table == "assessment_snapshots"
  <2>2. /\ \A t \in Tables : t # table => next.rows[t] = d.rows[t]
        /\ next.rows[table] = kept
    <3> HIDE DEF kept
    <3> QED BY <2>1 DEF OneTable
  <2>3. next.rows[table] \subseteq d.rows[table]
    BY <2>2
  <2>4. \A r \in References : r[2] = table => next.rows[r[1]] \intersect d.rows[table] \subseteq next.rows[table]
    <3> SUFFICES ASSUME NEW r \in References, r[2] = table
                 PROVE  next.rows[r[1]] \intersect d.rows[table] \subseteq next.rows[table]
      OBVIOUS
    <3>1. r[1] \in {"self_claims", "resume_branches"}
      BY ReferencesAre
    <3>2. next.rows["resume_branches"] = {} /\ next.rows["self_claims"] = d.rows["self_claims"]
      BY <1>4, <1>t, <2>2
    <3>3. d.rows["self_claims"] \intersect views = {}
      BY <1>4, <1>8
    <3>4. CASE r[1] = "resume_branches"
      BY <3>2, <3>4
    <3>5. CASE r[1] = "self_claims"
      BY <2>2, <3>2, <3>3, <3>5
    <3> QED BY <3>1, <3>4, <3>5
  <2>5. Rooted(next)
    <3> HIDE DEF table, kept
    <3> QED BY <1>4, <2>2, <2>3, <2>4, StaysRooted
  <2> QED BY <1>4, <1>8, <1>t, <2>2, <2>5 DEF Rowed
<1> QED BY <1>5, <1>6, <1>7, <1>8


(***************************************************************************)
(* One statement of a migration                                            *)
(***************************************************************************)

Partly(v, i, shape) == i \in 1 .. Len(Stages(v)) /\ shape = Stages(v)[i]

OddOf(shape) == {entry \in shape : entry[2] = "odd"}
Plain(d) == OddOf(d.shape) = {}

(* What a refusal is about stays as it is.                                 *)
Alike(d, e) ==
  e.blank = d.blank /\ e.unreadable = d.unreadable /\ OddOf(d.shape) \subseteq OddOf(e.shape)

LEMMA FollowAlike ==
  ASSUME NEW d, NEW s, s.parts \subseteq Indexed, s.op \in Ops, NEW next, Follow(d, s, next)
  PROVE  Alike(d, next)
<1>1. "odd" \notin Indexed
  BY DEF Indexed, Guarded, Guards
<1>2. next.blank = d.blank /\ next.unreadable = d.unreadable /\ next.shape = After(d.shape, s)
  BY DEF Follow
<1>3. OddOf(d.shape) \subseteq After(d.shape, s)
  <2>1. OddOf(d.shape) \subseteq Without(d.shape, s.table, s.parts)
    BY <1>1 DEF OddOf, Without
  <2>2. OddOf(d.shape) \subseteq d.shape
    BY DEF OddOf
  <2>3. CASE s.op = "create"
    BY <2>2, <2>3 DEF After
  <2>4. CASE s.op = "delete"
    BY <2>2, <2>4 DEF After
  <2>5. CASE s.op = "drop trigger"
    BY <2>1, <2>5 DEF After
  <2>6. CASE s.op \in {"drop", "rebuild"}
    BY <2>1, <2>6 DEF After
  <2> QED BY <2>3, <2>4, <2>5, <2>6 DEF Ops
<1> QED BY <1>2, <1>3 DEF Alike, OddOf

(* Nothing stops it where foreign keys are off and no guard is met.        *)
LEMMA NotStopped ==
  ASSUME NEW d, NEW table, NEW ks, NEW firing,
         firing = TRUE => \A entry \in d.shape : entry[1] = table => entry[2] # "delete guard",
         firing \in BOOLEAN
  PROVE  ~ Refused(d, table, ks, FALSE, FALSE, firing)
BY DEF Refused, HasGuard

Works(d, v, i, next) ==
  /\ next.sound = TRUE => Alike(d, next) /\ Rowed(next, v, i + 1)
  /\ Partly(v, i, d.shape) => next.sound = TRUE /\ Partly(v, i + 1, next.shape)

LEMMA StatementWorks ==
  ASSUME NEW d \in Database, d.sound = TRUE, NEW v \in 1 .. 11,
         NEW i \in 1 .. Len(Statements(d, v)), Rowed(d, v, i),
         NEW fk, v <= 9 => fk = FALSE,
         NEW next, next = Execute(d, Statements(d, v)[i], fk, FALSE)
  PROVE  Works(d, v, i, next)
<1> DEFINE s == Statements(d, v)[i]
<1>1. Sure(d, v, s) /\ Advances(d, v, i)
  BY MigrationSure, StagesAdvance
<1>2. /\ s.parts \subseteq Indexed /\ i + 1 \in 1 .. Len(Stages(v)) /\ After(Stages(v)[i], s) = Stages(v)[i + 1]
      /\ s.op = "delete" => \A entry \in Stages(v)[i] : entry[1] = s.table => entry[2] # "delete guard"
  BY <1>1 DEF Advances
<1>3. StatementOK(s) /\ s.op \in Ops /\ (s.op \in {"delete", "drop", "rebuild"} => fk = FALSE)
  <2>1. StatementOK(s) /\ s.op \in Ops
    BY <1>1 DEF Sure, StatementOK
  <2>2. s.op \in {"delete", "drop", "rebuild"} => v <= 9
    <3> HIDE DEF s
    <3>1. s.op \in {"delete", "drop", "rebuild"} => v <= 9 \/ v = 8 \/ v = 9
      BY <1>1 DEF Sure, Harmless
    <3> QED BY <3>1
  <2> QED BY <2>1, <2>2
<1> DEFINE owner == FALSE
<1>4. next = Execute(d, s, fk, owner)
  OBVIOUS
<1> HIDE DEF s, owner
<1>5. /\ next \in Database /\ (next.sound = TRUE => RowsAfter(d, s, fk, next))
      /\ next.sound = TRUE => Follow(d, s, next)
      /\ s.op \in {"create", "drop trigger"} => next.sound = TRUE
      /\ s.op = "delete" /\ ~ Refused(d, s.table, s.rows, fk, owner, TRUE) => next.sound = TRUE
      /\ s.op \in {"drop", "rebuild"} /\ ~ Refused(d, s.table, Keys, fk, owner, FALSE) => next.sound = TRUE
  BY <1>3, <1>4, ExecuteDoes, ExecuteLeaves
<1>6. ASSUME next.sound = TRUE
      PROVE  Rowed(next, v, i + 1)
  <2>1. RowsAfter(d, s, fk, next)
    BY <1>5, <1>6
  <2>2. CASE v \notin {8, 9}
    <3>1. SameRows(d, next)
      BY <1>1, <2>1, <2>2, QuietRows
    <3> QED BY <2>2, <3>1, SameRowed
  <2>3. CASE v = 8
    <3>1. fk = FALSE
      BY <2>3
    <3>2. RowsAfter(d, Statements(d, 8)[i], FALSE, next)
      BY <2>1, <2>3, <3>1 DEF s
    <3>3. i \in 1 .. 5 /\ Rowed(d, 8, i)
      BY <2>3, SignalsAdvance
    <3> QED BY <2>3, <3>2, <3>3, SignalsRows
  <2>4. CASE v = 9
    <3>1. fk = FALSE
      BY <2>4
    <3>2. RowsAfter(d, Statements(d, 9)[i], FALSE, next)
      BY <2>1, <2>4, <3>1 DEF s
    <3>3. i \in 1 .. 6 /\ Rowed(d, 9, i)
      BY <2>4, ViewsAdvance
    <3> QED BY <2>4, <3>2, <3>3, ViewsRows
  <2> QED BY <2>2, <2>3, <2>4
<1>7. ASSUME Partly(v, i, d.shape)
      PROVE  next.sound = TRUE /\ Partly(v, i + 1, next.shape)
  <2>1. d.shape = Stages(v)[i]
    BY <1>7 DEF Partly
  <2>2. next.sound = TRUE
    <3>1. CASE s.op \in {"create", "drop trigger"}
      BY <1>5, <3>1
    <3>2. CASE s.op = "delete"
      <4> DEFINE table == s.table
                 ks == s.rows
                 firing == TRUE
      <4>1. firing = TRUE => \A entry \in d.shape : entry[1] = table => entry[2] # "delete guard"
        BY <1>2, <2>1, <3>2
      <4>2. firing \in BOOLEAN
        OBVIOUS
      <4>3. fk = FALSE
        BY <1>3, <3>2
      <4> HIDE DEF table, ks, firing
      <4>4. ~ Refused(d, table, ks, FALSE, FALSE, firing)
        BY <4>1, <4>2, NotStopped
      <4> QED BY <1>5, <3>2, <4>3, <4>4 DEF table, ks, firing, owner
    <3>3. CASE s.op \in {"drop", "rebuild"}
      <4> DEFINE table == s.table
                 ks == Keys
                 firing == FALSE
      <4>1. firing = TRUE => \A entry \in d.shape : entry[1] = table => entry[2] # "delete guard"
        OBVIOUS
      <4>2. firing \in BOOLEAN
        OBVIOUS
      <4>3. fk = FALSE
        BY <1>3, <3>3
      <4> HIDE DEF table, ks, firing
      <4>4. ~ Refused(d, table, ks, FALSE, FALSE, firing)
        BY <4>1, <4>2, NotStopped
      <4> QED BY <1>5, <3>3, <4>3, <4>4 DEF table, ks, firing, owner
    <3> QED BY <1>3, <3>1, <3>2, <3>3 DEF Ops
  <2>3. next.shape = Stages(v)[i + 1]
    BY <1>2, <1>5, <2>1, <2>2 DEF Follow
  <2> QED BY <1>2, <2>2, <2>3 DEF Partly
<1>8. next.sound = TRUE => Alike(d, next)
  BY <1>2, <1>3, <1>5, FollowAlike
<1> QED BY <1>6, <1>7, <1>8 DEF Works

(* The record of a step: the next one starts from the shape it left.       *)
LEMMA RecordWorks ==
  ASSUME NEW d \in Database, d.sound = TRUE, NEW v \in 1 .. 11, Stored(d) = v, NEW i \in Nat \ {0},
         i > Len(Statements(d, v)), Rowed(d, v, i),
         NEW e, e = [d EXCEPT !.versions = @ \union {v + 1}]
  PROVE  /\ Alike(d, e) /\ Rowed(e, v + 1, 1)
         /\ Partly(v, i, d.shape) => Partly(v + 1, 1, e.shape)
<1>1. /\ e.rows = d.rows /\ e.scoped = d.scoped /\ e.blank = d.blank
      /\ e.unreadable = d.unreadable /\ e.shape = d.shape
  BY DatabaseIs
<1>2. Alike(d, e)
  BY <1>1 DEF Alike
<1>3. v = 8 => i > 4
  <2> DEFINE len == Len(Statements(d, v))
  <2>1. v = 8 => len = 5
    BY SignalsAdvance
  <2>2. i > len
    OBVIOUS
  <2> HIDE DEF len
  <2> QED BY <2>1, <2>2
<1>4. Rowed(e, v + 1, 1)
  <2>1. Rooted(e) /\ e.rows["resume_branches"] = {}
    BY <1>1 DEF Rowed, Rooted
  <2>2. v + 1 > 8 => v > 8 \/ (v = 8 /\ i > 4)
    BY <1>3
  <2>3. v + 1 > 8 => e.rows["self_signals"] = {}
    BY <1>1, <2>2 DEF Rowed
  <2>4. ~ (1 > 2) /\ ~ (1 > 4) /\ 1 \notin {5, 6}
    OBVIOUS
  <2> DEFINE w == v + 1
             j == 1
  <2>5. (w > 8 => e.rows["self_signals"] = {}) /\ ~ (j > 2) /\ ~ (j > 4) /\ j \notin {5, 6}
    BY <2>3, <2>4
  <2> HIDE DEF w, j
  <2>6. Rowed(e, w, j)
    BY <2>1, <2>5 DEF Rowed
  <2> QED BY <2>6 DEF w, j
<1>5. ASSUME Partly(v, i, d.shape)
      PROVE  Partly(v + 1, 1, e.shape)
  <2> DEFINE len == Len(Statements(d, v))
  <2>1. len \in 1 .. 6 /\ Len(Stages(v)) = len + 1 /\ Stages(v)[len + 1] = SchemaSQL[v + 1]
    BY StagesAdvance
  <2>2. i \in 1 .. len + 1 /\ i > len /\ d.shape = Stages(v)[i]
    BY <1>5, <2>1 DEF Partly
  <2>3. i = len + 1
    BY <2>1, <2>2
  <2>4. d.shape = SchemaSQL[v + 1]
    BY <2>1, <2>2, <2>3
  <2>5. CASE v = 11
    <3>1. Stages(12) = <<V12>>
      BY DEF Stages
    <3>2. Stages(12)[1] = V12 /\ Len(Stages(12)) = 1 /\ v + 1 = 12
      BY <3>1, <2>5
    <3> QED BY <1>1, <2>4, <2>5, <3>2, VersionsAre DEF Partly
  <2>6. CASE v \in 1 .. 10
    <3> DEFINE w == v + 1
    <3>1. w \in 1 .. 11
      BY <2>6
    <3>2. d.shape = SchemaSQL[w]
      BY <2>4
    <3> HIDE DEF w
    <3>3. Stages(w)[1] = SchemaSQL[w] /\ Len(Stages(w)) = Len(Statements(d, w)) + 1 /\ Len(Statements(d, w)) \in 1 .. 6
      BY <3>1, StagesAdvance
    <3>4. 1 \in 1 .. Len(Stages(w))
      BY <3>3
    <3>5. Partly(w, 1, e.shape)
      BY <1>1, <3>2, <3>3, <3>4 DEF Partly
    <3> QED BY <3>5 DEF w
  <2> QED BY <2>5, <2>6
<1> QED BY <1>2, <1>4, <1>5


(***************************************************************************)
(* What every database is ready for, and every command's own view          *)
(***************************************************************************)

Blank(d) == Stored(d) <= 2 /\ d.blank # {}

(* Flawed, of a database.                                                  *)
Spoiled(d) == Blank(d) \/ d.unreadable # {} \/ OddOf(d.shape) # {}

DbReady(d) ==
  /\ Stored(d) < Current => Rooted(d) /\ d.rows["resume_branches"] = {}
  /\ Stored(d) <= 2 => d.blank \subseteq d.rows["raw_logs"]
  /\ Stored(d) >= 9 => d.rows["self_signals"] = {}

LEMMA FlawedIs == Flawed <=> Spoiled(db)
BY DEF Flawed, Spoiled, Blank, OddOf

(* What a business transaction never changes.                              *)
Like(d, e) ==
  /\ e.blank = d.blank /\ e.unreadable = d.unreadable /\ e.shape = d.shape /\ Stored(e) = Stored(d)
  /\ e.rows["self_signals"] \subseteq d.rows["self_signals"]

LEMMA LikeItself ==
  ASSUME NEW d
  PROVE  Like(d, d)
BY DEF Like

LEMMA LikeOn ==
  ASSUME NEW d, NEW e, NEW next, Like(d, e), Like(e, next)
  PROVE  Like(d, next)
BY DEF Like

LEMMA LikeReady ==
  ASSUME NEW d, DbReady(d), Stored(d) = Current, NEW e, Like(d, e)
  PROVE  DbReady(e) /\ Stored(e) = Current /\ (Spoiled(d) => Spoiled(e))
<1>1. Stored(e) = Current /\ ~ (Stored(e) < Current) /\ ~ (Stored(e) <= 2) /\ Stored(d) >= 9
  BY DEF Like, Current
<1>2. e.rows["self_signals"] = {}
  BY <1>1 DEF Like, DbReady
<1>3. Spoiled(d) => Spoiled(e)
  BY DEF Like, Spoiled, Blank
<1> QED BY <1>1, <1>2, <1>3 DEF DbReady

LEMMA WithLogLike ==
  ASSUME NEW d, Stocked(d), NEW k \in Keys
  PROVE  Like(d, WithLog(d, k))
<1> DEFINE logs == d.rows["raw_logs"] \union {k}
           found == d.rows["evidence_items"] \union {k}
           rows == [[d.rows EXCEPT !["raw_logs"] = logs] EXCEPT !["evidence_items"] = found]
           e == WithLog(d, k)
<1>0. d \in Database /\ d.rows \in [Tables -> SUBSET Keys]
  BY DatabaseIs DEF Stocked
<1>t. "raw_logs" \in Tables /\ "evidence_items" \in Tables /\ "self_signals" \in Tables
  BY TableNames
<1>1. e = [d EXCEPT !.rows = rows]
  BY <1>0, <1>t, DatabaseIs DEF WithLog
<1> HIDE DEF logs, found
<1>2. rows["self_signals"] = d.rows["self_signals"]
  BY <1>0, <1>t
<1> HIDE DEF rows, e
<1>3. /\ e.rows = rows /\ e.blank = d.blank /\ e.unreadable = d.unreadable /\ e.shape = d.shape
      /\ e.versions = d.versions
  BY <1>0, <1>1, DatabaseIs
<1>4. Stored(e) = Stored(d)
  BY <1>3, StoredSame
<1>5. Like(d, e)
  BY <1>2, <1>3, <1>4 DEF Like
<1> QED BY <1>5 DEF e

LEMMA RebuiltLike ==
  ASSUME NEW d, Stocked(d)
  PROVE  Like(d, Rebuilt(d))
<1> DEFINE ks == d.rows["raw_logs"]
           rows == [d.rows EXCEPT !["processing_runs"] = @ \union ks,
                                  !["experience_facts"] = ks, !["fact_sources"] = ks]
           e == Rebuilt(d)
<1>0. d \in Database /\ d.rows \in [Tables -> SUBSET Keys]
  BY DatabaseIs DEF Stocked
<1>t. /\ "self_signals" \in Tables /\ "processing_runs" \in Tables
      /\ "experience_facts" \in Tables /\ "fact_sources" \in Tables
  BY TableNames
<1>1. e = [d EXCEPT !.rows = rows]
  BY DEF Rebuilt
<1> HIDE DEF ks
<1>2. rows["self_signals"] = d.rows["self_signals"]
  BY <1>0, <1>t
<1> HIDE DEF rows, e
<1>3. /\ e.rows = rows /\ e.blank = d.blank /\ e.unreadable = d.unreadable /\ e.shape = d.shape
      /\ e.versions = d.versions
  BY <1>0, <1>1, DatabaseIs
<1>4. Stored(e) = Stored(d)
  BY <1>3, StoredSame
<1>5. Like(d, e)
  BY <1>2, <1>3, <1>4 DEF Like
<1> QED BY <1>5 DEF e

(***************************************************************************)
(* The statements of a deletion: children before the rows they restrict    *)
(***************************************************************************)

(* An earlier statement took the child's rows.                             *)
Taken(c, i, child) ==
  \E j \in 1 .. Len(DeletionStatements(c)) :
    /\ j < i
    /\ DeletionStatements(c)[j].table = child
    /\ DeletionStatements(c)[i].rows \subseteq DeletionStatements(c)[j].rows

Orderly(c, i) ==
  \A child : <<child, DeletionStatements(c)[i].table>> \in Restricting =>
    child = "self_signals" \/ Taken(c, i, child)

(* The rows a statement restricts are of the table it names: what it       *)
(* cascades to restricts nothing.                                          *)
LEMMA ReachesRestricted ==
  ASSUME NEW table, NEW t \in Reached(table), NEW child, <<child, t>> \in Restricting
  PROVE  t = table
<1>1. t \in {"assessment_snapshots", "job_descriptions", "resume_branches", "raw_logs", "processing_runs"}
  BY DEF Restricting
<1>2. \A parent : <<t, parent>> \notin Cascading
  BY <1>1 DEF Cascading
<1> QED BY <1>2 DEF Reached

LEMMA RestrictingIs ==
  ASSUME NEW child, NEW table, <<child, table>> \in Restricting
  PROVE  \/ table = "assessment_snapshots" /\ child \in {"self_claims", "resume_branches"}
         \/ table = "job_descriptions" /\ child = "resume_branches"
         \/ table = "resume_branches" /\ child = "resume_bullets"
         \/ table = "raw_logs" /\ child = "gap_questions"
         \/ table = "processing_runs" /\ child \in Produced
BY DEF Restricting

LEMMA Numerals ==
  /\ 2 \in 1 .. 9 /\ 3 \in 1 .. 9 /\ 4 \in 1 .. 9 /\ 6 \in 1 .. 9
  /\ 2 \in 1 .. 4 /\ 3 \in 1 .. 4 /\ 2 < 3 /\ 3 < 4 /\ 4 < 5 /\ 3 < 5 /\ 6 < 9
OBVIOUS

LEMMA LogsOrderly ==
  ASSUME NEW c, c.kind = "logs delete", c.target \subseteq Keys, NEW i \in 1 .. Len(DeletionStatements(c))
  PROVE  Orderly(c, i)
<1> DEFINE s1 == Clear("verification_findings")
           s2 == Clear("resume_bullets")
           s3 == Clear("resume_branches")
           s4 == Clear("self_claims")
           s5 == Clear("assessment_snapshots")
           s6 == Clear("gap_questions")
           s7 == Clear("contradictions")
           s8 == Clear("experience_facts")
           s9 == DeleteFrom("raw_logs", c.target)
<1>1. DeletionStatements(c) = <<s1, s2, s3, s4, s5, s6, s7, s8, s9>>
  <2>1. DeletionStatements(c) = DeleteLog(c.target)
    BY DEF DeletionStatements
  <2> QED BY <2>1 DEF DeleteLog
<1>2. /\ s1.table = "verification_findings" /\ s2.table = "resume_bullets" /\ s3.table = "resume_branches"
      /\ s4.table = "self_claims" /\ s5.table = "assessment_snapshots" /\ s6.table = "gap_questions"
      /\ s7.table = "contradictions" /\ s8.table = "experience_facts" /\ s9.table = "raw_logs"
      /\ s2.rows = Keys /\ s3.rows = Keys /\ s4.rows = Keys /\ s5.rows = Keys /\ s6.rows = Keys
      /\ s9.rows \subseteq Keys
  BY DEF Clear, DeleteFrom
<1> HIDE DEF s1, s2, s3, s4, s5, s6, s7, s8, s9
<1> DEFINE ds == DeletionStatements(c)
<1>s. ds = <<s1, s2, s3, s4, s5, s6, s7, s8, s9>>
  BY <1>1
<1>i. i \in 1 .. Len(ds)
  OBVIOUS
<1> HIDE DEF ds
<1>n. Len(ds) = 9
  BY ONLY <1>s
<1>3. /\ ds[1] = s1 /\ ds[2] = s2 /\ ds[3] = s3 /\ ds[4] = s4 /\ ds[5] = s5
      /\ ds[6] = s6 /\ ds[7] = s7 /\ ds[8] = s8 /\ ds[9] = s9
  BY ONLY <1>s
<1>4. 2 \in 1 .. 9 /\ 3 \in 1 .. 9 /\ 4 \in 1 .. 9 /\ 6 \in 1 .. 9 /\ 2 < 3 /\ 4 < 5 /\ 3 < 5 /\ 6 < 9
  BY ONLY Numerals
<1>5. /\ Taken(c, 3, "resume_bullets") /\ Taken(c, 5, "self_claims") /\ Taken(c, 5, "resume_branches")
      /\ Taken(c, 9, "gap_questions")
  BY <1>2, <1>3, <1>4, <1>n DEF Taken, ds
<1> SUFFICES ASSUME NEW child, <<child, DeletionStatements(c)[i].table>> \in Restricting
             PROVE  Taken(c, i, child)
  BY DEF Orderly
<1> DEFINE table == DeletionStatements(c)[i].table
<1>6. \/ table = "assessment_snapshots" /\ child \in {"self_claims", "resume_branches"}
      \/ table = "job_descriptions" /\ child = "resume_branches"
      \/ table = "resume_branches" /\ child = "resume_bullets"
      \/ table = "raw_logs" /\ child = "gap_questions"
      \/ table = "processing_runs" /\ child \in Produced
  BY RestrictingIs
<1>7. i = 1 \/ i = 2 \/ i = 3 \/ i = 4 \/ i = 5 \/ i = 6 \/ i = 7 \/ i = 8 \/ i = 9
  BY ONLY <1>i, <1>n
<1>8. CASE i \in {1, 2, 4, 6, 7, 8}
  BY <1>2, <1>3, <1>6, <1>8 DEF ds
<1>9. CASE i = 3
  BY <1>2, <1>3, <1>5, <1>6, <1>9 DEF ds
<1>10. CASE i = 5
  BY <1>2, <1>3, <1>5, <1>6, <1>10 DEF ds
<1>11. CASE i = 9
  BY <1>2, <1>3, <1>5, <1>6, <1>11 DEF ds
<1> QED BY <1>7, <1>8, <1>9, <1>10, <1>11

LEMMA VacancyOrderly ==
  ASSUME NEW c, c.kind = "jd delete", c.target \subseteq Keys, NEW i \in 1 .. Len(DeletionStatements(c))
  PROVE  Orderly(c, i)
<1> DEFINE s1 == DeleteFrom("verification_findings", c.target)
           s2 == DeleteFrom("resume_bullets", c.target)
           s3 == DeleteFrom("resume_branches", c.target)
           s4 == DeleteFrom("job_descriptions", c.target)
<1>1. DeletionStatements(c) = <<s1, s2, s3, s4>>
  <2>1. DeletionStatements(c) = DeleteVacancy(c.target)
    BY DEF DeletionStatements
  <2> QED BY <2>1 DEF DeleteVacancy
<1>2. /\ s1.table = "verification_findings" /\ s2.table = "resume_bullets" /\ s3.table = "resume_branches"
      /\ s4.table = "job_descriptions"
      /\ s2.rows = c.target /\ s3.rows = c.target /\ s4.rows = c.target
  BY DEF DeleteFrom
<1> HIDE DEF s1, s2, s3, s4
<1> DEFINE ds == DeletionStatements(c)
<1>s. ds = <<s1, s2, s3, s4>>
  BY <1>1
<1>i. i \in 1 .. Len(ds)
  OBVIOUS
<1> HIDE DEF ds
<1>n. Len(ds) = 4
  BY ONLY <1>s
<1>3. ds[1] = s1 /\ ds[2] = s2 /\ ds[3] = s3 /\ ds[4] = s4
  BY ONLY <1>s
<1>4. 2 \in 1 .. 4 /\ 3 \in 1 .. 4 /\ 2 < 3 /\ 3 < 4
  BY ONLY Numerals
<1>5. Taken(c, 3, "resume_bullets") /\ Taken(c, 4, "resume_branches")
  BY <1>2, <1>3, <1>4, <1>n DEF Taken, ds
<1> SUFFICES ASSUME NEW child, <<child, DeletionStatements(c)[i].table>> \in Restricting
             PROVE  Taken(c, i, child)
  BY DEF Orderly
<1> DEFINE table == DeletionStatements(c)[i].table
<1>6. \/ table = "assessment_snapshots" /\ child \in {"self_claims", "resume_branches"}
      \/ table = "job_descriptions" /\ child = "resume_branches"
      \/ table = "resume_branches" /\ child = "resume_bullets"
      \/ table = "raw_logs" /\ child = "gap_questions"
      \/ table = "processing_runs" /\ child \in Produced
  BY RestrictingIs
<1>7. i = 1 \/ i = 2 \/ i = 3 \/ i = 4
  BY ONLY <1>i, <1>n
<1>8. CASE i \in {1, 2}
  BY <1>2, <1>3, <1>6, <1>8 DEF ds
<1>9. CASE i = 3
  BY <1>2, <1>3, <1>5, <1>6, <1>9 DEF ds
<1>10. CASE i = 4
  BY <1>2, <1>3, <1>5, <1>6, <1>10 DEF ds
<1> QED BY <1>7, <1>8, <1>9, <1>10

LEMMA PurgeIs ==
  ASSUME NEW c, c.kind = "purge"
  PROVE  /\ Len(DeletionStatements(c)) = 14
         /\ \A i \in 1 .. 14 : DeletionStatements(c)[i] = Clear(PurgeTableOrder[i])
<1> DEFINE n == Len(PurgeTableOrder)
           all == {Clear(PurgeTableOrder[j]) : j \in 1 .. n}
<1>1. DeletionStatements(c) = PurgeAll
  BY DEF DeletionStatements
<1>2. n = 14
  BY DEF PurgeTableOrder
<1>3. PurgeAll = [j \in 1 .. n |-> Clear(PurgeTableOrder[j])]
  BY DEF PurgeAll
<1> HIDE DEF n
<1>4. PurgeAll \in [1 .. n -> all]
  BY <1>3
<1>5. Len(PurgeAll) = n
  <2> HIDE DEF all
  <2> QED BY <1>2, <1>4
<1> QED BY <1>1, <1>2, <1>3, <1>5

LEMMA PurgeOrderly ==
  ASSUME NEW c, c.kind = "purge", NEW i \in 1 .. Len(DeletionStatements(c))
  PROVE  Orderly(c, i)
<1>1. i \in 1 .. 14 /\ Len(DeletionStatements(c)) = 14
  BY PurgeIs
<1>2. ASSUME NEW j \in 1 .. 14
      PROVE  DeletionStatements(c)[j].table = PurgeTableOrder[j] /\ DeletionStatements(c)[j].rows = Keys
  <2> DEFINE t == PurgeTableOrder[j]
  <2>1. DeletionStatements(c)[j] = Clear(t)
    BY PurgeIs
  <2> HIDE DEF t
  <2>2. Clear(t).table = t /\ Clear(t).rows = Keys
    BY DEF Clear, DeleteFrom
  <2> QED BY <2>1, <2>2 DEF t
<1>3. /\ PurgeTableOrder[1] = "verification_findings" /\ PurgeTableOrder[2] = "resume_bullets"
      /\ PurgeTableOrder[3] = "resume_branches" /\ PurgeTableOrder[4] = "self_claims"
      /\ PurgeTableOrder[5] = "assessment_snapshots" /\ PurgeTableOrder[6] = "gap_questions"
      /\ PurgeTableOrder[7] = "contradictions" /\ PurgeTableOrder[8] = "job_descriptions"
      /\ PurgeTableOrder[9] = "fact_sources" /\ PurgeTableOrder[10] = "experience_facts"
      /\ PurgeTableOrder[11] = "evidence_items" /\ PurgeTableOrder[12] = "raw_logs"
      /\ PurgeTableOrder[13] = "llm_calls" /\ PurgeTableOrder[14] = "processing_runs"
  BY DEF PurgeTableOrder
<1>4. ASSUME NEW j \in 1 .. i - 1
      PROVE  Taken(c, i, PurgeTableOrder[j])
  <2>1. j \in 1 .. 14 /\ j < i
    BY <1>1
  <2>2. DeletionStatements(c)[i].rows \subseteq DeletionStatements(c)[j].rows
    BY <1>1, <1>2, <2>1
  <2>3. DeletionStatements(c)[j].table = PurgeTableOrder[j]
    BY <1>2, <2>1
  <2> HIDE DEF PurgeTableOrder
  <2> QED BY <1>1, <2>1, <2>2, <2>3 DEF Taken
<1> SUFFICES ASSUME NEW child, <<child, DeletionStatements(c)[i].table>> \in Restricting
             PROVE  child = "self_signals" \/ Taken(c, i, child)
  BY DEF Orderly
<1> DEFINE table == PurgeTableOrder[i]
<1>5. \/ table = "assessment_snapshots" /\ child \in {"self_claims", "resume_branches"}
      \/ table = "job_descriptions" /\ child = "resume_branches"
      \/ table = "resume_branches" /\ child = "resume_bullets"
      \/ table = "raw_logs" /\ child = "gap_questions"
      \/ table = "processing_runs" /\ child \in Produced
  <2>1. <<child, table>> \in Restricting
    BY <1>1, <1>2
  <2> HIDE DEF table
  <2> QED BY <2>1, RestrictingIs
<1>6. CASE i \in {1, 2, 4, 6, 7, 9, 10, 11, 13}
  <2>1. table \notin {"assessment_snapshots", "job_descriptions", "resume_branches", "raw_logs", "processing_runs"}
    BY <1>3, <1>6
  <2> QED BY <1>5, <2>1
<1>7. CASE i = 3
  <2>1. 2 \in 1 .. i - 1 /\ child = "resume_bullets"
    BY <1>3, <1>5, <1>7
  <2> QED BY <1>3, <1>4, <2>1
<1>8. CASE i = 5
  <2>1. 4 \in 1 .. i - 1 /\ 3 \in 1 .. i - 1 /\ child \in {"self_claims", "resume_branches"}
    BY <1>3, <1>5, <1>8
  <2> QED BY <1>3, <1>4, <2>1
<1>9. CASE i = 8
  <2>1. 3 \in 1 .. i - 1 /\ child = "resume_branches"
    BY <1>3, <1>5, <1>9
  <2> QED BY <1>3, <1>4, <2>1
<1>10. CASE i = 12
  <2>1. 6 \in 1 .. i - 1 /\ child = "gap_questions"
    BY <1>3, <1>5, <1>10
  <2> QED BY <1>3, <1>4, <2>1
<1>11. CASE i = 14
  <2>1. child \in Produced
    BY <1>3, <1>5, <1>11
  <2>2. /\ 1 \in 1 .. i - 1 /\ 2 \in 1 .. i - 1 /\ 3 \in 1 .. i - 1 /\ 4 \in 1 .. i - 1 /\ 5 \in 1 .. i - 1
        /\ 6 \in 1 .. i - 1 /\ 7 \in 1 .. i - 1 /\ 10 \in 1 .. i - 1 /\ 13 \in 1 .. i - 1
    BY <1>11
  <2>3. /\ Taken(c, i, "verification_findings") /\ Taken(c, i, "resume_bullets")
        /\ Taken(c, i, "resume_branches") /\ Taken(c, i, "self_claims") /\ Taken(c, i, "assessment_snapshots")
        /\ Taken(c, i, "gap_questions") /\ Taken(c, i, "contradictions") /\ Taken(c, i, "experience_facts")
        /\ Taken(c, i, "llm_calls")
    BY <1>3, <1>4, <2>2
  <2> QED BY <2>1, <2>3 DEF Produced
<1>12. i \in {1, 2, 4, 6, 7, 9, 10, 11, 13} \/ i = 3 \/ i = 5 \/ i = 8 \/ i = 12 \/ i = 14
  BY <1>1
<1> QED BY <1>6, <1>7, <1>8, <1>9, <1>10, <1>11, <1>12


(* What the statements before the next one took is gone.                   *)
Cleared(c) ==
  \A j \in 1 .. Len(DeletionStatements(c)) :
    j < c.at /\ DeletionStatements(c)[j].table \in Tables =>
      c.work.rows[DeletionStatements(c)[j].table] \intersect DeletionStatements(c)[j].rows = {}

LEMMA DeletionOrderly ==
  ASSUME NEW c, c.kind \in Deletions, c.target \subseteq Keys, NEW i \in 1 .. Len(DeletionStatements(c))
  PROVE  Orderly(c, i)
<1>1. c.kind = "logs delete" \/ c.kind = "jd delete" \/ c.kind = "purge"
  BY DEF Deletions
<1> QED BY <1>1, LogsOrderly, VacancyOrderly, PurgeOrderly

(* Nothing stops the statement of a deletion.                              *)
LEMMA NotRefused ==
  ASSUME NEW c, c.work.rows["self_signals"] = {}, Cleared(c), c.at \in 1 .. Len(DeletionStatements(c)),
         Orderly(c, c.at), NEW s, s = DeletionStatements(c)[c.at], NEW yes, yes = TRUE
  PROVE  ~ Refused(c.work, s.table, s.rows, yes, yes, yes)
<1> SUFFICES ASSUME Refused(c.work, s.table, s.rows, yes, yes, yes) PROVE FALSE
  OBVIOUS
<1>1. PICK t \in Reached(s.table), child \in Tables :
        <<child, t>> \in Restricting /\ c.work.rows[child] \intersect s.rows # {}
  BY DEF Refused
<1>2. t = s.table
  <2> DEFINE table == s.table
  <2>1. t \in Reached(table)
    OBVIOUS
  <2> HIDE DEF table
  <2>2. t = table
    BY <1>1, <2>1, ReachesRestricted
  <2> QED BY <2>2 DEF table
<1>3. child = "self_signals" \/ Taken(c, c.at, child)
  BY <1>1, <1>2 DEF Orderly
<1>4. child # "self_signals"
  BY <1>1
<1>5. PICK j \in 1 .. Len(DeletionStatements(c)) :
        j < c.at /\ DeletionStatements(c)[j].table = child /\ s.rows \subseteq DeletionStatements(c)[j].rows
  BY <1>3, <1>4 DEF Taken
<1>6. c.work.rows[child] \intersect DeletionStatements(c)[j].rows = {}
  BY <1>5 DEF Cleared
<1> QED BY <1>1, <1>5, <1>6

LEMMA SameStatements ==
  ASSUME NEW c, NEW e, e.kind = c.kind, e.target = c.target
  PROVE  DeletionStatements(e) = DeletionStatements(c)
BY DEF DeletionStatements

(* A statement of a deletion leaves nothing it names, and only removes.    *)
LEMMA StatementClears ==
  ASSUME NEW c, c.kind \in Deletions, c.target \subseteq Keys, c.work \in Database, c.work.sound = TRUE,
         c.at \in 1 .. Len(DeletionStatements(c)), Cleared(c), c.work.rows["self_signals"] = {},
         NEW yes, yes = TRUE,
         NEW next, next = Execute(c.work, DeletionStatements(c)[c.at], yes, yes),
         NEW e, e.kind = c.kind, e.target = c.target, e.at = c.at + 1, e.work = next
  PROVE  next.sound = TRUE /\ Like(c.work, next) /\ Cleared(e)
<1> DEFINE s == DeletionStatements(c)[c.at]
           work == c.work
           ds == DeletionStatements(c)
<1>1. Deleting(c, s) /\ Orderly(c, c.at)
  BY DeletionSure, DeletionOrderly
<1>2. StatementOK(s) /\ s.op = "delete"
  BY <1>1 DEF Deleting
<1>3. ~ Refused(work, s.table, s.rows, yes, yes, yes)
  <2> HIDE DEF s
  <2>1. s = DeletionStatements(c)[c.at]
    BY DEF s
  <2> QED BY <1>1, <2>1, NotRefused
<1>4. work \in Database /\ work.sound = TRUE /\ next = Execute(work, s, yes, yes)
  OBVIOUS
<1>r. work.rows["self_signals"] = {}
  OBVIOUS
<1>d. /\ ds = DeletionStatements(c) /\ s = ds[c.at] /\ c.at \in 1 .. Len(ds) /\ DeletionStatements(e) = ds
      /\ Len(ds) \in Nat
  BY SameStatements, DeletionsCounted
<1>c. \A j \in 1 .. Len(ds) : j < c.at /\ ds[j].table \in Tables => work.rows[ds[j].table] \intersect ds[j].rows = {}
  BY DEF Cleared
<1> HIDE DEF s, work, ds
<1>5. /\ next.sound = TRUE => Follow(work, s, next)
      /\ ~ Refused(work, s.table, s.rows, yes, yes, TRUE) => next.sound = TRUE
      /\ next.sound = TRUE => RowsAfter(work, s, yes, next)
  BY <1>2, <1>4, ExecuteLeaves, ExecuteDoes
<1>6. next.sound = TRUE
  BY <1>3, <1>5
<1>7. /\ next.blank = work.blank /\ next.unreadable = work.unreadable /\ next.shape = work.shape
      /\ next.versions = work.versions
      /\ \A t \in Tables : next.rows[t] = IF t \in Touched(s.table, yes) THEN work.rows[t] \ s.rows ELSE work.rows[t]
  BY <1>2, <1>5, <1>6 DEF Follow, After, RowsAfter
<1>8. \A t \in Tables : next.rows[t] \subseteq work.rows[t]
  BY <1>7
<1>9. s.table \in Tables => next.rows[s.table] \intersect s.rows = {}
  <2>1. s.table \in Touched(s.table, yes)
    BY DEF Touched, Reached
  <2> QED BY <1>7, <2>1
<1>10. Like(work, next)
  <2>1. Stored(next) = Stored(work)
    BY <1>7, StoredSame
  <2>2. "self_signals" \in Tables
    BY TableNames
  <2> QED BY <1>7, <1>8, <2>1, <2>2 DEF Like
<1>11. Cleared(e)
  <2>1. ASSUME NEW j \in 1 .. Len(ds), j < c.at + 1, ds[j].table \in Tables
        PROVE  next.rows[ds[j].table] \intersect ds[j].rows = {}
    <3>1. CASE j < c.at
      BY <1>8, <1>c, <2>1, <3>1
    <3>2. CASE j = c.at
      BY <1>9, <1>d, <2>1, <3>2
    <3>3. j < c.at \/ j = c.at
      <4> DEFINE at == c.at
                 len == Len(ds)
      <4>1. at \in 1 .. len /\ j \in 1 .. len /\ j < at + 1 /\ len \in Nat
        BY <1>d, <2>1
      <4> HIDE DEF at, len
      <4>2. j < at \/ j = at
        BY <4>1
      <4> QED BY <4>2 DEF at
    <3> QED BY <3>1, <3>2, <3>3
  <2>2. e.at = c.at + 1 /\ e.work = next
    OBVIOUS
  <2> QED BY <1>d, <2>1, <2>2 DEF Cleared
<1> QED BY <1>6, <1>10, <1>11 DEF work

(***************************************************************************)
(* What each command is ready for                                          *)
(***************************************************************************)

(* A migration's view of d, before statement i of its step.                *)
Carried(work, i, d) ==
  /\ Alike(d, work)
  /\ Blank(d) => Stored(work) <= 2 /\ (Stored(work) = 2 => i = 1)
  /\ Rowed(work, Stored(work), i)
  /\ Plain(d) => Partly(Stored(work), i, work.shape)

MReady(c, d, es) ==
  /\ c.pc # "start" => Marker \union {"out"} \subseteq es
  /\ c.pc \in {"start", "lock", "check", "backup", "verify", "begin", "step"} => c.at = 1
  /\ c.pc \in {"step", "statements"} => Carried(c.work, c.at, d)
  /\ c.pc \in {"restore", "after"} => Stored(d) = Current

WReady(c, d) ==
  /\ c.pc \in {"begin", "commit"} => Stored(d) = Current
  /\ c.pc = "commit" => Like(d, c.work)

DReady(c, d) ==
  /\ c.pc \in {"begin", "backups", "sets", "rows", "commit", "erase", "hand over", "rebuild"} =>
       Stored(d) = Current
  /\ c.pc \in {"start", "lock", "check", "begin", "backups", "sets"} => c.at = 1
  /\ c.pc \in {"backups", "sets", "rows", "commit"} => Like(d, c.work)
  /\ c.pc = "rows" => Cleared(c)

Ready(c, d, es) ==
  c.pc \notin {"done", "dead"} =>
    /\ c.kind = "migrate" => MReady(c, d, es)
    /\ c.kind \in Writers => WReady(c, d)
    /\ c.kind \in Deletions => DReady(c, d)

(* It did not fail, or something struck, or the data is flawed.            *)
Excused(c, d, left) ==
  c.pc = "done" /\ c.code \in {"internal_error", "migration_failed"} => left < MaxTrouble \/ Spoiled(d)

Steady(d, e) ==
  DbReady(e) /\ (Stored(d) = Current => Stored(e) = Current) /\ (Spoiled(d) => Spoiled(e))

(* What one step of a process does to the database and to its own view.    *)
Fares(p) == Steady(db, db') /\ Ready(cmd'[p], db', entries') /\ Excused(cmd'[p], db', trouble')

LEMMA SteadyItself ==
  ASSUME NEW d, DbReady(d)
  PROVE  Steady(d, d)
BY DEF Steady

LEMMA StrikesLess ==
  ASSUME trouble \in 0 .. MaxTrouble, Strikes
  PROVE  trouble' < MaxTrouble
BY MaxTroubleAssumption DEF Strikes

LEMMA EndsFare ==
  ASSUME Shaped, NEW p \in Procs, NEW c, DOMAIN c = Fields, NEW code, NEW named, NEW reported,
         Ends(p, c, code, named, reported), Steady(db, db'),
         code \in {"internal_error", "migration_failed"} => trouble' < MaxTrouble \/ Spoiled(db')
  PROVE  Fares(p)
<1>1. cmd'[p].pc = "done" /\ cmd'[p].code = (IF c.pending THEN "cancelled" ELSE code)
  BY EndsDoes
<1>2. cmd'[p].code \in {"internal_error", "migration_failed"} => code \in {"internal_error", "migration_failed"}
  BY <1>1
<1> QED BY <1>1, <1>2 DEF Fares, Ready, Excused

LEMMA TurnFares ==
  ASSUME Shaped, NEW p \in Procs, NEW c, DOMAIN c = Fields, Turn(p, c), c.pc # "done",
         Steady(db, db'), Ready(c, db', entries')
  PROVE  Fares(p)
<1>1. cmd'[p] = c
  BY TurnDoes
<1> QED BY <1>1 DEF Fares, Excused


(***************************************************************************)
(* The workspaces commands find                                            *)
(***************************************************************************)

(* Tables with those they refer to, and none of a resume.                  *)
Closed(T) ==
  /\ "raw_logs" \in T
  /\ \A t \in Produced : t \in T => "processing_runs" \in T
  /\ "fact_sources" \in T => "experience_facts" \in T
  /\ "evidence_items" \in T
  /\ "self_claims" \in T => "assessment_snapshots" \in T
  /\ "resume_branches" \notin T /\ "resume_bullets" \notin T

LEMMA TablesClosed ==
  Closed(T1) /\ Closed(T2) /\ Closed(T3) /\ Closed(T4) /\ Closed(T5) /\ Closed(T6) /\ Closed(T7)
    /\ Closed(T9) /\ Closed(T11)
<1>1. Closed(T1)
  BY DEF Closed, T1, Produced
<1>2. /\ "processing_runs" \in T2 /\ T1 \subseteq T2 /\ "fact_sources" \notin T2 /\ "self_claims" \notin T2
      /\ "resume_branches" \notin T2 /\ "resume_bullets" \notin T2
  BY DEF T1, T2
<1>3. /\ T2 \subseteq T3 /\ "experience_facts" \in T3 /\ "self_claims" \notin T3
      /\ "resume_branches" \notin T3 /\ "resume_bullets" \notin T3
  BY <1>2 DEF T3
<1>4. /\ T3 \subseteq T4 /\ "self_claims" \notin T4
      /\ "resume_branches" \notin T4 /\ "resume_bullets" \notin T4
  BY <1>3 DEF T4
<1>5. /\ T4 \subseteq T5 /\ "self_claims" \notin T5
      /\ "resume_branches" \notin T5 /\ "resume_bullets" \notin T5
  BY <1>4 DEF T5
<1>6. /\ T5 \subseteq T6 /\ "assessment_snapshots" \in T6
      /\ "resume_branches" \notin T6 /\ "resume_bullets" \notin T6
  BY <1>5 DEF T6
<1>7. T6 \subseteq T7 /\ "resume_branches" \notin T7 /\ "resume_bullets" \notin T7
  BY <1>6 DEF T7
<1>8. /\ T7 \ {"self_signals"} = T9 /\ "resume_branches" \notin T9 /\ "resume_bullets" \notin T9
  BY <1>7 DEF T9
<1>9. T9 \subseteq T11 /\ "resume_branches" \notin T11 /\ "resume_bullets" \notin T11
  BY <1>8 DEF T11
<1>10. "raw_logs" \in T1 /\ "evidence_items" \in T1
  BY DEF T1
<1> QED BY <1>1, <1>2, <1>3, <1>4, <1>5, <1>6, <1>7, <1>8, <1>9, <1>10 DEF Closed

(* Rows of a table are rows of every table it refers to.                   *)
LEMMA ClosedRooted ==
  ASSUME NEW T, Closed(T), NEW ks, NEW d, \A t \in Tables : d.rows[t] = IF t \in T THEN ks ELSE {}
  PROVE  Rooted(d)
<1> SUFFICES ASSUME NEW r \in References
             PROVE  d.rows[r[1]] \subseteq d.rows[r[2]]
  BY DEF Rooted
<1>1. r[1] \in Tables /\ r[2] \in Tables
  BY ReferencesAre
<1>2. r[1] \in T => r[2] \in T
  <2>1. CASE r \in Cascading
    BY <2>1 DEF Cascading, Closed
  <2>2. CASE r \in Produced \X {"processing_runs"}
    <3>1. r[1] \in Produced /\ r[2] = "processing_runs"
      BY <2>2
    <3> QED BY <3>1 DEF Closed
  <2>3. CASE r \in {<<"self_claims", "assessment_snapshots">>, <<"resume_branches", "assessment_snapshots">>,
                    <<"resume_branches", "job_descriptions">>, <<"resume_bullets", "resume_branches">>}
    BY <2>3 DEF Closed
  <2> QED BY <2>1, <2>2, <2>3 DEF References, Restricting
<1> QED BY <1>1, <1>2

LEMMA VersionTables ==
  ASSUME NEW v \in 1 .. Current
  PROVE  /\ v < Current => Closed(TablesOf(SchemaSQL[v]))
         /\ v >= 9 => "self_signals" \notin TablesOf(SchemaSQL[v])
<1>1. /\ "self_signals" \notin T9 /\ "self_signals" \notin T11 /\ "self_signals" \notin T12
  <2>1. "self_signals" \notin T9
    BY DEF T9
  <2>2. "self_signals" \notin T11
    BY <2>1 DEF T11
  <2> QED BY <2>1, <2>2 DEF T12
<1>2. v \in 1 .. 12
  BY DEF Current
<1>3. \/ v = 1 \/ v = 2 \/ v = 3 \/ v = 4 \/ v = 5 \/ v = 6 \/ v = 7 \/ v = 8 \/ v = 9 \/ v = 10
      \/ v = 11 \/ v = 12
  BY <1>2
<1>4. CASE v = 1 \/ v = 2 \/ v = 3 \/ v = 4
  BY <1>4, TablesListed, TablesClosed, VersionsAre
<1>5. CASE v = 5 \/ v = 6 \/ v = 7 \/ v = 8
  BY <1>5, TablesListed, TablesClosed, VersionsAre
<1>6. CASE v = 9 \/ v = 10
  BY <1>1, <1>6, TablesListed, TablesClosed, VersionsAre
<1>7. CASE v = 11
  BY <1>1, <1>7, TablesListed, TablesClosed, VersionsAre
<1>8. CASE v = 12
  BY <1>1, <1>8, TablesListed, VersionsAre DEF Current
<1> QED BY <1>3, <1>4, <1>5, <1>6, <1>7, <1>8

LEMMA InitialReady ==
  ASSUME NEW v \in 0 .. Current, NEW ks, ks \subseteq Keys, NEW flaw
  PROVE  DbReady(InitialDatabase(v, ks, flaw))
<1>1. CASE v = 0
  <2> DEFINE d == EmptyFile
  <2>1. InitialDatabase(v, ks, flaw) = d
    BY <1>1 DEF InitialDatabase
  <2>2. Stored(d) = 0 /\ d.blank = {} /\ \A t \in Tables : d.rows[t] = {}
    BY EmptyStocked DEF EmptyFile, NoRows
  <2> HIDE DEF d
  <2>3. "resume_branches" \in Tables /\ "raw_logs" \in Tables
    BY TableNames
  <2>4. Rooted(d)
    BY <2>2, ReferencesAre DEF Rooted
  <2>5. ~ (Stored(d) >= 9)
    BY <2>2
  <2>6. DbReady(d)
    BY <2>2, <2>3, <2>4, <2>5 DEF DbReady
  <2> QED BY <2>1, <2>6
<1>2. CASE v # 0
  <2>0. v \in 1 .. Current
    BY <1>2 DEF Current
  <2> DEFINE T == TablesOf(SchemaSQL[v])
             d == InitialDatabase(v, ks, flaw)
  <2>1. /\ d.versions = {v} /\ d.blank \subseteq ks
        /\ \A t \in Tables : d.rows[t] = IF t \in T THEN ks ELSE {}
    BY <1>2 DEF InitialDatabase
  <2> HIDE DEF d, T
  <2>2. Stored(d) = v
    BY <2>0, <2>1, StoredOne
  <2>3. /\ v < Current => Closed(T)
        /\ v >= 9 => "self_signals" \notin T
    BY <2>0, VersionTables DEF T
  <2>4. "resume_branches" \in Tables /\ "raw_logs" \in Tables /\ "self_signals" \in Tables
    BY TableNames
  <2>5. v < Current => Rooted(d) /\ d.rows["resume_branches"] = {} /\ d.blank \subseteq d.rows["raw_logs"]
    <3> SUFFICES ASSUME v < Current
                 PROVE  Rooted(d) /\ d.rows["resume_branches"] = {} /\ d.blank \subseteq d.rows["raw_logs"]
      OBVIOUS
    <3>1. Closed(T)
      BY <2>3
    <3>2. Rooted(d)
      BY <2>1, <3>1, ClosedRooted
    <3>3. "resume_branches" \notin T /\ "raw_logs" \in T
      BY <3>1 DEF Closed
    <3> QED BY <2>1, <2>4, <3>2, <3>3
  <2>6. v >= 9 => d.rows["self_signals"] = {}
    BY <2>1, <2>3, <2>4
  <2>7. v <= 2 => v < Current
    BY <2>0 DEF Current
  <2>8. DbReady(d)
    BY <2>2, <2>5, <2>6, <2>7 DEF DbReady
  <2> QED BY <2>8 DEF d
<1> QED BY <1>1, <1>2


(***************************************************************************)
(* The steps every command takes, captures and imports                     *)
(***************************************************************************)

(* What a step of a command other than init may rely on.                   *)
Faring(p) ==
  /\ Stocked(db) /\ Stock(cmd[p], db) /\ DbReady(db) /\ Ready(cmd[p], db, entries)
  /\ trouble \in 0 .. MaxTrouble /\ cmd[p].kind # "init"

LEMMA LikeSteady ==
  ASSUME NEW d, DbReady(d), Stored(d) = Current, NEW e, Like(d, e)
  PROVE  Steady(d, e)
BY LikeReady DEF Steady

LEMMA GenericFares ==
  ASSUME Shaped, NEW p \in Procs, Faring(p), Lock(p) \/ Busy(p) \/ Gate(p) \/ Check(p) \/ Dies(p)
  PROVE  Fares(p)
<1>0. DOMAIN cmd[p] = Fields
  BY DEF Shaped
<1>d. ASSUME db' = db PROVE Steady(db, db')
  BY <1>d, SteadyItself DEF Faring
<1>r. ASSUME NEW code, Refuses(p, code), db' = db, code \notin {"internal_error", "migration_failed"}
      PROVE  Fares(p)
  BY <1>0, <1>d, <1>r, EndsFare DEF Refuses
<1>w. ASSUME NEW c, c.kind = cmd[p].kind, cmd[p].pc \notin {"done", "dead"}, entries' = entries,
             c.kind = "migrate" => (MReady(cmd[p], db, entries) => MReady(c, db, entries)),
             c.kind \in Writers => (WReady(cmd[p], db) => WReady(c, db)),
             c.kind \in Deletions => (DReady(cmd[p], db) => DReady(c, db))
      PROVE  Ready(c, db, entries')
  BY <1>w DEF Ready, Faring
<1>t. ASSUME NEW c, DOMAIN c = Fields, Turn(p, c), c.pc # "done", db' = db, Ready(c, db, entries')
      PROVE  Fares(p)
  BY <1>d, <1>t, TurnFares
<1>1. CASE Lock(p)
  <2>0. cmd[p].pc = "lock" /\ db' = db /\ entries' = entries
    BY <1>1 DEF Lock, disk
  <2> DEFINE c == [cmd[p] EXCEPT !.pc = "check"]
  <2>1. DOMAIN c = Fields /\ c.kind = cmd[p].kind /\ c.pc = "check" /\ c.at = cmd[p].at
    BY <1>0 DEF Fields
  <2>2. Turn(p, c)
    BY <1>1 DEF Lock, Go
  <2> HIDE DEF c
  <2>3. MReady(cmd[p], db, entries) => MReady(c, db, entries)
    BY <2>0, <2>1 DEF MReady
  <2>4. WReady(c, db)
    BY <2>1 DEF WReady
  <2>5. DReady(cmd[p], db) => DReady(c, db)
    BY <2>0, <2>1 DEF DReady
  <2>6. Ready(c, db, entries')
    BY <1>w, <2>0, <2>1, <2>3, <2>4, <2>5
  <2> QED BY <1>t, <2>0, <2>1, <2>2, <2>6
<1>2. CASE Busy(p)
  BY <1>2, <1>r DEF Busy, disk
<1>3. CASE Gate(p)
  <2>0. cmd[p].pc = "start" /\ db' = db /\ cmd[p].kind \in Writers \union Deletions /\ entries' = entries
    BY <1>3 DEF Gate, disk
  <2>1. CASE Refuses(p, "schema_incompatible") \/ Refuses(p, "selector_not_found")
    BY <1>r, <2>0, <2>1
  <2>2. ASSUME NEW k \in Keys,
               Turn(p, [cmd[p] EXCEPT !.pc = "lock",
                              !.target = IF cmd[p].kind \in {"import", "purge"} THEN {} ELSE {k}])
        PROVE  Fares(p)
    <3> DEFINE c == [cmd[p] EXCEPT !.pc = "lock",
                              !.target = IF cmd[p].kind \in {"import", "purge"} THEN {} ELSE {k}]
    <3>1. DOMAIN c = Fields /\ c.kind = cmd[p].kind /\ c.pc = "lock" /\ c.at = cmd[p].at
      BY <1>0 DEF Fields
    <3>2. Turn(p, c)
      BY <2>2
    <3> HIDE DEF c
    <3>3. c.kind # "migrate"
      BY <2>0, <3>1, KindsDiffer
    <3>4. WReady(c, db)
      BY <3>1 DEF WReady
    <3>5. DReady(cmd[p], db) => DReady(c, db)
      BY <2>0, <3>1 DEF DReady
    <3>6. Ready(c, db, entries')
      BY <1>w, <2>0, <3>1, <3>3, <3>4, <3>5
    <3> QED BY <1>t, <2>0, <3>1, <3>2, <3>6
  <2> QED BY <1>3, <2>1, <2>2 DEF Gate
<1>4. CASE Check(p)
  <2>0. cmd[p].pc = "check" /\ db' = db /\ cmd[p].kind \in Writers \union Deletions /\ entries' = entries
    BY <1>4 DEF Check, disk
  <2>1. CASE Refuses(p, "schema_incompatible")
    BY <1>r, <2>0, <2>1
  <2> DEFINE c == [cmd[p] EXCEPT !.pc = "begin",
                        !.retained = IF cmd[p].kind = "import" THEN db.rows["raw_logs"] ELSE {}]
  <2>2. CASE Stored(db) = Current /\ Turn(p, c)
    <3>1. DOMAIN c = Fields /\ c.kind = cmd[p].kind /\ c.pc = "begin" /\ c.at = cmd[p].at
      BY <1>0 DEF Fields
    <3> HIDE DEF c
    <3>3. c.kind # "migrate"
      BY <2>0, <3>1, KindsDiffer
    <3>4. WReady(c, db)
      BY <2>2, <3>1 DEF WReady
    <3>5. DReady(cmd[p], db) => DReady(c, db)
      BY <2>0, <2>2, <3>1 DEF DReady
    <3>6. Ready(c, db, entries')
      BY <1>w, <2>0, <3>1, <3>3, <3>4, <3>5
    <3> QED BY <1>t, <2>0, <2>2, <3>1, <3>6
  <2> QED BY <1>4, <2>1, <2>2 DEF Check
<1>5. CASE Dies(p)
  <2>1. db' = db /\ cmd'[p].pc = "dead"
    BY <1>0, <1>5 DEF Dies, disk, Shaped, Fields
  <2> QED BY <1>d, <2>1 DEF Fares, Ready, Excused
<1> QED BY <1>1, <1>2, <1>3, <1>4, <1>5

(* A writer's commit leaves what was there like it was.                    *)
LEMMA WriterSteady ==
  ASSUME NEW p \in Procs, Faring(p), cmd[p].kind \in Writers, cmd[p].pc = "commit", db' = cmd[p].work
  PROVE  Steady(db, db')
<1>1. Stored(db) = Current /\ Like(db, cmd[p].work)
  BY DEF Faring, Ready, WReady
<1> QED BY <1>1, LikeSteady DEF Faring

LEMMA CaptureFares ==
  ASSUME Shaped, NEW p \in Procs, Faring(p), CaptureStep(p)
  PROVE  Fares(p)
<1>0. DOMAIN cmd[p] = Fields
  BY DEF Shaped
<1>k. cmd[p].kind = "capture" /\ "capture" \in Writers
  BY DEF CaptureStep, CaptureWrites, CaptureCommits, CaptureReports, CaptureCommitFails, CaptureFails,
         CaptureInterrupted, At, Writers
<1>s. cmd[p].pc \notin {"done", "dead"} => WReady(cmd[p], db) /\ WriterStock(cmd[p], db)
  BY <1>k DEF Faring, Ready, Stock
<1>w. ASSUME NEW c, c.kind = "capture", NEW d, WReady(c, d)
      PROVE  Ready(c, d, entries')
  BY <1>k, <1>w, KindsDiffer DEF Ready
<1>d. ASSUME db' = db PROVE Steady(db, db')
  BY <1>d, SteadyItself DEF Faring
<1>x. ASSUME Strikes PROVE trouble' < MaxTrouble
  BY <1>x, StrikesLess DEF Faring
<1>e. ASSUME NEW c, DOMAIN c = Fields, NEW code, NEW named, NEW reported,
             Ends(p, c, code, named, reported), db' = db,
             code \notin {"internal_error", "migration_failed"} \/ Strikes
      PROVE  Fares(p)
  BY <1>d, <1>e, <1>x, EndsFare
<1>1. CASE CaptureWrites(p)
  <2>0. cmd[p].pc = "begin" /\ db' = db
    BY <1>1 DEF CaptureWrites, At, disk
  <2>1. PICK k \in cmd[p].target :
          Turn(p, [cmd[p] EXCEPT !.pc = "commit", !.work = WithLog(db, k), !.deferred = TRUE])
    BY <1>1 DEF CaptureWrites
  <2> DEFINE c == [cmd[p] EXCEPT !.pc = "commit", !.work = WithLog(db, k), !.deferred = TRUE]
  <2>2. DOMAIN c = Fields /\ c.kind = "capture" /\ c.pc = "commit" /\ c.work = WithLog(db, k)
    BY <1>0, <1>k DEF Fields
  <2>3. Turn(p, c)
    BY <2>1
  <2> HIDE DEF c
  <2>4. k \in Keys
    BY <1>s, <2>0 DEF WriterStock
  <2>5. Like(db, WithLog(db, k))
    BY <2>4, WithLogLike DEF Faring
  <2>6. WReady(c, db)
    BY <1>s, <2>0, <2>2, <2>5 DEF WReady
  <2>7. Ready(c, db', entries')
    BY <1>w, <2>0, <2>2, <2>6
  <2> QED BY <1>d, <2>0, <2>2, <2>3, <2>7, TurnFares
<1>2. CASE CaptureCommits(p)
  <2>0. cmd[p].pc = "commit" /\ db' = cmd[p].work
    BY <1>2 DEF CaptureCommits, At
  <2> DEFINE c == [cmd[p] EXCEPT !.pc = "close", !.durable = cmd[p].target]
  <2>1. DOMAIN c = Fields /\ c.kind = "capture" /\ c.pc = "close"
    BY <1>0, <1>k DEF Fields
  <2>2. Turn(p, c)
    BY <1>2 DEF CaptureCommits
  <2> HIDE DEF c
  <2>3. WReady(c, db')
    BY <2>1 DEF WReady
  <2>4. Ready(c, db', entries')
    BY <1>w, <2>1, <2>3
  <2>5. Steady(db, db')
    BY <1>k, <2>0, WriterSteady
  <2> QED BY <2>1, <2>2, <2>4, <2>5, TurnFares
<1>3. CASE CaptureReports(p)
  BY <1>0, <1>3, <1>e DEF CaptureReports, disk
<1>4. CASE CaptureCommitFails(p)
  <2>0. cmd[p].pc = "commit" /\ Strikes
    BY <1>4 DEF CaptureCommitFails, At
  <2>1. PICK durable \in BOOLEAN, known \in BOOLEAN :
          /\ db' = IF durable THEN cmd[p].work ELSE db
          /\ Ends(p, [cmd[p] EXCEPT !.durable = IF durable THEN cmd[p].target ELSE {},
                                 !.detached = ~ known],
               "internal_error", IF durable /\ known THEN cmd[p].target ELSE {}, {})
    BY <1>4 DEF CaptureCommitFails
  <2> DEFINE c == [cmd[p] EXCEPT !.durable = IF durable THEN cmd[p].target ELSE {}, !.detached = ~ known]
             named == IF durable /\ known THEN cmd[p].target ELSE {}
  <2>2. Ends(p, c, "internal_error", named, {}) /\ DOMAIN c = Fields
    BY <1>0, <2>1
  <2> HIDE DEF c, named
  <2>3. CASE db' = db
    BY <1>e, <2>0, <2>2, <2>3
  <2>4. CASE db' = cmd[p].work
    <3>1. Steady(db, db')
      BY <1>k, <2>0, <2>4, WriterSteady
    <3> QED BY <1>x, <2>0, <2>2, <3>1, EndsFare
  <2> QED BY <2>1, <2>3, <2>4
<1>5. CASE CaptureFails(p)
  BY <1>0, <1>5, <1>e DEF CaptureFails, disk
<1>6. CASE CaptureInterrupted(p)
  <2>0. cmd[p].pc \notin {"done", "dead"} /\ db' = db
    BY <1>6 DEF CaptureInterrupted, Live, disk
  <2>1. CASE Turn(p, [cmd[p] EXCEPT !.pending = TRUE])
    <3> DEFINE c == [cmd[p] EXCEPT !.pending = TRUE]
    <3>1. DOMAIN c = Fields /\ c.kind = "capture" /\ c.pc = cmd[p].pc /\ c.work = cmd[p].work
      BY <1>0, <1>k DEF Fields
    <3>2. Turn(p, c)
      BY <2>1
    <3> HIDE DEF c
    <3>3. WReady(c, db')
      BY <1>s, <2>0, <3>1 DEF WReady
    <3>4. Ready(c, db', entries')
      BY <1>w, <3>1, <3>3
    <3> QED BY <1>d, <2>0, <3>1, <3>2, <3>4, TurnFares
  <2>2. CASE Refuses(p, "cancelled")
    BY <1>0, <1>e, <2>0, <2>2 DEF Refuses
  <2> QED BY <1>6, <2>1, <2>2 DEF CaptureInterrupted
<1> QED BY <1>1, <1>2, <1>3, <1>4, <1>5, <1>6 DEF CaptureStep

LEMMA ImportFares ==
  ASSUME Shaped, NEW p \in Procs, Faring(p), ImportStep(p)
  PROVE  Fares(p)
<1>0. DOMAIN cmd[p] = Fields
  BY DEF Shaped
<1>k. cmd[p].kind = "import" /\ "import" \in Writers
  BY DEF ImportStep, ImportClassifies, ImportCommits, ImportCollides, ImportCloses, ImportReports,
         ImportCutOff, At, Writers
<1>s. cmd[p].pc \notin {"done", "dead"} => WReady(cmd[p], db) /\ WriterStock(cmd[p], db)
  BY <1>k DEF Faring, Ready, Stock
<1>w. ASSUME NEW c, c.kind = "import", NEW d, WReady(c, d)
      PROVE  Ready(c, d, entries')
  BY <1>k, <1>w, KindsDiffer DEF Ready
<1>d. ASSUME db' = db PROVE Steady(db, db')
  BY <1>d, SteadyItself DEF Faring
<1>x. ASSUME Strikes PROVE trouble' < MaxTrouble
  BY <1>x, StrikesLess DEF Faring
<1>e. ASSUME NEW c, DOMAIN c = Fields, NEW code, NEW named, NEW reported,
             Ends(p, c, code, named, reported), db' = db,
             code \notin {"internal_error", "migration_failed"} \/ Strikes
      PROVE  Fares(p)
  BY <1>d, <1>e, <1>x, EndsFare
<1>t. ASSUME NEW c, DOMAIN c = Fields, Turn(p, c), c.kind = "import", c.pc # "done", db' = db, WReady(c, db)
      PROVE  Fares(p)
  <2>1. Ready(c, db', entries')
    BY <1>t, <1>w
  <2> QED BY <1>d, <1>t, <2>1, TurnFares
<1>1. CASE ImportClassifies(p)
  <2> DEFINE k == Head(cmd[p].todo)
             skipped == [cmd[p] EXCEPT !.todo = Tail(@), !.attempts = 0]
             c == [cmd[p] EXCEPT !.pc = "commit", !.work = WithLog(db, k), !.accepted = Append(@, k)]
  <2>0. cmd[p].pc = "begin" /\ db' = db /\ cmd[p].todo # <<>>
    BY <1>1 DEF ImportClassifies, At, disk
  <2>s. WReady(cmd[p], db) /\ WriterStock(cmd[p], db)
    BY <1>s, <2>0
  <2>k. k \in Keys
    BY <2>0, <2>s, TailTyped DEF WriterStock
  <2>1. CASE Turn(p, skipped)
    <3>1. DOMAIN skipped = Fields /\ skipped.kind = "import" /\ skipped.pc = "begin"
      BY <1>0, <1>k, <2>0 DEF Fields
    <3> HIDE DEF skipped
    <3>2. WReady(skipped, db)
      BY <2>0, <2>s, <3>1 DEF WReady
    <3> QED BY <1>t, <2>0, <2>1, <3>1, <3>2
  <2>2. CASE Turn(p, c)
    <3>1. DOMAIN c = Fields /\ c.kind = "import" /\ c.pc = "commit" /\ c.work = WithLog(db, k)
      BY <1>0, <1>k DEF Fields
    <3> HIDE DEF c, k
    <3>2. Like(db, WithLog(db, k))
      BY <2>k, WithLogLike DEF Faring
    <3>3. WReady(c, db)
      BY <2>0, <2>s, <3>1, <3>2 DEF WReady
    <3> QED BY <1>t, <2>0, <2>2, <3>1, <3>3
  <2> QED BY <1>1, <2>1, <2>2 DEF ImportClassifies
<1>2. CASE ImportCommits(p)
  <2>0. cmd[p].pc = "commit" /\ db' = cmd[p].work
    BY <1>2 DEF ImportCommits, At
  <2> DEFINE k == Head(cmd[p].todo)
             c == [cmd[p] EXCEPT !.pc = "begin", !.todo = Tail(@), !.attempts = 0,
                   !.retained = @ \union {k}, !.durable = @ \union {k}]
  <2>1. DOMAIN c = Fields /\ c.kind = "import" /\ c.pc = "begin"
    BY <1>0, <1>k DEF Fields
  <2>2. Turn(p, c)
    BY <1>2 DEF ImportCommits
  <2> HIDE DEF c
  <2>3. Steady(db, db')
    BY <1>k, <2>0, WriterSteady
  <2>4. Stored(db') = Current
    BY <1>s, <2>0, <2>3 DEF Steady, WReady
  <2>5. WReady(c, db')
    BY <2>1, <2>4 DEF WReady
  <2>6. Ready(c, db', entries')
    BY <1>w, <2>1, <2>5
  <2> QED BY <2>1, <2>2, <2>3, <2>6, TurnFares
<1>3. CASE ImportCollides(p)
  <2>0. cmd[p].pc = "commit" /\ db' = db /\ Strikes
    BY <1>3 DEF ImportCollides, At, disk
  <2> DEFINE c == [WithoutCandidate(cmd[p]) EXCEPT !.pc = "begin", !.attempts = @ + 1]
             named == {c.accepted[i] : i \in 1 .. Len(c.accepted)}
  <2>1. DOMAIN c = Fields /\ c.kind = "import" /\ c.pc = "begin"
    BY <1>0, <1>k DEF Fields, WithoutCandidate
  <2>2. Turn(p, c) \/ Ends(p, c, "internal_error", named, {})
    BY <1>3 DEF ImportCollides
  <2> HIDE DEF c, named
  <2>3. CASE Turn(p, c)
    <3>1. WReady(c, db)
      BY <1>s, <2>0, <2>1 DEF WReady
    <3> QED BY <1>t, <2>0, <2>1, <2>3, <3>1
  <2>4. CASE Ends(p, c, "internal_error", named, {})
    BY <1>e, <2>0, <2>1, <2>4
  <2> QED BY <2>2, <2>3, <2>4
<1>4. CASE ImportCloses(p)
  <2>0. cmd[p].pc = "begin" /\ db' = db
    BY <1>4 DEF ImportCloses, At, disk
  <2> DEFINE c == [cmd[p] EXCEPT !.pc = "hand over"]
  <2>1. DOMAIN c = Fields /\ c.kind = "import" /\ c.pc = "hand over"
    BY <1>0, <1>k DEF Fields
  <2>2. Turn(p, c)
    BY <1>4 DEF ImportCloses, Go
  <2> HIDE DEF c
  <2>3. WReady(c, db)
    BY <2>1 DEF WReady
  <2> QED BY <1>t, <2>0, <2>1, <2>2, <2>3
<1>5. CASE ImportReports(p)
  BY <1>0, <1>5, <1>e DEF ImportReports, disk
<1>6. CASE ImportCutOff(p)
  <2> DEFINE c == [cmd[p] EXCEPT !.detached = TRUE]
  <2>1. DOMAIN c = Fields /\ Ends(p, c, "cancelled", {}, {}) /\ db' = db
    BY <1>0, <1>6 DEF ImportCutOff, disk
  <2> HIDE DEF c
  <2> QED BY <1>e, <2>1
<1> QED BY <1>1, <1>2, <1>3, <1>4, <1>5, <1>6 DEF ImportStep

LEMMA StruckFares ==
  ASSUME Shaped, NEW p \in Procs, Faring(p), Struck(p)
  PROVE  Fares(p)
<1>0. DOMAIN cmd[p] = Fields
  BY DEF Shaped
<1>1. PICK code \in {"internal_error", "cancelled"} : MigrateStruck(p, code) \/ ImportStruck(p, code)
  BY DEF Struck, Faring, InitStruck
<1>d. ASSUME db' = db PROVE Steady(db, db')
  BY <1>d, SteadyItself DEF Faring
<1>x. trouble' < MaxTrouble
  <2>1. Strikes
    BY DEF Struck
  <2> QED BY <2>1, StrikesLess DEF Faring
<1>3. CASE MigrateStruck(p, code)
  <2> DEFINE said == IF code = "internal_error" /\ cmd[p].pc \notin {"start", "lock", "after"}
                     THEN "migration_failed" ELSE code
  <2>1. db' = db /\ Ends(p, cmd[p], said, {}, cmd[p].residuals)
    BY <1>3 DEF MigrateStruck
  <2> HIDE DEF said
  <2> QED BY <1>0, <1>d, <1>x, <2>1, EndsFare
<1>4. CASE ImportStruck(p, code)
  <2>k. cmd[p].kind = "import" /\ "import" \in Writers
    BY <1>4 DEF ImportStruck, Writers
  <2> DEFINE C(ended) == IF cmd[p].pc = "commit" /\ ~ ended THEN WithoutCandidate(cmd[p])
                ELSE IF cmd[p].pc = "commit" THEN [cmd[p] EXCEPT !.durable = @ \union {Head(cmd[p].todo)}]
                ELSE cmd[p]
             Named(c) == {c.accepted[i] : i \in 1 .. Len(c.accepted)}
  <2>1. PICK ended \in BOOLEAN :
          /\ ended => cmd[p].pc = "commit"
          /\ db' = IF ended THEN cmd[p].work ELSE db
          /\ Ends(p, C(ended), code, Named(C(ended)), {})
    BY <1>4 DEF ImportStruck
  <2> DEFINE c == C(ended)
             named == Named(c)
  <2>2. DOMAIN c = Fields
    BY <1>0 DEF WithoutCandidate, Fields
  <2>3. Ends(p, c, code, named, {})
    BY <2>1
  <2> HIDE DEF c, named
  <2>4. Steady(db, db')
    <3>1. CASE db' = db
      BY <1>d, <3>1
    <3>2. CASE ended /\ db' = cmd[p].work
      BY <2>k, <2>1, <3>2, WriterSteady
    <3> QED BY <2>1, <3>1, <3>2
  <2> QED BY <1>x, <2>2, <2>3, <2>4, EndsFare
<1> QED BY <1>1, <1>3, <1>4


(***************************************************************************)
(* Deletions                                                               *)
(***************************************************************************)

LEMMA ClearedSame ==
  ASSUME NEW c, NEW e, e.kind = c.kind, e.target = c.target, e.at = c.at, e.work = c.work, Cleared(c)
  PROVE  Cleared(e)
BY SameStatements DEF Cleared

LEMMA ClearedFirst ==
  ASSUME NEW c, c.at = 1
  PROVE  Cleared(c)
BY DEF Cleared

(* A step that leaves the selector, the statements passed and the view.    *)
LEMMA DeletionStaysReady ==
  ASSUME NEW c, NEW e, e.kind = c.kind, e.target = c.target, e.at = c.at, e.work = c.work,
         NEW d, DReady(c, d),
         \/ e.pc = c.pc
         \/ c.pc \in {"backups", "sets"} /\ e.pc \in {"sets", "rows"}
         \/ c.pc \in {"erase", "hand over"} /\ e.pc \in {"hand over", "close", "rebuild"}
  PROVE  DReady(e, d)
<1>1. CASE e.pc = c.pc
  <2>1. Cleared(c) => Cleared(e)
    BY ClearedSame
  <2> QED BY <1>1, <2>1 DEF DReady
<1>2. CASE c.pc \in {"backups", "sets"} /\ e.pc \in {"sets", "rows"}
  <2>1. Stored(d) = Current /\ e.at = 1 /\ Like(d, e.work)
    BY <1>2 DEF DReady
  <2>2. Cleared(e)
    BY <2>1, ClearedFirst
  <2> QED BY <2>1, <2>2 DEF DReady
<1>3. CASE c.pc \in {"erase", "hand over"} /\ e.pc \in {"hand over", "close", "rebuild"}
  BY <1>3 DEF DReady
<1> QED BY <1>1, <1>2, <1>3

LEMMA DeletionSteady ==
  ASSUME NEW p \in Procs, Faring(p), cmd[p].kind \in Deletions, cmd[p].pc = "commit", db' = cmd[p].work
  PROVE  Steady(db, db')
<1>1. Stored(db) = Current /\ Like(db, cmd[p].work)
  BY DEF Faring, Ready, DReady
<1> QED BY <1>1, LikeSteady DEF Faring

LEMMA DeletionFares ==
  ASSUME Shaped, NEW p \in Procs, Faring(p), DeletionStep(p)
  PROVE  Fares(p)
<1>0. DOMAIN cmd[p] = Fields
  BY DEF Shaped
<1>k. cmd[p].kind \in Deletions
  BY DEF DeletionStep, DeletionBegins, RemovesBackup, BackupsRemoved, RemovesSet, SetsRemoved,
         DeletesRows, RowsDeleted, DeletionCommits, Erases, DeletionReports, LogsRebuild, LogsRebuilt,
         DeletionFails, DeletionInterrupted, At, Deletions
<1>s. cmd[p].pc \notin {"done", "dead"} => DReady(cmd[p], db) /\ DeletionStock(cmd[p], db)
  BY <1>k DEF Faring, Ready, Stock
<1>w. ASSUME NEW c, c.kind = cmd[p].kind, NEW d, DReady(c, d)
      PROVE  Ready(c, d, entries')
  BY <1>k, <1>w, KindsDiffer DEF Ready
<1>d. ASSUME db' = db PROVE Steady(db, db')
  BY <1>d, SteadyItself DEF Faring
<1>x. ASSUME Strikes PROVE trouble' < MaxTrouble
  BY <1>x, StrikesLess DEF Faring
<1>e. ASSUME NEW c, DOMAIN c = Fields, NEW code, NEW named, NEW reported,
             Ends(p, c, code, named, reported), db' = db,
             code \notin {"internal_error", "migration_failed"} \/ Strikes
      PROVE  Fares(p)
  BY <1>d, <1>e, <1>x, EndsFare
<1>r. ASSUME NEW code, Refuses(p, code), db' = db, code \notin {"internal_error", "migration_failed"} \/ Strikes
      PROVE  Fares(p)
  BY <1>0, <1>e, <1>r DEF Refuses
<1>t. ASSUME NEW c, DOMAIN c = Fields, Turn(p, c), c.kind = cmd[p].kind, c.pc # "done", DReady(c, db), db' = db
      PROVE  Fares(p)
  <2>1. Ready(c, db', entries')
    BY <1>t, <1>w
  <2> QED BY <1>d, <1>t, <2>1, TurnFares
(* A cleaning step: it stays, or passes on, with the view as it is.        *)
<1>c. ASSUME NEW c, DOMAIN c = Fields, Turn(p, c), db' = db, c.pc # "done",
             c.kind = cmd[p].kind, c.target = cmd[p].target, c.at = cmd[p].at, c.work = cmd[p].work,
             cmd[p].pc \notin {"done", "dead"},
             \/ c.pc = cmd[p].pc
             \/ cmd[p].pc \in {"backups", "sets"} /\ c.pc \in {"sets", "rows"}
             \/ cmd[p].pc \in {"erase", "hand over"} /\ c.pc \in {"hand over", "close", "rebuild"}
      PROVE  Fares(p)
  <2>1. DReady(c, db)
    BY <1>c, <1>s, DeletionStaysReady
  <2> QED BY <1>c, <1>t, <2>1
<1>1. CASE DeletionBegins(p)
  <2>0. cmd[p].pc = "begin" /\ db' = db
    BY <1>1 DEF DeletionBegins, disk
  <2>1. CASE Turn(p, [cmd[p] EXCEPT !.pc = "backups", !.work = db, !.unproven = {AllBackups}])
    <3> DEFINE c == [cmd[p] EXCEPT !.pc = "backups", !.work = db, !.unproven = {AllBackups}]
    <3>1. DOMAIN c = Fields /\ c.kind = cmd[p].kind /\ c.at = cmd[p].at /\ c.work = db /\ c.pc = "backups"
      BY <1>0 DEF Fields
    <3>2. Turn(p, c)
      BY <2>1
    <3> HIDE DEF c
    <3>3. Like(db, db)
      BY LikeItself
    <3>4. DReady(c, db)
      BY <1>s, <2>0, <3>1, <3>3 DEF DReady
    <3> QED BY <1>t, <2>0, <3>1, <3>2, <3>4
  <2>2. CASE Refuses(p, "selector_not_found")
    BY <1>r, <2>0, <2>2
  <2> QED BY <1>1, <2>1, <2>2 DEF DeletionBegins
<1>2. CASE RemovesBackup(p)
  <2>0. cmd[p].pc = "backups" /\ db' = db
    BY <1>2 DEF RemovesBackup
  <2>1. PICK b \in backups :
          \/ Turn(p, [cmd[p] EXCEPT !.unlinks = @ \union {<<"backup", b.of>>}])
          \/ Turn(p, [cmd[p] EXCEPT !.refused = @ \union {<<"backup", b.of>>}])
    BY <1>2 DEF RemovesBackup
  <2> DEFINE c == [cmd[p] EXCEPT !.unlinks = @ \union {<<"backup", b.of>>}]
             e == [cmd[p] EXCEPT !.refused = @ \union {<<"backup", b.of>>}]
  <2>2. /\ DOMAIN c = Fields /\ c.kind = cmd[p].kind /\ c.target = cmd[p].target /\ c.at = cmd[p].at
        /\ c.work = cmd[p].work /\ c.pc = cmd[p].pc
        /\ DOMAIN e = Fields /\ e.kind = cmd[p].kind /\ e.target = cmd[p].target /\ e.at = cmd[p].at
        /\ e.work = cmd[p].work /\ e.pc = cmd[p].pc
    BY <1>0 DEF Fields
  <2>3. Turn(p, c) \/ Turn(p, e)
    BY <2>1
  <2>4. cmd[p].pc \notin {"done", "dead"}
    BY <2>0
  <2> HIDE DEF c, e
  <2> QED BY <1>c, <2>0, <2>2, <2>3, <2>4
<1>3. CASE BackupsRemoved(p)
  <2>0. cmd[p].pc = "backups" /\ db' = db
    BY <1>3 DEF BackupsRemoved, disk
  <2> DEFINE c == [cmd[p] EXCEPT !.pc = "sets", !.residuals = @ \union BackupPlaces,
                       !.refused = {}, !.unproven = {ManagedRoot(cmd[p])}]
             e == [cmd[p] EXCEPT !.pc = "sets", !.residuals = @ \union {AllBackups},
                       !.unlinks = {}, !.refused = {}, !.unproven = {ManagedRoot(cmd[p])}]
  <2>2. /\ DOMAIN c = Fields /\ c.kind = cmd[p].kind /\ c.target = cmd[p].target /\ c.at = cmd[p].at
        /\ c.work = cmd[p].work /\ c.pc = "sets"
        /\ DOMAIN e = Fields /\ e.kind = cmd[p].kind /\ e.target = cmd[p].target /\ e.at = cmd[p].at
        /\ e.work = cmd[p].work /\ e.pc = "sets"
    BY <1>0 DEF Fields
  <2>3. Turn(p, c) \/ Turn(p, e)
    BY <1>3 DEF BackupsRemoved
  <2>4. cmd[p].pc \notin {"done", "dead"}
    BY <2>0
  <2> HIDE DEF c, e
  <2> QED BY <1>c, <2>0, <2>2, <2>3, <2>4
<1>4. CASE RemovesSet(p)
  <2>0. cmd[p].pc = "sets" /\ db' = db
    BY <1>4 DEF RemovesSet
  <2>1. PICK s \in Managed(cmd[p]) \ cmd[p].refused :
          \/ Turn(p, [cmd[p] EXCEPT !.unlinks = IF cmd[p].kind = "jd delete" THEN @ \union {s} ELSE @])
          \/ Turn(p, [cmd[p] EXCEPT !.refused = @ \union {s}])
    BY <1>4 DEF RemovesSet
  <2> DEFINE c == [cmd[p] EXCEPT !.unlinks = IF cmd[p].kind = "jd delete" THEN @ \union {s} ELSE @]
             e == [cmd[p] EXCEPT !.refused = @ \union {s}]
  <2>2. /\ DOMAIN c = Fields /\ c.kind = cmd[p].kind /\ c.target = cmd[p].target /\ c.at = cmd[p].at
        /\ c.work = cmd[p].work /\ c.pc = cmd[p].pc
        /\ DOMAIN e = Fields /\ e.kind = cmd[p].kind /\ e.target = cmd[p].target /\ e.at = cmd[p].at
        /\ e.work = cmd[p].work /\ e.pc = cmd[p].pc
    BY <1>0 DEF Fields
  <2>3. Turn(p, c) \/ Turn(p, e)
    BY <2>1
  <2>4. cmd[p].pc \notin {"done", "dead"}
    BY <2>0
  <2> HIDE DEF c, e
  <2> QED BY <1>c, <2>0, <2>2, <2>3, <2>4
<1>5. CASE SetsRemoved(p)
  <2>0. cmd[p].pc = "sets" /\ db' = db
    BY <1>5 DEF SetsRemoved, disk
  <2> DEFINE c == [cmd[p] EXCEPT !.pc = "rows", !.residuals = @ \union Managed(cmd[p]),
                       !.refused = {}, !.unproven = {}]
             e == [cmd[p] EXCEPT !.pc = "rows", !.residuals = @ \union Stranded(cmd[p]),
                       !.refused = {}, !.unproven = {}]
  <2>2. /\ DOMAIN c = Fields /\ c.kind = cmd[p].kind /\ c.target = cmd[p].target /\ c.at = cmd[p].at
        /\ c.work = cmd[p].work /\ c.pc = "rows"
        /\ DOMAIN e = Fields /\ e.kind = cmd[p].kind /\ e.target = cmd[p].target /\ e.at = cmd[p].at
        /\ e.work = cmd[p].work /\ e.pc = "rows"
    BY <1>0 DEF Fields
  <2>3. Turn(p, c) \/ Turn(p, e)
    BY <1>5 DEF SetsRemoved
  <2>4. cmd[p].pc \notin {"done", "dead"}
    BY <2>0
  <2> HIDE DEF c, e
  <2> QED BY <1>c, <2>0, <2>2, <2>3, <2>4
<1>6. CASE DeletesRows(p)
  <2> DEFINE b == cmd[p]
             yes == TRUE
             next == Execute(b.work, DeletionStatements(b)[b.at], yes, yes)
             c == [b EXCEPT !.work = next, !.at = @ + 1]
  <2>0. /\ b.pc = "rows" /\ db' = db /\ b.at <= Len(DeletionStatements(b))
        /\ IF next.sound THEN Turn(p, c) ELSE Refuses(p, "internal_error")
    BY <1>6 DEF DeletesRows, disk
  <2>1. /\ b.target \subseteq Keys /\ b.at \in Nat \ {0} /\ b.work \in Database /\ b.work.sound = TRUE
        /\ Stored(db) = Current /\ Like(db, b.work) /\ Cleared(b)
    BY <1>s, <2>0 DEF DeletionStock, DReady
  <2>2. b.at \in 1 .. Len(DeletionStatements(b))
    <3> DEFINE len == Len(DeletionStatements(b))
               i == b.at
    <3>1. len \in Nat /\ i \in Nat \ {0} /\ i <= len
      BY <1>k, <2>0, <2>1, DeletionsCounted
    <3> HIDE DEF len, i
    <3>2. i \in 1 .. len
      BY <3>1
    <3> QED BY <3>2 DEF len, i
  <2>3. b.work.rows["self_signals"] = {}
    <3>1. DbReady(db) /\ Stored(db) >= 9
      BY <2>1 DEF Faring, Current
    <3> QED BY <2>1, <3>1 DEF Like, DbReady
  <2>4. /\ DOMAIN c = Fields /\ c.kind = b.kind /\ c.target = b.target /\ c.at = b.at + 1
        /\ c.work = next /\ c.pc = "rows"
    BY <1>0, <2>0 DEF Fields
  <2>5. next = Execute(b.work, DeletionStatements(b)[b.at], yes, yes) /\ yes = TRUE /\ b.kind \in Deletions
    BY <1>k
  <2>6. IF next.sound THEN Turn(p, c) ELSE Refuses(p, "internal_error")
    BY <2>0
  <2>b. b.kind = cmd[p].kind
    OBVIOUS
  <2> HIDE DEF c, next, yes, b
  <2>7. next.sound = TRUE /\ Like(b.work, next) /\ Cleared(c)
    BY <2>1, <2>2, <2>3, <2>4, <2>5, StatementClears
  <2>8. Like(db, c.work)
    BY <2>1, <2>4, <2>7, LikeOn
  <2>9. DReady(c, db)
    BY <2>1, <2>4, <2>7, <2>8 DEF DReady
  <2>10. Turn(p, c)
    BY <2>6, <2>7
  <2> QED BY <1>t, <2>0, <2>4, <2>b, <2>9, <2>10
<1>7. CASE RowsDeleted(p)
  <2>0. cmd[p].pc = "rows" /\ db' = db
    BY <1>7 DEF RowsDeleted, disk
  <2> DEFINE work == cmd[p].work
             versions == IF cmd[p].kind = "purge" THEN {Current} ELSE work.versions
             next == [work EXCEPT !.versions = versions]
             c == [cmd[p] EXCEPT !.pc = "commit", !.unproven = Unerased(p), !.work = next]
  <2>1. /\ work \in Database /\ Stored(work) = Current /\ Stored(db) = Current /\ Like(db, work)
    BY <1>s, <2>0 DEF DeletionStock, DReady
  <2>2. Turn(p, c)
    BY <1>0, <1>7 DEF RowsDeleted, Fields
  <2>3. DOMAIN c = Fields /\ c.kind = cmd[p].kind /\ c.work = next /\ c.pc = "commit"
    BY <1>0 DEF Fields
  <2> HIDE DEF c
  <2>4. versions = {Current} \/ versions = work.versions
    OBVIOUS
  <2> HIDE DEF versions
  <2>5. /\ next.rows = work.rows /\ next.shape = work.shape /\ next.blank = work.blank
        /\ next.unreadable = work.unreadable /\ next.versions = versions
    BY <2>1, DatabaseIs
  <2> HIDE DEF next, work
  <2>6. Stored(next) = Current
    <3>1. CASE versions = {Current}
      <4>1. Current \in 1 .. Current
        BY DEF Current
      <4> QED BY <2>5, <3>1, <4>1, StoredOne
    <3>2. CASE versions = work.versions
      BY <2>1, <2>5, <3>2, StoredSame
    <3> QED BY <2>4, <3>1, <3>2
  <2>7. Like(work, next)
    BY <2>1, <2>5, <2>6 DEF Like
  <2>8. Like(db, c.work)
    BY <2>1, <2>3, <2>7, LikeOn
  <2>9. DReady(c, db)
    BY <2>1, <2>3, <2>8 DEF DReady
  <2> QED BY <1>t, <2>0, <2>2, <2>3, <2>9
<1>8. CASE DeletionCommits(p)
  <2>0. cmd[p].pc = "commit" /\ db' = cmd[p].work /\ Turn(p, [Committed(p) EXCEPT !.pc = "erase"])
    BY <1>8 DEF DeletionCommits, Commits
  <2> DEFINE c == [Committed(p) EXCEPT !.pc = "erase"]
  <2>1. DOMAIN c = Fields /\ c.kind = cmd[p].kind /\ c.pc = "erase"
    BY <1>0 DEF Fields, Committed
  <2>2. Turn(p, c)
    BY <2>0
  <2> HIDE DEF c
  <2>3. Steady(db, db')
    BY <1>k, <2>0, DeletionSteady
  <2>4. Stored(db') = Current
    BY <1>s, <2>0, <2>3 DEF Steady, DReady
  <2>5. DReady(c, db')
    BY <2>1, <2>4 DEF DReady
  <2>6. Ready(c, db', entries')
    BY <1>w, <2>1, <2>5
  <2> QED BY <2>1, <2>2, <2>3, <2>6, TurnFares
<1>9. CASE Erases(p)
  <2>0. cmd[p].pc = "erase" /\ db' = db
    BY <1>9 DEF Erases
  <2>1. PICK said : Turn(p, [cmd[p] EXCEPT
                     !.pc = IF cmd[p].kind = "logs delete" THEN "hand over" ELSE "close",
                     !.residuals = @ \union said, !.unproven = {}])
    BY <1>9 DEF Erases
  <2> DEFINE c == [cmd[p] EXCEPT
                     !.pc = IF cmd[p].kind = "logs delete" THEN "hand over" ELSE "close",
                     !.residuals = @ \union said, !.unproven = {}]
  <2>2. /\ DOMAIN c = Fields /\ c.kind = cmd[p].kind /\ c.target = cmd[p].target /\ c.at = cmd[p].at
        /\ c.work = cmd[p].work /\ c.pc \in {"hand over", "close"}
    BY <1>0 DEF Fields
  <2>3. Turn(p, c)
    BY <2>1
  <2>4. cmd[p].pc \notin {"done", "dead"}
    BY <2>0
  <2> HIDE DEF c
  <2> QED BY <1>c, <2>0, <2>2, <2>3, <2>4
<1>10. CASE DeletionReports(p)
  <2> DEFINE code == IF cmd[p].residuals = {} THEN "success" ELSE "deletion_incomplete"
  <2>1. Ends(p, cmd[p], code, cmd[p].durable, cmd[p].residuals) /\ db' = db
    BY <1>10 DEF DeletionReports, disk
  <2>2. code \notin {"internal_error", "migration_failed"}
    OBVIOUS
  <2> HIDE DEF code
  <2> QED BY <1>0, <1>e, <2>1, <2>2
<1>11. CASE LogsRebuild(p)
  <2>0. cmd[p].pc = "hand over" /\ db' = db
    BY <1>11 DEF LogsRebuild, At, disk
  <2> DEFINE c == [cmd[p] EXCEPT !.pc = "rebuild"]
  <2>2. /\ DOMAIN c = Fields /\ c.kind = cmd[p].kind /\ c.target = cmd[p].target /\ c.at = cmd[p].at
        /\ c.work = cmd[p].work /\ c.pc = "rebuild"
    BY <1>0 DEF Fields
  <2>3. Turn(p, c)
    BY <1>11 DEF LogsRebuild, Go
  <2>4. cmd[p].pc \notin {"done", "dead"}
    BY <2>0
  <2> HIDE DEF c
  <2> QED BY <1>c, <2>0, <2>2, <2>3, <2>4
<1>12. CASE LogsRebuilt(p)
  <2>0. cmd[p].pc = "rebuild" /\ db' = Rebuilt(db)
    BY <1>12 DEF LogsRebuilt, At
  <2> DEFINE c == [cmd[p] EXCEPT !.pc = "close"]
  <2>2. DOMAIN c = Fields /\ c.kind = cmd[p].kind /\ c.pc = "close"
    BY <1>0 DEF Fields
  <2>3. Turn(p, c)
    BY <1>12 DEF LogsRebuilt, Go
  <2> HIDE DEF c
  <2>4. DReady(c, db')
    BY <2>2 DEF DReady
  <2>5. Ready(c, db', entries')
    BY <1>w, <2>2, <2>4
  <2>6. Stored(db) = Current /\ Like(db, db')
    BY <1>s, <2>0, RebuiltLike DEF DReady, Faring
  <2>7. Steady(db, db')
    BY <2>6, LikeSteady DEF Faring
  <2> QED BY <2>2, <2>3, <2>5, <2>7, TurnFares
(* The commit that ends the command too.                                   *)
<1>m. ASSUME cmd[p].pc = "commit", db' = cmd[p].work, Strikes, NEW c, DOMAIN c = Fields,
             NEW code, NEW named, NEW reported, Ends(p, c, code, named, reported)
      PROVE  Fares(p)
  <2>1. Steady(db, db')
    BY <1>m, <1>k, DeletionSteady
  <2> QED BY <1>m, <1>x, <2>1, EndsFare
<1>n. DOMAIN Committed(p) = Fields
  BY <1>0 DEF Committed, Fields
<1>13. CASE DeletionFails(p)
  <2>0. Strikes
    BY <1>13 DEF DeletionFails
  <2>1. CASE cmd[p].pc = "commit" /\ Commits(p) /\ Detached(p, Committed(p), "internal_error")
    <3> DEFINE c == [Committed(p) EXCEPT !.detached = TRUE]
    <3>1. DOMAIN c = Fields
      BY <1>n DEF Fields
    <3>2. Ends(p, c, "internal_error", {}, {})
      BY <2>1 DEF Detached
    <3> HIDE DEF c
    <3> QED BY <1>m, <2>0, <2>1, <3>1, <3>2 DEF Commits
  <2>2. CASE Refuses(p, "internal_error") /\ db' = db
    BY <1>r, <2>0, <2>2
  <2>3. CASE Detached(p, cmd[p], "internal_error") /\ db' = db
    <3> DEFINE c == [cmd[p] EXCEPT !.detached = TRUE]
    <3>1. DOMAIN c = Fields /\ Ends(p, c, "internal_error", {}, {})
      BY <1>0, <2>3 DEF Detached
    <3> HIDE DEF c
    <3> QED BY <1>e, <2>0, <2>3, <3>1
  <2>4. CASE Ends(p, cmd[p], "llm_failed", cmd[p].durable, cmd[p].residuals) /\ db' = db
    BY <1>0, <1>e, <2>4
  <2> QED BY <1>13, <2>1, <2>2, <2>3, <2>4 DEF DeletionFails, disk
<1>14. CASE DeletionInterrupted(p)
  <2>0. Strikes
    BY <1>14 DEF DeletionInterrupted
  <2>1. CASE cmd[p].pc = "commit" /\ Commits(p)
             /\ Ends(p, Committed(p), "cancelled", Committed(p).durable, Unresolved(Committed(p)))
    <3> DEFINE c == Committed(p)
               named == c.durable
               reported == Unresolved(c)
    <3>1. DOMAIN c = Fields /\ Ends(p, c, "cancelled", named, reported)
      BY <1>n, <2>1
    <3> HIDE DEF c, named, reported
    <3> QED BY <1>m, <2>0, <2>1, <3>1 DEF Commits
  <2>2. CASE cmd[p].pc \in Working /\ db' = db
             /\ LET c == IF cmd[p].pc = "commit" THEN [cmd[p] EXCEPT !.unproven = {}] ELSE cmd[p]
                IN Ends(p, c, "cancelled", {}, CleanupReported(c))
    <3> DEFINE c == IF cmd[p].pc = "commit" THEN [cmd[p] EXCEPT !.unproven = {}] ELSE cmd[p]
               reported == CleanupReported(c)
    <3>1. DOMAIN c = Fields /\ Ends(p, c, "cancelled", {}, reported)
      BY <1>0, <2>2 DEF Fields
    <3> HIDE DEF c, reported
    <3> QED BY <1>e, <2>0, <2>2, <3>1
  <2>3. CASE Ends(p, cmd[p], "cancelled", cmd[p].durable, Unresolved(cmd[p])) /\ db' = db
    BY <1>0, <1>e, <2>0, <2>3
  <2>4. CASE Detached(p, cmd[p], "cancelled") /\ db' = db
    <3> DEFINE c == [cmd[p] EXCEPT !.detached = TRUE]
    <3>1. DOMAIN c = Fields /\ Ends(p, c, "cancelled", {}, {})
      BY <1>0, <2>4 DEF Detached
    <3> HIDE DEF c
    <3> QED BY <1>e, <2>0, <2>4, <3>1
  <2> QED BY <1>14, <2>1, <2>2, <2>3, <2>4 DEF DeletionInterrupted, disk
<1> QED BY <1>1, <1>2, <1>3, <1>4, <1>5, <1>6, <1>7, <1>8, <1>9, <1>10, <1>11, <1>12, <1>13, <1>14
        DEF DeletionStep


(***************************************************************************)
(* The steps of a migration                                                *)
(***************************************************************************)

LEMMA ShapedPlain ==
  ASSUME NEW d, Stocked(d), Stored(d) # 0, Plain(d)
  PROVE  d.shape = SchemaSQL[Stored(d)]
<1>1. d.shape \ Odd = SchemaSQL[Stored(d)]
  BY DEF Stocked, Shapen
<1>2. \A entry \in Odd : entry[2] = "odd"
  BY DEF Odd, Def
<1>3. d.shape \intersect Odd = {}
  BY <1>2 DEF Plain, OddOf
<1> QED BY <1>1, <1>3

(* The transaction starts with the database.                               *)
LEMMA CarriedBegins ==
  ASSUME NEW d, Stocked(d), DbReady(d), Stored(d) \in 1 .. 11
  PROVE  Carried(d, 1, d)
<1> DEFINE v == Stored(d)
           i == 1
<1>n. i = 1 /\ ~ (i > 2) /\ ~ (i > 4) /\ i \notin {5, 6}
  OBVIOUS
<1>v. v \in 1 .. 11 /\ v = Stored(d)
  OBVIOUS
<1>c. v < Current /\ (v > 8 => v >= 9)
  BY <1>v DEF Current
<1> HIDE DEF i
<1>1. Rooted(d) /\ d.rows["resume_branches"] = {} /\ (v > 8 => d.rows["self_signals"] = {})
  BY <1>c DEF DbReady
<1> HIDE DEF v
<1>2. Rowed(d, v, i)
  BY <1>1, <1>n DEF Rowed
<1>3. Plain(d) => Partly(v, i, d.shape)
  <2> SUFFICES ASSUME Plain(d) PROVE Partly(v, i, d.shape)
    OBVIOUS
  <2>0. v # 0
    BY <1>v
  <2>1. d.shape = SchemaSQL[v]
    BY <1>v, <2>0, ShapedPlain
  <2>2. Stages(v)[1] = SchemaSQL[v] /\ Len(Stages(v)) = Len(Statements(d, v)) + 1 /\ Len(Statements(d, v)) \in 1 .. 6
    BY <1>v, StagesAdvance
  <2>3. 1 \in 1 .. Len(Stages(v))
    BY <2>2
  <2> QED BY <1>n, <2>1, <2>2, <2>3 DEF Partly
<1>4. Blank(d) => v <= 2 /\ (v = 2 => i = 1)
  BY <1>v, <1>n DEF Blank
<1>5. Alike(d, d)
  BY DEF Alike
<1>6. Carried(d, i, d)
  BY <1>v, <1>2, <1>3, <1>4, <1>5 DEF Carried
<1> QED BY <1>6 DEF i

(* A blank label is still there when 2 -> 3 computes the keys.             *)
LEMMA KeysBlank ==
  ASSUME NEW d, NEW work, DbReady(d), KeepsAll(d, work), Alike(d, work), Blank(d), Stored(work) = 2
  PROVE  ~ KeysComputed(work, Stored(work))
<1>1. d.blank # {} /\ d.blank \subseteq d.rows["raw_logs"]
  BY DEF Blank, DbReady
<1>2. "raw_logs" \in Tables \ Derived
  BY TableNames DEF Derived
<1>3. d.rows["raw_logs"] \subseteq work.rows["raw_logs"] /\ work.blank = d.blank
  BY <1>2 DEF KeepsAll, Alike
<1> QED BY <1>1, <1>3 DEF KeysComputed

LEMMA CarriedExecutes ==
  ASSUME NEW d, DbReady(d), NEW work \in Database, work.sound = TRUE,
         Stored(d) \in 1 .. 11, Stored(work) \in 1 .. 11, Stored(d) <= Stored(work), KeepsAll(d, work),
         NEW i \in 1 .. Len(Statements(work, Stored(work))), Carried(work, i, d),
         NEW fk, Stored(work) <= 9 => fk = FALSE,
         NEW owner, owner = FALSE,
         NEW next, next = Execute(work, Statements(work, Stored(work))[i], fk, owner)
  PROVE  /\ KeysComputed(work, Stored(work)) /\ next.sound = TRUE => Carried(next, i + 1, d)
         /\ ~ (KeysComputed(work, Stored(work)) /\ next.sound = TRUE) => Spoiled(d)
<1> DEFINE v == Stored(work)
<1>1. /\ v = Stored(work) /\ v \in 1 .. 11 /\ (v <= 9 => fk = FALSE) /\ i \in 1 .. Len(Statements(work, v))
      /\ next = Execute(work, Statements(work, v)[i], fk, FALSE) /\ Rowed(work, v, i)
  BY DEF Carried
<1>2. /\ Alike(d, work) /\ (Blank(d) => v <= 2 /\ (v = 2 => i = 1)) /\ (Plain(d) => Partly(v, i, work.shape))
  BY DEF Carried
<1>f. next.sound = TRUE => Follows(d, work, next)
  BY StatementKeeps
<1> HIDE DEF v
<1>3. Works(work, v, i, next)
  BY <1>1, StatementWorks
<1>4. ASSUME KeysComputed(work, v), next.sound = TRUE
      PROVE  Carried(next, i + 1, d)
  <2>1. Alike(work, next) /\ Rowed(next, v, i + 1) /\ (Partly(v, i, work.shape) => Partly(v, i + 1, next.shape))
    BY <1>3, <1>4 DEF Works
  <2>2. Stored(next) = v
    BY <1>1, <1>4, <1>f DEF Follows
  <2>3. Alike(d, next)
    BY <1>2, <2>1 DEF Alike
  <2>4. Blank(d) => v <= 2 /\ v # 2
    BY <1>1, <1>2, <1>4, KeysBlank
  <2>5. Blank(d) => v <= 2 /\ (v = 2 => i + 1 = 1)
    BY <2>4
  <2> QED BY <1>2, <2>1, <2>2, <2>3, <2>5 DEF Carried
<1>5. ASSUME ~ KeysComputed(work, v)
      PROVE  Spoiled(d)
  <2>1. v = 2 /\ work.blank # {}
    BY <1>5 DEF KeysComputed
  <2>2. d.blank # {} /\ Stored(d) <= 2
    BY <1>1, <1>2, <2>1 DEF Alike
  <2> QED BY <2>2 DEF Spoiled, Blank
<1>6. ASSUME next.sound # TRUE
      PROVE  Spoiled(d)
  <2>1. ~ Partly(v, i, work.shape)
    BY <1>3, <1>6 DEF Works
  <2> QED BY <1>2, <2>1 DEF Plain, Spoiled
<1> QED BY <1>1, <1>4, <1>5, <1>6

LEMMA CarriedRecords ==
  ASSUME NEW d, NEW work \in Database, work.sound = TRUE,
         Stored(work) \in 1 .. 11, KeepsAll(d, work),
         NEW i \in Nat \ {0}, i > Len(Statements(work, Stored(work))), Carried(work, i, d),
         NEW next, next = [work EXCEPT !.versions = @ \union {Stored(work) + 1}]
  PROVE  Carried(next, 1, d)
<1> DEFINE v == Stored(work)
           one == 1
<1>1. /\ v = Stored(work) /\ v \in 1 .. 11 /\ i > Len(Statements(work, v)) /\ Rowed(work, v, i)
      /\ next = [work EXCEPT !.versions = @ \union {v + 1}]
  BY DEF Carried
<1>2. /\ Alike(d, work) /\ (Blank(d) => v <= 2 /\ (v = 2 => i = 1)) /\ (Plain(d) => Partly(v, i, work.shape))
  BY DEF Carried
<1> HIDE DEF v
<1>3. Stored(next) = v + 1
  BY <1>1, RecordedKeeps
<1>4. Alike(work, next) /\ Rowed(next, v + 1, one) /\ (Partly(v, i, work.shape) => Partly(v + 1, one, next.shape))
  BY <1>1, RecordWorks
<1>5. Blank(d) => v = 1
  <2> DEFINE len == Len(Statements(work, v))
  <2>1. len \in 1 .. 6 /\ i > len
    BY <1>1, StagesAdvance
  <2> HIDE DEF len
  <2>2. i # 1
    BY <2>1
  <2> QED BY <1>1, <1>2, <2>2
<1>6. Blank(d) => v + 1 <= 2 /\ (v + 1 = 2 => one = 1)
  BY <1>5
<1>7. Alike(d, next)
  BY <1>2, <1>4 DEF Alike
<1> HIDE DEF one
<1>8. Carried(next, one, d)
  BY <1>2, <1>3, <1>4, <1>6, <1>7 DEF Carried
<1> QED BY <1>8 DEF one

LEMMA CarriedCommits ==
  ASSUME NEW d, NEW work \in Database, Stored(work) = Current, NEW i, Carried(work, i, d)
  PROVE  /\ ~ ValidTarget(work) => Spoiled(d)
         /\ Steady(d, work)
<1> DEFINE v == Stored(work)
<1>1. /\ Alike(d, work) /\ (Blank(d) => v <= 2) /\ (Plain(d) => Partly(v, i, work.shape)) /\ Rowed(work, v, i)
  BY DEF Carried
<1>2. v = Current /\ v > 8 /\ ~ (v <= 2) /\ v = 12
  BY DEF Current
<1> HIDE DEF v
<1>3. ~ Blank(d) /\ work.rows["self_signals"] = {} /\ Rooted(work)
  BY <1>1, <1>2 DEF Rowed
<1>4. DbReady(work)
  <2>1. ~ (Stored(work) < Current) /\ ~ (Stored(work) <= 2)
    BY <1>2 DEF v
  <2> QED BY <1>3, <2>1 DEF DbReady
<1>5. Spoiled(d) => Spoiled(work)
  BY <1>1, <1>3 DEF Spoiled, Alike
<1>6. Plain(d) => work.shape = V12
  <2>1. Stages(12) = <<V12>>
    BY DEF Stages
  <2>2. Len(Stages(v)) = 1 /\ Stages(v)[1] = V12
    BY <1>2, <2>1
  <2> QED BY <1>1, <2>2 DEF Partly
<1>7. Dangling(work) = {}
  BY <1>3 DEF Dangling, Rooted, References
<1>8. ASSUME ~ ValidTarget(work)
      PROVE  Spoiled(d)
  <2>1. work.unreadable # {} \/ work.shape # V12
    BY <1>7, <1>8 DEF ValidTarget
  <2>2. CASE work.unreadable # {}
    BY <1>1, <2>2 DEF Alike, Spoiled
  <2>3. CASE work.shape # V12
    BY <1>6, <2>3 DEF Plain, Spoiled
  <2> QED BY <2>1, <2>2, <2>3
<1> QED BY <1>4, <1>5, <1>8 DEF Steady


LEMMA MigrateFares ==
  ASSUME Shaped, NEW p \in Procs, Faring(p), MigrateStep(p)
  PROVE  Fares(p)
<1>0. DOMAIN cmd[p] = Fields
  BY DEF Shaped
<1>k. cmd[p].kind = "migrate"
  BY DEF MigrateStep, MigrateSees, MigrateChecks, MigrateBacksUp, MigrateVerifies, MigrateBegins,
         MigrateCleans, MigrateExecutes, MigrateRecords, MigrateCommits, MigrateReleases,
         MigrateReports, At
<1>s. cmd[p].pc \notin {"done", "dead"} => MReady(cmd[p], db, entries) /\ MigrateStock(cmd[p], db)
  BY <1>k DEF Faring, Ready, Stock
<1>b. Stocked(db) /\ DbReady(db)
  BY DEF Faring
<1>d. ASSUME db' = db PROVE Steady(db, db')
  BY <1>b, <1>d, SteadyItself
<1>t. ASSUME NEW c, DOMAIN c = Fields, c.kind = "migrate", c.pc # "done", Turn(p, c), Steady(db, db'),
             MReady(c, db', entries), entries' = entries
      PROVE  Fares(p)
  <2>1. Ready(c, db', entries')
    BY <1>t, KindsDiffer DEF Ready
  <2> QED BY <1>t, <2>1, TurnFares
<1>e. ASSUME NEW code, NEW named, NEW reported, Ends(p, cmd[p], code, named, reported), db' = db,
             code \notin {"internal_error", "migration_failed"} \/ Spoiled(db)
      PROVE  Fares(p)
  <2>1. Spoiled(db) => Spoiled(db')
    BY <1>e
  <2> QED BY <1>0, <1>d, <1>e, <2>1, EndsFare
<1>r. ASSUME NEW code, Refuses(p, code), db' = db, code \notin {"internal_error", "migration_failed"}
      PROVE  Fares(p)
  BY <1>e, <1>r DEF Refuses
<1>1. CASE MigrateSees(p)
  <2>0. cmd[p].pc = "start" /\ db' = db /\ entries' = entries
    BY <1>1 DEF MigrateSees, At, disk
  <2>1. CASE Recognized /\ Turn(p, [cmd[p] EXCEPT !.pc = "lock", !.seen = Stored(db)])
    <3> DEFINE c == [cmd[p] EXCEPT !.pc = "lock", !.seen = Stored(db)]
    <3>1. DOMAIN c = Fields /\ c.kind = "migrate" /\ c.pc = "lock" /\ c.at = cmd[p].at
      BY <1>0, <1>k DEF Fields
    <3>2. Turn(p, c) /\ Marker \union {"out"} \subseteq entries
      BY <2>1 DEF Recognized
    <3> HIDE DEF c
    <3>3. MReady(c, db, entries)
      BY <1>s, <2>0, <3>1, <3>2 DEF MReady
    <3> QED BY <1>d, <1>t, <2>0, <3>1, <3>2, <3>3
  <2>2. CASE Refuses(p, IF Compatible THEN "up to date" ELSE "schema_incompatible")
    BY <1>r, <2>0, <2>2
  <2> QED BY <1>1, <2>1, <2>2 DEF MigrateSees
<1>2. CASE MigrateChecks(p)
  <2>0. cmd[p].pc = "check" /\ db' = db /\ entries' = entries
    BY <1>2 DEF MigrateChecks, At, disk
  <2>1. CASE Go(p, "backup")
    <3> DEFINE c == [cmd[p] EXCEPT !.pc = "backup"]
    <3>1. DOMAIN c = Fields /\ c.kind = "migrate" /\ c.pc = "backup" /\ c.at = cmd[p].at
      BY <1>0, <1>k DEF Fields
    <3>2. Turn(p, c)
      BY <2>1 DEF Go
    <3> HIDE DEF c
    <3>3. MReady(c, db, entries)
      BY <1>s, <2>0, <3>1 DEF MReady
    <3> QED BY <1>d, <1>t, <2>0, <3>1, <3>2, <3>3
  <2>2. CASE Refuses(p, "schema_incompatible")
    BY <1>r, <2>0, <2>2
  <2> QED BY <1>2, <2>1, <2>2 DEF MigrateChecks
<1>3. CASE MigrateBacksUp(p)
  <2>0. cmd[p].pc = "backup" /\ db' = db /\ entries' = entries
    BY <1>3 DEF MigrateBacksUp, At
  <2> DEFINE c == [cmd[p] EXCEPT !.pc = "verify"]
  <2>1. DOMAIN c = Fields /\ c.kind = "migrate" /\ c.pc = "verify" /\ c.at = cmd[p].at
    BY <1>0, <1>k DEF Fields
  <2>2. Turn(p, c)
    BY <1>3 DEF MigrateBacksUp, Go
  <2> HIDE DEF c
  <2>3. MReady(c, db, entries)
    BY <1>s, <2>0, <2>1 DEF MReady
  <2> QED BY <1>d, <1>t, <2>0, <2>1, <2>2, <2>3
<1>4. CASE MigrateVerifies(p)
  <2>0. cmd[p].pc = "verify" /\ db' = db /\ entries' = entries
    BY <1>4 DEF MigrateVerifies, At
  <2> DEFINE c == [cmd[p] EXCEPT !.pc = "begin", !.backup = TRUE]
  <2>1. DOMAIN c = Fields /\ c.kind = "migrate" /\ c.pc = "begin" /\ c.at = cmd[p].at
    BY <1>0, <1>k DEF Fields
  <2>2. Turn(p, c)
    BY <1>4 DEF MigrateVerifies
  <2> HIDE DEF c
  <2>3. MReady(c, db, entries)
    BY <1>s, <2>0, <2>1 DEF MReady
  <2> QED BY <1>d, <1>t, <2>0, <2>1, <2>2, <2>3
<1>5. CASE MigrateBegins(p)
  <2>0. cmd[p].pc = "begin" /\ db' = db /\ entries' = entries
    BY <1>5 DEF MigrateBegins, At, disk
  <2> DEFINE c == [cmd[p] EXCEPT !.pc = "step", !.work = db]
  <2>1. DOMAIN c = Fields /\ c.kind = "migrate" /\ c.pc = "step" /\ c.at = cmd[p].at /\ c.work = db
    BY <1>0, <1>k DEF Fields
  <2>2. Turn(p, c)
    BY <1>5 DEF MigrateBegins
  <2> HIDE DEF c
  <2>3. Stored(db) \in 1 .. 11 /\ cmd[p].at = 1 /\ Marker \union {"out"} \subseteq entries
    BY <1>s, <2>0 DEF MigrateStock, MReady
  <2>4. Carried(db, 1, db)
    BY <1>b, <2>3, CarriedBegins
  <2>5. MReady(c, db, entries)
    BY <2>1, <2>3, <2>4 DEF MReady
  <2> QED BY <1>d, <1>t, <2>0, <2>1, <2>2, <2>5
<1>6. CASE MigrateCleans(p)
  <2>0. cmd[p].pc = "step" /\ db' = db /\ entries' = entries
    BY <1>6 DEF MigrateCleans, At
  <2>1. PICK c : /\ Turn(p, c) /\ DOMAIN c = Fields /\ c.kind = "migrate" /\ c.pc = "statements"
                 /\ c.at = cmd[p].at /\ c.work = cmd[p].work
    <3>1. CASE Go(p, "statements")
      <4> DEFINE c == [cmd[p] EXCEPT !.pc = "statements"]
      <4>1. Turn(p, c)
        BY <3>1 DEF Go
      <4>2. DOMAIN c = Fields /\ c.kind = "migrate" /\ c.pc = "statements"
            /\ c.at = cmd[p].at /\ c.work = cmd[p].work
        BY <1>0, <1>k DEF Fields
      <4> HIDE DEF c
      <4> QED BY <4>1, <4>2
    <3>2. ASSUME NEW left, Turn(p, [cmd[p] EXCEPT !.pc = "statements", !.residuals = @ \union left])
          PROVE  \E c : /\ Turn(p, c) /\ DOMAIN c = Fields /\ c.kind = "migrate" /\ c.pc = "statements"
                        /\ c.at = cmd[p].at /\ c.work = cmd[p].work
      <4> DEFINE c == [cmd[p] EXCEPT !.pc = "statements", !.residuals = @ \union left]
      <4>1. Turn(p, c)
        BY <3>2
      <4>2. DOMAIN c = Fields /\ c.kind = "migrate" /\ c.pc = "statements"
            /\ c.at = cmd[p].at /\ c.work = cmd[p].work
        BY <1>0, <1>k DEF Fields
      <4> HIDE DEF c
      <4> QED BY <4>1, <4>2
    <3> QED BY <1>6, <3>1, <3>2 DEF MigrateCleans
  <2>2. MReady(c, db, entries)
    BY <1>s, <2>0, <2>1 DEF MReady
  <2> QED BY <1>d, <1>t, <2>0, <2>1, <2>2
<1>7. CASE MigrateExecutes(p)
  <2> DEFINE work == cmd[p].work
             v == Stored(work)
             i == cmd[p].at
             fk == ForeignKeys(p)
             owner == FALSE
             len == Len(Statements(work, v))
             next == Execute(work, Statements(work, v)[i], fk, owner)
             c == [cmd[p] EXCEPT !.work = next, !.at = @ + 1]
  <2>0. /\ cmd[p].pc = "statements" /\ db' = db /\ entries' = entries /\ i <= len
        /\ IF KeysComputed(work, v) /\ next.sound THEN Turn(p, c)
           ELSE Ends(p, cmd[p], "migration_failed", {}, cmd[p].residuals)
    BY <1>7 DEF MigrateExecutes, At, disk
  <2>1. /\ work \in Database /\ work.sound = TRUE /\ i \in Nat \ {0} /\ cmd[p].seen \in 1 .. 11
        /\ Stored(db) = cmd[p].seen /\ cmd[p].seen <= v /\ KeepsAll(db, work) /\ v < Current
        /\ Carried(work, i, db) /\ Marker \union {"out"} \subseteq entries
    BY <1>s, <2>0 DEF MigrateStock, MReady
  <2>2. v \in 1 .. 11
    <3>1. v \in 0 .. Current
      BY <2>1, StoredIs, DatabaseIs
    <3> QED BY <2>1, <3>1 DEF Current
  <2>3. v <= 9 => fk = FALSE
    <3>1. fk = (MigrationPath(cmd[p].seen) \intersect ForeignKeysOff = {})
      BY DEF ForeignKeys
    <3>2. v <= 9 => v \in 1 .. 9
      BY <2>2
    <3> HIDE DEF v, fk
    <3>3. v <= 9 => MigrationPath(cmd[p].seen) \intersect ForeignKeysOff # {}
      BY <2>1, <3>2, KeysOff
    <3> QED BY <3>1, <3>3
  <2>4. i \in 1 .. len
    <3>1. len \in Nat
      BY <2>2, StatementsCounted
    <3> HIDE DEF len, i
    <3> QED BY <2>0, <2>1, <3>1
  <2>5. owner = FALSE /\ next = Execute(work, Statements(work, Stored(work))[i], fk, owner)
    OBVIOUS
  <2>6. next \in Database
    <3> DEFINE s == Statements(work, v)[i]
    <3>1. StatementOK(s) /\ next = Execute(work, s, fk, owner)
      BY <2>1, <2>2, <2>4, MigrationSure DEF Sure
    <3> HIDE DEF next, s, fk, work, owner
    <3> QED BY <2>1, <3>1, ExecuteDoes
  <2>7. next.sound \in BOOLEAN
    BY <2>6, DatabaseIs
  <2>8. /\ DOMAIN c = Fields /\ c.kind = "migrate" /\ c.pc = "statements" /\ c.at = i + 1 /\ c.work = next
    BY <1>0, <1>k, <2>0 DEF Fields
  <2>9. /\ Stored(db) \in 1 .. 11 /\ Stored(work) \in 1 .. 11 /\ Stored(db) <= Stored(work)
        /\ i \in 1 .. Len(Statements(work, Stored(work))) /\ (Stored(work) <= 9 => fk = FALSE)
        /\ v = Stored(work)
    BY <2>1, <2>2, <2>3, <2>4
  <2> HIDE DEF c, next, fk, i, len, owner, work, v
  <2>10. /\ KeysComputed(work, Stored(work)) /\ next.sound = TRUE => Carried(next, i + 1, db)
         /\ ~ (KeysComputed(work, Stored(work)) /\ next.sound = TRUE) => Spoiled(db)
    BY ONLY <1>b, <2>1, <2>5, <2>9, CarriedExecutes
  <2>11. CASE KeysComputed(work, v) /\ next.sound = TRUE
    <3>1. Carried(c.work, c.at, db)
      BY <2>8, <2>9, <2>10, <2>11
    <3>2. MReady(c, db, entries)
      BY <2>1, <2>8, <3>1 DEF MReady
    <3>3. Turn(p, c) /\ c.pc # "done"
      BY <2>0, <2>8, <2>11
    <3> QED BY <1>d, <1>t, <2>0, <2>8, <3>2, <3>3
  <2>12. CASE ~ (KeysComputed(work, v) /\ next.sound = TRUE)
    <3>1. Ends(p, cmd[p], "migration_failed", {}, cmd[p].residuals)
      BY <2>0, <2>7, <2>12
    <3>2. Spoiled(db)
      BY <2>9, <2>10, <2>12
    <3> QED BY <1>e, <2>0, <3>1, <3>2
  <2> QED BY <2>11, <2>12
<1>8. CASE MigrateRecords(p)
  <2> DEFINE work == cmd[p].work
             v == Stored(work)
             i == cmd[p].at
             next == [work EXCEPT !.versions = @ \union {v + 1}]
             c == [cmd[p] EXCEPT !.pc = "step", !.at = 1, !.work = next]
  <2>0. /\ cmd[p].pc = "statements" /\ db' = db /\ entries' = entries
        /\ i > Len(Statements(work, v))
    BY <1>8 DEF MigrateRecords, At, disk
  <2>1. /\ work \in Database /\ work.sound = TRUE /\ cmd[p].seen \in 1 .. 11 /\ i \in Nat \ {0}
        /\ cmd[p].seen <= v /\ KeepsAll(db, work) /\ v < Current
        /\ Carried(work, i, db) /\ Marker \union {"out"} \subseteq entries
    BY <1>s, <2>0 DEF MigrateStock, MReady
  <2>2. v \in 1 .. 11
    <3>1. v \in 0 .. Current
      BY <2>1, StoredIs, DatabaseIs
    <3> QED BY <2>1, <3>1 DEF Current
  <2>3. Turn(p, c)
    BY <1>0, <1>8 DEF MigrateRecords, Fields
  <2>4. DOMAIN c = Fields /\ c.kind = "migrate" /\ c.pc = "step" /\ c.at = 1 /\ c.work = next
    BY <1>0, <1>k DEF Fields
  <2> HIDE DEF c
  <2>5. /\ next = [work EXCEPT !.versions = @ \union {Stored(work) + 1}] /\ Stored(work) \in 1 .. 11
        /\ i > Len(Statements(work, Stored(work)))
    BY <2>0, <2>2
  <2> HIDE DEF next, v, work, i
  <2>6. Carried(next, 1, db)
    BY ONLY <2>1, <2>5, CarriedRecords
  <2>7. MReady(c, db, entries)
    BY <2>1, <2>4, <2>6 DEF MReady
  <2> QED BY <1>d, <1>t, <2>0, <2>3, <2>4, <2>7
<1>9. CASE MigrateCommits(p)
  <2> DEFINE work == cmd[p].work
             i == cmd[p].at
  <2>0. cmd[p].pc = "step" /\ Stored(work) = Current /\ entries' = entries
    BY <1>9 DEF MigrateCommits, At
  <2>1. work \in Database /\ Carried(work, i, db) /\ Marker \union {"out"} \subseteq entries
    BY <1>s, <2>0 DEF MigrateStock, MReady
  <2>2. (~ ValidTarget(work) => Spoiled(db)) /\ Steady(db, work)
    <3> HIDE DEF work, i
    <3> QED BY <2>0, <2>1, CarriedCommits
  <2>3. CASE ~ ValidTarget(work)
    <3>1. Ends(p, cmd[p], "migration_failed", {}, cmd[p].residuals) /\ db' = db
      BY <1>9, <2>3 DEF MigrateCommits
    <3> QED BY <1>e, <2>2, <2>3, <3>1
  <2>4. CASE ValidTarget(work)
    <3> DEFINE c == [cmd[p] EXCEPT !.pc = "restore", !.committed = TRUE]
    <3>1. DOMAIN c = Fields /\ c.kind = "migrate" /\ c.pc = "restore" /\ c.at = cmd[p].at
      BY <1>0, <1>k DEF Fields
    <3>2. Turn(p, c) /\ db' = work
      BY <1>9, <2>4 DEF MigrateCommits
    <3> HIDE DEF c
    <3>3. Stored(db') = Current /\ Steady(db, db')
      BY <2>0, <2>2, <3>2
    <3>4. MReady(c, db', entries)
      BY <2>1, <3>1, <3>3 DEF MReady
    <3> QED BY <1>t, <2>0, <3>1, <3>2, <3>3, <3>4
  <2> QED BY <2>3, <2>4
<1>10. CASE MigrateReleases(p)
  <2>0. cmd[p].pc = "restore" /\ db' = db /\ entries' = entries
    BY <1>10 DEF MigrateReleases, At, disk
  <2> DEFINE c == [cmd[p] EXCEPT !.pc = "after"]
  <2>1. DOMAIN c = Fields /\ c.kind = "migrate" /\ c.pc = "after" /\ c.at = cmd[p].at
    BY <1>0, <1>k DEF Fields
  <2>2. Turn(p, c)
    BY <1>10 DEF MigrateReleases, Go
  <2> HIDE DEF c
  <2>3. MReady(c, db, entries)
    BY <1>s, <2>0, <2>1 DEF MReady
  <2> QED BY <1>d, <1>t, <2>0, <2>1, <2>2, <2>3
<1>11. CASE MigrateReports(p)
  <2>0. cmd[p].pc = "after" /\ db' = db
    BY <1>11 DEF MigrateReports, At, disk
  <2>1. Compatible
    <3>1. Marker \union {"out"} \subseteq entries /\ Stored(db) = Current
      BY <1>s, <2>0 DEF MReady
    <3>2. Current # 0
      BY DEF Current
    <3> QED BY <3>1, <3>2 DEF Compatible, Recognized
  <2>2. Ends(p, cmd[p], "migrated", {}, cmd[p].residuals)
    BY <1>11, <2>1 DEF MigrateReports
  <2> QED BY <1>e, <2>0, <2>2
<1> QED BY <1>1, <1>2, <1>3, <1>4, <1>5, <1>6, <1>7, <1>8, <1>9, <1>10, <1>11 DEF MigrateStep


(***************************************************************************)
(* The invariant                                                           *)
(***************************************************************************)

(* What another process makes of the database changes nothing for a        *)
(* command that holds no lock.                                             *)
LEMMA ReadyHolds ==
  ASSUME NEW c, NEW d, NEW e, NEW es, Ready(c, d, es), Steady(d, e), c.pc \notin Locked
  PROVE  Ready(c, e, es)
<1>1. /\ c.pc \notin {"check", "backup", "verify", "begin", "step", "statements", "restore"}
      /\ c.pc \notin {"commit", "backups", "sets", "rows", "erase", "rebuild"}
  BY DEF Locked
<1>2. MReady(c, d, es) => MReady(c, e, es)
  BY <1>1 DEF MReady, Steady
<1>3. WReady(c, e)
  BY <1>1 DEF WReady
<1>4. DReady(c, d) => DReady(c, e)
  BY <1>1 DEF DReady, Steady
<1> QED BY <1>2, <1>3, <1>4 DEF Ready

LEMMA ExcusedHolds ==
  ASSUME NEW c, NEW d, NEW e, NEW left, NEW less, Excused(c, d, left), Steady(d, e),
         left < MaxTrouble => less < MaxTrouble
  PROVE  Excused(c, e, less)
BY DEF Excused, Steady

Prepared ==
  /\ trouble \in 0 .. MaxTrouble
  /\ (\A p \in Procs : cmd[p].kind # "init") =>
       /\ DbReady(db)
       /\ \A p \in Procs : Ready(cmd[p], db, entries) /\ Excused(cmd[p], db, trouble)

LEMMA InitPrepared == WorkspaceInit => Prepared
<1> SUFFICES ASSUME WorkspaceInit PROVE Prepared
  OBVIOUS
<1>1. PICK s \in Scenarios : db = InitialDatabase(s.version, s.rows, s.flaw) /\ trouble = MaxTrouble
  BY DEF WorkspaceInit
<1>2. s.version \in 0 .. Current /\ s.rows \subseteq Keys
  BY ScenariosAssumption
<1>3. DbReady(db)
  <2> DEFINE v == s.version
             ks == s.rows
             flaw == s.flaw
  <2>1. v \in 0 .. Current /\ ks \subseteq Keys /\ db = InitialDatabase(v, ks, flaw)
    BY <1>1, <1>2
  <2> HIDE DEF v, ks, flaw
  <2> QED BY <2>1, InitialReady
<1>4. \A p \in Procs : cmd[p].pc = "start" /\ cmd[p].at = 1
  BY Fresh DEF IsFresh
<1>5. \A p \in Procs : Ready(cmd[p], db, entries) /\ Excused(cmd[p], db, trouble)
  BY <1>4 DEF Ready, MReady, WReady, DReady, Excused
<1>6. trouble \in 0 .. MaxTrouble
  BY <1>1, MaxTroubleAssumption DEF MaxTroubleAssumption
<1> QED BY <1>3, <1>5, <1>6 DEF Prepared

LEMMA StepFares ==
  ASSUME Shaped, NEW p \in Procs, Faring(p), Step(p)
  PROVE  Fares(p)
<1>1. ~ InitStep(p)
  BY DEF Faring, InitStep, InitSees, InitSeesOut, InitMakesOut, InitRestrictsOut, InitMakesMarker, InitFills,
         InitCreatesSchema, InitInspects, InitUndoesMarker, InitUndoesOut, At
<1> QED BY <1>1, MigrateFares, GenericFares, CaptureFares, ImportFares, DeletionFares, StruckFares DEF Step

LEMMA PreparedKept ==
  ASSUME Shaped, Held, Stores, Prepared, [Next]_workspaceVars
  PROVE  Prepared'
<1>1. ASSUME NEW p \in Procs, Step(p) PROVE Prepared'
  <2>1. Frame(p)
    BY <1>1, StepFrames
  <2>2. trouble' \in 0 .. MaxTrouble /\ (trouble < MaxTrouble => trouble' < MaxTrouble)
    <3>1. trouble' = trouble \/ (trouble > 0 /\ trouble' = trouble - 1)
      BY <1>1, TroubleSteps DEF Strikes
    <3>2. trouble \in 0 .. MaxTrouble /\ MaxTrouble \in Nat
      BY MaxTroubleAssumption DEF Prepared, MaxTroubleAssumption
    <3> QED BY <3>1, <3>2
  <2>3. ASSUME \A q \in Procs : cmd'[q].kind # "init"
        PROVE  /\ DbReady(db')
               /\ \A q \in Procs : Ready(cmd'[q], db', entries') /\ Excused(cmd'[q], db', trouble')
    <3>1. \A q \in Procs : cmd[q].kind # "init"
      BY <2>1, <2>3 DEF Frame
    <3>2. DbReady(db) /\ \A q \in Procs : Ready(cmd[q], db, entries) /\ Excused(cmd[q], db, trouble)
      BY <3>1 DEF Prepared
    <3>3. Faring(p)
      BY <3>1, <3>2 DEF Faring, Stores, Prepared
    <3>4. Fares(p)
      BY <1>1, <3>3, StepFares
    <3>5. ASSUME NEW q \in Procs \ {p}
          PROVE  Ready(cmd'[q], db', entries') /\ Excused(cmd'[q], db', trouble')
      <4>1. cmd'[q] = cmd[q] /\ entries' = entries /\ Steady(db, db')
        BY <2>1, <3>1, <3>4 DEF Frame, Fares
      <4>2. Excused(cmd[q], db', trouble')
        BY <2>2, <3>2, <4>1, ExcusedHolds
      <4>3. Ready(cmd[q], db', entries)
        <5>1. CASE db' = db
          BY <3>2, <5>1
        <5>2. CASE holder = p
          <6>1. cmd[q].pc \notin Locked
            BY <3>5, <5>2 DEF Held, Holding
          <6> QED BY <3>2, <4>1, <6>1, ReadyHolds
        <5> QED BY <2>1, <3>1, <5>1, <5>2 DEF Frame
      <4> QED BY <4>1, <4>2, <4>3
    <3>6. DbReady(db') /\ Ready(cmd'[p], db', entries') /\ Excused(cmd'[p], db', trouble')
      BY <3>4 DEF Fares, Steady
    <3> QED BY <3>5, <3>6
  <2>4. (\A q \in Procs : cmd'[q].kind # "init") =>
          /\ DbReady(db)'
          /\ \A q \in Procs : Ready(cmd[q], db, entries)' /\ Excused(cmd[q], db, trouble)'
    BY <2>3
  <2> QED BY <2>2, <2>4 DEF Prepared
<1>2. CASE UNCHANGED workspaceVars
  <2>1. cmd' = cmd /\ db' = db /\ entries' = entries /\ trouble' = trouble
    BY <1>2 DEF workspaceVars
  <2>2. DbReady(db)' = DbReady(db)
    BY <2>1
  <2> QED BY <2>1, <2>2 DEF Prepared
<1> QED BY <1>1, <1>2, NextSteps

LEMMA PreparedCorrect ==
  ASSUME Stores, Prepared
  PROVE  NoNeedlessFailure
<1> SUFFICES ASSUME NEW p \in Procs, cmd[p].pc = "done", cmd[p].kind # "init",
                    cmd[p].code \in {"internal_error", "migration_failed"}
             PROVE  trouble < MaxTrouble \/ Flawed
  BY DEF NoNeedlessFailure
<1>1. \A q \in Procs : cmd[q].kind # "init"
  BY DEF Stores, World
<1>2. Excused(cmd[p], db, trouble)
  BY <1>1 DEF Prepared
<1>3. trouble < MaxTrouble \/ Spoiled(db)
  BY <1>2 DEF Excused
<1> QED BY <1>3, FlawedIs

(* No command over sound data fails by itself: unless something struck or  *)
(* the data is flawed (a blank label older than version 3, a row that does *)
(* not hydrate, a foreign column), every statement of every migration path *)
(* passes the guards and references it meets and the twelfth version is    *)
(* reached, and no deletion's statement is stopped by a reference          *)
(* (MIGRATION_REGISTRY, PURGE_TABLE_ORDER, delete_log,                     *)
(* delete_job_description).                                                *)
THEOREM NoNeedlessFailureHolds == InitsApart /\ Spec => []NoNeedlessFailure
<1>1. InitsApart /\ WorkspaceInit => Shaped /\ Held /\ Stores /\ Prepared
  BY InitShaped, InitHeld, InitStores, InitPrepared
<1>2. Shaped /\ Held /\ Stores /\ Prepared /\ [Next]_workspaceVars => (Shaped /\ Held /\ Stores /\ Prepared)'
  BY Shapely, StoresStay, PreparedKept
<1>3. Stores /\ Prepared => NoNeedlessFailure
  BY PreparedCorrect
<1> QED BY <1>1, <1>2, <1>3, PTL DEF Spec
================================================================================
