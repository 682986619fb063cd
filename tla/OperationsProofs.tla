--------------------------- MODULE OperationsProofs ---------------------------
(***************************************************************************)
(* Proofs about Operations: what the journal's commands report they did,   *)
(* what a deletion erased or names as left, the files of a workspace being *)
(* created, and the shape of all of it (storage/schema.py, workspace.py,   *)
(* services/deletion.py, journal.py).                                      *)
(***************************************************************************)
EXTENDS Operations, FiniteSetTheorems, FunctionTheorems, SequenceTheorems, TLAPS

(***************************************************************************)
(* The schema: every statement is of its type                              *)
(***************************************************************************)

Entries == (Tables \union {"schema_meta"}) \X (Indexed \union {"odd"}) \X (0 .. Current)

LEMMA DatabaseIs ==
  Database = [shape : SUBSET Entries, rows : [Tables -> SUBSET Keys], versions : SUBSET (1 .. Current),
              blank : SUBSET Keys, unreadable : SUBSET Keys, scoped : SUBSET Keys, sound : BOOLEAN]
BY DEF Database, Entries

LEMMA PartsAre ==
  /\ "table" \in Indexed /\ "index" \in Indexed /\ "update guard" \in Indexed /\ "delete guard" \in Indexed
  /\ Guards \subseteq Indexed /\ Guarded \subseteq Indexed /\ {"table"} \subseteq Indexed
  /\ Indexed \ {"table"} \subseteq Indexed
BY DEF Indexed, Guarded, Guards

LEMMA VersionsAre ==
  /\ SchemaSQL[1] = V1 /\ SchemaSQL[2] = V2 /\ SchemaSQL[3] = V3 /\ SchemaSQL[4] = V4
  /\ SchemaSQL[5] = V5 /\ SchemaSQL[6] = V6 /\ SchemaSQL[7] = V7 /\ SchemaSQL[8] = V8
  /\ SchemaSQL[9] = V9 /\ SchemaSQL[10] = V10 /\ SchemaSQL[11] = V11 /\ SchemaSQL[12] = V12
BY DEF SchemaSQL

(* A table any version lists is one of Tables.                             *)
LEMMA Listed ==
  ASSUME NEW v \in 1 .. Current, NEW table, table # "schema_meta",
         NEW part, NEW text, <<table, part, text>> \in SchemaSQL[v]
  PROVE  table \in Tables
<1>1. <<table, part, text>>[1] = table
  OBVIOUS
<1>2. table \in TablesOf(SchemaSQL[v])
  BY <1>1 DEF TablesOf
<1> QED BY <1>2 DEF Tables

LEMMA TableNames ==
  {"raw_logs", "evidence_items", "processing_runs", "llm_calls", "experience_facts", "fact_sources",
   "gap_questions", "contradictions", "self_signals", "assessment_snapshots", "self_claims",
   "verification_findings", "job_descriptions", "resume_branches", "resume_bullets"}
    \subseteq Tables
<1>0. 1 \in 1 .. Current /\ 2 \in 1 .. Current /\ 3 \in 1 .. Current /\ 4 \in 1 .. Current
      /\ 5 \in 1 .. Current /\ 6 \in 1 .. Current /\ 7 \in 1 .. Current /\ 11 \in 1 .. Current
      /\ 12 \in 1 .. Current
  BY DEF Current
<1>1. "raw_logs" \in Tables /\ "evidence_items" \in Tables
  <2>1. <<"raw_logs", "table", 1>> \in V1 /\ <<"evidence_items", "table", 1>> \in V1
    BY PartsAre DEF V1, Def
  <2> QED BY <1>0, <2>1, VersionsAre, Listed
<1>2. "processing_runs" \in Tables /\ "llm_calls" \in Tables
  <2>1. <<"processing_runs", "table", 2>> \in V2 /\ <<"llm_calls", "table", 2>> \in V2
    BY DEF V2, Runs, Calls, Def
  <2> QED BY <1>0, <2>1, VersionsAre, Listed
<1>3. "experience_facts" \in Tables /\ "fact_sources" \in Tables
  <2>1. <<"experience_facts", "table", 3>> \in V3 /\ <<"fact_sources", "table", 3>> \in V3
    BY PartsAre DEF V3, Facts, Sources, Def, Guarded
  <2> QED BY <1>0, <2>1, VersionsAre, Listed
<1>4. "gap_questions" \in Tables /\ "contradictions" \in Tables
  <2>1. <<"gap_questions", "table", 4>> \in V4 /\ <<"contradictions", "table", 4>> \in V4
    BY DEF V4, Detections, Def, Guarded
  <2> QED BY <1>0, <2>1, VersionsAre, Listed
<1>5. "self_signals" \in Tables
  <2>1. <<"self_signals", "table", 5>> \in V5
    BY DEF V5, Signals, Def, Guarded
  <2> QED BY <1>0, <2>1, VersionsAre, Listed
<1>6. "assessment_snapshots" \in Tables /\ "self_claims" \in Tables
  <2>1. <<"assessment_snapshots", "table", 6>> \in V6 /\ <<"self_claims", "table", 6>> \in V6
    BY PartsAre DEF V6, Snapshots, Claims, Def, Guarded
  <2> QED BY <1>0, <2>1, VersionsAre, Listed
<1>7. "verification_findings" \in Tables
  <2>1. <<"verification_findings", "table", 7>> \in V7
    BY PartsAre DEF V7, Findings, Def
  <2> QED BY <1>0, <2>1, VersionsAre, Listed
<1>8. "job_descriptions" \in Tables
  <2>1. <<"job_descriptions", "table", 11>> \in V11
    BY DEF V11, Vacancies, Def, Guarded
  <2> QED BY <1>0, <2>1, VersionsAre, Listed
<1>9. "resume_branches" \in Tables /\ "resume_bullets" \in Tables
  <2>1. <<"resume_branches", "table", 12>> \in V12 /\ <<"resume_bullets", "table", 12>> \in V12
    BY PartsAre DEF V12, Branches, Bullets, Def
  <2> QED BY <1>0, <2>1, VersionsAre, Listed
<1> QED BY <1>1, <1>2, <1>3, <1>4, <1>5, <1>6, <1>7, <1>8, <1>9

LEMMA DefTyped ==
  ASSUME NEW table \in Tables \union {"schema_meta"}, NEW parts \in SUBSET (Indexed \union {"odd"}),
         NEW text \in 0 .. Current
  PROVE  Def(table, parts, text) \subseteq Entries
BY DEF Def, Entries

LEMMA NothingRemoved ==
  ASSUME NEW shape \in SUBSET Entries, NEW table, NEW parts
  PROVE  Without(shape, table, parts) \subseteq Entries
BY DEF Without

LEMMA RewrittenTyped ==
  ASSUME NEW shape \in SUBSET Entries, NEW table \in Tables, NEW parts \in SUBSET Indexed,
         NEW text \in 0 .. Current
  PROVE  Rewritten(shape, table, parts, text) \subseteq Entries
BY DefTyped, NothingRemoved DEF Rewritten

(* The parts of the schema are entries.                                    *)
LEMMA PartsTyped ==
  /\ Meta \subseteq Entries /\ Runs \subseteq Entries /\ Calls \subseteq Entries
  /\ Facts \subseteq Entries /\ Sources \subseteq Entries /\ Detections \subseteq Entries
  /\ Signals \subseteq Entries /\ Snapshots \subseteq Entries /\ Claims \subseteq Entries
  /\ Findings \subseteq Entries /\ Vacancies \subseteq Entries /\ Branches \subseteq Entries
  /\ Bullets \subseteq Entries
<1>1. \A n \in 0 .. 12 : n \in 0 .. Current
  BY DEF Current
<1>2. /\ 1 \in 0 .. 12 /\ 2 \in 0 .. 12 /\ 3 \in 0 .. 12 /\ 4 \in 0 .. 12 /\ 5 \in 0 .. 12
      /\ 6 \in 0 .. 12 /\ 7 \in 0 .. 12 /\ 11 \in 0 .. 12 /\ 12 \in 0 .. 12
  OBVIOUS
<1>3. Meta \subseteq Entries
  BY <1>1, <1>2, PartsAre, DefTyped DEF Meta
<1>4. Runs \subseteq Entries /\ Calls \subseteq Entries
  BY <1>1, <1>2, PartsAre, TableNames, DefTyped DEF Runs, Calls
<1>5. Facts \subseteq Entries /\ Sources \subseteq Entries
  BY <1>1, <1>2, PartsAre, TableNames, DefTyped DEF Facts, Sources
<1>6. Detections \subseteq Entries
  BY <1>1, <1>2, PartsAre, TableNames, DefTyped DEF Detections
<1>7. Signals \subseteq Entries /\ Snapshots \subseteq Entries /\ Claims \subseteq Entries
  BY <1>1, <1>2, PartsAre, TableNames, DefTyped DEF Signals, Snapshots, Claims
<1>8. Findings \subseteq Entries /\ Vacancies \subseteq Entries
  BY <1>1, <1>2, PartsAre, TableNames, DefTyped DEF Findings, Vacancies
<1>9. Branches \subseteq Entries /\ Bullets \subseteq Entries
  BY <1>1, <1>2, PartsAre, TableNames, DefTyped DEF Branches, Bullets
<1> QED BY <1>3, <1>4, <1>5, <1>6, <1>7, <1>8, <1>9

LEMMA SchemaTyped ==
  ASSUME NEW v \in 1 .. Current
  PROVE  SchemaSQL[v] \subseteq Entries
<1>0. 1 \in 0 .. Current /\ 3 \in 0 .. Current /\ 8 \in 0 .. Current /\ 9 \in 0 .. Current
      /\ 10 \in 0 .. Current
  BY DEF Current
<1>1. V1 \subseteq Entries
  BY <1>0, PartsAre, PartsTyped, TableNames, DefTyped DEF V1
<1>2. V2 \subseteq Entries
  BY <1>1, PartsTyped DEF V2
<1>3. V3 \subseteq Entries
  <2>1. Rewritten(V2, "raw_logs", {"table"}, 3) \subseteq Entries
    BY <1>0, <1>2, PartsAre, TableNames, RewrittenTyped
  <2> QED BY <2>1, PartsTyped DEF V3
<1>4. V4 \subseteq Entries
  BY <1>3, PartsTyped DEF V4
<1>5. V5 \subseteq Entries
  BY <1>4, PartsTyped DEF V5
<1>6. V6 \subseteq Entries
  BY <1>5, PartsTyped DEF V6
<1>7. V7 \subseteq Entries
  BY <1>6, PartsTyped DEF V7
<1>8. V8 \subseteq Entries
  <2>1. Rewritten(V7, "raw_logs", {"table"}, 8) \subseteq Entries
    BY <1>0, <1>7, PartsAre, TableNames, RewrittenTyped
  <2> DEFINE r == Rewritten(V7, "raw_logs", {"table"}, 8)
  <2> HIDE DEF r
  <2>2. Rewritten(r, "experience_facts", {"table"}, 8) \subseteq Entries
    BY <1>0, <2>1, PartsAre, TableNames, RewrittenTyped DEF r
  <2> QED BY <2>2 DEF V8, r
<1>9. V9 \subseteq Entries
  <2> DEFINE r == Without(V8, "self_signals", Guarded)
  <2>1. r \subseteq Entries
    BY <1>8, NothingRemoved
  <2>2. {"table", "update guard"} \subseteq Indexed
    BY PartsAre
  <2> HIDE DEF r
  <2>3. Rewritten(r, "self_claims", {"table", "update guard"}, 9) \subseteq Entries
    BY <1>0, <2>1, <2>2, TableNames, RewrittenTyped
  <2> QED BY <2>3 DEF V9, r
<1>10. V10 \subseteq Entries
  <2>1. {"table", "update guard"} \subseteq Indexed
    BY PartsAre
  <2> QED BY <1>0, <1>9, <2>1, TableNames, RewrittenTyped DEF V10
<1>11. V11 \subseteq Entries
  BY <1>10, PartsTyped DEF V11
<1>12. V12 \subseteq Entries
  BY <1>11, PartsTyped DEF V12
<1>13. v \in {1, 2, 3, 4, 5, 6, 7, 8, 9, 10, 11, 12}
  BY DEF Current
<1> QED BY <1>1, <1>2, <1>3, <1>4, <1>5, <1>6, <1>7, <1>8, <1>9, <1>10, <1>11, <1>12, <1>13,
           VersionsAre
(***************************************************************************)
(* Statements                                                              *)
(***************************************************************************)

Ops == {"create", "delete", "drop trigger", "drop", "rebuild"}

StatementOK(s) == s.op \in Ops /\ s.rows \subseteq Keys /\ s.defs \subseteq Entries

(* The tables the deletion of rows from one of them reaches.               *)
Touched(table, fk) == IF fk THEN Reached(table) ELSE {table}

LEMMA RemovedTyped ==
  ASSUME NEW d \in Database, NEW table, NEW ks, NEW fk
  PROVE  /\ RemoveRows(d, table, ks, fk) \in Database
         /\ RemoveRows(d, table, ks, fk).shape = d.shape
         /\ RemoveRows(d, table, ks, fk).versions = d.versions
         /\ RemoveRows(d, table, ks, fk).scoped = d.scoped
         /\ d.sound => RemoveRows(d, table, ks, fk).sound
         /\ \A t \in Tables : RemoveRows(d, table, ks, fk).rows[t] =
              IF t \in Touched(table, fk) THEN d.rows[t] \ ks ELSE d.rows[t]
<1> DEFINE rows == [t \in Tables |-> IF t \in Touched(table, fk) THEN d.rows[t] \ ks ELSE d.rows[t]]
<1>1. RemoveRows(d, table, ks, fk) = [d EXCEPT !.rows = rows]
  BY DEF RemoveRows, Touched
<1>2. rows \in [Tables -> SUBSET Keys]
  BY DatabaseIs
<1>3. \A t \in Tables : rows[t] = IF t \in Touched(table, fk) THEN d.rows[t] \ ks ELSE d.rows[t]
  OBVIOUS
<1> HIDE DEF rows
<1> QED BY <1>1, <1>2, <1>3, DatabaseIs

(* The rows after a statement that did not fail.                           *)
RowsAfter(d, s, fk, next) ==
  /\ next.versions = d.versions /\ next.scoped = d.scoped
  /\ s.op = "delete" => next.shape = d.shape
  /\ s.op \in {"create", "drop trigger"} => \A t \in Tables : next.rows[t] = d.rows[t]
  /\ s.op = "delete" =>
       \A t \in Tables :
         next.rows[t] = IF t \in Touched(s.table, fk) THEN d.rows[t] \ s.rows ELSE d.rows[t]
  /\ s.op \in {"drop", "rebuild"} =>
       \A t \in Tables :
         next.rows[t] = IF t = s.table THEN IF s.op = "rebuild" THEN s.rows ELSE {}
                        ELSE IF t \in Touched(s.table, fk) THEN {} ELSE d.rows[t]

(* What a statement does to a database, if it does not fail.               *)
LEMMA ExecuteDoes ==
  ASSUME NEW d \in Database, NEW s, StatementOK(s), NEW fk, NEW owner,
         NEW next, next = Execute(d, s, fk, owner)
  PROVE  /\ next \in Database
         /\ next.sound = TRUE => RowsAfter(d, s, fk, next)
<1> SUFFICES /\ next \in Database
             /\ next.sound = TRUE =>
              /\ next.versions = d.versions /\ next.scoped = d.scoped
              /\ s.op = "delete" => next.shape = d.shape
              /\ s.op \in {"create", "drop trigger"} => \A t \in Tables : next.rows[t] = d.rows[t]
              /\ s.op = "delete" =>
                   \A t \in Tables :
                     next.rows[t] = IF t \in Touched(s.table, fk) THEN d.rows[t] \ s.rows ELSE d.rows[t]
              /\ s.op \in {"drop", "rebuild"} =>
                   \A t \in Tables :
                     next.rows[t] = IF t = s.table THEN IF s.op = "rebuild" THEN s.rows ELSE {}
                                    ELSE IF t \in Touched(s.table, fk) THEN {} ELSE d.rows[t]
  BY DEF RowsAfter
<1>0. Fail(d) \in Database /\ ~ Fail(d).sound
  BY DatabaseIs DEF Fail
<1>1. CASE s.op = "create"
  <2>1. next = [d EXCEPT !.shape = @ \union s.defs]
    BY <1>1 DEF Execute
  <2> QED BY <1>1, <2>1, DatabaseIs DEF StatementOK
<1>2. CASE s.op = "drop trigger"
  <2> DEFINE shape == Without(d.shape, s.table, s.parts)
  <2>1. next = [d EXCEPT !.shape = shape]
    BY <1>2 DEF Execute
  <2>2. shape \subseteq Entries
    BY DatabaseIs, NothingRemoved
  <2> HIDE DEF shape
  <2>3. next \in Database /\ next.versions = d.versions /\ next.scoped = d.scoped
        /\ next.shape = shape /\ next.rows = d.rows
    BY <2>1, <2>2, DatabaseIs
  <2> QED BY <1>2, <2>3
<1>3. CASE s.op = "delete"
  <2>1. next = IF Refused(d, s.table, s.rows, fk, owner, TRUE) THEN Fail(d)
               ELSE RemoveRows(d, s.table, s.rows, fk)
    BY <1>3 DEF Execute
  <2>2. \/ next = Fail(d) \/ next = RemoveRows(d, s.table, s.rows, fk)
    BY <2>1
  <2>3. CASE next = Fail(d)
    BY <1>0, <2>3
  <2>4. CASE next = RemoveRows(d, s.table, s.rows, fk)
    <3> DEFINE ks == s.rows
    <3>1. d \in Database
      OBVIOUS
    <3>2. /\ RemoveRows(d, s.table, ks, fk) \in Database
          /\ RemoveRows(d, s.table, ks, fk).shape = d.shape
          /\ RemoveRows(d, s.table, ks, fk).versions = d.versions
          /\ RemoveRows(d, s.table, ks, fk).scoped = d.scoped
          /\ \A t \in Tables : RemoveRows(d, s.table, ks, fk).rows[t] =
               IF t \in Touched(s.table, fk) THEN d.rows[t] \ ks ELSE d.rows[t]
      BY ONLY <3>1, RemovedTyped
    <3> QED BY <1>3, <2>4, <3>2
  <2> QED BY <2>2, <2>3, <2>4
<1>4. CASE s.op \in {"drop", "rebuild"}
  <2> DEFINE removed == RemoveRows(d, s.table, Keys, fk)
             kept == IF s.op = "rebuild" THEN s.rows ELSE {}
             shape == Without(d.shape, s.table, s.parts) \union s.defs
             rows == [removed.rows EXCEPT ![s.table] = kept]
  <2>1. next = IF Refused(d, s.table, Keys, fk, owner, FALSE) THEN Fail(d)
               ELSE [removed EXCEPT !.shape = Without(@, s.table, s.parts) \union s.defs,
                                    !.rows[s.table] = kept]
    BY <1>4 DEF Execute
  <2>2. /\ removed \in Database /\ removed.shape = d.shape /\ removed.versions = d.versions
        /\ removed.scoped = d.scoped /\ (d.sound => removed.sound)
        /\ \A t \in Tables : removed.rows[t] =
             IF t \in Touched(s.table, fk) THEN d.rows[t] \ Keys ELSE d.rows[t]
    <3>1. d \in Database
      OBVIOUS
    <3> QED BY ONLY <3>1, RemovedTyped
  <2> HIDE DEF removed
  <2>3. \/ next = Fail(d)
        \/ next = [removed EXCEPT !.shape = shape, !.rows = rows]
    <3>1. [removed EXCEPT !.shape = Without(@, s.table, s.parts) \union s.defs, !.rows[s.table] = kept]
            = [removed EXCEPT !.shape = shape, !.rows = rows]
      <4> HIDE DEF kept
      <4> QED BY <2>2, DatabaseIs
    <3> QED BY <2>1, <3>1
  <2>4. shape \subseteq Entries
    BY DatabaseIs, NothingRemoved DEF StatementOK
  <2>5. kept \subseteq Keys
    BY DEF StatementOK
  <2>6. rows \in [Tables -> SUBSET Keys]
    <3> HIDE DEF kept
    <3> QED BY <2>2, <2>5, DatabaseIs
  <2>7. \A t \in Tables : rows[t] = IF t = s.table THEN kept
                                    ELSE IF t \in Touched(s.table, fk) THEN {} ELSE d.rows[t]
    <3>1. \A t \in Tables : d.rows[t] \subseteq Keys
      BY DatabaseIs
    <3>2. removed.rows \in [Tables -> SUBSET Keys]
      BY <2>2, DatabaseIs
    <3> HIDE DEF kept
    <3> QED BY <2>2, <3>1, <3>2
  <2>8. CASE next = Fail(d)
    BY <1>0, <2>8
  <2>9. CASE next = [removed EXCEPT !.shape = shape, !.rows = rows]
    <3> HIDE DEF shape, rows
    <3>1. /\ next \in Database /\ next.versions = d.versions /\ next.scoped = d.scoped
          /\ next.rows = rows
      BY <2>2, <2>4, <2>6, <2>9, DatabaseIs
    <3> QED BY <1>4, <2>7, <3>1
  <2> QED BY <2>3, <2>8, <2>9
<1> QED BY <1>1, <1>2, <1>3, <1>4 DEF StatementOK, Ops

(***************************************************************************)
(* The migrations                                                          *)
(***************************************************************************)

LEMMA CreateIs ==
  ASSUME NEW defs, defs \subseteq Entries
  PROVE  StatementOK(Create(defs)) /\ Create(defs).op = "create"
BY DEF Create, StatementOK, Ops

LEMMA DropTriggerIs ==
  ASSUME NEW table, NEW parts
  PROVE  StatementOK(DropTrigger(table, parts)) /\ DropTrigger(table, parts).op = "drop trigger"
BY DEF DropTrigger, StatementOK, Ops

LEMMA DeleteFromIs ==
  ASSUME NEW table, NEW ks, ks \subseteq Keys
  PROVE  /\ StatementOK(DeleteFrom(table, ks)) /\ DeleteFrom(table, ks).op = "delete"
         /\ DeleteFrom(table, ks).table = table /\ DeleteFrom(table, ks).rows = ks
BY DEF DeleteFrom, StatementOK, Ops

LEMMA DropIs ==
  ASSUME NEW table
  PROVE  /\ StatementOK(Drop(table)) /\ Drop(table).op = "drop" /\ Drop(table).table = table
BY DEF Drop, StatementOK, Ops

LEMMA RebuildIs ==
  ASSUME NEW table, NEW kept, NEW defs, kept \subseteq Keys, defs \subseteq Entries
  PROVE  /\ StatementOK(Rebuild(table, kept, defs)) /\ Rebuild(table, kept, defs).op = "rebuild"
         /\ Rebuild(table, kept, defs).table = table /\ Rebuild(table, kept, defs).rows = kept
BY DEF Rebuild, StatementOK, Ops

(* What a statement of a migration from version v may do to rows.          *)
Harmless(d, v, s) ==
  \/ s.op \in {"create", "drop trigger"}
  \/ s.op = "rebuild" /\ v <= 9 /\ s.table \notin Derived /\ s.rows = d.rows[s.table]
  \/ s.op = "drop" /\ v = 8 /\ s.table \in Derived
  \/ s.op = "delete" /\ v = 9 /\ s.table \in Derived /\ s.rows \subseteq d.scoped
  \/ s.op = "rebuild" /\ v = 9 /\ s.table \in Derived
       /\ d.rows[s.table] \ d.scoped \subseteq s.rows

Sure(d, v, s) == StatementOK(s) /\ Harmless(d, v, s)

LEMMA CreateSure ==
  ASSUME NEW d, NEW v, NEW defs, defs \subseteq Entries
  PROVE  Sure(d, v, Create(defs))
BY CreateIs DEF Sure, Harmless

LEMMA MigrationSure ==
  ASSUME NEW d \in Database, NEW v \in 1 .. 11, NEW i \in 1 .. Len(Statements(d, v))
  PROVE  Sure(d, v, Statements(d, v)[i])
<1>0. \A n \in 0 .. 12 : n \in 0 .. Current
  BY DEF Current
<1>n. /\ 1 \in 0 .. 12 /\ 3 \in 0 .. 12 /\ 6 \in 0 .. 12 /\ 7 \in 0 .. 12 /\ 8 \in 0 .. 12
      /\ 9 \in 0 .. 12 /\ 10 \in 0 .. 12
  OBVIOUS
<1>r. \A t \in Tables : d.rows[t] \subseteq Keys
  BY DatabaseIs
<1>d. ASSUME NEW table \in Tables, NEW parts \in SUBSET Indexed, NEW n \in 0 .. 12
      PROVE  Def(table, parts, n) \subseteq Entries
  BY <1>0, DefTyped
<1>t. "raw_logs" \in Tables /\ "experience_facts" \in Tables /\ "self_claims" \in Tables
      /\ "verification_findings" \in Tables /\ "assessment_snapshots" \in Tables
  BY TableNames
<1>p. {"table", "update guard"} \subseteq Indexed /\ {"index", "delete guard"} \subseteq Indexed
      /\ {"delete guard"} \subseteq Indexed
  BY PartsAre
<1>1. CASE v \in {1, 3, 4, 5, 6, 10, 11}
  <2>1. \E defs : defs \subseteq Entries /\ Statements(d, v) = <<Create(defs)>>
    <3>1. CASE v = 1
      BY <3>1, PartsTyped DEF Statements, To2
    <3>2. CASE v = 3
      BY <3>2, PartsTyped DEF Statements, To4
    <3>3. CASE v = 4
      BY <3>3, PartsTyped DEF Statements, To5
    <3>4. CASE v = 5
      BY <3>4, PartsTyped DEF Statements, To6
    <3>5. CASE v = 6
      BY <3>5, PartsTyped DEF Statements, To7
    <3>6. CASE v = 10
      BY <3>6, PartsTyped DEF Statements, To11
    <3>7. CASE v = 11
      BY <3>7, PartsTyped DEF Statements, To12
    <3> QED BY <1>1, <3>1, <3>2, <3>3, <3>4, <3>5, <3>6, <3>7
  <2>2. PICK defs : defs \subseteq Entries /\ Statements(d, v) = <<Create(defs)>>
    BY <2>1
  <2>3. Sure(d, v, Create(defs))
    BY <2>2, CreateSure
  <2> DEFINE s1 == Create(defs)
  <2> HIDE DEF s1
  <2>4. i = 1 /\ Statements(d, v)[1] = s1
    BY <2>2 DEF s1
  <2> QED BY <2>3, <2>4 DEF s1
<1>2. CASE v = 2
  <2> DEFINE defs == Def("raw_logs", {"table"}, 3) \union Def("raw_logs", Indexed \ {"table"}, 1)
             s1 == Create(Facts \union Sources)
             s2 == Rebuild("raw_logs", d.rows["raw_logs"], defs)
  <2>1. Statements(d, v) = <<s1, s2>>
    BY <1>2 DEF Statements, To3
  <2>2. defs \subseteq Entries
    BY <1>d, <1>n, <1>t, PartsAre
  <2>3. Sure(d, v, s1)
    BY PartsTyped, CreateSure
  <2>4. Sure(d, v, s2)
    <3> HIDE DEF defs
    <3>1. d.rows["raw_logs"] \subseteq Keys
      BY <1>r, <1>t
    <3>2. StatementOK(s2) /\ s2.op = "rebuild" /\ s2.table = "raw_logs" /\ s2.rows = d.rows["raw_logs"]
      BY <2>2, <3>1, RebuildIs
    <3> HIDE DEF s2
    <3>3. v <= 9 /\ s2.table \notin Derived
      BY <1>2, <3>2 DEF Derived
    <3> QED BY <3>2, <3>3 DEF Sure, Harmless
  <2> HIDE DEF s1, s2
  <2>5. i \in 1 .. 2 /\ Statements(d, v)[1] = s1 /\ Statements(d, v)[2] = s2
    BY <2>1
  <2> QED BY <2>3, <2>4, <2>5
<1>3. CASE v = 7
  <2> DEFINE defs == Def("raw_logs", {"table"}, 8) \union Def("raw_logs", Indexed \ {"table"}, 1)
             more == Def("experience_facts", {"table"}, 8) \union Def("experience_facts", Guards, 3)
             s1 == Rebuild("raw_logs", d.rows["raw_logs"], defs)
             s2 == Rebuild("experience_facts", d.rows["experience_facts"], more)
  <2>1. Statements(d, v) = <<s1, s2>>
    BY <1>3 DEF Statements, To8
  <2>2. defs \subseteq Entries /\ more \subseteq Entries
    BY <1>d, <1>n, <1>t, PartsAre
  <2>3. Sure(d, v, s1)
    <3> HIDE DEF defs
    <3>1. d.rows["raw_logs"] \subseteq Keys
      BY <1>r, <1>t
    <3>2. StatementOK(s1) /\ s1.op = "rebuild" /\ s1.table = "raw_logs" /\ s1.rows = d.rows["raw_logs"]
      BY <2>2, <3>1, RebuildIs
    <3> HIDE DEF s1
    <3>3. v <= 9 /\ s1.table \notin Derived
      BY <1>3, <3>2 DEF Derived
    <3> QED BY <3>2, <3>3 DEF Sure, Harmless
  <2>4. Sure(d, v, s2)
    <3> HIDE DEF more
    <3>1. d.rows["experience_facts"] \subseteq Keys
      BY <1>r, <1>t
    <3>2. StatementOK(s2) /\ s2.op = "rebuild" /\ s2.table = "experience_facts"
          /\ s2.rows = d.rows["experience_facts"]
      BY <2>2, <3>1, RebuildIs
    <3> HIDE DEF s2
    <3>3. v <= 9 /\ s2.table \notin Derived
      BY <1>3, <3>2 DEF Derived
    <3> QED BY <3>2, <3>3 DEF Sure, Harmless
  <2> HIDE DEF s1, s2
  <2>5. i \in 1 .. 2 /\ Statements(d, v)[1] = s1 /\ Statements(d, v)[2] = s2
    BY <2>1
  <2> QED BY <2>3, <2>4, <2>5
<1>4. CASE v = 8
  <2> DEFINE defs == Snapshots \union Findings \union Def("self_claims", {"table", "update guard"}, 9)
                       \union Def("self_claims", {"index", "delete guard"}, 6)
             s1 == Drop("verification_findings")
             s2 == Drop("self_claims")
             s3 == Drop("assessment_snapshots")
             s4 == Drop("self_signals")
             s5 == Create(defs)
  <2>1. Statements(d, v) = <<s1, s2, s3, s4, s5>>
    <3>1. Statements(d, v) = To9
      BY <1>4 DEF Statements
    <3> QED BY <3>1 DEF To9
  <2>2. defs \subseteq Entries
    BY <1>d, <1>n, <1>t, <1>p, PartsTyped
  <2>3. Sure(d, v, s1) /\ Sure(d, v, s2) /\ Sure(d, v, s3) /\ Sure(d, v, s4)
    BY <1>4, DropIs DEF Sure, Harmless, Derived
  <2>4. Sure(d, v, s5)
    BY <2>2, CreateSure
  <2> HIDE DEF s1, s2, s3, s4, s5
  <2>5. /\ i \in 1 .. 5 /\ Statements(d, v)[1] = s1 /\ Statements(d, v)[2] = s2
        /\ Statements(d, v)[3] = s3 /\ Statements(d, v)[4] = s4 /\ Statements(d, v)[5] = s5
    BY <2>1
  <2> QED BY <2>3, <2>4, <2>5
<1>5. CASE v = 9
  <2> DEFINE views == d.scoped \intersect d.rows["assessment_snapshots"]
             guards == Def("verification_findings", {"delete guard"}, 7)
                         \union Def("self_claims", {"delete guard"}, 6)
             defs == Def("assessment_snapshots", {"table", "update guard"}, 10)
                       \union Def("assessment_snapshots", {"delete guard"}, 6)
             found == views \intersect d.rows["self_claims"]
             kept == d.rows["assessment_snapshots"] \ views
             s1 == DropTrigger("verification_findings", {"delete guard"})
             s2 == DropTrigger("self_claims", {"delete guard"})
             s3 == DeleteFrom("verification_findings", found)
             s4 == DeleteFrom("self_claims", views)
             s5 == Create(guards)
             s6 == Rebuild("assessment_snapshots", kept, defs)
  <2>1. Statements(d, v) = <<s1, s2, s3, s4, s5, s6>>
    <3>1. Statements(d, v) = To10(d)
      BY <1>5 DEF Statements
    <3> QED BY <3>1 DEF To10
  <2>2. guards \subseteq Entries /\ defs \subseteq Entries
    BY <1>d, <1>n, <1>t, <1>p
  <2>3. /\ views \subseteq Keys /\ views \subseteq d.scoped /\ found \subseteq Keys
        /\ found \subseteq d.scoped /\ kept \subseteq Keys
        /\ d.rows["assessment_snapshots"] \ d.scoped \subseteq kept
    BY <1>r, <1>t
  <2> HIDE DEF views, guards, defs, found, kept
  <2>4. Sure(d, v, s1) /\ Sure(d, v, s2)
    BY DropTriggerIs DEF Sure, Harmless
  <2>5. Sure(d, v, s3) /\ Sure(d, v, s4)
    <3>1. StatementOK(s3) /\ s3.op = "delete" /\ s3.table = "verification_findings" /\ s3.rows = found
      BY <2>3, DeleteFromIs
    <3>2. StatementOK(s4) /\ s4.op = "delete" /\ s4.table = "self_claims" /\ s4.rows = views
      BY <2>3, DeleteFromIs
    <3> HIDE DEF s3, s4
    <3> QED BY <1>5, <2>3, <3>1, <3>2 DEF Sure, Harmless, Derived
  <2>6. Sure(d, v, s5)
    BY <2>2, CreateSure
  <2>7. Sure(d, v, s6)
    <3>1. StatementOK(s6) /\ s6.op = "rebuild" /\ s6.table = "assessment_snapshots" /\ s6.rows = kept
      BY <2>2, <2>3, RebuildIs
    <3> HIDE DEF s6
    <3> QED BY <1>5, <2>3, <3>1 DEF Sure, Harmless, Derived
  <2> HIDE DEF s1, s2, s3, s4, s5, s6
  <2>8. /\ i \in 1 .. 6 /\ Statements(d, v)[1] = s1 /\ Statements(d, v)[2] = s2
        /\ Statements(d, v)[3] = s3 /\ Statements(d, v)[4] = s4 /\ Statements(d, v)[5] = s5
        /\ Statements(d, v)[6] = s6
    BY <2>1
  <2> QED BY <2>4, <2>5, <2>6, <2>7, <2>8
<1> QED BY <1>1, <1>2, <1>3, <1>4, <1>5

(* A statement of a migration keeps the rows of what is not derived, and   *)
(* from version 9 on those of what is, a project view's apart.             *)
(* The rows such a statement leaves.                                       *)
Spared(d, v, next) ==
  /\ next.versions = d.versions /\ next.scoped = d.scoped
  /\ \A t \in Tables \ Derived : d.rows[t] \subseteq next.rows[t]
  /\ v > 9 => \A t \in Tables : d.rows[t] \subseteq next.rows[t]
  /\ v = 9 => \A t \in Tables : d.rows[t] \ d.scoped \subseteq next.rows[t]

LEMMA MigrationSpares ==
  ASSUME NEW d \in Database, NEW v \in 1 .. 11, NEW s, Sure(d, v, s),
         NEW fk, v <= 9 => fk = FALSE, NEW owner, NEW next, next = Execute(d, s, fk, owner)
  PROVE  next \in Database /\ (next.sound = TRUE => Spared(d, v, next))
<1>s. StatementOK(s)
  BY DEF Sure
<1>0. next \in Database /\ (next.sound = TRUE => RowsAfter(d, s, fk, next))
  BY <1>s, ExecuteDoes
<1> SUFFICES ASSUME next.sound = TRUE
             PROVE  /\ \A t \in Tables \ Derived : d.rows[t] \subseteq next.rows[t]
                    /\ v > 9 => \A t \in Tables : d.rows[t] \subseteq next.rows[t]
                    /\ v = 9 => \A t \in Tables : d.rows[t] \ d.scoped \subseteq next.rows[t]
  BY <1>0 DEF RowsAfter, Spared
<1>2. CASE s.op \in {"create", "drop trigger"}
  <2>1. \A t \in Tables : next.rows[t] = d.rows[t]
    BY <1>2, <1>0 DEF RowsAfter
  <2> QED BY <2>1
<1>3. CASE s.op = "delete"
  <2>1. v = 9 /\ s.table \in Derived /\ s.rows \subseteq d.scoped
    BY <1>3 DEF Sure, Harmless
  <2>2. Touched(s.table, fk) = {s.table}
    BY <2>1 DEF Touched
  <2>3. \A t \in Tables :
          next.rows[t] = IF t \in Touched(s.table, fk) THEN d.rows[t] \ s.rows ELSE d.rows[t]
    BY <1>3, <1>0 DEF RowsAfter
  <2>4. \A t \in Tables \ {s.table} : next.rows[t] = d.rows[t]
    BY <2>2, <2>3
  <2>5. s.table \in Tables => next.rows[s.table] = d.rows[s.table] \ s.rows
    BY <2>2, <2>3
  <2>6. \A t \in Tables : d.rows[t] \ d.scoped \subseteq next.rows[t]
    BY <2>1, <2>4, <2>5
  <2> QED BY <2>1, <2>4, <2>6
<1>4. CASE s.op = "drop"
  <2>1. v = 8 /\ s.table \in Derived
    BY <1>4 DEF Sure, Harmless
  <2>2. Touched(s.table, fk) = {s.table}
    BY <2>1 DEF Touched
  <2>3. \A t \in Tables : next.rows[t] = IF t = s.table THEN IF s.op = "rebuild" THEN s.rows ELSE {}
                                    ELSE IF t \in Touched(s.table, fk) THEN {} ELSE d.rows[t]
    BY <1>4, <1>0 DEF RowsAfter
  <2> QED BY <2>1, <2>2, <2>3
<1>5. CASE s.op = "rebuild"
  <2>1. /\ v <= 9
        /\ \/ s.table \notin Derived /\ s.rows = d.rows[s.table]
           \/ v = 9 /\ s.table \in Derived /\ d.rows[s.table] \ d.scoped \subseteq s.rows
    BY <1>5 DEF Sure, Harmless
  <2>2. Touched(s.table, fk) = {s.table}
    BY <2>1 DEF Touched
  <2>3. \A t \in Tables : next.rows[t] = IF t = s.table THEN IF s.op = "rebuild" THEN s.rows ELSE {}
                                    ELSE IF t \in Touched(s.table, fk) THEN {} ELSE d.rows[t]
    BY <1>5, <1>0 DEF RowsAfter
  <2>4. \A t \in Tables : next.rows[t] = IF t = s.table THEN s.rows ELSE d.rows[t]
    BY <1>5, <2>2, <2>3
  <2> QED BY <2>1, <2>4
<1> QED BY <1>2, <1>3, <1>4, <1>5 DEF Sure, StatementOK, Ops

(***************************************************************************)
(* The deletions                                                           *)
(***************************************************************************)

(* The source records a deletion may take of a table.                      *)
Allowed(c, table) ==
  CASE c.kind = "logs delete" -> IF table = "job_descriptions" THEN {} ELSE c.target
    [] c.kind = "jd delete" -> IF table = "job_descriptions" THEN c.target ELSE {}
    [] c.kind = "purge" -> Keys

(* Only a deletion from raw_logs reaches the records of another table.     *)
LEMMA ReachesSources ==
  ASSUME NEW table, NEW source \in SourceTables, source \in Touched(table, TRUE)
  PROVE  source = table \/ (table = "raw_logs" /\ source = "evidence_items")
<1>1. source = table \/ <<source, table>> \in Cascading
        \/ \E d \in Tables : <<d, table>> \in Cascading /\ <<source, d>> \in Cascading
  BY DEF Touched, Reached
<1>2. CASE <<source, table>> \in Cascading
  BY <1>2 DEF Cascading, SourceTables
<1>3. ASSUME NEW d \in Tables, <<d, table>> \in Cascading, <<source, d>> \in Cascading
      PROVE  FALSE
  <2>1. source = "evidence_items" /\ d = "raw_logs"
    BY <1>3 DEF Cascading, SourceTables
  <2> QED BY <1>3, <2>1 DEF Cascading
<1> QED BY <1>1, <1>2, <1>3

(* A statement of a deletion takes no source record but what is allowed.   *)
Deleting(c, s) ==
  /\ StatementOK(s) /\ s.op = "delete"
  /\ \A source \in SourceTables :
       source \in Touched(s.table, TRUE) => s.rows \subseteq Allowed(c, source)

LEMMA ClearSpares ==
  ASSUME NEW c, c.kind \in Deletions, NEW table, table \notin SourceTables, NEW ks, ks \subseteq Keys
  PROVE  Deleting(c, DeleteFrom(table, ks))
<1>1. \A source \in SourceTables : source \notin Touched(table, TRUE)
  BY ReachesSources DEF SourceTables
<1> QED BY <1>1, DeleteFromIs DEF Deleting

LEMMA DeletionSure ==
  ASSUME NEW c, c.kind \in Deletions, c.target \subseteq Keys,
         NEW i \in 1 .. Len(DeletionStatements(c))
  PROVE  Deleting(c, DeletionStatements(c)[i])
<1>c. ASSUME NEW table, table \notin SourceTables
      PROVE  Deleting(c, Clear(table))
  BY <1>c, ClearSpares DEF Clear
<1>1. CASE c.kind = "logs delete"
  <2> DEFINE s1 == Clear("verification_findings")
             s2 == Clear("resume_bullets")
             s3 == Clear("resume_branches")
             s4 == Clear("self_claims")
             s5 == Clear("assessment_snapshots")
             s6 == Clear("gap_questions")
             s7 == Clear("contradictions")
             s8 == Clear("experience_facts")
             s9 == DeleteFrom("raw_logs", c.target)
  <2>1. DeletionStatements(c) = <<s1, s2, s3, s4, s5, s6, s7, s8, s9>>
    <3>1. DeletionStatements(c) = DeleteLog(c.target)
      BY <1>1 DEF DeletionStatements
    <3> QED BY <3>1 DEF DeleteLog
  <2>2. /\ Deleting(c, s1) /\ Deleting(c, s2) /\ Deleting(c, s3) /\ Deleting(c, s4)
        /\ Deleting(c, s5) /\ Deleting(c, s6) /\ Deleting(c, s7) /\ Deleting(c, s8)
    <3>1. /\ "verification_findings" \notin SourceTables /\ "resume_bullets" \notin SourceTables
          /\ "resume_branches" \notin SourceTables /\ "self_claims" \notin SourceTables
          /\ "assessment_snapshots" \notin SourceTables /\ "gap_questions" \notin SourceTables
          /\ "contradictions" \notin SourceTables /\ "experience_facts" \notin SourceTables
      BY DEF SourceTables
    <3> QED BY <1>c, <3>1
  <2>3. Deleting(c, s9)
    <3>1. \A source \in SourceTables : source \in Touched("raw_logs", TRUE) =>
            c.target \subseteq Allowed(c, source)
      BY <1>1, ReachesSources DEF Allowed
    <3> QED BY ZenonT(40), <3>1, DeleteFromIs DEF Deleting
  <2> HIDE DEF s1, s2, s3, s4, s5, s6, s7, s8, s9
  <2>4. /\ i \in 1 .. 9 /\ DeletionStatements(c)[1] = s1 /\ DeletionStatements(c)[2] = s2
        /\ DeletionStatements(c)[3] = s3 /\ DeletionStatements(c)[4] = s4
        /\ DeletionStatements(c)[5] = s5 /\ DeletionStatements(c)[6] = s6
        /\ DeletionStatements(c)[7] = s7 /\ DeletionStatements(c)[8] = s8
        /\ DeletionStatements(c)[9] = s9
    BY <2>1
  <2>5. i = 1 \/ i = 2 \/ i = 3 \/ i = 4 \/ i = 5 \/ i = 6 \/ i = 7 \/ i = 8 \/ i = 9
    BY <2>4
  <2> QED BY <2>2, <2>3, <2>4, <2>5
<1>2. CASE c.kind = "jd delete"
  <2> DEFINE s1 == DeleteFrom("verification_findings", c.target)
             s2 == DeleteFrom("resume_bullets", c.target)
             s3 == DeleteFrom("resume_branches", c.target)
             s4 == DeleteFrom("job_descriptions", c.target)
  <2>1. DeletionStatements(c) = <<s1, s2, s3, s4>>
    <3>1. DeletionStatements(c) = DeleteVacancy(c.target)
      BY <1>2 DEF DeletionStatements
    <3> QED BY <3>1 DEF DeleteVacancy
  <2>2. Deleting(c, s1) /\ Deleting(c, s2) /\ Deleting(c, s3)
    <3>1. /\ "verification_findings" \notin SourceTables /\ "resume_bullets" \notin SourceTables
          /\ "resume_branches" \notin SourceTables
      BY DEF SourceTables
    <3> QED BY <3>1, ClearSpares
  <2>3. Deleting(c, s4)
    <3>1. \A source \in SourceTables : source \in Touched("job_descriptions", TRUE) =>
            c.target \subseteq Allowed(c, source)
      BY <1>2, ReachesSources DEF Allowed
    <3> QED BY ZenonT(40), <3>1, DeleteFromIs DEF Deleting
  <2> HIDE DEF s1, s2, s3, s4
  <2>4. /\ i \in 1 .. 4 /\ DeletionStatements(c)[1] = s1 /\ DeletionStatements(c)[2] = s2
        /\ DeletionStatements(c)[3] = s3 /\ DeletionStatements(c)[4] = s4
    BY <2>1
  <2> QED BY <2>2, <2>3, <2>4
<1>3. CASE c.kind = "purge"
  <2> DEFINE n == Len(PurgeTableOrder)
             all == {Clear(PurgeTableOrder[j]) : j \in 1 .. n}
  <2>1. DeletionStatements(c) = PurgeAll
    BY <1>3 DEF DeletionStatements
  <2>2. n \in Nat
    BY DEF PurgeTableOrder
  <2>3. PurgeAll = [j \in 1 .. n |-> Clear(PurgeTableOrder[j])]
    BY DEF PurgeAll
  <2> HIDE DEF n
  <2>4. PurgeAll \in [1 .. n -> all]
    BY <2>3
  <2>5. Len(PurgeAll) = n
    <3> HIDE DEF all
    <3> QED BY <2>2, <2>4
  <2>6. i \in 1 .. n /\ DeletionStatements(c)[i] = Clear(PurgeTableOrder[i])
    BY <2>1, <2>3, <2>5
  <2> DEFINE table == PurgeTableOrder[i]
  <2> HIDE DEF table
  <2>7. Deleting(c, DeleteFrom(table, Keys))
    <3>1. \A source \in SourceTables : Allowed(c, source) = Keys
      BY <1>3 DEF Allowed
    <3>2. /\ StatementOK(DeleteFrom(table, Keys)) /\ DeleteFrom(table, Keys).op = "delete"
          /\ DeleteFrom(table, Keys).rows = Keys
      BY DeleteFromIs
    <3> QED BY <3>1, <3>2 DEF Deleting
  <2> QED BY <2>6, <2>7 DEF Clear, table
<1> QED BY <1>1, <1>2, <1>3 DEF Deletions

(* Executed, it leaves the other records where they are.                   *)
(* The source records of d a deletion may not take are there.              *)
Confined(c, d, next) ==
  /\ next.shape = d.shape
  /\ \A source \in SourceTables : d.rows[source] \ Allowed(c, source) \subseteq next.rows[source]

Erased(c, d, next) ==
  /\ next \in Database
  /\ next.sound = TRUE => next.versions = d.versions /\ Confined(c, d, next)

LEMMA DeletionSpares ==
  ASSUME NEW d \in Database, NEW c, NEW s, Deleting(c, s),
         NEW fk, fk = TRUE, NEW owner, NEW next, next = Execute(d, s, fk, owner)
  PROVE  Erased(c, d, next)
<1>0. next \in Database /\ (next.sound = TRUE => RowsAfter(d, s, fk, next))
  <2>1. StatementOK(s)
    BY DEF Deleting
  <2> QED BY <2>1, ExecuteDoes
<1>1. /\ next \in Database
      /\ next.sound = TRUE =>
           /\ next.shape = d.shape /\ next.versions = d.versions
           /\ \A t \in Tables : next.rows[t] =
                IF t \in Touched(s.table, fk) THEN d.rows[t] \ s.rows ELSE d.rows[t]
  BY <1>0 DEF Deleting, RowsAfter
<1>2. SourceTables \subseteq Tables
  BY TableNames DEF SourceTables
<1>3. next.sound = TRUE => \A source \in SourceTables :
        d.rows[source] \ Allowed(c, source) \subseteq next.rows[source]
  BY <1>1, <1>2 DEF Deleting
<1> QED BY <1>1, <1>3 DEF Confined, Erased

(***************************************************************************)
(* One step of one process                                                 *)
(***************************************************************************)

Step(p) ==
  \/ InitStep(p) \/ MigrateStep(p) \/ Lock(p) \/ Busy(p) \/ Gate(p) \/ Check(p)
  \/ CaptureStep(p) \/ ImportStep(p) \/ DeletionStep(p) \/ Struck(p) \/ Dies(p)

Fields ==
  {"kind", "pc", "seen", "made", "work", "backup", "committed", "deferred", "pending", "at", "todo",
   "retained", "accepted", "attempts", "target", "unlinks", "refused", "residuals", "unproven",
   "durable", "detached", "stale", "code", "named", "reported"}

Shaped == DOMAIN cmd = Procs /\ \A p \in Procs : DOMAIN cmd[p] = Fields

(* The steps a command takes under the writer lock.                        *)
Locked == {"check", "backup", "verify", "begin", "step", "statements", "restore", "commit",
           "close", "backups", "sets", "rows", "erase", "rebuild"}

Holding(p) == cmd[p].pc \in Locked \/ (cmd[p].kind \in Deletions /\ cmd[p].pc = "hand over")

Held ==
  /\ holder \in Procs \union {None}
  /\ \A p \in Procs : (Holding(p) => holder = p) /\ (holder = p => Live(p))

(* What a step of p leaves to the others.                                  *)
Frame(p) ==
  /\ \A q \in Procs \ {p} : cmd'[q] = cmd[q] /\ (holder = q => holder' = q)
  /\ holder' \in {None, holder, p}
  /\ cmd[p].kind = "init" \/ holder = p \/ (db' = db /\ backups' = backups)
  /\ cmd[p].kind = "init" \/ entries' = entries
  /\ sets' \subseteq sets
  /\ \A u \in unclean' \ unclean : u[2] = p
  /\ DOMAIN cmd' = Procs /\ DOMAIN cmd'[p] = Fields /\ cmd'[p].kind = cmd[p].kind
  /\ Holding(p)' => holder' = p
  /\ holder' = p => Live(p)'

LEMMA TurnDoes ==
  ASSUME Shaped, NEW p \in Procs, NEW c, DOMAIN c = Fields, Turn(p, c)
  PROVE  /\ DOMAIN cmd' = Procs /\ cmd'[p] = c
         /\ \A q \in Procs \ {p} : cmd'[q] = cmd[q]
BY DEF Turn, Shaped

LEMMA EndsDoes ==
  ASSUME Shaped, NEW p \in Procs, NEW c, DOMAIN c = Fields, NEW code, NEW named, NEW reported,
         Ends(p, c, code, named, reported)
  PROVE  /\ DOMAIN cmd' = Procs /\ DOMAIN cmd'[p] = Fields
         /\ \A q \in Procs \ {p} : cmd'[q] = cmd[q]
         /\ cmd'[p].pc = "done" /\ cmd'[p].named = named /\ cmd'[p].reported = reported
         /\ cmd'[p].work = EmptyFile /\ cmd'[p].code = (IF c.pending THEN "cancelled" ELSE code)
         /\ \A f \in Fields \ {"pc", "code", "named", "reported", "work"} : cmd'[p][f] = c[f]
         /\ holder' = (IF holder = p THEN None ELSE holder)
<1>1. /\ DOMAIN cmd' = Procs
      /\ cmd'[p] = [c EXCEPT !.pc = "done", !.code = IF c.pending THEN "cancelled" ELSE code,
                 !.named = named, !.reported = reported, !.work = EmptyFile]
      /\ \A q \in Procs \ {p} : cmd'[q] = cmd[q]
      /\ holder' = (IF holder = p THEN None ELSE holder)
  BY DEF Ends, Shaped
<1> QED BY ZenonT(40), <1>1 DEF Fields

(* An ending frees the lock and leaves the rest to the action.             *)
LEMMA EndsFrame ==
  ASSUME Shaped, Held, NEW p \in Procs, NEW c, DOMAIN c = Fields, c.kind = cmd[p].kind,
         NEW code, NEW named, NEW reported, Ends(p, c, code, named, reported),
         cmd[p].kind = "init" \/ holder = p \/ (db' = db /\ backups' = backups),
         cmd[p].kind = "init" \/ entries' = entries,
         sets' \subseteq sets, \A u \in unclean' \ unclean : u[2] = p
  PROVE  Frame(p)
<1>1. /\ DOMAIN cmd' = Procs /\ DOMAIN cmd'[p] = Fields
      /\ \A q \in Procs \ {p} : cmd'[q] = cmd[q]
      /\ cmd'[p].pc = "done" /\ cmd'[p].kind = cmd[p].kind
      /\ holder' = (IF holder = p THEN None ELSE holder)
  BY EndsDoes DEF Fields
<1>2. ~ Holding(p)'
  BY <1>1 DEF Holding, Locked
<1>3. holder' # p
  BY <1>1, NoneAssumption
<1> QED BY <1>1, <1>2, <1>3 DEF Frame

(* Neither does any step between that keeps the lock as it is.             *)
LEMMA TurnFrame ==
  ASSUME Shaped, Held, NEW p \in Procs, NEW c, DOMAIN c = Fields, c.kind = cmd[p].kind, Turn(p, c),
         c.pc \notin {"done", "dead"},
         c.pc \in Locked \/ (c.kind \in Deletions /\ c.pc = "hand over") => holder = p,
         holder' = holder,
         cmd[p].kind = "init" \/ holder = p \/ (db' = db /\ backups' = backups),
         cmd[p].kind = "init" \/ entries' = entries,
         sets' \subseteq sets, \A u \in unclean' \ unclean : u[2] = p
  PROVE  Frame(p)
<1>1. /\ DOMAIN cmd' = Procs /\ cmd'[p] = c
      /\ \A q \in Procs \ {p} : cmd'[q] = cmd[q]
  BY TurnDoes
<1>2. Holding(p)' => holder' = p
  BY <1>1 DEF Holding
<1>3. Live(p)'
  BY <1>1 DEF Live
<1> QED BY <1>1, <1>2, <1>3 DEF Frame

LEMMA InitFrames ==
  ASSUME Shaped, Held, NEW p \in Procs, InitStep(p)
  PROVE  Frame(p)
<1>0. DOMAIN cmd[p] = Fields
  BY DEF Shaped
<1>k. cmd[p].kind = "init"
  BY DEF InitStep, InitSees, InitSeesOut, InitMakesOut, InitRestrictsOut, InitMakesMarker, InitFills,
         InitCreatesSchema, InitInspects, InitUndoesMarker, InitUndoesOut, At
<1> DEFINE N(pc) == pc \notin Locked \union {"done", "dead", "hand over"}
<1>n. /\ N("out") /\ N("restrict out") /\ N("make out") /\ N("marker") /\ N("undo marker")
      /\ N("fill") /\ N("schema") /\ N("inspect") /\ N("undo out")
  BY DEF Locked
<1> HIDE DEF N
<1>t. ASSUME NEW c, DOMAIN c = Fields, c.kind = "init", N(c.pc), Turn(p, c), holder' = holder,
             sets' \subseteq sets, unclean' = unclean
      PROVE  Frame(p)
  <2>1. c.pc \notin {"done", "dead"} /\ c.pc \notin Locked /\ c.pc # "hand over"
    BY <1>t DEF N
  <2> QED BY <1>k, <1>t, <2>1, TurnFrame
<1>e. ASSUME NEW code, Refuses(p, code), sets' \subseteq sets, unclean' = unclean
      PROVE  Frame(p)
  <2>1. Ends(p, cmd[p], code, {}, {})
    BY <1>e DEF Refuses
  <2> QED BY <1>0, <1>k, <1>e, <2>1, EndsFrame
<1>1. CASE InitSees(p)
  BY <1>0, <1>1, <1>k, <1>n, <1>t, <1>e DEF InitSees, Go, disk, Fields
<1>2. CASE InitSeesOut(p)
  BY <1>0, <1>2, <1>k, <1>n, <1>t, <1>e DEF InitSeesOut, Go, disk, Fields
<1>3. CASE InitMakesOut(p)
  BY <1>0, <1>3, <1>k, <1>n, <1>t, <1>e DEF InitMakesOut, Fields
<1>4. CASE InitRestrictsOut(p)
  BY <1>0, <1>4, <1>k, <1>n, <1>t DEF InitRestrictsOut, Go, disk, Fields
<1>5. CASE InitMakesMarker(p)
  BY <1>0, <1>5, <1>k, <1>n, <1>t DEF InitMakesMarker, Fields
<1>6. CASE InitFills(p)
  BY <1>0, <1>6, <1>k, <1>n, <1>t DEF InitFills, Go, Fields
<1>7. CASE InitCreatesSchema(p)
  BY <1>0, <1>7, <1>k, <1>n, <1>t DEF InitCreatesSchema, Go, Fields
<1>8. CASE InitInspects(p)
  BY <1>0, <1>8, <1>k, <1>n, <1>t, <1>e DEF InitInspects, Go, disk, Fields
<1>9. CASE InitUndoesMarker(p)
  BY <1>0, <1>9, <1>k, <1>n, <1>t DEF InitUndoesMarker, Go, Fields
<1>10. CASE InitUndoesOut(p)
  BY <1>0, <1>10, <1>k, <1>n, <1>e DEF InitUndoesOut
<1> QED BY <1>1, <1>2, <1>3, <1>4, <1>5, <1>6, <1>7, <1>8, <1>9, <1>10 DEF InitStep

LEMMA LockedSteps ==
  /\ "check" \in Locked /\ "backup" \in Locked /\ "verify" \in Locked /\ "begin" \in Locked
  /\ "step" \in Locked /\ "statements" \in Locked /\ "restore" \in Locked /\ "commit" \in Locked
  /\ "close" \in Locked /\ "backups" \in Locked /\ "sets" \in Locked /\ "rows" \in Locked
  /\ "erase" \in Locked /\ "rebuild" \in Locked
  /\ "start" \notin Locked /\ "lock" \notin Locked /\ "after" \notin Locked
  /\ "hand over" \notin Locked /\ "done" \notin Locked /\ "dead" \notin Locked
BY DEF Locked

(* A step under the lock that keeps it.                                    *)
LEMMA WorkFrame ==
  ASSUME Shaped, Held, NEW p \in Procs, cmd[p].pc \in Locked,
         NEW c, DOMAIN c = Fields, c.kind = cmd[p].kind, Turn(p, c), c.pc \notin {"done", "dead"},
         holder' = holder, entries' = entries,
         sets' \subseteq sets, \A u \in unclean' \ unclean : u[2] = p
  PROVE  Frame(p)
<1>1. holder = p
  BY DEF Held, Holding
<1> QED BY <1>1, TurnFrame

(* The end of a command that was under the lock.                           *)
LEMMA WorkEnds ==
  ASSUME Shaped, Held, NEW p \in Procs, cmd[p].pc \in Locked,
         NEW c, DOMAIN c = Fields, c.kind = cmd[p].kind,
         NEW code, NEW named, NEW reported, Ends(p, c, code, named, reported),
         entries' = entries, sets' \subseteq sets, \A u \in unclean' \ unclean : u[2] = p
  PROVE  Frame(p)
<1>1. holder = p
  BY DEF Held, Holding
<1> QED BY <1>1, EndsFrame

LEMMA MigrateFrames ==
  ASSUME Shaped, Held, NEW p \in Procs, MigrateStep(p)
  PROVE  Frame(p)
<1>0. DOMAIN cmd[p] = Fields
  BY DEF Shaped
<1>k. cmd[p].kind = "migrate"
  BY DEF MigrateStep, MigrateSees, MigrateChecks, MigrateBacksUp, MigrateVerifies, MigrateBegins,
         MigrateCleans, MigrateExecutes, MigrateRecords, MigrateCommits, MigrateReleases,
         MigrateReports, At
<1>d. "migrate" \notin Deletions
  BY DEF Deletions
<1>e. ASSUME NEW code, NEW named, NEW reported, Ends(p, cmd[p], code, named, reported), UNCHANGED disk
      PROVE  Frame(p)
  BY <1>0, <1>e, EndsFrame DEF disk
<1>t. ASSUME NEW c, DOMAIN c = Fields, c.kind = "migrate", c.pc \notin {"done", "dead"},
             cmd[p].pc \in Locked, Turn(p, c), holder' = holder, entries' = entries,
             sets' \subseteq sets, unclean' = unclean
      PROVE  Frame(p)
  BY <1>k, <1>t, WorkFrame
<1>1. CASE MigrateSees(p)
  <2>1. CASE Refuses(p, IF Compatible THEN "up to date" ELSE "schema_incompatible")
    BY <1>1, <1>e, <2>1 DEF MigrateSees, Refuses
  <2>2. CASE Turn(p, [cmd[p] EXCEPT !.pc = "lock", !.seen = Stored(db)]) /\ UNCHANGED holder
    <3> DEFINE c == [cmd[p] EXCEPT !.pc = "lock", !.seen = Stored(db)]
    <3>1. DOMAIN c = Fields /\ c.kind = "migrate" /\ c.pc = "lock"
      BY <1>0, <1>k DEF Fields
    <3>2. Turn(p, c) /\ holder' = holder /\ UNCHANGED disk
      BY <1>1, <2>2 DEF MigrateSees
    <3> HIDE DEF c
    <3>3. c.pc \notin {"done", "dead"} /\ ~ (c.pc \in Locked \/ (c.kind \in Deletions /\ c.pc = "hand over"))
      BY <1>d, <3>1, LockedSteps
    <3> QED BY <1>k, <3>1, <3>2, <3>3, TurnFrame DEF disk
  <2> QED BY <1>1, <2>1, <2>2 DEF MigrateSees
<1>2. CASE MigrateChecks(p)
  BY <1>0, <1>2, <1>k, <1>t, <1>e, LockedSteps DEF MigrateChecks, At, Refuses, Go, disk, Fields
<1>3. CASE MigrateBacksUp(p)
  BY <1>0, <1>3, <1>k, <1>t, LockedSteps DEF MigrateBacksUp, At, Go, Fields
<1>4. CASE MigrateVerifies(p)
  BY <1>0, <1>4, <1>k, <1>t, LockedSteps DEF MigrateVerifies, At, Fields
<1>5. CASE MigrateBegins(p)
  BY <1>0, <1>5, <1>k, <1>t, LockedSteps DEF MigrateBegins, At, disk, Fields
<1>6. CASE MigrateCleans(p)
  BY <1>0, <1>6, <1>k, <1>t, LockedSteps DEF MigrateCleans, At, Go, Fields
<1>7. CASE MigrateExecutes(p)
  <2> DEFINE next == Execute(cmd[p].work, Statements(cmd[p].work, Stored(cmd[p].work))[cmd[p].at],
                             ForeignKeys(p), FALSE)
  <2>1. /\ \/ Turn(p, [cmd[p] EXCEPT !.work = next, !.at = @ + 1]) /\ holder' = holder
           \/ Ends(p, cmd[p], "migration_failed", {}, cmd[p].residuals)
        /\ UNCHANGED disk /\ cmd[p].pc = "statements"
    BY <1>7 DEF MigrateExecutes, At
  <2> HIDE DEF next
  <2> QED BY <1>0, <1>k, <1>t, <1>e, <2>1, LockedSteps DEF disk, Fields
<1>8. CASE MigrateRecords(p)
  BY <1>0, <1>8, <1>k, <1>t, LockedSteps DEF MigrateRecords, At, disk, Fields
<1>9. CASE MigrateCommits(p)
  <2>1. CASE Ends(p, cmd[p], "migration_failed", {}, cmd[p].residuals) /\ UNCHANGED db
    BY <1>9, <1>e, <2>1 DEF MigrateCommits, disk
  <2>2. CASE Turn(p, [cmd[p] EXCEPT !.pc = "restore", !.committed = TRUE]) /\ UNCHANGED holder
    BY <1>0, <1>9, <1>k, <1>t, <2>2, LockedSteps DEF MigrateCommits, At, Fields
  <2> QED BY <1>9, <2>1, <2>2 DEF MigrateCommits
<1>10. CASE MigrateReleases(p)
  <2>1. holder = p /\ holder' = None /\ Go(p, "after") /\ UNCHANGED disk
    BY <1>10, LockedSteps DEF MigrateReleases, At, Held, Holding
  <2> DEFINE c == [cmd[p] EXCEPT !.pc = "after"]
  <2>2. DOMAIN c = Fields /\ c.kind = "migrate" /\ c.pc = "after"
    BY <1>0, <1>k DEF Fields
  <2>3. /\ DOMAIN cmd' = Procs /\ cmd'[p] = c
        /\ \A q \in Procs \ {p} : cmd'[q] = cmd[q]
    BY <2>1, <2>2, TurnDoes DEF Go
  <2> HIDE DEF c
  <2> QED BY <1>k, <1>d, <2>1, <2>2, <2>3, LockedSteps, NoneAssumption DEF Frame, Holding, Live, disk
<1>11. CASE MigrateReports(p)
  BY <1>11, <1>e DEF MigrateReports
<1> QED BY <1>1, <1>2, <1>3, <1>4, <1>5, <1>6, <1>7, <1>8, <1>9, <1>10, <1>11 DEF MigrateStep

LEMMA GenericFrames ==
  ASSUME Shaped, Held, NEW p \in Procs,
         Lock(p) \/ Busy(p) \/ Gate(p) \/ Check(p) \/ Dies(p) \/ Struck(p)
  PROVE  Frame(p)
<1>0. DOMAIN cmd[p] = Fields
  BY DEF Shaped
<1>e. ASSUME NEW code, Refuses(p, code), UNCHANGED disk
      PROVE  Frame(p)
  BY <1>0, <1>e, EndsFrame DEF disk, Refuses
<1>1. CASE Lock(p)
  <2> DEFINE c == [cmd[p] EXCEPT !.pc = "check"]
  <2>2. DOMAIN c = Fields /\ c.kind = cmd[p].kind /\ c.pc = "check"
    BY <1>0 DEF Fields
  <2>1. holder = None /\ holder' = p /\ Turn(p, c) /\ UNCHANGED disk
    BY <1>1 DEF Lock, Go
  <2>3. /\ DOMAIN cmd' = Procs /\ cmd'[p] = c
        /\ \A q \in Procs \ {p} : cmd'[q] = cmd[q]
    BY <2>1, <2>2, TurnDoes
  <2> HIDE DEF c
  <2> QED BY <2>1, <2>2, <2>3, NoneAssumption DEF Frame, Holding, Live, disk
<1>2. CASE Busy(p)
  BY <1>2, <1>e DEF Busy
<1>3. CASE Gate(p)
  <2>1. ASSUME NEW k \in Keys,
               Turn(p, [cmd[p] EXCEPT !.pc = "lock",
                              !.target = IF cmd[p].kind \in {"import", "purge"} THEN {} ELSE {k}])
        PROVE  Frame(p)
    <3> DEFINE t == IF cmd[p].kind \in {"import", "purge"} THEN {} ELSE {k}
               c == [cmd[p] EXCEPT !.pc = "lock", !.target = t]
    <3>1. DOMAIN c = Fields /\ c.kind = cmd[p].kind /\ c.pc = "lock"
      BY <1>0 DEF Fields
    <3>h. ~ Refuses(p, "selector_not_found") /\ ~ Refuses(p, "schema_incompatible")
      <4>1. cmd'[p].pc = "lock"
        BY <2>1, <3>1, TurnDoes
      <4>2. \A code : ~ Refuses(p, code)
        BY <1>0, <4>1, EndsDoes DEF Refuses
      <4> QED BY <4>2
    <3>2. Turn(p, c) /\ holder' = holder /\ UNCHANGED disk
      BY <1>3, <2>1, <3>h DEF Gate
    <3> HIDE DEF c
    <3>3. c.pc \notin {"done", "dead"} /\ ~ (c.pc \in Locked \/ (c.kind \in Deletions /\ c.pc = "hand over"))
      BY <3>1, LockedSteps
    <3> QED BY <3>1, <3>2, <3>3, TurnFrame DEF disk
  <2> QED BY <1>3, <1>e, <2>1 DEF Gate
<1>4. CASE Check(p)
  <2>1. CASE Refuses(p, "schema_incompatible")
    BY <1>4, <1>e, <2>1 DEF Check
  <2>2. ASSUME NEW retained, Turn(p, [cmd[p] EXCEPT !.pc = "begin", !.retained = retained]),
               UNCHANGED holder, UNCHANGED disk
        PROVE  Frame(p)
    BY <1>0, <1>4, <2>2, WorkFrame, LockedSteps DEF Check, disk, Fields
  <2> QED BY <1>4, <2>1, <2>2 DEF Check
<1>5. CASE Dies(p)
  <2> DEFINE c == [cmd[p] EXCEPT !.pc = "dead", !.work = EmptyFile]
  <2>2. DOMAIN c = Fields /\ c.kind = cmd[p].kind /\ c.pc = "dead"
    BY <1>0 DEF Fields
  <2>1. cmd' = [cmd EXCEPT ![p] = c]
    BY <1>5 DEF Dies
  <2>3. /\ DOMAIN cmd' = Procs /\ cmd'[p] = c
        /\ \A q \in Procs \ {p} : cmd'[q] = cmd[q]
    BY <2>1 DEF Shaped
  <2>4. holder' = (IF holder = p THEN None ELSE holder) /\ UNCHANGED disk
    BY <1>5 DEF Dies
  <2> HIDE DEF c
  <2> QED BY <2>2, <2>3, <2>4, LockedSteps, NoneAssumption DEF Frame, Holding, Live, disk
<1>6. CASE Struck(p)
  <2>1. ASSUME NEW code, InitStruck(p, code)
        PROVE  Frame(p)
    <3>1. CASE Refuses(p, code)
      BY <2>1, <1>e, <3>1 DEF InitStruck
    <3>2. CASE Turn(p, [cmd[p] EXCEPT !.pc = "undo marker", !.code = code]) /\ UNCHANGED holder
      <4> DEFINE c == [cmd[p] EXCEPT !.pc = "undo marker", !.code = code]
      <4>1. DOMAIN c = Fields /\ c.kind = cmd[p].kind /\ c.pc = "undo marker"
        BY <1>0 DEF Fields
      <4>2. Turn(p, c) /\ holder' = holder /\ UNCHANGED disk
        BY <2>1, <3>2 DEF InitStruck
      <4> HIDE DEF c
      <4>3. c.pc \notin {"done", "dead"} /\ ~ (c.pc \in Locked \/ (c.kind \in Deletions /\ c.pc = "hand over"))
        BY <4>1 DEF Locked
      <4> QED BY <4>1, <4>2, <4>3, TurnFrame DEF disk
    <3> QED BY <2>1, <3>1, <3>2 DEF InitStruck
  <2>2. ASSUME NEW code, MigrateStruck(p, code)
        PROVE  Frame(p)
    <3> DEFINE said == IF code = "internal_error" /\ cmd[p].pc \notin {"start", "lock", "after"}
                       THEN "migration_failed" ELSE code
    <3>1. /\ Ends(p, cmd[p], said, {}, cmd[p].residuals)
          /\ UNCHANGED <<entries, db, sets, unclean>>
          /\ cmd[p].pc = "verify" \/ UNCHANGED backups
      BY <2>2 DEF MigrateStruck
    <3> HIDE DEF said
    <3>2. holder = p \/ (db' = db /\ backups' = backups)
      BY <3>1, LockedSteps DEF Held, Holding
    <3> QED BY <1>0, <3>1, <3>2, EndsFrame
  <2>3. ASSUME NEW code, ImportStruck(p, code)
        PROVE  Frame(p)
    <3>1. PICK ended \in BOOLEAN :
            LET writing == cmd[p].pc = "commit"
                c == IF writing /\ ~ ended THEN WithoutCandidate(cmd[p])
                     ELSE IF writing THEN [cmd[p] EXCEPT !.durable = @ \union {Head(cmd[p].todo)}]
                     ELSE cmd[p]
            IN /\ ended => writing
               /\ db' = IF ended THEN cmd[p].work ELSE db
               /\ Ends(p, c, code, {c.accepted[i] : i \in 1 .. Len(c.accepted)}, {})
      BY <2>3 DEF ImportStruck
    <3> DEFINE c == IF cmd[p].pc = "commit" /\ ~ ended THEN WithoutCandidate(cmd[p])
                    ELSE IF cmd[p].pc = "commit"
                    THEN [cmd[p] EXCEPT !.durable = @ \union {Head(cmd[p].todo)}]
                    ELSE cmd[p]
               n == {c.accepted[i] : i \in 1 .. Len(c.accepted)}
    <3>2. DOMAIN c = Fields /\ c.kind = cmd[p].kind
      BY <1>0 DEF WithoutCandidate, Fields
    <3>3. Ends(p, c, code, n, {}) /\ (db' = db \/ cmd[p].pc = "commit")
          /\ UNCHANGED <<entries, backups, sets, unclean>>
      BY <2>3, <3>1 DEF ImportStruck
    <3> HIDE DEF c, n
    <3>4. holder = p \/ (db' = db /\ backups' = backups)
      BY <3>3, LockedSteps DEF Held, Holding
    <3> QED BY <3>2, <3>3, <3>4, EndsFrame
  <2> QED BY <1>6, <2>1, <2>2, <2>3 DEF Struck
<1> QED BY <1>1, <1>2, <1>3, <1>4, <1>5, <1>6

LEMMA CaptureFrames ==
  ASSUME Shaped, Held, NEW p \in Procs, CaptureStep(p)
  PROVE  Frame(p)
<1>0. DOMAIN cmd[p] = Fields
  BY DEF Shaped
<1>t. ASSUME NEW c, DOMAIN c = Fields, c.kind = cmd[p].kind, c.pc \notin {"done", "dead"},
             cmd[p].pc \in Locked, Turn(p, c), holder' = holder, entries' = entries,
             sets' \subseteq sets, unclean' = unclean
      PROVE  Frame(p)
  BY <1>t, WorkFrame
<1>e. ASSUME NEW c, DOMAIN c = Fields, c.kind = cmd[p].kind, NEW code, NEW named, NEW reported,
             Ends(p, c, code, named, reported), UNCHANGED disk
      PROVE  Frame(p)
  BY <1>e, EndsFrame DEF disk
<1>1. CASE CaptureWrites(p)
  <2>1. PICK k \in cmd[p].target :
          Turn(p, [cmd[p] EXCEPT !.pc = "commit", !.work = WithLog(db, k), !.deferred = TRUE])
    BY <1>1 DEF CaptureWrites
  <2> DEFINE work == WithLog(db, k)
             c == [cmd[p] EXCEPT !.pc = "commit", !.work = work, !.deferred = TRUE]
  <2>2. DOMAIN c = Fields /\ c.kind = cmd[p].kind /\ c.pc = "commit"
    BY <1>0 DEF Fields
  <2>3. Turn(p, c) /\ UNCHANGED disk /\ holder' = holder /\ cmd[p].pc = "begin"
    BY <1>1, <2>1 DEF CaptureWrites, At
  <2> HIDE DEF c
  <2> QED BY <1>t, <2>2, <2>3, LockedSteps DEF disk
<1>2. CASE CaptureCommits(p)
  BY <1>0, <1>2, <1>t, LockedSteps DEF CaptureCommits, At, Fields
<1>3. CASE CaptureReports(p)
  BY <1>0, <1>3, <1>e DEF CaptureReports
<1>4. CASE CaptureCommitFails(p)
  <2>1. PICK durable \in BOOLEAN, known \in BOOLEAN :
         Ends(p, [cmd[p] EXCEPT !.durable = IF durable THEN cmd[p].target ELSE {},
                                 !.detached = ~ known],
               "internal_error", IF durable /\ known THEN cmd[p].target ELSE {}, {})
    BY <1>4 DEF CaptureCommitFails
  <2> DEFINE d == IF durable THEN cmd[p].target ELSE {}
             u == ~ known
             n == IF durable /\ known THEN cmd[p].target ELSE {}
             c == [cmd[p] EXCEPT !.durable = d, !.detached = u]
  <2>2. DOMAIN c = Fields /\ c.kind = cmd[p].kind
    <3> HIDE DEF d, u
    <3> QED BY <1>0 DEF Fields
  <2>3. Ends(p, c, "internal_error", n, {})
    BY <2>1
  <2> HIDE DEF c, n
  <2>4. cmd[p].pc \in Locked /\ UNCHANGED <<entries, sets, unclean>>
    BY <1>4, LockedSteps DEF CaptureCommitFails, At
  <2> QED BY <2>2, <2>3, <2>4, WorkEnds
<1>5. CASE CaptureFails(p)
  BY <1>0, <1>5, <1>e DEF CaptureFails
<1>6. CASE CaptureInterrupted(p)
  <2>1. CASE Refuses(p, "cancelled")
    BY <1>0, <1>6, <1>e, <2>1 DEF CaptureInterrupted, Refuses
  <2>2. CASE Turn(p, [cmd[p] EXCEPT !.pending = TRUE]) /\ UNCHANGED holder
    <3> DEFINE c == [cmd[p] EXCEPT !.pending = TRUE]
    <3>1. DOMAIN c = Fields /\ c.kind = cmd[p].kind /\ c.pc = cmd[p].pc
      BY <1>0 DEF Fields
    <3>2. Turn(p, c) /\ UNCHANGED disk /\ holder' = holder /\ Live(p)
      BY <1>6, <2>2 DEF CaptureInterrupted
    <3> HIDE DEF c
    <3>3. /\ c.pc \notin {"done", "dead"}
          /\ c.pc \in Locked \/ (c.kind \in Deletions /\ c.pc = "hand over") => holder = p
      BY <3>1, <3>2 DEF Live, Held, Holding
    <3> QED BY <3>1, <3>2, <3>3, TurnFrame DEF disk
  <2> QED BY <1>6, <2>1, <2>2 DEF CaptureInterrupted
<1> QED BY <1>1, <1>2, <1>3, <1>4, <1>5, <1>6 DEF CaptureStep

LEMMA ImportFrames ==
  ASSUME Shaped, Held, NEW p \in Procs, ImportStep(p)
  PROVE  Frame(p)
<1>0. DOMAIN cmd[p] = Fields
  BY DEF Shaped
<1>t. ASSUME NEW c, DOMAIN c = Fields, c.kind = cmd[p].kind, c.pc \notin {"done", "dead"},
             cmd[p].pc \in Locked, Turn(p, c), holder' = holder, entries' = entries,
             sets' \subseteq sets, unclean' = unclean
      PROVE  Frame(p)
  BY <1>t, WorkFrame
<1>e. ASSUME NEW c, DOMAIN c = Fields, c.kind = cmd[p].kind, NEW code, NEW named, NEW reported,
             Ends(p, c, code, named, reported), UNCHANGED disk
      PROVE  Frame(p)
  BY <1>e, EndsFrame DEF disk
<1>1. CASE ImportClassifies(p)
  <2> DEFINE todo == Tail(cmd[p].todo)
             k == Head(cmd[p].todo)
             accepted == Append(cmd[p].accepted, k)
             work == WithLog(db, k)
             skipped == [cmd[p] EXCEPT !.todo = todo, !.attempts = 0]
             writes == [cmd[p] EXCEPT !.pc = "commit", !.work = work, !.accepted = accepted]
  <2>1. Turn(p, skipped) \/ Turn(p, writes)
    BY <1>1 DEF ImportClassifies
  <2>2. cmd[p].pc = "begin" /\ UNCHANGED disk /\ holder' = holder
    BY <1>1 DEF ImportClassifies, At
  <2>3. /\ DOMAIN skipped = Fields /\ skipped.kind = cmd[p].kind /\ skipped.pc = cmd[p].pc
        /\ DOMAIN writes = Fields /\ writes.kind = cmd[p].kind /\ writes.pc = "commit"
    BY <1>0 DEF Fields
  <2> HIDE DEF skipped, writes
  <2> QED BY <1>t, <2>1, <2>2, <2>3, LockedSteps DEF disk
<1>2. CASE ImportCommits(p)
  <2> DEFINE k == Head(cmd[p].todo)
             c == [cmd[p] EXCEPT !.pc = "begin", !.todo = Tail(@), !.attempts = 0,
                   !.retained = @ \union {k}, !.durable = @ \union {k}]
  <2>1. Turn(p, c) /\ cmd[p].pc = "commit" /\ UNCHANGED <<entries, backups, sets, unclean, holder>>
    BY <1>2 DEF ImportCommits, At
  <2>2. DOMAIN c = Fields /\ c.kind = cmd[p].kind /\ c.pc = "begin"
    BY <1>0 DEF Fields
  <2> HIDE DEF c
  <2> QED BY <1>t, <2>1, <2>2, LockedSteps
<1>3. CASE ImportCollides(p)
  <2> DEFINE c == [WithoutCandidate(cmd[p]) EXCEPT !.pc = "begin", !.attempts = @ + 1]
             named == {c.accepted[i] : i \in 1 .. Len(c.accepted)}
  <2>1. /\ (Turn(p, c) /\ UNCHANGED holder) \/ Ends(p, c, "internal_error", named, {})
        /\ cmd[p].pc = "commit" /\ UNCHANGED disk
    BY <1>3 DEF ImportCollides, At
  <2>2. DOMAIN c = Fields /\ c.kind = cmd[p].kind /\ c.pc = "begin"
    BY <1>0 DEF Fields, WithoutCandidate
  <2> HIDE DEF c, named
  <2> QED BY <1>t, <1>e, <2>1, <2>2, LockedSteps DEF disk
<1>4. CASE ImportCloses(p)
  <2>1. holder = p /\ holder' = None /\ Go(p, "hand over") /\ UNCHANGED disk /\ cmd[p].kind = "import"
    BY <1>4, LockedSteps DEF ImportCloses, At, Held, Holding
  <2> DEFINE c == [cmd[p] EXCEPT !.pc = "hand over"]
  <2>2. DOMAIN c = Fields /\ c.kind = "import" /\ c.pc = "hand over" /\ "import" \notin Deletions
    BY <1>0, <2>1 DEF Fields, Deletions
  <2>3. /\ DOMAIN cmd' = Procs /\ cmd'[p] = c
        /\ \A q \in Procs \ {p} : cmd'[q] = cmd[q]
    BY <2>1, <2>2, TurnDoes DEF Go
  <2> HIDE DEF c
  <2> QED BY <2>1, <2>2, <2>3, LockedSteps, NoneAssumption DEF Frame, Holding, Live, disk
<1>5. CASE ImportReports(p)
  BY <1>0, <1>5, <1>e DEF ImportReports
<1>6. CASE ImportCutOff(p)
  BY <1>0, <1>6, <1>e DEF ImportCutOff, Fields
<1> QED BY <1>1, <1>2, <1>3, <1>4, <1>5, <1>6 DEF ImportStep

LEMMA DeletionFrames ==
  ASSUME Shaped, Held, NEW p \in Procs, DeletionStep(p)
  PROVE  Frame(p)
<1>0. DOMAIN cmd[p] = Fields
  BY DEF Shaped
<1>k. cmd[p].kind \in Deletions
  BY DEF DeletionStep, DeletionBegins, RemovesBackup, BackupsRemoved, RemovesSet, SetsRemoved,
         DeletesRows, RowsDeleted, DeletionCommits, Erases, DeletionReports, LogsRebuild,
         LogsRebuilt, DeletionFails, DeletionInterrupted, At, Deletions
<1>t. ASSUME NEW c, DOMAIN c = Fields, c.kind = cmd[p].kind, c.pc \notin {"done", "dead"},
             cmd[p].pc \in Locked, Turn(p, c), holder' = holder, entries' = entries,
             sets' \subseteq sets, \A u \in unclean' \ unclean : u[2] = p
      PROVE  Frame(p)
  BY <1>t, WorkFrame
<1>e. ASSUME NEW c, DOMAIN c = Fields, c.kind = cmd[p].kind, NEW code, NEW named, NEW reported,
             Ends(p, c, code, named, reported), UNCHANGED disk
      PROVE  Frame(p)
  BY <1>e, EndsFrame DEF disk
<1>r. ASSUME NEW code, Refuses(p, code), UNCHANGED disk
      PROVE  Frame(p)
  BY <1>0, <1>e, <1>r DEF Refuses
<1>u. \A u \in Unerased(p) : u[2] = p
  BY DEF Unerased
<1>c. ASSUME Commits(p), NEW c, DOMAIN c = Fields, c.kind = cmd[p].kind, NEW code, NEW named, NEW reported,
             Ends(p, c, code, named, reported), cmd[p].pc = "commit", UNCHANGED <<entries, backups, sets>>
      PROVE  Frame(p)
  <2>1. \A u \in unclean' \ unclean : u[2] = p
    BY <1>c, <1>u DEF Commits
  <2> QED BY <1>c, <2>1, WorkEnds, LockedSteps
<1>d. DOMAIN Committed(p) = Fields /\ Committed(p).kind = cmd[p].kind
  <2> DEFINE a == Deleted(cmd[p])
             b == BackupPlaces \union Managed(cmd[p]) \union Unerased(p)
  <2>1. Committed(p) = [cmd[p] EXCEPT !.committed = TRUE, !.durable = a, !.work = EmptyFile, !.stale = b]
    BY DEF Committed
  <2> HIDE DEF a, b
  <2> QED BY <1>0, <2>1 DEF Fields
<1>1. CASE DeletionBegins(p)
  BY <1>0, <1>1, <1>t, <1>r, LockedSteps DEF DeletionBegins, disk, Fields
<1>2. CASE RemovesBackup(p)
  <2>1. PICK b \in backups :
          \/ Turn(p, [cmd[p] EXCEPT !.unlinks = @ \union {<<"backup", b.of>>}])
          \/ Turn(p, [cmd[p] EXCEPT !.refused = @ \union {<<"backup", b.of>>}])
    BY <1>2 DEF RemovesBackup
  <2>2. cmd[p].pc = "backups" /\ UNCHANGED <<entries, db, sets, unclean, holder>>
    BY <1>2 DEF RemovesBackup
  <2> QED BY <1>0, <1>t, <2>1, <2>2, LockedSteps DEF Fields
<1>3. CASE BackupsRemoved(p)
  <2> DEFINE r == {ManagedRoot(cmd[p])}
             x == cmd[p].residuals \union BackupPlaces
             y == cmd[p].residuals \union {AllBackups}
             c1 == [cmd[p] EXCEPT !.pc = "sets", !.residuals = x, !.refused = {}, !.unproven = r]
             c2 == [cmd[p] EXCEPT !.pc = "sets", !.residuals = y, !.unlinks = {}, !.refused = {},
                                  !.unproven = r]
  <2>1. (Turn(p, c1) \/ Turn(p, c2)) /\ cmd[p].pc = "backups" /\ UNCHANGED <<disk, holder>>
    BY <1>3 DEF BackupsRemoved
  <2>2. /\ DOMAIN c1 = Fields /\ c1.kind = cmd[p].kind /\ c1.pc = "sets"
        /\ DOMAIN c2 = Fields /\ c2.kind = cmd[p].kind /\ c2.pc = "sets"
    <3> HIDE DEF r, x, y
    <3> QED BY <1>0 DEF Fields
  <2> HIDE DEF c1, c2
  <2> QED BY <1>t, <2>1, <2>2, LockedSteps DEF disk
<1>4. CASE RemovesSet(p)
  <2>1. PICK s \in Managed(cmd[p]) \ cmd[p].refused :
       \/ /\ sets' = sets \ {s}
          /\ Turn(p, [cmd[p] EXCEPT !.unlinks =
                         IF cmd[p].kind = "jd delete" THEN @ \union {s} ELSE @])
       \/ /\ Turn(p, [cmd[p] EXCEPT !.refused = @ \union {s}])
          /\ UNCHANGED sets
    BY <1>4 DEF RemovesSet
  <2> DEFINE x == IF cmd[p].kind = "jd delete" THEN cmd[p].unlinks \union {s} ELSE cmd[p].unlinks
             c1 == [cmd[p] EXCEPT !.unlinks = x]
             c2 == [cmd[p] EXCEPT !.refused = @ \union {s}]
  <2>2. (Turn(p, c1) \/ Turn(p, c2)) /\ sets' \subseteq sets
    BY <2>1
  <2>3. cmd[p].pc = "sets" /\ UNCHANGED <<entries, unclean, holder>>
    BY <1>4 DEF RemovesSet
  <2>4. /\ DOMAIN c1 = Fields /\ c1.kind = cmd[p].kind /\ c1.pc = cmd[p].pc
        /\ DOMAIN c2 = Fields /\ c2.kind = cmd[p].kind /\ c2.pc = cmd[p].pc
    <3> HIDE DEF x
    <3> QED BY <1>0 DEF Fields
  <2> HIDE DEF c1, c2
  <2> QED BY <1>t, <2>2, <2>3, <2>4, LockedSteps
<1>5. CASE SetsRemoved(p)
  <2> DEFINE x == cmd[p].residuals \union Managed(cmd[p])
             y == cmd[p].residuals \union Stranded(cmd[p])
             c1 == [cmd[p] EXCEPT !.pc = "rows", !.residuals = x, !.refused = {}, !.unproven = {}]
             c2 == [cmd[p] EXCEPT !.pc = "rows", !.residuals = y, !.refused = {}, !.unproven = {}]
  <2>1. (Turn(p, c1) \/ Turn(p, c2)) /\ cmd[p].pc = "sets" /\ UNCHANGED <<disk, holder>>
    BY <1>5 DEF SetsRemoved
  <2>2. /\ DOMAIN c1 = Fields /\ c1.kind = cmd[p].kind /\ c1.pc = "rows"
        /\ DOMAIN c2 = Fields /\ c2.kind = cmd[p].kind /\ c2.pc = "rows"
    <3> HIDE DEF x, y
    <3> QED BY <1>0 DEF Fields
  <2> HIDE DEF c1, c2
  <2> QED BY <1>t, <2>1, <2>2, LockedSteps DEF disk
<1>6. CASE DeletesRows(p)
  <2> DEFINE next == Execute(cmd[p].work, DeletionStatements(cmd[p])[cmd[p].at], TRUE, TRUE)
             c == [cmd[p] EXCEPT !.work = next, !.at = @ + 1]
  <2>1. /\ (Turn(p, c) /\ UNCHANGED holder) \/ Refuses(p, "internal_error")
        /\ cmd[p].pc = "rows" /\ UNCHANGED disk
    BY <1>6 DEF DeletesRows
  <2>2. DOMAIN c = Fields /\ c.kind = cmd[p].kind /\ c.pc = cmd[p].pc
    <3> HIDE DEF next
    <3> QED BY <1>0 DEF Fields
  <2> HIDE DEF c
  <2> QED BY <1>t, <1>r, <2>1, <2>2, LockedSteps DEF disk
<1>7. CASE RowsDeleted(p)
  <2> DEFINE v == IF cmd[p].kind = "purge" THEN {Current} ELSE cmd[p].work.versions
             u == Unerased(p)
             c == [cmd[p] EXCEPT !.pc = "commit", !.unproven = u, !.work.versions = v]
  <2>1. Turn(p, c) /\ cmd[p].pc = "rows" /\ UNCHANGED <<disk, holder>>
    BY <1>7 DEF RowsDeleted
  <2>2. DOMAIN c = Fields /\ c.kind = cmd[p].kind /\ c.pc = "commit"
    <3> HIDE DEF v, u
    <3> QED BY <1>0 DEF Fields
  <2> HIDE DEF c
  <2> QED BY <1>t, <2>1, <2>2, LockedSteps DEF disk
<1>8. CASE DeletionCommits(p)
  <2> DEFINE c == [Committed(p) EXCEPT !.pc = "erase"]
  <2>1. Turn(p, c) /\ Commits(p) /\ cmd[p].pc = "commit" /\ UNCHANGED <<entries, backups, sets, holder>>
    BY <1>8 DEF DeletionCommits
  <2>2. DOMAIN c = Fields /\ c.kind = cmd[p].kind /\ c.pc = "erase"
    BY <1>d DEF Fields
  <2> HIDE DEF c
  <2>3. \A u \in unclean' \ unclean : u[2] = p
    BY <2>1, <1>u DEF Commits
  <2> QED BY <1>t, <2>1, <2>2, <2>3, LockedSteps
<1>9. CASE Erases(p)
  <2>1. PICK left \in SUBSET Unerased(p), said \in SUBSET Unerased(p) :
       /\ unclean' = left \union
            {u \in unclean : (u[1] = "wal" /\ <<"wal", p>> \in left) \/ (u[1] = "database" /\ u[2] # p)}
       /\ Turn(p, [cmd[p] EXCEPT
                     !.pc = IF cmd[p].kind = "logs delete" THEN "hand over" ELSE "close",
                     !.residuals = @ \union said, !.unproven = {}])
    BY <1>9 DEF Erases
  <2> DEFINE pc == IF cmd[p].kind = "logs delete" THEN "hand over" ELSE "close"
             c == [cmd[p] EXCEPT !.pc = pc, !.residuals = @ \union said, !.unproven = {}]
  <2>2. Turn(p, c) /\ cmd[p].pc = "erase" /\ UNCHANGED <<entries, db, backups, sets, holder>>
    BY <1>9, <2>1 DEF Erases
  <2>3. DOMAIN c = Fields /\ c.kind = cmd[p].kind /\ c.pc = pc
    <3> HIDE DEF pc
    <3> QED BY <1>0 DEF Fields
  <2>4. \A u \in unclean' \ unclean : u[2] = p
    BY <2>1, <1>u
  <2> HIDE DEF c
  <2> QED BY <1>t, <2>2, <2>3, <2>4, LockedSteps
<1>10. CASE DeletionReports(p)
  BY <1>0, <1>10, <1>e DEF DeletionReports
<1>11. CASE LogsRebuild(p)
  <2> DEFINE c == [cmd[p] EXCEPT !.pc = "rebuild"]
  <2>1. Turn(p, c) /\ UNCHANGED <<disk, holder>> /\ holder = p
    BY <1>11, <1>k DEF LogsRebuild, At, Go, Held, Holding
  <2>2. DOMAIN c = Fields /\ c.kind = cmd[p].kind /\ c.pc = "rebuild"
    BY <1>0 DEF Fields
  <2> HIDE DEF c
  <2> QED BY <2>1, <2>2, TurnFrame DEF disk
<1>12. CASE LogsRebuilt(p)
  BY <1>0, <1>12, <1>t, LockedSteps DEF LogsRebuilt, At, Go, Fields
<1>13. CASE DeletionFails(p)
  <2>1. CASE Refuses(p, "internal_error") /\ UNCHANGED disk
    BY <1>r, <2>1
  <2>2. CASE cmd[p].pc = "commit" /\ Commits(p) /\ Detached(p, Committed(p), "internal_error")
             /\ UNCHANGED <<entries, backups, sets>>
    <3> DEFINE c == [Committed(p) EXCEPT !.detached = TRUE]
    <3>1. Ends(p, c, "internal_error", {}, {})
      BY <2>2 DEF Detached
    <3>2. DOMAIN c = Fields /\ c.kind = cmd[p].kind
      BY <1>d DEF Fields
    <3> HIDE DEF c
    <3> QED BY <1>c, <2>2, <3>1, <3>2
  <2>3. CASE Detached(p, cmd[p], "internal_error") /\ UNCHANGED disk
    BY <1>0, <1>e, <2>3 DEF Detached, Fields
  <2>4. CASE Ends(p, cmd[p], "llm_failed", cmd[p].durable, cmd[p].residuals) /\ UNCHANGED disk
    BY <1>0, <1>e, <2>4
  <2> QED BY <1>13, <2>1, <2>2, <2>3, <2>4 DEF DeletionFails
<1>14. CASE DeletionInterrupted(p)
  <2>1. CASE /\ LET c == IF cmd[p].pc = "commit" THEN [cmd[p] EXCEPT !.unproven = {}] ELSE cmd[p]
                IN Ends(p, c, "cancelled", {}, CleanupReported(c))
             /\ UNCHANGED disk
    <3> DEFINE c == IF cmd[p].pc = "commit" THEN [cmd[p] EXCEPT !.unproven = {}] ELSE cmd[p]
    <3>1. Ends(p, c, "cancelled", {}, CleanupReported(c)) /\ UNCHANGED disk
      BY <2>1
    <3>2. DOMAIN c = Fields /\ c.kind = cmd[p].kind
      BY <1>0 DEF Fields
    <3> HIDE DEF c
    <3> QED BY <1>e, <3>1, <3>2
  <2>2. CASE /\ cmd[p].pc = "commit"
             /\ Commits(p)
             /\ LET c == Committed(p)
                IN Ends(p, c, "cancelled", c.durable, Unresolved(c))
             /\ UNCHANGED <<entries, backups, sets>>
    BY <1>c, <1>d, <2>2
  <2>3. CASE Ends(p, cmd[p], "cancelled", cmd[p].durable, Unresolved(cmd[p])) /\ UNCHANGED disk
    BY <1>0, <1>e, <2>3
  <2>4. CASE Detached(p, cmd[p], "cancelled") /\ UNCHANGED disk
    BY <1>0, <1>e, <2>4 DEF Detached, Fields
  <2> QED BY <1>14, <2>1, <2>2, <2>3, <2>4 DEF DeletionInterrupted
<1> QED BY <1>1, <1>2, <1>3, <1>4, <1>5, <1>6, <1>7, <1>8, <1>9, <1>10, <1>11, <1>12, <1>13, <1>14
        DEF DeletionStep

LEMMA StepFrames ==
  ASSUME Shaped, Held, NEW p \in Procs, Step(p)
  PROVE  Frame(p)
BY InitFrames, MigrateFrames, GenericFrames, CaptureFrames, ImportFrames, DeletionFrames DEF Step

(***************************************************************************)
(* What an envelope names                                                  *)
(***************************************************************************)

Elements(s) == {s[i] : i \in 1 .. Len(s)}
Distinct(s) == \A i, j \in 1 .. Len(s) : s[i] = s[j] => i = j

LEMMA DistinctCounted ==
  ASSUME NEW s \in Seq(Keys), Distinct(s)
  PROVE  Cardinality(Elements(s)) = Len(s)
<1>1. Len(s) \in Nat /\ DOMAIN s = 1 .. Len(s) /\ s \in [1 .. Len(s) -> Elements(s)]
  BY DEF Elements
<1>2. \A t \in Elements(s) : \E i \in 1 .. Len(s) : s[i] = t
  BY DEF Elements
<1>3. \A i, j \in 1 .. Len(s) : s[i] = s[j] => i = j
  BY DEF Distinct
<1>4. s \in Bijection(1 .. Len(s), Elements(s))
  BY <1>1, <1>2, <1>3, Fun_IsBij
<1>5. ExistsBijection(1 .. Len(s), Elements(s))
  BY <1>4, Fun_ExistsBij
<1> QED BY <1>1, <1>5, FS_CountingElements

LEMMA DistinctAppended ==
  ASSUME NEW s \in Seq(Keys), Distinct(s), NEW k \in Keys, k \notin Elements(s)
  PROVE  /\ Append(s, k) \in Seq(Keys) /\ Distinct(Append(s, k))
         /\ Elements(Append(s, k)) = Elements(s) \union {k}
         /\ Append(s, k) # <<>> /\ Append(s, k)[Len(Append(s, k))] = k
<1> DEFINE a == Append(s, k)
<1>1. /\ a \in Seq(Keys) /\ a # <<>> /\ Len(a) = Len(s) + 1 /\ Len(s) \in Nat
      /\ \A i \in 1 .. Len(s) : a[i] = s[i]
      /\ a[Len(s) + 1] = k
  BY AppendProperties
<1> HIDE DEF a
<1>2. \A i \in 1 .. Len(s) : s[i] # k
  BY DEF Elements
<1>3. Distinct(a)
  BY <1>1, <1>2 DEF Distinct
<1>4. Elements(a) = Elements(s) \union {k}
  BY <1>1 DEF Elements
<1> QED BY <1>1, <1>3, <1>4 DEF a

LEMMA Shorter ==
  ASSUME NEW n \in Nat, n # 0
  PROVE  n - 1 \in Nat /\ (IF 1 <= n - 1 THEN n - 1 - 1 + 1 ELSE 0) = n - 1
OBVIOUS

LEMMA DistinctShortened ==
  ASSUME NEW s \in Seq(Keys), Distinct(s), s # <<>>
  PROVE  /\ SubSeq(s, 1, Len(s) - 1) \in Seq(Keys) /\ Distinct(SubSeq(s, 1, Len(s) - 1))
         /\ Elements(SubSeq(s, 1, Len(s) - 1)) = Elements(s) \ {s[Len(s)]}
<1> DEFINE a == SubSeq(s, 1, Len(s) - 1)
<1>0. Len(s) \in Nat /\ Len(s) # 0 /\ Len(s) > 0
  BY EmptySeq
<1>1. /\ a \in Seq(Keys) /\ Len(a) = Len(s) - 1
      /\ \A i \in 1 .. Len(s) - 1 : a[i] = s[i]
  <2>1. \A i \in 1 .. Len(s) - 1 : s[i] \in Keys
    BY <1>0
  <2>2. /\ a \in Seq(Keys) /\ Len(a) = (IF 1 <= Len(s) - 1 THEN Len(s) - 1 - 1 + 1 ELSE 0)
        /\ \A i \in 1 .. Len(s) - 1 - 1 + 1 : a[i] = s[1 + i - 1]
    BY <1>0, <2>1, SubSeqProperties
  <2> HIDE DEF a
  <2>3. Len(a) = Len(s) - 1
    BY <1>0, <2>2, Shorter
  <2>4. ASSUME NEW i \in 1 .. Len(s) - 1 PROVE a[i] = s[i]
    <3>1. i \in 1 .. Len(s) - 1 - 1 + 1 /\ 1 + i - 1 = i
      BY <1>0
    <3> QED BY <2>2, <3>1
  <2> QED BY <2>2, <2>3, <2>4
<1> HIDE DEF a
<1>2. Distinct(a)
  BY <1>0, <1>1 DEF Distinct
<1>3. Elements(a) = Elements(s) \ {s[Len(s)]}
  <2>1. \A i \in 1 .. Len(s) - 1 : s[i] # s[Len(s)]
    BY <1>0 DEF Distinct
  <2>2. ASSUME NEW x \in Elements(a) PROVE x \in Elements(s) \ {s[Len(s)]}
    BY <1>0, <1>1, <2>1 DEF Elements
  <2>3. ASSUME NEW x \in Elements(s) \ {s[Len(s)]} PROVE x \in Elements(a)
    <3>1. PICK i \in 1 .. Len(s) : x = s[i]
      BY DEF Elements
    <3>2. i \in 1 .. Len(s) - 1
      BY <1>0, <3>1
    <3> QED BY <1>1, <3>1, <3>2 DEF Elements
  <2> QED BY <2>2, <2>3
<1> QED BY <1>1, <1>2, <1>3 DEF a

(* What a command has recorded of its work.                                *)
Told(c) ==
  /\ c.accepted \in Seq(Keys) /\ Distinct(c.accepted) /\ c.todo \in Seq(Keys)
  /\ c.kind = "import" \/ c.accepted = <<>>
  /\ c.pc \in {"start", "lock", "check"} => c.durable = {} /\ c.accepted = <<>>
  /\ c.kind \notin Writers \union Deletions => c.durable = {}
  /\ c.kind \in Deletions /\ c.pc \in Working => c.durable = {}
  /\ c.pc = "done" => c.named \subseteq c.durable /\ (c.detached \/ c.named = c.durable)

ToldCapture(c) ==
  c.kind = "capture" =>
    /\ c.pc \in {"start", "lock", "check", "begin", "commit", "close", "done", "dead"}
    /\ c.pc \in {"begin", "commit"} => c.durable = {}
    /\ c.pc \in {"commit", "close"} => c.deferred
    /\ c.pc = "close" => c.durable = c.target

ToldImport(c) ==
  c.kind = "import" =>
    /\ c.pc \in {"begin", "hand over"} => Elements(c.accepted) = c.durable
    /\ c.pc \in {"begin", "commit"} => c.durable \subseteq c.retained
    /\ c.pc = "commit" =>
         /\ c.todo # <<>> /\ Head(c.todo) \notin c.retained
         /\ c.accepted # <<>> /\ c.accepted[Len(c.accepted)] = Head(c.todo)
         /\ Elements(c.accepted) = c.durable \union {Head(c.todo)}

Telling == \A p \in Procs : Told(cmd[p]) /\ ToldCapture(cmd[p]) /\ ToldImport(cmd[p])

LEMMA QuietTold ==
  ASSUME NEW c, NEW d, Told(c), c.kind \notin Writers \union Deletions, d.kind = c.kind,
         d.accepted = c.accepted, d.todo = c.todo, d.durable = c.durable,
         d.pc = "done" => d.named = {}
  PROVE  Told(d) /\ ToldCapture(d) /\ ToldImport(d)
<1>1. c.kind # "import" /\ c.kind # "capture"
  BY DEF Writers
<1> QED BY <1>1 DEF Told, ToldCapture, ToldImport

LEMMA QuietTurn ==
  ASSUME Shaped, NEW p \in Procs, Told(cmd[p]), cmd[p].kind \notin Writers \union Deletions,
         NEW c, DOMAIN c = Fields, Turn(p, c), c.pc # "done", c.kind = cmd[p].kind,
         c.accepted = cmd[p].accepted, c.todo = cmd[p].todo, c.durable = cmd[p].durable
  PROVE  Told(cmd'[p]) /\ ToldCapture(cmd'[p]) /\ ToldImport(cmd'[p])
<1>1. cmd'[p] = c
  BY TurnDoes
<1> QED BY <1>1, QuietTold

LEMMA QuietEnds ==
  ASSUME Shaped, NEW p \in Procs, Told(cmd[p]), cmd[p].kind \notin Writers \union Deletions,
         NEW code, NEW reported, Ends(p, cmd[p], code, {}, reported)
  PROVE  Told(cmd'[p]) /\ ToldCapture(cmd'[p]) /\ ToldImport(cmd'[p])
<1> DEFINE d == cmd'[p]
<1>1. /\ d.named = {} /\ d.kind = cmd[p].kind /\ d.accepted = cmd[p].accepted
      /\ d.todo = cmd[p].todo /\ d.durable = cmd[p].durable
  BY EndsDoes DEF Fields, Shaped
<1> QED BY <1>1, QuietTold

LEMMA InitTells ==
  ASSUME Shaped, Telling, NEW p \in Procs, InitStep(p)
  PROVE  Told(cmd'[p]) /\ ToldCapture(cmd'[p]) /\ ToldImport(cmd'[p])
<1>0. DOMAIN cmd[p] = Fields /\ Told(cmd[p])
  BY DEF Shaped, Telling
<1>k. cmd[p].kind = "init" /\ cmd[p].kind \notin Writers \union Deletions
  BY DEF InitStep, InitSees, InitSeesOut, InitMakesOut, InitRestrictsOut, InitMakesMarker, InitFills,
         InitCreatesSchema, InitInspects, InitUndoesMarker, InitUndoesOut, At, Writers, Deletions
<1>t. ASSUME NEW c, DOMAIN c = Fields, c.kind = cmd[p].kind, c.pc # "done", Turn(p, c),
             c.accepted = cmd[p].accepted, c.todo = cmd[p].todo, c.durable = cmd[p].durable
      PROVE  Told(cmd'[p]) /\ ToldCapture(cmd'[p]) /\ ToldImport(cmd'[p])
  BY <1>0, <1>k, <1>t, QuietTurn
<1>e. ASSUME NEW code, Refuses(p, code)
      PROVE  Told(cmd'[p]) /\ ToldCapture(cmd'[p]) /\ ToldImport(cmd'[p])
  BY <1>0, <1>k, <1>e, QuietEnds DEF Refuses
<1>1. CASE InitSees(p)
  BY <1>0, <1>1, <1>t, <1>e DEF InitSees, Go, Fields
<1>2. CASE InitSeesOut(p)
  BY <1>0, <1>2, <1>t, <1>e DEF InitSeesOut, Go, Fields
<1>3. CASE InitMakesOut(p)
  BY <1>0, <1>3, <1>t, <1>e DEF InitMakesOut, Fields
<1>4. CASE InitRestrictsOut(p)
  BY <1>0, <1>4, <1>t DEF InitRestrictsOut, Go, Fields
<1>5. CASE InitMakesMarker(p)
  BY <1>0, <1>5, <1>t DEF InitMakesMarker, Fields
<1>6. CASE InitFills(p)
  BY <1>0, <1>6, <1>t DEF InitFills, Go, Fields
<1>7. CASE InitCreatesSchema(p)
  BY <1>0, <1>7, <1>t DEF InitCreatesSchema, Go, Fields
<1>8. CASE InitInspects(p)
  BY <1>0, <1>8, <1>t, <1>e DEF InitInspects, Fields
<1>9. CASE InitUndoesMarker(p)
  BY <1>0, <1>9, <1>t DEF InitUndoesMarker, Go, Fields
<1>10. CASE InitUndoesOut(p)
  BY <1>10, <1>e DEF InitUndoesOut
<1> QED BY <1>1, <1>2, <1>3, <1>4, <1>5, <1>6, <1>7, <1>8, <1>9, <1>10 DEF InitStep

LEMMA MigrateTells ==
  ASSUME Shaped, Telling, NEW p \in Procs, MigrateStep(p)
  PROVE  Told(cmd'[p]) /\ ToldCapture(cmd'[p]) /\ ToldImport(cmd'[p])
<1>0. DOMAIN cmd[p] = Fields /\ Told(cmd[p])
  BY DEF Shaped, Telling
<1>k. cmd[p].kind = "migrate" /\ cmd[p].kind \notin Writers \union Deletions
  BY DEF MigrateStep, MigrateSees, MigrateChecks, MigrateBacksUp, MigrateVerifies, MigrateBegins,
         MigrateCleans, MigrateExecutes, MigrateRecords, MigrateCommits, MigrateReleases,
         MigrateReports, At, Writers, Deletions
<1>t. ASSUME NEW c, DOMAIN c = Fields, c.kind = cmd[p].kind, c.pc # "done", Turn(p, c),
             c.accepted = cmd[p].accepted, c.todo = cmd[p].todo, c.durable = cmd[p].durable
      PROVE  Told(cmd'[p]) /\ ToldCapture(cmd'[p]) /\ ToldImport(cmd'[p])
  BY <1>0, <1>k, <1>t, QuietTurn
<1>e. ASSUME NEW code, NEW reported, Ends(p, cmd[p], code, {}, reported)
      PROVE  Told(cmd'[p]) /\ ToldCapture(cmd'[p]) /\ ToldImport(cmd'[p])
  BY <1>0, <1>k, <1>e, QuietEnds
<1>1. CASE MigrateSees(p)
  BY <1>0, <1>1, <1>t, <1>e DEF MigrateSees, Refuses, Fields
<1>2. CASE MigrateChecks(p)
  BY <1>0, <1>2, <1>t, <1>e DEF MigrateChecks, Refuses, Go, Fields
<1>3. CASE MigrateBacksUp(p)
  BY <1>0, <1>3, <1>t DEF MigrateBacksUp, Go, Fields
<1>4. CASE MigrateVerifies(p)
  BY <1>0, <1>4, <1>t DEF MigrateVerifies, Fields
<1>5. CASE MigrateBegins(p)
  BY <1>0, <1>5, <1>t DEF MigrateBegins, Fields
<1>6. CASE MigrateCleans(p)
  BY <1>0, <1>6, <1>t DEF MigrateCleans, Go, Fields
<1>7. CASE MigrateExecutes(p)
  <2> DEFINE next == Execute(cmd[p].work, Statements(cmd[p].work, Stored(cmd[p].work))[cmd[p].at],
                             ForeignKeys(p), FALSE)
  <2>1. /\ \/ Turn(p, [cmd[p] EXCEPT !.work = next, !.at = @ + 1])
           \/ Ends(p, cmd[p], "migration_failed", {}, cmd[p].residuals)
        /\ cmd[p].pc = "statements"
    BY <1>7 DEF MigrateExecutes, At
  <2> HIDE DEF next
  <2> QED BY <1>0, <1>t, <1>e, <2>1 DEF Fields
<1>8. CASE MigrateRecords(p)
  BY <1>0, <1>8, <1>t DEF MigrateRecords, Fields
<1>9. CASE MigrateCommits(p)
  <2>1. CASE Ends(p, cmd[p], "migration_failed", {}, cmd[p].residuals)
    BY <1>e, <2>1
  <2>2. CASE Turn(p, [cmd[p] EXCEPT !.pc = "restore", !.committed = TRUE])
    BY <1>0, <1>t, <2>2 DEF Fields
  <2> QED BY <1>9, <2>1, <2>2 DEF MigrateCommits
<1>10. CASE MigrateReleases(p)
  BY <1>0, <1>10, <1>t DEF MigrateReleases, Go, Fields
<1>11. CASE MigrateReports(p)
  BY <1>11, <1>e DEF MigrateReports
<1> QED BY <1>1, <1>2, <1>3, <1>4, <1>5, <1>6, <1>7, <1>8, <1>9, <1>10, <1>11 DEF MigrateStep

(* Before the work begins nothing is recorded.                             *)
LEMMA EarlyTold ==
  ASSUME NEW c, NEW d, Told(c), ToldCapture(c), ToldImport(c), c.pc \in {"start", "lock", "check"},
         d.kind = c.kind, d.accepted = c.accepted, d.todo = c.todo, d.durable = c.durable,
         d.pc \in {"lock", "check", "begin"}
  PROVE  Told(d) /\ ToldCapture(d) /\ ToldImport(d)
<1>1. Elements(c.accepted) = {} /\ c.durable = {} /\ c.accepted = <<>>
  BY DEF Told, Elements
<1>2. Told(d)
  BY <1>1 DEF Told
<1>3. ToldCapture(d)
  BY <1>1 DEF ToldCapture
<1>4. ToldImport(d)
  BY <1>1 DEF ToldImport
<1> QED BY <1>2, <1>3, <1>4

(* What an ending records and names.                                       *)
LEMMA EndTold ==
  ASSUME NEW d, d.pc = "done", d.accepted \in Seq(Keys), Distinct(d.accepted), d.todo \in Seq(Keys),
         d.kind = "import" \/ d.accepted = <<>>,
         d.kind \notin Writers \union Deletions => d.durable = {},
         d.named \subseteq d.durable, d.detached \/ d.named = d.durable
  PROVE  Told(d) /\ ToldCapture(d) /\ ToldImport(d)
<1>1. Told(d)
  BY DEF Told, Working
<1>2. ToldCapture(d) /\ ToldImport(d)
  BY DEF ToldCapture, ToldImport
<1> QED BY <1>1, <1>2

(* An ending that names what is durable, or names nothing, detached.       *)
LEMMA EndsTold ==
  ASSUME Shaped, NEW p \in Procs, Told(cmd[p]), NEW c, DOMAIN c = Fields, c.kind = cmd[p].kind,
         c.accepted = cmd[p].accepted, c.todo = cmd[p].todo,
         c.kind \notin Writers \union Deletions => c.durable = {},
         NEW code, NEW named, NEW reported, Ends(p, c, code, named, reported),
         named = c.durable \/ (named = {} /\ c.detached)
  PROVE  Told(cmd'[p]) /\ ToldCapture(cmd'[p]) /\ ToldImport(cmd'[p])
<1> DEFINE d == cmd'[p]
<1>1. /\ d.pc = "done" /\ d.named = named /\ d.kind = c.kind /\ d.accepted = c.accepted
      /\ d.todo = c.todo /\ d.durable = c.durable /\ d.detached = c.detached
  BY EndsDoes DEF Fields
<1> HIDE DEF d
<1>2. Told(d) /\ ToldCapture(d) /\ ToldImport(d)
  BY <1>1, EndTold DEF Told
<1> QED BY <1>2 DEF d

LEMMA GenericTells ==
  ASSUME Shaped, Telling, NEW p \in Procs, Lock(p) \/ Busy(p) \/ Gate(p) \/ Check(p) \/ Dies(p)
  PROVE  Told(cmd'[p]) /\ ToldCapture(cmd'[p]) /\ ToldImport(cmd'[p])
<1>0. DOMAIN cmd[p] = Fields /\ Told(cmd[p]) /\ ToldCapture(cmd[p]) /\ ToldImport(cmd[p])
  BY DEF Shaped, Telling
<1>e. ASSUME NEW code, Refuses(p, code), cmd[p].pc \in {"start", "lock", "check"}
      PROVE  Told(cmd'[p]) /\ ToldCapture(cmd'[p]) /\ ToldImport(cmd'[p])
  <2>1. Ends(p, cmd[p], code, {}, {}) /\ cmd[p].durable = {}
    BY <1>0, <1>e DEF Refuses, Told
  <2> QED BY <1>0, <2>1, EndsTold
<1>t. ASSUME NEW c, DOMAIN c = Fields, c.kind = cmd[p].kind, c.pc \in {"lock", "check", "begin"},
             Turn(p, c), cmd[p].pc \in {"start", "lock", "check"},
             c.accepted = cmd[p].accepted, c.todo = cmd[p].todo, c.durable = cmd[p].durable
      PROVE  Told(cmd'[p]) /\ ToldCapture(cmd'[p]) /\ ToldImport(cmd'[p])
  <2>1. cmd'[p] = c
    BY <1>t, TurnDoes
  <2> QED BY <1>0, <1>t, <2>1, EarlyTold
<1>1. CASE Lock(p)
  BY <1>0, <1>1, <1>t DEF Lock, Go, Fields
<1>2. CASE Busy(p)
  BY <1>2, <1>e DEF Busy
<1>3. CASE Gate(p)
  <2>1. ASSUME NEW k \in Keys,
               Turn(p, [cmd[p] EXCEPT !.pc = "lock",
                              !.target = IF cmd[p].kind \in {"import", "purge"} THEN {} ELSE {k}])
        PROVE  Told(cmd'[p]) /\ ToldCapture(cmd'[p]) /\ ToldImport(cmd'[p])
    <3> DEFINE t == IF cmd[p].kind \in {"import", "purge"} THEN {} ELSE {k}
    <3> HIDE DEF t
    <3>1. Turn(p, [cmd[p] EXCEPT !.pc = "lock", !.target = t]) /\ cmd[p].pc = "start"
      BY <1>3, <2>1 DEF Gate, t
    <3> QED BY <1>0, <1>t, <3>1 DEF Fields
  <2> QED BY <1>3, <1>e, <2>1 DEF Gate
<1>4. CASE Check(p)
  <2>1. CASE Refuses(p, "schema_incompatible")
    BY <1>4, <1>e, <2>1 DEF Check
  <2>2. ASSUME NEW retained, Turn(p, [cmd[p] EXCEPT !.pc = "begin", !.retained = retained])
        PROVE  Told(cmd'[p]) /\ ToldCapture(cmd'[p]) /\ ToldImport(cmd'[p])
    BY <1>0, <1>4, <1>t, <2>2 DEF Check, Fields
  <2> QED BY <1>4, <2>1, <2>2 DEF Check
<1>5. CASE Dies(p)
  <2> DEFINE c == [cmd[p] EXCEPT !.pc = "dead", !.work = EmptyFile]
  <2>2. /\ c.kind = cmd[p].kind /\ c.pc = "dead" /\ c.accepted = cmd[p].accepted
        /\ c.todo = cmd[p].todo /\ c.durable = cmd[p].durable
    BY <1>0 DEF Fields
  <2>1. cmd'[p] = c
    BY <1>5 DEF Dies, Shaped
  <2> HIDE DEF c
  <2>3. Told(c) /\ ToldCapture(c) /\ ToldImport(c)
    BY <1>0, <2>2 DEF Told, ToldCapture, ToldImport, Working
  <2> QED BY <2>1, <2>3
<1> QED BY <1>1, <1>2, <1>3, <1>4, <1>5

LEMMA StruckTells ==
  ASSUME Shaped, Telling, NEW p \in Procs, Struck(p)
  PROVE  Told(cmd'[p]) /\ ToldCapture(cmd'[p]) /\ ToldImport(cmd'[p])
<1>0. DOMAIN cmd[p] = Fields /\ Told(cmd[p]) /\ ToldCapture(cmd[p]) /\ ToldImport(cmd[p])
  BY DEF Shaped, Telling
<1>1. ASSUME NEW code, InitStruck(p, code)
      PROVE  Told(cmd'[p]) /\ ToldCapture(cmd'[p]) /\ ToldImport(cmd'[p])
  <2>k. cmd[p].kind \notin Writers \union Deletions
    BY <1>1 DEF InitStruck, Writers, Deletions
  <2>1. CASE Refuses(p, code)
    BY <1>0, <2>k, <2>1, QuietEnds DEF Refuses
  <2>2. CASE Turn(p, [cmd[p] EXCEPT !.pc = "undo marker", !.code = code])
    <3> DEFINE c == [cmd[p] EXCEPT !.pc = "undo marker", !.code = code]
    <3>1. /\ DOMAIN c = Fields /\ c.kind = cmd[p].kind /\ c.pc # "done"
          /\ c.accepted = cmd[p].accepted /\ c.todo = cmd[p].todo /\ c.durable = cmd[p].durable
      BY <1>0 DEF Fields
    <3>2. Turn(p, c)
      BY <2>2
    <3> HIDE DEF c
    <3> QED BY <1>0, <2>k, <3>1, <3>2, QuietTurn
  <2> QED BY <1>1, <2>1, <2>2 DEF InitStruck
<1>2. ASSUME NEW code, MigrateStruck(p, code)
      PROVE  Told(cmd'[p]) /\ ToldCapture(cmd'[p]) /\ ToldImport(cmd'[p])
  <2> DEFINE said == IF code = "internal_error" /\ cmd[p].pc \notin {"start", "lock", "after"}
                     THEN "migration_failed" ELSE code
  <2>1. Ends(p, cmd[p], said, {}, cmd[p].residuals)
    BY <1>2 DEF MigrateStruck
  <2> HIDE DEF said
  <2>2. cmd[p].kind \notin Writers \union Deletions
    BY <1>2 DEF MigrateStruck, Writers, Deletions
  <2> QED BY <1>0, <2>1, <2>2, QuietEnds
<1>3. ASSUME NEW code, ImportStruck(p, code)
      PROVE  Told(cmd'[p]) /\ ToldCapture(cmd'[p]) /\ ToldImport(cmd'[p])
  <2>0. cmd[p].kind = "import" /\ cmd[p].pc \in {"start", "lock", "check", "begin", "commit"}
    BY <1>3 DEF ImportStruck
  <2>1. PICK ended \in BOOLEAN :
          LET writing == cmd[p].pc = "commit"
              c == IF writing /\ ~ ended THEN WithoutCandidate(cmd[p])
                   ELSE IF writing THEN [cmd[p] EXCEPT !.durable = @ \union {Head(cmd[p].todo)}]
                   ELSE cmd[p]
          IN /\ ended => writing
             /\ db' = IF ended THEN cmd[p].work ELSE db
             /\ Ends(p, c, code, {c.accepted[i] : i \in 1 .. Len(c.accepted)}, {})
    BY <1>3 DEF ImportStruck
  <2>2. CASE cmd[p].pc = "commit" /\ ~ ended
    <3> DEFINE c == WithoutCandidate(cmd[p])
               a == SubSeq(cmd[p].accepted, 1, Len(cmd[p].accepted) - 1)
    <3>1. Ends(p, c, code, Elements(c.accepted), {})
      BY <2>1, <2>2 DEF Elements
    <3>2. /\ DOMAIN c = Fields /\ c.kind = "import" /\ c.accepted = a /\ c.todo = cmd[p].todo
          /\ c.durable = cmd[p].durable
      <4> HIDE DEF a
      <4>1. c = [cmd[p] EXCEPT !.accepted = a, !.work = EmptyFile]
        BY DEF WithoutCandidate, a
      <4> HIDE DEF c
      <4> QED BY <1>0, <2>0, <4>1 DEF Fields
    <3> DEFINE d == cmd'[p]
               e == Elements(c.accepted)
    <3> HIDE DEF c, a
    <3>3. /\ d.pc = "done" /\ d.named = e /\ d.kind = c.kind /\ d.accepted = c.accepted
          /\ d.todo = c.todo /\ d.durable = c.durable
      <4>1. Ends(p, c, code, e, {})
        BY <3>1
      <4> HIDE DEF e
      <4> QED BY <3>2, <4>1, EndsDoes DEF Fields
    <3>4. a \in Seq(Keys) /\ Distinct(a) /\ Elements(a) = cmd[p].durable
      <4>1. /\ Elements(cmd[p].accepted) = cmd[p].durable \union {Head(cmd[p].todo)}
            /\ Head(cmd[p].todo) \notin cmd[p].durable
            /\ cmd[p].accepted # <<>>
            /\ cmd[p].accepted[Len(cmd[p].accepted)] = Head(cmd[p].todo)
        BY <1>0, <2>0, <2>2 DEF ToldImport
      <4>2. a \in Seq(Keys) /\ Distinct(a)
            /\ Elements(a) = Elements(cmd[p].accepted) \ {cmd[p].accepted[Len(cmd[p].accepted)]}
        BY <1>0, <4>1, DistinctShortened DEF Told, a
      <4> QED BY <4>1, <4>2
    <3>5. d.accepted \in Seq(Keys) /\ Distinct(d.accepted) /\ d.named = d.durable /\ d.kind = "import"
          /\ d.todo \in Seq(Keys)
      BY <1>0, <3>2, <3>3, <3>4 DEF Told
    <3> HIDE DEF d
    <3>6. Told(d) /\ ToldCapture(d) /\ ToldImport(d)
      BY <3>3, <3>5, EndTold DEF Writers
    <3> QED BY <3>6 DEF d
  <2>3. CASE cmd[p].pc = "commit" /\ ended
    <3> DEFINE k == Head(cmd[p].todo)
               c == [cmd[p] EXCEPT !.durable = @ \union {k}]
               e == Elements(c.accepted)
    <3>1. Ends(p, c, code, e, {})
      BY <2>1, <2>3 DEF Elements
    <3>2. /\ DOMAIN c = Fields /\ c.kind = "import" /\ c.accepted = cmd[p].accepted
          /\ c.todo = cmd[p].todo /\ c.durable = cmd[p].durable \union {k}
      BY <1>0, <2>0 DEF Fields
    <3>3. e = c.durable
      BY <1>0, <2>0, <2>3, <3>2 DEF ToldImport
    <3> HIDE DEF c, e
    <3> QED BY <1>0, <2>0, <3>1, <3>2, <3>3, EndsTold DEF Writers
  <2>4. CASE cmd[p].pc # "commit"
    <3> DEFINE e == Elements(cmd[p].accepted)
    <3>1. Ends(p, cmd[p], code, e, {})
      BY <2>1, <2>4 DEF Elements
    <3>2. e = cmd[p].durable
      <4>1. CASE cmd[p].pc = "begin"
        BY <1>0, <2>0, <4>1 DEF ToldImport
      <4>2. CASE cmd[p].pc \in {"start", "lock", "check"}
        BY <1>0, <4>2 DEF Told, Elements
      <4> QED BY <2>0, <2>4, <4>1, <4>2
    <3> HIDE DEF e
    <3> QED BY <1>0, <2>0, <3>1, <3>2, EndsTold DEF Writers
  <2> QED BY <2>2, <2>3, <2>4
<1> QED BY <1>1, <1>2, <1>3 DEF Struck

LEMMA CaptureTells ==
  ASSUME Shaped, Telling, NEW p \in Procs, CaptureStep(p)
  PROVE  Told(cmd'[p]) /\ ToldCapture(cmd'[p]) /\ ToldImport(cmd'[p])
<1>0. DOMAIN cmd[p] = Fields /\ Told(cmd[p]) /\ ToldCapture(cmd[p]) /\ ToldImport(cmd[p])
  BY DEF Shaped, Telling
<1>k. cmd[p].kind = "capture"
  BY DEF CaptureStep, CaptureWrites, CaptureCommits, CaptureReports, CaptureCommitFails, CaptureFails,
         CaptureInterrupted, At
<1>n. "capture" \notin Deletions /\ "capture" # "import" /\ "capture" \in Writers
  BY DEF Deletions, Writers
<1>t. ASSUME NEW c, c.kind = "capture", c.pc \in {"commit", "close"}, c.accepted = <<>>,
             c.todo = cmd[p].todo, c.deferred, c.pc = "commit" => c.durable = {},
             c.pc = "close" => c.durable = c.target
      PROVE  Told(c) /\ ToldCapture(c) /\ ToldImport(c)
  <2>1. Told(c)
    BY <1>0, <1>k, <1>n, <1>t DEF Told
  <2>2. ToldCapture(c) /\ ToldImport(c)
    BY <1>n, <1>t DEF ToldCapture, ToldImport
  <2> QED BY <2>1, <2>2
<1>a. cmd[p].accepted = <<>>
  BY <1>0, <1>k, <1>n DEF Told
<1>1. CASE CaptureWrites(p)
  <2>1. PICK k \in cmd[p].target :
          Turn(p, [cmd[p] EXCEPT !.pc = "commit", !.work = WithLog(db, k), !.deferred = TRUE])
    BY <1>1 DEF CaptureWrites
  <2> DEFINE work == WithLog(db, k)
             c == [cmd[p] EXCEPT !.pc = "commit", !.work = work, !.deferred = TRUE]
  <2>2. /\ DOMAIN c = Fields /\ c.kind = "capture" /\ c.pc = "commit" /\ c.accepted = <<>>
        /\ c.todo = cmd[p].todo /\ c.deferred = TRUE /\ c.durable = cmd[p].durable
    BY <1>0, <1>k, <1>a DEF Fields
  <2>3. Turn(p, c) /\ cmd[p].durable = {}
    BY <1>0, <1>1, <2>1 DEF CaptureWrites, At, ToldCapture
  <2> HIDE DEF c
  <2>4. cmd'[p] = c
    BY <2>2, <2>3, TurnDoes
  <2> QED BY <1>t, <2>2, <2>3, <2>4
<1>2. CASE CaptureCommits(p)
  <2> DEFINE c == [cmd[p] EXCEPT !.pc = "close", !.durable = cmd[p].target]
  <2>1. Turn(p, c) /\ cmd[p].pc = "commit"
    BY <1>2 DEF CaptureCommits, At
  <2>2. /\ DOMAIN c = Fields /\ c.kind = "capture" /\ c.pc = "close" /\ c.accepted = <<>>
        /\ c.todo = cmd[p].todo /\ c.deferred = cmd[p].deferred /\ c.durable = c.target
    BY <1>0, <1>k, <1>a DEF Fields
  <2>3. cmd[p].deferred
    BY <1>0, <1>k, <2>1 DEF ToldCapture
  <2> HIDE DEF c
  <2>4. cmd'[p] = c
    BY <2>1, <2>2, TurnDoes
  <2> QED BY <1>t, <2>2, <2>3, <2>4
<1>3. CASE CaptureReports(p)
  <2>1. Ends(p, cmd[p], "success", cmd[p].target, {}) /\ cmd[p].target = cmd[p].durable
    BY <1>0, <1>3 DEF CaptureReports, At, ToldCapture
  <2> QED BY <1>0, <1>k, <1>n, <2>1, EndsTold
<1>4. CASE CaptureCommitFails(p)
  <2>1. PICK durable \in BOOLEAN, known \in BOOLEAN :
         Ends(p, [cmd[p] EXCEPT !.durable = IF durable THEN cmd[p].target ELSE {},
                                 !.detached = ~ known],
               "internal_error", IF durable /\ known THEN cmd[p].target ELSE {}, {})
    BY <1>4 DEF CaptureCommitFails
  <2> DEFINE d == IF durable THEN cmd[p].target ELSE {}
             u == ~ known
             n == IF durable /\ known THEN cmd[p].target ELSE {}
             c == [cmd[p] EXCEPT !.durable = d, !.detached = u]
  <2>2. /\ DOMAIN c = Fields /\ c.kind = "capture" /\ c.accepted = cmd[p].accepted
        /\ c.todo = cmd[p].todo /\ c.durable = d /\ c.detached = u
    <3> HIDE DEF d, u
    <3> QED BY <1>0, <1>k DEF Fields
  <2>3. Ends(p, c, "internal_error", n, {})
    BY <2>1
  <2>4. n = d \/ (n = {} /\ u)
    OBVIOUS
  <2> HIDE DEF c, n, d, u
  <2> QED BY <1>0, <1>k, <1>n, <2>2, <2>3, <2>4, EndsTold
<1>5. CASE CaptureFails(p)
  <2>1. Ends(p, cmd[p], "internal_error", cmd[p].durable, {})
    BY <1>5 DEF CaptureFails
  <2> QED BY <1>0, <1>k, <1>n, <2>1, EndsTold
<1>6. CASE CaptureInterrupted(p)
  <2>1. CASE cmd[p].deferred
    <3> DEFINE c == [cmd[p] EXCEPT !.pending = TRUE]
    <3>1. /\ DOMAIN c = Fields /\ c.kind = cmd[p].kind /\ c.pc = cmd[p].pc /\ c.deferred = cmd[p].deferred
          /\ c.accepted = cmd[p].accepted /\ c.todo = cmd[p].todo /\ c.durable = cmd[p].durable
          /\ c.target = cmd[p].target /\ c.named = cmd[p].named /\ c.detached = cmd[p].detached
      BY <1>0 DEF Fields
    <3>2. Turn(p, c)
      BY <1>6, <2>1 DEF CaptureInterrupted
    <3> HIDE DEF c
    <3>3. cmd'[p] = c
      BY <3>1, <3>2, TurnDoes
    <3>4. Told(c)
      BY <1>0, <3>1 DEF Told
    <3>5. ToldCapture(c) /\ ToldImport(c)
      BY <1>0, <1>k, <1>n, <3>1 DEF ToldCapture, ToldImport
    <3> QED BY <3>3, <3>4, <3>5
  <2>2. CASE ~ cmd[p].deferred
    <3>1. Ends(p, cmd[p], "cancelled", {}, {}) /\ cmd[p].pc \notin {"done", "dead"}
      BY <1>6, <2>2 DEF CaptureInterrupted, Refuses, Live
    <3>2. cmd[p].durable = {}
      BY <1>0, <1>k, <2>2, <3>1 DEF Told, ToldCapture
    <3> QED BY <1>0, <1>k, <1>n, <3>1, <3>2, EndsTold
  <2> QED BY <2>1, <2>2
<1> QED BY <1>1, <1>2, <1>3, <1>4, <1>5, <1>6 DEF CaptureStep

LEMMA ImportTells ==
  ASSUME Shaped, Telling, NEW p \in Procs, ImportStep(p)
  PROVE  Told(cmd'[p]) /\ ToldCapture(cmd'[p]) /\ ToldImport(cmd'[p])
<1>0. DOMAIN cmd[p] = Fields /\ Told(cmd[p]) /\ ToldCapture(cmd[p]) /\ ToldImport(cmd[p])
  BY DEF Shaped, Telling
<1>k. cmd[p].kind = "import"
  BY DEF ImportStep, ImportClassifies, ImportCommits, ImportCollides, ImportCloses, ImportReports,
         ImportCutOff, At
<1>n. "import" \notin Deletions /\ "import" # "capture" /\ "import" \in Writers
  BY DEF Deletions, Writers
<1>t. ASSUME NEW c, c.kind = "import", c.pc \in {"begin", "commit", "hand over"},
             c.accepted \in Seq(Keys), Distinct(c.accepted), c.todo \in Seq(Keys), ToldImport(c)
      PROVE  Told(c) /\ ToldCapture(c) /\ ToldImport(c)
  <2>1. Told(c)
    BY <1>n, <1>t DEF Told
  <2>2. ToldCapture(c)
    BY <1>n, <1>t DEF ToldCapture
  <2> QED BY <1>t, <2>1, <2>2
<1>s. cmd[p].accepted \in Seq(Keys) /\ Distinct(cmd[p].accepted) /\ cmd[p].todo \in Seq(Keys)
  BY <1>0 DEF Told
<1> DEFINE k == Head(cmd[p].todo)
           todo == Tail(cmd[p].todo)
<1>h. cmd[p].todo # <<>> => k \in Keys /\ todo \in Seq(Keys)
  BY <1>s, HeadTailProperties
<1>c. cmd[p].pc = "commit" =>
        /\ cmd[p].todo # <<>> /\ k \notin cmd[p].retained /\ cmd[p].durable \subseteq cmd[p].retained
        /\ cmd[p].accepted # <<>> /\ cmd[p].accepted[Len(cmd[p].accepted)] = k
        /\ Elements(cmd[p].accepted) = cmd[p].durable \union {k}
  BY <1>0, <1>k DEF ToldImport
<1>1. CASE ImportClassifies(p)
  <2> DEFINE accepted == Append(cmd[p].accepted, k)
             work == WithLog(db, k)
             skipped == [cmd[p] EXCEPT !.todo = todo, !.attempts = 0]
             writes == [cmd[p] EXCEPT !.pc = "commit", !.work = work, !.accepted = accepted]
  <2>1. Turn(p, skipped) \/ (Turn(p, writes) /\ k \notin cmd[p].retained)
    BY <1>1 DEF ImportClassifies
  <2>2. cmd[p].pc = "begin" /\ cmd[p].todo # <<>>
    BY <1>1 DEF ImportClassifies, At
  <2>3. Elements(cmd[p].accepted) = cmd[p].durable /\ cmd[p].durable \subseteq cmd[p].retained
    BY <1>0, <1>k, <2>2 DEF ToldImport
  <2>4. CASE Turn(p, skipped)
    <3>1. /\ DOMAIN skipped = Fields /\ skipped.kind = "import" /\ skipped.pc = "begin"
          /\ skipped.accepted = cmd[p].accepted /\ skipped.todo = todo
          /\ skipped.durable = cmd[p].durable /\ skipped.retained = cmd[p].retained
      BY <1>0, <1>k, <2>2 DEF Fields
    <3> HIDE DEF skipped
    <3>2. cmd'[p] = skipped
      BY <2>4, <3>1, TurnDoes
    <3>3. ToldImport(skipped)
      BY <2>3, <3>1 DEF ToldImport
    <3> QED BY <1>h, <1>s, <1>t, <2>2, <3>1, <3>2, <3>3
  <2>5. CASE Turn(p, writes) /\ k \notin cmd[p].retained
    <3> HIDE DEF work, accepted, k
    <3>1. /\ DOMAIN writes = Fields /\ writes.kind = "import" /\ writes.pc = "commit"
          /\ writes.accepted = accepted /\ writes.todo = cmd[p].todo
          /\ writes.durable = cmd[p].durable /\ writes.retained = cmd[p].retained
      BY <1>0, <1>k DEF Fields
    <3> HIDE DEF writes
    <3>2. cmd'[p] = writes
      BY <2>5, <3>1, TurnDoes
    <3>3. /\ accepted \in Seq(Keys) /\ Distinct(accepted) /\ accepted # <<>>
          /\ Elements(accepted) = cmd[p].durable \union {k} /\ accepted[Len(accepted)] = k
      BY <1>h, <1>s, <2>2, <2>3, <2>5, DistinctAppended DEF accepted
    <3>4. ToldImport(writes)
      BY <2>2, <2>3, <2>5, <3>1, <3>3 DEF ToldImport, k
    <3> QED BY <1>s, <1>t, <3>1, <3>2, <3>3, <3>4
  <2> QED BY <2>1, <2>4, <2>5
<1>2. CASE ImportCommits(p)
  <2> DEFINE c == [cmd[p] EXCEPT !.pc = "begin", !.todo = todo, !.attempts = 0,
                   !.retained = @ \union {k}, !.durable = @ \union {k}]
  <2>1. Turn(p, c) /\ cmd[p].pc = "commit"
    BY <1>2 DEF ImportCommits, At
  <2> HIDE DEF k, todo
  <2>2. /\ DOMAIN c = Fields /\ c.kind = "import" /\ c.pc = "begin" /\ c.todo = todo
        /\ c.accepted = cmd[p].accepted /\ c.retained = cmd[p].retained \union {k}
        /\ c.durable = cmd[p].durable \union {k}
    BY <1>0, <1>k DEF Fields
  <2> HIDE DEF c
  <2>3. cmd'[p] = c
    BY <2>1, <2>2, TurnDoes
  <2>4. ToldImport(c)
    BY <1>c, <2>1, <2>2 DEF ToldImport
  <2> QED BY <1>c, <1>h, <1>s, <1>t, <2>1, <2>2, <2>3, <2>4
<1>3. CASE ImportCollides(p)
  <2> DEFINE a == SubSeq(cmd[p].accepted, 1, Len(cmd[p].accepted) - 1)
             c == [WithoutCandidate(cmd[p]) EXCEPT !.pc = "begin", !.attempts = @ + 1]
             named == {c.accepted[i] : i \in 1 .. Len(c.accepted)}
  <2>1. /\ Turn(p, c) \/ Ends(p, c, "internal_error", named, {})
        /\ cmd[p].pc = "commit"
    BY <1>3 DEF ImportCollides, At
  <2>2. named = Elements(c.accepted)
    BY DEF Elements
  <2>3. /\ DOMAIN c = Fields /\ c.kind = "import" /\ c.pc = "begin" /\ c.accepted = a
        /\ c.todo = cmd[p].todo /\ c.durable = cmd[p].durable /\ c.retained = cmd[p].retained
    BY <1>0, <1>k DEF Fields, WithoutCandidate
  <2>4. a \in Seq(Keys) /\ Distinct(a) /\ Elements(a) = cmd[p].durable
    <3>1. a \in Seq(Keys) /\ Distinct(a)
          /\ Elements(a) = Elements(cmd[p].accepted) \ {cmd[p].accepted[Len(cmd[p].accepted)]}
      BY <1>c, <1>s, <2>1, DistinctShortened
    <3> QED BY <1>c, <2>1, <3>1
  <2> HIDE DEF a, c, named, k
  <2>5. CASE Turn(p, c)
    <3>1. cmd'[p] = c
      BY <2>3, <2>5, TurnDoes
    <3>2. ToldImport(c)
      BY <1>c, <2>1, <2>3, <2>4 DEF ToldImport
    <3> QED BY <1>s, <1>t, <2>3, <2>4, <3>1, <3>2
  <2>6. CASE Ends(p, c, "internal_error", named, {})
    <3> DEFINE d == cmd'[p]
    <3>1. /\ d.pc = "done" /\ d.named = named /\ d.kind = c.kind /\ d.accepted = c.accepted
          /\ d.todo = c.todo /\ d.durable = c.durable
      BY <2>3, <2>6, EndsDoes DEF Fields
    <3> HIDE DEF d
    <3>2. Told(d) /\ ToldCapture(d) /\ ToldImport(d)
      BY <1>n, <1>s, <2>2, <2>3, <2>4, <3>1, EndTold
    <3> QED BY <3>2 DEF d
  <2> QED BY <2>1, <2>5, <2>6
<1>4. CASE ImportCloses(p)
  <2> DEFINE c == [cmd[p] EXCEPT !.pc = "hand over"]
  <2>1. Turn(p, c) /\ cmd[p].pc = "begin"
    BY <1>4 DEF ImportCloses, At, Go
  <2>2. /\ DOMAIN c = Fields /\ c.kind = "import" /\ c.pc = "hand over" /\ c.accepted = cmd[p].accepted
        /\ c.todo = cmd[p].todo /\ c.durable = cmd[p].durable
    BY <1>0, <1>k DEF Fields
  <2> HIDE DEF c
  <2>3. cmd'[p] = c
    BY <2>1, <2>2, TurnDoes
  <2>4. ToldImport(c)
    BY <1>0, <1>k, <2>1, <2>2 DEF ToldImport
  <2> QED BY <1>s, <1>t, <2>2, <2>3, <2>4
<1>5. CASE ImportReports(p)
  <2>1. Ends(p, cmd[p], "success", Elements(cmd[p].accepted), {}) /\ cmd[p].pc = "hand over"
    BY <1>5 DEF ImportReports, Accepted, At, Elements
  <2>2. Elements(cmd[p].accepted) = cmd[p].durable
    BY <1>0, <1>k, <2>1 DEF ToldImport
  <2> QED BY <1>0, <1>k, <1>n, <2>1, <2>2, EndsTold
<1>6. CASE ImportCutOff(p)
  <2> DEFINE c == [cmd[p] EXCEPT !.detached = TRUE]
  <2>1. Ends(p, c, "cancelled", {}, {})
    BY <1>6 DEF ImportCutOff
  <2>2. /\ DOMAIN c = Fields /\ c.kind = cmd[p].kind /\ c.accepted = cmd[p].accepted
        /\ c.todo = cmd[p].todo /\ c.detached = TRUE
    BY <1>0 DEF Fields
  <2> HIDE DEF c
  <2> QED BY <1>0, <1>k, <1>n, <2>1, <2>2, EndsTold
<1> QED BY <1>1, <1>2, <1>3, <1>4, <1>5, <1>6 DEF ImportStep

LEMMA DeletionTells ==
  ASSUME Shaped, Telling, NEW p \in Procs, DeletionStep(p)
  PROVE  Told(cmd'[p]) /\ ToldCapture(cmd'[p]) /\ ToldImport(cmd'[p])
<1>0. DOMAIN cmd[p] = Fields /\ Told(cmd[p])
  BY DEF Shaped, Telling
<1>k. cmd[p].kind \in Deletions
  BY DEF DeletionStep, DeletionBegins, RemovesBackup, BackupsRemoved, RemovesSet, SetsRemoved,
         DeletesRows, RowsDeleted, DeletionCommits, Erases, DeletionReports, LogsRebuild,
         LogsRebuilt, DeletionFails, DeletionInterrupted, At, Deletions
<1>n. cmd[p].kind # "import" /\ cmd[p].kind # "capture"
  BY <1>k DEF Deletions
<1>w. /\ "backups" \in Working /\ "sets" \in Working /\ "rows" \in Working /\ "commit" \in Working
      /\ "begin" \in Working /\ "erase" \notin Working /\ "hand over" \notin Working
      /\ "close" \notin Working /\ "rebuild" \notin Working /\ "done" \notin Working
  BY DEF Working
<1>t. ASSUME NEW c, DOMAIN c = Fields, Turn(p, c), c.kind = cmd[p].kind, c.accepted = cmd[p].accepted,
             c.todo = cmd[p].todo, c.pc \notin {"start", "lock", "check", "done"},
             c.pc \in Working => c.durable = {}
      PROVE  Told(cmd'[p]) /\ ToldCapture(cmd'[p]) /\ ToldImport(cmd'[p])
  <2>1. cmd'[p] = c
    BY <1>t, TurnDoes
  <2>2. Told(c)
    BY <1>0, <1>k, <1>n, <1>t DEF Told
  <2>3. ToldCapture(c) /\ ToldImport(c)
    BY <1>n, <1>t DEF ToldCapture, ToldImport
  <2> QED BY <2>1, <2>2, <2>3
<1>q. cmd[p].pc \in Working => cmd[p].durable = {}
  BY <1>0, <1>k DEF Told
<1>r. ASSUME NEW code, Refuses(p, code), cmd[p].pc \in Working
      PROVE  Told(cmd'[p]) /\ ToldCapture(cmd'[p]) /\ ToldImport(cmd'[p])
  <2>1. Ends(p, cmd[p], code, {}, {})
    BY <1>r DEF Refuses
  <2> QED BY <1>0, <1>k, <1>q, <1>r, <2>1, EndsTold
<1>d. /\ DOMAIN Committed(p) = Fields /\ Committed(p).kind = cmd[p].kind
      /\ Committed(p).accepted = cmd[p].accepted /\ Committed(p).todo = cmd[p].todo
  <2> DEFINE a == Deleted(cmd[p])
             b == BackupPlaces \union Managed(cmd[p]) \union Unerased(p)
  <2>1. Committed(p) = [cmd[p] EXCEPT !.committed = TRUE, !.durable = a, !.work = EmptyFile, !.stale = b]
    BY DEF Committed
  <2> HIDE DEF a, b
  <2> QED BY <1>0, <2>1 DEF Fields
<1>e. ASSUME NEW c, DOMAIN c = Fields, c.kind = cmd[p].kind, c.accepted = cmd[p].accepted,
             c.todo = cmd[p].todo, NEW code, NEW named, NEW reported, Ends(p, c, code, named, reported),
             named = c.durable \/ (named = {} /\ c.detached)
      PROVE  Told(cmd'[p]) /\ ToldCapture(cmd'[p]) /\ ToldImport(cmd'[p])
  BY <1>0, <1>k, <1>e, EndsTold
<1>1. CASE DeletionBegins(p)
  <2>1. CASE Refuses(p, "selector_not_found")
    BY <1>1, <1>r, <1>w, <2>1 DEF DeletionBegins
  <2>2. CASE Turn(p, [cmd[p] EXCEPT !.pc = "backups", !.work = db, !.unproven = {AllBackups}])
    BY <1>0, <1>1, <1>t, <1>q, <1>w, <2>2 DEF DeletionBegins, Fields
  <2> QED BY <1>1, <2>1, <2>2 DEF DeletionBegins
<1>2. CASE RemovesBackup(p)
  <2>1. PICK b \in backups :
          \/ Turn(p, [cmd[p] EXCEPT !.unlinks = @ \union {<<"backup", b.of>>}])
          \/ Turn(p, [cmd[p] EXCEPT !.refused = @ \union {<<"backup", b.of>>}])
    BY <1>2 DEF RemovesBackup
  <2>2. cmd[p].pc = "backups"
    BY <1>2 DEF RemovesBackup
  <2> QED BY <1>0, <1>t, <1>q, <1>w, <2>1, <2>2 DEF Fields
<1>3. CASE BackupsRemoved(p)
  <2> DEFINE r == {ManagedRoot(cmd[p])}
             x == cmd[p].residuals \union BackupPlaces
             y == cmd[p].residuals \union {AllBackups}
             c1 == [cmd[p] EXCEPT !.pc = "sets", !.residuals = x, !.refused = {}, !.unproven = r]
             c2 == [cmd[p] EXCEPT !.pc = "sets", !.residuals = y, !.unlinks = {}, !.refused = {},
                                  !.unproven = r]
  <2>1. (Turn(p, c1) \/ Turn(p, c2)) /\ cmd[p].pc = "backups"
    BY <1>3 DEF BackupsRemoved
  <2> HIDE DEF r, x, y
  <2> QED BY <1>0, <1>t, <1>q, <1>w, <2>1 DEF Fields
<1>4. CASE RemovesSet(p)
  <2>1. PICK s \in Managed(cmd[p]) \ cmd[p].refused :
       \/ Turn(p, [cmd[p] EXCEPT !.unlinks =
                         IF cmd[p].kind = "jd delete" THEN @ \union {s} ELSE @])
       \/ Turn(p, [cmd[p] EXCEPT !.refused = @ \union {s}])
    BY <1>4 DEF RemovesSet
  <2> DEFINE x == IF cmd[p].kind = "jd delete" THEN cmd[p].unlinks \union {s} ELSE cmd[p].unlinks
             c1 == [cmd[p] EXCEPT !.unlinks = x]
             c2 == [cmd[p] EXCEPT !.refused = @ \union {s}]
  <2>2. Turn(p, c1) \/ Turn(p, c2)
    BY <2>1
  <2>3. cmd[p].pc = "sets"
    BY <1>4 DEF RemovesSet
  <2> HIDE DEF x
  <2> QED BY <1>0, <1>t, <1>q, <1>w, <2>2, <2>3 DEF Fields
<1>5. CASE SetsRemoved(p)
  <2> DEFINE x == cmd[p].residuals \union Managed(cmd[p])
             y == cmd[p].residuals \union Stranded(cmd[p])
             c1 == [cmd[p] EXCEPT !.pc = "rows", !.residuals = x, !.refused = {}, !.unproven = {}]
             c2 == [cmd[p] EXCEPT !.pc = "rows", !.residuals = y, !.refused = {}, !.unproven = {}]
  <2>1. (Turn(p, c1) \/ Turn(p, c2)) /\ cmd[p].pc = "sets"
    BY <1>5 DEF SetsRemoved
  <2> HIDE DEF x, y
  <2> QED BY <1>0, <1>t, <1>q, <1>w, <2>1 DEF Fields
<1>6. CASE DeletesRows(p)
  <2> DEFINE next == Execute(cmd[p].work, DeletionStatements(cmd[p])[cmd[p].at], TRUE, TRUE)
             c == [cmd[p] EXCEPT !.work = next, !.at = @ + 1]
  <2>1. /\ Turn(p, c) \/ Refuses(p, "internal_error")
        /\ cmd[p].pc = "rows"
    BY <1>6 DEF DeletesRows
  <2> HIDE DEF next
  <2> QED BY <1>0, <1>t, <1>r, <1>q, <1>w, <2>1 DEF Fields
<1>7. CASE RowsDeleted(p)
  <2> DEFINE v == IF cmd[p].kind = "purge" THEN {Current} ELSE cmd[p].work.versions
             u == Unerased(p)
             c == [cmd[p] EXCEPT !.pc = "commit", !.unproven = u, !.work.versions = v]
  <2>1. Turn(p, c) /\ cmd[p].pc = "rows"
    BY <1>7 DEF RowsDeleted
  <2> HIDE DEF v, u
  <2> QED BY <1>0, <1>t, <1>q, <1>w, <2>1 DEF Fields
<1>8. CASE DeletionCommits(p)
  <2> DEFINE c == [Committed(p) EXCEPT !.pc = "erase"]
  <2>1. Turn(p, c)
    BY <1>8 DEF DeletionCommits
  <2> QED BY <1>d, <1>t, <1>w, <2>1 DEF Fields
<1>9. CASE Erases(p)
  <2>1. PICK left \in SUBSET Unerased(p), said \in SUBSET Unerased(p) :
       Turn(p, [cmd[p] EXCEPT
                     !.pc = IF cmd[p].kind = "logs delete" THEN "hand over" ELSE "close",
                     !.residuals = @ \union said, !.unproven = {}])
    BY <1>9 DEF Erases
  <2> DEFINE pc == IF cmd[p].kind = "logs delete" THEN "hand over" ELSE "close"
             c == [cmd[p] EXCEPT !.pc = pc, !.residuals = @ \union said, !.unproven = {}]
  <2>2. Turn(p, c)
    BY <2>1
  <2>3. pc \notin {"start", "lock", "check", "done"} /\ pc \notin Working
    BY <1>w
  <2> HIDE DEF pc
  <2> QED BY <1>0, <1>t, <2>2, <2>3 DEF Fields
<1>10. CASE DeletionReports(p)
  <2> DEFINE code == IF cmd[p].residuals = {} THEN "success" ELSE "deletion_incomplete"
  <2>1. Ends(p, cmd[p], code, cmd[p].durable, cmd[p].residuals)
    BY <1>10 DEF DeletionReports
  <2> HIDE DEF code
  <2> QED BY <1>0, <1>e, <2>1
<1>11. CASE LogsRebuild(p)
  BY <1>0, <1>11, <1>t, <1>w DEF LogsRebuild, Go, Fields
<1>12. CASE LogsRebuilt(p)
  BY <1>0, <1>12, <1>t, <1>w DEF LogsRebuilt, Go, Fields
<1>f. ASSUME NEW c, DOMAIN c = Fields, c.kind = cmd[p].kind, c.accepted = cmd[p].accepted,
             c.todo = cmd[p].todo, NEW code, Detached(p, c, code)
      PROVE  Told(cmd'[p]) /\ ToldCapture(cmd'[p]) /\ ToldImport(cmd'[p])
  <2> DEFINE e == [c EXCEPT !.detached = TRUE]
  <2>1. Ends(p, e, code, {}, {})
    BY <1>f DEF Detached
  <2>2. /\ DOMAIN e = Fields /\ e.kind = cmd[p].kind /\ e.accepted = cmd[p].accepted
        /\ e.todo = cmd[p].todo /\ e.detached = TRUE
    BY <1>f DEF Fields
  <2> HIDE DEF e
  <2> QED BY <1>e, <2>1, <2>2
<1>13. CASE DeletionFails(p)
  <2>1. CASE cmd[p].pc \in Working \ {"backups", "sets"} /\ Refuses(p, "internal_error")
    BY <1>r, <2>1
  <2>2. CASE Detached(p, Committed(p), "internal_error")
    BY <1>d, <1>f, <2>2
  <2>3. CASE Detached(p, cmd[p], "internal_error")
    BY <1>0, <1>f, <2>3
  <2>4. CASE Ends(p, cmd[p], "llm_failed", cmd[p].durable, cmd[p].residuals)
    BY <1>0, <1>e, <2>4
  <2> QED BY <1>13, <2>1, <2>2, <2>3, <2>4 DEF DeletionFails
<1>14. CASE DeletionInterrupted(p)
  <2>1. CASE /\ cmd[p].pc \in Working
             /\ LET c == IF cmd[p].pc = "commit" THEN [cmd[p] EXCEPT !.unproven = {}] ELSE cmd[p]
                IN Ends(p, c, "cancelled", {}, CleanupReported(c))
    <3> DEFINE c == IF cmd[p].pc = "commit" THEN [cmd[p] EXCEPT !.unproven = {}] ELSE cmd[p]
    <3>1. Ends(p, c, "cancelled", {}, CleanupReported(c)) /\ cmd[p].durable = {}
      BY <1>q, <2>1
    <3>2. /\ DOMAIN c = Fields /\ c.kind = cmd[p].kind /\ c.accepted = cmd[p].accepted
          /\ c.todo = cmd[p].todo /\ c.durable = cmd[p].durable
      BY <1>0 DEF Fields
    <3> HIDE DEF c
    <3> QED BY <1>e, <3>1, <3>2
  <2>2. CASE LET c == Committed(p) IN Ends(p, c, "cancelled", c.durable, Unresolved(c))
    BY <1>e, <1>d, <2>2
  <2>3. CASE Ends(p, cmd[p], "cancelled", cmd[p].durable, Unresolved(cmd[p]))
    BY <1>0, <1>e, <2>3
  <2>4. CASE Detached(p, cmd[p], "cancelled")
    BY <1>0, <1>f, <2>4
  <2> QED BY <1>14, <2>1, <2>2, <2>3, <2>4 DEF DeletionInterrupted
<1> QED BY <1>1, <1>2, <1>3, <1>4, <1>5, <1>6, <1>7, <1>8, <1>9, <1>10, <1>11, <1>12, <1>13, <1>14
        DEF DeletionStep

LEMMA StepTells ==
  ASSUME Shaped, Telling, NEW p \in Procs, Step(p)
  PROVE  Told(cmd'[p]) /\ ToldCapture(cmd'[p]) /\ ToldImport(cmd'[p])
BY InitTells, MigrateTells, GenericTells, StruckTells, CaptureTells, ImportTells, DeletionTells DEF Step

(***************************************************************************)
(* The initial states                                                      *)
(***************************************************************************)

IsFresh(c) ==
  /\ c.pc = "start" /\ c.seen = 0 /\ c.made = {} /\ c.work = EmptyFile
  /\ c.committed = FALSE /\ c.at = 1 /\ c.retained = {} /\ c.accepted = <<>> /\ c.target = {}
  /\ c.unlinks = {} /\ c.refused = {} /\ c.residuals = {} /\ c.unproven = {} /\ c.durable = {}
  /\ c.stale = {} /\ c.code = "" /\ c.named = {} /\ c.reported = {}

IsNew(c, kind, todo) == DOMAIN c = Fields /\ IsFresh(c) /\ c.kind = kind /\ c.todo = todo

LEMMA Fresh ==
  ASSUME WorkspaceInit
  PROVE  \E s \in Scenarios :
           \A p \in Procs :
             DOMAIN cmd[p] = Fields /\ IsFresh(cmd[p])
               /\ cmd[p].kind = s.kinds[p] /\ cmd[p].todo = s.payload
<1>1. PICK s \in Scenarios : cmd = [q \in Procs |-> [NewCommand(s.kinds[q]) EXCEPT !.todo = s.payload]]
  BY DEF WorkspaceInit
<1>2. ASSUME NEW kind, NEW todo, NEW c, c = [NewCommand(kind) EXCEPT !.todo = todo]
      PROVE  IsNew(c, kind, todo)
  <2> DEFINE n == NewCommand(kind)
  <2>1. DOMAIN n = Fields /\ IsFresh(n) /\ n.kind = kind
    BY DEF NewCommand, Fields, IsFresh
  <2>2. c = [n EXCEPT !.todo = todo]
    BY <1>2
  <2> HIDE DEF n
  <2>3. DOMAIN c = Fields /\ c.kind = n.kind /\ c.todo = todo
    BY <2>1, <2>2 DEF Fields
  <2>4. /\ c.pc = n.pc /\ c.seen = n.seen /\ c.made = n.made /\ c.work = n.work
        /\ c.committed = n.committed /\ c.at = n.at /\ c.retained = n.retained
        /\ c.accepted = n.accepted /\ c.target = n.target /\ c.unlinks = n.unlinks
    BY <2>1, <2>2 DEF Fields
  <2>5. /\ c.refused = n.refused /\ c.residuals = n.residuals /\ c.unproven = n.unproven
        /\ c.durable = n.durable /\ c.stale = n.stale /\ c.code = n.code /\ c.named = n.named
        /\ c.reported = n.reported
    BY <2>1, <2>2 DEF Fields
  <2> QED BY <2>1, <2>3, <2>4, <2>5 DEF IsFresh, IsNew
<1>3. ASSUME NEW p \in Procs
      PROVE  DOMAIN cmd[p] = Fields /\ IsFresh(cmd[p])
               /\ cmd[p].kind = s.kinds[p] /\ cmd[p].todo = s.payload
  <2> DEFINE kind == s.kinds[p]
             todo == s.payload
             c == cmd[p]
  <2>1. c = [NewCommand(kind) EXCEPT !.todo = todo]
    BY <1>1
  <2> HIDE DEF kind, todo, c
  <2>2. IsNew(c, kind, todo)
    BY ONLY <1>2, <2>1
  <2> QED BY <2>2 DEF kind, todo, c, IsNew
<1> QED BY <1>3

LEMMA InitShaped == WorkspaceInit => Shaped
BY Fresh DEF Shaped, WorkspaceInit

LEMMA InitHeld == WorkspaceInit => Held
<1> SUFFICES ASSUME WorkspaceInit PROVE Held
  OBVIOUS
<1>1. \A p \in Procs : cmd[p].pc = "start"
  BY Fresh DEF IsFresh
<1>2. \A p \in Procs : ~ Holding(p)
  BY <1>1, LockedSteps DEF Holding
<1>3. holder = None
  BY DEF WorkspaceInit
<1> QED BY <1>2, <1>3, NoneAssumption DEF Held

LEMMA InitTelling == WorkspaceInit => Telling
<1> SUFFICES ASSUME WorkspaceInit, NEW p \in Procs
             PROVE  Told(cmd[p]) /\ ToldCapture(cmd[p]) /\ ToldImport(cmd[p])
  BY DEF Telling
<1>1. PICK s \in Scenarios :
        /\ cmd[p].todo = s.payload /\ cmd[p].pc = "start" /\ cmd[p].accepted = <<>>
        /\ cmd[p].durable = {}
  BY Fresh DEF IsFresh
<1>2. s.payload \in Seq(Keys)
  BY ScenariosAssumption
<1>3. <<>> \in Seq(Keys) /\ Distinct(<<>>)
  BY DEF Distinct
<1>4. Told(cmd[p])
  BY <1>1, <1>2, <1>3 DEF Told
<1>5. ToldCapture(cmd[p]) /\ ToldImport(cmd[p])
  BY <1>1 DEF ToldCapture, ToldImport
<1> QED BY <1>4, <1>5

(* A step of one process keeps the shape and the lock.                     *)
LEMMA FrameKeeps ==
  ASSUME Shaped, Held, NEW p \in Procs, Frame(p)
  PROVE  Shaped' /\ Held'
<1>1. Shaped'
  BY DEF Frame, Shaped
<1>2. holder' \in Procs \union {None}
  BY DEF Frame, Held
<1>3. ASSUME NEW q \in Procs PROVE (Holding(q) => holder = q)' /\ (holder = q => Live(q))'
  <2>1. CASE q = p
    BY <2>1 DEF Frame
  <2>2. CASE q # p
    <3>1. cmd'[q] = cmd[q] /\ (holder = q => holder' = q)
      BY <2>2 DEF Frame
    <3>2. holder' = q => holder = q
      BY <2>2, NoneAssumption DEF Frame
    <3>3. (Holding(q)' => Holding(q)) /\ (Live(q) => Live(q)')
      BY <3>1 DEF Holding, Live
    <3> QED BY <3>1, <3>2, <3>3 DEF Held
  <2> QED BY <2>1, <2>2
<1> QED BY <1>1, <1>2, <1>3 DEF Held

LEMMA NextSteps ==
  ASSUME [Next]_workspaceVars
  PROVE  (\E p \in Procs : Step(p)) \/ UNCHANGED workspaceVars
BY DEF Next, Step, AllEnded

LEMMA Shapely ==
  ASSUME Shaped, Held, [Next]_workspaceVars
  PROVE  Shaped' /\ Held'
<1>1. ASSUME NEW p \in Procs, Step(p) PROVE Shaped' /\ Held'
  BY <1>1, StepFrames, FrameKeeps
<1>2. CASE UNCHANGED workspaceVars
  BY <1>2 DEF workspaceVars, Shaped, Held, Holding, Live
<1> QED BY <1>1, <1>2, NextSteps

LEMMA TellingKept ==
  ASSUME Shaped, Held, Telling, [Next]_workspaceVars
  PROVE  Telling'
<1>1. ASSUME NEW p \in Procs, Step(p) PROVE Telling'
  <2>1. \A q \in Procs \ {p} : cmd'[q] = cmd[q]
    BY <1>1, StepFrames DEF Frame
  <2>2. Told(cmd'[p]) /\ ToldCapture(cmd'[p]) /\ ToldImport(cmd'[p])
    BY <1>1, StepTells
  <2>3. ASSUME NEW q \in Procs
        PROVE  Told(cmd'[q]) /\ ToldCapture(cmd'[q]) /\ ToldImport(cmd'[q])
    <3>1. CASE q = p
      BY <2>2, <3>1
    <3>2. CASE q # p
      BY <2>1, <3>2 DEF Telling
    <3> QED BY <3>1, <3>2
  <2> QED BY <2>3 DEF Telling
<1>2. CASE UNCHANGED workspaceVars
  BY <1>2 DEF workspaceVars, Telling
<1> QED BY <1>1, <1>2, NextSteps

LEMMA TellingReports == Telling => ReportsWhatItDid
<1> SUFFICES ASSUME Telling, NEW p \in Procs, cmd[p].pc = "done"
             PROVE  /\ cmd[p].named \subseteq cmd[p].durable
                    /\ ~ cmd[p].detached => cmd[p].named = cmd[p].durable
                    /\ cmd[p].kind = "import" => Cardinality(Accepted(p)) = Len(cmd[p].accepted)
  BY DEF ReportsWhatItDid
<1>1. Told(cmd[p])
  BY DEF Telling
<1>2. Accepted(p) = Elements(cmd[p].accepted)
  BY DEF Accepted, Elements
<1>3. Cardinality(Elements(cmd[p].accepted)) = Len(cmd[p].accepted)
  BY <1>1, DistinctCounted DEF Told
<1>4. /\ cmd[p].named \subseteq cmd[p].durable
      /\ ~ cmd[p].detached => cmd[p].named = cmd[p].durable
  BY <1>1 DEF Told
<1> QED BY <1>2, <1>3, <1>4

(* ReportsWhatItDid: whatever interleaves, fails or strikes, an envelope   *)
(* names exactly what its command made durable or deleted, unless nothing  *)
(* was attached yet when it ended; and an import accepts no record twice   *)
(* (Journal, _capture_is_durable, _classify, _cancelled_outcome).          *)
THEOREM ReportsWhatItDidHolds == Spec => []ReportsWhatItDid
<1>1. WorkspaceInit => Shaped /\ Held /\ Telling
  BY InitShaped, InitHeld, InitTelling
<1>2. Shaped /\ Held /\ Telling /\ [Next]_workspaceVars => (Shaped /\ Held /\ Telling)'
  BY Shapely, TellingKept
<1> QED BY <1>1, <1>2, TellingReports, PTL DEF Spec

(***************************************************************************)
(* What a deletion knows of the places that still hold what it erased      *)
(***************************************************************************)

(* The place, or a root above it, is among the said ones.                  *)
Covers(said, place) ==
  \/ place \in said
  \/ place[1] = "backup" /\ AllBackups \in said
  \/ place[1] = "branch" /\ <<"out/branch", None>> \in said
  \/ place[1] \in {"assessment", "branch"} /\ <<"out", None>> \in said

(* The pages of p's deletion that the WAL and the file still hold.         *)
Pages(p) == Unerased(p) \intersect unclean

Cleaning(p) ==
  LET c == cmd[p] IN
  /\ \A u \in c.unlinks : u[1] \notin {"wal", "database"}
  /\ c.pc \in Working => ~ c.committed
  /\ c.pc \in {"sets", "rows", "commit"} => \A b \in backups : Covers(c.residuals, <<"backup", b.of>>)
  /\ c.pc \in {"rows", "commit"} => \A s \in Managed(c) : Covers(c.residuals, s)
  /\ c.pc \in {"commit", "erase"} => c.unproven = Unerased(p)
  /\ c.committed => \A place \in c.stale \ Unerased(p) : Covers(c.residuals, place)
  /\ c.committed /\ c.pc \in {"close", "hand over", "rebuild"} => Pages(p) \subseteq c.residuals
  /\ c.committed /\ c.pc = "done" /\ ~ c.detached =>
       /\ \A place \in c.stale \ Unerased(p) : Covers(c.reported, place)
       /\ Pages(p) \subseteq c.reported

Placed == sets \subseteq {"assessment", "branch"} \X Keys

Erasure == Placed /\ \A p \in Procs : cmd[p].kind \in Deletions => Cleaning(p)

LEMMA CoversMore ==
  ASSUME NEW said, NEW more, said \subseteq more, NEW place, Covers(said, place)
  PROVE  Covers(more, place)
BY DEF Covers

(* An init only takes backups away, in its rollback.                       *)
LEMMA InitSpares ==
  ASSUME NEW p \in Procs, cmd[p].kind = "init", Step(p)
  PROVE  backups' \subseteq backups
<1>1. CASE InitStep(p)
  BY <1>1 DEF InitStep, InitSees, InitSeesOut, InitMakesOut, InitRestrictsOut, InitMakesMarker, InitFills,
         InitCreatesSchema, InitInspects, InitUndoesMarker, InitUndoesOut, disk
<1>2. CASE Lock(p) \/ Busy(p) \/ Dies(p)
  BY <1>2 DEF Lock, Busy, Dies, disk
<1>3. CASE Gate(p) \/ Check(p)
  BY <1>3 DEF Gate, Check, disk
<1>4. CASE Struck(p)
  BY <1>4 DEF Struck, InitStruck, MigrateStruck, ImportStruck, disk
<1>5. ~ MigrateStep(p) /\ ~ CaptureStep(p) /\ ~ ImportStep(p)
  BY DEF MigrateStep, MigrateSees, MigrateChecks, MigrateBacksUp, MigrateVerifies, MigrateBegins,
         MigrateCleans, MigrateExecutes, MigrateRecords, MigrateCommits, MigrateReleases,
         MigrateReports, CaptureStep, CaptureWrites, CaptureCommits, CaptureReports,
         CaptureCommitFails, CaptureFails, CaptureInterrupted, ImportStep, ImportClassifies,
         ImportCommits, ImportCollides, ImportCloses, ImportReports, ImportCutOff, At
<1>6. ~ DeletionStep(p)
  BY DEF DeletionStep, DeletionBegins, RemovesBackup, BackupsRemoved, RemovesSet, SetsRemoved,
         DeletesRows, RowsDeleted, DeletionCommits, Erases, DeletionReports, LogsRebuild,
         LogsRebuilt, DeletionFails, DeletionInterrupted, At, Deletions
<1> QED BY <1>1, <1>2, <1>3, <1>4, <1>5, <1>6 DEF Step

(* A step of another command leaves a deletion what it knows.              *)
LEMMA OthersSpare ==
  ASSUME Shaped, Held, NEW p \in Procs, Step(p), NEW q \in Procs \ {p},
         cmd[q].kind \in Deletions, Cleaning(q)
  PROVE  Cleaning(q)'
<1>1. /\ cmd'[q] = cmd[q] /\ sets' \subseteq sets /\ \A u \in unclean' \ unclean : u[2] = p
      /\ cmd[p].kind = "init" \/ holder = p \/ backups' = backups
  BY StepFrames DEF Frame
<1> DEFINE c == cmd[q]
<1>2. Unerased(q)' = Unerased(q) /\ Pages(q)' \subseteq Pages(q)
  <2>1. Unerased(q)' = Unerased(q)
    BY <1>1 DEF Unerased
  <2>2. \A u \in Unerased(q) : u[2] = q
    BY DEF Unerased
  <2> QED BY <1>1, <2>1, <2>2 DEF Pages
<1>3. c.pc \in {"sets", "rows", "commit"} => backups' \subseteq backups
  <2>1. c.pc \in {"sets", "rows", "commit"} => holder = q
    BY DEF Held, Holding, Locked
  <2>2. cmd[p].kind = "init" => backups' \subseteq backups
    BY InitSpares
  <2> QED BY <1>1, <2>1, <2>2
<1>4. Managed(cmd[q])' \subseteq Managed(cmd[q])
  BY <1>1 DEF Managed
<1>5. cmd'[q] = c
  BY <1>1
<1>6. c.pc \in {"rows", "commit"} => \A s \in Managed(cmd[q])' : Covers(c.residuals, s)
  BY <1>4, <1>1 DEF Cleaning
<1> QED BY <1>2, <1>3, <1>5, <1>6, <1>1 DEF Cleaning
(* A deletion that has not passed its backups, or whose ending came before *)
(* its commit, claims nothing yet.                                         *)
LEMMA EarlyCleaning ==
  ASSUME NEW p \in Procs, Cleaning(p), cmd[p].pc \in Working,
         cmd'[p].pc \in {"lock", "check", "begin", "backups", "done", "dead"},
         cmd'[p].committed = cmd[p].committed,
         \A u \in cmd'[p].unlinks : u[1] \notin {"wal", "database"}
  PROVE  Cleaning(p)'
<1>1. ~ cmd'[p].committed
  BY DEF Cleaning
<1> QED BY <1>1 DEF Cleaning

LEMMA EndsCleaning ==
  ASSUME Shaped, NEW p \in Procs, Cleaning(p), cmd[p].pc \in Working,
         NEW c, DOMAIN c = Fields, c.committed = cmd[p].committed, c.unlinks = cmd[p].unlinks,
         NEW code, NEW named, NEW reported, Ends(p, c, code, named, reported)
  PROVE  Cleaning(p)'
<1>1. cmd'[p].pc = "done" /\ cmd'[p].committed = c.committed /\ cmd'[p].unlinks = c.unlinks
  BY EndsDoes DEF Fields
<1> QED BY <1>1, EarlyCleaning DEF Cleaning

LEMMA WorkingSteps ==
  /\ "start" \in Working /\ "lock" \in Working /\ "check" \in Working /\ "begin" \in Working
  /\ "backups" \in Working /\ "sets" \in Working /\ "rows" \in Working /\ "commit" \in Working
  /\ "erase" \notin Working /\ "hand over" \notin Working /\ "close" \notin Working
  /\ "rebuild" \notin Working /\ "done" \notin Working /\ "dead" \notin Working
BY DEF Working

LEMMA GenericCleans ==
  ASSUME Shaped, NEW p \in Procs, cmd[p].kind \in Deletions, Cleaning(p),
         Lock(p) \/ Busy(p) \/ Gate(p) \/ Check(p) \/ Dies(p) \/ Struck(p)
  PROVE  Cleaning(p)'
<1>0. DOMAIN cmd[p] = Fields
  BY DEF Shaped
<1>r. ASSUME NEW code, Refuses(p, code), cmd[p].pc \in Working
      PROVE  Cleaning(p)'
  BY <1>0, <1>r, EndsCleaning DEF Refuses
<1>t. ASSUME NEW c, DOMAIN c = Fields, Turn(p, c), cmd[p].pc \in Working,
             c.pc \in {"lock", "check", "begin"}, c.committed = cmd[p].committed,
             c.unlinks = cmd[p].unlinks
      PROVE  Cleaning(p)'
  <2>1. cmd'[p] = c
    BY <1>t, TurnDoes
  <2> QED BY <1>t, <2>1, EarlyCleaning DEF Cleaning
<1>1. CASE Lock(p)
  <2> DEFINE c == [cmd[p] EXCEPT !.pc = "check"]
  <2>1. Turn(p, c) /\ cmd[p].pc = "lock"
    BY <1>1 DEF Lock, Go
  <2>2. DOMAIN c = Fields /\ c.pc = "check" /\ c.committed = cmd[p].committed /\ c.unlinks = cmd[p].unlinks
    BY <1>0 DEF Fields
  <2> HIDE DEF c
  <2> QED BY <1>t, <2>1, <2>2, WorkingSteps
<1>2. CASE Busy(p)
  BY <1>2, <1>r, WorkingSteps DEF Busy
<1>3. CASE Gate(p)
  <2>1. ASSUME NEW k \in Keys,
               Turn(p, [cmd[p] EXCEPT !.pc = "lock",
                              !.target = IF cmd[p].kind \in {"import", "purge"} THEN {} ELSE {k}])
        PROVE  Cleaning(p)'
    <3> DEFINE t == IF cmd[p].kind \in {"import", "purge"} THEN {} ELSE {k}
               c == [cmd[p] EXCEPT !.pc = "lock", !.target = t]
    <3>1. DOMAIN c = Fields /\ c.pc = "lock" /\ c.committed = cmd[p].committed /\ c.unlinks = cmd[p].unlinks
      <4> HIDE DEF t
      <4> QED BY <1>0 DEF Fields
    <3>2. Turn(p, c) /\ cmd[p].pc = "start"
      BY <1>3, <2>1 DEF Gate
    <3> HIDE DEF c
    <3> QED BY <1>t, <3>1, <3>2, WorkingSteps
  <2>2. cmd[p].pc = "start"
    BY <1>3 DEF Gate
  <2> QED BY <1>3, <1>r, <2>1, <2>2, WorkingSteps DEF Gate
<1>4. CASE Check(p)
  <2>1. ASSUME NEW retained, Turn(p, [cmd[p] EXCEPT !.pc = "begin", !.retained = retained])
        PROVE  Cleaning(p)'
    <3> DEFINE c == [cmd[p] EXCEPT !.pc = "begin", !.retained = retained]
    <3>1. DOMAIN c = Fields /\ c.pc = "begin" /\ c.committed = cmd[p].committed /\ c.unlinks = cmd[p].unlinks
      BY <1>0 DEF Fields
    <3>2. Turn(p, c) /\ cmd[p].pc = "check"
      BY <1>4, <2>1 DEF Check
    <3> HIDE DEF c
    <3> QED BY <1>t, <3>1, <3>2, WorkingSteps
  <2>2. cmd[p].pc = "check"
    BY <1>4 DEF Check
  <2> QED BY <1>4, <1>r, <2>1, <2>2, WorkingSteps DEF Check
<1>5. CASE Dies(p)
  <2> DEFINE c == [cmd[p] EXCEPT !.pc = "dead", !.work = EmptyFile]
  <2>1. /\ cmd' = [cmd EXCEPT ![p] = c]
        /\ backups' = backups /\ unclean' = unclean
    BY <1>5 DEF Dies, disk
  <2>2. /\ c.pc = "dead" /\ c.unlinks = cmd[p].unlinks /\ c.committed = cmd[p].committed
        /\ c.stale = cmd[p].stale /\ c.residuals = cmd[p].residuals /\ c.kind = cmd[p].kind
    BY <1>0 DEF Fields
  <2>3. cmd'[p] = c
    BY <2>1 DEF Shaped
  <2> HIDE DEF c
  <2>4. Unerased(p)' = Unerased(p)
    BY <2>2, <2>3 DEF Unerased
  <2> QED BY <2>2, <2>3, <2>4, WorkingSteps DEF Cleaning
<1>6. CASE Struck(p)
  BY <1>6 DEF Struck, InitStruck, MigrateStruck, ImportStruck, Deletions
<1> QED BY <1>1, <1>2, <1>3, <1>4, <1>5, <1>6

(* The commit: what is stale is what the passes reported, and the pages.   *)
LEMMA CommittedIs ==
  ASSUME Shaped, NEW p \in Procs
  PROVE  LET c == Committed(p) IN
         /\ DOMAIN c = Fields /\ c.kind = cmd[p].kind /\ c.committed = TRUE /\ c.pc = cmd[p].pc
         /\ c.stale = BackupPlaces \union Managed(cmd[p]) \union Unerased(p)
         /\ c.unlinks = cmd[p].unlinks /\ c.residuals = cmd[p].residuals
         /\ c.unproven = cmd[p].unproven /\ c.durable = Deleted(cmd[p])
<1> DEFINE a == Deleted(cmd[p])
           b == BackupPlaces \union Managed(cmd[p]) \union Unerased(p)
<1>1. Committed(p) = [cmd[p] EXCEPT !.committed = TRUE, !.durable = a, !.work = EmptyFile, !.stale = b]
  BY DEF Committed
<1> HIDE DEF a, b
<1>2. LET c == Committed(p) IN
         /\ DOMAIN c = Fields /\ c.kind = cmd[p].kind /\ c.committed = TRUE /\ c.pc = cmd[p].pc
         /\ c.stale = b /\ c.unlinks = cmd[p].unlinks /\ c.residuals = cmd[p].residuals
         /\ c.unproven = cmd[p].unproven /\ c.durable = a
  BY <1>1 DEF Fields, Shaped
<1> QED BY <1>2 DEF a, b

LEMMA StaleKnown ==
  ASSUME NEW p \in Procs, Cleaning(p), cmd[p].pc = "commit"
  PROVE  \A place \in BackupPlaces \union Managed(cmd[p]) : Covers(cmd[p].residuals, place)
BY DEF Cleaning, BackupPlaces

(* Nothing an unlink proves is among the pages.                            *)
LEMMA PagesUnresolved ==
  ASSUME NEW p \in Procs, NEW c, \A u \in c.unlinks : u[1] \notin {"wal", "database"}
  PROVE  /\ c.residuals \subseteq Unresolved(c)
         /\ c.unproven = Unerased(p) => Unerased(p) \subseteq Unresolved(c)
<1>1. \A u \in Unerased(p) : u[1] \in {"wal", "database"}
  BY DEF Unerased
<1> QED BY <1>1 DEF Unresolved


(* The ending of a committed deletion that reports what it knows.          *)
LEMMA ReportCleans ==
  ASSUME Shaped, NEW p \in Procs, cmd[p].kind \in Deletions,
         NEW c, DOMAIN c = Fields, c.kind = cmd[p].kind, \A u \in c.unlinks : u[1] \notin {"wal", "database"},
         c.committed => \A place \in c.stale \ Unerased(p) : Covers(c.residuals, place),
         NEW code, NEW named, NEW reported, Ends(p, c, code, named, reported),
         c.detached \/ (c.residuals \subseteq reported /\ (c.committed => Pages(p)' \subseteq reported))
  PROVE  Cleaning(p)'
<1>1. /\ cmd'[p].pc = "done" /\ cmd'[p].reported = reported /\ cmd'[p].kind = cmd[p].kind
      /\ cmd'[p].unlinks = c.unlinks /\ cmd'[p].stale = c.stale /\ cmd'[p].residuals = c.residuals
      /\ cmd'[p].detached = c.detached /\ cmd'[p].committed = c.committed
  BY EndsDoes DEF Fields
<1>2. Unerased(p)' = Unerased(p)
  BY <1>1 DEF Unerased
<1>3. c.detached \/ (c.committed => \A place \in c.stale \ Unerased(p) : Covers(reported, place))
  BY CoversMore
<1> QED BY <1>1, <1>2, <1>3, WorkingSteps DEF Cleaning

LEMMA DeletionCleans ==
  ASSUME Shaped, Held, Placed, NEW p \in Procs, Cleaning(p), DeletionStep(p)
  PROVE  Cleaning(p)'
<1>0. DOMAIN cmd[p] = Fields
  BY DEF Shaped
<1>k. cmd[p].kind \in Deletions
  BY DEF DeletionStep, DeletionBegins, RemovesBackup, BackupsRemoved, RemovesSet, SetsRemoved,
         DeletesRows, RowsDeleted, DeletionCommits, Erases, DeletionReports, LogsRebuild,
         LogsRebuilt, DeletionFails, DeletionInterrupted, At, Deletions
<1>u. \A u \in cmd[p].unlinks : u[1] \notin {"wal", "database"}
  BY DEF Cleaning
<1>w. cmd[p].pc \in Working => ~ cmd[p].committed
  BY DEF Cleaning
<1>r. ASSUME NEW code, Refuses(p, code), cmd[p].pc \in Working
      PROVE  Cleaning(p)'
  BY <1>0, <1>r, EndsCleaning DEF Refuses
<1>t. ASSUME NEW c, DOMAIN c = Fields, c.kind = cmd[p].kind, Turn(p, c)
      PROVE  cmd'[p] = c /\ Unerased(p)' = Unerased(p)
  <2>1. cmd'[p] = c
    BY <1>t, TurnDoes
  <2> QED BY <1>t, <2>1 DEF Unerased
(* Before the commit: the places the passes so far leave are known.        *)
<1>e. ASSUME NEW c, DOMAIN c = Fields, c.kind = cmd[p].kind, Turn(p, c), cmd[p].pc \in Working,
             c.committed = cmd[p].committed, \A u \in c.unlinks : u[1] \notin {"wal", "database"},
             c.pc \in {"backups", "sets", "rows", "commit"}, c.target = cmd[p].target,
             c.pc # "backups" => \A b \in backups' : Covers(c.residuals, <<"backup", b.of>>),
             c.pc \in {"rows", "commit"} => sets' = sets /\ \A s \in Managed(cmd[p]) : Covers(c.residuals, s),
             c.pc = "commit" => c.unproven = Unerased(p)
      PROVE  Cleaning(p)'
  <2>1. cmd'[p] = c /\ Unerased(p)' = Unerased(p)
    BY <1>e, <1>t
  <2>2. sets' = sets => Managed(cmd[p])' = Managed(cmd[p])
    BY <1>e, <2>1 DEF Managed
  <2>3. c.pc \in {"rows", "commit"} => \A s \in Managed(cmd[p])' : Covers(c.residuals, s)
    BY <1>e, <2>2
  <2>4. ~ c.committed /\ c.pc \notin {"close", "hand over", "rebuild", "done", "erase"}
    BY <1>e, <1>w
  <2> QED BY <1>e, <2>1, <2>3, <2>4 DEF Cleaning
<1>1. CASE DeletionBegins(p)
  <2>1. CASE Refuses(p, "selector_not_found")
    BY <1>1, <1>r, <2>1, WorkingSteps DEF DeletionBegins
  <2>2. CASE Turn(p, [cmd[p] EXCEPT !.pc = "backups", !.work = db, !.unproven = {AllBackups}])
    <3> DEFINE c == [cmd[p] EXCEPT !.pc = "backups", !.work = db, !.unproven = {AllBackups}]
    <3>1. /\ DOMAIN c = Fields /\ c.kind = cmd[p].kind /\ c.pc = "backups" /\ c.unlinks = cmd[p].unlinks
          /\ c.committed = cmd[p].committed /\ c.target = cmd[p].target
      BY <1>0 DEF Fields
    <3>2. Turn(p, c) /\ cmd[p].pc = "begin"
      BY <1>1, <2>2 DEF DeletionBegins
    <3> HIDE DEF c
    <3> QED BY <1>e, <1>u, <3>1, <3>2, WorkingSteps
  <2> QED BY <1>1, <2>1, <2>2 DEF DeletionBegins
<1>2. CASE RemovesBackup(p)
  <2>1. PICK b \in backups :
          \/ Turn(p, [cmd[p] EXCEPT !.unlinks = @ \union {<<"backup", b.of>>}])
          \/ Turn(p, [cmd[p] EXCEPT !.refused = @ \union {<<"backup", b.of>>}])
    BY <1>2 DEF RemovesBackup
  <2> DEFINE place == <<"backup", b.of>>
             x == cmd[p].unlinks \union {place}
             c1 == [cmd[p] EXCEPT !.unlinks = x]
             c2 == [cmd[p] EXCEPT !.refused = @ \union {place}]
  <2>2. (Turn(p, c1) \/ Turn(p, c2)) /\ cmd[p].pc = "backups"
    BY <1>2, <2>1 DEF RemovesBackup
  <2>3. \A u \in x : u[1] \notin {"wal", "database"}
    BY <1>u
  <2> HIDE DEF x
  <2>4. /\ DOMAIN c1 = Fields /\ c1.kind = cmd[p].kind /\ c1.pc = "backups" /\ c1.unlinks = x
        /\ c1.committed = cmd[p].committed /\ c1.target = cmd[p].target
    BY <1>0, <2>2 DEF Fields
  <2>5. /\ DOMAIN c2 = Fields /\ c2.kind = cmd[p].kind /\ c2.pc = "backups" /\ c2.unlinks = cmd[p].unlinks
        /\ c2.committed = cmd[p].committed /\ c2.target = cmd[p].target
    BY <1>0, <2>2 DEF Fields
  <2> HIDE DEF c1, c2
  <2> QED BY <1>e, <1>u, <2>2, <2>3, <2>4, <2>5, WorkingSteps
<1>3. CASE BackupsRemoved(p)
  <2> DEFINE r == {ManagedRoot(cmd[p])}
             x == cmd[p].residuals \union BackupPlaces
             y == cmd[p].residuals \union {AllBackups}
             c1 == [cmd[p] EXCEPT !.pc = "sets", !.residuals = x, !.refused = {}, !.unproven = r]
             c2 == [cmd[p] EXCEPT !.pc = "sets", !.residuals = y, !.unlinks = {}, !.refused = {},
                                  !.unproven = r]
  <2>1. (Turn(p, c1) \/ Turn(p, c2)) /\ cmd[p].pc = "backups" /\ backups' = backups
    BY <1>3 DEF BackupsRemoved, disk
  <2>2. \A b \in backups : Covers(x, <<"backup", b.of>>) /\ Covers(y, <<"backup", b.of>>)
    BY DEF Covers, BackupPlaces
  <2> HIDE DEF r, x, y
  <2>3. /\ DOMAIN c1 = Fields /\ c1.kind = cmd[p].kind /\ c1.pc = "sets" /\ c1.unlinks = cmd[p].unlinks
        /\ c1.committed = cmd[p].committed /\ c1.target = cmd[p].target /\ c1.residuals = x
    BY <1>0 DEF Fields
  <2>4. /\ DOMAIN c2 = Fields /\ c2.kind = cmd[p].kind /\ c2.pc = "sets" /\ c2.unlinks = {}
        /\ c2.committed = cmd[p].committed /\ c2.target = cmd[p].target /\ c2.residuals = y
    BY <1>0 DEF Fields
  <2> HIDE DEF c1, c2
  <2> QED BY <1>e, <1>u, <2>1, <2>2, <2>3, <2>4, WorkingSteps
<1>b. cmd[p].pc \in {"sets", "rows", "commit"} =>
        \A b \in backups : Covers(cmd[p].residuals, <<"backup", b.of>>)
  BY DEF Cleaning
<1>m. cmd[p].pc \in {"rows", "commit"} => \A s \in Managed(cmd[p]) : Covers(cmd[p].residuals, s)
  BY DEF Cleaning
<1>4. CASE RemovesSet(p)
  <2>1. PICK s \in Managed(cmd[p]) \ cmd[p].refused :
       \/ Turn(p, [cmd[p] EXCEPT !.unlinks =
                         IF cmd[p].kind = "jd delete" THEN @ \union {s} ELSE @])
       \/ Turn(p, [cmd[p] EXCEPT !.refused = @ \union {s}])
    BY <1>4 DEF RemovesSet
  <2> DEFINE x == IF cmd[p].kind = "jd delete" THEN cmd[p].unlinks \union {s} ELSE cmd[p].unlinks
             c1 == [cmd[p] EXCEPT !.unlinks = x]
             c2 == [cmd[p] EXCEPT !.refused = @ \union {s}]
  <2>2. (Turn(p, c1) \/ Turn(p, c2)) /\ cmd[p].pc = "sets" /\ backups' = backups
    BY <1>4, <2>1 DEF RemovesSet
  <2>3. s[1] \in {"assessment", "branch"}
    BY <2>1 DEF Managed, Placed
  <2>4. \A u \in x : u[1] \notin {"wal", "database"}
    BY <1>u, <2>3
  <2> HIDE DEF x
  <2>5. /\ DOMAIN c1 = Fields /\ c1.kind = cmd[p].kind /\ c1.pc = "sets" /\ c1.unlinks = x
        /\ c1.committed = cmd[p].committed /\ c1.target = cmd[p].target /\ c1.residuals = cmd[p].residuals
    BY <1>0, <2>2 DEF Fields
  <2>6. /\ DOMAIN c2 = Fields /\ c2.kind = cmd[p].kind /\ c2.pc = "sets" /\ c2.unlinks = cmd[p].unlinks
        /\ c2.committed = cmd[p].committed /\ c2.target = cmd[p].target /\ c2.residuals = cmd[p].residuals
    BY <1>0, <2>2 DEF Fields
  <2> HIDE DEF c1, c2
  <2> QED BY <1>b, <1>e, <1>u, <2>2, <2>4, <2>5, <2>6, WorkingSteps
<1>5. CASE SetsRemoved(p)
  <2> DEFINE x == cmd[p].residuals \union Managed(cmd[p])
             y == cmd[p].residuals \union Stranded(cmd[p])
             c1 == [cmd[p] EXCEPT !.pc = "rows", !.residuals = x, !.refused = {}, !.unproven = {}]
             c2 == [cmd[p] EXCEPT !.pc = "rows", !.residuals = y, !.refused = {}, !.unproven = {}]
  <2>1. (Turn(p, c1) \/ Turn(p, c2)) /\ cmd[p].pc = "sets" /\ backups' = backups /\ sets' = sets
    BY <1>5 DEF SetsRemoved, disk
  <2>2. \A b \in backups : Covers(x, <<"backup", b.of>>) /\ Covers(y, <<"backup", b.of>>)
    BY <1>b, <2>1 DEF Covers
  <2>3. \A s \in Managed(cmd[p]) : Covers(x, s)
    BY DEF Covers
  <2>4. ASSUME NEW s \in Managed(cmd[p]) PROVE Covers(y, s)
    <3>1. s \in {"assessment", "branch"} \X Keys
      BY DEF Managed, Placed
    <3>2. CASE cmd[p].kind = "jd delete"
      <4>0. Managed(cmd[p]) = {t \in sets : t[1] = "branch" /\ t[2] \in cmd[p].target}
        BY <3>2 DEF Managed
      <4>1. s[1] = "branch" /\ s[2] \in cmd[p].target /\ s = <<s[1], s[2]>>
        BY <3>1, <4>0
      <4>2. s \in {"branch"} \X cmd[p].target
        BY <4>1
      <4> QED BY <3>2, <4>2 DEF Covers, Stranded
    <3>3. CASE cmd[p].kind # "jd delete"
      <4>1. <<"out", None>> \in y
        BY <3>3 DEF Stranded
      <4>2. s[1] \in {"assessment", "branch"}
        BY <3>1
      <4> HIDE DEF y
      <4> QED BY <4>1, <4>2 DEF Covers
    <3> QED BY <3>2, <3>3
  <2> HIDE DEF x, y
  <2>5. /\ DOMAIN c1 = Fields /\ c1.kind = cmd[p].kind /\ c1.pc = "rows" /\ c1.unlinks = cmd[p].unlinks
        /\ c1.committed = cmd[p].committed /\ c1.target = cmd[p].target /\ c1.residuals = x
    BY <1>0 DEF Fields
  <2>6. /\ DOMAIN c2 = Fields /\ c2.kind = cmd[p].kind /\ c2.pc = "rows" /\ c2.unlinks = cmd[p].unlinks
        /\ c2.committed = cmd[p].committed /\ c2.target = cmd[p].target /\ c2.residuals = y
    BY <1>0 DEF Fields
  <2> HIDE DEF c1, c2
  <2> QED BY <1>e, <1>u, <2>1, <2>2, <2>3, <2>4, <2>5, <2>6, WorkingSteps
<1>6. CASE DeletesRows(p)
  <2> DEFINE next == Execute(cmd[p].work, DeletionStatements(cmd[p])[cmd[p].at], TRUE, TRUE)
             c == [cmd[p] EXCEPT !.work = next, !.at = @ + 1]
  <2>1. /\ Turn(p, c) \/ Refuses(p, "internal_error")
        /\ cmd[p].pc = "rows" /\ backups' = backups /\ sets' = sets
    BY <1>6 DEF DeletesRows, disk
  <2> HIDE DEF next
  <2>2. /\ DOMAIN c = Fields /\ c.kind = cmd[p].kind /\ c.pc = "rows" /\ c.unlinks = cmd[p].unlinks
        /\ c.committed = cmd[p].committed /\ c.target = cmd[p].target /\ c.residuals = cmd[p].residuals
    BY <1>0, <2>1 DEF Fields
  <2> HIDE DEF c
  <2>3. CASE Turn(p, c)
    BY <1>b, <1>m, <1>e, <1>u, <2>1, <2>2, <2>3, WorkingSteps
  <2> QED BY <1>r, <2>1, <2>3, WorkingSteps
<1>7. CASE RowsDeleted(p)
  <2> DEFINE v == IF cmd[p].kind = "purge" THEN {Current} ELSE cmd[p].work.versions
             u == Unerased(p)
             c == [cmd[p] EXCEPT !.pc = "commit", !.unproven = u, !.work.versions = v]
  <2>1. Turn(p, c) /\ cmd[p].pc = "rows" /\ backups' = backups /\ sets' = sets
    BY <1>7 DEF RowsDeleted, disk
  <2> HIDE DEF v, u
  <2>2. /\ DOMAIN c = Fields /\ c.kind = cmd[p].kind /\ c.pc = "commit" /\ c.unlinks = cmd[p].unlinks
        /\ c.committed = cmd[p].committed /\ c.target = cmd[p].target /\ c.residuals = cmd[p].residuals
        /\ c.unproven = u
    BY <1>0 DEF Fields
  <2>3. u = Unerased(p)
    BY DEF u
  <2> HIDE DEF c
  <2> QED BY <1>b, <1>m, <1>e, <1>u, <2>1, <2>2, <2>3, WorkingSteps
<1>8. CASE DeletionCommits(p)
  <2> DEFINE c == [Committed(p) EXCEPT !.pc = "erase"]
  <2>1. Turn(p, c) /\ cmd[p].pc = "commit"
    BY <1>8 DEF DeletionCommits
  <2>2. /\ DOMAIN c = Fields /\ c.kind = cmd[p].kind /\ c.pc = "erase" /\ c.unlinks = cmd[p].unlinks
        /\ c.stale = BackupPlaces \union Managed(cmd[p]) \union Unerased(p)
        /\ c.residuals = cmd[p].residuals /\ c.unproven = cmd[p].unproven
    BY CommittedIs DEF Fields
  <2> HIDE DEF c
  <2>3. cmd'[p] = c /\ Unerased(p)' = Unerased(p)
    BY <1>t, <2>1, <2>2
  <2>4. \A place \in c.stale \ Unerased(p) : Covers(c.residuals, place)
    BY <2>1, <2>2, StaleKnown
  <2>5. c.unproven = Unerased(p)
    BY <2>1, <2>2 DEF Cleaning
  <2> QED BY <1>u, <2>2, <2>3, <2>4, <2>5, WorkingSteps DEF Cleaning
<1>9. CASE Erases(p)
  <2>1. PICK left \in SUBSET Unerased(p), said \in SUBSET Unerased(p) :
       /\ left \subseteq said
       /\ unclean' = left \union
            {u \in unclean : (u[1] = "wal" /\ <<"wal", p>> \in left) \/ (u[1] = "database" /\ u[2] # p)}
       /\ Turn(p, [cmd[p] EXCEPT
                     !.pc = IF cmd[p].kind = "logs delete" THEN "hand over" ELSE "close",
                     !.residuals = @ \union said, !.unproven = {}])
    BY <1>9 DEF Erases
  <2> DEFINE pc == IF cmd[p].kind = "logs delete" THEN "hand over" ELSE "close"
             c == [cmd[p] EXCEPT !.pc = pc, !.residuals = @ \union said, !.unproven = {}]
  <2>2. Turn(p, c) /\ cmd[p].pc = "erase"
    BY <1>9, <2>1 DEF Erases
  <2>3. pc \in {"hand over", "close"}
    OBVIOUS
  <2> HIDE DEF pc
  <2>4. /\ DOMAIN c = Fields /\ c.kind = cmd[p].kind /\ c.pc = pc /\ c.unlinks = cmd[p].unlinks
        /\ c.stale = cmd[p].stale /\ c.residuals = cmd[p].residuals \union said
        /\ c.committed = cmd[p].committed
    BY <1>0 DEF Fields
  <2> HIDE DEF c
  <2>5. cmd'[p] = c /\ Unerased(p)' = Unerased(p)
    BY <1>t, <2>2, <2>4
  <2>6. Pages(p)' \subseteq left
    <3>1. \A u \in Unerased(p) : u = <<"wal", p>> \/ (u[1] = "database" /\ u[2] = p)
      BY DEF Unerased
    <3>2. "wal" # "database"
      OBVIOUS
    <3>3. \A u \in Unerased(p) : u[1] = "wal" => u = <<"wal", p>>
      BY <3>1
    <3> QED BY <2>1, <2>5, <3>1, <3>3 DEF Pages
  <2>7. c.committed => \A place \in c.stale \ Unerased(p) : Covers(c.residuals, place)
    <3>1. cmd[p].committed => \A place \in cmd[p].stale \ Unerased(p) : Covers(cmd[p].residuals, place)
      BY DEF Cleaning
    <3> QED BY <2>4, <3>1, CoversMore
  <2>8. Pages(p)' \subseteq c.residuals
    BY <2>1, <2>4, <2>6
  <2> QED BY <1>u, <2>3, <2>4, <2>5, <2>7, <2>8, WorkingSteps DEF Cleaning
(* After the commit: an ending reports what it knows, or nothing at all.   *)
<1>s. cmd[p].committed => \A place \in cmd[p].stale \ Unerased(p) : Covers(cmd[p].residuals, place)
  BY DEF Cleaning
<1>p. ASSUME unclean' = unclean, DOMAIN cmd'[p] = Fields, cmd'[p].kind = cmd[p].kind
      PROVE  Unerased(p)' = Unerased(p) /\ Pages(p)' = Pages(p)
  BY <1>p DEF Unerased, Pages
<1>f. ASSUME NEW code, NEW named, Ends(p, cmd[p], code, named, Unresolved(cmd[p])) \/
                                    Ends(p, cmd[p], code, named, cmd[p].residuals),
             cmd[p].pc \in {"close", "rebuild"}, UNCHANGED disk
      PROVE  Cleaning(p)'
  <2>1. DOMAIN cmd'[p] = Fields /\ cmd'[p].kind = cmd[p].kind
    BY <1>0, <1>f, EndsDoes DEF Fields
  <2>2. Pages(p)' = Pages(p)
    BY <1>f, <1>p, <2>1 DEF disk
  <2>3. cmd[p].committed => Pages(p)' \subseteq cmd[p].residuals
    BY <1>f, <2>2 DEF Cleaning
  <2>4. cmd[p].residuals \subseteq Unresolved(cmd[p])
    BY <1>u, PagesUnresolved
  <2>5. CASE Ends(p, cmd[p], code, named, Unresolved(cmd[p]))
    BY <1>0, <1>k, <1>s, <1>u, <2>3, <2>4, <2>5, ReportCleans
  <2>6. CASE Ends(p, cmd[p], code, named, cmd[p].residuals)
    BY <1>0, <1>k, <1>s, <1>u, <2>3, <2>6, ReportCleans
  <2> QED BY <1>f, <2>5, <2>6
<1>g. ASSUME NEW c, DOMAIN c = Fields, c.kind = cmd[p].kind, \A u \in c.unlinks : u[1] \notin {"wal", "database"},
             c.committed => \A place \in c.stale \ Unerased(p) : Covers(c.residuals, place),
             NEW code, Detached(p, c, code)
      PROVE  Cleaning(p)'
  <2> DEFINE e == [c EXCEPT !.detached = TRUE]
  <2>1. Ends(p, e, code, {}, {})
    BY <1>g DEF Detached
  <2>2. /\ DOMAIN e = Fields /\ e.kind = cmd[p].kind /\ e.unlinks = c.unlinks /\ e.stale = c.stale
        /\ e.residuals = c.residuals /\ e.committed = c.committed /\ e.detached = TRUE
    BY <1>g DEF Fields
  <2> HIDE DEF e
  <2> QED BY <1>g, <1>k, <2>1, <2>2, ReportCleans
<1>10. CASE DeletionReports(p)
  <2> DEFINE code == IF cmd[p].residuals = {} THEN "success" ELSE "deletion_incomplete"
  <2>1. Ends(p, cmd[p], code, cmd[p].durable, cmd[p].residuals) /\ cmd[p].pc = "close" /\ UNCHANGED disk
    BY <1>10 DEF DeletionReports
  <2> HIDE DEF code
  <2> QED BY <1>f, <2>1
<1>n. ASSUME NEW pc, Go(p, pc), cmd[p].pc \in {"hand over", "rebuild"}, pc \in {"rebuild", "close"},
             unclean' = unclean
      PROVE  Cleaning(p)'
  <2> DEFINE c == [cmd[p] EXCEPT !.pc = pc]
  <2>1. Turn(p, c)
    BY <1>n DEF Go
  <2>2. /\ DOMAIN c = Fields /\ c.kind = cmd[p].kind /\ c.pc = pc /\ c.unlinks = cmd[p].unlinks
        /\ c.stale = cmd[p].stale /\ c.residuals = cmd[p].residuals /\ c.committed = cmd[p].committed
    BY <1>0 DEF Fields
  <2> HIDE DEF c
  <2>3. cmd'[p] = c /\ Unerased(p)' = Unerased(p)
    BY <1>t, <2>1, <2>2
  <2>4. Pages(p)' = Pages(p)
    BY <1>n, <2>3 DEF Pages
  <2>5. cmd[p].committed => Pages(p) \subseteq cmd[p].residuals
    BY <1>n DEF Cleaning
  <2> QED BY <1>n, <1>s, <1>u, <2>2, <2>3, <2>4, <2>5, WorkingSteps DEF Cleaning
<1>11. CASE LogsRebuild(p)
  BY <1>11, <1>n DEF LogsRebuild, At, disk
<1>12. CASE LogsRebuilt(p)
  BY <1>12, <1>n DEF LogsRebuilt, At
(* What the commit leaves behind is known, however the command then ends.  *)
<1>c. cmd[p].pc = "commit" =>
        /\ \A place \in Committed(p).stale \ Unerased(p) : Covers(Committed(p).residuals, place)
        /\ DOMAIN Committed(p) = Fields /\ Committed(p).kind = cmd[p].kind
        /\ \A u \in Committed(p).unlinks : u[1] \notin {"wal", "database"}
        /\ Unerased(p) \subseteq Unresolved(Committed(p))
        /\ Committed(p).residuals \subseteq Unresolved(Committed(p))
  <2> SUFFICES ASSUME cmd[p].pc = "commit"
               PROVE  /\ \A place \in Committed(p).stale \ Unerased(p) : Covers(Committed(p).residuals, place)
                      /\ DOMAIN Committed(p) = Fields /\ Committed(p).kind = cmd[p].kind
                      /\ \A u \in Committed(p).unlinks : u[1] \notin {"wal", "database"}
                      /\ Unerased(p) \subseteq Unresolved(Committed(p))
                      /\ Committed(p).residuals \subseteq Unresolved(Committed(p))
    OBVIOUS
  <2> DEFINE c == Committed(p)
  <2>1. /\ DOMAIN c = Fields /\ c.kind = cmd[p].kind
        /\ c.stale = BackupPlaces \union Managed(cmd[p]) \union Unerased(p)
        /\ c.unlinks = cmd[p].unlinks /\ c.residuals = cmd[p].residuals /\ c.unproven = cmd[p].unproven
    BY CommittedIs
  <2>2. c.unproven = Unerased(p)
    BY <2>1 DEF Cleaning
  <2> HIDE DEF c
  <2>3. \A place \in c.stale \ Unerased(p) : Covers(c.residuals, place)
    BY <2>1, StaleKnown
  <2>4. \A u \in c.unlinks : u[1] \notin {"wal", "database"}
    BY <1>u, <2>1
  <2>5. Unerased(p) \subseteq Unresolved(c) /\ c.residuals \subseteq Unresolved(c)
    BY <2>2, <2>4, PagesUnresolved
  <2> QED BY <2>1, <2>3, <2>4, <2>5 DEF c
<1>13. CASE DeletionFails(p)
  <2>1. CASE cmd[p].pc \in Working \ {"backups", "sets"} /\ Refuses(p, "internal_error")
    BY <1>r, <2>1
  <2>2. CASE cmd[p].pc = "commit" /\ Detached(p, Committed(p), "internal_error")
    BY <1>c, <1>g, <2>2
  <2>3. CASE Detached(p, cmd[p], "internal_error")
    BY <1>0, <1>g, <1>s, <1>u, <2>3
  <2>4. CASE cmd[p].pc = "rebuild" /\ Ends(p, cmd[p], "llm_failed", cmd[p].durable, cmd[p].residuals) /\ UNCHANGED disk
    BY <1>f, <2>4
  <2> QED BY <1>13, <2>1, <2>2, <2>3, <2>4 DEF DeletionFails
<1>14. CASE DeletionInterrupted(p)
  <2>1. CASE /\ cmd[p].pc \in Working
             /\ LET c == IF cmd[p].pc = "commit" THEN [cmd[p] EXCEPT !.unproven = {}] ELSE cmd[p]
                IN Ends(p, c, "cancelled", {}, CleanupReported(c))
    <3> DEFINE c == IF cmd[p].pc = "commit" THEN [cmd[p] EXCEPT !.unproven = {}] ELSE cmd[p]
               said == CleanupReported(c)
    <3>1. Ends(p, c, "cancelled", {}, said) /\ cmd[p].pc \in Working
      BY <2>1
    <3>2. DOMAIN c = Fields /\ c.committed = cmd[p].committed /\ c.unlinks = cmd[p].unlinks
      BY <1>0 DEF Fields
    <3> HIDE DEF c, said
    <3> QED BY <3>1, <3>2, EndsCleaning
  <2>2. CASE cmd[p].pc = "commit" /\ Ends(p, Committed(p), "cancelled", Committed(p).durable, Unresolved(Committed(p)))
    <3> DEFINE c == Committed(p)
               said == Unresolved(c)
               named == c.durable
    <3>1. /\ \A place \in c.stale \ Unerased(p) : Covers(c.residuals, place)
          /\ DOMAIN c = Fields /\ c.kind = cmd[p].kind
          /\ \A u \in c.unlinks : u[1] \notin {"wal", "database"}
          /\ Unerased(p) \subseteq said /\ c.residuals \subseteq said
      BY <1>c, <2>2
    <3>2. Ends(p, c, "cancelled", named, said)
      BY <2>2
    <3> HIDE DEF c, said, named
    <3>3. cmd'[p].kind = cmd[p].kind
      BY <3>1, <3>2, EndsDoes DEF Fields
    <3>4. Pages(p)' \subseteq said
      BY <3>1, <3>3 DEF Pages, Unerased
    <3> QED BY <1>k, <3>1, <3>2, <3>4, ReportCleans
  <2>3. CASE /\ cmd[p].pc \in {"erase", "rebuild", "close"} /\ UNCHANGED disk
             /\ Ends(p, cmd[p], "cancelled", cmd[p].durable, Unresolved(cmd[p]))
    <3>1. CASE cmd[p].pc = "erase"
      <4> DEFINE said == Unresolved(cmd[p])
                 named == cmd[p].durable
      <4>1. Unerased(p) \subseteq said /\ cmd[p].residuals \subseteq said
        BY <1>u, <3>1, PagesUnresolved DEF Cleaning
      <4>2. Ends(p, cmd[p], "cancelled", named, said)
        BY <2>3
      <4> HIDE DEF said, named
      <4>3. cmd'[p].kind = cmd[p].kind
        BY <1>0, <4>2, EndsDoes DEF Fields
      <4>4. Pages(p)' \subseteq said
        BY <4>1, <4>3 DEF Pages, Unerased
      <4> QED BY <1>0, <1>k, <1>s, <1>u, <4>1, <4>2, <4>4, ReportCleans
    <3>2. CASE cmd[p].pc # "erase"
      <4> DEFINE named == cmd[p].durable
      <4>1. Ends(p, cmd[p], "cancelled", named, Unresolved(cmd[p]))
        BY <2>3
      <4> HIDE DEF named
      <4> QED BY <1>f, <2>3, <3>2, <4>1
    <3> QED BY <3>1, <3>2
  <2>4. CASE Detached(p, cmd[p], "cancelled")
    BY <1>0, <1>g, <1>s, <1>u, <2>4
  <2> QED BY <1>14, <2>1, <2>2, <2>3, <2>4 DEF DeletionInterrupted
<1> QED BY <1>1, <1>2, <1>3, <1>4, <1>5, <1>6, <1>7, <1>8, <1>9, <1>10, <1>11, <1>12, <1>13, <1>14
        DEF DeletionStep

LEMMA DeletionsStep ==
  ASSUME NEW p \in Procs, cmd[p].kind \in Deletions, Step(p)
  PROVE  \/ DeletionStep(p)
         \/ Lock(p) \/ Busy(p) \/ Gate(p) \/ Check(p) \/ Dies(p) \/ Struck(p)
<1>1. cmd[p].kind \notin {"init", "migrate", "capture", "import"}
  BY DEF Deletions
<1>2. ~ InitStep(p) /\ ~ MigrateStep(p)
  BY <1>1 DEF InitStep, InitSees, InitSeesOut, InitMakesOut, InitRestrictsOut, InitMakesMarker, InitFills,
         InitCreatesSchema, InitInspects, InitUndoesMarker, InitUndoesOut,
         MigrateStep, MigrateSees, MigrateChecks, MigrateBacksUp, MigrateVerifies, MigrateBegins,
         MigrateCleans, MigrateExecutes, MigrateRecords, MigrateCommits, MigrateReleases,
         MigrateReports, At
<1>3. ~ CaptureStep(p) /\ ~ ImportStep(p)
  BY <1>1 DEF CaptureStep, CaptureWrites, CaptureCommits, CaptureReports,
         CaptureCommitFails, CaptureFails, CaptureInterrupted, ImportStep, ImportClassifies,
         ImportCommits, ImportCollides, ImportCloses, ImportReports, ImportCutOff, At
<1> QED BY <1>2, <1>3 DEF Step

LEMMA ErasureKept ==
  ASSUME Shaped, Held, Erasure, [Next]_workspaceVars
  PROVE  Erasure'
<1>1. ASSUME NEW p \in Procs, Step(p) PROVE Erasure'
  <2>1. /\ \A q \in Procs \ {p} : cmd'[q] = cmd[q]
        /\ cmd'[p].kind = cmd[p].kind /\ sets' \subseteq sets
    BY <1>1, StepFrames DEF Frame
  <2>2. Placed'
    BY <2>1 DEF Erasure, Placed
  <2>3. cmd[p].kind \in Deletions => Cleaning(p)'
    BY <1>1, DeletionsStep, DeletionCleans, GenericCleans DEF Erasure
  <2>4. ASSUME NEW q \in Procs, cmd'[q].kind \in Deletions PROVE Cleaning(q)'
    <3>1. CASE q = p
      BY <2>1, <2>3, <2>4, <3>1
    <3>2. CASE q # p
      <4>1. cmd[q].kind \in Deletions /\ Cleaning(q)
        BY <2>1, <2>4, <3>2 DEF Erasure
      <4> QED BY <1>1, <3>2, <4>1, OthersSpare
    <3> QED BY <3>1, <3>2
  <2> QED BY <2>2, <2>4 DEF Erasure
<1>2. CASE UNCHANGED workspaceVars
  <2>1. cmd' = cmd /\ sets' = sets /\ backups' = backups /\ unclean' = unclean
    BY <1>2 DEF workspaceVars
  <2>2. Placed'
    BY <2>1 DEF Erasure, Placed
  <2>3. ASSUME NEW q \in Procs, Cleaning(q) PROVE Cleaning(q)'
    <3>1. Unerased(q)' = Unerased(q) /\ Managed(cmd[q])' = Managed(cmd[q])
      BY <2>1 DEF Unerased, Managed
    <3>2. Pages(q)' = Pages(q)
      BY <2>1, <3>1 DEF Pages
    <3> QED BY <2>1, <2>3, <3>1, <3>2 DEF Cleaning
  <2> QED BY <2>1, <2>2, <2>3 DEF Erasure
<1> QED BY <1>1, <1>2, NextSteps

LEMMA InitErasure == WorkspaceInit => Erasure
<1> SUFFICES ASSUME WorkspaceInit PROVE Erasure
  OBVIOUS
<1>1. Placed
  BY ScenariosAssumption DEF WorkspaceInit, Placed
<1>2. ASSUME NEW p \in Procs PROVE Cleaning(p)
  <2>1. cmd[p].pc = "start" /\ cmd[p].committed = FALSE /\ cmd[p].unlinks = {}
    BY Fresh DEF IsFresh
  <2> QED BY <2>1 DEF Cleaning
<1> QED BY <1>1, <1>2 DEF Erasure

LEMMA ErasureReports == Erasure => ErasedOrReported
<1> SUFFICES ASSUME Erasure, NEW p \in Procs, cmd[p].pc = "done", cmd[p].committed, ~ cmd[p].detached,
                    cmd[p].kind \in Deletions, NEW place \in cmd[p].stale, Remains(place)
             PROVE  IsReported(p, place)
  BY DEF ErasedOrReported
<1>1. /\ \A x \in cmd[p].stale \ Unerased(p) : Covers(cmd[p].reported, x)
      /\ Pages(p) \subseteq cmd[p].reported
  BY DEF Erasure, Cleaning
<1>2. CASE place \notin Unerased(p)
  BY <1>1, <1>2 DEF Covers, IsReported
<1>3. CASE place \in Unerased(p)
  <2>1. place[1] \in {"wal", "database"}
    BY <1>3 DEF Unerased
  <2>2. place \notin sets /\ place \notin BackupPlaces
    BY <2>1 DEF Erasure, Placed, BackupPlaces
  <2>3. place \in unclean
    BY <2>2 DEF Remains
  <2> QED BY <1>1, <1>3, <2>3 DEF Pages, IsReported
<1> QED BY <1>2, <1>3

(* ErasedOrReported: however deletions, captures, migrations and failures  *)
(* interleave, when a committed deletion has been reported every place     *)
(* that still holds what it erased is among the paths of its envelope      *)
(* (Journal.unresolved, purge_managed_backups, checkpoint_residuals).      *)
THEOREM ErasedOrReportedHolds == Spec => []ErasedOrReported
<1>1. WorkspaceInit => Shaped /\ Held /\ Erasure
  BY InitShaped, InitHeld, InitErasure
<1>2. Shaped /\ Held /\ Erasure /\ [Next]_workspaceVars => (Shaped /\ Held /\ Erasure)'
  BY Shapely, ErasureKept
<1> QED BY <1>1, <1>2, ErasureReports, PTL DEF Spec

(***************************************************************************)
(* The creator of a workspace                                              *)
(***************************************************************************)

InitSteps == {"start", "out", "make out", "restrict out", "marker", "fill", "schema", "inspect",
              "undo marker", "undo out", "done", "dead"}

(* The one command the marker is the work of: the others leave it alone.   *)
Owns(p) ==
  \/ cmd[p].pc \in {"fill", "schema", "inspect"}
  \/ cmd[p].pc = "undo marker" /\ "marker" \in cmd[p].made
  \/ cmd[p].pc = "done" /\ cmd[p].code = "created"

Beginning(p) ==
  /\ cmd[p].kind = "init" /\ cmd[p].pc \in InitSteps
  /\ cmd[p].pc \in {"start", "out", "make out", "restrict out", "marker"} => "marker" \notin cmd[p].made
  /\ cmd[p].code = "created" => cmd[p].pc = "done" /\ Marker \subseteq entries /\ Stored(db) = Current
  /\ Owns(p) => "marker" \in entries

Creation ==
  \/ /\ \A p \in Procs : Beginning(p)
     /\ \A p, q \in Procs : Owns(p) /\ Owns(q) => p = q
  \/ \A p \in Procs : cmd[p].kind # "init" /\ cmd[p].code # "created"

LEMMA CreationStays == Creation => CreatedStays
BY DEF Creation, CreatedStays, Beginning, Owns

LEMMA InitCreation == InitsApart /\ WorkspaceInit => Creation
<1> SUFFICES ASSUME InitsApart, WorkspaceInit PROVE Creation
  OBVIOUS
<1>1. PICK s \in Scenarios :
        \A p \in Procs : cmd[p].pc = "start" /\ cmd[p].code = "" /\ cmd[p].made = {} /\ cmd[p].kind = s.kinds[p]
  BY ZenonT(40), Fresh DEF IsFresh
<1>2. \A p \in Procs : ~ Owns(p)
  BY <1>1 DEF Owns
<1>3. (\E p \in Procs : s.kinds[p] = "init") => \A p \in Procs : s.kinds[p] = "init"
  BY DEF InitsApart
<1> QED BY <1>1, <1>2, <1>3 DEF Creation, Beginning, InitSteps

(* What one step of an init leaves: the others' marker stays as it is.     *)
Begins(p) ==
  /\ cmd'[p].kind = "init" /\ cmd'[p].pc \in InitSteps
  /\ cmd'[p].pc \in {"start", "out", "make out", "restrict out", "marker"} => "marker" \notin cmd'[p].made
  /\ cmd'[p].code = "created" =>
       cmd'[p].pc = "done" /\ Marker \subseteq entries' /\ Stored(db)' = Current
  /\ Owns(p)' => "marker" \in entries' /\ (Owns(p) \/ "marker" \notin entries)
  /\ Owns(p) \/ (entries \intersect Marker \subseteq entries' /\ db' = db)

LEMMA InitBegins ==
  ASSUME Shaped, NEW p \in Procs, Beginning(p), InitStep(p)
  PROVE  Begins(p)
<1>0. DOMAIN cmd[p] = Fields
  BY DEF Shaped
<1>t. ASSUME NEW c, DOMAIN c = Fields, Turn(p, c)
      PROVE  cmd'[p] = c
  BY <1>t, TurnDoes
<1>r. ASSUME NEW code, Refuses(p, code)
      PROVE  /\ cmd'[p].pc = "done" /\ cmd'[p].kind = cmd[p].kind
             /\ cmd'[p].code \in {code, "cancelled"}
  <2>1. Ends(p, cmd[p], code, {}, {})
    BY <1>r DEF Refuses
  <2>2. /\ cmd'[p].pc = "done" /\ cmd'[p].kind = cmd[p].kind
        /\ cmd'[p].code = (IF cmd[p].pending THEN "cancelled" ELSE code)
    BY <1>0, <2>1, EndsDoes DEF Fields
  <2> QED BY <2>2
(* An ending that reports nothing created.                                 *)
<1>e. ASSUME NEW code, Refuses(p, code), code # "created", db' = db,
             entries \intersect Marker \subseteq entries'
      PROVE  Begins(p)
  <2>1. cmd'[p].pc = "done" /\ cmd'[p].kind = cmd[p].kind /\ cmd'[p].code # "created"
    BY <1>e, <1>r
  <2> QED BY <1>e, <2>1 DEF Begins, Beginning, Owns, InitSteps
<1>g. ASSUME NEW pc, Go(p, pc)
      PROVE  /\ cmd'[p].pc = pc /\ cmd'[p].kind = cmd[p].kind /\ cmd'[p].made = cmd[p].made
             /\ cmd'[p].code = cmd[p].code
  <2> DEFINE c == [cmd[p] EXCEPT !.pc = pc]
  <2>1. Turn(p, c)
    BY <1>g DEF Go
  <2>2. DOMAIN c = Fields /\ c.pc = pc /\ c.kind = cmd[p].kind /\ c.made = cmd[p].made /\ c.code = cmd[p].code
    BY <1>0 DEF Fields
  <2> HIDE DEF c
  <2> QED BY <1>t, <2>1, <2>2
<1>1. CASE InitSees(p)
  <2>1. CASE Refuses(p, IF Compatible THEN "opened" ELSE "schema_incompatible")
    <3> DEFINE code == IF Compatible THEN "opened" ELSE "schema_incompatible"
    <3>1. Refuses(p, code) /\ code # "created" /\ db' = db /\ entries' = entries
      BY <1>1, <2>1 DEF InitSees, disk
    <3> HIDE DEF code
    <3> QED BY <1>e, <3>1
  <2>2. CASE Go(p, "out")
    <3>1. /\ cmd'[p].pc = "out" /\ cmd'[p].kind = cmd[p].kind /\ cmd'[p].made = cmd[p].made /\ cmd'[p].code = cmd[p].code
      BY <1>g, <2>2
    <3>2. cmd[p].pc = "start" /\ db' = db /\ entries' = entries
      BY <1>1 DEF InitSees, disk, At
    <3> QED BY <3>1, <3>2 DEF Begins, Beginning, Owns, InitSteps
  <2> QED BY <1>1, <2>1, <2>2 DEF InitSees
<1>2. CASE InitSeesOut(p)
  <2>1. CASE Refuses(p, "schema_incompatible")
    BY <1>2, <1>e, <2>1 DEF InitSeesOut, disk
  <2>2. CASE Go(p, IF "out" \in entries THEN "restrict out" ELSE "make out")
    <3>1. CASE Go(p, "restrict out")
      <4>1. /\ cmd'[p].pc = "restrict out" /\ cmd'[p].kind = cmd[p].kind /\ cmd'[p].made = cmd[p].made /\ cmd'[p].code = cmd[p].code
        BY <1>g, <3>1
      <4>2. cmd[p].pc = "out" /\ db' = db /\ entries' = entries
        BY <1>2 DEF InitSeesOut, disk, At
      <4> QED BY <4>1, <4>2 DEF Begins, Beginning, Owns, InitSteps
    <3>2. CASE Go(p, "make out")
      <4>1. /\ cmd'[p].pc = "make out" /\ cmd'[p].kind = cmd[p].kind /\ cmd'[p].made = cmd[p].made /\ cmd'[p].code = cmd[p].code
        BY <1>g, <3>2
      <4>2. cmd[p].pc = "out" /\ db' = db /\ entries' = entries
        BY <1>2 DEF InitSeesOut, disk, At
      <4> QED BY <4>1, <4>2 DEF Begins, Beginning, Owns, InitSteps
    <3> QED BY <2>2, <3>1, <3>2
  <2> QED BY <1>2, <2>1, <2>2 DEF InitSeesOut
<1>3. CASE InitMakesOut(p)
  <2>1. CASE Refuses(p, "internal_error")
    BY <1>3, <1>e, <2>1 DEF InitMakesOut
  <2>2. CASE Turn(p, [cmd[p] EXCEPT !.pc = "restrict out", !.made = {"out"}])
    <3> DEFINE c == [cmd[p] EXCEPT !.pc = "restrict out", !.made = {"out"}]
    <3>1. DOMAIN c = Fields /\ c.pc = "restrict out" /\ c.kind = cmd[p].kind /\ c.made = {"out"} /\ c.code = cmd[p].code
      BY <1>0 DEF Fields
    <3>2. cmd'[p] = c
      BY <1>t, <2>2, <3>1
    <3> HIDE DEF c
    <3>3. db' = db /\ entries \subseteq entries' /\ cmd[p].pc = "make out"
      BY <1>3 DEF InitMakesOut, At
    <3> QED BY <3>1, <3>2, <3>3 DEF Begins, Beginning, Owns, InitSteps
  <2> QED BY <1>3, <2>1, <2>2 DEF InitMakesOut
<1>4. CASE InitRestrictsOut(p)
  <2>1. /\ cmd'[p].pc = "marker" /\ cmd'[p].kind = cmd[p].kind /\ cmd'[p].made = cmd[p].made /\ cmd'[p].code = cmd[p].code
    BY <1>g, <1>4 DEF InitRestrictsOut
  <2>2. cmd[p].pc = "restrict out" /\ db' = db /\ entries' = entries
    BY <1>4 DEF InitRestrictsOut, disk, At
  <2> QED BY <2>1, <2>2 DEF Begins, Beginning, Owns, InitSteps
<1>5. CASE InitMakesMarker(p)
  <2>1. CASE "marker" \in entries /\ Turn(p, [cmd[p] EXCEPT !.pc = "undo marker", !.code = "schema_incompatible"])
    <3> DEFINE c == [cmd[p] EXCEPT !.pc = "undo marker", !.code = "schema_incompatible"]
    <3>1. DOMAIN c = Fields /\ c.pc = "undo marker" /\ c.kind = cmd[p].kind /\ c.made = cmd[p].made
          /\ c.code = "schema_incompatible"
      BY <1>0 DEF Fields
    <3>2. cmd'[p] = c
      BY <1>t, <2>1, <3>1
    <3> HIDE DEF c
    <3>3. db' = db /\ entries' = entries /\ cmd[p].pc = "marker"
      BY <1>5, <2>1 DEF InitMakesMarker, At
    <3> QED BY <3>1, <3>2, <3>3 DEF Begins, Beginning, Owns, InitSteps
  <2>2. CASE "marker" \notin entries
    <3> DEFINE c == [cmd[p] EXCEPT !.pc = "fill", !.made = @ \union {"marker"}]
    <3>1. DOMAIN c = Fields /\ c.pc = "fill" /\ c.kind = cmd[p].kind /\ c.code = cmd[p].code
      BY <1>0 DEF Fields
    <3>2. cmd'[p] = c
      BY <1>5, <1>t, <2>2, <3>1 DEF InitMakesMarker
    <3> HIDE DEF c
    <3>3. db' = db /\ entries' = entries \union {"marker"} /\ cmd[p].pc = "marker"
      BY <1>5, <2>2 DEF InitMakesMarker, At
    <3> QED BY <2>2, <3>1, <3>2, <3>3 DEF Begins, Beginning, Owns, InitSteps
  <2> QED BY <1>5, <2>1, <2>2 DEF InitMakesMarker
<1>6. CASE InitFills(p)
  <2>1. /\ cmd'[p].pc = "schema" /\ cmd'[p].kind = cmd[p].kind /\ cmd'[p].made = cmd[p].made /\ cmd'[p].code = cmd[p].code
    BY <1>g, <1>6 DEF InitFills
  <2>2. cmd[p].pc = "fill" /\ entries' = entries \union Marker
    BY <1>6 DEF InitFills, At
  <2> QED BY <2>1, <2>2 DEF Begins, Beginning, Owns, InitSteps
<1>7. CASE InitCreatesSchema(p)
  <2>1. /\ cmd'[p].pc = "inspect" /\ cmd'[p].kind = cmd[p].kind /\ cmd'[p].made = cmd[p].made /\ cmd'[p].code = cmd[p].code
    BY <1>g, <1>7 DEF InitCreatesSchema
  <2>2. cmd[p].pc = "schema" /\ entries' = entries
    BY <1>7 DEF InitCreatesSchema, At
  <2> QED BY <2>1, <2>2 DEF Begins, Beginning, Owns, InitSteps
<1>8. CASE InitInspects(p)
  <2>1. CASE Compatible /\ Refuses(p, "created")
    <3>1. cmd'[p].pc = "done" /\ cmd'[p].kind = cmd[p].kind
      BY <1>r, <2>1
    <3>2. db' = db /\ entries' = entries /\ cmd[p].pc = "inspect"
      BY <1>8 DEF InitInspects, At, disk
    <3>3. Marker \subseteq entries' /\ Stored(db)' = Current /\ Owns(p)
      BY <2>1, <3>2 DEF Compatible, Recognized, Owns
    <3> QED BY <3>1, <3>2, <3>3 DEF Begins, Beginning, InitSteps, Marker
  <2>2. CASE Turn(p, [cmd[p] EXCEPT !.pc = "undo marker", !.code = "internal_error"])
    <3> DEFINE c == [cmd[p] EXCEPT !.pc = "undo marker", !.code = "internal_error"]
    <3>1. DOMAIN c = Fields /\ c.pc = "undo marker" /\ c.kind = cmd[p].kind /\ c.made = cmd[p].made
          /\ c.code = "internal_error"
      BY <1>0 DEF Fields
    <3>2. cmd'[p] = c
      BY <1>t, <2>2, <3>1
    <3> HIDE DEF c
    <3>3. db' = db /\ entries' = entries /\ cmd[p].pc = "inspect"
      BY <1>8, <2>2 DEF InitInspects, At, disk
    <3> QED BY <3>1, <3>2, <3>3 DEF Begins, Beginning, Owns, InitSteps
  <2> QED BY <1>8, <2>1, <2>2 DEF InitInspects
<1>9. CASE InitUndoesMarker(p)
  <2>1. /\ cmd'[p].pc = "undo out" /\ cmd'[p].kind = cmd[p].kind /\ cmd'[p].made = cmd[p].made /\ cmd'[p].code = cmd[p].code
    BY <1>g, <1>9 DEF InitUndoesMarker
  <2>2. cmd[p].pc = "undo marker" /\ ("marker" \in cmd[p].made \/ (db' = db /\ entries' = entries))
    BY <1>9 DEF InitUndoesMarker, At
  <2> QED BY <2>1, <2>2 DEF Begins, Beginning, Owns, InitSteps
<1>10. CASE InitUndoesOut(p)
  <2>1. cmd[p].pc = "undo out" /\ Refuses(p, cmd[p].code) /\ db' = db /\ entries \ {"out"} \subseteq entries'
    BY <1>10 DEF InitUndoesOut, At
  <2>2. cmd[p].code # "created"
    BY <2>1 DEF Beginning
  <2>3. entries \intersect Marker \subseteq entries'
    BY <2>1 DEF Marker
  <2> QED BY <1>e, <2>1, <2>2, <2>3
<1> QED BY <1>1, <1>2, <1>3, <1>4, <1>5, <1>6, <1>7, <1>8, <1>9, <1>10 DEF InitStep

LEMMA StruckBegins ==
  ASSUME Shaped, NEW p \in Procs, Beginning(p),
         Lock(p) \/ Busy(p) \/ Gate(p) \/ Check(p) \/ Dies(p) \/ Struck(p)
  PROVE  Begins(p)
<1>0. DOMAIN cmd[p] = Fields
  BY DEF Shaped
<1>1. ~ Lock(p) /\ ~ Busy(p) /\ ~ Gate(p) /\ ~ Check(p)
  BY DEF Lock, Busy, Gate, Check, Beginning, InitSteps, Writers, Deletions
<1>2. CASE Dies(p)
  <2> DEFINE c == [cmd[p] EXCEPT !.pc = "dead", !.work = EmptyFile]
  <2>1. cmd' = [cmd EXCEPT ![p] = c] /\ db' = db /\ entries' = entries /\ Live(p)
    BY <1>2 DEF Dies, disk
  <2>2. c.pc = "dead" /\ c.kind = cmd[p].kind /\ c.code = cmd[p].code
    BY <1>0 DEF Fields
  <2>3. cmd'[p] = c
    BY <2>1 DEF Shaped
  <2> HIDE DEF c
  <2> QED BY <2>1, <2>2, <2>3 DEF Begins, Beginning, Owns, InitSteps, Live
<1>3. CASE Struck(p)
  <2>1. PICK code \in {"internal_error", "cancelled"} : Live(p) /\ InitStruck(p, code)
    BY <1>3 DEF Struck, MigrateStruck, ImportStruck, Beginning
  <2>2. db' = db /\ entries' = entries
    BY <2>1 DEF InitStruck, disk
  <2>3. CASE /\ cmd[p].pc \in {"marker", "fill", "schema", "inspect"}
             /\ Turn(p, [cmd[p] EXCEPT !.pc = "undo marker", !.code = code])
    <3> DEFINE c == [cmd[p] EXCEPT !.pc = "undo marker", !.code = code]
    <3>1. /\ DOMAIN c = Fields /\ c.pc = "undo marker" /\ c.kind = cmd[p].kind /\ c.made = cmd[p].made
          /\ c.code = code
      BY <1>0 DEF Fields
    <3>2. cmd'[p] = c
      BY <2>3, <3>1, TurnDoes
    <3> HIDE DEF c
    <3>3. "marker" \in cmd[p].made => Owns(p)
      BY <2>3 DEF Beginning, Owns
    <3> QED BY <2>1, <2>2, <2>3, <3>1, <3>2, <3>3 DEF Begins, Beginning, Owns, InitSteps
  <2>4. CASE Refuses(p, code)
    <3>1. Ends(p, cmd[p], code, {}, {})
      BY <2>4 DEF Refuses
    <3>2. /\ cmd'[p].pc = "done" /\ cmd'[p].kind = cmd[p].kind
          /\ cmd'[p].code = (IF cmd[p].pending THEN "cancelled" ELSE code)
      BY <1>0, <3>1, EndsDoes DEF Fields
    <3>3. cmd'[p].code # "created"
      BY <2>1, <3>2
    <3> QED BY <2>2, <3>2, <3>3 DEF Begins, Beginning, Owns, InitSteps
  <2> QED BY <2>1, <2>3, <2>4 DEF InitStruck
<1> QED BY <1>1, <1>2, <1>3

LEMMA BeginsStep ==
  ASSUME Shaped, NEW p \in Procs, Beginning(p), Step(p)
  PROVE  Begins(p)
<1>1. cmd[p].kind = "init"
  BY DEF Beginning
<1>2. ~ MigrateStep(p) /\ ~ CaptureStep(p) /\ ~ ImportStep(p)
  BY <1>1 DEF MigrateStep, MigrateSees, MigrateChecks, MigrateBacksUp, MigrateVerifies, MigrateBegins,
         MigrateCleans, MigrateExecutes, MigrateRecords, MigrateCommits, MigrateReleases,
         MigrateReports, CaptureStep, CaptureWrites, CaptureCommits, CaptureReports,
         CaptureCommitFails, CaptureFails, CaptureInterrupted, ImportStep, ImportClassifies,
         ImportCommits, ImportCollides, ImportCloses, ImportReports, ImportCutOff, At
<1>3. ~ DeletionStep(p)
  BY <1>1 DEF DeletionStep, DeletionBegins, RemovesBackup, BackupsRemoved, RemovesSet, SetsRemoved,
         DeletesRows, RowsDeleted, DeletionCommits, Erases, DeletionReports, LogsRebuild,
         LogsRebuilt, DeletionFails, DeletionInterrupted, At, Deletions
<1> QED BY <1>2, <1>3, InitBegins, StruckBegins DEF Step

(* One init's step keeps the workspace of another, and its own.            *)
LEMMA BeginningsKept ==
  ASSUME Shaped, Held, \A r \in Procs : Beginning(r),
         \A r, t \in Procs : Owns(r) /\ Owns(t) => r = t,
         NEW p \in Procs, Step(p)
  PROVE  /\ \A r \in Procs : Beginning(r)'
         /\ \A r, t \in Procs : Owns(r)' /\ Owns(t)' => r = t
<1>1. Begins(p)
  BY BeginsStep
<1>2. \A q \in Procs \ {p} : cmd'[q] = cmd[q]
  BY StepFrames DEF Frame
<1>3. \A q \in Procs \ {p} : Owns(q)' = Owns(q)
  BY <1>2 DEF Owns
<1>4. ASSUME NEW q \in Procs PROVE Beginning(q)'
  <2>1. CASE q = p
    BY <1>1, <2>1 DEF Begins, Beginning
  <2>2. CASE q # p
    <3>1. Owns(q) => ~ Owns(p)
      BY <2>2
    <3>2. Owns(q) => entries \intersect Marker \subseteq entries' /\ db' = db
      BY <1>1, <3>1 DEF Begins
    <3>3. Owns(q)' => "marker" \in entries'
      BY <1>3, <2>2, <3>2 DEF Beginning, Marker
    <3>4. cmd[q].code = "created" => Owns(q)
      BY DEF Beginning, Owns
    <3>5. cmd[q].code = "created" => Marker \subseteq entries' /\ Stored(db)' = Current
      BY <3>2, <3>4 DEF Beginning
    <3> QED BY <1>2, <2>2, <3>3, <3>5 DEF Beginning
  <2> QED BY <2>1, <2>2
<1>5. ASSUME NEW q \in Procs, NEW t \in Procs, Owns(q)', Owns(t)', q # t PROVE FALSE
  <2>1. \A r \in Procs \ {p} : ~ (Owns(p)' /\ Owns(r)')
    <3> SUFFICES ASSUME NEW r \in Procs \ {p}, Owns(p)', Owns(r)' PROVE FALSE
      OBVIOUS
    <3>1. Owns(r) /\ "marker" \in entries
      BY <1>3 DEF Beginning
    <3>2. Owns(p)
      BY <1>1, <3>1 DEF Begins
    <3> QED BY <3>1, <3>2
  <2> QED BY <1>3, <1>5, <2>1
<1> QED BY <1>4, <1>5


(* No other command reports a workspace created.                           *)
Uncreated(p) == cmd[p].code # "created"

LEMMA TurnUncreated ==
  ASSUME Shaped, NEW p \in Procs, NEW c, DOMAIN c = Fields, Turn(p, c), c.code # "created"
  PROVE  Uncreated(p)'
BY TurnDoes DEF Uncreated

LEMMA EndsUncreated ==
  ASSUME Shaped, NEW p \in Procs, NEW c, DOMAIN c = Fields,
         NEW code, code # "created", NEW named, NEW reported, Ends(p, c, code, named, reported)
  PROVE  Uncreated(p)'
<1>1. cmd'[p].code = (IF c.pending THEN "cancelled" ELSE code)
  BY EndsDoes
<1> QED BY <1>1 DEF Uncreated

LEMMA MigrateUncreated ==
  ASSUME Shaped, NEW p \in Procs, Uncreated(p), MigrateStep(p)
  PROVE  Uncreated(p)'
<1>0. DOMAIN cmd[p] = Fields /\ cmd[p].code # "created"
  BY DEF Shaped, Uncreated
<1>e. ASSUME NEW code, code # "created", NEW named, NEW reported, Ends(p, cmd[p], code, named, reported)
      PROVE  Uncreated(p)'
  BY <1>0, <1>e, EndsUncreated
<1>t. ASSUME NEW c, DOMAIN c = Fields, Turn(p, c), c.code = cmd[p].code
      PROVE  Uncreated(p)'
  BY <1>0, <1>t, TurnUncreated
<1>g. ASSUME NEW pc, Go(p, pc)
      PROVE  Uncreated(p)'
  BY <1>0, <1>g, <1>t DEF Go, Fields
<1>1. CASE MigrateSees(p)
  <2>1. CASE Refuses(p, IF Compatible THEN "up to date" ELSE "schema_incompatible")
    <3> DEFINE code == IF Compatible THEN "up to date" ELSE "schema_incompatible"
    <3>1. Ends(p, cmd[p], code, {}, {}) /\ code # "created"
      BY <2>1 DEF Refuses
    <3> HIDE DEF code
    <3> QED BY <1>e, <3>1
  <2>2. CASE Turn(p, [cmd[p] EXCEPT !.pc = "lock", !.seen = Stored(db)])
    BY <1>0, <1>t, <2>2 DEF Fields
  <2> QED BY <1>1, <2>1, <2>2 DEF MigrateSees
<1>2. CASE MigrateChecks(p)
  BY <1>0, <1>2, <1>g, <1>e DEF MigrateChecks, Refuses
<1>3. CASE MigrateBacksUp(p)
  BY <1>3, <1>g DEF MigrateBacksUp
<1>4. CASE MigrateVerifies(p)
  BY <1>0, <1>4, <1>t DEF MigrateVerifies, Fields
<1>5. CASE MigrateBegins(p)
  BY <1>0, <1>5, <1>t DEF MigrateBegins, Fields
<1>6. CASE MigrateCleans(p)
  BY <1>0, <1>6, <1>t, <1>g DEF MigrateCleans, Fields
<1>7. CASE MigrateExecutes(p)
  <2> DEFINE next == Execute(cmd[p].work, Statements(cmd[p].work, Stored(cmd[p].work))[cmd[p].at],
                             ForeignKeys(p), FALSE)
  <2>1. \/ Turn(p, [cmd[p] EXCEPT !.work = next, !.at = @ + 1])
        \/ Ends(p, cmd[p], "migration_failed", {}, cmd[p].residuals)
    BY <1>7 DEF MigrateExecutes
  <2> HIDE DEF next
  <2> QED BY <1>0, <1>t, <1>e, <2>1 DEF Fields
<1>8. CASE MigrateRecords(p)
  BY <1>0, <1>8, <1>t DEF MigrateRecords, Fields
<1>9. CASE MigrateCommits(p)
  BY <1>0, <1>9, <1>t, <1>e DEF MigrateCommits, Fields
<1>10. CASE MigrateReleases(p)
  BY <1>10, <1>g DEF MigrateReleases
<1>11. CASE MigrateReports(p)
  <2> DEFINE code == IF Compatible THEN "migrated" ELSE "migration_failed"
  <2>1. Ends(p, cmd[p], code, {}, cmd[p].residuals) /\ code # "created"
    BY <1>11 DEF MigrateReports
  <2> HIDE DEF code
  <2> QED BY <1>e, <2>1
<1> QED BY <1>1, <1>2, <1>3, <1>4, <1>5, <1>6, <1>7, <1>8, <1>9, <1>10, <1>11 DEF MigrateStep

LEMMA GenericUncreated ==
  ASSUME Shaped, NEW p \in Procs, Uncreated(p), cmd[p].kind # "init",
         Lock(p) \/ Busy(p) \/ Gate(p) \/ Check(p) \/ Dies(p) \/ Struck(p)
  PROVE  Uncreated(p)'
<1>0. DOMAIN cmd[p] = Fields /\ cmd[p].code # "created"
  BY DEF Shaped, Uncreated
<1>e. ASSUME NEW code, code # "created", NEW named, NEW reported, NEW c, DOMAIN c = Fields,
             Ends(p, c, code, named, reported)
      PROVE  Uncreated(p)'
  BY <1>e, EndsUncreated
<1>r. ASSUME NEW code, code # "created", Refuses(p, code)
      PROVE  Uncreated(p)'
  BY <1>0, <1>e, <1>r DEF Refuses
<1>t. ASSUME NEW c, DOMAIN c = Fields, Turn(p, c), c.code = cmd[p].code
      PROVE  Uncreated(p)'
  BY <1>0, <1>t, TurnUncreated
<1>1. CASE Lock(p)
  BY <1>0, <1>1, <1>t DEF Lock, Go, Fields
<1>2. CASE Busy(p)
  BY <1>2, <1>r DEF Busy
<1>3. CASE Gate(p)
  <2>1. ASSUME NEW k \in Keys,
               Turn(p, [cmd[p] EXCEPT !.pc = "lock",
                              !.target = IF cmd[p].kind \in {"import", "purge"} THEN {} ELSE {k}])
        PROVE  Uncreated(p)'
    <3> DEFINE t == IF cmd[p].kind \in {"import", "purge"} THEN {} ELSE {k}
               c == [cmd[p] EXCEPT !.pc = "lock", !.target = t]
    <3>1. DOMAIN c = Fields /\ c.code = cmd[p].code
      <4> HIDE DEF t
      <4> QED BY <1>0 DEF Fields
    <3> QED BY <1>t, <2>1, <3>1
  <2> QED BY <1>3, <1>r, <2>1 DEF Gate
<1>4. CASE Check(p)
  <2>1. ASSUME NEW retained, Turn(p, [cmd[p] EXCEPT !.pc = "begin", !.retained = retained])
        PROVE  Uncreated(p)'
    BY <1>0, <1>t, <2>1 DEF Fields
  <2> QED BY <1>4, <1>r, <2>1 DEF Check
<1>5. CASE Dies(p)
  <2> DEFINE c == [cmd[p] EXCEPT !.pc = "dead", !.work = EmptyFile]
  <2>1. cmd' = [cmd EXCEPT ![p] = c]
    BY <1>5 DEF Dies
  <2>2. c.code = cmd[p].code
    BY <1>0 DEF Fields
  <2> HIDE DEF c
  <2> QED BY <1>0, <2>1, <2>2 DEF Shaped, Uncreated
<1>6. CASE Struck(p)
  <2>1. PICK code \in {"internal_error", "cancelled"} : MigrateStruck(p, code) \/ ImportStruck(p, code)
    BY <1>6 DEF Struck, InitStruck
  <2>2. CASE MigrateStruck(p, code)
    <3> DEFINE said == IF code = "internal_error" /\ cmd[p].pc \notin {"start", "lock", "after"}
                       THEN "migration_failed" ELSE code
    <3>1. Ends(p, cmd[p], said, {}, cmd[p].residuals) /\ said # "created"
      BY <2>1, <2>2 DEF MigrateStruck
    <3> HIDE DEF said
    <3> QED BY <1>0, <1>e, <3>1
  <2>3. CASE ImportStruck(p, code)
    <3>1. PICK ended \in BOOLEAN :
            LET writing == cmd[p].pc = "commit"
                c == IF writing /\ ~ ended THEN WithoutCandidate(cmd[p])
                     ELSE IF writing THEN [cmd[p] EXCEPT !.durable = @ \union {Head(cmd[p].todo)}]
                     ELSE cmd[p]
            IN Ends(p, c, code, {c.accepted[i] : i \in 1 .. Len(c.accepted)}, {})
      BY <2>3 DEF ImportStruck
    <3> DEFINE c == IF cmd[p].pc = "commit" /\ ~ ended THEN WithoutCandidate(cmd[p])
                    ELSE IF cmd[p].pc = "commit"
                    THEN [cmd[p] EXCEPT !.durable = @ \union {Head(cmd[p].todo)}]
                    ELSE cmd[p]
               n == {c.accepted[i] : i \in 1 .. Len(c.accepted)}
    <3>2. DOMAIN c = Fields
      BY <1>0 DEF WithoutCandidate, Fields
    <3>3. Ends(p, c, code, n, {}) /\ code # "created"
      BY <2>1, <3>1
    <3> HIDE DEF c, n
    <3> QED BY <1>e, <3>2, <3>3
  <2> QED BY <2>1, <2>2, <2>3
<1> QED BY <1>1, <1>2, <1>3, <1>4, <1>5, <1>6


LEMMA WriterUncreated ==
  ASSUME Shaped, NEW p \in Procs, Uncreated(p), CaptureStep(p) \/ ImportStep(p)
  PROVE  Uncreated(p)'
<1>0. DOMAIN cmd[p] = Fields /\ cmd[p].code # "created"
  BY DEF Shaped, Uncreated
<1>e. ASSUME NEW c, DOMAIN c = Fields, NEW code, code # "created", NEW named, NEW reported,
             Ends(p, c, code, named, reported)
      PROVE  Uncreated(p)'
  BY <1>e, EndsUncreated
<1>t. ASSUME NEW c, DOMAIN c = Fields, Turn(p, c), c.code = cmd[p].code
      PROVE  Uncreated(p)'
  BY <1>0, <1>t, TurnUncreated
<1>1. CASE CaptureWrites(p)
  <2>1. PICK k \in cmd[p].target :
          Turn(p, [cmd[p] EXCEPT !.pc = "commit", !.work = WithLog(db, k), !.deferred = TRUE])
    BY <1>1 DEF CaptureWrites
  <2> DEFINE work == WithLog(db, k)
             c == [cmd[p] EXCEPT !.pc = "commit", !.work = work, !.deferred = TRUE]
  <2>2. Turn(p, c)
    BY <2>1
  <2> HIDE DEF work
  <2> QED BY <1>0, <1>t, <2>2 DEF Fields
<1>2. CASE CaptureCommits(p)
  BY <1>0, <1>2, <1>t DEF CaptureCommits, Fields
<1>3. CASE CaptureReports(p)
  BY <1>0, <1>3, <1>e DEF CaptureReports
<1>4. CASE CaptureCommitFails(p)
  <2>1. PICK durable \in BOOLEAN, known \in BOOLEAN :
         Ends(p, [cmd[p] EXCEPT !.durable = IF durable THEN cmd[p].target ELSE {},
                                 !.detached = ~ known],
               "internal_error", IF durable /\ known THEN cmd[p].target ELSE {}, {})
    BY <1>4 DEF CaptureCommitFails
  <2> DEFINE d == IF durable THEN cmd[p].target ELSE {}
             u == ~ known
             n == IF durable /\ known THEN cmd[p].target ELSE {}
             c == [cmd[p] EXCEPT !.durable = d, !.detached = u]
  <2>2. DOMAIN c = Fields
    <3> HIDE DEF d, u
    <3> QED BY <1>0 DEF Fields
  <2>3. Ends(p, c, "internal_error", n, {})
    BY <2>1
  <2> HIDE DEF c, n
  <2> QED BY <1>e, <2>2, <2>3
<1>5. CASE CaptureFails(p)
  BY <1>0, <1>5, <1>e DEF CaptureFails
<1>6. CASE CaptureInterrupted(p)
  BY <1>0, <1>6, <1>e, <1>t DEF CaptureInterrupted, Refuses, Fields
<1>7. CASE ImportClassifies(p)
  <2> DEFINE todo == Tail(cmd[p].todo)
             k == Head(cmd[p].todo)
             accepted == Append(cmd[p].accepted, k)
             work == WithLog(db, k)
             skipped == [cmd[p] EXCEPT !.todo = todo, !.attempts = 0]
             writes == [cmd[p] EXCEPT !.pc = "commit", !.work = work, !.accepted = accepted]
  <2>1. Turn(p, skipped) \/ Turn(p, writes)
    BY <1>7 DEF ImportClassifies
  <2> HIDE DEF todo, accepted, work
  <2> QED BY <1>0, <1>t, <2>1 DEF Fields
<1>8. CASE ImportCommits(p)
  <2> DEFINE k == Head(cmd[p].todo)
             c == [cmd[p] EXCEPT !.pc = "begin", !.todo = Tail(@), !.attempts = 0,
                   !.retained = @ \union {k}, !.durable = @ \union {k}]
  <2>1. Turn(p, c)
    BY <1>8 DEF ImportCommits
  <2>2. DOMAIN c = Fields /\ c.code = cmd[p].code
    BY <1>0 DEF Fields
  <2> QED BY <1>t, <2>1, <2>2
<1>9. CASE ImportCollides(p)
  <2> DEFINE c == [WithoutCandidate(cmd[p]) EXCEPT !.pc = "begin", !.attempts = @ + 1]
             named == {c.accepted[i] : i \in 1 .. Len(c.accepted)}
  <2>1. Turn(p, c) \/ Ends(p, c, "internal_error", named, {})
    BY <1>9 DEF ImportCollides
  <2>2. DOMAIN c = Fields /\ c.code = cmd[p].code
    BY <1>0 DEF Fields, WithoutCandidate
  <2> HIDE DEF c, named
  <2> QED BY <1>t, <1>e, <2>1, <2>2
<1>10. CASE ImportCloses(p)
  BY <1>0, <1>10, <1>t DEF ImportCloses, Go, Fields
<1>11. CASE ImportReports(p)
  BY <1>0, <1>11, <1>e DEF ImportReports
<1>12. CASE ImportCutOff(p)
  BY <1>0, <1>12, <1>e DEF ImportCutOff, Fields
<1> QED BY <1>1, <1>2, <1>3, <1>4, <1>5, <1>6, <1>7, <1>8, <1>9, <1>10, <1>11, <1>12
        DEF CaptureStep, ImportStep

LEMMA DeletionUncreated ==
  ASSUME Shaped, NEW p \in Procs, Uncreated(p), DeletionStep(p)
  PROVE  Uncreated(p)'
<1>0. DOMAIN cmd[p] = Fields /\ cmd[p].code # "created"
  BY DEF Shaped, Uncreated
<1>e. ASSUME NEW c, DOMAIN c = Fields, NEW code, code # "created", NEW named, NEW reported,
             Ends(p, c, code, named, reported)
      PROVE  Uncreated(p)'
  BY <1>e, EndsUncreated
<1>t. ASSUME NEW c, DOMAIN c = Fields, Turn(p, c), c.code = cmd[p].code
      PROVE  Uncreated(p)'
  BY <1>0, <1>t, TurnUncreated
<1>r. ASSUME NEW code, code # "created", Refuses(p, code)
      PROVE  Uncreated(p)'
  BY <1>0, <1>e, <1>r DEF Refuses
<1>d. DOMAIN Committed(p) = Fields /\ Committed(p).code = cmd[p].code
  <2> DEFINE a == Deleted(cmd[p])
             b == BackupPlaces \union Managed(cmd[p]) \union Unerased(p)
  <2>1. Committed(p) = [cmd[p] EXCEPT !.committed = TRUE, !.durable = a, !.work = EmptyFile, !.stale = b]
    BY DEF Committed
  <2> HIDE DEF a, b
  <2> QED BY <1>0, <2>1 DEF Fields
<1>1. CASE DeletionBegins(p)
  BY <1>0, <1>1, <1>t, <1>r DEF DeletionBegins, Fields
<1>2. CASE RemovesBackup(p)
  <2>1. PICK b \in backups :
          \/ Turn(p, [cmd[p] EXCEPT !.unlinks = @ \union {<<"backup", b.of>>}])
          \/ Turn(p, [cmd[p] EXCEPT !.refused = @ \union {<<"backup", b.of>>}])
    BY <1>2 DEF RemovesBackup
  <2> QED BY <1>0, <1>t, <2>1 DEF Fields
<1>3. CASE BackupsRemoved(p)
  <2> DEFINE r == {ManagedRoot(cmd[p])}
             x == cmd[p].residuals \union BackupPlaces
             y == cmd[p].residuals \union {AllBackups}
             c1 == [cmd[p] EXCEPT !.pc = "sets", !.residuals = x, !.refused = {}, !.unproven = r]
             c2 == [cmd[p] EXCEPT !.pc = "sets", !.residuals = y, !.unlinks = {}, !.refused = {},
                                  !.unproven = r]
  <2>1. Turn(p, c1) \/ Turn(p, c2)
    BY <1>3 DEF BackupsRemoved
  <2> HIDE DEF r, x, y
  <2> QED BY <1>0, <1>t, <2>1 DEF Fields
<1>4. CASE RemovesSet(p)
  <2>1. PICK s \in Managed(cmd[p]) \ cmd[p].refused :
       \/ Turn(p, [cmd[p] EXCEPT !.unlinks =
                         IF cmd[p].kind = "jd delete" THEN @ \union {s} ELSE @])
       \/ Turn(p, [cmd[p] EXCEPT !.refused = @ \union {s}])
    BY <1>4 DEF RemovesSet
  <2> DEFINE x == IF cmd[p].kind = "jd delete" THEN cmd[p].unlinks \union {s} ELSE cmd[p].unlinks
             c1 == [cmd[p] EXCEPT !.unlinks = x]
             c2 == [cmd[p] EXCEPT !.refused = @ \union {s}]
  <2>2. Turn(p, c1) \/ Turn(p, c2)
    BY <2>1
  <2> HIDE DEF x
  <2> QED BY <1>0, <1>t, <2>2 DEF Fields
<1>5. CASE SetsRemoved(p)
  <2> DEFINE x == cmd[p].residuals \union Managed(cmd[p])
             y == cmd[p].residuals \union Stranded(cmd[p])
             c1 == [cmd[p] EXCEPT !.pc = "rows", !.residuals = x, !.refused = {}, !.unproven = {}]
             c2 == [cmd[p] EXCEPT !.pc = "rows", !.residuals = y, !.refused = {}, !.unproven = {}]
  <2>1. Turn(p, c1) \/ Turn(p, c2)
    BY <1>5 DEF SetsRemoved
  <2> HIDE DEF x, y
  <2> QED BY <1>0, <1>t, <2>1 DEF Fields
<1>6. CASE DeletesRows(p)
  <2> DEFINE next == Execute(cmd[p].work, DeletionStatements(cmd[p])[cmd[p].at], TRUE, TRUE)
             c == [cmd[p] EXCEPT !.work = next, !.at = @ + 1]
  <2>1. Turn(p, c) \/ Refuses(p, "internal_error")
    BY <1>6 DEF DeletesRows
  <2> HIDE DEF next
  <2> QED BY <1>0, <1>t, <1>r, <2>1 DEF Fields
<1>7. CASE RowsDeleted(p)
  <2> DEFINE v == IF cmd[p].kind = "purge" THEN {Current} ELSE cmd[p].work.versions
             u == Unerased(p)
             c == [cmd[p] EXCEPT !.pc = "commit", !.unproven = u, !.work.versions = v]
  <2>1. Turn(p, c)
    BY <1>7 DEF RowsDeleted
  <2> HIDE DEF v, u
  <2> QED BY <1>0, <1>t, <2>1 DEF Fields
<1>8. CASE DeletionCommits(p)
  BY <1>8, <1>d, <1>t DEF DeletionCommits, Fields
<1>9. CASE Erases(p)
  <2>1. PICK said \in SUBSET Unerased(p) :
       Turn(p, [cmd[p] EXCEPT
                     !.pc = IF cmd[p].kind = "logs delete" THEN "hand over" ELSE "close",
                     !.residuals = @ \union said, !.unproven = {}])
    BY <1>9 DEF Erases
  <2> DEFINE pc == IF cmd[p].kind = "logs delete" THEN "hand over" ELSE "close"
             c == [cmd[p] EXCEPT !.pc = pc, !.residuals = @ \union said, !.unproven = {}]
  <2>2. Turn(p, c)
    BY <2>1
  <2> HIDE DEF pc
  <2> QED BY <1>0, <1>t, <2>2 DEF Fields
<1>10. CASE DeletionReports(p)
  <2> DEFINE code == IF cmd[p].residuals = {} THEN "success" ELSE "deletion_incomplete"
  <2>1. Ends(p, cmd[p], code, cmd[p].durable, cmd[p].residuals) /\ code # "created"
    BY <1>10 DEF DeletionReports
  <2> HIDE DEF code
  <2> QED BY <1>0, <1>e, <2>1
<1>11. CASE LogsRebuild(p)
  BY <1>0, <1>11, <1>t DEF LogsRebuild, Go, Fields
<1>12. CASE LogsRebuilt(p)
  BY <1>0, <1>12, <1>t DEF LogsRebuilt, Go, Fields
<1>f. ASSUME NEW c, DOMAIN c = Fields, NEW code, code # "created", Detached(p, c, code)
      PROVE  Uncreated(p)'
  BY <1>e, <1>f DEF Detached, Fields
<1>13. CASE DeletionFails(p)
  <2>1. \/ Refuses(p, "internal_error") \/ Detached(p, Committed(p), "internal_error")
        \/ Detached(p, cmd[p], "internal_error")
        \/ Ends(p, cmd[p], "llm_failed", cmd[p].durable, cmd[p].residuals)
    BY <1>13 DEF DeletionFails
  <2> QED BY <1>0, <1>r, <1>d, <1>f, <1>e, <2>1
<1>14. CASE DeletionInterrupted(p)
  <2>1. CASE LET c == IF cmd[p].pc = "commit" THEN [cmd[p] EXCEPT !.unproven = {}] ELSE cmd[p]
             IN Ends(p, c, "cancelled", {}, CleanupReported(c))
    <3> DEFINE c == IF cmd[p].pc = "commit" THEN [cmd[p] EXCEPT !.unproven = {}] ELSE cmd[p]
               said == CleanupReported(c)
    <3>1. Ends(p, c, "cancelled", {}, said)
      BY <2>1
    <3>2. DOMAIN c = Fields
      BY <1>0 DEF Fields
    <3> HIDE DEF c, said
    <3> QED BY <1>e, <3>1, <3>2
  <2>2. CASE LET c == Committed(p) IN Ends(p, c, "cancelled", c.durable, Unresolved(c))
    BY <1>e, <1>d, <2>2
  <2>3. CASE Ends(p, cmd[p], "cancelled", cmd[p].durable, Unresolved(cmd[p]))
    BY <1>0, <1>e, <2>3
  <2>4. CASE Detached(p, cmd[p], "cancelled")
    BY <1>0, <1>f, <2>4
  <2> QED BY <1>14, <2>1, <2>2, <2>3, <2>4 DEF DeletionInterrupted
<1> QED BY <1>1, <1>2, <1>3, <1>4, <1>5, <1>6, <1>7, <1>8, <1>9, <1>10, <1>11, <1>12, <1>13, <1>14
        DEF DeletionStep

LEMMA CreationKept ==
  ASSUME Shaped, Held, Creation, [Next]_workspaceVars
  PROVE  Creation'
<1>1. ASSUME NEW p \in Procs, Step(p) PROVE Creation'
  <2>1. CASE /\ \A r \in Procs : Beginning(r)
             /\ \A r, t \in Procs : Owns(r) /\ Owns(t) => r = t
    <3>1. /\ \A r \in Procs : Beginning(r)'
          /\ \A r, t \in Procs : Owns(r)' /\ Owns(t)' => r = t
      BY <1>1, <2>1, BeginningsKept
    <3> QED BY <3>1 DEF Creation
  <2>2. CASE \A q \in Procs : cmd[q].kind # "init" /\ cmd[q].code # "created"
    <3>1. /\ \A q \in Procs \ {p} : cmd'[q] = cmd[q]
          /\ cmd'[p].kind = cmd[p].kind
      BY <1>1, StepFrames DEF Frame
    <3>2. ~ InitStep(p)
      BY <2>2 DEF InitStep, InitSees, InitSeesOut, InitMakesOut, InitRestrictsOut, InitMakesMarker,
             InitFills, InitCreatesSchema, InitInspects, InitUndoesMarker, InitUndoesOut, At
    <3>3. Uncreated(p) /\ cmd[p].kind # "init"
      BY <2>2 DEF Uncreated
    <3>4. Uncreated(p)'
      BY <1>1, <3>2, <3>3, MigrateUncreated, GenericUncreated, WriterUncreated, DeletionUncreated DEF Step
    <3>5. \A q \in Procs : cmd'[q].kind # "init" /\ cmd'[q].code # "created"
      BY <2>2, <3>1, <3>4 DEF Uncreated
    <3> QED BY <3>5 DEF Creation
  <2> QED BY <2>1, <2>2 DEF Creation
<1>2. CASE UNCHANGED workspaceVars
  BY <1>2 DEF workspaceVars, Creation, Beginning, Owns
<1> QED BY <1>1, <1>2, NextSteps

(* CreatedStays: whatever any number of inits find, fail at and undo, the  *)
(* marker and database of a workspace one of them reported created stay,   *)
(* and no other reports the same one created (initialize_workspace).       *)
THEOREM CreatedStaysHolds == InitsApart /\ Spec => []CreatedStays
<1>1. InitsApart /\ WorkspaceInit => Shaped /\ Held /\ Creation
  BY InitShaped, InitHeld, InitCreation
<1>2. Shaped /\ Held /\ Creation /\ [Next]_workspaceVars => (Shaped /\ Held /\ Creation)'
  BY Shapely, CreationKept
<1> QED BY <1>1, <1>2, CreationStays, PTL DEF Spec

(***************************************************************************)
(* The databases a workspace holds and its commands work on                *)
(***************************************************************************)

Odd == Def("evidence_items", {"odd"}, 0)

(* The shape is that of the stated version, a foreign column apart.        *)
Shapen(d) == Stored(d) # 0 => d.shape \ Odd = SchemaSQL[Stored(d)]

Stocked(d) == d \in Database /\ d.sound = TRUE /\ Shapen(d)

(* Nothing is taken from d, and its schema stays.                          *)
Grown(d, e) ==
  /\ e.shape = d.shape /\ e.versions = d.versions /\ e.scoped = d.scoped
  /\ \A t \in Tables : d.rows[t] \subseteq e.rows[t]

(* No registered version has a foreign column.                             *)
Proper(shape) == \A entry \in shape : entry[2] # "odd"

LEMMA DefProper ==
  ASSUME NEW table, NEW parts, parts \subseteq Indexed, NEW text
  PROVE  Proper(Def(table, parts, text))
<1>1. "odd" \notin Indexed
  BY DEF Indexed, Guarded, Guards
<1> QED BY <1>1 DEF Proper, Def

LEMMA WithoutProper ==
  ASSUME NEW shape, Proper(shape), NEW table, NEW parts
  PROVE  Proper(Without(shape, table, parts))
BY DEF Proper, Without

LEMMA UnionProper ==
  ASSUME NEW shape, Proper(shape), NEW defs, Proper(defs)
  PROVE  Proper(shape \union defs)
BY DEF Proper

LEMMA RewrittenProper ==
  ASSUME NEW shape, Proper(shape), NEW table, NEW parts, parts \subseteq Indexed, NEW text
  PROVE  Proper(Rewritten(shape, table, parts, text))
BY DefProper, WithoutProper, UnionProper DEF Rewritten

LEMMA SchemaProper ==
  ASSUME NEW v \in 1 .. Current
  PROVE  Proper(SchemaSQL[v])
<1>0. /\ {"table"} \subseteq Indexed /\ {"table", "update guard"} \subseteq Indexed
      /\ Guarded \subseteq Indexed /\ Indexed \subseteq Indexed
  BY PartsAre
<1>1. Proper(V1)
  BY <1>0, DefProper, UnionProper DEF V1, Meta
<1>2. Proper(V2)
  BY <1>0, <1>1, DefProper, UnionProper DEF V2, Runs, Calls
<1>3. Proper(V3)
  <2>1. Proper(Rewritten(V2, "raw_logs", {"table"}, 3)) /\ Proper(Facts) /\ Proper(Sources)
    BY <1>0, <1>2, DefProper, RewrittenProper DEF Facts, Sources
  <2> QED BY <2>1, UnionProper DEF V3
<1>4. Proper(V4)
  BY <1>0, <1>3, DefProper, UnionProper DEF V4, Detections
<1>5. Proper(V5)
  BY <1>0, <1>4, DefProper, UnionProper DEF V5, Signals
<1>6. Proper(V6)
  BY <1>0, <1>5, DefProper, UnionProper DEF V6, Snapshots, Claims
<1>7. Proper(V7)
  BY <1>0, <1>6, DefProper, UnionProper DEF V7, Findings
<1>8. Proper(V8)
  BY <1>0, <1>7, RewrittenProper DEF V8
<1>9. Proper(V9)
  BY <1>0, <1>8, RewrittenProper, WithoutProper DEF V9
<1>10. Proper(V10)
  BY <1>0, <1>9, RewrittenProper DEF V10
<1>11. Proper(V11)
  BY <1>0, <1>10, DefProper, UnionProper DEF V11, Vacancies
<1>12. Proper(V12)
  <2>1. Proper(Branches) /\ Proper(Bullets)
    BY <1>0, DefProper DEF Branches, Bullets
  <2> QED BY <1>11, <2>1, UnionProper DEF V12
<1>13. v \in 1 .. 12
  BY DEF Current
<1> QED BY <1>1, <1>2, <1>3, <1>4, <1>5, <1>6, <1>7, <1>8, <1>9, <1>10, <1>11, <1>12, <1>13, VersionsAre

LEMMA FreshNotOdd ==
  ASSUME NEW v \in 1 .. Current
  PROVE  SchemaSQL[v] \ Odd = SchemaSQL[v]
<1>1. \A entry \in SchemaSQL[v] : entry[2] # "odd"
  BY SchemaProper DEF Proper
<1>2. \A entry \in Odd : entry[2] = "odd"
  BY DEF Odd, Def
<1> QED BY <1>1, <1>2

LEMMA Greatest ==
  ASSUME NEW S, S \subseteq 1 .. 12, S # {}
  PROVE  \E v \in S : \A w \in S : w <= v
<1>1. CASE 12 \in S
  BY <1>1
<1>2. CASE 12 \notin S /\ 11 \in S
  BY <1>2
<1>3. CASE 12 \notin S /\ 11 \notin S /\ 10 \in S
  BY <1>3
<1>4. CASE 12 \notin S /\ 11 \notin S /\ 10 \notin S /\ 9 \in S
  BY <1>4
<1> DEFINE none == 12 \notin S /\ 11 \notin S /\ 10 \notin S /\ 9 \notin S
<1>5. CASE none /\ 8 \in S
  BY <1>5
<1>6. CASE none /\ 8 \notin S /\ 7 \in S
  BY <1>6
<1>7. CASE none /\ 8 \notin S /\ 7 \notin S /\ 6 \in S
  BY <1>7
<1>8. CASE none /\ 8 \notin S /\ 7 \notin S /\ 6 \notin S /\ 5 \in S
  BY <1>8
<1>9. CASE none /\ 8 \notin S /\ 7 \notin S /\ 6 \notin S /\ 5 \notin S /\ 4 \in S
  BY <1>9
<1>10. CASE none /\ 8 \notin S /\ 7 \notin S /\ 6 \notin S /\ 5 \notin S /\ 4 \notin S
  <2>1. S \subseteq 1 .. 3
    BY <1>10
  <2>2. CASE 3 \in S
    BY <2>1, <2>2
  <2>3. CASE 3 \notin S /\ 2 \in S
    BY <2>1, <2>3
  <2>4. CASE 3 \notin S /\ 2 \notin S
    <3>1. PICK w \in S : TRUE
      OBVIOUS
    <3>2. \A v \in S : v = 1
      BY <2>1, <2>4
    <3> QED BY <3>1, <3>2
  <2> QED BY <2>2, <2>3, <2>4
<1> QED BY <1>1, <1>2, <1>3, <1>4, <1>5, <1>6, <1>7, <1>8, <1>9, <1>10

(* The stored version is the greatest one the metadata lists.              *)
LEMMA StoredIs ==
  ASSUME NEW d, d.versions \subseteq 1 .. Current
  PROVE  /\ Stored(d) \in 0 .. Current
         /\ d.versions = {} => Stored(d) = 0
         /\ d.versions # {} => Stored(d) \in d.versions /\ \A w \in d.versions : w <= Stored(d)
<1>1. CASE d.versions = {}
  BY <1>1 DEF Stored, Current
<1>2. CASE d.versions # {}
  <2>1. \E v \in d.versions : \A w \in d.versions : w <= v
    BY <1>2, Greatest DEF Current
  <2>2. Stored(d) = CHOOSE v \in d.versions : \A w \in d.versions : w <= v
    BY <1>2 DEF Stored
  <2>3. Stored(d) \in d.versions /\ \A w \in d.versions : w <= Stored(d)
    BY <2>1, <2>2
  <2>4. 1 .. Current \subseteq 0 .. Current
    BY DEF Current
  <2> QED BY <1>2, <2>3, <2>4
<1> QED BY <1>1, <1>2

LEMMA StoredOne ==
  ASSUME NEW d, NEW v \in 1 .. Current, d.versions = {v}
  PROVE  Stored(d) = v
BY StoredIs

LEMMA StoredSame ==
  ASSUME NEW d, NEW e, e.versions = d.versions
  PROVE  Stored(e) = Stored(d)
BY DEF Stored

LEMMA EmptyStocked == Stocked(EmptyFile) /\ Stored(EmptyFile) = 0
<1>1. NoRows \in [Tables -> SUBSET Keys]
  BY DEF NoRows
<1>2. EmptyFile \in Database
  BY <1>1, DatabaseIs DEF EmptyFile
<1>3. EmptyFile.versions = {} /\ EmptyFile.sound = TRUE
  BY DEF EmptyFile
<1>4. Stored(EmptyFile) = 0
  BY <1>3 DEF Stored
<1> QED BY <1>2, <1>3, <1>4 DEF Stocked, Shapen

LEMMA GrownStocked ==
  ASSUME NEW d, Stocked(d), NEW e \in Database, e.sound = TRUE, Grown(d, e)
  PROVE  Stocked(e) /\ Stored(e) = Stored(d)
<1>1. Stored(e) = Stored(d)
  BY StoredSame DEF Grown
<1> QED BY <1>1 DEF Stocked, Shapen, Grown

LEMMA WithLogGrows ==
  ASSUME NEW d, Stocked(d), NEW k \in Keys
  PROVE  WithLog(d, k) \in Database /\ WithLog(d, k).sound = TRUE /\ Grown(d, WithLog(d, k))
<1> DEFINE logs == d.rows["raw_logs"] \union {k}
           found == d.rows["evidence_items"] \union {k}
           rows == [[d.rows EXCEPT !["raw_logs"] = logs] EXCEPT !["evidence_items"] = found]
<1>0. d \in Database /\ d.sound = TRUE /\ d.rows \in [Tables -> SUBSET Keys]
  BY DatabaseIs DEF Stocked
<1>t. "raw_logs" \in Tables /\ "evidence_items" \in Tables
  BY TableNames
<1>1. WithLog(d, k) = [d EXCEPT !.rows = rows]
  BY <1>0, <1>t, DatabaseIs DEF WithLog
<1>2. logs \subseteq Keys /\ found \subseteq Keys
  BY <1>0, <1>t
<1>3. d.rows["raw_logs"] \subseteq logs /\ d.rows["evidence_items"] \subseteq found
  OBVIOUS
<1> HIDE DEF logs, found
<1>4. rows \in [Tables -> SUBSET Keys] /\ \A t \in Tables : d.rows[t] \subseteq rows[t]
  BY <1>0, <1>t, <1>2, <1>3
<1> HIDE DEF rows
<1> DEFINE e == WithLog(d, k)
<1>5. /\ e \in Database /\ e.sound = TRUE /\ e.rows = rows
      /\ e.shape = d.shape /\ e.versions = d.versions /\ e.scoped = d.scoped
  BY <1>0, <1>1, <1>4, DatabaseIs
<1> HIDE DEF e
<1>6. Grown(d, e)
  BY <1>4, <1>5 DEF Grown
<1> QED BY <1>5, <1>6 DEF e

(* The rebuild after a log's deletion touches no source record.            *)
LEMMA RebuiltKeeps ==
  ASSUME NEW d, Stocked(d)
  PROVE  /\ Stocked(Rebuilt(d)) /\ Stored(Rebuilt(d)) = Stored(d)
         /\ \A t \in SourceTables : Rebuilt(d).rows[t] = d.rows[t]
<1> DEFINE ks == d.rows["raw_logs"]
           rows == [d.rows EXCEPT !["processing_runs"] = @ \union ks,
                                  !["experience_facts"] = ks, !["fact_sources"] = ks]
<1>0. d \in Database /\ d.sound = TRUE /\ d.rows \in [Tables -> SUBSET Keys]
  BY DatabaseIs DEF Stocked
<1>t. /\ "raw_logs" \in Tables /\ "processing_runs" \in Tables
      /\ "experience_facts" \in Tables /\ "fact_sources" \in Tables
  BY TableNames
<1>1. Rebuilt(d) = [d EXCEPT !.rows = rows]
  BY DEF Rebuilt
<1>2. ks \subseteq Keys
  BY <1>0, <1>t
<1> HIDE DEF ks
<1>3. rows \in [Tables -> SUBSET Keys]
  BY <1>0, <1>t, <1>2
<1>4. \A t \in SourceTables : rows[t] = d.rows[t]
  <2>1. SourceTables \subseteq Tables
    BY TableNames DEF SourceTables
  <2>2. \A t \in SourceTables : t # "processing_runs" /\ t # "experience_facts" /\ t # "fact_sources"
    BY DEF SourceTables
  <2> QED BY <1>0, <2>1, <2>2
<1> HIDE DEF rows
<1> DEFINE e == Rebuilt(d)
<1>5. /\ e \in Database /\ e.sound = TRUE /\ e.rows = rows
      /\ e.shape = d.shape /\ e.versions = d.versions
  BY <1>0, <1>1, <1>3, DatabaseIs
<1> HIDE DEF e
<1>6. Stored(e) = Stored(d)
  BY <1>5, StoredSame
<1>7. Stocked(e)
  BY <1>5, <1>6 DEF Stocked, Shapen
<1> QED BY <1>4, <1>5, <1>6, <1>7 DEF e

(***************************************************************************)
(* What a migration keeps                                                  *)
(***************************************************************************)

(* The rows of a database of `from` that the registered steps do not drop. *)
KeepsAll(from, to) ==
  /\ to.scoped = from.scoped
  /\ \A t \in Tables \ Derived : from.rows[t] \subseteq to.rows[t]
  /\ Stored(from) >= 9 =>
       \A t \in Derived \ {"self_signals"} :
         from.rows[t] \ (IF Stored(from) = 9 THEN to.scoped ELSE {}) \subseteq to.rows[t]

LEMMA DerivedTables == Derived \subseteq Tables
BY TableNames DEF Derived

LEMMA KeepsItself ==
  ASSUME NEW d
  PROVE  KeepsAll(d, d)
BY DEF KeepsAll

LEMMA SourcesKept ==
  ASSUME NEW d, NEW e, KeepsAll(d, e), NEW source \in SourceTables
  PROVE  d.rows[source] \subseteq e.rows[source]
<1>1. source \in Tables \ Derived
  BY TableNames DEF SourceTables, Derived
<1> QED BY <1>1 DEF KeepsAll

(* What was kept stays kept by a database that only grew.                  *)
LEMMA GrownKeeps ==
  ASSUME NEW from, NEW d, NEW e, KeepsAll(from, d), Grown(d, e)
  PROVE  KeepsAll(from, e)
<1>1. \A t \in Tables : d.rows[t] \subseteq e.rows[t]
  BY DEF Grown
<1>2. e.scoped = d.scoped
  BY DEF Grown
<1>3. \A t \in Tables \ Derived : from.rows[t] \subseteq e.rows[t]
  BY <1>1 DEF KeepsAll
<1>4. ASSUME Stored(from) >= 9, NEW t \in Derived \ {"self_signals"}
      PROVE  from.rows[t] \ (IF Stored(from) = 9 THEN e.scoped ELSE {}) \subseteq e.rows[t]
  <2>1. from.rows[t] \ (IF Stored(from) = 9 THEN d.scoped ELSE {}) \subseteq d.rows[t]
    BY <1>4 DEF KeepsAll
  <2>2. d.rows[t] \subseteq e.rows[t]
    BY <1>1, <1>4, DerivedTables
  <2> QED BY <1>2, <2>1, <2>2
<1>5. e.scoped = from.scoped
  BY <1>2 DEF KeepsAll
<1> QED BY <1>3, <1>4, <1>5 DEF KeepsAll

(* The whole path decides the foreign keys of the connection.              *)
LEMMA KeysOff ==
  ASSUME NEW seen \in 1 .. 11, NEW v \in 1 .. 9, seen <= v
  PROVE  MigrationPath(seen) \intersect ForeignKeysOff # {}
<1>1. seen \in 1 .. Current - 1 /\ 9 \in seen .. Current - 1
  BY DEF Current
<1> QED BY <1>1 DEF MigrationPath, ForeignKeysOff

Follows(from, work, next) ==
  next \in Database /\ Stored(next) = Stored(work) /\ KeepsAll(from, next)

(* One statement of the step from the version of `work`.                   *)
LEMMA StatementKeeps ==
  ASSUME NEW from, NEW work \in Database, Stored(from) \in 1 .. 11, Stored(work) \in 1 .. 11,
         Stored(from) <= Stored(work), KeepsAll(from, work),
         NEW i \in 1 .. Len(Statements(work, Stored(work))),
         NEW fk, Stored(work) <= 9 => fk = FALSE,
         NEW owner, NEW next, next = Execute(work, Statements(work, Stored(work))[i], fk, owner),
         next.sound = TRUE
  PROVE  Follows(from, work, next)
<1> DEFINE v == Stored(work)
           s == Statements(work, v)[i]
<1>1. Sure(work, v, s)
  BY MigrationSure
<1>2. v <= 9 => fk = FALSE
  OBVIOUS
<1> HIDE DEF s
<1>3. v \in 1 .. 11
  OBVIOUS
<1>4. next = Execute(work, s, fk, owner)
  BY DEF s
<1> HIDE DEF v
<1>a. next \in Database /\ (next.sound = TRUE => Spared(work, v, next))
  BY ONLY work \in Database, <1>1, <1>2, <1>3, <1>4, MigrationSpares
<1>5. /\ next \in Database
      /\ next.versions = work.versions /\ next.scoped = work.scoped
      /\ \A t \in Tables \ Derived : work.rows[t] \subseteq next.rows[t]
      /\ v > 9 => \A t \in Tables : work.rows[t] \subseteq next.rows[t]
      /\ v = 9 => \A t \in Tables : work.rows[t] \ work.scoped \subseteq next.rows[t]
  BY <1>a DEF Spared
<1>6. next.versions = work.versions /\ next.scoped = work.scoped
  BY <1>5
<1>7. Stored(next) = v
  BY <1>6, StoredSame DEF v
<1>8. \A t \in Tables \ Derived : from.rows[t] \subseteq next.rows[t]
  BY <1>5 DEF KeepsAll
<1>9. ASSUME Stored(from) >= 9, NEW t \in Derived \ {"self_signals"}
      PROVE  from.rows[t] \ (IF Stored(from) = 9 THEN next.scoped ELSE {}) \subseteq next.rows[t]
  <2>0. t \in Tables
    BY <1>9, DerivedTables
  <2>1. from.rows[t] \ (IF Stored(from) = 9 THEN work.scoped ELSE {}) \subseteq work.rows[t]
    BY <1>9 DEF KeepsAll
  <2>2. v > 9 \/ (v = 9 /\ Stored(from) = 9)
    BY <1>9, <1>3 DEF v
  <2>3. CASE v > 9
    BY <1>5, <1>6, <2>0, <2>1, <2>3
  <2>4. CASE v = 9 /\ Stored(from) = 9
    BY <1>5, <1>6, <2>0, <2>1, <2>4
  <2> QED BY <2>2, <2>3, <2>4
<1>10. next.scoped = from.scoped
  BY <1>6 DEF KeepsAll
<1> QED BY <1>5, <1>7, <1>8, <1>9, <1>10 DEF KeepsAll, Follows, v

(* A step has so many statements.                                          *)
LEMMA StatementsCounted ==
  ASSUME NEW d, NEW v \in 1 .. 11
  PROVE  Len(Statements(d, v)) \in Nat
<1>1. CASE v \in {1, 4, 5, 6, 7} \ {7}
  BY <1>1 DEF Statements, To2, To5, To6, To7
<1>2. CASE v \in {3, 10, 11}
  BY <1>2 DEF Statements, To4, To11, To12
<1>3. CASE v = 2
  BY <1>3 DEF Statements, To3
<1>4. CASE v = 7
  BY <1>4 DEF Statements, To8
<1>5. CASE v = 8
  BY <1>5 DEF Statements, To9
<1>6. CASE v = 9
  BY <1>6 DEF Statements, To10
<1> QED BY <1>1, <1>2, <1>3, <1>4, <1>5, <1>6

(* The step is recorded in the metadata.                                   *)
LEMMA RecordedKeeps ==
  ASSUME NEW from, NEW work \in Database, work.sound = TRUE, Stored(work) \in 1 .. 11, KeepsAll(from, work),
         NEW e, e = [work EXCEPT !.versions = @ \union {Stored(work) + 1}]
  PROVE  e \in Database /\ e.sound = TRUE /\ Stored(e) = Stored(work) + 1 /\ KeepsAll(from, e)
<1> DEFINE v == Stored(work)
<1>0. work.versions \subseteq 1 .. Current /\ v + 1 \in 1 .. Current
  BY DatabaseIs DEF Current
<1>1. /\ e \in Database /\ e.sound = TRUE /\ e.rows = work.rows /\ e.scoped = work.scoped
      /\ e.versions = work.versions \union {v + 1}
  BY <1>0, DatabaseIs
<1>2. v \in 0 .. Current /\ \A w \in work.versions : w <= v
  BY <1>0, StoredIs
<1>3. \A w \in e.versions : w <= v + 1
  BY <1>0, <1>1, <1>2 DEF Current
<1>4. Stored(e) \in e.versions /\ \A w \in e.versions : w <= Stored(e)
  BY <1>0, <1>1, StoredIs
<1>5. Stored(e) = v + 1
  <2>1. e.versions \subseteq Nat /\ v + 1 \in e.versions
    BY <1>0, <1>1 DEF Current
  <2> QED BY <1>3, <1>4, <2>1
<1>6. KeepsAll(from, e)
  BY <1>1 DEF KeepsAll
<1> QED BY <1>1, <1>5, <1>6

(***************************************************************************)
(* What a command may make of the database                                 *)
(***************************************************************************)

(* A migration holds the version it saw, and its transaction's view keeps  *)
(* what the database had.                                                  *)
MigrateStock(c, d) ==
  /\ c.at \in Nat \ {0}
  /\ c.pc \in {"lock", "check", "backup", "verify", "begin", "step", "statements"} => c.seen \in 1 .. 11
  /\ c.pc \in {"backup", "verify", "begin", "step", "statements"} => Stored(d) = c.seen
  /\ c.pc \in {"step", "statements"} =>
       /\ c.work \in Database /\ c.work.sound = TRUE
       /\ c.seen <= Stored(c.work) /\ KeepsAll(d, c.work)
  /\ c.pc = "statements" => Stored(c.work) < Current

WriterStock(c, d) ==
  /\ c.target \subseteq Keys /\ c.todo \in Seq(Keys)
  /\ c.kind = "import" /\ c.pc = "commit" => c.todo # <<>>
  /\ c.pc = "commit" => c.work \in Database /\ c.work.sound = TRUE /\ Grown(d, c.work)

DeletionStock(c, d) ==
  /\ c.target \subseteq Keys /\ c.at \in Nat \ {0}
  /\ c.pc \in {"begin", "backups", "sets", "rows", "commit"} => Stored(d) = Current
  /\ c.pc \in {"backups", "sets", "rows", "commit"} =>
       /\ c.work \in Database /\ c.work.sound = TRUE /\ Stored(c.work) = Current
       /\ Confined(c, d, c.work)

Stock(c, d) ==
  c.pc \notin {"done", "dead"} =>
    /\ c.kind = "migrate" => MigrateStock(c, d)
    /\ c.kind \in Writers => WriterStock(c, d)
    /\ c.kind \in Deletions => DeletionStock(c, d)

(* What one step of a process does to the database and to its own view.    *)
Keeps(p) ==
  /\ Stocked(db)' /\ Stock(cmd[p], db)'
  /\ \A source \in SourceTables : \A k \in db.rows[source] \ db'.rows[source] : Erasing(p, source, k)

LEMMA KindsDiffer ==
  /\ "migrate" \notin Writers /\ "migrate" \notin Deletions
  /\ \A k \in Writers : k \notin Deletions /\ k # "migrate"
  /\ \A k \in Deletions : k \notin Writers /\ k # "migrate"
  /\ "init" \notin Writers /\ "init" \notin Deletions
BY DEF Writers, Deletions

LEMMA EndsKeep ==
  ASSUME Shaped, NEW p \in Procs, NEW c, DOMAIN c = Fields, NEW code, NEW named, NEW reported,
         Ends(p, c, code, named, reported), Stocked(db), db' = db
  PROVE  Keeps(p)
<1>1. cmd'[p].pc = "done"
  BY EndsDoes
<1> QED BY <1>1 DEF Keeps, Stock, Stocked, Shapen

LEMMA TurnKeeps ==
  ASSUME Shaped, NEW p \in Procs, NEW c, DOMAIN c = Fields, Turn(p, c), Stock(c, db), Stocked(db), db' = db
  PROVE  Keeps(p)
<1>1. cmd'[p] = c
  BY TurnDoes
<1> QED BY <1>1 DEF Keeps, Stocked, Shapen

LEMMA MigrateKeeps ==
  ASSUME Shaped, NEW p \in Procs, Stocked(db), Stock(cmd[p], db), MigrateStep(p)
  PROVE  Keeps(p)
<1>0. DOMAIN cmd[p] = Fields
  BY DEF Shaped
<1>k. cmd[p].kind = "migrate"
  BY DEF MigrateStep, MigrateSees, MigrateChecks, MigrateBacksUp, MigrateVerifies, MigrateBegins,
         MigrateCleans, MigrateExecutes, MigrateRecords, MigrateCommits, MigrateReleases,
         MigrateReports, At
<1>s. cmd[p].pc \notin {"done", "dead"} => MigrateStock(cmd[p], db)
  BY <1>k DEF Stock
<1>t. ASSUME NEW c, DOMAIN c = Fields, c.kind = "migrate", Turn(p, c), MigrateStock(c, db), db' = db
      PROVE  Keeps(p)
  <2>1. Stock(c, db)
    BY <1>t, KindsDiffer DEF Stock
  <2> QED BY <1>t, <2>1, TurnKeeps
<1>e. ASSUME NEW code, NEW named, NEW reported, Ends(p, cmd[p], code, named, reported), db' = db
      PROVE  Keeps(p)
  BY <1>0, <1>e, EndsKeep
<1>r. ASSUME NEW code, Refuses(p, code), db' = db
      PROVE  Keeps(p)
  BY <1>e, <1>r DEF Refuses
<1>1. CASE MigrateSees(p)
  <2>0. cmd[p].pc = "start" /\ db' = db
    BY <1>1 DEF MigrateSees, At, disk
  <2>1. CASE Recognized /\ MigrationPath(Stored(db)) # {} /\ Turn(p, [cmd[p] EXCEPT !.pc = "lock", !.seen = Stored(db)])
    <3> DEFINE c == [cmd[p] EXCEPT !.pc = "lock", !.seen = Stored(db)]
    <3>1. DOMAIN c = Fields /\ c.kind = "migrate" /\ c.pc = "lock" /\ c.seen = Stored(db) /\ c.at = cmd[p].at
      BY <1>0, <1>k DEF Fields
    <3>2. Stored(db) \in 1 .. 11
      BY <2>1 DEF MigrationPath, Current
    <3>3. MigrateStock(c, db)
      BY <1>s, <2>0, <3>1, <3>2 DEF MigrateStock
    <3>4. Turn(p, c)
      BY <2>1
    <3> HIDE DEF c
    <3> QED BY <1>t, <2>0, <3>1, <3>3, <3>4
  <2>2. CASE Refuses(p, IF Compatible THEN "up to date" ELSE "schema_incompatible")
    BY <1>r, <2>0, <2>2
  <2> QED BY <1>1, <2>1, <2>2 DEF MigrateSees
<1>2. CASE MigrateChecks(p)
  <2>0. cmd[p].pc = "check" /\ db' = db
    BY <1>2 DEF MigrateChecks, At, disk
  <2>1. CASE Stored(db) = cmd[p].seen /\ Go(p, "backup")
    <3> DEFINE c == [cmd[p] EXCEPT !.pc = "backup"]
    <3>1. DOMAIN c = Fields /\ c.kind = "migrate" /\ c.pc = "backup" /\ c.seen = cmd[p].seen /\ c.at = cmd[p].at
      BY <1>0, <1>k DEF Fields
    <3>3. MigrateStock(c, db)
      BY <1>s, <2>0, <2>1, <3>1 DEF MigrateStock
    <3>4. Turn(p, c)
      BY <2>1 DEF Go
    <3> HIDE DEF c
    <3> QED BY <1>t, <2>0, <3>1, <3>3, <3>4
  <2>2. CASE Refuses(p, "schema_incompatible")
    BY <1>r, <2>0, <2>2
  <2> QED BY <1>2, <2>1, <2>2 DEF MigrateChecks
<1>3. CASE MigrateBacksUp(p)
  <2>0. cmd[p].pc = "backup" /\ db' = db
    BY <1>3 DEF MigrateBacksUp, At
  <2> DEFINE c == [cmd[p] EXCEPT !.pc = "verify"]
  <2>1. DOMAIN c = Fields /\ c.kind = "migrate" /\ c.pc = "verify" /\ c.seen = cmd[p].seen /\ c.at = cmd[p].at
    BY <1>0, <1>k DEF Fields
  <2>2. MigrateStock(c, db)
    BY <1>s, <2>0, <2>1 DEF MigrateStock
  <2>3. Turn(p, c)
    BY <1>3 DEF MigrateBacksUp, Go
  <2> HIDE DEF c
  <2> QED BY <1>t, <2>0, <2>1, <2>2, <2>3
<1>4. CASE MigrateVerifies(p)
  <2>0. cmd[p].pc = "verify" /\ db' = db
    BY <1>4 DEF MigrateVerifies, At
  <2> DEFINE c == [cmd[p] EXCEPT !.pc = "begin", !.backup = TRUE]
  <2>1. DOMAIN c = Fields /\ c.kind = "migrate" /\ c.pc = "begin" /\ c.seen = cmd[p].seen /\ c.at = cmd[p].at
    BY <1>0, <1>k DEF Fields
  <2>2. MigrateStock(c, db)
    BY <1>s, <2>0, <2>1 DEF MigrateStock
  <2>3. Turn(p, c)
    BY <1>4 DEF MigrateVerifies
  <2> HIDE DEF c
  <2> QED BY <1>t, <2>0, <2>1, <2>2, <2>3
<1>5. CASE MigrateBegins(p)
  <2>0. cmd[p].pc = "begin" /\ db' = db
    BY <1>5 DEF MigrateBegins, At, disk
  <2> DEFINE c == [cmd[p] EXCEPT !.pc = "step", !.work = db]
  <2>1. DOMAIN c = Fields /\ c.kind = "migrate" /\ c.pc = "step" /\ c.seen = cmd[p].seen /\ c.at = cmd[p].at
        /\ c.work = db
    BY <1>0, <1>k DEF Fields
  <2>2. c.seen <= Stored(db) /\ KeepsAll(db, db) /\ Stored(db) = c.seen /\ c.seen \in 1 .. 11
    BY <1>s, <2>0, <2>1, KeepsItself DEF MigrateStock
  <2>3. MigrateStock(c, db)
    BY <1>s, <2>0, <2>1, <2>2 DEF MigrateStock, Stocked
  <2>4. Turn(p, c)
    BY <1>5 DEF MigrateBegins
  <2> HIDE DEF c
  <2> QED BY <1>t, <2>0, <2>1, <2>3, <2>4
<1>6. CASE MigrateCleans(p)
  <2>0. cmd[p].pc = "step" /\ db' = db /\ Stored(cmd[p].work) < Current
    BY <1>6 DEF MigrateCleans, At
  <2>1. PICK c : /\ Turn(p, c) /\ DOMAIN c = Fields /\ c.kind = "migrate" /\ c.pc = "statements"
                 /\ c.seen = cmd[p].seen /\ c.at = cmd[p].at /\ c.work = cmd[p].work
    <3>1. CASE Go(p, "statements")
      <4> DEFINE c == [cmd[p] EXCEPT !.pc = "statements"]
      <4>1. Turn(p, c)
        BY <3>1 DEF Go
      <4>2. DOMAIN c = Fields /\ c.kind = "migrate" /\ c.pc = "statements"
            /\ c.seen = cmd[p].seen /\ c.at = cmd[p].at /\ c.work = cmd[p].work
        BY <1>0, <1>k DEF Fields
      <4> HIDE DEF c
      <4> QED BY <4>1, <4>2
    <3>2. ASSUME NEW left, Turn(p, [cmd[p] EXCEPT !.pc = "statements", !.residuals = @ \union left])
          PROVE  \E c : /\ Turn(p, c) /\ DOMAIN c = Fields /\ c.kind = "migrate" /\ c.pc = "statements"
                        /\ c.seen = cmd[p].seen /\ c.at = cmd[p].at /\ c.work = cmd[p].work
      <4> DEFINE c == [cmd[p] EXCEPT !.pc = "statements", !.residuals = @ \union left]
      <4>1. Turn(p, c)
        BY <3>2
      <4>2. DOMAIN c = Fields /\ c.kind = "migrate" /\ c.pc = "statements"
            /\ c.seen = cmd[p].seen /\ c.at = cmd[p].at /\ c.work = cmd[p].work
        BY <1>0, <1>k DEF Fields
      <4> HIDE DEF c
      <4> QED BY <4>1, <4>2
    <3> QED BY <1>6, <3>1, <3>2 DEF MigrateCleans
  <2>2. MigrateStock(c, db)
    BY <1>s, <2>0, <2>1 DEF MigrateStock
  <2> QED BY <1>t, <2>0, <2>1, <2>2
<1>7. CASE MigrateExecutes(p)
  <2> DEFINE work == cmd[p].work
             v == Stored(work)
             i == cmd[p].at
             next == Execute(work, Statements(work, v)[i], ForeignKeys(p), FALSE)
  <2>0. /\ cmd[p].pc = "statements" /\ db' = db /\ i <= Len(Statements(work, v))
        /\ \/ next.sound /\ Turn(p, [cmd[p] EXCEPT !.work = next, !.at = @ + 1])
           \/ Ends(p, cmd[p], "migration_failed", {}, cmd[p].residuals)
    BY <1>7 DEF MigrateExecutes, At, disk
  <2>1. CASE Ends(p, cmd[p], "migration_failed", {}, cmd[p].residuals)
    BY <1>e, <2>0, <2>1
  <2>2. CASE next.sound /\ Turn(p, [cmd[p] EXCEPT !.work = next, !.at = @ + 1])
    <3>1. /\ work \in Database /\ i \in Nat \ {0} /\ cmd[p].seen \in 1 .. 11 /\ Stored(db) = cmd[p].seen
          /\ cmd[p].seen <= v /\ KeepsAll(db, work) /\ v < Current
      BY <1>s, <2>0 DEF MigrateStock
    <3>2. v \in 1 .. 11
      <4>1. v \in 0 .. Current
        BY <3>1, StoredIs, DatabaseIs
      <4> QED BY <3>1, <4>1 DEF Current
    <3> DEFINE fk == ForeignKeys(p)
               len == Len(Statements(work, v))
    <3>3. v <= 9 => fk = FALSE
      <4>1. fk = (MigrationPath(cmd[p].seen) \intersect ForeignKeysOff = {})
        BY DEF ForeignKeys
      <4>2. v <= 9 => v \in 1 .. 9
        BY <3>2
      <4> HIDE DEF v, fk
      <4>3. v <= 9 => MigrationPath(cmd[p].seen) \intersect ForeignKeysOff # {}
        BY <3>1, <4>2, KeysOff
      <4> QED BY <4>1, <4>3
    <3>4. next = Execute(work, Statements(work, v)[i], fk, FALSE)
      OBVIOUS
    <3>5. len \in Nat
      BY <3>2, StatementsCounted
    <3>6. i \in 1 .. len
      BY <2>0, <3>1, <3>5
    <3> DEFINE s == Statements(work, v)[i]
               owner == FALSE
    <3>7. StatementOK(s) /\ next = Execute(work, s, fk, owner)
      BY <3>1, <3>2, <3>6, MigrationSure DEF Sure
    <3>8. next \in Database
      <4> HIDE DEF next, s, fk, work, owner
      <4> QED BY <3>1, <3>7, ExecuteDoes
    <3>9. next.sound = TRUE
      <4>1. next.sound \in BOOLEAN
        BY <3>8, DatabaseIs
      <4> QED BY <2>2, <4>1
    <3>10. /\ Stored(work) <= 9 => fk = FALSE
           /\ work \in Database /\ Stored(db) \in 1 .. 11 /\ Stored(work) \in 1 .. 11
           /\ Stored(db) <= Stored(work) /\ KeepsAll(db, work)
           /\ i \in 1 .. Len(Statements(work, Stored(work)))
           /\ next = Execute(work, Statements(work, Stored(work))[i], fk, owner)
      BY <3>1, <3>2, <3>3, <3>6
    <3> HIDE DEF next, fk, i, work, owner
    <3>a. Follows(db, work, next)
      BY ONLY <3>9, <3>10, StatementKeeps
    <3>11. Stored(next) = Stored(work) /\ KeepsAll(db, next)
      BY <3>a DEF Follows
    <3> HIDE DEF v
    <3> DEFINE c == [cmd[p] EXCEPT !.work = next, !.at = @ + 1]
    <3>12. /\ DOMAIN c = Fields /\ c.kind = "migrate" /\ c.pc = "statements" /\ c.seen = cmd[p].seen
           /\ c.at = i + 1 /\ c.work = next
      BY <1>0, <1>k, <2>0 DEF Fields, i
    <3>13. Turn(p, c)
      BY <2>2 DEF next, work, i, v, fk, owner
    <3> HIDE DEF c
    <3>14. c.at \in Nat \ {0}
      BY <3>1, <3>12
    <3>15. c.seen <= Stored(c.work) /\ Stored(c.work) < Current
      BY <3>1, <3>11, <3>12 DEF v
    <3>16. MigrateStock(c, db)
      BY <3>1, <3>8, <3>9, <3>11, <3>12, <3>14, <3>15 DEF MigrateStock
    <3> QED BY <1>t, <2>0, <3>12, <3>13, <3>16
  <2> QED BY <2>0, <2>1, <2>2
<1>8. CASE MigrateRecords(p)
  <2> DEFINE work == cmd[p].work
             v == Stored(work)
             next == [work EXCEPT !.versions = @ \union {v + 1}]
             c == [cmd[p] EXCEPT !.pc = "step", !.at = 1, !.work = next]
  <2>0. cmd[p].pc = "statements" /\ db' = db
    BY <1>8 DEF MigrateRecords, At, disk
  <2>1. /\ work \in Database /\ work.sound = TRUE /\ cmd[p].seen \in 1 .. 11 /\ Stored(db) = cmd[p].seen
        /\ cmd[p].seen <= v /\ KeepsAll(db, work) /\ v < Current
    BY <1>s, <2>0 DEF MigrateStock
  <2>2. v \in 1 .. 11
    <3>1. v \in 0 .. Current
      BY <2>1, StoredIs, DatabaseIs
    <3> QED BY <2>1, <3>1 DEF Current
  <2>3. Turn(p, c)
    BY <1>0, <1>8 DEF MigrateRecords, Fields
  <2>4. /\ DOMAIN c = Fields /\ c.kind = "migrate" /\ c.pc = "step" /\ c.seen = cmd[p].seen
        /\ c.at = 1 /\ c.work = next
    BY <1>0, <1>k DEF Fields
  <2> HIDE DEF c
  <2>5. next = [work EXCEPT !.versions = @ \union {v + 1}]
    OBVIOUS
  <2> HIDE DEF next, v, work
  <2>6. next \in Database /\ next.sound = TRUE /\ Stored(next) = v + 1 /\ KeepsAll(db, next)
    BY ZenonT(40), <2>1, <2>2, <2>5, RecordedKeeps DEF v
  <2>7. cmd[p].seen <= v + 1
    BY <2>1, <2>2
  <2>8. MigrateStock(c, db)
    BY <2>1, <2>4, <2>6, <2>7 DEF MigrateStock
  <2> QED BY <1>t, <2>0, <2>3, <2>4, <2>8
<1>9. CASE MigrateCommits(p)
  <2>0. cmd[p].pc = "step"
    BY <1>9 DEF MigrateCommits, At
  <2>1. CASE Ends(p, cmd[p], "migration_failed", {}, cmd[p].residuals) /\ db' = db
    BY <1>e, <2>1
  <2>2. CASE ValidTarget(cmd[p].work) /\ db' = cmd[p].work
             /\ Turn(p, [cmd[p] EXCEPT !.pc = "restore", !.committed = TRUE])
    <3> DEFINE c == [cmd[p] EXCEPT !.pc = "restore", !.committed = TRUE]
    <3>1. DOMAIN c = Fields /\ c.kind = "migrate" /\ c.pc = "restore" /\ c.at = cmd[p].at
      BY <1>0, <1>k DEF Fields
    <3>2. cmd'[p] = c
      BY <2>2, <3>1, TurnDoes
    <3> HIDE DEF c
    <3>3. /\ cmd[p].work \in Database /\ cmd[p].work.sound = TRUE /\ KeepsAll(db, cmd[p].work)
          /\ c.at \in Nat \ {0}
      BY <1>s, <2>0, <3>1 DEF MigrateStock
    <3>4. cmd[p].work.shape = V12 /\ Stored(cmd[p].work) = Current
      BY <2>2 DEF ValidTarget
    <3>5. Stocked(cmd[p].work)
      <4>1. V12 \ Odd = V12
        BY FreshNotOdd, VersionsAre DEF Current
      <4> QED BY <3>3, <3>4, <4>1, VersionsAre DEF Stocked, Shapen, Current
    <3>6. Stock(c, db')
      BY <3>1, <3>3, KindsDiffer DEF Stock, MigrateStock
    <3>7. \A source \in SourceTables : db.rows[source] \subseteq db'.rows[source]
      BY <2>2, <3>3, SourcesKept
    <3>8. Stocked(db)'
      BY <2>2, <3>5 DEF Stocked, Shapen
    <3> QED BY <3>2, <3>6, <3>7, <3>8 DEF Keeps
  <2> QED BY <1>9, <2>1, <2>2 DEF MigrateCommits
<1>10. CASE MigrateReleases(p)
  <2>0. cmd[p].pc = "restore" /\ db' = db
    BY <1>10 DEF MigrateReleases, At, disk
  <2> DEFINE c == [cmd[p] EXCEPT !.pc = "after"]
  <2>1. DOMAIN c = Fields /\ c.kind = "migrate" /\ c.pc = "after" /\ c.at = cmd[p].at
    BY <1>0, <1>k DEF Fields
  <2>2. MigrateStock(c, db)
    BY <1>s, <2>0, <2>1 DEF MigrateStock
  <2>3. Turn(p, c)
    BY <1>10 DEF MigrateReleases, Go
  <2> HIDE DEF c
  <2> QED BY <1>t, <2>0, <2>1, <2>2, <2>3
<1>11. CASE MigrateReports(p)
  BY <1>e, <1>11 DEF MigrateReports, disk
<1> QED BY <1>1, <1>2, <1>3, <1>4, <1>5, <1>6, <1>7, <1>8, <1>9, <1>10, <1>11 DEF MigrateStep

(***************************************************************************)
(* Captures and imports                                                    *)
(***************************************************************************)

(* The commit of a writer only adds rows.                                  *)
LEMMA WriterCommits ==
  ASSUME NEW p \in Procs, cmd[p].kind \in Writers, cmd[p].pc = "commit",
         Stocked(db), Stock(cmd[p], db), db' = cmd[p].work, Stock(cmd[p], db)'
  PROVE  Keeps(p)
<1>1. cmd[p].work \in Database /\ cmd[p].work.sound = TRUE /\ Grown(db, cmd[p].work)
  BY DEF Stock, WriterStock
<1> DEFINE e == cmd[p].work
<1> HIDE DEF e
<1>2. Stocked(e)
  BY <1>1, GrownStocked DEF e
<1>3. Stocked(db)'
  BY <1>2 DEF Stocked, Shapen, e
<1>4. \A source \in SourceTables : db.rows[source] \subseteq db'.rows[source]
  <2>1. SourceTables \subseteq Tables
    BY TableNames DEF SourceTables
  <2> QED BY <1>1, <2>1 DEF Grown
<1> QED BY <1>3, <1>4 DEF Keeps

LEMMA CaptureKeeps ==
  ASSUME Shaped, NEW p \in Procs, Stocked(db), Stock(cmd[p], db), CaptureStep(p)
  PROVE  Keeps(p)
<1>0. DOMAIN cmd[p] = Fields
  BY DEF Shaped
<1>k. cmd[p].kind = "capture" /\ "capture" \in Writers
  BY DEF CaptureStep, CaptureWrites, CaptureCommits, CaptureReports, CaptureCommitFails, CaptureFails,
         CaptureInterrupted, At, Writers
<1>s. cmd[p].pc \notin {"done", "dead"} => WriterStock(cmd[p], db)
  BY <1>k DEF Stock
<1>w. ASSUME NEW c, c.kind = "capture", NEW d, WriterStock(c, d)
      PROVE  Stock(c, d)
  BY <1>k, <1>w, KindsDiffer DEF Stock
<1>e. ASSUME NEW c, DOMAIN c = Fields, NEW code, NEW named, NEW reported,
             Ends(p, c, code, named, reported), db' = db
      PROVE  Keeps(p)
  BY <1>e, EndsKeep
<1>1. CASE CaptureWrites(p)
  <2>0. cmd[p].pc = "begin" /\ db' = db
    BY <1>1 DEF CaptureWrites, At, disk
  <2>1. PICK k \in cmd[p].target :
          Turn(p, [cmd[p] EXCEPT !.pc = "commit", !.work = WithLog(db, k), !.deferred = TRUE])
    BY <1>1 DEF CaptureWrites
  <2> DEFINE c == [cmd[p] EXCEPT !.pc = "commit", !.work = WithLog(db, k), !.deferred = TRUE]
  <2>2. /\ DOMAIN c = Fields /\ c.kind = "capture" /\ c.pc = "commit" /\ c.target = cmd[p].target
        /\ c.todo = cmd[p].todo /\ c.work = WithLog(db, k)
    BY <1>0, <1>k DEF Fields
  <2>3. Turn(p, c)
    BY <2>1
  <2> HIDE DEF c
  <2>4. WriterStock(cmd[p], db)
    BY <1>s, <2>0
  <2>5. k \in Keys
    BY <2>4 DEF WriterStock
  <2>6. WithLog(db, k) \in Database /\ WithLog(db, k).sound = TRUE /\ Grown(db, WithLog(db, k))
    BY <2>5, WithLogGrows
  <2>7. WriterStock(c, db)
    BY <2>2, <2>4, <2>6 DEF WriterStock
  <2> QED BY <1>w, <2>0, <2>2, <2>3, <2>7, TurnKeeps
<1>2. CASE CaptureCommits(p)
  <2>0. cmd[p].pc = "commit" /\ db' = cmd[p].work
    BY <1>2 DEF CaptureCommits, At
  <2> DEFINE c == [cmd[p] EXCEPT !.pc = "close", !.durable = cmd[p].target]
  <2>1. /\ DOMAIN c = Fields /\ c.kind = "capture" /\ c.pc = "close" /\ c.target = cmd[p].target
        /\ c.todo = cmd[p].todo
    BY <1>0, <1>k DEF Fields
  <2>2. cmd'[p] = c
    BY <1>2, <2>1, TurnDoes DEF CaptureCommits
  <2> HIDE DEF c
  <2>3. WriterStock(c, db')
    BY <1>s, <2>0, <2>1 DEF WriterStock
  <2>4. Stock(cmd'[p], db')
    BY <1>w, <2>1, <2>2, <2>3
  <2> QED BY <1>k, <2>0, <2>4, WriterCommits
<1>3. CASE CaptureReports(p)
  BY <1>0, <1>3, <1>e DEF CaptureReports, disk
<1>4. CASE CaptureCommitFails(p)
  <2>0. cmd[p].pc = "commit"
    BY <1>4 DEF CaptureCommitFails, At
  <2>1. PICK durable \in BOOLEAN, known \in BOOLEAN :
          /\ db' = IF durable THEN cmd[p].work ELSE db
          /\ Ends(p, [cmd[p] EXCEPT !.durable = IF durable THEN cmd[p].target ELSE {},
                                 !.detached = ~ known],
               "internal_error", IF durable /\ known THEN cmd[p].target ELSE {}, {})
    BY <1>4 DEF CaptureCommitFails
  <2> DEFINE c == [cmd[p] EXCEPT !.durable = IF durable THEN cmd[p].target ELSE {}, !.detached = ~ known]
             named == IF durable /\ known THEN cmd[p].target ELSE {}
  <2>2. Ends(p, c, "internal_error", named, {}) /\ DOMAIN c = Fields
    BY <1>0, <2>1
  <2> HIDE DEF c, named
  <2>3. CASE db' = db
    BY <1>e, <2>2, <2>3
  <2>4. CASE db' = cmd[p].work
    <3>1. cmd'[p].pc = "done"
      BY <2>2, EndsDoes
    <3>2. Stock(cmd[p], db)'
      BY <3>1 DEF Stock
    <3> QED BY <1>k, <2>0, <2>4, <3>2, WriterCommits
  <2> QED BY <2>1, <2>3, <2>4
<1>5. CASE CaptureFails(p)
  BY <1>0, <1>5, <1>e DEF CaptureFails, disk
<1>6. CASE CaptureInterrupted(p)
  <2>0. cmd[p].pc \notin {"done", "dead"} /\ db' = db
    BY <1>6 DEF CaptureInterrupted, Live, disk
  <2>1. CASE Turn(p, [cmd[p] EXCEPT !.pending = TRUE])
    <3> DEFINE c == [cmd[p] EXCEPT !.pending = TRUE]
    <3>1. /\ DOMAIN c = Fields /\ c.kind = "capture" /\ c.pc = cmd[p].pc /\ c.target = cmd[p].target
          /\ c.todo = cmd[p].todo /\ c.work = cmd[p].work
      BY <1>0, <1>k DEF Fields
    <3>2. Turn(p, c)
      BY <2>1
    <3> HIDE DEF c
    <3>3. WriterStock(c, db)
      BY <1>s, <2>0, <3>1 DEF WriterStock
    <3> QED BY <1>w, <2>0, <3>1, <3>2, <3>3, TurnKeeps
  <2>2. CASE Refuses(p, "cancelled")
    BY <1>0, <1>e, <2>0, <2>2 DEF Refuses
  <2> QED BY <1>6, <2>1, <2>2 DEF CaptureInterrupted
<1> QED BY <1>1, <1>2, <1>3, <1>4, <1>5, <1>6 DEF CaptureStep

LEMMA TailTyped ==
  ASSUME NEW s \in Seq(Keys), s # <<>>
  PROVE  Head(s) \in Keys /\ Tail(s) \in Seq(Keys)
OBVIOUS

LEMMA ImportKeeps ==
  ASSUME Shaped, NEW p \in Procs, Stocked(db), Stock(cmd[p], db), ImportStep(p)
  PROVE  Keeps(p)
<1>0. DOMAIN cmd[p] = Fields
  BY DEF Shaped
<1>k. cmd[p].kind = "import" /\ "import" \in Writers
  BY DEF ImportStep, ImportClassifies, ImportCommits, ImportCollides, ImportCloses, ImportReports,
         ImportCutOff, At, Writers
<1>s. cmd[p].pc \notin {"done", "dead"} => WriterStock(cmd[p], db)
  BY <1>k DEF Stock
<1>w. ASSUME NEW c, c.kind = "import", NEW d, WriterStock(c, d)
      PROVE  Stock(c, d)
  BY <1>k, <1>w, KindsDiffer DEF Stock
<1>e. ASSUME NEW c, DOMAIN c = Fields, NEW code, NEW named, NEW reported,
             Ends(p, c, code, named, reported), db' = db
      PROVE  Keeps(p)
  BY <1>e, EndsKeep
<1>1. CASE ImportClassifies(p)
  <2> DEFINE k == Head(cmd[p].todo)
             skipped == [cmd[p] EXCEPT !.todo = Tail(@), !.attempts = 0]
             c == [cmd[p] EXCEPT !.pc = "commit", !.work = WithLog(db, k), !.accepted = Append(@, k)]
  <2>0. cmd[p].pc = "begin" /\ db' = db /\ cmd[p].todo # <<>>
    BY <1>1 DEF ImportClassifies, At, disk
  <2>s. WriterStock(cmd[p], db)
    BY <1>s, <2>0
  <2>k. k \in Keys /\ Tail(cmd[p].todo) \in Seq(Keys)
    BY <2>0, <2>s, TailTyped DEF WriterStock
  <2>1. CASE Turn(p, skipped)
    <3>1. /\ DOMAIN skipped = Fields /\ skipped.kind = "import" /\ skipped.pc = "begin"
          /\ skipped.target = cmd[p].target /\ skipped.todo = Tail(cmd[p].todo)
      BY <1>0, <1>k, <2>0 DEF Fields
    <3> HIDE DEF skipped
    <3>2. WriterStock(skipped, db)
      BY <2>k, <2>s, <3>1 DEF WriterStock
    <3> QED BY <1>w, <2>0, <2>1, <3>1, <3>2, TurnKeeps
  <2>2. CASE Turn(p, c)
    <3>1. /\ DOMAIN c = Fields /\ c.kind = "import" /\ c.pc = "commit" /\ c.target = cmd[p].target
          /\ c.todo = cmd[p].todo /\ c.work = WithLog(db, k)
      BY <1>0, <1>k DEF Fields
    <3> HIDE DEF c, k
    <3>2. WithLog(db, k) \in Database /\ WithLog(db, k).sound = TRUE /\ Grown(db, WithLog(db, k))
      BY <2>k, WithLogGrows
    <3>3. WriterStock(c, db)
      BY <2>0, <2>s, <3>1, <3>2 DEF WriterStock
    <3> QED BY <1>w, <2>0, <2>2, <3>1, <3>3, TurnKeeps
  <2> QED BY <1>1, <2>1, <2>2 DEF ImportClassifies
<1>2. CASE ImportCommits(p)
  <2>0. cmd[p].pc = "commit" /\ db' = cmd[p].work
    BY <1>2 DEF ImportCommits, At
  <2> DEFINE k == Head(cmd[p].todo)
             c == [cmd[p] EXCEPT !.pc = "begin", !.todo = Tail(@), !.attempts = 0,
                   !.retained = @ \union {k}, !.durable = @ \union {k}]
  <2>1. /\ DOMAIN c = Fields /\ c.kind = "import" /\ c.pc = "begin" /\ c.target = cmd[p].target
        /\ c.todo = Tail(cmd[p].todo)
    BY <1>0, <1>k DEF Fields
  <2>2. cmd'[p] = c
    BY <1>2, <2>1, TurnDoes DEF ImportCommits
  <2> HIDE DEF c
  <2>3. WriterStock(cmd[p], db)
    BY <1>s, <2>0
  <2>4. Tail(cmd[p].todo) \in Seq(Keys)
    BY <1>k, <2>0, <2>3, TailTyped DEF WriterStock
  <2>5. WriterStock(c, db')
    BY <2>1, <2>3, <2>4 DEF WriterStock
  <2>6. Stock(cmd'[p], db')
    BY <1>w, <2>1, <2>2, <2>5
  <2> QED BY <1>k, <2>0, <2>6, WriterCommits
<1>3. CASE ImportCollides(p)
  <2>0. cmd[p].pc = "commit" /\ db' = db
    BY <1>3 DEF ImportCollides, At, disk
  <2> DEFINE c == [WithoutCandidate(cmd[p]) EXCEPT !.pc = "begin", !.attempts = @ + 1]
             named == {c.accepted[i] : i \in 1 .. Len(c.accepted)}
  <2>1. /\ DOMAIN c = Fields /\ c.kind = "import" /\ c.pc = "begin" /\ c.target = cmd[p].target
        /\ c.todo = cmd[p].todo
    BY <1>0, <1>k DEF Fields, WithoutCandidate
  <2>2. Turn(p, c) \/ Ends(p, c, "internal_error", named, {})
    BY <1>3 DEF ImportCollides
  <2> HIDE DEF c, named
  <2>3. CASE Turn(p, c)
    <3>1. WriterStock(c, db)
      BY <1>s, <2>0, <2>1 DEF WriterStock
    <3> QED BY <1>w, <2>0, <2>1, <2>3, <3>1, TurnKeeps
  <2>4. CASE Ends(p, c, "internal_error", named, {})
    BY <1>e, <2>0, <2>1, <2>4
  <2> QED BY <2>2, <2>3, <2>4
<1>4. CASE ImportCloses(p)
  <2>0. cmd[p].pc = "begin" /\ db' = db
    BY <1>4 DEF ImportCloses, At, disk
  <2> DEFINE c == [cmd[p] EXCEPT !.pc = "hand over"]
  <2>1. /\ DOMAIN c = Fields /\ c.kind = "import" /\ c.pc = "hand over" /\ c.target = cmd[p].target
        /\ c.todo = cmd[p].todo
    BY <1>0, <1>k DEF Fields
  <2>2. Turn(p, c)
    BY <1>4 DEF ImportCloses, Go
  <2> HIDE DEF c
  <2>3. WriterStock(c, db)
    BY <1>s, <2>0, <2>1 DEF WriterStock
  <2> QED BY <1>w, <2>0, <2>1, <2>2, <2>3, TurnKeeps
<1>5. CASE ImportReports(p)
  BY <1>0, <1>5, <1>e DEF ImportReports, disk
<1>6. CASE ImportCutOff(p)
  <2> DEFINE c == [cmd[p] EXCEPT !.detached = TRUE]
  <2>1. DOMAIN c = Fields /\ Ends(p, c, "cancelled", {}, {}) /\ db' = db
    BY <1>0, <1>6 DEF ImportCutOff, disk
  <2> HIDE DEF c
  <2> QED BY <1>e, <2>1
<1> QED BY <1>1, <1>2, <1>3, <1>4, <1>5, <1>6 DEF ImportStep

LEMMA ImportStruckKeeps ==
  ASSUME Shaped, NEW p \in Procs, Stocked(db), Stock(cmd[p], db), NEW code, ImportStruck(p, code)
  PROVE  Keeps(p)
<1>0. DOMAIN cmd[p] = Fields
  BY DEF Shaped
<1>k. cmd[p].kind = "import" /\ "import" \in Writers
  BY DEF ImportStruck, Writers
<1> DEFINE C(ended) == IF cmd[p].pc = "commit" /\ ~ ended THEN WithoutCandidate(cmd[p])
                ELSE IF cmd[p].pc = "commit" THEN [cmd[p] EXCEPT !.durable = @ \union {Head(cmd[p].todo)}]
                ELSE cmd[p]
           Named(c) == {c.accepted[i] : i \in 1 .. Len(c.accepted)}
<1>1. PICK ended \in BOOLEAN :
        /\ ended => cmd[p].pc = "commit"
        /\ db' = IF ended THEN cmd[p].work ELSE db
        /\ Ends(p, C(ended), code, Named(C(ended)), {})
  BY DEF ImportStruck
<1> DEFINE c == C(ended)
           named == Named(c)
<1>2. DOMAIN c = Fields
  BY <1>0 DEF WithoutCandidate, Fields
<1>3. Ends(p, c, code, named, {})
  BY <1>1
<1> HIDE DEF c, named
<1>4. CASE db' = db
  BY <1>2, <1>3, <1>4, EndsKeep
<1>5. CASE ended /\ db' = cmd[p].work
  <2>1. cmd'[p].pc = "done"
    BY <1>2, <1>3, EndsDoes
  <2>2. Stock(cmd[p], db)'
    BY <2>1 DEF Stock
  <2> QED BY <1>k, <1>1, <1>5, <2>2, WriterCommits
<1> QED BY <1>1, <1>4, <1>5

(***************************************************************************)
(* Deletions                                                               *)
(***************************************************************************)

(* A deletion has so many statements.                                      *)
LEMMA DeletionsCounted ==
  ASSUME NEW c, c.kind \in Deletions
  PROVE  Len(DeletionStatements(c)) \in Nat
<1>1. CASE c.kind = "logs delete"
  BY <1>1 DEF DeletionStatements, DeleteLog
<1>2. CASE c.kind = "jd delete"
  BY <1>2 DEF DeletionStatements, DeleteVacancy
<1>3. CASE c.kind = "purge"
  <2>1. Len(PurgeTableOrder) = 14
    BY DEF PurgeTableOrder
  <2>2. PurgeAll \in Seq({PurgeAll[i] : i \in 1 .. 14})
    BY <2>1 DEF PurgeAll
  <2>3. DeletionStatements(c) = PurgeAll
    BY <1>3 DEF DeletionStatements
  <2> QED BY <2>2, <2>3
<1> QED BY <1>1, <1>2, <1>3 DEF Deletions

LEMMA ConfinedSame ==
  ASSUME NEW c, NEW e, e.kind = c.kind, e.target = c.target, NEW d, NEW work, Confined(c, d, work)
  PROVE  Confined(e, d, work)
BY DEF Confined, Allowed

LEMMA ConfinedItself ==
  ASSUME NEW c, NEW d
  PROVE  Confined(c, d, d)
BY DEF Confined

(* A step that leaves the selector, the statements passed and the view.    *)
LEMMA DeletionStays ==
  ASSUME NEW c, NEW e, e.kind = c.kind, e.target = c.target, e.at = c.at, e.work = c.work,
         NEW d, DeletionStock(c, d),
         \/ e.pc = c.pc
         \/ c.pc \in {"backups", "sets", "rows"} /\ e.pc \in {"sets", "rows"}
         \/ e.pc \in {"hand over", "close", "rebuild", "erase"}
  PROVE  DeletionStock(e, d)
<1>1. Confined(c, d, c.work) => Confined(e, d, e.work)
  BY ConfinedSame
<1> QED BY <1>1 DEF DeletionStock

(* A record a commit takes is one the deletion is of.                      *)
LEMMA AllowedErased ==
  ASSUME NEW p \in Procs, cmd[p].kind \in Deletions, cmd[p].pc = "commit", cmd'[p].committed = TRUE,
         NEW source \in SourceTables, NEW k \in Allowed(cmd[p], source)
  PROVE  Erasing(p, source, k)
<1>1. CASE cmd[p].kind = "logs delete"
  BY <1>1 DEF Allowed, Erasing
<1>2. CASE cmd[p].kind = "jd delete"
  BY <1>2 DEF Allowed, Erasing
<1>3. CASE cmd[p].kind = "purge"
  BY <1>3 DEF Allowed, Erasing
<1> QED BY <1>1, <1>2, <1>3 DEF Deletions

LEMMA DeletionCommitKeeps ==
  ASSUME NEW p \in Procs, cmd[p].kind \in Deletions, cmd[p].pc = "commit",
         Stocked(db), DeletionStock(cmd[p], db), db' = cmd[p].work, cmd'[p].committed = TRUE,
         Stock(cmd[p], db)'
  PROVE  Keeps(p)
<1> DEFINE e == cmd[p].work
<1>1. e \in Database /\ e.sound = TRUE /\ Stored(e) = Current /\ Stored(db) = Current /\ Confined(cmd[p], db, e)
  BY DEF DeletionStock
<1> HIDE DEF e
<1>2. Stocked(e)
  <2>1. e.shape = db.shape
    BY <1>1 DEF Confined
  <2> QED BY <1>1, <2>1 DEF Stocked, Shapen, Current
<1>3. db' = e
  BY DEF e
<1>4. Stocked(db)'
  BY <1>2, <1>3 DEF Stocked, Shapen
<1>5. ASSUME NEW source \in SourceTables, NEW k \in db.rows[source] \ db'.rows[source]
      PROVE  Erasing(p, source, k)
  <2>1. k \in Allowed(cmd[p], source)
    BY <1>1, <1>3, <1>5 DEF Confined
  <2> QED BY <2>1, AllowedErased
<1> QED BY <1>4, <1>5 DEF Keeps

LEMMA RebuiltKept ==
  ASSUME NEW p \in Procs, Stocked(db), db' = Rebuilt(db), Stock(cmd[p], db)'
  PROVE  Keeps(p)
<1> DEFINE e == Rebuilt(db)
<1>1. Stocked(e) /\ \A source \in SourceTables : e.rows[source] = db.rows[source]
  BY RebuiltKeeps
<1> HIDE DEF e
<1>2. db' = e
  BY DEF e
<1>3. Stocked(db)'
  BY <1>1, <1>2 DEF Stocked, Shapen
<1> QED BY <1>1, <1>2, <1>3 DEF Keeps

LEMMA DeletionKeeps ==
  ASSUME Shaped, NEW p \in Procs, Stocked(db), Stock(cmd[p], db), DeletionStep(p)
  PROVE  Keeps(p)
<1>0. DOMAIN cmd[p] = Fields
  BY DEF Shaped
<1>k. cmd[p].kind \in Deletions
  BY DEF DeletionStep, DeletionBegins, RemovesBackup, BackupsRemoved, RemovesSet, SetsRemoved,
         DeletesRows, RowsDeleted, DeletionCommits, Erases, DeletionReports, LogsRebuild, LogsRebuilt,
         DeletionFails, DeletionInterrupted, At, Deletions
<1>s. cmd[p].pc \notin {"done", "dead"} => DeletionStock(cmd[p], db)
  BY <1>k DEF Stock
<1>w. ASSUME NEW c, c.kind = cmd[p].kind, NEW d, DeletionStock(c, d)
      PROVE  Stock(c, d)
  BY <1>k, <1>w, KindsDiffer DEF Stock
<1>e. ASSUME NEW c, DOMAIN c = Fields, NEW code, NEW named, NEW reported,
             Ends(p, c, code, named, reported), db' = db
      PROVE  Keeps(p)
  BY <1>e, EndsKeep
<1>r. ASSUME NEW code, Refuses(p, code), db' = db
      PROVE  Keeps(p)
  BY <1>0, <1>e, <1>r DEF Refuses
<1>t. ASSUME NEW c, DOMAIN c = Fields, Turn(p, c), c.kind = cmd[p].kind, DeletionStock(c, db), db' = db
      PROVE  Keeps(p)
  BY <1>t, <1>w, TurnKeeps
(* A cleaning step: it stays, or passes on, with the view as it is.        *)
<1>c. ASSUME NEW c, DOMAIN c = Fields, Turn(p, c), c.kind = cmd[p].kind, c.target = cmd[p].target,
             c.at = cmd[p].at, c.work = cmd[p].work, db' = db, cmd[p].pc \notin {"done", "dead"},
             \/ c.pc = cmd[p].pc
             \/ cmd[p].pc \in {"backups", "sets", "rows"} /\ c.pc \in {"sets", "rows"}
             \/ c.pc \in {"hand over", "close", "rebuild", "erase"}
      PROVE  Keeps(p)
  <2>1. DeletionStock(c, db)
    BY <1>c, <1>s, DeletionStays
  <2> QED BY <1>c, <1>t, <2>1
<1>1. CASE DeletionBegins(p)
  <2>0. cmd[p].pc = "begin" /\ db' = db
    BY <1>1 DEF DeletionBegins, disk
  <2>1. CASE Turn(p, [cmd[p] EXCEPT !.pc = "backups", !.work = db, !.unproven = {AllBackups}])
    <3> DEFINE c == [cmd[p] EXCEPT !.pc = "backups", !.work = db, !.unproven = {AllBackups}]
    <3>1. DOMAIN c = Fields /\ c.kind = cmd[p].kind /\ c.target = cmd[p].target /\ c.at = cmd[p].at
          /\ c.work = db /\ c.pc = "backups"
      BY <1>0 DEF Fields
    <3>2. Turn(p, c)
      BY <2>1
    <3> HIDE DEF c
    <3>3. Confined(c, db, db)
      BY ConfinedItself
    <3>4. DeletionStock(c, db)
      BY <1>s, <2>0, <3>1, <3>3 DEF DeletionStock, Stocked
    <3> QED BY <1>t, <2>0, <3>1, <3>2, <3>4
  <2>2. CASE Refuses(p, "selector_not_found")
    BY <1>r, <2>0, <2>2
  <2> QED BY <1>1, <2>1, <2>2 DEF DeletionBegins
<1>2. CASE RemovesBackup(p)
  <2>0. cmd[p].pc = "backups" /\ db' = db
    BY <1>2 DEF RemovesBackup
  <2>1. PICK b \in backups :
          \/ Turn(p, [cmd[p] EXCEPT !.unlinks = @ \union {<<"backup", b.of>>}])
          \/ Turn(p, [cmd[p] EXCEPT !.refused = @ \union {<<"backup", b.of>>}])
    BY <1>2 DEF RemovesBackup
  <2> DEFINE c == [cmd[p] EXCEPT !.unlinks = @ \union {<<"backup", b.of>>}]
             e == [cmd[p] EXCEPT !.refused = @ \union {<<"backup", b.of>>}]
  <2>2. /\ DOMAIN c = Fields /\ c.kind = cmd[p].kind /\ c.target = cmd[p].target /\ c.at = cmd[p].at
        /\ c.work = cmd[p].work /\ c.pc = cmd[p].pc
        /\ DOMAIN e = Fields /\ e.kind = cmd[p].kind /\ e.target = cmd[p].target /\ e.at = cmd[p].at
        /\ e.work = cmd[p].work /\ e.pc = cmd[p].pc
    BY <1>0 DEF Fields
  <2>3. Turn(p, c) \/ Turn(p, e)
    BY <2>1
  <2>4. cmd[p].pc \notin {"done", "dead"}
    BY <2>0
  <2> HIDE DEF c, e
  <2> QED BY <1>c, <2>0, <2>2, <2>3, <2>4
<1>3. CASE BackupsRemoved(p)
  <2>0. cmd[p].pc = "backups" /\ db' = db
    BY <1>3 DEF BackupsRemoved, disk
  <2> DEFINE c == [cmd[p] EXCEPT !.pc = "sets", !.residuals = @ \union BackupPlaces,
                       !.refused = {}, !.unproven = {ManagedRoot(cmd[p])}]
             e == [cmd[p] EXCEPT !.pc = "sets", !.residuals = @ \union {AllBackups},
                       !.unlinks = {}, !.refused = {}, !.unproven = {ManagedRoot(cmd[p])}]
  <2>2. /\ DOMAIN c = Fields /\ c.kind = cmd[p].kind /\ c.target = cmd[p].target /\ c.at = cmd[p].at
        /\ c.work = cmd[p].work /\ c.pc = "sets"
        /\ DOMAIN e = Fields /\ e.kind = cmd[p].kind /\ e.target = cmd[p].target /\ e.at = cmd[p].at
        /\ e.work = cmd[p].work /\ e.pc = "sets"
    BY <1>0 DEF Fields
  <2>3. Turn(p, c) \/ Turn(p, e)
    BY <1>3 DEF BackupsRemoved
  <2>4. cmd[p].pc \notin {"done", "dead"}
    BY <2>0
  <2> HIDE DEF c, e
  <2> QED BY <1>c, <2>0, <2>2, <2>3, <2>4
<1>4. CASE RemovesSet(p)
  <2>0. cmd[p].pc = "sets" /\ db' = db
    BY <1>4 DEF RemovesSet
  <2>1. PICK s \in Managed(cmd[p]) \ cmd[p].refused :
          \/ Turn(p, [cmd[p] EXCEPT !.unlinks = IF cmd[p].kind = "jd delete" THEN @ \union {s} ELSE @])
          \/ Turn(p, [cmd[p] EXCEPT !.refused = @ \union {s}])
    BY <1>4 DEF RemovesSet
  <2> DEFINE c == [cmd[p] EXCEPT !.unlinks = IF cmd[p].kind = "jd delete" THEN @ \union {s} ELSE @]
             e == [cmd[p] EXCEPT !.refused = @ \union {s}]
  <2>2. /\ DOMAIN c = Fields /\ c.kind = cmd[p].kind /\ c.target = cmd[p].target /\ c.at = cmd[p].at
        /\ c.work = cmd[p].work /\ c.pc = cmd[p].pc
        /\ DOMAIN e = Fields /\ e.kind = cmd[p].kind /\ e.target = cmd[p].target /\ e.at = cmd[p].at
        /\ e.work = cmd[p].work /\ e.pc = cmd[p].pc
    BY <1>0 DEF Fields
  <2>3. Turn(p, c) \/ Turn(p, e)
    BY <2>1
  <2>4. cmd[p].pc \notin {"done", "dead"}
    BY <2>0
  <2> HIDE DEF c, e
  <2> QED BY <1>c, <2>0, <2>2, <2>3, <2>4
<1>5. CASE SetsRemoved(p)
  <2>0. cmd[p].pc = "sets" /\ db' = db
    BY <1>5 DEF SetsRemoved, disk
  <2> DEFINE c == [cmd[p] EXCEPT !.pc = "rows", !.residuals = @ \union Managed(cmd[p]),
                       !.refused = {}, !.unproven = {}]
             e == [cmd[p] EXCEPT !.pc = "rows", !.residuals = @ \union Stranded(cmd[p]),
                       !.refused = {}, !.unproven = {}]
  <2>2. /\ DOMAIN c = Fields /\ c.kind = cmd[p].kind /\ c.target = cmd[p].target /\ c.at = cmd[p].at
        /\ c.work = cmd[p].work /\ c.pc = "rows"
        /\ DOMAIN e = Fields /\ e.kind = cmd[p].kind /\ e.target = cmd[p].target /\ e.at = cmd[p].at
        /\ e.work = cmd[p].work /\ e.pc = "rows"
    BY <1>0 DEF Fields
  <2>3. Turn(p, c) \/ Turn(p, e)
    BY <1>5 DEF SetsRemoved
  <2>4. cmd[p].pc \notin {"done", "dead"}
    BY <2>0
  <2> HIDE DEF c, e
  <2> QED BY <1>c, <2>0, <2>2, <2>3, <2>4
<1>6. CASE DeletesRows(p)
  <2> DEFINE i == cmd[p].at
             work == cmd[p].work
             len == Len(DeletionStatements(cmd[p]))
             s == DeletionStatements(cmd[p])[i]
             yes == TRUE
             next == Execute(work, s, yes, yes)
             c == [cmd[p] EXCEPT !.work = next, !.at = @ + 1]
  <2>0. /\ cmd[p].pc = "rows" /\ db' = db /\ i <= len
        /\ (next.sound /\ Turn(p, c)) \/ Refuses(p, "internal_error")
    BY <1>6 DEF DeletesRows, disk
  <2>1. CASE Refuses(p, "internal_error")
    BY <1>r, <2>0, <2>1
  <2>2. CASE next.sound /\ Turn(p, c)
    <3>1. /\ cmd[p].target \subseteq Keys /\ i \in Nat \ {0} /\ work \in Database /\ work.sound = TRUE
          /\ Stored(work) = Current /\ Stored(db) = Current /\ Confined(cmd[p], db, work)
      BY <1>s, <2>0 DEF DeletionStock
    <3>2. len \in Nat
      BY <1>k, DeletionsCounted
    <3>3. i \in 1 .. len
      BY <2>0, <3>1, <3>2
    <3>4. Deleting(cmd[p], s)
      BY <1>k, <3>1, <3>3, DeletionSure
    <3>5. next = Execute(work, s, yes, yes) /\ yes = TRUE
      OBVIOUS
    <3>6. /\ DOMAIN c = Fields /\ c.kind = cmd[p].kind /\ c.target = cmd[p].target /\ c.at = i + 1
          /\ c.work = next /\ c.pc = "rows"
      BY <1>0, <2>0 DEF Fields
    <3> HIDE DEF c, next, s, yes, i, len, work
    <3>e. Erased(cmd[p], work, next)
      BY <3>1, <3>4, <3>5, DeletionSpares
    <3>7. next \in Database /\ (next.sound = TRUE => next.versions = work.versions /\ Confined(cmd[p], work, next))
      BY <3>e DEF Erased
    <3>8. next.sound = TRUE
      BY <2>2, <3>7, DatabaseIs
    <3>9. Stored(next) = Current
      BY <3>1, <3>7, <3>8, StoredSame
    <3>10. Confined(cmd[p], db, next)
      BY <3>1, <3>7, <3>8 DEF Confined
    <3>11. Confined(c, db, c.work)
      BY <3>6, <3>10, ConfinedSame
    <3>12. c.at \in Nat \ {0}
      BY <3>1, <3>6
    <3>13. DeletionStock(c, db)
      BY <3>1, <3>6, <3>7, <3>8, <3>9, <3>11, <3>12 DEF DeletionStock
    <3> QED BY <1>t, <2>0, <2>2, <3>6, <3>13
  <2> QED BY <2>0, <2>1, <2>2
<1>7. CASE RowsDeleted(p)
  <2>0. cmd[p].pc = "rows" /\ db' = db
    BY <1>7 DEF RowsDeleted, disk
  <2> DEFINE work == cmd[p].work
             versions == IF cmd[p].kind = "purge" THEN {Current} ELSE work.versions
             next == [work EXCEPT !.versions = versions]
             c == [cmd[p] EXCEPT !.pc = "commit", !.unproven = Unerased(p), !.work = next]
  <2>1. /\ cmd[p].target \subseteq Keys /\ cmd[p].at \in Nat \ {0} /\ work \in Database /\ work.sound = TRUE
        /\ Stored(work) = Current /\ Stored(db) = Current /\ Confined(cmd[p], db, work)
    BY <1>s, <2>0 DEF DeletionStock
  <2>2. Turn(p, c)
    BY <1>0, <1>7 DEF RowsDeleted, Fields
  <2>3. /\ DOMAIN c = Fields /\ c.kind = cmd[p].kind /\ c.target = cmd[p].target /\ c.at = cmd[p].at
        /\ c.work = next /\ c.pc = "commit"
    BY <1>0 DEF Fields
  <2> HIDE DEF c
  <2>4. versions \subseteq 1 .. Current /\ (versions = {Current} \/ versions = work.versions)
    BY <2>1, DatabaseIs DEF Current
  <2> HIDE DEF versions
  <2>5. /\ next \in Database /\ next.sound = TRUE /\ next.rows = work.rows /\ next.shape = work.shape
        /\ next.versions = versions
    BY <2>1, <2>4, DatabaseIs
  <2> HIDE DEF next, work
  <2>6. Stored(next) = Current
    <3>1. CASE versions = {Current}
      <4>1. Current \in 1 .. Current
        BY DEF Current
      <4> QED BY <2>5, <3>1, <4>1, StoredOne
    <3>2. CASE versions = work.versions
      BY <2>1, <2>5, <3>2, StoredSame
    <3> QED BY <2>4, <3>1, <3>2
  <2>7. Confined(cmd[p], db, next)
    BY <2>1, <2>5 DEF Confined
  <2>8. Confined(c, db, c.work)
    BY <2>3, <2>7, ConfinedSame
  <2>9. DeletionStock(c, db)
    BY <2>1, <2>3, <2>5, <2>6, <2>8 DEF DeletionStock
  <2> QED BY <1>t, <2>0, <2>2, <2>3, <2>9
<1>8. CASE DeletionCommits(p)
  <2>0. cmd[p].pc = "commit" /\ db' = cmd[p].work /\ Turn(p, [Committed(p) EXCEPT !.pc = "erase"])
    BY <1>8 DEF DeletionCommits, Commits
  <2> DEFINE c == [Committed(p) EXCEPT !.pc = "erase"]
  <2>1. /\ DOMAIN c = Fields /\ c.kind = cmd[p].kind /\ c.target = cmd[p].target /\ c.at = cmd[p].at
        /\ c.pc = "erase" /\ c.committed = TRUE
    BY <1>0 DEF Fields, Committed
  <2>2. Turn(p, c)
    BY <2>0
  <2> HIDE DEF c
  <2>3. cmd'[p] = c
    BY <2>1, <2>2, TurnDoes
  <2>4. DeletionStock(cmd[p], db)
    BY <1>s, <2>0
  <2>5. DeletionStock(c, db')
    BY <2>1, <2>4 DEF DeletionStock
  <2>6. Stock(cmd'[p], db')
    BY <1>w, <2>1, <2>3, <2>5
  <2> QED BY <1>k, <2>0, <2>1, <2>3, <2>4, <2>6, DeletionCommitKeeps
<1>9. CASE Erases(p)
  <2>0. cmd[p].pc = "erase" /\ db' = db
    BY <1>9 DEF Erases
  <2>1. PICK said : Turn(p, [cmd[p] EXCEPT
                     !.pc = IF cmd[p].kind = "logs delete" THEN "hand over" ELSE "close",
                     !.residuals = @ \union said, !.unproven = {}])
    BY <1>9 DEF Erases
  <2> DEFINE c == [cmd[p] EXCEPT
                     !.pc = IF cmd[p].kind = "logs delete" THEN "hand over" ELSE "close",
                     !.residuals = @ \union said, !.unproven = {}]
  <2>2. /\ DOMAIN c = Fields /\ c.kind = cmd[p].kind /\ c.target = cmd[p].target /\ c.at = cmd[p].at
        /\ c.work = cmd[p].work /\ c.pc \in {"hand over", "close"}
    BY <1>0 DEF Fields
  <2>3. Turn(p, c)
    BY <2>1
  <2>4. cmd[p].pc \notin {"done", "dead"}
    BY <2>0
  <2> HIDE DEF c
  <2> QED BY <1>c, <2>0, <2>2, <2>3, <2>4
<1>10. CASE DeletionReports(p)
  BY <1>0, <1>10, <1>e DEF DeletionReports, disk
<1>11. CASE LogsRebuild(p)
  <2>0. cmd[p].pc = "hand over" /\ db' = db
    BY <1>11 DEF LogsRebuild, At, disk
  <2> DEFINE c == [cmd[p] EXCEPT !.pc = "rebuild"]
  <2>2. /\ DOMAIN c = Fields /\ c.kind = cmd[p].kind /\ c.target = cmd[p].target /\ c.at = cmd[p].at
        /\ c.work = cmd[p].work /\ c.pc = "rebuild"
    BY <1>0 DEF Fields
  <2>3. Turn(p, c)
    BY <1>11 DEF LogsRebuild, Go
  <2>4. cmd[p].pc \notin {"done", "dead"}
    BY <2>0
  <2> HIDE DEF c
  <2> QED BY <1>c, <2>0, <2>2, <2>3, <2>4
<1>12. CASE LogsRebuilt(p)
  <2>0. cmd[p].pc = "rebuild" /\ db' = Rebuilt(db)
    BY <1>12 DEF LogsRebuilt, At
  <2> DEFINE c == [cmd[p] EXCEPT !.pc = "close"]
  <2>2. /\ DOMAIN c = Fields /\ c.kind = cmd[p].kind /\ c.target = cmd[p].target /\ c.at = cmd[p].at
        /\ c.pc = "close"
    BY <1>0 DEF Fields
  <2>3. Turn(p, c)
    BY <1>12 DEF LogsRebuilt, Go
  <2> HIDE DEF c
  <2>4. DeletionStock(c, db')
    BY <1>s, <2>0, <2>2 DEF DeletionStock
  <2>5. cmd'[p] = c
    BY <2>2, <2>3, TurnDoes
  <2>6. Stock(cmd'[p], db')
    BY <1>w, <2>2, <2>4, <2>5
  <2> QED BY <2>0, <2>6, RebuiltKept
(* The commit that ends the command too.                                   *)
<1>d. ASSUME cmd[p].pc = "commit", db' = cmd[p].work, NEW c, DOMAIN c = Fields, c.committed = TRUE,
             NEW code, NEW named, NEW reported, Ends(p, c, code, named, reported)
      PROVE  Keeps(p)
  <2>1. cmd'[p].pc = "done" /\ cmd'[p].committed = c.committed
    BY <1>d, EndsDoes DEF Fields
  <2>2. Stock(cmd[p], db)'
    BY <2>1 DEF Stock
  <2>3. DeletionStock(cmd[p], db)
    BY <1>d, <1>s
  <2> QED BY <1>d, <1>k, <2>1, <2>2, <2>3, DeletionCommitKeeps
<1>m. DOMAIN Committed(p) = Fields /\ Committed(p).committed = TRUE
  BY <1>0 DEF Committed, Fields
<1>13. CASE DeletionFails(p)
  <2>1. CASE cmd[p].pc = "commit" /\ Commits(p) /\ Detached(p, Committed(p), "internal_error")
    <3> DEFINE c == [Committed(p) EXCEPT !.detached = TRUE]
    <3>1. DOMAIN c = Fields /\ c.committed = TRUE
      BY <1>m DEF Fields
    <3>2. Ends(p, c, "internal_error", {}, {})
      BY <2>1 DEF Detached
    <3> HIDE DEF c
    <3> QED BY <1>d, <2>1, <3>1, <3>2 DEF Commits
  <2>2. CASE Refuses(p, "internal_error") /\ db' = db
    BY <1>r, <2>2
  <2>3. CASE Detached(p, cmd[p], "internal_error") /\ db' = db
    <3> DEFINE c == [cmd[p] EXCEPT !.detached = TRUE]
    <3>1. DOMAIN c = Fields /\ Ends(p, c, "internal_error", {}, {})
      BY <1>0, <2>3 DEF Detached
    <3> HIDE DEF c
    <3> QED BY <1>e, <2>3, <3>1
  <2>4. CASE Ends(p, cmd[p], "llm_failed", cmd[p].durable, cmd[p].residuals) /\ db' = db
    BY <1>0, <1>e, <2>4
  <2> QED BY <1>13, <2>1, <2>2, <2>3, <2>4 DEF DeletionFails, disk
<1>14. CASE DeletionInterrupted(p)
  <2>1. CASE cmd[p].pc = "commit" /\ Commits(p)
             /\ Ends(p, Committed(p), "cancelled", Committed(p).durable, Unresolved(Committed(p)))
    <3> DEFINE c == Committed(p)
               named == c.durable
               reported == Unresolved(c)
    <3>1. DOMAIN c = Fields /\ c.committed = TRUE /\ Ends(p, c, "cancelled", named, reported)
      BY <1>m, <2>1
    <3> HIDE DEF c, named, reported
    <3> QED BY <1>d, <2>1, <3>1 DEF Commits
  <2>2. CASE cmd[p].pc \in Working /\ db' = db
             /\ LET c == IF cmd[p].pc = "commit" THEN [cmd[p] EXCEPT !.unproven = {}] ELSE cmd[p]
                IN Ends(p, c, "cancelled", {}, CleanupReported(c))
    <3> DEFINE c == IF cmd[p].pc = "commit" THEN [cmd[p] EXCEPT !.unproven = {}] ELSE cmd[p]
               reported == CleanupReported(c)
    <3>1. DOMAIN c = Fields /\ Ends(p, c, "cancelled", {}, reported)
      BY <1>0, <2>2 DEF Fields
    <3> HIDE DEF c, reported
    <3> QED BY <1>e, <2>2, <3>1
  <2>3. CASE Ends(p, cmd[p], "cancelled", cmd[p].durable, Unresolved(cmd[p])) /\ db' = db
    BY <1>0, <1>e, <2>3
  <2>4. CASE Detached(p, cmd[p], "cancelled") /\ db' = db
    <3> DEFINE c == [cmd[p] EXCEPT !.detached = TRUE]
    <3>1. DOMAIN c = Fields /\ Ends(p, c, "cancelled", {}, {})
      BY <1>0, <2>4 DEF Detached
    <3> HIDE DEF c
    <3> QED BY <1>e, <2>4, <3>1
  <2> QED BY <1>14, <2>1, <2>2, <2>3, <2>4 DEF DeletionInterrupted, disk
<1> QED BY <1>1, <1>2, <1>3, <1>4, <1>5, <1>6, <1>7, <1>8, <1>9, <1>10, <1>11, <1>12, <1>13, <1>14
        DEF DeletionStep

(***************************************************************************)
(* The steps every command takes, and an init's                            *)
(***************************************************************************)

LEMMA GenericKeeps ==
  ASSUME Shaped, NEW p \in Procs, Stocked(db), Stock(cmd[p], db),
         Lock(p) \/ Busy(p) \/ Gate(p) \/ Check(p) \/ Dies(p)
  PROVE  Keeps(p)
<1>0. DOMAIN cmd[p] = Fields
  BY DEF Shaped
<1>r. ASSUME NEW code, Refuses(p, code), db' = db
      PROVE  Keeps(p)
  BY <1>0, <1>r, EndsKeep DEF Refuses
<1>w. ASSUME NEW c, c.kind = cmd[p].kind, cmd[p].pc \notin {"done", "dead"},
             c.kind = "migrate" => (MigrateStock(cmd[p], db) => MigrateStock(c, db)),
             c.kind \in Writers => (WriterStock(cmd[p], db) => WriterStock(c, db)),
             c.kind \in Deletions => (DeletionStock(cmd[p], db) => DeletionStock(c, db))
      PROVE  Stock(c, db)
  BY <1>w DEF Stock
<1>1. CASE Lock(p)
  <2>0. cmd[p].pc = "lock" /\ db' = db
    BY <1>1 DEF Lock, disk
  <2> DEFINE c == [cmd[p] EXCEPT !.pc = "check"]
  <2>1. /\ DOMAIN c = Fields /\ c.kind = cmd[p].kind /\ c.pc = "check" /\ c.seen = cmd[p].seen
        /\ c.at = cmd[p].at /\ c.target = cmd[p].target /\ c.todo = cmd[p].todo
    BY <1>0 DEF Fields
  <2>2. Turn(p, c)
    BY <1>1 DEF Lock, Go
  <2> HIDE DEF c
  <2>3. MigrateStock(cmd[p], db) => MigrateStock(c, db)
    BY <2>0, <2>1 DEF MigrateStock
  <2>4. WriterStock(cmd[p], db) => WriterStock(c, db)
    BY <2>0, <2>1 DEF WriterStock
  <2>5. DeletionStock(cmd[p], db) => DeletionStock(c, db)
    BY <2>0, <2>1 DEF DeletionStock
  <2>6. Stock(c, db)
    BY <1>w, <2>0, <2>1, <2>3, <2>4, <2>5
  <2> QED BY <2>0, <2>1, <2>2, <2>6, TurnKeeps
<1>2. CASE Busy(p)
  BY <1>2, <1>r DEF Busy, disk
<1>3. CASE Gate(p)
  <2>0. cmd[p].pc = "start" /\ db' = db /\ cmd[p].kind \in Writers \union Deletions
    BY <1>3 DEF Gate, disk
  <2>1. CASE Refuses(p, "schema_incompatible") \/ Refuses(p, "selector_not_found")
    BY <1>r, <2>0, <2>1
  <2>2. ASSUME NEW k \in Keys,
               Turn(p, [cmd[p] EXCEPT !.pc = "lock",
                              !.target = IF cmd[p].kind \in {"import", "purge"} THEN {} ELSE {k}])
        PROVE  Keeps(p)
    <3> DEFINE c == [cmd[p] EXCEPT !.pc = "lock",
                              !.target = IF cmd[p].kind \in {"import", "purge"} THEN {} ELSE {k}]
    <3>1. /\ DOMAIN c = Fields /\ c.kind = cmd[p].kind /\ c.pc = "lock"
          /\ c.at = cmd[p].at /\ c.target \subseteq Keys /\ c.todo = cmd[p].todo
      BY <1>0 DEF Fields
    <3>2. Turn(p, c)
      BY <2>2
    <3> HIDE DEF c
    <3>3. c.kind # "migrate"
      BY <2>0, <3>1, KindsDiffer
    <3>4. WriterStock(cmd[p], db) => WriterStock(c, db)
      BY <3>1 DEF WriterStock
    <3>5. DeletionStock(cmd[p], db) => DeletionStock(c, db)
      BY <3>1 DEF DeletionStock
    <3>6. Stock(c, db)
      BY <1>w, <2>0, <3>1, <3>3, <3>4, <3>5
    <3> QED BY <2>0, <3>1, <3>2, <3>6, TurnKeeps
  <2> QED BY <1>3, <2>1, <2>2 DEF Gate
<1>4. CASE Check(p)
  <2>0. cmd[p].pc = "check" /\ db' = db /\ cmd[p].kind \in Writers \union Deletions
    BY <1>4 DEF Check, disk
  <2>1. CASE Refuses(p, "schema_incompatible")
    BY <1>r, <2>0, <2>1
  <2> DEFINE c == [cmd[p] EXCEPT !.pc = "begin",
                        !.retained = IF cmd[p].kind = "import" THEN db.rows["raw_logs"] ELSE {}]
  <2>2. CASE Stored(db) = Current /\ Turn(p, c)
    <3>1. /\ DOMAIN c = Fields /\ c.kind = cmd[p].kind /\ c.pc = "begin"
          /\ c.at = cmd[p].at /\ c.target = cmd[p].target /\ c.todo = cmd[p].todo
      BY <1>0 DEF Fields
    <3> HIDE DEF c
    <3>3. c.kind # "migrate"
      BY <2>0, <3>1, KindsDiffer
    <3>4. WriterStock(cmd[p], db) => WriterStock(c, db)
      BY <3>1 DEF WriterStock
    <3>5. DeletionStock(cmd[p], db) => DeletionStock(c, db)
      BY <2>2, <3>1 DEF DeletionStock
    <3>6. Stock(c, db)
      BY <1>w, <2>0, <3>1, <3>3, <3>4, <3>5
    <3> QED BY <2>0, <2>2, <3>1, <3>6, TurnKeeps
  <2> QED BY <1>4, <2>1, <2>2 DEF Check
<1>5. CASE Dies(p)
  <2>1. db' = db /\ cmd'[p].pc = "dead"
    BY <1>0, <1>5 DEF Dies, disk, Shaped, Fields
  <2> QED BY <2>1 DEF Keeps, Stock, Stocked, Shapen
<1> QED BY <1>1, <1>2, <1>3, <1>4, <1>5

LEMMA StruckKeeps ==
  ASSUME Shaped, NEW p \in Procs, Stocked(db), Stock(cmd[p], db), Struck(p)
  PROVE  Keeps(p)
<1>0. DOMAIN cmd[p] = Fields
  BY DEF Shaped
<1>1. PICK code \in {"internal_error", "cancelled"} :
        InitStruck(p, code) \/ MigrateStruck(p, code) \/ ImportStruck(p, code)
  BY DEF Struck
<1>2. CASE InitStruck(p, code)
  <2>1. db' = db /\ cmd[p].kind = "init"
    BY <1>2 DEF InitStruck, disk
  <2>2. CASE Refuses(p, code)
    BY <1>0, <2>1, <2>2, EndsKeep DEF Refuses
  <2>3. CASE Turn(p, [cmd[p] EXCEPT !.pc = "undo marker", !.code = code])
    <3> DEFINE c == [cmd[p] EXCEPT !.pc = "undo marker", !.code = code]
    <3>1. DOMAIN c = Fields /\ c.kind = "init"
      BY <1>0, <2>1 DEF Fields
    <3>2. Turn(p, c)
      BY <2>3
    <3> HIDE DEF c
    <3>3. Stock(c, db)
      BY <3>1, KindsDiffer DEF Stock
    <3> QED BY <2>1, <3>1, <3>2, <3>3, TurnKeeps
  <2> QED BY <1>2, <2>2, <2>3 DEF InitStruck
<1>3. CASE MigrateStruck(p, code)
  <2> DEFINE said == IF code = "internal_error" /\ cmd[p].pc \notin {"start", "lock", "after"}
                     THEN "migration_failed" ELSE code
  <2>1. db' = db /\ Ends(p, cmd[p], said, {}, cmd[p].residuals)
    BY <1>3 DEF MigrateStruck
  <2> HIDE DEF said
  <2> QED BY <1>0, <2>1, EndsKeep
<1>4. CASE ImportStruck(p, code)
  BY <1>4, ImportStruckKeeps
<1> QED BY <1>1, <1>2, <1>3, <1>4

(* Either every command is an init, over a database of no source record    *)
(* unless they found a workspace, or none is.                              *)
Bare(d) == \A source \in SourceTables : d.rows[source] = {}

Settled == "marker" \in entries /\ \A p \in Procs : cmd[p].pc \in {"start", "done", "dead"}

World ==
  \/ (\A p \in Procs : cmd[p].kind = "init") /\ (Bare(db) \/ Settled)
  \/ \A p \in Procs : cmd[p].kind # "init"

LEMMA EmptyBare == Bare(EmptyFile)
BY TableNames DEF Bare, EmptyFile, NoRows, SourceTables

LEMMA CreateStocked ==
  ASSUME NEW d, Stocked(d)
  PROVE  Stocked(CreateSchema(d)) /\ CreateSchema(d).rows = d.rows
<1> DEFINE e == CreateSchema(d)
<1>0. Current \in 1 .. Current /\ {Current} \subseteq 1 .. Current
  BY DEF Current
<1>1. V12 \subseteq Entries
  BY <1>0, SchemaTyped, VersionsAre DEF Current
<1>2. e = [d EXCEPT !.shape = V12, !.versions = {Current}]
  BY DEF CreateSchema
<1>3. d \in Database /\ d.sound = TRUE
  BY DEF Stocked
<1>4. /\ e \in Database /\ e.sound = TRUE /\ e.shape = V12 /\ e.versions = {Current} /\ e.rows = d.rows
  BY <1>0, <1>1, <1>2, <1>3, DatabaseIs
<1> HIDE DEF e
<1>5. Stored(e) = Current
  BY <1>0, <1>4, StoredOne
<1>6. V12 \ Odd = V12 /\ SchemaSQL[Current] = V12
  BY <1>0, FreshNotOdd, VersionsAre DEF Current
<1>7. Stocked(e)
  BY <1>4, <1>5, <1>6 DEF Stocked, Shapen
<1> QED BY <1>4, <1>7 DEF e

LEMMA InitKeeps ==
  ASSUME Shaped, NEW p \in Procs, Stocked(db), InitStep(p), Bare(db) \/ Settled
  PROVE  /\ Keeps(p)
         /\ Bare(db) => Bare(db)'
         /\ Settled => "marker" \in entries /\ entries' = entries /\ cmd'[p].pc = "done" /\ db' = db
<1>0. DOMAIN cmd[p] = Fields
  BY DEF Shaped
<1>k. cmd[p].kind = "init"
  BY DEF InitStep, InitSees, InitSeesOut, InitMakesOut, InitRestrictsOut, InitMakesMarker, InitFills,
         InitCreatesSchema, InitInspects, InitUndoesMarker, InitUndoesOut, At
(* The step leaves the command an init, whatever it does to it.            *)
<1>t. cmd'[p].kind = "init"
  <2>1. ASSUME NEW c, DOMAIN c = Fields, c.kind = "init", Turn(p, c) PROVE cmd'[p].kind = "init"
    BY <2>1, TurnDoes
  <2>2. ASSUME NEW code, Refuses(p, code) PROVE cmd'[p].kind = "init"
    BY <1>0, <1>k, <2>2, EndsDoes DEF Refuses, Fields
  <2>3. ASSUME NEW pc, Go(p, pc) PROVE cmd'[p].kind = "init"
    <3> DEFINE c == [cmd[p] EXCEPT !.pc = pc]
    <3>1. DOMAIN c = Fields /\ c.kind = "init" /\ Turn(p, c)
      BY <1>0, <1>k, <2>3 DEF Fields, Go
    <3> HIDE DEF c
    <3> QED BY <2>1, <3>1
  <2>4. ASSUME NEW pc, NEW made, Turn(p, [cmd[p] EXCEPT !.pc = pc, !.made = made])
        PROVE  cmd'[p].kind = "init"
    <3> DEFINE c == [cmd[p] EXCEPT !.pc = pc, !.made = made]
    <3>1. DOMAIN c = Fields /\ c.kind = "init" /\ Turn(p, c)
      BY <1>0, <1>k, <2>4 DEF Fields
    <3> HIDE DEF c
    <3> QED BY <2>1, <3>1
  <2>5. ASSUME NEW pc, NEW code, Turn(p, [cmd[p] EXCEPT !.pc = pc, !.code = code])
        PROVE  cmd'[p].kind = "init"
    <3> DEFINE c == [cmd[p] EXCEPT !.pc = pc, !.code = code]
    <3>1. DOMAIN c = Fields /\ c.kind = "init" /\ Turn(p, c)
      BY <1>0, <1>k, <2>5 DEF Fields
    <3> HIDE DEF c
    <3> QED BY <2>1, <3>1
  <2>6. CASE InitSees(p) \/ InitSeesOut(p) \/ InitRestrictsOut(p) \/ InitFills(p) \/ InitCreatesSchema(p)
             \/ InitUndoesMarker(p) \/ InitUndoesOut(p)
    BY <2>2, <2>3, <2>6 DEF InitSees, InitSeesOut, InitRestrictsOut, InitFills, InitCreatesSchema,
                            InitUndoesMarker, InitUndoesOut
  <2>7. CASE InitMakesOut(p)
    BY <2>2, <2>4, <2>7 DEF InitMakesOut
  <2>8. CASE InitMakesMarker(p)
    BY <2>4, <2>5, <2>8 DEF InitMakesMarker
  <2>9. CASE InitInspects(p)
    BY <2>2, <2>5, <2>9 DEF InitInspects
  <2> QED BY <2>6, <2>7, <2>8, <2>9 DEF InitStep
<1>s. \A d : Stock(cmd'[p], d)
  BY <1>t, KindsDiffer DEF Stock
<1>1. ASSUME Bare(db) PROVE Keeps(p) /\ Bare(db)'
  <2>1. db' = db \/ db' = EmptyFile \/ db' = CreateSchema(db)
    BY DEF InitStep, InitSees, InitSeesOut, InitMakesOut, InitRestrictsOut, InitMakesMarker, InitFills,
         InitCreatesSchema, InitInspects, InitUndoesMarker, InitUndoesOut, disk
  <2>2. Stocked(db') /\ Bare(db')
    <3>1. CASE db' = db
      BY <1>1, <3>1
    <3>2. CASE db' = EmptyFile
      BY <3>2, EmptyBare, EmptyStocked
    <3>3. CASE db' = CreateSchema(db)
      BY <1>1, <3>3, CreateStocked DEF Bare
    <3> QED BY <2>1, <3>1, <3>2, <3>3
  <2>3. Stocked(db)' /\ Bare(db)'
    BY <2>2 DEF Stocked, Shapen, Bare
  <2>4. Stock(cmd[p], db)'
    BY <1>s
  <2>5. \A source \in SourceTables : db.rows[source] = {}
    BY <1>1 DEF Bare
  <2> QED BY <2>3, <2>4, <2>5 DEF Keeps
<1>2. ASSUME Settled
      PROVE  Keeps(p) /\ "marker" \in entries /\ entries' = entries /\ cmd'[p].pc = "done" /\ db' = db
  <2>1. cmd[p].pc = "start"
    BY <1>2 DEF Settled, InitStep, InitSees, InitSeesOut, InitMakesOut, InitRestrictsOut, InitMakesMarker,
        InitFills, InitCreatesSchema, InitInspects, InitUndoesMarker, InitUndoesOut, At
  <2>2. InitSees(p)
    BY <2>1 DEF InitStep, InitSeesOut, InitMakesOut, InitRestrictsOut, InitMakesMarker,
        InitFills, InitCreatesSchema, InitInspects, InitUndoesMarker, InitUndoesOut, At
  <2>3. Refuses(p, IF Compatible THEN "opened" ELSE "schema_incompatible") /\ db' = db /\ entries' = entries
        /\ "marker" \in entries
    BY <1>2, <2>2 DEF InitSees, Settled, disk
  <2> DEFINE code == IF Compatible THEN "opened" ELSE "schema_incompatible"
  <2>4. Ends(p, cmd[p], code, {}, {})
    BY <2>3 DEF Refuses
  <2> HIDE DEF code
  <2>5. Keeps(p) /\ cmd'[p].pc = "done"
    BY <1>0, <2>3, <2>4, EndsKeep, EndsDoes
  <2> QED BY <2>3, <2>5
<1> QED BY <1>1, <1>2

(***************************************************************************)
(* Every step                                                              *)
(***************************************************************************)

Stores == Stocked(db) /\ World /\ \A p \in Procs : Stock(cmd[p], db)

LEMMA StepKeeps ==
  ASSUME Shaped, Held, Stores, NEW p \in Procs, Step(p)
  PROVE  Keeps(p)
<1>1. Stocked(db) /\ Stock(cmd[p], db)
  BY DEF Stores
<1>2. CASE InitStep(p)
  <2>1. cmd[p].kind = "init"
    BY <1>2 DEF InitStep, InitSees, InitSeesOut, InitMakesOut, InitRestrictsOut, InitMakesMarker, InitFills,
           InitCreatesSchema, InitInspects, InitUndoesMarker, InitUndoesOut, At
  <2>2. Bare(db) \/ Settled
    BY <2>1 DEF Stores, World
  <2> QED BY <1>1, <1>2, <2>2, InitKeeps
<1> QED BY <1>1, <1>2, MigrateKeeps, GenericKeeps, CaptureKeeps, ImportKeeps, DeletionKeeps, StruckKeeps DEF Step

(* What a command knows of the database it knows under the lock.           *)
LEMMA StockHolds ==
  ASSUME NEW c, NEW d, NEW e, Stock(c, d),
         c.pc \notin Locked \/ c.kind \notin {"migrate"} \union Writers \union Deletions
  PROVE  Stock(c, e)
<1>1. c.pc \in Locked => Stock(c, e)
  BY DEF Stock
<1>2. ASSUME c.pc \notin Locked
      PROVE  Stock(c, e)
  <2>1. c.pc \notin {"backup", "verify", "begin", "step", "statements", "backups", "sets", "rows", "commit", "check"}
    BY <1>2 DEF Locked
  <2>2. MigrateStock(c, d) => MigrateStock(c, e)
    BY <2>1 DEF MigrateStock
  <2>3. WriterStock(c, d) => WriterStock(c, e)
    BY <2>1 DEF WriterStock
  <2>4. DeletionStock(c, d) => DeletionStock(c, e)
    BY <2>1 DEF DeletionStock
  <2> QED BY <2>2, <2>3, <2>4 DEF Stock
<1> QED BY <1>1, <1>2

LEMMA WorldKept ==
  ASSUME Shaped, Held, Stores, NEW p \in Procs, Step(p), Frame(p)
  PROVE  World'
<1>0. \A q \in Procs : cmd'[q].kind = cmd[q].kind
  BY DEF Frame
<1>1. CASE \A q \in Procs : cmd[q].kind # "init"
  BY <1>0, <1>1 DEF World
<1>2. CASE (\A q \in Procs : cmd[q].kind = "init") /\ (Bare(db) \/ Settled)
  <2>1. Stocked(db)
    BY DEF Stores
  <2>k. cmd[p].kind = "init" /\ \A q \in Procs : cmd'[q].kind = "init"
    BY <1>0, <1>2
  <2> DEFINE Ended == "marker" \in entries /\ entries' = entries /\ cmd'[p].pc \in {"done", "dead"}
  <2>2. (Bare(db) => Bare(db)') /\ (Settled => Ended)
    <3>0. db' = db => (Bare(db) => Bare(db)')
      BY DEF Bare
    <3>1. CASE InitStep(p)
      BY <1>2, <2>1, <3>1, InitKeeps
    <3>2. CASE Dies(p)
      <4>1. cmd'[p].pc = "dead" /\ db' = db /\ entries' = entries
        BY <3>2 DEF Dies, disk, Shaped, Fields
      <4> QED BY <3>0, <4>1 DEF Settled
    <3>3. CASE Struck(p)
      <4>1. PICK code \in {"internal_error", "cancelled"} : InitStruck(p, code)
        BY <2>k, <3>3 DEF Struck, MigrateStruck, ImportStruck
      <4>2. db' = db /\ entries' = entries
        BY <4>1 DEF InitStruck, disk
      <4>3. ASSUME Settled PROVE cmd'[p].pc = "done" /\ "marker" \in entries
        <5>1. Refuses(p, code)
          BY <4>1, <4>3 DEF InitStruck, Settled
        <5>2. DOMAIN cmd[p] = Fields
          BY DEF Shaped
        <5> QED BY <4>3, <5>1, <5>2, EndsDoes DEF Refuses, Settled
      <4> QED BY <3>0, <4>2, <4>3
    <3>4. CASE Lock(p) \/ Busy(p)
      <4>1. db' = db /\ cmd[p].pc = "lock"
        BY <3>4 DEF Lock, Busy, disk
      <4> QED BY <3>0, <4>1 DEF Settled
    <3>5. ~ MigrateStep(p) /\ ~ Gate(p) /\ ~ Check(p) /\ ~ CaptureStep(p) /\ ~ ImportStep(p) /\ ~ DeletionStep(p)
      <4>1. ~ MigrateStep(p)
        BY <2>k DEF MigrateStep, MigrateSees, MigrateChecks, MigrateBacksUp, MigrateVerifies, MigrateBegins,
           MigrateCleans, MigrateExecutes, MigrateRecords, MigrateCommits, MigrateReleases,
           MigrateReports, At
      <4>2. ~ Gate(p) /\ ~ Check(p)
        BY <2>k, KindsDiffer DEF Gate, Check
      <4>3. ~ CaptureStep(p)
        BY <2>k DEF CaptureStep, CaptureWrites, CaptureCommits, CaptureReports, CaptureCommitFails, CaptureFails,
             CaptureInterrupted, At
      <4>4. ~ ImportStep(p)
        BY <2>k DEF ImportStep, ImportClassifies, ImportCommits, ImportCollides, ImportCloses, ImportReports,
             ImportCutOff, At
      <4>5. ~ DeletionStep(p)
        BY <2>k, KindsDiffer DEF DeletionStep, DeletionBegins, RemovesBackup, BackupsRemoved, RemovesSet, SetsRemoved,
             DeletesRows, RowsDeleted, DeletionCommits, Erases, DeletionReports, LogsRebuild, LogsRebuilt,
             DeletionFails, DeletionInterrupted, At
      <4> QED BY <4>1, <4>2, <4>3, <4>4, <4>5
    <3> QED BY <3>1, <3>2, <3>3, <3>4, <3>5 DEF Step
  <2>3. CASE Bare(db)
    BY <2>2, <2>3, <2>k DEF World
  <2>4. CASE Settled
    <3>1. Ended
      BY <2>2, <2>4
    <3>2. \A q \in Procs \ {p} : cmd'[q] = cmd[q]
      BY DEF Frame
    <3>3. Settled'
      BY <2>4, <3>1, <3>2 DEF Settled
    <3> QED BY <2>k, <3>3 DEF World
  <2> QED BY <1>2, <2>3, <2>4
<1> QED BY <1>1, <1>2 DEF Stores, World

LEMMA StoresKept ==
  ASSUME Shaped, Held, Stores, NEW p \in Procs, Step(p)
  PROVE  Stores'
<1>1. Frame(p) /\ Keeps(p)
  BY StepFrames, StepKeeps
<1>2. World'
  BY <1>1, WorldKept
<1>3. ASSUME NEW q \in Procs \ {p}
      PROVE  Stock(cmd[q], db)'
  <2>1. cmd'[q] = cmd[q] /\ Stock(cmd[q], db)
    BY <1>1, <1>3 DEF Frame, Stores
  <2>2. CASE db' = db
    BY <2>1, <2>2
  <2>3. CASE cmd[q].kind = "init"
    BY <2>1, <2>3, StockHolds, KindsDiffer
  <2>4. CASE holder = p
    <3>1. cmd[q].pc \notin Locked
      BY <1>3, <2>4 DEF Held, Holding
    <3> QED BY <2>1, <3>1, StockHolds
  <2>5. cmd[p].kind = "init" => cmd[q].kind = "init"
    BY DEF Stores, World
  <2> QED BY <1>1, <2>2, <2>3, <2>4, <2>5 DEF Frame
<1> QED BY <1>1, <1>2, <1>3 DEF Stores, Keeps

LEMMA InitialStocked ==
  ASSUME NEW v \in 0 .. Current, NEW ks, ks \subseteq Keys, NEW flaw
  PROVE  Stocked(InitialDatabase(v, ks, flaw))
<1>1. CASE v = 0
  BY <1>1, EmptyStocked DEF InitialDatabase
<1>2. CASE v # 0
  <2>0. v \in 1 .. Current
    BY <1>2 DEF Current
  <2> DEFINE more == IF flaw = "odd" THEN Odd ELSE {}
             rows == [t \in Tables |-> IF t \in TablesOf(SchemaSQL[v]) THEN ks ELSE {}]
             blank == IF flaw = "blank" THEN ks ELSE {}
             unreadable == IF flaw = "unreadable" THEN ks ELSE {}
             scoped == IF flaw = "scoped" THEN ks ELSE {}
             shape == SchemaSQL[v] \union more
             d == InitialDatabase(v, ks, flaw)
  <2>1. d = [shape |-> shape, rows |-> rows, versions |-> {v}, blank |-> blank,
             unreadable |-> unreadable, scoped |-> scoped, sound |-> TRUE]
    BY <1>2 DEF InitialDatabase, Odd
  <2>2. rows \in [Tables -> SUBSET Keys] /\ blank \subseteq Keys /\ unreadable \subseteq Keys /\ scoped \subseteq Keys
    OBVIOUS
  <2>3. shape \subseteq Entries
    <3>1. "evidence_items" \in Tables \union {"schema_meta"} /\ {"odd"} \in SUBSET (Indexed \union {"odd"})
          /\ 0 \in 0 .. Current
      BY TableNames DEF Current
    <3>2. Odd \subseteq Entries
      BY <3>1, DefTyped DEF Odd
    <3> QED BY <2>0, <3>2, SchemaTyped
  <2>4. shape \ Odd = SchemaSQL[v]
    BY <2>0, FreshNotOdd
  <2>5. {v} \subseteq 1 .. Current
    BY <2>0
  <2> HIDE DEF rows, blank, unreadable, scoped, shape, d
  <2>6. d \in Database /\ d.sound = TRUE /\ d.versions = {v} /\ d.shape = shape
    BY <2>1, <2>2, <2>3, <2>5, DatabaseIs
  <2>7. Stored(d) = v
    BY <2>0, <2>6, StoredOne
  <2> QED BY <2>4, <2>6, <2>7 DEF Stocked, Shapen, d
<1> QED BY <1>1, <1>2

LEMMA InitStores == InitsApart /\ WorkspaceInit => Stores
<1> SUFFICES ASSUME InitsApart, WorkspaceInit PROVE Stores
  OBVIOUS
<1>1. PICK s \in Scenarios :
        /\ entries = s.entries /\ db = InitialDatabase(s.version, s.rows, s.flaw)
        /\ cmd = [p \in Procs |-> [NewCommand(s.kinds[p]) EXCEPT !.todo = s.payload]]
  BY DEF WorkspaceInit
<1>2. \A p \in Procs :
        /\ cmd[p].pc = "start" /\ cmd[p].at = 1 /\ cmd[p].target = {} /\ cmd[p].todo = s.payload
        /\ cmd[p].kind = s.kinds[p]
  BY <1>1 DEF NewCommand
<1>3. /\ s.version \in 0 .. Current /\ s.rows \subseteq Keys /\ s.payload \in Seq(Keys)
      /\ "marker" \notin s.entries => s.version = 0
      /\ (\E p \in Procs : s.kinds[p] = "init") => \A p \in Procs : s.kinds[p] = "init"
  BY ScenariosAssumption DEF InitsApart
<1>4. Stocked(db)
  <2> DEFINE v == s.version
             ks == s.rows
             flaw == s.flaw
  <2>1. v \in 0 .. Current /\ ks \subseteq Keys /\ db = InitialDatabase(v, ks, flaw)
    BY <1>1, <1>3
  <2> HIDE DEF v, ks, flaw
  <2> QED BY <2>1, InitialStocked
<1>5. \A p \in Procs : Stock(cmd[p], db)
  BY <1>2, <1>3 DEF Stock, MigrateStock, WriterStock, DeletionStock
<1>6. World
  <2>1. CASE \A p \in Procs : cmd[p].kind # "init"
    BY <2>1 DEF World
  <2>2. CASE \A p \in Procs : cmd[p].kind = "init"
    <3>1. CASE "marker" \in entries
      BY <1>2, <2>2, <3>1 DEF World, Settled
    <3>2. CASE "marker" \notin entries
      <4>1. db = EmptyFile
        BY <1>1, <1>3, <3>2 DEF InitialDatabase
      <4> QED BY <2>2, <4>1, EmptyBare DEF World
    <3> QED BY <3>1, <3>2
  <2> QED BY <1>2, <1>3, <2>1, <2>2
<1> QED BY <1>4, <1>5, <1>6 DEF Stores

LEMMA StoresStay ==
  ASSUME Shaped, Held, Stores, [Next]_workspaceVars
  PROVE  Stores'
<1>1. ASSUME NEW p \in Procs, Step(p) PROVE Stores'
  BY <1>1, StoresKept
<1>2. CASE UNCHANGED workspaceVars
  BY <1>2 DEF workspaceVars, Stores, World, Settled, Bare, Stocked, Shapen, Stock
<1> QED BY <1>1, <1>2, NextSteps

(* A source record leaves the database only by the commit of a deletion    *)
(* that selected it, whatever captures, imports, migrations and deletions  *)
(* run together, fail or are cut short, and however many inits race for a  *)
(* workspace; not where an init's rollback meets another command's rows    *)
(* (delete_log, delete_job_description, purge_workspace, migrate_workspace)*)
THEOREM NothingLostHolds == InitsApart /\ Spec => NothingLost
<1>1. InitsApart /\ WorkspaceInit => Shaped /\ Held /\ Stores
  BY InitShaped, InitHeld, InitStores
<1>2. Shaped /\ Held /\ Stores /\ [Next]_workspaceVars => (Shaped /\ Held /\ Stores)'
  BY Shapely, StoresStay
<1> DEFINE Loses == \A table \in SourceTables : \A k \in db.rows[table] \ db'.rows[table] :
                      \E p \in Procs : Erasing(p, table, k)
<1>3. Shaped /\ Held /\ Stores /\ [Next]_workspaceVars => [Loses]_workspaceVars
  <2> SUFFICES ASSUME Shaped, Held, Stores, [Next]_workspaceVars, ~ UNCHANGED workspaceVars
               PROVE  Loses
    OBVIOUS
  <2>1. PICK p \in Procs : Step(p)
    BY NextSteps
  <2>2. Keeps(p)
    BY <2>1, StepKeeps
  <2> QED BY <2>2 DEF Keeps
<1>4. NothingLost <=> [][Loses]_workspaceVars
  BY DEF NothingLost
<1> HIDE DEF Loses
<1> QED BY <1>1, <1>2, <1>3, <1>4, PTL DEF Spec

(***************************************************************************)
(* The backup of a migration                                               *)
(***************************************************************************)

BackupSet == [of : Procs \union {None}, whole : BOOLEAN, copy : Database]

(* What a migration has put aside of the database it found.                *)
Vaulted(p, c, d, bs) ==
  /\ c.committed \in BOOLEAN
  /\ c.pc = "verify" => \E b \in bs : b.of = p /\ b.copy = d
  /\ c.pc \in {"begin", "step", "statements"} => \E b \in bs : b.of = p /\ b.whole = TRUE /\ b.copy = d
  /\ c.committed = TRUE =>
       /\ c.pc \in {"restore", "after", "done", "dead"} /\ Stored(d) = Current
       /\ \E b \in bs : b.of = p /\ b.whole = TRUE /\ KeepsAll(b.copy, d)

(* A deletion removes the backups and an init's rollback the directory.    *)
Alone == (\E p \in Procs : cmd[p].kind = "migrate") =>
           \A p \in Procs : cmd[p].kind \notin Deletions \union {"init"}

Vaults ==
  /\ Alone /\ backups \subseteq BackupSet
  /\ \A p \in Procs : cmd[p].kind = "migrate" => Vaulted(p, cmd[p], db, backups)

(* The command goes on, or ends, without touching database or backups.     *)
LEMMA StaysVaulted ==
  ASSUME NEW p, NEW c, NEW e, NEW d, NEW bs, Vaulted(p, c, d, bs), e.committed = c.committed,
         \/ e.pc = c.pc
         \/ e.pc \in {"done", "dead"}
         \/ c.pc \in {"begin", "step", "statements"} /\ e.pc \in {"step", "statements"}
         \/ c.pc \notin {"restore", "after", "done", "dead"} /\ e.pc \in {"lock", "check", "backup"}
         \/ c.pc \in {"restore", "after"} /\ e.pc \in {"restore", "after"}
  PROVE  Vaulted(p, e, d, bs)
BY DEF Vaulted

LEMMA MigrateVaults ==
  ASSUME Shaped, NEW p \in Procs, Stocked(db), Stock(cmd[p], db), backups \subseteq BackupSet,
         Vaulted(p, cmd[p], db, backups), MigrateStep(p)
  PROVE  /\ Vaulted(p, cmd'[p], db', backups') /\ backups' \subseteq BackupSet
         /\ \A b \in backups : b.of # p => b \in backups'
<1>0. DOMAIN cmd[p] = Fields
  BY DEF Shaped
<1>k. cmd[p].kind = "migrate"
  BY DEF MigrateStep, MigrateSees, MigrateChecks, MigrateBacksUp, MigrateVerifies, MigrateBegins,
         MigrateCleans, MigrateExecutes, MigrateRecords, MigrateCommits, MigrateReleases,
         MigrateReports, At
<1>s. cmd[p].pc \notin {"done", "dead"} => MigrateStock(cmd[p], db)
  BY <1>k DEF Stock
<1>d. db \in Database
  BY DEF Stocked
<1>t. ASSUME NEW c, DOMAIN c = Fields, Turn(p, c)
      PROVE  cmd'[p] = c
  BY <1>t, TurnDoes
<1>e. ASSUME NEW code, NEW named, NEW reported, Ends(p, cmd[p], code, named, reported), db' = db, backups' = backups
      PROVE  Vaulted(p, cmd'[p], db', backups')
  <2>1. cmd'[p].pc = "done" /\ cmd'[p].committed = cmd[p].committed
    BY <1>0, <1>e, EndsDoes DEF Fields
  <2> QED BY <1>e, <2>1, StaysVaulted
<1>r. ASSUME NEW code, Refuses(p, code), db' = db, backups' = backups
      PROVE  Vaulted(p, cmd'[p], db', backups')
  BY <1>e, <1>r DEF Refuses
<1>1. CASE MigrateSees(p)
  <2>0. cmd[p].pc = "start" /\ db' = db /\ backups' = backups
    BY <1>1 DEF MigrateSees, At, disk
  <2> DEFINE c == [cmd[p] EXCEPT !.pc = "lock", !.seen = Stored(db)]
  <2>1. CASE Turn(p, c)
    <3>1. DOMAIN c = Fields /\ c.pc = "lock" /\ c.committed = cmd[p].committed
      BY <1>0 DEF Fields
    <3>2. cmd'[p] = c
      BY <1>t, <2>1, <3>1
    <3> HIDE DEF c
    <3> QED BY <2>0, <3>1, <3>2, StaysVaulted
  <2>2. CASE Refuses(p, IF Compatible THEN "up to date" ELSE "schema_incompatible")
    BY <1>r, <2>0, <2>2
  <2> QED BY <1>1, <2>0, <2>1, <2>2 DEF MigrateSees
<1>2. CASE MigrateChecks(p)
  <2>0. cmd[p].pc = "check" /\ db' = db /\ backups' = backups
    BY <1>2 DEF MigrateChecks, At, disk
  <2> DEFINE c == [cmd[p] EXCEPT !.pc = "backup"]
  <2>1. CASE Go(p, "backup")
    <3>1. DOMAIN c = Fields /\ c.pc = "backup" /\ c.committed = cmd[p].committed /\ Turn(p, c)
      BY <1>0, <2>1 DEF Fields, Go
    <3>2. cmd'[p] = c
      BY <1>t, <3>1
    <3> HIDE DEF c
    <3> QED BY <2>0, <3>1, <3>2, StaysVaulted
  <2>2. CASE Refuses(p, "schema_incompatible")
    BY <1>r, <2>0, <2>2
  <2> QED BY <1>2, <2>0, <2>1, <2>2 DEF MigrateChecks
<1>3. CASE MigrateBacksUp(p)
  <2> DEFINE b == [of |-> p, whole |-> FALSE, copy |-> db]
             c == [cmd[p] EXCEPT !.pc = "verify"]
  <2>0. cmd[p].pc = "backup" /\ db' = db /\ backups' = backups \union {b}
    BY <1>3 DEF MigrateBacksUp, At
  <2>1. DOMAIN c = Fields /\ c.pc = "verify" /\ c.committed = cmd[p].committed /\ Turn(p, c)
    BY <1>0, <1>3 DEF Fields, Go, MigrateBacksUp
  <2>2. cmd'[p] = c
    BY <1>t, <2>1
  <2> HIDE DEF c
  <2>3. b \in BackupSet /\ b.of = p /\ b.copy = db
    BY <1>d DEF BackupSet
  <2> HIDE DEF b
  <2>4. Vaulted(p, c, db, backups')
    BY <2>0, <2>1, <2>3 DEF Vaulted
  <2> QED BY <2>0, <2>2, <2>3, <2>4
<1>4. CASE MigrateVerifies(p)
  <2> DEFINE V(b) == IF b.of = p THEN [b EXCEPT !.whole = TRUE] ELSE b
             c == [cmd[p] EXCEPT !.pc = "begin", !.backup = TRUE]
  <2>0. cmd[p].pc = "verify" /\ db' = db /\ backups' = {V(b) : b \in backups}
    BY <1>4 DEF MigrateVerifies, At
  <2>1. DOMAIN c = Fields /\ c.pc = "begin" /\ c.committed = cmd[p].committed /\ Turn(p, c)
    BY <1>0, <1>4 DEF Fields, MigrateVerifies
  <2>2. cmd'[p] = c
    BY <1>t, <2>1
  <2> HIDE DEF c
  <2>3. ASSUME NEW b \in backups
        PROVE  /\ V(b) \in BackupSet /\ V(b).of = b.of /\ V(b).copy = b.copy
               /\ b.of = p => V(b).whole = TRUE
               /\ b.of # p => V(b) = b
    BY <2>3 DEF BackupSet
  <2> HIDE DEF V
  <2>4. PICK b \in backups : b.of = p /\ b.copy = db
    BY <2>0 DEF Vaulted
  <2>5. V(b) \in backups' /\ V(b).of = p /\ V(b).whole = TRUE /\ V(b).copy = db
    BY <2>0, <2>3, <2>4
  <2>6. Vaulted(p, c, db, backups')
    BY <2>0, <2>1, <2>5 DEF Vaulted
  <2> QED BY <2>0, <2>2, <2>3, <2>6
<1>5. CASE MigrateBegins(p)
  <2> DEFINE c == [cmd[p] EXCEPT !.pc = "step", !.work = db]
  <2>0. cmd[p].pc = "begin" /\ db' = db /\ backups' = backups
    BY <1>5 DEF MigrateBegins, At, disk
  <2>1. DOMAIN c = Fields /\ c.pc = "step" /\ c.committed = cmd[p].committed /\ Turn(p, c)
    BY <1>0, <1>5 DEF Fields, MigrateBegins
  <2>2. cmd'[p] = c
    BY <1>t, <2>1
  <2> HIDE DEF c
  <2> QED BY <2>0, <2>1, <2>2, StaysVaulted
<1>6. CASE MigrateCleans(p)
  <2>0. cmd[p].pc = "step" /\ db' = db /\ backups' = backups
    BY <1>6 DEF MigrateCleans, At
  <2>1. cmd'[p].pc = "statements" /\ cmd'[p].committed = cmd[p].committed
    <3>1. CASE Go(p, "statements")
      <4> DEFINE c == [cmd[p] EXCEPT !.pc = "statements"]
      <4>1. DOMAIN c = Fields /\ c.pc = "statements" /\ c.committed = cmd[p].committed /\ Turn(p, c)
        BY <1>0, <3>1 DEF Fields, Go
      <4> HIDE DEF c
      <4> QED BY <1>t, <4>1
    <3>2. ASSUME NEW left, Turn(p, [cmd[p] EXCEPT !.pc = "statements", !.residuals = @ \union left])
          PROVE  cmd'[p].pc = "statements" /\ cmd'[p].committed = cmd[p].committed
      <4> DEFINE c == [cmd[p] EXCEPT !.pc = "statements", !.residuals = @ \union left]
      <4>1. DOMAIN c = Fields /\ c.pc = "statements" /\ c.committed = cmd[p].committed /\ Turn(p, c)
        BY <1>0, <3>2 DEF Fields
      <4> HIDE DEF c
      <4> QED BY <1>t, <4>1
    <3> QED BY <1>6, <3>1, <3>2 DEF MigrateCleans
  <2> QED BY <2>0, <2>1, StaysVaulted
<1>7. CASE MigrateExecutes(p)
  <2>0. cmd[p].pc = "statements" /\ db' = db /\ backups' = backups
    BY <1>7 DEF MigrateExecutes, At, disk
  <2>1. CASE Ends(p, cmd[p], "migration_failed", {}, cmd[p].residuals)
    BY <1>e, <2>0, <2>1
  <2>2. ASSUME NEW next, Turn(p, [cmd[p] EXCEPT !.work = next, !.at = @ + 1])
        PROVE  Vaulted(p, cmd'[p], db', backups')
    <3> DEFINE c == [cmd[p] EXCEPT !.work = next, !.at = @ + 1]
    <3>1. DOMAIN c = Fields /\ c.pc = cmd[p].pc /\ c.committed = cmd[p].committed /\ Turn(p, c)
      BY <1>0, <2>2 DEF Fields
    <3>2. cmd'[p] = c
      BY <1>t, <3>1
    <3> HIDE DEF c
    <3> QED BY <2>0, <3>1, <3>2, StaysVaulted
  <2> QED BY <1>7, <2>0, <2>1, <2>2 DEF MigrateExecutes
<1>8. CASE MigrateRecords(p)
  <2> DEFINE next == [cmd[p].work EXCEPT !.versions = @ \union {Stored(cmd[p].work) + 1}]
             c == [cmd[p] EXCEPT !.pc = "step", !.at = 1, !.work = next]
  <2>0. cmd[p].pc = "statements" /\ db' = db /\ backups' = backups
    BY <1>8 DEF MigrateRecords, At, disk
  <2>1. Turn(p, c)
    BY <1>0, <1>8 DEF MigrateRecords, Fields
  <2>2. DOMAIN c = Fields /\ c.pc = "step" /\ c.committed = cmd[p].committed
    BY <1>0 DEF Fields
  <2>3. cmd'[p] = c
    BY <1>t, <2>1, <2>2
  <2> HIDE DEF c
  <2> QED BY <2>0, <2>2, <2>3, StaysVaulted
<1>9. CASE MigrateCommits(p)
  <2>0. cmd[p].pc = "step" /\ backups' = backups
    BY <1>9 DEF MigrateCommits, At
  <2>1. CASE Ends(p, cmd[p], "migration_failed", {}, cmd[p].residuals) /\ db' = db
    BY <1>e, <2>0, <2>1
  <2> DEFINE c == [cmd[p] EXCEPT !.pc = "restore", !.committed = TRUE]
  <2>2. CASE ValidTarget(cmd[p].work) /\ db' = cmd[p].work /\ Turn(p, c)
    <3>1. DOMAIN c = Fields /\ c.pc = "restore" /\ c.committed = TRUE
      BY <1>0 DEF Fields
    <3>2. cmd'[p] = c
      BY <1>t, <2>2, <3>1
    <3> HIDE DEF c
    <3>3. KeepsAll(db, cmd[p].work) /\ Stored(cmd[p].work) = Current
      BY <1>s, <2>0, <2>2 DEF MigrateStock, ValidTarget
    <3>4. PICK b \in backups : b.of = p /\ b.whole = TRUE /\ b.copy = db
      BY <2>0 DEF Vaulted
    <3>5. KeepsAll(b.copy, cmd[p].work)
      BY <3>3, <3>4
    <3>6. Vaulted(p, c, cmd[p].work, backups)
      BY <3>1, <3>3, <3>4, <3>5 DEF Vaulted
    <3> QED BY <2>0, <2>2, <3>2, <3>6
  <2> QED BY <1>9, <2>0, <2>1, <2>2 DEF MigrateCommits
<1>10. CASE MigrateReleases(p)
  <2> DEFINE c == [cmd[p] EXCEPT !.pc = "after"]
  <2>0. cmd[p].pc = "restore" /\ db' = db /\ backups' = backups
    BY <1>10 DEF MigrateReleases, At, disk
  <2>1. DOMAIN c = Fields /\ c.pc = "after" /\ c.committed = cmd[p].committed /\ Turn(p, c)
    BY <1>0, <1>10 DEF Fields, Go, MigrateReleases
  <2>2. cmd'[p] = c
    BY <1>t, <2>1
  <2> HIDE DEF c
  <2> QED BY <2>0, <2>1, <2>2, StaysVaulted
<1>11. CASE MigrateReports(p)
  BY <1>e, <1>11 DEF MigrateReports, disk
<1> QED BY <1>1, <1>2, <1>3, <1>4, <1>5, <1>6, <1>7, <1>8, <1>9, <1>10, <1>11 DEF MigrateStep

(* The other steps of a migration.                                         *)
LEMMA OtherVaults ==
  ASSUME Shaped, NEW p \in Procs, cmd[p].kind = "migrate", backups \subseteq BackupSet,
         Vaulted(p, cmd[p], db, backups), Lock(p) \/ Busy(p) \/ Dies(p) \/ Struck(p)
  PROVE  /\ Vaulted(p, cmd'[p], db', backups') /\ backups' \subseteq BackupSet
         /\ \A b \in backups : b.of # p => b \in backups'
<1>0. DOMAIN cmd[p] = Fields
  BY DEF Shaped
<1>1. CASE Lock(p)
  <2> DEFINE c == [cmd[p] EXCEPT !.pc = "check"]
  <2>0. cmd[p].pc = "lock" /\ db' = db /\ backups' = backups
    BY <1>1 DEF Lock, disk
  <2>1. DOMAIN c = Fields /\ c.pc = "check" /\ c.committed = cmd[p].committed /\ Turn(p, c)
    BY <1>0, <1>1 DEF Fields, Go, Lock
  <2>2. cmd'[p] = c
    BY <2>1, TurnDoes
  <2> HIDE DEF c
  <2> QED BY <2>0, <2>1, <2>2, StaysVaulted
<1>2. CASE Busy(p)
  <2>0. Ends(p, cmd[p], "workspace_busy", {}, {}) /\ db' = db /\ backups' = backups
    BY <1>2 DEF Busy, Refuses, disk
  <2>1. cmd'[p].pc = "done" /\ cmd'[p].committed = cmd[p].committed
    BY <1>0, <2>0, EndsDoes DEF Fields
  <2> QED BY <2>0, <2>1, StaysVaulted
<1>3. CASE Dies(p)
  <2>1. /\ cmd'[p].pc = "dead" /\ cmd'[p].committed = cmd[p].committed
        /\ db' = db /\ backups' = backups
    BY <1>0, <1>3 DEF Dies, disk, Shaped, Fields
  <2> QED BY <2>1, StaysVaulted
<1>4. CASE Struck(p)
  <2>1. PICK code \in {"internal_error", "cancelled"} : MigrateStruck(p, code)
    BY <1>4 DEF Struck, InitStruck, ImportStruck
  <2> DEFINE said == IF code = "internal_error" /\ cmd[p].pc \notin {"start", "lock", "after"}
                     THEN "migration_failed" ELSE code
  <2>2. /\ db' = db /\ Ends(p, cmd[p], said, {}, cmd[p].residuals)
        /\ \/ cmd[p].pc = "verify" /\ backups' = {b \in backups : b.of # p}
           \/ backups' = backups
    BY <2>1 DEF MigrateStruck
  <2> HIDE DEF said
  <2>3. cmd'[p].pc = "done" /\ cmd'[p].committed = cmd[p].committed
    BY <1>0, <2>2, EndsDoes DEF Fields
  <2>4. CASE backups' = backups
    BY <2>2, <2>3, <2>4, StaysVaulted
  <2>5. CASE cmd[p].pc = "verify" /\ backups' = {b \in backups : b.of # p}
    <3>1. cmd[p].committed = FALSE
      BY <2>5 DEF Vaulted
    <3>2. Vaulted(p, cmd'[p], db', backups')
      BY <2>3, <3>1 DEF Vaulted
    <3> QED BY <2>5, <3>2
  <2> QED BY <2>2, <2>4, <2>5
<1> QED BY <1>1, <1>2, <1>3, <1>4

(* The steps of a writer leave the backups and at most add to the database. *)
LEMMA WriterSpares ==
  ASSUME NEW p \in Procs, cmd[p].kind \notin Deletions \union {"init", "migrate"}, Stock(cmd[p], db), Step(p)
  PROVE  backups' = backups /\ (db' = db \/ Grown(db, db'))
<1>k. cmd[p].kind \notin Deletions /\ cmd[p].kind # "init" /\ cmd[p].kind # "migrate"
  OBVIOUS
<1>1. ~ InitStep(p) /\ ~ MigrateStep(p) /\ ~ DeletionStep(p)
  <2>1. ~ InitStep(p)
    BY <1>k DEF InitStep, InitSees, InitSeesOut, InitMakesOut, InitRestrictsOut, InitMakesMarker, InitFills,
             InitCreatesSchema, InitInspects, InitUndoesMarker, InitUndoesOut, At
  <2>2. ~ MigrateStep(p)
    BY <1>k DEF MigrateStep, MigrateSees, MigrateChecks, MigrateBacksUp, MigrateVerifies, MigrateBegins,
           MigrateCleans, MigrateExecutes, MigrateRecords, MigrateCommits, MigrateReleases,
           MigrateReports, At
  <2>3. ~ DeletionStep(p)
    BY <1>k, KindsDiffer DEF DeletionStep, DeletionBegins, RemovesBackup, BackupsRemoved, RemovesSet, SetsRemoved,
             DeletesRows, RowsDeleted, DeletionCommits, Erases, DeletionReports, LogsRebuild, LogsRebuilt,
             DeletionFails, DeletionInterrupted, At, Deletions
  <2> QED BY <2>1, <2>2, <2>3
<1>2. CASE Lock(p) \/ Busy(p) \/ Gate(p) \/ Check(p) \/ Dies(p)
  BY <1>2 DEF Lock, Busy, Gate, Check, Dies, disk
<1>g. ASSUME cmd[p].kind \in Writers, cmd[p].pc = "commit"
      PROVE  Grown(db, cmd[p].work)
  BY <1>g DEF Stock, WriterStock
<1>3. CASE CaptureStep(p)
  <2>1. cmd[p].kind = "capture" /\ cmd[p].kind \in Writers
    BY <1>3 DEF CaptureStep, CaptureWrites, CaptureCommits, CaptureReports, CaptureCommitFails, CaptureFails,
             CaptureInterrupted, At, Writers
  <2>2. backups' = backups /\ (db' = db \/ (cmd[p].pc = "commit" /\ db' = cmd[p].work))
    BY <1>3 DEF CaptureStep, CaptureWrites, CaptureCommits, CaptureReports, CaptureCommitFails, CaptureFails,
             CaptureInterrupted, At, disk
  <2> QED BY <1>g, <2>1, <2>2
<1>4. CASE ImportStep(p)
  <2>1. cmd[p].kind = "import" /\ cmd[p].kind \in Writers
    BY <1>4 DEF ImportStep, ImportClassifies, ImportCommits, ImportCollides, ImportCloses, ImportReports,
             ImportCutOff, At, Writers
  <2>2. backups' = backups /\ (db' = db \/ (cmd[p].pc = "commit" /\ db' = cmd[p].work))
    BY <1>4 DEF ImportStep, ImportClassifies, ImportCommits, ImportCollides, ImportCloses, ImportReports,
             ImportCutOff, At, disk
  <2> QED BY <1>g, <2>1, <2>2
<1>5. CASE Struck(p)
  <2>1. PICK code : ImportStruck(p, code)
    BY <1>5, <1>k DEF Struck, InitStruck, MigrateStruck
  <2>2. cmd[p].kind \in Writers /\ backups' = backups /\ (db' = db \/ (cmd[p].pc = "commit" /\ db' = cmd[p].work))
    BY <2>1 DEF ImportStruck, Writers
  <2> QED BY <1>g, <2>2
<1> QED BY <1>1, <1>2, <1>3, <1>4, <1>5 DEF Step

LEMMA BackupsTyped ==
  ASSUME Shaped, NEW p \in Procs, backups \subseteq BackupSet, db \in Database, Step(p)
  PROVE  backups' \subseteq BackupSet
<1>1. CASE InitStep(p)
  BY <1>1 DEF InitStep, InitSees, InitSeesOut, InitMakesOut, InitRestrictsOut, InitMakesMarker, InitFills,
             InitCreatesSchema, InitInspects, InitUndoesMarker, InitUndoesOut, disk
<1>2. CASE MigrateBacksUp(p)
  <2>1. backups' = backups \union {[of |-> p, whole |-> FALSE, copy |-> db]}
    BY <1>2 DEF MigrateBacksUp
  <2>2. [of |-> p, whole |-> FALSE, copy |-> db] \in BackupSet
    BY DEF BackupSet
  <2> QED BY <2>1, <2>2
<1>3. CASE MigrateVerifies(p)
  <2>1. backups' = {IF b.of = p THEN [b EXCEPT !.whole = TRUE] ELSE b : b \in backups}
    BY <1>3 DEF MigrateVerifies
  <2>2. \A b \in backups : [b EXCEPT !.whole = TRUE] \in BackupSet
    BY DEF BackupSet
  <2> QED BY <2>1, <2>2
<1>4. CASE MigrateStep(p) /\ ~ MigrateBacksUp(p) /\ ~ MigrateVerifies(p)
  BY <1>4 DEF MigrateStep, MigrateSees, MigrateChecks, MigrateBegins,
         MigrateCleans, MigrateExecutes, MigrateRecords, MigrateCommits, MigrateReleases,
         MigrateReports, disk
<1>5. CASE Lock(p) \/ Busy(p) \/ Gate(p) \/ Check(p) \/ Dies(p)
  BY <1>5 DEF Lock, Busy, Gate, Check, Dies, disk
<1>6. CASE CaptureStep(p)
  BY <1>6 DEF CaptureStep, CaptureWrites, CaptureCommits, CaptureReports, CaptureCommitFails, CaptureFails,
             CaptureInterrupted, disk
<1>7. CASE ImportStep(p)
  BY <1>7 DEF ImportStep, ImportClassifies, ImportCommits, ImportCollides, ImportCloses, ImportReports,
             ImportCutOff, disk
<1>8. CASE DeletionStep(p)
  BY <1>8 DEF DeletionStep, DeletionBegins, RemovesBackup, BackupsRemoved, RemovesSet, SetsRemoved,
             DeletesRows, RowsDeleted, DeletionCommits, Erases, DeletionReports, LogsRebuild, LogsRebuilt,
             DeletionFails, DeletionInterrupted, disk
<1>9. CASE Struck(p)
  BY <1>9 DEF Struck, InitStruck, MigrateStruck, ImportStruck, disk
<1> QED BY <1>1, <1>2, <1>3, <1>4, <1>5, <1>6, <1>7, <1>8, <1>9 DEF Step

(* A migration is a step of db migrate, or one every command takes.        *)
LEMMA MigrateActs ==
  ASSUME NEW p \in Procs, cmd[p].kind = "migrate", Step(p)
  PROVE  MigrateStep(p) \/ Lock(p) \/ Busy(p) \/ Dies(p) \/ Struck(p)
<1>1. ~ InitStep(p)
  BY DEF InitStep, InitSees, InitSeesOut, InitMakesOut, InitRestrictsOut, InitMakesMarker, InitFills,
             InitCreatesSchema, InitInspects, InitUndoesMarker, InitUndoesOut, At
<1>2. ~ Gate(p) /\ ~ Check(p)
  BY KindsDiffer DEF Gate, Check
<1>3. ~ CaptureStep(p)
  BY DEF CaptureStep, CaptureWrites, CaptureCommits, CaptureReports, CaptureCommitFails, CaptureFails,
             CaptureInterrupted, At
<1>4. ~ ImportStep(p)
  BY DEF ImportStep, ImportClassifies, ImportCommits, ImportCollides, ImportCloses, ImportReports,
             ImportCutOff, At
<1>5. ~ DeletionStep(p)
  BY KindsDiffer DEF DeletionStep, DeletionBegins, RemovesBackup, BackupsRemoved, RemovesSet, SetsRemoved,
             DeletesRows, RowsDeleted, DeletionCommits, Erases, DeletionReports, LogsRebuild, LogsRebuilt,
             DeletionFails, DeletionInterrupted, At, Deletions
<1> QED BY <1>1, <1>2, <1>3, <1>4, <1>5 DEF Step

LEMMA VaultsKept ==
  ASSUME Shaped, Held, Stores, Vaults, NEW p \in Procs, Step(p)
  PROVE  Vaults'
<1>1. Frame(p)
  BY StepFrames
<1>2. \A q \in Procs : cmd'[q].kind = cmd[q].kind
  BY <1>1 DEF Frame
<1>3. Alone'
  BY <1>2 DEF Vaults, Alone
<1>4. backups' \subseteq BackupSet
  BY BackupsTyped DEF Vaults, Stores, Stocked
<1>5. ASSUME NEW q \in Procs, cmd'[q].kind = "migrate"
      PROVE  Vaulted(q, cmd'[q], db', backups')
  <2>0. cmd[q].kind = "migrate" /\ Vaulted(q, cmd[q], db, backups)
    BY <1>2, <1>5 DEF Vaults
  <2>1. cmd[p].kind \notin Deletions \union {"init"}
    BY <2>0 DEF Vaults, Alone
  <2>s. Stocked(db) /\ Stock(cmd[p], db) /\ backups \subseteq BackupSet
    BY DEF Stores, Vaults
  <2>2. CASE q = p
    BY <2>0, <2>2, <2>s, MigrateActs, MigrateVaults, OtherVaults
  <2>3. CASE q # p
    <3>1. cmd'[q] = cmd[q]
      BY <1>1, <2>3 DEF Frame
    <3>2. \A b \in backups : b.of = q => b \in backups'
      <4>1. CASE cmd[p].kind = "migrate"
        <5>1. Vaulted(p, cmd[p], db, backups)
          BY <4>1 DEF Vaults
        <5>2. \A b \in backups : b.of # p => b \in backups'
          BY <4>1, <5>1, <2>s, MigrateActs, MigrateVaults, OtherVaults
        <5> QED BY <2>3, <5>2
      <4>2. CASE cmd[p].kind # "migrate"
        BY <2>1, <2>s, <4>2, WriterSpares
      <4> QED BY <4>1, <4>2
    <3>3. cmd[q].pc \in {"verify", "begin", "step", "statements"} => db' = db
      <4>1. ASSUME cmd[q].pc \in {"verify", "begin", "step", "statements"} PROVE db' = db
        <5>1. holder = q
          BY <4>1 DEF Held, Holding, Locked
        <5> QED BY <1>1, <2>1, <2>3, <5>1 DEF Frame
      <4> QED BY <4>1
    <3>4. cmd[q].committed = TRUE => db' = db \/ Grown(db, db')
      <4>1. CASE cmd[p].kind = "migrate" /\ db' # db
        <5>1. cmd[p].pc = "step"
          BY <4>1, MigrateActs DEF MigrateStep, MigrateSees, MigrateChecks, MigrateBacksUp, MigrateVerifies,
              MigrateBegins, MigrateCleans, MigrateExecutes, MigrateRecords, MigrateCommits, MigrateReleases,
              MigrateReports, disk, At, Lock, Busy, Dies, Struck, InitStruck, MigrateStruck, ImportStruck
        <5>2. MigrateStock(cmd[p], db)
          BY <2>s, <4>1, <5>1 DEF Stock
        <5>3. Stored(db) \in 1 .. 11
          BY <5>1, <5>2 DEF MigrateStock
        <5>4. cmd[q].committed = TRUE => Stored(db) = Current
          BY <2>0 DEF Vaulted
        <5> DEFINE version == Stored(db)
        <5>5. version \in 1 .. 11
          BY <5>3
        <5> HIDE DEF version
        <5>6. version # Current
          BY <5>5 DEF Current
        <5>7. Stored(db) # Current
          BY <5>6 DEF version
        <5> QED BY <5>4, <5>7
      <4>2. CASE cmd[p].kind # "migrate"
        BY <2>1, <2>s, <4>2, WriterSpares
      <4> QED BY <4>1, <4>2
    <3>5. cmd[q].committed = TRUE =>
            Stored(db') = Current /\ \E b \in backups' : b.of = q /\ b.whole = TRUE /\ KeepsAll(b.copy, db')
      <4>1. ASSUME cmd[q].committed = TRUE
            PROVE  Stored(db') = Current /\ \E b \in backups' : b.of = q /\ b.whole = TRUE /\ KeepsAll(b.copy, db')
        <5>1. PICK b \in backups : b.of = q /\ b.whole = TRUE /\ KeepsAll(b.copy, db)
          BY <2>0, <4>1 DEF Vaulted
        <5>2. Stored(db) = Current /\ b \in backups'
          BY <2>0, <3>2, <4>1, <5>1 DEF Vaulted
        <5>3. Stored(db') = Current /\ KeepsAll(b.copy, db')
          <6>1. CASE db' = db
            BY <5>1, <5>2, <6>1
          <6>2. CASE Grown(db, db')
            <7>1. db'.versions = db.versions
              BY <6>2 DEF Grown
            <7> DEFINE from == b.copy
            <7>2. KeepsAll(from, db)
              BY <5>1
            <7> HIDE DEF from
            <7>3. KeepsAll(from, db')
              BY <6>2, <7>2, GrownKeeps
            <7>4. Stored(db') = Stored(db)
              BY <7>1, StoredSame
            <7> QED BY <5>2, <7>3, <7>4 DEF from
          <6> QED BY <3>4, <4>1, <6>1, <6>2
        <5> QED BY <5>1, <5>2, <5>3
      <4> QED BY <4>1
    <3>6. cmd[q].pc = "verify" => \E b \in backups' : b.of = q /\ b.copy = db'
      BY <2>0, <3>2, <3>3 DEF Vaulted
    <3>7. cmd[q].pc \in {"begin", "step", "statements"} =>
            \E b \in backups' : b.of = q /\ b.whole = TRUE /\ b.copy = db'
      BY <2>0, <3>2, <3>3 DEF Vaulted
    <3> QED BY <2>0, <3>1, <3>5, <3>6, <3>7 DEF Vaulted
  <2> QED BY <2>2, <2>3
<1> QED BY <1>3, <1>4, <1>5 DEF Vaults

LEMMA VaultsStay ==
  ASSUME Shaped, Held, Stores, Vaults, [Next]_workspaceVars
  PROVE  Vaults'
<1>1. ASSUME NEW p \in Procs, Step(p) PROVE Vaults'
  BY <1>1, VaultsKept
<1>2. CASE UNCHANGED workspaceVars
  BY <1>2 DEF workspaceVars, Vaults, Alone, Vaulted
<1> QED BY <1>1, <1>2, NextSteps

(* No deletion is run beside a migration: it removes the backups.          *)
Apart ==
  \A s \in Scenarios :
    (\E p \in Procs : s.kinds[p] = "migrate") => \A p \in Procs : s.kinds[p] \notin Deletions

LEMMA InitVaults ==
  ASSUME WorkspaceInit, InitsApart, Apart
  PROVE  Vaults
<1>1. PICK s \in Scenarios :
        /\ backups = IF s.earlier THEN {[of |-> None, whole |-> TRUE, copy |-> db]} ELSE {}
        /\ cmd = [p \in Procs |-> [NewCommand(s.kinds[p]) EXCEPT !.todo = s.payload]]
  BY DEF WorkspaceInit
<1>2. \A p \in Procs : cmd[p].pc = "start" /\ cmd[p].committed = FALSE /\ cmd[p].kind = s.kinds[p]
  BY <1>1 DEF NewCommand
<1>3. (\E p \in Procs : s.kinds[p] = "init") => \A p \in Procs : s.kinds[p] = "init"
  BY DEF InitsApart
<1>4. (\E p \in Procs : s.kinds[p] = "migrate") => \A p \in Procs : s.kinds[p] \notin Deletions
  BY DEF Apart
<1>5. Alone
  BY <1>2, <1>3, <1>4 DEF Alone
<1>6. backups \subseteq BackupSet
  <2>1. db \in Database
    BY InitStores DEF Stores, Stocked
  <2>2. [of |-> None, whole |-> TRUE, copy |-> db] \in BackupSet
    BY <2>1 DEF BackupSet
  <2> QED BY <1>1, <2>2
<1>7. \A p \in Procs : Vaulted(p, cmd[p], db, backups)
  BY <1>2 DEF Vaulted
<1> QED BY <1>5, <1>6, <1>7 DEF Vaults

LEMMA VaultsKeepAll ==
  ASSUME Stores, Vaults
  PROVE  MigrationKeepsAll
<1>1. Stored(db) # 0 => db.shape \ Def("evidence_items", {"odd"}, 0) = SchemaSQL[Stored(db)]
  BY DEF Stores, Stocked, Shapen, Odd
<1>2. ASSUME NEW p \in Procs, cmd[p].kind = "migrate", cmd[p].committed
      PROVE  \E b \in backups :
         /\ b.of = p /\ b.whole
         /\ \A t \in Tables \ Derived : b.copy.rows[t] \subseteq db.rows[t]
         /\ Stored(b.copy) >= 9 =>
              \A t \in Derived \ {"self_signals"} :
                b.copy.rows[t] \ (IF Stored(b.copy) = 9 THEN db.scoped ELSE {})
                  \subseteq db.rows[t]
  <2>1. Vaulted(p, cmd[p], db, backups)
    BY <1>2 DEF Vaults
  <2>2. cmd[p].committed = TRUE
    BY <1>2, <2>1 DEF Vaulted
  <2>3. PICK b \in backups : b.of = p /\ b.whole = TRUE /\ KeepsAll(b.copy, db)
    BY <2>1, <2>2 DEF Vaulted
  <2> QED BY <2>3 DEF KeepsAll
<1> QED BY <1>1, <1>2 DEF MigrationKeepsAll

(* Whatever fails, is interrupted or dies, the database has the shape of   *)
(* the version it states, and a committed migration kept every row its     *)
(* steps do not drop, beside a verified backup, unless a deletion, whose   *)
(* task it is to remove backups, runs beside it (migrate_workspace).       *)
THEOREM MigrationKeepsAllHolds == InitsApart /\ Apart /\ Spec => []MigrationKeepsAll
<1>1. InitsApart /\ Apart /\ WorkspaceInit => Shaped /\ Held /\ Stores /\ Vaults
  BY InitShaped, InitHeld, InitStores, InitVaults
<1>2. Shaped /\ Held /\ Stores /\ Vaults /\ [Next]_workspaceVars => (Shaped /\ Held /\ Stores /\ Vaults)'
  BY Shapely, StoresStay, VaultsStay
<1>3. Stores /\ Vaults => MigrationKeepsAll
  BY VaultsKeepAll
<1> QED BY <1>1, <1>2, <1>3, PTL DEF Spec

(***************************************************************************)
(* Types                                                                   *)
(***************************************************************************)

Paths == Place \union Roots

(* What a command's record says of paths, of rows and of its own view.     *)
Says(c) ==
  /\ c.work \in Database
  /\ c.residuals \subseteq Paths /\ c.unproven \subseteq Paths /\ c.reported \subseteq Paths
  /\ c.durable \subseteq Keys /\ c.named \subseteq Keys

Typed ==
  /\ entries \subseteq Marker \union {"out", "foreign out"}
  /\ Placed /\ backups \subseteq BackupSet /\ unclean \subseteq {"wal", "database"} \X Procs
  /\ trouble \in 0 .. MaxTrouble
  /\ \A p \in Procs : Says(cmd[p])

LEMMA PathsAre ==
  /\ {"wal", "database"} \X Procs \subseteq Paths
  /\ {"backup"} \X (Procs \union {None}) \subseteq Paths
  /\ {"assessment", "branch"} \X Keys \subseteq Paths
  /\ <<"all backups", None>> \in Paths /\ <<"out", None>> \in Paths /\ <<"out/branch", None>> \in Paths
BY DEF Paths, Place, Roots

LEMMA SaysTurn ==
  ASSUME Shaped, NEW p \in Procs, NEW c, DOMAIN c = Fields, Turn(p, c), Says(c)
  PROVE  Says(cmd'[p])
BY TurnDoes

LEMMA EmptyTyped == EmptyFile \in Database
BY EmptyStocked DEF Stocked

LEMMA SaysEnds ==
  ASSUME Shaped, NEW p \in Procs, NEW c, DOMAIN c = Fields, NEW code, NEW named, NEW reported,
         Ends(p, c, code, named, reported), c.residuals \subseteq Paths, c.unproven \subseteq Paths,
         c.durable \subseteq Keys, named \subseteq Keys, reported \subseteq Paths
  PROVE  Says(cmd'[p])
<1> DEFINE d == cmd'[p]
<1>1. /\ d.work = EmptyFile /\ d.named = named /\ d.reported = reported
      /\ d.residuals = c.residuals /\ d.unproven = c.unproven /\ d.durable = c.durable
  BY EndsDoes DEF Fields
<1> QED BY <1>1, EmptyTyped DEF Says

(* A step that leaves these parts of the record as they are.               *)
LEMMA SaysSame ==
  ASSUME NEW c, NEW e, Says(c), e.work = c.work \/ e.work \in Database,
         e.residuals = c.residuals, e.unproven = c.unproven, e.reported = c.reported,
         e.durable = c.durable, e.named = c.named
  PROVE  Says(e)
BY DEF Says

LEMMA InitSays ==
  ASSUME Shaped, NEW p \in Procs, Says(cmd[p]), InitStep(p)
  PROVE  Says(cmd'[p])
<1>0. DOMAIN cmd[p] = Fields
  BY DEF Shaped
<1>r. ASSUME NEW code, Refuses(p, code) PROVE Says(cmd'[p])
  <2>1. Ends(p, cmd[p], code, {}, {})
    BY <1>r DEF Refuses
  <2> QED BY <1>0, <2>1, SaysEnds DEF Says
<1>t. ASSUME NEW c, DOMAIN c = Fields, Turn(p, c), c.work = cmd[p].work,
             c.residuals = cmd[p].residuals, c.unproven = cmd[p].unproven,
             c.reported = cmd[p].reported, c.durable = cmd[p].durable, c.named = cmd[p].named
      PROVE  Says(cmd'[p])
  BY <1>t, SaysSame, SaysTurn
<1>1. ASSUME NEW pc, Go(p, pc) PROVE Says(cmd'[p])
  BY <1>0, <1>1, <1>t DEF Go, Fields
<1>2. ASSUME NEW pc, NEW made, Turn(p, [cmd[p] EXCEPT !.pc = pc, !.made = made])
      PROVE  Says(cmd'[p])
  BY <1>0, <1>2, <1>t DEF Fields
<1>3. ASSUME NEW pc, NEW code, Turn(p, [cmd[p] EXCEPT !.pc = pc, !.code = code])
      PROVE  Says(cmd'[p])
  BY <1>0, <1>3, <1>t DEF Fields
<1>4. CASE InitSees(p) \/ InitSeesOut(p) \/ InitRestrictsOut(p) \/ InitFills(p) \/ InitCreatesSchema(p)
           \/ InitUndoesMarker(p) \/ InitUndoesOut(p)
  BY <1>r, <1>1, <1>4 DEF InitSees, InitSeesOut, InitRestrictsOut, InitFills, InitCreatesSchema,
                          InitUndoesMarker, InitUndoesOut
<1>5. CASE InitMakesOut(p)
  BY <1>r, <1>2, <1>5 DEF InitMakesOut
<1>6. CASE InitMakesMarker(p)
  BY <1>2, <1>3, <1>6 DEF InitMakesMarker
<1>7. CASE InitInspects(p)
  BY <1>r, <1>3, <1>7 DEF InitInspects
<1> QED BY <1>4, <1>5, <1>6, <1>7 DEF InitStep

LEMMA MigrateSays ==
  ASSUME Shaped, NEW p \in Procs, Says(cmd[p]), Placed, db \in Database, MigrateStep(p), Stock(cmd'[p], db')
  PROVE  Says(cmd'[p])
<1>0. DOMAIN cmd[p] = Fields
  BY DEF Shaped
<1>k. cmd[p].kind = "migrate"
  BY DEF MigrateStep, MigrateSees, MigrateChecks, MigrateBacksUp, MigrateVerifies, MigrateBegins,
         MigrateCleans, MigrateExecutes, MigrateRecords, MigrateCommits, MigrateReleases,
         MigrateReports, At
<1>e. ASSUME NEW code, Ends(p, cmd[p], code, {}, cmd[p].residuals) PROVE Says(cmd'[p])
  BY <1>0, <1>e, SaysEnds DEF Says
<1>r. ASSUME NEW code, Refuses(p, code) PROVE Says(cmd'[p])
  BY <1>0, <1>r, SaysEnds DEF Refuses, Says
<1>t. ASSUME NEW c, DOMAIN c = Fields, Turn(p, c), c.work = cmd[p].work \/ c.work \in Database,
             c.residuals = cmd[p].residuals, c.unproven = cmd[p].unproven,
             c.reported = cmd[p].reported, c.durable = cmd[p].durable, c.named = cmd[p].named
      PROVE  Says(cmd'[p])
  BY <1>t, SaysSame, SaysTurn
(* The view of the transaction is a database, as MigrateStock has it.      *)
<1>w. ASSUME NEW c, DOMAIN c = Fields, c.kind = "migrate", Turn(p, c), c.pc \in {"step", "statements"}
      PROVE  c.work \in Database
  <2>1. cmd'[p] = c
    BY <1>w, TurnDoes
  <2> QED BY <1>w, <2>1 DEF Stock, MigrateStock
<1>g. ASSUME NEW pc, Go(p, pc) PROVE Says(cmd'[p])
  BY <1>0, <1>g, <1>t DEF Go, Fields
<1>1. CASE MigrateSees(p)
  <2>1. ASSUME NEW seen, Turn(p, [cmd[p] EXCEPT !.pc = "lock", !.seen = seen]) PROVE Says(cmd'[p])
    BY <1>0, <1>t, <2>1 DEF Fields
  <2> QED BY <1>1, <1>r, <2>1 DEF MigrateSees
<1>2. CASE MigrateChecks(p) \/ MigrateBacksUp(p) \/ MigrateReleases(p)
  BY <1>2, <1>r, <1>g DEF MigrateChecks, MigrateBacksUp, MigrateReleases
<1>3. CASE MigrateVerifies(p)
  BY <1>0, <1>3, <1>t DEF MigrateVerifies, Fields
<1>4. CASE MigrateBegins(p)
  BY <1>0, <1>4, <1>t DEF MigrateBegins, Fields
<1>5. CASE MigrateCleans(p)
  <2>1. ASSUME NEW left \in SUBSET sets, Turn(p, [cmd[p] EXCEPT !.pc = "statements", !.residuals = @ \union left])
        PROVE  Says(cmd'[p])
    <3> DEFINE c == [cmd[p] EXCEPT !.pc = "statements", !.residuals = @ \union left]
    <3>1. /\ DOMAIN c = Fields /\ c.work = cmd[p].work /\ c.residuals = cmd[p].residuals \union left
          /\ c.unproven = cmd[p].unproven /\ c.reported = cmd[p].reported
          /\ c.durable = cmd[p].durable /\ c.named = cmd[p].named
      BY <1>0 DEF Fields
    <3>2. left \subseteq Paths
      BY PathsAre DEF Placed
    <3>3. Turn(p, c)
      BY <2>1
    <3> HIDE DEF c
    <3>4. Says(c)
      BY <3>1, <3>2 DEF Says
    <3> QED BY <3>1, <3>3, <3>4, SaysTurn
  <2> QED BY <1>5, <1>g, <2>1 DEF MigrateCleans
<1>6. CASE MigrateExecutes(p)
  <2>1. ASSUME NEW next, Turn(p, [cmd[p] EXCEPT !.work = next, !.at = @ + 1]), cmd[p].pc = "statements"
        PROVE  Says(cmd'[p])
    <3> DEFINE c == [cmd[p] EXCEPT !.work = next, !.at = @ + 1]
    <3>1. /\ DOMAIN c = Fields /\ c.residuals = cmd[p].residuals /\ c.kind = "migrate" /\ c.pc = "statements"
          /\ c.unproven = cmd[p].unproven /\ c.reported = cmd[p].reported
          /\ c.durable = cmd[p].durable /\ c.named = cmd[p].named
      BY <1>0, <1>k, <2>1 DEF Fields
    <3>2. Turn(p, c)
      BY <2>1
    <3> HIDE DEF c
    <3>3. c.work \in Database
      BY <1>w, <3>1, <3>2
    <3> QED BY <1>t, <3>1, <3>2, <3>3
  <2> DEFINE next == Execute(cmd[p].work, Statements(cmd[p].work, Stored(cmd[p].work))[cmd[p].at],
                             ForeignKeys(p), FALSE)
  <2>2. /\ cmd[p].pc = "statements"
        /\ \/ Turn(p, [cmd[p] EXCEPT !.work = next, !.at = @ + 1])
           \/ Ends(p, cmd[p], "migration_failed", {}, cmd[p].residuals)
    BY <1>6 DEF MigrateExecutes, At
  <2> HIDE DEF next
  <2> QED BY <1>e, <2>1, <2>2
<1>7. CASE MigrateRecords(p)
  <2> DEFINE next == [cmd[p].work EXCEPT !.versions = @ \union {Stored(cmd[p].work) + 1}]
             c == [cmd[p] EXCEPT !.pc = "step", !.at = 1, !.work = next]
  <2>1. Turn(p, c)
    BY <1>0, <1>7 DEF MigrateRecords, Fields
  <2> HIDE DEF next
  <2>2. /\ DOMAIN c = Fields /\ c.residuals = cmd[p].residuals /\ c.kind = "migrate" /\ c.pc = "step"
        /\ c.unproven = cmd[p].unproven /\ c.reported = cmd[p].reported
        /\ c.durable = cmd[p].durable /\ c.named = cmd[p].named
    BY <1>0, <1>k DEF Fields
  <2> HIDE DEF c
  <2>3. c.work \in Database
    BY <1>w, <2>1, <2>2
  <2> QED BY <1>t, <2>1, <2>2, <2>3
<1>8. CASE MigrateCommits(p)
  <2>1. CASE Turn(p, [cmd[p] EXCEPT !.pc = "restore", !.committed = TRUE])
    BY <1>0, <1>t, <2>1 DEF Fields
  <2> QED BY <1>8, <1>e, <2>1 DEF MigrateCommits
<1>9. CASE MigrateReports(p)
  BY <1>9, <1>e DEF MigrateReports
<1> QED BY <1>1, <1>2, <1>3, <1>4, <1>5, <1>6, <1>7, <1>8, <1>9 DEF MigrateStep

LEMMA CaptureSays ==
  ASSUME Shaped, NEW p \in Procs, Says(cmd[p]), CaptureStep(p), Stock(cmd[p], db), Stock(cmd'[p], db')
  PROVE  Says(cmd'[p])
<1>0. DOMAIN cmd[p] = Fields
  BY DEF Shaped
<1>k. cmd[p].kind = "capture" /\ "capture" \in Writers
  BY DEF CaptureStep, CaptureWrites, CaptureCommits, CaptureReports, CaptureCommitFails, CaptureFails,
         CaptureInterrupted, At, Writers
<1>l. cmd[p].pc \notin {"done", "dead"}
  BY DEF CaptureStep, CaptureWrites, CaptureCommits, CaptureReports, CaptureCommitFails, CaptureFails,
         CaptureInterrupted, At, Live
<1>s. cmd[p].target \subseteq Keys
  BY <1>k, <1>l DEF Stock, WriterStock
<1>p. cmd[p].residuals \subseteq Paths /\ cmd[p].unproven \subseteq Paths /\ cmd[p].durable \subseteq Keys
  BY DEF Says
<1>e. ASSUME NEW code, NEW named, named \subseteq Keys, Ends(p, cmd[p], code, named, {}) PROVE Says(cmd'[p])
  BY <1>0, <1>e, <1>p, SaysEnds
<1>1. CASE CaptureWrites(p)
  <2>1. PICK k \in cmd[p].target :
          Turn(p, [cmd[p] EXCEPT !.pc = "commit", !.work = WithLog(db, k), !.deferred = TRUE])
    BY <1>1 DEF CaptureWrites
  <2> DEFINE work == WithLog(db, k)
             c == [cmd[p] EXCEPT !.pc = "commit", !.work = work, !.deferred = TRUE]
  <2>2. Turn(p, c)
    BY <2>1
  <2> HIDE DEF work
  <2>3. /\ DOMAIN c = Fields /\ c.kind = "capture" /\ c.pc = "commit"
        /\ c.residuals = cmd[p].residuals /\ c.unproven = cmd[p].unproven
        /\ c.reported = cmd[p].reported /\ c.durable = cmd[p].durable /\ c.named = cmd[p].named
    BY <1>0, <1>k DEF Fields
  <2> HIDE DEF c
  <2>4. c.work \in Database
    BY <1>k, <2>2, <2>3, TurnDoes DEF Stock, WriterStock
  <2> QED BY <2>2, <2>3, <2>4, SaysSame, SaysTurn
<1>2. CASE CaptureCommits(p)
  <2> DEFINE c == [cmd[p] EXCEPT !.pc = "close", !.durable = cmd[p].target]
  <2>1. Turn(p, c)
    BY <1>2 DEF CaptureCommits
  <2>2. /\ DOMAIN c = Fields /\ c.work = cmd[p].work /\ c.durable = cmd[p].target
        /\ c.residuals = cmd[p].residuals /\ c.unproven = cmd[p].unproven
        /\ c.reported = cmd[p].reported /\ c.named = cmd[p].named
    BY <1>0 DEF Fields
  <2> HIDE DEF c
  <2>3. Says(c)
    BY <1>s, <2>2 DEF Says
  <2> QED BY <2>1, <2>2, <2>3, SaysTurn
<1>3. CASE CaptureReports(p)
  BY <1>3, <1>e, <1>s DEF CaptureReports
<1>4. CASE CaptureCommitFails(p)
  <2>1. PICK durable, known \in BOOLEAN :
          Ends(p, [cmd[p] EXCEPT !.durable = IF durable THEN cmd[p].target ELSE {},
                                 !.detached = ~ known],
               "internal_error", IF durable /\ known THEN cmd[p].target ELSE {}, {})
    BY <1>4 DEF CaptureCommitFails
  <2> DEFINE kept == IF durable THEN cmd[p].target ELSE {}
             named == IF durable /\ known THEN cmd[p].target ELSE {}
             c == [cmd[p] EXCEPT !.durable = kept, !.detached = ~ known]
  <2>2. Ends(p, c, "internal_error", named, {}) /\ kept \subseteq Keys /\ named \subseteq Keys
    BY <1>s, <2>1
  <2> HIDE DEF kept, named
  <2>3. /\ DOMAIN c = Fields /\ c.durable = kept /\ c.residuals = cmd[p].residuals
        /\ c.unproven = cmd[p].unproven
    BY <1>0 DEF Fields
  <2> HIDE DEF c
  <2> QED BY <1>p, <2>2, <2>3, SaysEnds
<1>5. CASE CaptureFails(p)
  BY <1>5, <1>e, <1>p DEF CaptureFails
<1>6. CASE CaptureInterrupted(p)
  <2>1. CASE Turn(p, [cmd[p] EXCEPT !.pending = TRUE])
    <3> DEFINE c == [cmd[p] EXCEPT !.pending = TRUE]
    <3>1. /\ DOMAIN c = Fields /\ c.work = cmd[p].work /\ c.durable = cmd[p].durable
          /\ c.residuals = cmd[p].residuals /\ c.unproven = cmd[p].unproven
          /\ c.reported = cmd[p].reported /\ c.named = cmd[p].named
      BY <1>0 DEF Fields
    <3> HIDE DEF c
    <3>2. Turn(p, c)
      BY <2>1 DEF c
    <3> QED BY <3>1, <3>2, SaysSame, SaysTurn
  <2>2. CASE Refuses(p, "cancelled")
    BY <1>e, <2>2 DEF Refuses
  <2> QED BY <1>6, <2>1, <2>2 DEF CaptureInterrupted
<1> QED BY <1>1, <1>2, <1>3, <1>4, <1>5, <1>6 DEF CaptureStep

LEMMA ImportSays ==
  ASSUME Shaped, NEW p \in Procs, Says(cmd[p]), ImportStep(p), Told(cmd[p]), ToldImport(cmd[p]),
         Told(cmd'[p]), Stock(cmd'[p], db')
  PROVE  Says(cmd'[p])
<1>0. DOMAIN cmd[p] = Fields
  BY DEF Shaped
<1>k. cmd[p].kind = "import" /\ "import" \in Writers
  BY DEF ImportStep, ImportClassifies, ImportCommits, ImportCollides, ImportCloses, ImportReports,
         ImportCutOff, At, Writers
<1>p. cmd[p].residuals \subseteq Paths /\ cmd[p].unproven \subseteq Paths /\ cmd[p].durable \subseteq Keys
  BY DEF Says
(* An ending names what it made durable, as Told has it.                   *)
<1>e. ASSUME NEW c, DOMAIN c = Fields, c.residuals = cmd[p].residuals, c.unproven = cmd[p].unproven,
             c.durable = cmd[p].durable, NEW code, NEW named, Ends(p, c, code, named, {})
      PROVE  Says(cmd'[p])
  <2> DEFINE d == cmd'[p]
  <2>1. d.pc = "done" /\ d.named = named /\ d.durable = c.durable
    BY <1>e, EndsDoes DEF Fields
  <2>2. named \subseteq Keys
    BY <1>e, <1>p, <2>1 DEF Told
  <2> QED BY <1>e, <1>p, <2>2, SaysEnds
<1>t. ASSUME NEW c, DOMAIN c = Fields, Turn(p, c), c.work = cmd[p].work \/ c.work \in Database,
             c.residuals = cmd[p].residuals, c.unproven = cmd[p].unproven,
             c.reported = cmd[p].reported, c.durable = cmd[p].durable, c.named = cmd[p].named
      PROVE  Says(cmd'[p])
  BY <1>t, SaysSame, SaysTurn
<1> DEFINE k == Head(cmd[p].todo)
           todo == Tail(cmd[p].todo)
<1>1. CASE ImportClassifies(p)
  <2> DEFINE accepted == Append(cmd[p].accepted, k)
             work == WithLog(db, k)
             skipped == [cmd[p] EXCEPT !.todo = todo, !.attempts = 0]
             writes == [cmd[p] EXCEPT !.pc = "commit", !.work = work, !.accepted = accepted]
  <2>1. Turn(p, skipped) \/ Turn(p, writes)
    BY <1>1 DEF ImportClassifies
  <2>2. CASE Turn(p, skipped)
    <3> HIDE DEF todo
    <3> QED BY <1>0, <1>t, <2>2 DEF Fields
  <2>3. CASE Turn(p, writes)
    <3> HIDE DEF work, accepted
    <3>1. /\ DOMAIN writes = Fields /\ writes.kind = "import" /\ writes.pc = "commit"
          /\ writes.residuals = cmd[p].residuals /\ writes.unproven = cmd[p].unproven
          /\ writes.reported = cmd[p].reported /\ writes.durable = cmd[p].durable
          /\ writes.named = cmd[p].named
      BY <1>0, <1>k DEF Fields
    <3> HIDE DEF writes
    <3>2. writes.work \in Database
      BY <1>k, <2>3, <3>1, TurnDoes DEF Stock, WriterStock
    <3> QED BY <1>t, <2>3, <3>1, <3>2
  <2> QED BY <2>1, <2>2, <2>3
<1>2. CASE ImportCommits(p)
  <2> DEFINE c == [cmd[p] EXCEPT !.pc = "begin", !.todo = todo, !.attempts = 0,
                   !.retained = @ \union {k}, !.durable = @ \union {k}]
  <2>1. Turn(p, c) /\ cmd[p].pc = "commit"
    BY <1>2 DEF ImportCommits, At
  <2>2. k \in Keys
    <3>1. cmd[p].todo # <<>> /\ cmd[p].todo \in Seq(Keys)
      BY <1>k, <2>1 DEF Told, ToldImport
    <3> QED BY <3>1, HeadTailProperties
  <2> HIDE DEF k, todo
  <2>3. /\ DOMAIN c = Fields /\ c.work = cmd[p].work /\ c.durable = cmd[p].durable \union {k}
        /\ c.residuals = cmd[p].residuals /\ c.unproven = cmd[p].unproven
        /\ c.reported = cmd[p].reported /\ c.named = cmd[p].named
    BY <1>0 DEF Fields
  <2> HIDE DEF c
  <2>4. Says(c)
    BY <2>2, <2>3 DEF Says
  <2> QED BY <2>1, <2>3, <2>4, SaysTurn
<1>3. CASE ImportCollides(p)
  <2> DEFINE a == SubSeq(cmd[p].accepted, 1, Len(cmd[p].accepted) - 1)
             c == [WithoutCandidate(cmd[p]) EXCEPT !.pc = "begin", !.attempts = @ + 1]
             named == {c.accepted[i] : i \in 1 .. Len(c.accepted)}
  <2>1. Turn(p, c) \/ Ends(p, c, "internal_error", named, {})
    BY <1>3 DEF ImportCollides
  <2>2. c = [cmd[p] EXCEPT !.accepted = a, !.work = EmptyFile, !.pc = "begin", !.attempts = @ + 1]
    BY <1>0 DEF WithoutCandidate, Fields
  <2> HIDE DEF a
  <2>3. /\ DOMAIN c = Fields /\ c.work = EmptyFile /\ c.durable = cmd[p].durable
        /\ c.residuals = cmd[p].residuals /\ c.unproven = cmd[p].unproven
        /\ c.reported = cmd[p].reported /\ c.named = cmd[p].named
    BY <1>0, <2>2 DEF Fields
  <2> HIDE DEF c, named
  <2> QED BY <1>e, <1>t, <2>1, <2>3, EmptyTyped
<1>4. CASE ImportCloses(p)
  <2> DEFINE c == [cmd[p] EXCEPT !.pc = "hand over"]
  <2>1. Turn(p, c)
    BY <1>4 DEF ImportCloses, Go
  <2>2. /\ DOMAIN c = Fields /\ c.work = cmd[p].work /\ c.durable = cmd[p].durable
        /\ c.residuals = cmd[p].residuals /\ c.unproven = cmd[p].unproven
        /\ c.reported = cmd[p].reported /\ c.named = cmd[p].named
    BY <1>0 DEF Fields
  <2> HIDE DEF c
  <2> QED BY <1>t, <2>1, <2>2
<1>5. CASE ImportReports(p)
  BY <1>0, <1>5, <1>e DEF ImportReports
<1>6. CASE ImportCutOff(p)
  <2> DEFINE c == [cmd[p] EXCEPT !.detached = TRUE]
  <2>1. Ends(p, c, "cancelled", {}, {})
    BY <1>6 DEF ImportCutOff
  <2>2. /\ DOMAIN c = Fields /\ c.durable = cmd[p].durable
        /\ c.residuals = cmd[p].residuals /\ c.unproven = cmd[p].unproven
    BY <1>0 DEF Fields
  <2> HIDE DEF c
  <2> QED BY <1>e, <2>1, <2>2
<1> QED BY <1>1, <1>2, <1>3, <1>4, <1>5, <1>6 DEF ImportStep

LEMMA GenericSays ==
  ASSUME Shaped, NEW p \in Procs, Says(cmd[p]), Lock(p) \/ Busy(p) \/ Gate(p) \/ Check(p) \/ Dies(p)
  PROVE  Says(cmd'[p])
<1>0. DOMAIN cmd[p] = Fields
  BY DEF Shaped
<1>r. ASSUME NEW code, Refuses(p, code) PROVE Says(cmd'[p])
  BY <1>0, <1>r, SaysEnds DEF Refuses, Says
<1>t. ASSUME NEW c, DOMAIN c = Fields, Turn(p, c), c.work = cmd[p].work,
             c.residuals = cmd[p].residuals, c.unproven = cmd[p].unproven,
             c.reported = cmd[p].reported, c.durable = cmd[p].durable, c.named = cmd[p].named
      PROVE  Says(cmd'[p])
  BY <1>t, SaysSame, SaysTurn
<1>1. CASE Lock(p)
  BY <1>0, <1>1, <1>t DEF Lock, Go, Fields
<1>2. CASE Busy(p)
  BY <1>2, <1>r DEF Busy
<1>3. CASE Gate(p)
  <2>1. ASSUME NEW target, Turn(p, [cmd[p] EXCEPT !.pc = "lock", !.target = target])
        PROVE  Says(cmd'[p])
    BY <1>0, <1>t, <2>1 DEF Fields
  <2> QED BY <1>3, <1>r, <2>1 DEF Gate
<1>4. CASE Check(p)
  <2>1. ASSUME NEW retained, Turn(p, [cmd[p] EXCEPT !.pc = "begin", !.retained = retained])
        PROVE  Says(cmd'[p])
    BY <1>0, <1>t, <2>1 DEF Fields
  <2> QED BY <1>4, <1>r, <2>1 DEF Check
<1>5. CASE Dies(p)
  <2> DEFINE c == [cmd[p] EXCEPT !.pc = "dead", !.work = EmptyFile]
  <2>1. cmd'[p] = c
    BY <1>5 DEF Dies, Shaped
  <2>2. /\ c.work = EmptyFile /\ c.residuals = cmd[p].residuals /\ c.unproven = cmd[p].unproven
        /\ c.reported = cmd[p].reported /\ c.durable = cmd[p].durable /\ c.named = cmd[p].named
    BY <1>0 DEF Fields
  <2> HIDE DEF c
  <2> QED BY <2>1, <2>2, EmptyTyped, SaysSame
<1> QED BY <1>1, <1>2, <1>3, <1>4, <1>5

LEMMA StruckSays ==
  ASSUME Shaped, NEW p \in Procs, Says(cmd[p]), Struck(p), Told(cmd[p]), ToldImport(cmd[p]), Told(cmd'[p])
  PROVE  Says(cmd'[p])
<1>0. DOMAIN cmd[p] = Fields
  BY DEF Shaped
<1>p. cmd[p].residuals \subseteq Paths /\ cmd[p].unproven \subseteq Paths /\ cmd[p].durable \subseteq Keys
  BY DEF Says
<1>1. ASSUME NEW code, InitStruck(p, code) PROVE Says(cmd'[p])
  <2>1. CASE Turn(p, [cmd[p] EXCEPT !.pc = "undo marker", !.code = code])
    <3> DEFINE c == [cmd[p] EXCEPT !.pc = "undo marker", !.code = code]
    <3>1. /\ DOMAIN c = Fields /\ c.work = cmd[p].work /\ c.durable = cmd[p].durable
          /\ c.residuals = cmd[p].residuals /\ c.unproven = cmd[p].unproven
          /\ c.reported = cmd[p].reported /\ c.named = cmd[p].named
      BY <1>0 DEF Fields
    <3>2. Turn(p, c)
      BY <2>1
    <3> HIDE DEF c
    <3> QED BY <3>1, <3>2, SaysSame, SaysTurn
  <2>2. CASE Refuses(p, code)
    BY <1>0, <1>p, <2>2, SaysEnds DEF Refuses
  <2> QED BY <1>1, <2>1, <2>2 DEF InitStruck
<1>2. ASSUME NEW code, MigrateStruck(p, code) PROVE Says(cmd'[p])
  <2> DEFINE said == IF code = "internal_error" /\ cmd[p].pc \notin {"start", "lock", "after"}
                     THEN "migration_failed" ELSE code
  <2>1. Ends(p, cmd[p], said, {}, cmd[p].residuals)
    BY <1>2 DEF MigrateStruck
  <2> HIDE DEF said
  <2> QED BY <1>0, <1>p, <2>1, SaysEnds
<1>3. ASSUME NEW code, ImportStruck(p, code) PROVE Says(cmd'[p])
  <2>1. PICK ended \in BOOLEAN :
          LET writing == cmd[p].pc = "commit"
              c == IF writing /\ ~ ended THEN WithoutCandidate(cmd[p])
                   ELSE IF writing THEN [cmd[p] EXCEPT !.durable = @ \union {Head(cmd[p].todo)}]
                   ELSE cmd[p]
          IN Ends(p, c, code, {c.accepted[i] : i \in 1 .. Len(c.accepted)}, {})
    BY <1>3 DEF ImportStruck
  <2> DEFINE k == Head(cmd[p].todo)
             c == IF cmd[p].pc = "commit" /\ ~ ended THEN WithoutCandidate(cmd[p])
                  ELSE IF cmd[p].pc = "commit"
                  THEN [cmd[p] EXCEPT !.durable = @ \union {k}]
                  ELSE cmd[p]
             named == {c.accepted[i] : i \in 1 .. Len(c.accepted)}
  <2>2. Ends(p, c, code, named, {})
    BY <2>1
  <2>3. cmd[p].pc = "commit" => k \in Keys
    <3>1. cmd[p].kind = "import"
      BY <1>3 DEF ImportStruck
    <3>2. cmd[p].pc = "commit" => cmd[p].todo # <<>> /\ cmd[p].todo \in Seq(Keys)
      BY <3>1 DEF Told, ToldImport
    <3> QED BY <3>2, HeadTailProperties
  <2> HIDE DEF k
  <2>4. /\ DOMAIN c = Fields /\ c.durable \subseteq Keys
        /\ c.residuals = cmd[p].residuals /\ c.unproven = cmd[p].unproven
    <3>1. CASE cmd[p].pc = "commit" /\ ~ ended
      BY <1>0, <1>p, <3>1 DEF Fields, WithoutCandidate
    <3>2. CASE cmd[p].pc = "commit" /\ ended
      <4>1. c = [cmd[p] EXCEPT !.durable = @ \union {k}]
        BY <3>2
      <4> HIDE DEF c
      <4>2. /\ DOMAIN c = Fields /\ c.durable = cmd[p].durable \union {k}
            /\ c.residuals = cmd[p].residuals /\ c.unproven = cmd[p].unproven
        BY <1>0, <4>1 DEF Fields
      <4> QED BY <1>p, <2>3, <3>2, <4>2
    <3>3. CASE cmd[p].pc # "commit"
      BY <1>0, <1>p, <3>3
    <3> QED BY <3>1, <3>2, <3>3
  <2> HIDE DEF c, named
  <2> DEFINE d == cmd'[p]
  <2>5. d.pc = "done" /\ d.named = named /\ d.durable = c.durable
    BY <2>2, <2>4, EndsDoes DEF Fields
  <2>6. named \subseteq Keys
    BY <2>4, <2>5 DEF Told
  <2> QED BY <1>p, <2>2, <2>4, <2>6, SaysEnds
<1> QED BY <1>1, <1>2, <1>3 DEF Struck

LEMMA UnerasedPaths ==
  ASSUME NEW p \in Procs
  PROVE  Unerased(p) \subseteq {"wal", "database"} \X Procs /\ Unerased(p) \subseteq Paths
BY PathsAre DEF Unerased

LEMMA DeletionSays ==
  ASSUME Shaped, NEW p \in Procs, Says(cmd[p]), DeletionStep(p), Placed, backups \subseteq BackupSet,
         db \in Database, Stock(cmd[p], db), Stock(cmd'[p], db')
  PROVE  Says(cmd'[p])
<1>0. DOMAIN cmd[p] = Fields
  BY DEF Shaped
<1>k. cmd[p].kind \in Deletions
  BY DEF DeletionStep, DeletionBegins, RemovesBackup, BackupsRemoved, RemovesSet, SetsRemoved,
         DeletesRows, RowsDeleted, DeletionCommits, Erases, DeletionReports, LogsRebuild, LogsRebuilt,
         DeletionFails, DeletionInterrupted, At, Deletions
<1>p. /\ cmd[p].residuals \subseteq Paths /\ cmd[p].unproven \subseteq Paths
      /\ cmd[p].durable \subseteq Keys /\ cmd[p].work \in Database
  BY DEF Says
<1>s. cmd[p].pc \notin {"done", "dead"} => cmd[p].target \subseteq Keys
  BY <1>k DEF Stock, DeletionStock
<1>e. ASSUME NEW code, NEW named, named \subseteq Keys, NEW reported, reported \subseteq Paths,
             Ends(p, cmd[p], code, named, reported)
      PROVE  Says(cmd'[p])
  BY <1>0, <1>e, <1>p, SaysEnds
<1>r. ASSUME NEW code, Refuses(p, code) PROVE Says(cmd'[p])
  BY <1>e, <1>r DEF Refuses
<1>t. ASSUME NEW c, DOMAIN c = Fields, Turn(p, c), c.work = cmd[p].work \/ c.work \in Database,
             c.residuals \subseteq Paths, c.unproven \subseteq Paths,
             c.reported = cmd[p].reported, c.durable = cmd[p].durable, c.named = cmd[p].named
      PROVE  Says(cmd'[p])
  <2>1. Says(c)
    BY <1>p, <1>t DEF Says
  <2> QED BY <1>t, <2>1, SaysTurn
<1>w. ASSUME NEW c, DOMAIN c = Fields, c.kind \in Deletions, Turn(p, c), c.pc \in {"rows", "commit"}
      PROVE  c.work \in Database
  <2>1. cmd'[p] = c
    BY <1>w, TurnDoes
  <2> QED BY <1>w, <2>1 DEF Stock, DeletionStock
<1>m. /\ Managed(cmd[p]) \subseteq Paths /\ BackupPlaces \subseteq Paths
      /\ AllBackups \in Paths /\ ManagedRoot(cmd[p]) \in Paths
      /\ \A b \in backups : <<"backup", b.of>> \in Paths
  <2>1. Managed(cmd[p]) \subseteq sets
    BY DEF Managed
  <2>2. \A b \in backups : b.of \in Procs \union {None}
    BY DEF BackupSet
  <2> QED BY <2>1, <2>2, PathsAre DEF Placed, BackupPlaces, AllBackups, ManagedRoot
<1>1. CASE DeletionBegins(p)
  <2>1. CASE Turn(p, [cmd[p] EXCEPT !.pc = "backups", !.work = db, !.unproven = {AllBackups}])
    <3> DEFINE c == [cmd[p] EXCEPT !.pc = "backups", !.work = db, !.unproven = {AllBackups}]
    <3>1. /\ DOMAIN c = Fields /\ c.work = db /\ c.residuals = cmd[p].residuals
          /\ c.unproven = {AllBackups} /\ c.reported = cmd[p].reported
          /\ c.durable = cmd[p].durable /\ c.named = cmd[p].named
      BY <1>0 DEF Fields
    <3>2. Turn(p, c)
      BY <2>1
    <3> HIDE DEF c
    <3> QED BY <1>m, <1>p, <1>t, <3>1, <3>2
  <2> QED BY <1>1, <1>r, <2>1 DEF DeletionBegins
<1>2. CASE RemovesBackup(p) \/ RemovesSet(p)
  <2>1. ASSUME NEW unlinks, Turn(p, [cmd[p] EXCEPT !.unlinks = unlinks]) PROVE Says(cmd'[p])
    <3> DEFINE c == [cmd[p] EXCEPT !.unlinks = unlinks]
    <3>1. /\ DOMAIN c = Fields /\ c.work = cmd[p].work /\ c.residuals = cmd[p].residuals
          /\ c.unproven = cmd[p].unproven /\ c.reported = cmd[p].reported
          /\ c.durable = cmd[p].durable /\ c.named = cmd[p].named
      BY <1>0 DEF Fields
    <3>2. Turn(p, c)
      BY <2>1
    <3> HIDE DEF c
    <3> QED BY <1>p, <1>t, <3>1, <3>2
  <2>2. ASSUME NEW refused, Turn(p, [cmd[p] EXCEPT !.refused = refused]) PROVE Says(cmd'[p])
    <3> DEFINE c == [cmd[p] EXCEPT !.refused = refused]
    <3>1. /\ DOMAIN c = Fields /\ c.work = cmd[p].work /\ c.residuals = cmd[p].residuals
          /\ c.unproven = cmd[p].unproven /\ c.reported = cmd[p].reported
          /\ c.durable = cmd[p].durable /\ c.named = cmd[p].named
      BY <1>0 DEF Fields
    <3>2. Turn(p, c)
      BY <2>2
    <3> HIDE DEF c
    <3> QED BY <1>p, <1>t, <3>1, <3>2
  <2>3. CASE RemovesBackup(p)
    <3>1. PICK b \in backups :
            \/ Turn(p, [cmd[p] EXCEPT !.unlinks = @ \union {<<"backup", b.of>>}])
            \/ Turn(p, [cmd[p] EXCEPT !.refused = @ \union {<<"backup", b.of>>}])
      BY <2>3 DEF RemovesBackup
    <3> DEFINE unlinks == cmd[p].unlinks \union {<<"backup", b.of>>}
               refused == cmd[p].refused \union {<<"backup", b.of>>}
    <3>2. \/ Turn(p, [cmd[p] EXCEPT !.unlinks = unlinks])
          \/ Turn(p, [cmd[p] EXCEPT !.refused = refused])
      BY <3>1
    <3> HIDE DEF unlinks, refused
    <3> QED BY <2>1, <2>2, <3>2
  <2>4. CASE RemovesSet(p)
    <3>1. PICK s \in Managed(cmd[p]) \ cmd[p].refused :
            \/ Turn(p, [cmd[p] EXCEPT !.unlinks = IF cmd[p].kind = "jd delete" THEN @ \union {s} ELSE @])
            \/ Turn(p, [cmd[p] EXCEPT !.refused = @ \union {s}])
      BY <2>4 DEF RemovesSet
    <3> DEFINE unlinks == IF cmd[p].kind = "jd delete" THEN cmd[p].unlinks \union {s} ELSE cmd[p].unlinks
               refused == cmd[p].refused \union {s}
    <3>2. \/ Turn(p, [cmd[p] EXCEPT !.unlinks = unlinks])
          \/ Turn(p, [cmd[p] EXCEPT !.refused = refused])
      BY <3>1
    <3> HIDE DEF unlinks, refused
    <3> QED BY <2>1, <2>2, <3>2
  <2> QED BY <1>2, <2>3, <2>4
(* The end of a pass adds what it left, or the root it lost.               *)
<1>a. ASSUME NEW pc, NEW more, more \subseteq Paths, NEW root, root \subseteq Paths, NEW unlinks,
             Turn(p, [cmd[p] EXCEPT !.pc = pc, !.residuals = @ \union more, !.unlinks = unlinks,
                                    !.refused = {}, !.unproven = root])
      PROVE  Says(cmd'[p])
  <2> DEFINE c == [cmd[p] EXCEPT !.pc = pc, !.residuals = @ \union more, !.unlinks = unlinks,
                                 !.refused = {}, !.unproven = root]
  <2>1. /\ DOMAIN c = Fields /\ c.work = cmd[p].work /\ c.residuals = cmd[p].residuals \union more
        /\ c.unproven = root /\ c.reported = cmd[p].reported
        /\ c.durable = cmd[p].durable /\ c.named = cmd[p].named
    BY <1>0 DEF Fields
  <2>2. Turn(p, c)
    BY <1>a
  <2>3. c.residuals \subseteq Paths
    BY <1>a, <1>p, <2>1
  <2> HIDE DEF c
  <2> QED BY <1>a, <1>t, <2>1, <2>2, <2>3
<1>u. ASSUME NEW pc, NEW more, NEW root
      PROVE  [cmd[p] EXCEPT !.pc = pc, !.residuals = @ \union more, !.refused = {}, !.unproven = root]
               = [cmd[p] EXCEPT !.pc = pc, !.residuals = @ \union more, !.unlinks = cmd[p].unlinks,
                                !.refused = {}, !.unproven = root]
  BY <1>0 DEF Fields
<1>3. CASE BackupsRemoved(p)
  <2> DEFINE root == {ManagedRoot(cmd[p])}
             all == {AllBackups}
             left == BackupPlaces
             none == {}
             unlinks == cmd[p].unlinks
  <2>1. root \subseteq Paths /\ all \subseteq Paths /\ left \subseteq Paths
    BY <1>m
  <2>2. \/ Turn(p, [cmd[p] EXCEPT !.pc = "sets", !.residuals = @ \union left, !.refused = {},
                                  !.unproven = root])
        \/ Turn(p, [cmd[p] EXCEPT !.pc = "sets", !.residuals = @ \union all, !.unlinks = none,
                                  !.refused = {}, !.unproven = root])
    BY <1>3 DEF BackupsRemoved
  <2> HIDE DEF root, all, left, none
  <2>3. \/ Turn(p, [cmd[p] EXCEPT !.pc = "sets", !.residuals = @ \union left, !.unlinks = unlinks,
                                  !.refused = {}, !.unproven = root])
        \/ Turn(p, [cmd[p] EXCEPT !.pc = "sets", !.residuals = @ \union all, !.unlinks = none,
                                  !.refused = {}, !.unproven = root])
    BY <1>u, <2>2
  <2> HIDE DEF unlinks
  <2> QED BY <1>a, <2>1, <2>3
<1>4. CASE SetsRemoved(p)
  <2> DEFINE left == Managed(cmd[p])
             all == Stranded(cmd[p])
             none == {}
             unlinks == cmd[p].unlinks
  <2>1. left \subseteq Paths /\ all \subseteq Paths /\ none \subseteq Paths
    <3>1. cmd[p].pc = "sets"
      BY <1>4 DEF SetsRemoved
    <3>2. cmd[p].target \subseteq Keys
      BY <1>s, <3>1
    <3>3. {"branch"} \X cmd[p].target \subseteq {"assessment", "branch"} \X Keys
      BY <3>2
    <3> QED BY <1>m, <3>3, PathsAre DEF Stranded
  <2>2. \/ Turn(p, [cmd[p] EXCEPT !.pc = "rows", !.residuals = @ \union left, !.refused = {},
                                  !.unproven = none])
        \/ Turn(p, [cmd[p] EXCEPT !.pc = "rows", !.residuals = @ \union all, !.refused = {},
                                  !.unproven = none])
    BY <1>4 DEF SetsRemoved
  <2> HIDE DEF all, left, none
  <2>3. \/ Turn(p, [cmd[p] EXCEPT !.pc = "rows", !.residuals = @ \union left, !.unlinks = unlinks,
                                  !.refused = {}, !.unproven = none])
        \/ Turn(p, [cmd[p] EXCEPT !.pc = "rows", !.residuals = @ \union all, !.unlinks = unlinks,
                                  !.refused = {}, !.unproven = none])
    BY <1>u, <2>2
  <2> HIDE DEF unlinks
  <2> QED BY <1>a, <2>1, <2>3
<1>5. CASE DeletesRows(p)
  <2> DEFINE next == Execute(cmd[p].work, DeletionStatements(cmd[p])[cmd[p].at], TRUE, TRUE)
             c == [cmd[p] EXCEPT !.work = next, !.at = @ + 1]
  <2>1. cmd[p].pc = "rows" /\ (Turn(p, c) \/ Refuses(p, "internal_error"))
    BY <1>5 DEF DeletesRows
  <2> HIDE DEF next
  <2>2. /\ DOMAIN c = Fields /\ c.kind \in Deletions /\ c.pc = "rows" /\ c.residuals = cmd[p].residuals
        /\ c.unproven = cmd[p].unproven /\ c.reported = cmd[p].reported
        /\ c.durable = cmd[p].durable /\ c.named = cmd[p].named
    BY <1>0, <1>k, <2>1 DEF Fields
  <2> HIDE DEF c
  <2> QED BY <1>p, <1>r, <1>t, <1>w, <2>1, <2>2
<1>6. CASE RowsDeleted(p)
  <2> DEFINE work == cmd[p].work
             versions == IF cmd[p].kind = "purge" THEN {Current} ELSE work.versions
             next == [work EXCEPT !.versions = versions]
             c == [cmd[p] EXCEPT !.pc = "commit", !.unproven = Unerased(p), !.work = next]
  <2>1. Turn(p, c)
    BY <1>0, <1>6 DEF RowsDeleted, Fields
  <2> HIDE DEF next
  <2>2. /\ DOMAIN c = Fields /\ c.kind \in Deletions /\ c.pc = "commit" /\ c.residuals = cmd[p].residuals
        /\ c.unproven = Unerased(p) /\ c.reported = cmd[p].reported
        /\ c.durable = cmd[p].durable /\ c.named = cmd[p].named
    BY <1>0, <1>k DEF Fields
  <2> HIDE DEF c
  <2> QED BY <1>p, <1>t, <1>w, <2>1, <2>2, UnerasedPaths
(* What the commit records.                                                *)
<1>c. ASSUME cmd[p].pc = "commit"
      PROVE  /\ DOMAIN Committed(p) = Fields /\ Committed(p).work = EmptyFile
             /\ Committed(p).durable \subseteq Keys /\ Committed(p).residuals = cmd[p].residuals
             /\ Committed(p).unproven = cmd[p].unproven /\ Committed(p).unlinks = cmd[p].unlinks
             /\ Committed(p).reported = cmd[p].reported /\ Committed(p).named = cmd[p].named
  <2> DEFINE deleted == Deleted(cmd[p])
             stale == BackupPlaces \union Managed(cmd[p]) \union Unerased(p)
             c == [cmd[p] EXCEPT !.committed = TRUE, !.durable = deleted, !.work = EmptyFile, !.stale = stale]
  <2>1. Committed(p) = c
    BY DEF Committed
  <2>2. deleted \subseteq Keys
    <3>1. cmd[p].target \subseteq Keys
      BY <1>c, <1>s
    <3>2. "raw_logs" \in Tables
      BY TableNames
    <3>3. db.rows["raw_logs"] \subseteq Keys
      BY <3>2, DatabaseIs
    <3> QED BY <3>1, <3>3 DEF Deleted
  <2> HIDE DEF deleted, stale
  <2>3. /\ DOMAIN c = Fields /\ c.work = EmptyFile /\ c.durable = deleted
        /\ c.residuals = cmd[p].residuals /\ c.unproven = cmd[p].unproven /\ c.unlinks = cmd[p].unlinks
        /\ c.reported = cmd[p].reported /\ c.named = cmd[p].named
    BY <1>0 DEF Fields
  <2> HIDE DEF c
  <2> QED BY <2>1, <2>2, <2>3
<1>7. CASE DeletionCommits(p)
  <2> DEFINE k == Committed(p)
             c == [k EXCEPT !.pc = "erase"]
  <2>1. Turn(p, c) /\ cmd[p].pc = "commit"
    BY <1>7 DEF DeletionCommits
  <2>2. /\ DOMAIN k = Fields /\ k.work = EmptyFile /\ k.durable \subseteq Keys
        /\ k.residuals = cmd[p].residuals /\ k.unproven = cmd[p].unproven
        /\ k.reported = cmd[p].reported /\ k.named = cmd[p].named
    BY <1>c, <2>1
  <2> HIDE DEF k
  <2>3. /\ DOMAIN c = Fields /\ c.work = EmptyFile /\ c.durable = k.durable
        /\ c.residuals = k.residuals /\ c.unproven = k.unproven
        /\ c.reported = k.reported /\ c.named = k.named
    BY <2>2 DEF Fields
  <2> HIDE DEF c
  <2>4. Says(c)
    BY <2>2, <2>3, EmptyTyped DEF Says
  <2> QED BY <2>1, <2>3, <2>4, SaysTurn
<1>8. CASE Erases(p)
  <2>1. PICK said \in SUBSET Unerased(p) : Turn(p, [cmd[p] EXCEPT
                     !.pc = IF cmd[p].kind = "logs delete" THEN "hand over" ELSE "close",
                     !.residuals = @ \union said, !.unproven = {}])
    BY <1>8 DEF Erases
  <2> DEFINE pc == IF cmd[p].kind = "logs delete" THEN "hand over" ELSE "close"
             c == [cmd[p] EXCEPT !.pc = pc, !.residuals = @ \union said, !.unproven = {}]
  <2>2. Turn(p, c)
    BY <2>1
  <2> HIDE DEF pc
  <2>3. /\ DOMAIN c = Fields /\ c.work = cmd[p].work /\ c.residuals = cmd[p].residuals \union said
        /\ c.unproven = {} /\ c.reported = cmd[p].reported
        /\ c.durable = cmd[p].durable /\ c.named = cmd[p].named
    BY <1>0 DEF Fields
  <2>4. c.residuals \subseteq Paths /\ c.unproven \subseteq Paths
    BY <1>p, <2>3, UnerasedPaths
  <2> HIDE DEF c
  <2> QED BY <1>t, <2>2, <2>3, <2>4
<1>9. CASE DeletionReports(p)
  BY <1>9, <1>e, <1>p DEF DeletionReports
<1>10. CASE LogsRebuild(p) \/ LogsRebuilt(p)
  <2>1. ASSUME NEW pc, Go(p, pc) PROVE Says(cmd'[p])
    <3> DEFINE c == [cmd[p] EXCEPT !.pc = pc]
    <3>1. /\ DOMAIN c = Fields /\ c.work = cmd[p].work /\ c.residuals = cmd[p].residuals
          /\ c.unproven = cmd[p].unproven /\ c.reported = cmd[p].reported
          /\ c.durable = cmd[p].durable /\ c.named = cmd[p].named
      BY <1>0 DEF Fields
    <3>2. Turn(p, c)
      BY <2>1 DEF Go
    <3> HIDE DEF c
    <3> QED BY <1>p, <1>t, <3>1, <3>2
  <2> QED BY <1>10, <2>1 DEF LogsRebuild, LogsRebuilt
(* An ending with nothing attached, and one that names the commit.         *)
<1>d. ASSUME NEW k, DOMAIN k = Fields, k.residuals \subseteq Paths, k.unproven \subseteq Paths,
             k.durable \subseteq Keys, NEW code, Detached(p, k, code)
      PROVE  Says(cmd'[p])
  <2> DEFINE c == [k EXCEPT !.detached = TRUE]
  <2>1. Ends(p, c, code, {}, {})
    BY <1>d DEF Detached
  <2>2. /\ DOMAIN c = Fields /\ c.residuals = k.residuals /\ c.unproven = k.unproven /\ c.durable = k.durable
    BY <1>d DEF Fields
  <2> HIDE DEF c
  <2> QED BY <1>d, <2>1, <2>2, SaysEnds
<1>11. CASE DeletionFails(p)
  <2>1. CASE cmd[p].pc = "commit" /\ Detached(p, Committed(p), "internal_error")
    BY <1>c, <1>d, <1>p, <2>1
  <2>2. CASE Detached(p, cmd[p], "internal_error")
    BY <1>0, <1>d, <1>p, <2>2
  <2>3. CASE Ends(p, cmd[p], "llm_failed", cmd[p].durable, cmd[p].residuals)
    BY <1>e, <1>p, <2>3
  <2> QED BY <1>11, <1>r, <2>1, <2>2, <2>3 DEF DeletionFails
<1>12. CASE DeletionInterrupted(p)
  <2>1. CASE /\ cmd[p].pc \in Working
             /\ LET c == IF cmd[p].pc = "commit" THEN [cmd[p] EXCEPT !.unproven = {}] ELSE cmd[p]
                IN Ends(p, c, "cancelled", {}, CleanupReported(c))
    <3> DEFINE c == IF cmd[p].pc = "commit" THEN [cmd[p] EXCEPT !.unproven = {}] ELSE cmd[p]
               reported == CleanupReported(c)
    <3>1. Ends(p, c, "cancelled", {}, reported)
      BY <2>1
    <3>2. /\ DOMAIN c = Fields /\ c.residuals = cmd[p].residuals /\ c.unproven \subseteq Paths
          /\ c.durable = cmd[p].durable /\ c.kind = cmd[p].kind
      BY <1>0, <1>p DEF Fields
    <3> HIDE DEF c
    <3>3. Unresolved(c) \subseteq Paths
      BY <1>p, <3>2 DEF Unresolved
    <3>4. reported \subseteq Paths
      BY <1>k, <3>2, <3>3 DEF CleanupReported, Deletions
    <3> HIDE DEF reported
    <3> QED BY <1>p, <3>1, <3>2, <3>4, SaysEnds
  <2>2. CASE /\ cmd[p].pc = "commit"
             /\ Ends(p, Committed(p), "cancelled", Committed(p).durable, Unresolved(Committed(p)))
    <3> DEFINE c == Committed(p)
               named == c.durable
               reported == Unresolved(c)
    <3>1. DOMAIN c = Fields /\ named \subseteq Keys /\ c.residuals \subseteq Paths /\ c.unproven \subseteq Paths
      BY <1>c, <1>p, <2>2
    <3>2. Ends(p, c, "cancelled", named, reported) /\ named = c.durable
      BY <2>2
    <3>3. reported \subseteq Paths
      BY <3>1 DEF Unresolved
    <3> HIDE DEF c, named, reported
    <3> QED BY <3>1, <3>2, <3>3, SaysEnds
  <2>3. CASE Ends(p, cmd[p], "cancelled", cmd[p].durable, Unresolved(cmd[p]))
    <3> DEFINE named == cmd[p].durable
               reported == Unresolved(cmd[p])
    <3>1. Ends(p, cmd[p], "cancelled", named, reported) /\ named \subseteq Keys /\ reported \subseteq Paths
      BY <1>p, <2>3 DEF Unresolved
    <3> HIDE DEF named, reported
    <3> QED BY <1>e, <3>1
  <2>4. CASE Detached(p, cmd[p], "cancelled")
    BY <1>0, <1>d, <1>p, <2>4
  <2> QED BY <1>12, <2>1, <2>2, <2>3, <2>4 DEF DeletionInterrupted
<1> QED BY <1>1, <1>2, <1>3, <1>4, <1>5, <1>6, <1>7, <1>8, <1>9, <1>10, <1>11, <1>12 DEF DeletionStep

(* Every failure, signal and death counts against the bound, one each.     *)
LEMMA TroubleSteps ==
  ASSUME NEW p \in Procs, Step(p)
  PROVE  trouble' = trouble \/ Strikes
<1>1. CASE InitStep(p)
  BY <1>1 DEF InitStep, InitSees, InitSeesOut, InitMakesOut, InitRestrictsOut, InitMakesMarker, InitFills,
             InitCreatesSchema, InitInspects, InitUndoesMarker, InitUndoesOut
<1>2. CASE MigrateStep(p)
  BY <1>2 DEF MigrateStep, MigrateSees, MigrateChecks, MigrateBacksUp, MigrateVerifies, MigrateBegins,
         MigrateCleans, MigrateExecutes, MigrateRecords, MigrateCommits, MigrateReleases,
         MigrateReports
<1>3. CASE Lock(p) \/ Busy(p) \/ Gate(p) \/ Check(p) \/ Dies(p) \/ Struck(p)
  BY <1>3 DEF Lock, Busy, Gate, Check, Dies, Struck
<1>4. CASE CaptureStep(p)
  BY <1>4 DEF CaptureStep, CaptureWrites, CaptureCommits, CaptureReports, CaptureCommitFails, CaptureFails,
             CaptureInterrupted
<1>5. CASE ImportStep(p)
  BY <1>5 DEF ImportStep, ImportClassifies, ImportCommits, ImportCollides, ImportCloses, ImportReports,
             ImportCutOff
<1>6. CASE DeletionStep(p)
  BY <1>6 DEF DeletionStep, DeletionBegins, RemovesBackup, BackupsRemoved, RemovesSet, SetsRemoved,
             DeletesRows, RowsDeleted, DeletionCommits, Erases, DeletionReports, LogsRebuild, LogsRebuilt,
             DeletionFails, DeletionInterrupted
<1> QED BY <1>1, <1>2, <1>3, <1>4, <1>5, <1>6 DEF Step

(* What the WAL and the file still hold is a deletion's.                   *)
LEMMA UncleanTyped ==
  ASSUME NEW p \in Procs, Step(p), unclean \subseteq {"wal", "database"} \X Procs
  PROVE  unclean' \subseteq {"wal", "database"} \X Procs
<1>0. Unerased(p) \subseteq {"wal", "database"} \X Procs
  BY UnerasedPaths
<1>1. CASE InitStep(p)
  BY <1>1 DEF InitStep, InitSees, InitSeesOut, InitMakesOut, InitRestrictsOut, InitMakesMarker, InitFills,
             InitCreatesSchema, InitInspects, InitUndoesMarker, InitUndoesOut, disk
<1>2. CASE MigrateStep(p)
  BY <1>2 DEF MigrateStep, MigrateSees, MigrateChecks, MigrateBacksUp, MigrateVerifies, MigrateBegins,
         MigrateCleans, MigrateExecutes, MigrateRecords, MigrateCommits, MigrateReleases,
         MigrateReports, disk
<1>3. CASE Lock(p) \/ Busy(p) \/ Gate(p) \/ Check(p) \/ Dies(p) \/ Struck(p)
  BY <1>3 DEF Lock, Busy, Gate, Check, Dies, Struck, InitStruck, MigrateStruck, ImportStruck, disk
<1>4. CASE CaptureStep(p)
  BY <1>4 DEF CaptureStep, CaptureWrites, CaptureCommits, CaptureReports, CaptureCommitFails, CaptureFails,
             CaptureInterrupted, disk
<1>5. CASE ImportStep(p)
  BY <1>5 DEF ImportStep, ImportClassifies, ImportCommits, ImportCollides, ImportCloses, ImportReports,
             ImportCutOff, disk
<1>6. CASE Erases(p)
  <2>1. PICK left \in SUBSET Unerased(p) :
          unclean' = left \union
            {u \in unclean : (u[1] = "wal" /\ <<"wal", p>> \in left) \/ (u[1] = "database" /\ u[2] # p)}
    BY <1>6 DEF Erases
  <2> QED BY <1>0, <2>1
<1>7. CASE DeletionStep(p) /\ ~ Erases(p)
  <2>1. unclean' = unclean \/ Commits(p)
    BY <1>7 DEF DeletionStep, DeletionBegins, RemovesBackup, BackupsRemoved, RemovesSet, SetsRemoved,
             DeletesRows, RowsDeleted, DeletionCommits, DeletionReports, LogsRebuild, LogsRebuilt,
             DeletionFails, DeletionInterrupted, disk
  <2> QED BY <1>0, <2>1 DEF Commits
<1> QED BY <1>1, <1>2, <1>3, <1>4, <1>5, <1>6, <1>7 DEF Step

LEMMA EntriesTyped ==
  ASSUME Shaped, Held, NEW p \in Procs, Step(p), entries \subseteq Marker \union {"out", "foreign out"}
  PROVE  entries' \subseteq Marker \union {"out", "foreign out"}
<1>1. CASE InitStep(p)
  BY <1>1 DEF InitStep, InitSees, InitSeesOut, InitMakesOut, InitRestrictsOut, InitMakesMarker, InitFills,
             InitCreatesSchema, InitInspects, InitUndoesMarker, InitUndoesOut, disk, Marker
<1>2. CASE ~ InitStep(p)
  <2>1. cmd[p].kind = "init" => entries' = entries
    <3>1. ASSUME cmd[p].kind = "init"
          PROVE  Lock(p) \/ Busy(p) \/ Dies(p) \/ Struck(p)
      <4>1. ~ MigrateStep(p)
        BY <3>1 DEF MigrateStep, MigrateSees, MigrateChecks, MigrateBacksUp, MigrateVerifies, MigrateBegins,
           MigrateCleans, MigrateExecutes, MigrateRecords, MigrateCommits, MigrateReleases,
           MigrateReports, At
      <4>2. ~ Gate(p) /\ ~ Check(p)
        BY <3>1, KindsDiffer DEF Gate, Check
      <4>3. ~ CaptureStep(p) /\ ~ ImportStep(p)
        BY <3>1 DEF CaptureStep, CaptureWrites, CaptureCommits, CaptureReports, CaptureCommitFails, CaptureFails,
             CaptureInterrupted, ImportStep, ImportClassifies, ImportCommits, ImportCollides, ImportCloses,
             ImportReports, ImportCutOff, At
      <4>4. ~ DeletionStep(p)
        BY <3>1, KindsDiffer DEF DeletionStep, DeletionBegins, RemovesBackup, BackupsRemoved, RemovesSet, SetsRemoved,
             DeletesRows, RowsDeleted, DeletionCommits, Erases, DeletionReports, LogsRebuild, LogsRebuilt,
             DeletionFails, DeletionInterrupted, At
      <4> QED BY <1>2, <4>1, <4>2, <4>3, <4>4 DEF Step
    <3> QED BY <3>1 DEF Lock, Busy, Dies, Struck, InitStruck, MigrateStruck, ImportStruck, disk
  <2>2. cmd[p].kind = "init" \/ entries' = entries
    BY StepFrames DEF Frame
  <2> QED BY <2>1, <2>2
<1> QED BY <1>1, <1>2

LEMMA StepSays ==
  ASSUME Shaped, Held, Stores, Telling, Telling', Typed, NEW p \in Procs, Step(p)
  PROVE  Says(cmd'[p])
<1>1. /\ Says(cmd[p]) /\ Placed /\ backups \subseteq BackupSet
      /\ Told(cmd[p]) /\ ToldImport(cmd[p])
  BY DEF Typed, Telling
<1>2. db \in Database /\ Stock(cmd[p], db)
  BY DEF Stores, Stocked
<1>3. Told(cmd'[p])
  BY DEF Telling
<1>4. Stock(cmd'[p], db')
  BY StoresKept DEF Stores
<1>5. CASE InitStep(p)
  BY <1>1, <1>5, InitSays
<1>6. CASE MigrateStep(p)
  BY <1>1, <1>2, <1>4, <1>6, MigrateSays
<1>7. CASE CaptureStep(p)
  BY <1>1, <1>2, <1>4, <1>7, CaptureSays
<1>8. CASE ImportStep(p)
  BY <1>1, <1>3, <1>4, <1>8, ImportSays
<1>9. CASE DeletionStep(p)
  BY <1>1, <1>2, <1>4, <1>9, DeletionSays
<1>10. CASE Struck(p)
  BY <1>1, <1>3, <1>10, StruckSays
<1>11. CASE Lock(p) \/ Busy(p) \/ Gate(p) \/ Check(p) \/ Dies(p)
  BY <1>1, <1>11, GenericSays
<1> QED BY <1>5, <1>6, <1>7, <1>8, <1>9, <1>10, <1>11 DEF Step

LEMMA TypedKept ==
  ASSUME Shaped, Held, Stores, Telling, Telling', Typed, [Next]_workspaceVars
  PROVE  Typed'
<1>1. ASSUME NEW p \in Procs, Step(p) PROVE Typed'
  <2>1. Frame(p)
    BY <1>1, StepFrames
  <2>2. Placed'
    BY <2>1 DEF Frame, Typed, Placed
  <2>3. backups' \subseteq BackupSet
    BY <1>1, BackupsTyped DEF Typed, Stores, Stocked
  <2>4. trouble' \in 0 .. MaxTrouble
    <3>1. trouble' = trouble \/ (trouble > 0 /\ trouble' = trouble - 1)
      BY <1>1, TroubleSteps DEF Strikes
    <3>2. trouble \in 0 .. MaxTrouble /\ MaxTrouble \in Nat
      BY MaxTroubleAssumption DEF Typed, MaxTroubleAssumption
    <3> QED BY <3>1, <3>2
  <2>5. ASSUME NEW q \in Procs PROVE Says(cmd'[q])
    BY <1>1, <2>1, StepSays DEF Typed, Frame
  <2>6. /\ entries' \subseteq Marker \union {"out", "foreign out"}
        /\ unclean' \subseteq {"wal", "database"} \X Procs
    BY <1>1, EntriesTyped, UncleanTyped DEF Typed
  <2> QED BY <2>2, <2>3, <2>4, <2>5, <2>6 DEF Typed
<1>2. CASE UNCHANGED workspaceVars
  BY <1>2 DEF workspaceVars, Typed, Placed
<1> QED BY <1>1, <1>2, NextSteps

LEMMA InitTyped == InitsApart /\ WorkspaceInit => Typed
<1> SUFFICES ASSUME InitsApart, WorkspaceInit PROVE Typed
  OBVIOUS
<1>1. PICK s \in Scenarios :
        /\ entries = s.entries /\ sets = s.sets /\ unclean = {} /\ trouble = MaxTrouble
        /\ backups = IF s.earlier THEN {[of |-> None, whole |-> TRUE, copy |-> db]} ELSE {}
  BY DEF WorkspaceInit
<1>2. s.entries \subseteq Marker \union {"out", "foreign out"}
  BY ScenariosAssumption
<1>3. Placed
  BY InitErasure DEF Erasure
<1>4. backups \subseteq BackupSet
  <2>1. db \in Database
    BY InitStores DEF Stores, Stocked
  <2>2. [of |-> None, whole |-> TRUE, copy |-> db] \in BackupSet
    BY <2>1 DEF BackupSet
  <2> QED BY <1>1, <2>2
<1>5. ASSUME NEW p \in Procs PROVE Says(cmd[p])
  <2>1. /\ cmd[p].work = EmptyFile /\ cmd[p].residuals = {} /\ cmd[p].unproven = {}
        /\ cmd[p].reported = {} /\ cmd[p].durable = {} /\ cmd[p].named = {}
    BY Fresh DEF IsFresh
  <2> QED BY <2>1, EmptyTyped DEF Says
<1>6. trouble \in 0 .. MaxTrouble
  BY <1>1, MaxTroubleAssumption DEF MaxTroubleAssumption
<1> QED BY <1>1, <1>2, <1>3, <1>4, <1>5, <1>6 DEF Typed

LEMMA TypedCorrect ==
  ASSUME Held, Stores, Typed
  PROVE  WorkspaceTypeOK
<1>1. db \in Database /\ db.sound
  BY DEF Stores, Stocked
<1>2. \A b \in backups : b.of \in Procs \union {None} /\ b.whole \in BOOLEAN /\ b.copy \in Database
  BY DEF Typed, BackupSet
<1>3. holder \in {None} \union {p \in Procs : Live(p)}
  BY DEF Held
<1>4. ASSUME NEW p \in Procs
      PROVE  /\ cmd[p].work \in Database
             /\ cmd[p].reported \union cmd[p].residuals \union cmd[p].unproven \subseteq Place \union Roots
             /\ cmd[p].named \union cmd[p].durable \subseteq Keys
  BY DEF Typed, Says, Paths
<1> QED BY <1>1, <1>2, <1>3, <1>4 DEF WorkspaceTypeOK, Typed, Placed

(* Every reachable state of the workspace and its commands is of its       *)
(* declared shape: no statement leaves a database no schema allows, no     *)
(* record names a path or a row there is none of, and the lock is free or  *)
(* with a command that lives (storage/workspace.py, services/writers.py).  *)
THEOREM TypeCorrect == InitsApart /\ Spec => []WorkspaceTypeOK
<1>1. InitsApart /\ WorkspaceInit => Shaped /\ Held /\ Stores /\ Telling /\ Typed
  BY InitShaped, InitHeld, InitStores, InitTelling, InitTyped
<1>2. Shaped /\ Held /\ Stores /\ Telling /\ Typed /\ [Next]_workspaceVars
        => (Shaped /\ Held /\ Stores /\ Telling /\ Typed)'
  BY Shapely, StoresStay, TellingKept, TypedKept
<1>3. Held /\ Stores /\ Typed => WorkspaceTypeOK
  BY TypedCorrect
<1> QED BY <1>1, <1>2, <1>3, PTL DEF Spec
===============================================================================
