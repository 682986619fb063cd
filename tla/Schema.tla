------------------------------- MODULE Schema -------------------------------
(***************************************************************************)
(* The twelve versions of the database schema and the migrations between   *)
(* them (storage/schema.py, storage/workspace.py).                         *)
(*                                                                         *)
(* A shape is what sqlite_master lists: a set of <<table, part, text>>,    *)
(* where a part is the table itself, its index or one of its two guard     *)
(* triggers, and the text is the version whose DDL the entry carries.  A   *)
(* database adds its rows, one key per row: the row k of a child table     *)
(* refers to the row k of its parent, which is all the foreign keys need.  *)
(***************************************************************************)
EXTENDS Naturals, FiniteSets, Sequences

CONSTANT Keys           \* identities of rows

Current == 12

(***************************************************************************)
(* Shapes                                                                  *)
(***************************************************************************)

Guards == {"update guard", "delete guard"}
Guarded == {"table"} \union Guards
Indexed == Guarded \union {"index"}

Def(table, parts, text) == {<<table, part, text>> : part \in parts}

\* The shape without what a statement drops, then with what it creates.
Without(shape, table, parts) ==
  {entry \in shape : ~ (entry[1] = table /\ entry[2] \in parts)}

Rewritten(shape, table, parts, text) ==
  Without(shape, table, parts) \union Def(table, parts, text)

Meta == Def("schema_meta", {"table"}, 1)
V1 == Meta \union Def("raw_logs", Indexed, 1) \union Def("evidence_items", Indexed, 1)
Runs == Def("processing_runs", {"table"}, 2)
Calls == Def("llm_calls", {"table"}, 2)
Facts == Def("experience_facts", Guarded, 3)
Sources == Def("fact_sources", Indexed, 3)
Detections == Def("gap_questions", Guarded, 4) \union Def("contradictions", Guarded, 4)
Signals == Def("self_signals", Guarded, 5)
Snapshots == Def("assessment_snapshots", Guarded, 6)
Claims == Def("self_claims", Indexed, 6)
Findings == Def("verification_findings", Indexed, 7)
Vacancies == Def("job_descriptions", Guarded, 11)
Branches == Def("resume_branches", Indexed, 12)
Bullets == Def("resume_bullets", Indexed, 12)

V2 == V1 \union Runs \union Calls
V3 == Rewritten(V2, "raw_logs", {"table"}, 3) \union Facts \union Sources
V4 == V3 \union Detections
V5 == V4 \union Signals
V6 == V5 \union Snapshots \union Claims
V7 == V6 \union Findings
V8 == Rewritten(Rewritten(V7, "raw_logs", {"table"}, 8), "experience_facts", {"table"}, 8)
V9 == Rewritten(Without(V8, "self_signals", Guarded),
                "self_claims", {"table", "update guard"}, 9)
V10 == Rewritten(V9, "assessment_snapshots", {"table", "update guard"}, 10)
V11 == V10 \union Vacancies
V12 == V11 \union Branches \union Bullets

SchemaSQL == <<V1, V2, V3, V4, V5, V6, V7, V8, V9, V10, V11, V12>>

TablesOf(shape) == {entry[1] : entry \in shape} \ {"schema_meta"}

Tables == UNION {TablesOf(SchemaSQL[v]) : v \in 1 .. Current}

(***************************************************************************)
(* Rows and foreign keys                                                   *)
(***************************************************************************)

\* <<child, parent>>: the child's rows go with the parent's.
Cascading == {<<"evidence_items", "raw_logs">>,
              <<"fact_sources", "experience_facts">>, <<"fact_sources", "evidence_items">>}

Produced == {"llm_calls", "experience_facts", "gap_questions", "contradictions",
             "self_signals", "assessment_snapshots", "self_claims",
             "verification_findings", "resume_branches", "resume_bullets"}

\* <<child, parent>>: the child's rows keep the parent's.  A gap answered by a
\* log is one of them: its reference is SET NULL, which the answered-iff check
\* of the gap refuses.
Restricting ==
  {<<"self_claims", "assessment_snapshots">>, <<"resume_branches", "assessment_snapshots">>,
   <<"resume_branches", "job_descriptions">>, <<"resume_bullets", "resume_branches">>,
   <<"gap_questions", "raw_logs">>}
    \union (Produced \X {"processing_runs"})

\* The tables a deletion from `table` reaches.
Reached(table) ==
  LET direct == {c \in Tables : <<c, table>> \in Cascading}
  IN {table} \union direct
       \union {c \in Tables : \E d \in direct : <<c, d>> \in Cascading}

(***************************************************************************)
(* A database: its shape and rows, the versions schema_meta lists, the     *)
(* logs whose project label is blank or whose row no longer hydrates, and  *)
(* the snapshots of a project view.  `sound` is FALSE once a statement has *)
(* failed.                                                                 *)
(***************************************************************************)

NoRows == [t \in Tables |-> {}]

Database == [shape : SUBSET ((Tables \union {"schema_meta"}) \X (Indexed \union {"odd"}) \X (0 .. Current)),
             rows : [Tables -> SUBSET Keys], versions : SUBSET (1 .. Current),
             blank : SUBSET Keys, unreadable : SUBSET Keys, scoped : SUBSET Keys,
             sound : BOOLEAN]

EmptyFile == [shape |-> {}, rows |-> NoRows, versions |-> {},
              blank |-> {}, unreadable |-> {}, scoped |-> {}, sound |-> TRUE]

\* create_schema: a fresh workspace starts at the current version.
CreateSchema(d) == [d EXCEPT !.shape = V12, !.versions = {Current}]

Fail(d) == [d EXCEPT !.sound = FALSE]

HasGuard(d, table) == \E entry \in d.shape : entry[1] = table /\ entry[2] = "delete guard"

\* What stops the deletion of `ks` from `table` on a connection with or without
\* foreign keys and owner authority: a guard on a row it reaches (a cascade
\* fires the child's triggers, and DROP TABLE not the table's own), or a row
\* that restricts one.
Refused(d, table, ks, fk, owner, firing) ==
  \/ \E t \in (IF fk THEN Reached(table) ELSE {table}) \ (IF firing THEN {} ELSE {table}) :
       ~ owner /\ HasGuard(d, t) /\ d.rows[t] \intersect ks # {}
  \/ fk /\ \E t \in Reached(table), c \in Tables :
             <<c, t>> \in Restricting /\ d.rows[c] \intersect ks # {}

RemoveRows(d, table, ks, fk) ==
  [d EXCEPT !.rows =
     [t \in Tables |-> IF t \in (IF fk THEN Reached(table) ELSE {table})
                       THEN d.rows[t] \ ks ELSE d.rows[t]]]

(***************************************************************************)
(* Statements, and the database after one of them.                         *)
(***************************************************************************)

Create(defs) == [op |-> "create", table |-> "", parts |-> {}, rows |-> {}, defs |-> defs]

\* Deletion of the rows named, or of every row.
DeleteFrom(table, ks) == [op |-> "delete", table |-> table, parts |-> {}, rows |-> ks, defs |-> {}]
Clear(table) == DeleteFrom(table, Keys)

DropTrigger(table, parts) ==
  [op |-> "drop trigger", table |-> table, parts |-> parts, rows |-> {}, defs |-> {}]

\* DROP TABLE deletes the rows first when foreign keys are on, past the
\* table's own triggers; its index and triggers go with it.
Drop(table) == [op |-> "drop", table |-> table, parts |-> Indexed, rows |-> Keys, defs |-> {}]

\* A new table takes the kept rows, the old one is dropped, the new one takes
\* its name, and the index and guards come back.
Rebuild(table, kept, defs) ==
  [op |-> "rebuild", table |-> table, parts |-> Indexed, rows |-> kept, defs |-> defs]

Execute(d, s, fk, owner) ==
  CASE s.op = "create" -> [d EXCEPT !.shape = @ \union s.defs]
    [] s.op = "delete" ->
         IF Refused(d, s.table, s.rows, fk, owner, TRUE) THEN Fail(d)
         ELSE RemoveRows(d, s.table, s.rows, fk)
    [] s.op = "drop trigger" -> [d EXCEPT !.shape = Without(@, s.table, s.parts)]
    [] s.op \in {"drop", "rebuild"} ->
         IF Refused(d, s.table, Keys, fk, owner, FALSE) THEN Fail(d)
         ELSE [RemoveRows(d, s.table, Keys, fk) EXCEPT
                 !.shape = Without(@, s.table, s.parts) \union s.defs,
                 !.rows[s.table] = IF s.op = "rebuild" THEN s.rows ELSE {}]

(***************************************************************************)
(* The migrations                                                          *)
(***************************************************************************)

To2 == <<Create(Runs \union Calls)>>

To3(d) ==
  <<Create(Facts \union Sources),
    Rebuild("raw_logs", d.rows["raw_logs"],
            Def("raw_logs", {"table"}, 3) \union Def("raw_logs", Indexed \ {"table"}, 1))>>

To4 == <<Create(Detections)>>
To5 == <<Create(Signals)>>
To6 == <<Create(Snapshots \union Claims)>>
To7 == <<Create(Findings)>>

To8(d) ==
  <<Rebuild("raw_logs", d.rows["raw_logs"],
            Def("raw_logs", {"table"}, 8) \union Def("raw_logs", Indexed \ {"table"}, 1)),
    Rebuild("experience_facts", d.rows["experience_facts"],
            Def("experience_facts", {"table"}, 8) \union Def("experience_facts", Guards, 3))>>

\* 8 -> 9 drops the signal layer and everything derived from it.
To9 ==
  <<Drop("verification_findings"), Drop("self_claims"), Drop("assessment_snapshots"),
    Drop("self_signals"),
    Create(Snapshots \union Findings \union Def("self_claims", {"table", "update guard"}, 9)
             \union Def("self_claims", {"index", "delete guard"}, 6))>>

\* 9 -> 10 deletes the project views with their claims and findings, the two
\* delete guards standing aside, and rebuilds the snapshot table.
To10(d) ==
  LET views == d.scoped \intersect d.rows["assessment_snapshots"]
  IN <<DropTrigger("verification_findings", {"delete guard"}),
       DropTrigger("self_claims", {"delete guard"}),
       DeleteFrom("verification_findings", views \intersect d.rows["self_claims"]),
       DeleteFrom("self_claims", views),
       Create(Def("verification_findings", {"delete guard"}, 7)
                \union Def("self_claims", {"delete guard"}, 6)),
       Rebuild("assessment_snapshots", d.rows["assessment_snapshots"] \ views,
               Def("assessment_snapshots", {"table", "update guard"}, 10)
                 \union Def("assessment_snapshots", {"delete guard"}, 6))>>

To11 == <<Create(Vacancies)>>
To12 == <<Create(Branches \union Bullets)>>

\* MIGRATION_REGISTRY: one step from each older version to the next.
\* Mutant: the rebuild of the snapshots runs with foreign keys left on.
ForeignKeysOffEarly == {2, 7, 8}

ForeignKeysOff == {2, 7, 8, 9}
ManagedCleanup == {8, 9}

Statements(d, version) ==
  CASE version = 1 -> To2    [] version = 2 -> To3(d)  [] version = 3 -> To4
    [] version = 4 -> To5    [] version = 5 -> To6     [] version = 6 -> To7
    [] version = 7 -> To8(d) [] version = 8 -> To9     [] version = 9 -> To10(d)
    [] version = 10 -> To11  [] version = 11 -> To12

\* 2 -> 3 computes every log's project key, which a blank label does not have.
KeysComputed(d, version) == version = 2 => d.blank \intersect d.rows["raw_logs"] = {}

(***************************************************************************)
(* What the code reads of a database                                       *)
(***************************************************************************)

\* inspect_schema: the stored version, 0 when the metadata is not recognized.
Stored(d) == IF d.versions = {} THEN 0
             ELSE CHOOSE v \in d.versions : \A w \in d.versions : w <= v

MigrationPath(version) == IF version \in 1 .. Current - 1 THEN version .. Current - 1 ELSE {}

Dangling(d) ==
  {r \in Cascading \union (Restricting \ {<<"gap_questions", "raw_logs">>}) :
     ~ d.rows[r[1]] \subseteq d.rows[r[2]]}

\* _validate_migration_target: every row hydrates, every reference holds, the
\* version is the current one and the shape is a fresh workspace's.
ValidTarget(d) ==
  /\ d.unreadable \intersect d.rows["raw_logs"] = {}
  /\ Dangling(d) = {}
  /\ Stored(d) = Current
  /\ d.shape = V12

\* PURGE_TABLE_ORDER: children before the rows they restrict.
PurgeTableOrder ==
  <<"verification_findings", "resume_bullets", "resume_branches", "self_claims",
    "assessment_snapshots", "gap_questions", "contradictions", "job_descriptions",
    "fact_sources", "experience_facts", "evidence_items", "raw_logs", "llm_calls",
    "processing_runs">>
=============================================================================
