-------------------------------- MODULE Sources --------------------------------
(***************************************************************************)
(* What reaches the records of a workspace from outside: the locators that *)
(* an owner or a source adapter supplies, admitted under one policy per    *)
(* entrance (services/source_files.py), the file a capture selects, and    *)
(* the payload an import reads twice (integrations/records.py).  The owner *)
(* edits the tree, the ignore patterns and the payload between any two     *)
(* steps.  A locator is abstracted to what the policies tell apart.        *)
(***************************************************************************)
EXTENDS Naturals, Sequences, FiniteSets, SequencesExt

CONSTANTS
  Places,         \* resolved paths
  Denied,         \* of them, below a mandatory denied component
  Awkward,        \* of them, whose name no persisted path may have
  Inside,         \* of them, below the directory of the payload
  Beyond,         \* where the symbolic link of a place leads
  Spelled,        \* locators as they are supplied
  NoLocator,      \* none supplied
  Nowhere,        \* no place
  MaxLocators,    \* MAX_ARTIFACT_LOCATORS
  Payloads,       \* what the payload file may hold: sequences of lines
  MaxObjects,     \* MAX_PAYLOAD_OBJECTS
  Contracts,      \* the importers run: "ephemeris", "atlas", "github"
  Retained,       \* what earlier imports may have retained: identity to hash
  MaxEdits        \* edits by the owner in one behaviour

ASSUME PlacesAssumption ==
  /\ Denied \subseteq Places /\ Awkward \subseteq Places /\ Inside \subseteq Places
  /\ Beyond \in [Places -> Places] /\ Nowhere \notin Places
\* A backslash is no character of a URI, and no URI begins with two slashes.
ASSUME SpelledAssumption ==
  \A v \in Spelled :
    v.scheme = "remote" /\ v.marks \intersect {"backslash", "double slash"} # {} =>
      "bad uri" \in v.marks
ASSUME ContractsAssumption == Contracts \subseteq {"ephemeris", "atlas", "github"}
\* Payloads are sequences of lines, each of so many objects.
ASSUME PayloadsAssumption ==
  \A lines \in Payloads :
    /\ lines \in Seq({lines[i] : i \in DOMAIN lines})
    /\ \A i \in DOMAIN lines : lines[i].objects \in Nat
ASSUME LimitsAssumption == {MaxLocators, MaxObjects, MaxEdits} \subseteq Nat

VARIABLES
  tree,           \* what is at each place
  ignored,        \* the places the configured ignore patterns match
  stored,         \* the locators the database holds
  capture,        \* the capture of a selected file
  payload,        \* the open payload: its lines, the stamp of its last change,
                  \* and (history) whether it was rewritten while it was open
  import,         \* the import of it
  edits           \* what is left of MaxEdits

owned == <<tree, ignored, payload, edits>>
sourceVars == <<tree, ignored, stored, capture, payload, import, edits>>

(***************************************************************************)
(* Authorization: the checks of a policy in their order                    *)
(***************************************************************************)

\* The verdict of the first check that holds.
FirstOf(checks, otherwise) ==
  LET holding == {i \in DOMAIN checks : checks[i][1]}
  IN IF holding = {} THEN otherwise ELSE checks[Min(holding)][2]

\* A resolved path as it is persisted and supplied again.
Canonical(place) == [scheme |-> "none", marks |-> {"absolute"}, place |-> place]

Resolved(place) == IF tree[place] = "link" THEN Beyond[place] ELSE place
Resolves(place) == place # Nowhere /\ tree[Resolved(place)] \in {"file", "directory"}

\* _forbidden_supplied_form: `x:/` is a drive unless x:// may be an authority.
Forbidden(v, authority) ==
  \/ v.marks \intersect {"backslash", "double slash"} # {}
  \/ "drive" \in v.marks /\ ~ (authority /\ "authority" \in v.marks)

ArtifactPolicy == [structural |-> TRUE, form |-> "drive", remote |-> TRUE, file_uri |-> TRUE,
                   local |-> TRUE, posix |-> TRUE, require_file |-> FALSE]
PromptPolicy == [ArtifactPolicy EXCEPT !.structural = FALSE, !.form = "rule 18"]
RemotePolicy == [ArtifactPolicy EXCEPT !.form = "rule 18", !.file_uri = FALSE, !.local = FALSE]
PayloadPolicy == [structural |-> FALSE, form |-> "supplied", remote |-> FALSE, file_uri |-> FALSE,
                  local |-> TRUE, posix |-> TRUE, require_file |-> TRUE]
SelectedPolicy == [PayloadPolicy EXCEPT !.posix = FALSE]

\* Which spellings the policy's form refuses.
FormRefused(v, form) ==
  CASE form = "drive" -> "drive" \in v.marks
    [] form = "rule 18" -> Forbidden(v, TRUE)
    [] form = "supplied" -> Forbidden(v, FALSE)

\* Mutant: the ignore patterns are not asked.
ClassifiedUnignored(place) == << <<place \in Denied, "denied">>, <<place \in Awkward, "invalid">> >>

\* _classify_resolved: denied, then ignored, then a name that cannot be kept.
Classified(place) ==
  << <<place \in Denied, "denied">>, <<place \in ignored, "ignored">>,
     <<place \in Awkward, "invalid">> >>

IsRemote(v, policy) == policy.remote /\ v.scheme = "remote"
IsFileUri(v, policy) == policy.remote /\ v.scheme = "file"
Named(v, policy) == IF v.scheme = "none" \/ IsFileUri(v, policy) THEN v.place ELSE Nowhere

\* What is checked of a locator's spelling, of any scheme; of a local one; and
\* of the place it resolves to.
SuppliedChecks(v, policy) ==
  << <<policy.structural /\ "not structural" \in v.marks, "invalid">>,
     <<FormRefused(v, policy.form), "unsupported">> >>

LocalChecks(v, policy, rooted) ==
  << <<IsFileUri(v, policy) /\ (~ policy.file_uri \/ "bad uri" \in v.marks), "unsupported">>,
     <<~ policy.local, "invalid">>,
     <<policy.posix /\ v.scheme = "none"
         /\ ("not structural" \in v.marks \/ Forbidden(v, FALSE)), "unsupported">>,
     <<rooted /\ (v.scheme # "none" \/ v.marks \intersect {"absolute", "parent"} # {}), "escape">>,
     <<~ Resolves(Named(v, policy)), "unresolved">> >>

PlaceChecks(place, policy, rooted) ==
  << <<policy.require_file /\ tree[place] # "file", "not file">>,
     <<rooted /\ place \notin Inside, "escape">> >>

\* The checks of authorize_locator, in its order: a remote URI is accepted
\* unopened; a local path must resolve, below the payload's directory if given.
Refusal(v, policy, rooted) ==
  LET place == Resolved(Named(v, policy))
  IN FirstOf(SuppliedChecks(v, policy),
       IF IsRemote(v, policy) THEN IF "bad uri" \in v.marks THEN "invalid" ELSE ""
       ELSE FirstOf(LocalChecks(v, policy, rooted),
              FirstOf(PlaceChecks(place, policy, rooted), FirstOf(Classified(place), ""))))

Authorize(v, policy, rooted) ==
  LET refusal == Refusal(v, policy, rooted)
  IN [refusal |-> refusal,
      locator |-> IF refusal # "" THEN NoLocator
                  ELSE IF IsRemote(v, policy) THEN v
                  ELSE Canonical(Resolved(Named(v, policy)))]

\* reauthorize_prompt_locators: what a prompt may carry of a persisted locator.
Reauthorized(locator) ==
  \/ locator.scheme = "remote" /\ ~ Forbidden(locator, TRUE)
  \/ Authorize(locator, PromptPolicy, FALSE).refusal = ""

\* authorize_artifact_locators: all of them, or none.
Artifacts(supplied) ==
  LET verdict(i) == Authorize(supplied[i], ArtifactPolicy, FALSE)
      admitted == {verdict(i).locator : i \in DOMAIN supplied}
  IN IF /\ Len(supplied) <= MaxLocators
        /\ \A i \in DOMAIN supplied : verdict(i).refusal = ""
        /\ Cardinality(admitted) = Len(supplied)
     THEN [refusal |-> FALSE, locators |-> admitted]
     ELSE [refusal |-> TRUE, locators |-> {}]

(***************************************************************************)
(* A capture of a selected file with artifact locators                     *)
(***************************************************************************)

Idle == [pc |-> "idle", place |-> Nowhere]

\* The supplied path is authorized, or the capture ends.
CaptureSelects(v) ==
  /\ capture.pc = "idle"
  /\ LET verdict == Authorize(v, SelectedPolicy, FALSE)
     IN capture' = IF verdict.refusal # "" THEN [capture EXCEPT !.pc = "over"]
                   ELSE [capture EXCEPT !.pc = "open", !.place = verdict.locator.place]
  /\ UNCHANGED <<stored, import, owned>>

\* _open_selected_file: nothing is followed, and what is not the authorized
\* file is refused.  The text is read and the file closed.
CaptureOpens ==
  /\ capture.pc = "open"
  /\ capture' = [capture EXCEPT !.pc = IF tree[capture.place] = "file" THEN "artifacts" ELSE "over"]
  /\ UNCHANGED <<stored, import, owned>>

\* capture_manual: the artifacts are admitted after the text was read, and the
\* log with its evidence is one transaction.
CaptureStores(supplied) ==
  /\ capture.pc = "artifacts"
  /\ LET admitted == Artifacts(supplied)
     IN stored' = IF admitted.refusal THEN stored
                  ELSE stored \union {Canonical(capture.place)} \union admitted.locators
  /\ capture' = [capture EXCEPT !.pc = "over"]
  /\ UNCHANGED <<import, owned>>

(***************************************************************************)
(* An import: one pass establishes the boundaries, a second replays them   *)
(***************************************************************************)

NewImport(contract) ==
  [pc |-> "start", contract |-> contract, code |-> "", stamp |-> 0, objects |-> 0,
   first |-> <<>>, second |-> <<>>, known |-> <<>>, retained |-> <<>>,
   accepted |-> {}, duplicate |-> {}, rejected |-> {}]

Multi == import.contract = "ephemeris"

ImportEnds(code) == import' = [import EXCEPT !.pc = "over", !.code = code]

\* The payload stays open, so a replaced file is not seen; a rewritten one is.
ImportOpens ==
  /\ import.pc = "start"
  /\ import' = [import EXCEPT !.pc = "count", !.stamp = payload.stamp]
  /\ UNCHANGED <<stored, capture, owned>>

\* What reading one more line gives: blank lines establish no record, and the
\* objects of the whole payload are counted.
Reads(read, line) ==
  LET objects == import.objects + line.objects
      defect == FirstOf(<< <<line.kind = "not utf8", "input_not_utf8">>,
                           <<line.kind \in {"not json", "blank"} /\ ~ Multi, "import_payload_invalid">>,
                           <<objects > MaxObjects, "import_payload_too_large">> >>, "")
  IN IF defect # "" THEN ImportEnds(defect)
     ELSE import' = [import EXCEPT ![read] = Append(@, line), !.objects = objects]

\* A single-record contract takes the whole payload for its document.
Exhausted(read) == Len(import[read]) >= IF Multi THEN Len(payload.lines) ELSE 1

ImportCounts ==
  /\ import.pc = "count" /\ ~ Exhausted("first")
  /\ IF ~ Multi /\ Len(payload.lines) # 1 THEN ImportEnds("import_payload_invalid")
     ELSE Reads("first", payload.lines[Len(import.first) + 1])
  /\ UNCHANGED <<stored, capture, owned>>

\* Mutant: the payload is identified by its descriptor alone.
SamePayloadAlways == TRUE

\* _reconfirm: size and modification time.
SamePayload == payload.stamp = import.stamp

\* After the first pass, before the lock, and as the replay starts.
ImportReconfirms ==
  /\ \/ import.pc = "count" /\ Exhausted("first")
     \/ import.pc \in {"iterate", "replay"}
  /\ IF SamePayload
     THEN import' = [import EXCEPT !.objects = 0,
                       !.pc = CASE @ = "count" -> "iterate" [] @ = "iterate" -> "lock"
                                [] @ = "replay" -> "classify"]
     ELSE ImportEnds("import_payload_changed")
  /\ UNCHANGED <<stored, capture, owned>>

\* retained_import_hashes, under the writer lock.  A single record was held
\* from the first pass and is not read again.
ImportLocks ==
  /\ import.pc = "lock"
  /\ \E known \in Retained :
       import' = [import EXCEPT !.known = known, !.retained = known,
                    !.pc = IF Multi THEN "replay" ELSE "classify"]
  /\ UNCHANGED <<stored, capture, owned>>

\* The verdict on one record: its own defects, the contract's check, what was
\* retained under its identity, then the plan.
Check(line) ==
  IF import.contract = "github" THEN Authorize(line.locator, RemotePolicy, FALSE).refusal # ""
  ELSE line.kind = "unfaithful"
Planned(line) ==
  IF import.contract = "atlas" /\ line.locator # NoLocator
  THEN Authorize(line.locator, PayloadPolicy, TRUE)
  ELSE [refusal |-> "", locator |-> IF Multi THEN NoLocator ELSE line.locator]

Held(line) == line.id \in DOMAIN import.retained

Verdict(line) ==
  FirstOf(<< <<line.kind \notin {"plain", "unfaithful"}, "rejected">>,
             <<line.kind \in {"plain", "unfaithful"} /\ Check(line), "rejected">>,
             <<Held(line) /\ import.retained[line.id] = line.hash, "duplicate">>,
             <<Held(line), "rejected">>,
             <<line.kind = "plain" /\ Planned(line).refusal # "", "rejected">> >>, "accepted")

\* The records among the lines read, blank ones not counted, and what is told
\* of one: its number and its identity.
Records(lines) == {i \in DOMAIN lines : lines[i].kind # "blank"}
Told(lines, i) ==
  [number |-> Cardinality({j \in Records(lines) : j =< i}),
   id |-> lines[i].id, hash |-> lines[i].hash]

Retains(retained, line) ==
  [id \in DOMAIN retained \union {line.id} |-> IF id = line.id THEN line.hash ELSE retained[id]]

Banks(line, read) ==
  LET verdict == Verdict(line)
  IN /\ import' = [import EXCEPT
           ![verdict] = @ \union {Told(read, Len(read))},
           !.second = read, !.objects = @ + line.objects,
           !.retained = IF verdict = "accepted" THEN Retains(@, line) ELSE @]
     /\ stored' = IF verdict = "accepted"
                  THEN stored \union ({Planned(line).locator} \ {NoLocator}) ELSE stored

\* One line of the replay, or the record held since the first pass.
ImportClassifies ==
  /\ import.pc = "classify"
  /\ ~ Exhausted("second")
  /\ LET line == IF Multi THEN payload.lines[Len(import.second) + 1] ELSE import.first[1]
     IN IF line.kind = "not utf8" \/ line.kind = "blank"
           \/ import.objects + line.objects > MaxObjects
        THEN Reads("second", line) /\ UNCHANGED stored
        ELSE Banks(line, Append(import.second, line))
  /\ UNCHANGED <<capture, owned>>

\* Mutant: the digests are not compared, the stamp answered.
SameContentAlways == TRUE

\* _reconfirm_content: the digests of the two exhausted passes.
SameContent == Multi => import.first = import.second

ImportFinishes ==
  /\ import.pc = "classify"
  /\ Exhausted("second")
  /\ ImportEnds(IF SameContent THEN "success" ELSE "import_payload_changed")
  /\ UNCHANGED <<stored, capture, owned>>

\* The codes that blame the payload.
PayloadFaults ==
  {"input_not_utf8", "import_payload_invalid", "import_payload_too_large", "import_payload_changed"}

\* An interrupt, a busy or failing database, exhausted identifier collisions, an
\* error of reading, or anything else: one code stands for theirs.  What is
\* raised carries what was classified so far; a record that was committed stays.
ImportRaises ==
  /\ import.pc \notin {"start", "over"}
  /\ ImportEnds("raised")
  /\ UNCHANGED <<stored, capture, owned>>

ImportStep ==
  ImportOpens \/ ImportCounts \/ ImportReconfirms \/ ImportLocks \/ ImportClassifies
    \/ ImportFinishes \/ ImportRaises

(***************************************************************************)
(* The owner                                                               *)
(***************************************************************************)

\* What loads the patterns once sees a change of them only between two commands.
OwnerEdits(between) ==
  /\ edits > 0 /\ edits' = edits - 1
  /\ \/ /\ \E place \in Places, kind \in {"file", "absent", "link"} :
             kind # tree[place] /\ tree' = [tree EXCEPT ![place] = kind]
        /\ UNCHANGED <<ignored, payload>>
     \/ /\ between
        /\ \E place \in Places \ ignored : ignored' = ignored \union {place}
        /\ UNCHANGED <<tree, payload>>
     \* A rewrite under the open payload; one of the same size within the
     \* clock's grain keeps the stamp.
     \/ /\ import.pc \notin {"start", "over"}
        /\ \E lines \in Payloads, stamp \in {payload.stamp, payload.stamp + 1} :
             /\ lines # payload.lines
             /\ stamp = payload.stamp => Len(lines) = Len(payload.lines)
             /\ payload' = [lines |-> lines, stamp |-> stamp, rewritten |-> TRUE]
        /\ UNCHANGED <<tree, ignored>>
  /\ UNCHANGED <<stored, capture, import>>

SourceInit(captures, imports, payloads, budget) ==
  /\ tree = [place \in Places |-> "file"]
  /\ ignored = {}
  /\ stored = {}
  /\ capture \in captures
  /\ \E lines \in payloads : payload = [lines |-> lines, stamp |-> 0, rewritten |-> FALSE]
  /\ import \in imports
  /\ edits = budget

SourceStep ==
  \/ \E v \in Spelled : CaptureSelects(v)
  \/ CaptureOpens
  \/ \E supplied \in SeqOf(Spelled, MaxLocators + 1) : CaptureStores(supplied)
  \/ ImportStep

(***************************************************************************)
(* Properties                                                              *)
(***************************************************************************)

\* A locator admitted once is let into a prompt if and only if it would be
\* admitted now: a remote one always, whichever entrance admitted it, and a
\* path when it still resolves to a place that is neither denied nor ignored
\* nor impossible to keep.  Otherwise a stored locator either discloses a path
\* or stops every later stage (source_files.py, reauthorize_prompt_locators).
PromptsPermitted ==
  \A locator \in stored :
    Reauthorized(locator) <=>
      \/ locator.scheme = "remote"
      \/ /\ Resolves(locator.place)
         /\ Resolved(locator.place) \notin Denied \union ignored \union Awkward

\* However an import ends, it reports each record its second pass has read
\* once: accepted only under an identity that was free, a duplicate only of
\* what was retained or accepted before it; a failure withdraws nothing.  If it
\* succeeds these are the records of one payload, the one its first pass saw
\* whole.  It blames the payload after it has accepted a record only if the
\* payload was rewritten while it was open (records.py, PayloadRecords;
\* imports.py, _classify and import_payload).
ReportsOnePayload ==
  import.pc = "over" =>
    /\ LET read == IF import.code = "success" THEN import.first ELSE import.second
       IN /\ import.accepted \union import.duplicate \union import.rejected
               = {Told(read, i) : i \in Records(read)}
          /\ Cardinality(import.accepted) + Cardinality(import.duplicate)
               + Cardinality(import.rejected) = Cardinality(Records(read))
    /\ \A r, s \in import.accepted : r.id \notin DOMAIN import.known /\ (r.id = s.id => r = s)
    /\ \A r \in import.duplicate :
         \/ r.id \in DOMAIN import.known /\ import.known[r.id] = r.hash
         \/ \E s \in import.accepted : s.number < r.number /\ s.id = r.id /\ s.hash = r.hash
    /\ import.code \in PayloadFaults /\ import.accepted # {} => payload.rewritten
=============================================================================
