------------------------------ MODULE MCProvider ------------------------------
(* Small instances of Sources and Provider for TLC: a capture or an import *)
(* with the owner's edits, followed by a call that reads what was stored;  *)
(* or a call alone, under each setting.                                    *)
EXTENDS Provider

Local(marks, place) == [scheme |-> "none", marks |-> marks, place |-> place]
Remote(marks) == [scheme |-> "remote", marks |-> marks, place |-> "nowhere"]

ThePlaces == {"doc", "secret", "odd", "sub"}
TheDenied == {"secret"}
TheAwkward == {"odd"}
TheInside == {"sub"}
TheBeyond == [place \in ThePlaces |-> IF place = "doc" THEN "secret" ELSE "doc"]

TheSpelled ==
  {Local({"absolute"}, place) : place \in ThePlaces}
    \union {Local({}, "sub"), Local({"parent"}, "doc"), Local({"backslash"}, "nowhere"),
            Local({"not structural"}, "doc"), Remote({}), Remote({"bad uri"}), Remote({"drive"}),
            Remote({"drive", "authority"}), [scheme |-> "file", marks |-> {}, place |-> "doc"],
            [scheme |-> "file", marks |-> {"bad uri"}, place |-> "nowhere"]}
TheAbsent == [scheme |-> "absent", marks |-> {}, place |-> "nowhere"]

Line(kind, id, hash) == [kind |-> kind, id |-> id, hash |-> hash, objects |-> 1, locator |-> TheAbsent]
ThePayloads ==
  {<<[Line("plain", "a", 1) EXCEPT !.locator = locator]>> : locator \in TheSpelled}
    \union {<<Line("plain", "a", 1)>>,
            <<Line("unfaithful", "a", 1)>>,
            <<[Line("plain", "a", 1) EXCEPT !.objects = 3]>>,
            <<Line("plain", "a", 1), Line("plain", "a", 1)>>,
            <<Line("plain", "a", 1), Line("plain", "a", 2)>>,
            <<Line("plain", "b", 1), Line("not json", "a", 0)>>,
            <<Line("blank", "", 0), Line("float", "b", 2)>>,
            <<Line("plain", "a", 1), Line("not utf8", "", 0)>>,
            <<Line("not json", "", 0)>>}
TheRetained == {<<>>, [id \in {"a"} |-> 1]}

Limits == [bytes |-> 9, input |-> 2, output |-> 1, ceiling |-> 1]
Setting(adapter) ==
  [defects |-> {}, host |-> {}, prompt |-> [bytes |-> 6, secret |-> FALSE], limits |-> Limits,
   adapter |-> adapter]
Overlong == {[Setting("codex-cli") EXCEPT !.prompt.bytes = 10]}

Adapters == {"codex-cli", "claude-agent-sdk"}
Defects == {"credential", "unknown key", "executable path", "half a selection", "adapter",
            "openai-compat", "model", "number", "no selection"}
Faults == {"effort unsupported", "no executable", "launcher", "home unset", "no home",
           "version untested", "canary read", "no session", "proxy"}
TheSettings ==
  LET base == {Setting(adapter) : adapter \in Adapters}
      codex == Setting("codex-cli")
  IN base
       \union {[codex EXCEPT !.defects = {defect}] : defect \in Defects}
       \union {[s EXCEPT !.host = {fault}] : s \in base, fault \in Faults}
       \union {[codex EXCEPT !.prompt.bytes = bytes] : bytes \in {7, 9, 10}}
       \union {[codex EXCEPT !.prompt.secret = TRUE]}

Answer(end, file) ==
  [end |-> end, file |-> file, error |-> FALSE, agrees |-> TRUE, status |-> 0, channel |-> {}]
TheSilence == Answer("none", "none")
TheAnswers ==
  {Answer(end, file) : end \in {"exit 0", "exit 1"}, file \in {"none", "torn", "valid", "invalid"}}
    \union {[Answer("exit 0", "valid") EXCEPT !.error = TRUE],
            [Answer("exit 0", "valid") EXCEPT !.agrees = FALSE]}
    \union {[Answer("exit 0", "valid") EXCEPT !.status = status] : status \in {404, 418, 429, 503}}
    \union {[Answer("exit 1", "none") EXCEPT !.channel = channel] :
            channel \in {{"auth"}, {"rate", "auth"}, {"timeout", "lost"}, {"outage"}}}

Idles == {[Idle EXCEPT !.pc = "over"]}
Imported == {[NewImport("ephemeris") EXCEPT !.pc = "over"]}

Init ==
  \/ SourceInit({Idle}, Imported, {<<>>}, MaxEdits) /\ ProviderInit(Overlong)
  \/ SourceInit(Idles, {NewImport(contract) : contract \in Contracts}, Payloads, MaxEdits)
       /\ ProviderInit(Overlong)
  \/ SourceInit(Idles, Imported, {<<>>}, 0) /\ ProviderInit(TheSettings)

Spec == Init /\ [][ProviderNext]_<<sourceVars, providerVars>> /\ ProviderFairness
=============================================================================
