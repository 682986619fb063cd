---------------------------- MODULE MCWorkspace ----------------------------
(* Instances of Operations for TLC: the commands run together, two at a time. *)
EXTENDS Operations, TLC

CONSTANTS a, b, p1, p2

MCProcs == {p1, p2}
MCKeys == {a, b}

\* A sound workspace of one record of every kind.
Found(first, second, version) ==
  [kinds |-> p1 :> first @@ p2 :> second, version |-> version,
   entries |-> Marker \union {"out"}, rows |-> {a}, flaw |-> "none", sets |-> {},
   earlier |-> FALSE, payload |-> <<>>]

Beginnings ==
  {[Found("init", "init", 0) EXCEPT !.entries = e] : e \in {{}, {"out"}, {"foreign out"}}}

Migrations ==
  {Found("migrate", "capture", v) : v \in 1 .. Current}
    \union {[Found("migrate", "migrate", v) EXCEPT
               !.flaw = f, !.sets = IF v >= 8 THEN {<<"assessment", a>>} ELSE {}] :
              v \in {2, 8, 9}, f \in {"blank", "unreadable", "odd", "scoped"}}

Published == {<<"assessment", a>>, <<"branch", a>>}

Erasures ==
  {[Found(k[1], k[2], Current) EXCEPT !.sets = Published, !.earlier = TRUE,
                                      !.payload = <<a, b, b>>] :
     k \in {<<"logs delete", "import">>, <<"jd delete", "capture">>, <<"purge", "capture">>,
            <<"purge", "logs delete">>}}

MCScenarios == Beginnings \union Migrations \union Erasures

\* One deletion of a log, alone.
LogScenario == {[Found("logs delete", "migrate", Current) EXCEPT !.sets = Published]}

\* An init, and a capture that finds the workspace as soon as it is one.
InitScenario == {[Found("init", "capture", 0) EXCEPT !.entries = {}]}
=============================================================================
