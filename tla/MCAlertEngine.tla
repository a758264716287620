--------------------------- MODULE MCAlertEngine ---------------------------
(* A small instance of AlertEngine for TLC.                                *)
EXTENDS AlertEngine, TLC

CONSTANTS l1, l2, l3, f1, r1, p1, p2

TwoLines == {l1, l2}
MuteText == [type |-> "text", value |-> "v"]
MuteHost == [type |-> "host", value |-> "v"]
BothMutes == {MuteText, MuteHost}

\* The last two are skipped when they are compiled.
JSONRules ==
  {[process |-> {p1}, booleanFields |-> ("complete" :> TRUE), emptyArrayFields |-> {"failures"}],
   [process |-> {p1}, booleanFields |-> ("complete" :> FALSE), emptyArrayFields |-> {}],
   [process |-> {}, booleanFields |-> ("complete" :> FALSE), emptyArrayFields |-> {}],
   [process |-> {p1}, booleanFields |-> <<>>, emptyArrayFields |-> {}]}

\* A plain line two monitors match.
Plain == [matches |-> {1, 2}, excludedBy |-> {}, parsed |-> TRUE, carries |-> {},
          process |-> p1, object |-> NotAnObject, noise |-> FALSE,
          fingerprint |-> f1, rule |-> NoRule]

\* One of a rule, one that can be muted, one no parser knows and one of noise.
AllShapes ==
  {Plain, [Plain EXCEPT !.rule = r1, !.process = NoProcess],
   [Plain EXCEPT !.carries = {MuteText}, !.matches = {2}, !.rule = r1],
   [Plain EXCEPT !.parsed = FALSE, !.process = NoProcess, !.carries = BothMutes,
                 !.excludedBy = {1}],
   [Plain EXCEPT !.object = ("complete" :> "true") @@ ("failures" :> "empty")]}

\* Two lines at a time, or one of any JSON object.
AllLoads ==
  [TwoLines -> AllShapes] \cup
  {l3 :> [Plain EXCEPT !.matches = {1}, !.object = o] : o \in Objects}

AllConfigs == {[dedup |-> TRUE, fallback |-> TRUE], [dedup |-> FALSE, fallback |-> FALSE]}
LineSymmetry == Permutations(TwoLines)
=============================================================================
