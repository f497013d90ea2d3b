-------------------------- MODULE MCPluginGovernor --------------------------
(* Instances of PluginGovernor for TLC. *)
EXTENDS PluginGovernor

CONSTANTS c1, c2, p1, p2

OnePlugin == {p1}
TwoPlugins == {p1, p2}
OneCall == {c1}
TwoCalls == {c1, c2}
BothNested == [c \in Calls |-> 2]
FirstNests == [c \in Calls |-> IF c = c1 THEN 2 ELSE 1]
TwiceProvided == <<p1, p1>>
BothProvide == <<p1, p2>>
TwoBudgets == 1..2
ThreeBudgets == 1..3
Brittle == [concurrency |-> 1, pending |-> 1, threshold |-> 1]

\* The run keeps one earlier life of the plugin at a time: it is not released
\* once more while executions of an older life are under way.
OldLives == {FrameOf(x).e : x \in Frames} \ Range(current)
BoundedSpec == Init /\ [][Next /\ Cardinality(OldLives') <= 1]_vars /\ Fairness

=============================================================================
