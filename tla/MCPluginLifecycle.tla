------------------------- MODULE MCPluginLifecycle -------------------------
(* Instances of PluginLifecycle for TLC. *)
EXTENDS PluginLifecycle, TLC

CONSTANTS boot, admin, p1, p2, v1, v2

OnePlugin == {p1}
TwoPlugins == {p1, p2}
TwoTasks == {boot, admin}
OneValue == {v1}
TwoValues == {v1, v2}
TwoInstances == {1, 2}
ValueSymmetry == Permutations(Values)
NoRequires == [p \in Plugins |-> {}]
SecondNeedsItself == [p \in Plugins |-> IF p = p2 THEN {p2} ELSE {}]
AllOps == {"enable", "disable", "reload", "configure", "rescope", "refresh", "stop"}
LiveOps == {"enable", "disable", "reload", "configure", "refresh"}
SwitchOps == {"enable", "disable", "refresh", "stop"}

=============================================================================
