------------------------- MODULE MCPluginScheduler -------------------------
(* Instances of PluginScheduler for TLC.  In the program only the job of    *)
(* the remote CookieCloud synchronisation is removable, and it belongs to   *)
(* no plugin; here one id may play both parts, which adds behaviours.       *)
EXTENDS PluginScheduler, TLC

CONSTANTS j1, p1, t1, t2, w1, w2

OneJob == {j1}
OnePlugin == {p1}
OneOwner == [j \in Jobs |-> p1]
TwoTasks == {t1, t2}
TwoWorkers == {w1, w2}

=============================================================================
