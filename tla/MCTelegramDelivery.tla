------------------------- MODULE MCTelegramDelivery -------------------------
(* Instances of TelegramDelivery for TLC. *)
EXTENDS TelegramDelivery

CONSTANTS c1, c2, c3, w1, w2, m1, m2, a, b, l1, l2

TwoCallers == {c1, c2}
ThreeCallers == {c1, c2, c3}
OneWorker == {w1}
TwoWorkers == {w1, w2}
OneMessage == {m1}
TwoMessages == {m1, m2}
OneText == {a}
TwoLocks == {l1, l2}

=============================================================================
