-------------------------- MODULE MCWeComCommands --------------------------
(* Instances of WeComCommands for TLC.  The run spends its bounds in two   *)
(* ways: on two messages that compete for the queue of one service         *)
(* instance, or on one message over a reload, a stop, a restart and a      *)
(* crash, with clients that disconnect.                                    *)
EXTENDS WeComCommands, TLC

CONSTANTS m1, m2, p1, r1, r2

TwoMessages == {m1, m2}
OneCommand == {m2}
OnePlugin == {p1}
TwoRequests == {r1, r2}
OneTarget == m2 :> p1

VARIABLE focus     \* "queue" or "lives"

InFocus ==
    /\ focus = "queue" => life' = 1 /\ issued' <= 1 /\ gone' = {}
    /\ focus = "lives" => \A r \in Requests : request'[r].pc = "idle" \/ request'[r].m = m1

CasesInit == Init /\ focus \in {"queue", "lives"}
CasesSpec ==
    /\ CasesInit
    /\ [][Next /\ InFocus /\ UNCHANGED focus]_<<vars, focus>>
    /\ Fairness

=============================================================================
