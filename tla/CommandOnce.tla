---------------------------- MODULE CommandOnce ----------------------------
(***************************************************************************)
(* What the WeCom message service promises, whatever its queue, its store  *)
(* and its retries do: a message is accepted at most once in its life,     *)
(* addressed to the plugin instances that were registered when it came; an *)
(* accepted message starts at most one callback per plugin, an image, file *)
(* or event only in the very instance it was addressed to; a message that  *)
(* is over never starts anything again.  Messages may be lost, never       *)
(* repeated (README.md:85, docs/PLUGIN_GUIDE.md:494-501).                  *)
(***************************************************************************)
EXTENDS Naturals

CONSTANTS Messages, Commands, Plugins

VARIABLES
    status,      \* status[m]: "new", "accepted" or "over"
    addressed,   \* addressed[m][p]: the instance of p that m is for, 0 if none
    starts,      \* starts[m][p]: how many callbacks of p were started for m
    instance,    \* instance[p]: the loaded instance of p, 0 if none
    issued       \* the number of instances there have been

vars == <<status, addressed, starts, instance, issued>>

Init ==
    /\ status = [m \in Messages |-> "new"]
    /\ addressed = [m \in Messages |-> [p \in Plugins |-> 0]]
    /\ starts = [m \in Messages |-> [p \in Plugins |-> 0]]
    /\ instance = [p \in Plugins |-> 0]
    /\ issued = 0

\* A new message is accepted, for instances that exist or have existed.
Accept(m) ==
    /\ status[m] = "new"
    /\ status' = [status EXCEPT ![m] = "accepted"]
    /\ \E to \in [Plugins -> 0..issued] : addressed' = [addressed EXCEPT ![m] = to]
    /\ UNCHANGED <<starts, instance, issued>>

\* A plugin sees an accepted message for the first and only time.
Run(m, p) ==
    /\ status[m] = "accepted"
    /\ starts[m][p] = 0
    /\ addressed[m][p] # 0 /\ instance[p] # 0
    /\ m \in Commands \/ instance[p] = addressed[m][p]
    /\ starts' = [starts EXCEPT ![m][p] = 1]
    /\ UNCHANGED <<status, addressed, instance, issued>>

\* Messages are done with, refused for good, or lost in a stop or a crash;
\* a crash and a restart unload every plugin as well.
Over ==
    /\ \E S \in SUBSET Messages :
         status' = [m \in Messages |-> IF m \in S THEN "over" ELSE status[m]]
    /\ instance' \in {instance, [p \in Plugins |-> 0]}
    /\ UNCHANGED <<addressed, starts, issued>>

Load(p) ==
    /\ issued' = issued + 1
    /\ instance' = [instance EXCEPT ![p] = issued + 1]
    /\ UNCHANGED <<status, addressed, starts>>

Unload(p) ==
    /\ instance' = [instance EXCEPT ![p] = 0]
    /\ UNCHANGED <<status, addressed, starts, issued>>

Next ==
    \/ \E m \in Messages : Accept(m)
    \/ \E m \in Messages, p \in Plugins : Run(m, p)
    \/ Over
    \/ \E p \in Plugins : Load(p) \/ Unload(p)

Spec == Init /\ [][Next]_vars
=============================================================================
