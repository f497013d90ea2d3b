------------------------------ MODULE AIStream ------------------------------
(***************************************************************************)
(* A streamed model turn, services/ai_stream.py: the events of the three   *)
(* protocols are collected, and only a turn that ended properly becomes a  *)
(* response whose tool calls may be executed.                              *)
(*                                                                         *)
(* The service means to send `plan` tool calls of two fragments each.  It  *)
(* may run into its output limit, a gateway may end the stream early, and  *)
(* the connection may break anywhere; what a service sends comes in order. *)
(***************************************************************************)
EXTENDS Naturals, FiniteSets

CONSTANT ToolCalls     \* bound of the tool calls of a turn

ASSUME StreamAssumption == ToolCalls \in Nat

VARIABLES proto,    \* the protocol
          plan,     \* what the service means to send
          got,      \* fragments the collector has of each call
          ended,    \* blocks the service has ended
          finish,   \* finish_reason, stop_reason or status: "none", "good", "length"
          dead,     \* the connection is gone
          streamOutcome   \* "open", "returned", "raised"

streamVars == <<proto, plan, got, ended, finish, dead, streamOutcome>>
Whole == 2
StreamTypeOK ==
    /\ proto \in {"chat", "responses", "messages"} /\ plan \in 0..ToolCalls
    /\ got \in [1..ToolCalls -> 0..Whole] /\ ended \subseteq 1..ToolCalls
    /\ finish \in {"none", "good", "length"} /\ dead \in BOOLEAN
    /\ streamOutcome \in {"open", "returned", "raised"}

StreamInit ==
    /\ proto \in {"chat", "responses", "messages"} /\ plan \in 0..ToolCalls
    /\ got = [i \in 1..ToolCalls |-> 0] /\ ended = {}
    /\ finish = "none" /\ dead = FALSE /\ streamOutcome = "open"

Started(i) == got[i] > 0
Complete(i) == got[i] = Whole
StreamOpen == streamOutcome = "open" /\ ~dead
Refuse == streamOutcome' = "raised"

\* The next fragment of a call, framed by a blank line; a frame that does not
\* end is discarded, so a fragment arrives whole or not at all.
Fragment(i) ==
    /\ StreamOpen /\ finish = "none" /\ i <= plan /\ ~Complete(i) /\ i \notin ended
    /\ \A j \in 1..(i - 1) : Complete(j) /\ (proto = "messages" => j \in ended)
    /\ got' = [got EXCEPT ![i] = @ + 1]
    /\ UNCHANGED <<proto, plan, ended, finish, dead, streamOutcome>>

\* The arguments are parsed when the block ends: half of them is no JSON.
EndBlock(i) ==
    /\ StreamOpen /\ proto = "messages" /\ Started(i) /\ i \notin ended
    /\ IF Complete(i) THEN ended' = ended \cup {i} /\ UNCHANGED streamOutcome ELSE Refuse /\ UNCHANGED ended
    /\ UNCHANGED <<proto, plan, got, finish, dead>>

\* fault: every reason is a good one.
AnyReason(why) == TRUE
GoodReason(why) == why = "good"
\* Chat refuses a bad reason at once, the others with the terminal event.
FinishReason(why) ==
    /\ StreamOpen /\ finish = "none"
    /\ why = "good" => \A i \in 1..plan : Complete(i)
    /\ finish' = why
    /\ IF proto = "chat" /\ ~GoodReason(why) THEN Refuse ELSE UNCHANGED streamOutcome
    /\ UNCHANGED <<proto, plan, got, ended, dead>>

\* The terminal event: [DONE] after a reason; response.completed with status
\* completed; message_stop with a good reason and every block ended.
Terminated ==
    /\ finish # "none" /\ GoodReason(finish)
    /\ proto = "messages" => ended = {i \in 1..ToolCalls : Started(i)}
Terminal ==
    /\ StreamOpen
    /\ IF Terminated THEN streamOutcome' = "returned" ELSE Refuse
    /\ UNCHANGED <<proto, plan, got, ended, finish, dead>>

\* The stream ends without its terminal event, or with an error event.
Break ==
    /\ StreamOpen /\ dead' = TRUE
    /\ UNCHANGED <<proto, plan, got, ended, finish, streamOutcome>>
AfterBreak ==
    /\ dead /\ streamOutcome = "open"
    /\ Refuse
    /\ UNCHANGED <<proto, plan, got, ended, finish, dead>>

StreamNext ==
    \/ \E i \in 1..ToolCalls : Fragment(i) \/ EndBlock(i)
    \/ \E why \in {"good", "length"} : FinishReason(why)
    \/ Terminal \/ Break \/ AfterBreak
StreamSpec == StreamInit /\ [][StreamNext]_streamVars

-----------------------------------------------------------------------------
\* A turn whose tool calls may be executed has every call of the service with
\* all its arguments: never a part of a stream that was cut short.
PartialIsNotCallable ==
    StreamTypeOK /\ (streamOutcome = "returned" => \A i \in 1..plan : Complete(i))
=============================================================================
