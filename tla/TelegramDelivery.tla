-------------------------- MODULE TelegramDelivery --------------------------
(***************************************************************************)
(* delivery.py: the sends and edits a plugin instance asks for in one chat *)
(* of one account.  Chats share the registry lock, which nobody holds      *)
(* across an await, and the closing of the instance.                       *)
(*                                                                         *)
(* An operation is a call of send or edit, or the worker that flushes a    *)
(* coalesced edit.  The future of a pending edit is named by its worker    *)
(* and is done when the worker is idle.  The users count of a chat lock is *)
(* the length of its line: nothing is awaited between the two.             *)
(***************************************************************************)
EXTENDS Naturals, SequencesExt

CONSTANTS
    Callers,     \* slots for calls under way
    Workers,     \* slots for flush workers and their futures
    Messages,    \* messages of the chat
    Texts,
    Locks,       \* slots for _ChatLock objects
    Retries      \* FloodWaits an operation is retried after (2)

None == "none"
Ops == Callers \cup Workers

ASSUME DeliveryAssumption ==
    /\ None \notin Ops \cup Messages \cup Texts \cup Locks
    /\ Callers \cap Workers = {}
    /\ Retries \in Nat

VARIABLES
    op,        \* the operations
    pending,   \* _pending_edits: the worker of each message, None if none
    last,      \* _last_edits
    chat,      \* _chat_locks: the chat's lock, None if none
    line,      \* line[l]: who holds the lock l, and who waits for it in order
    dying,     \* the operations whose task is being cancelled
    phase      \* "open", "closing" (_closed), "draining" (_drain waits), "closed"

locks == <<chat, line>>
vars == <<op, pending, last, locks, dying, phase>>

\* waits: the futures an operation waits for; older: history, the operations
\* that were under way when a send was called and still are.
Idle == [kind |-> "none", pc |-> "idle", msg |-> None, text |-> None,
         tries |-> 0, waits |-> {}, older |-> {}]
Asked(kind, m, text) == [Idle EXCEPT !.kind = kind, !.msg = m, !.text = text]

Init ==
    /\ op = [o \in Ops |-> Idle]
    /\ pending = [m \in Messages |-> None]
    /\ last = [m \in Messages |-> None]
    /\ chat = None /\ line = [l \in Locks |-> <<>>]
    /\ dying = {} /\ phase = "open"

-----------------------------------------------------------------------------
Closed == phase # "open"
Busy == {o \in Ops : op[o].pc # "idle"}
Answered(ws) == ws \cap Busy = {}
At(o, pc) == op[o].pc = pc /\ o \notin dying

\* The worker o has taken its edit out of the table.
Unqueue(o) == pending' = [m \in Messages |-> IF pending[m] = o THEN None ELSE pending[m]]

\* The operation is over, and its future done.
Finish(o) ==
    /\ op' = [u \in Ops |-> IF u = o THEN Idle ELSE [op[u] EXCEPT !.older = @ \ {o}]]
    /\ dying' = dying \ {o}
    /\ Unqueue(o)

Goes(o, r, pc) ==
    /\ op' = [op EXCEPT ![o] = [r EXCEPT !.pc = pc]]
    /\ UNCHANGED dying
    /\ Unqueue(o)

\* The line s without o.
Place(s, o) == CHOOSE i \in DOMAIN s : s[i] = o
Without(s, o) == IF o \in ToSet(s) THEN RemoveAt(s, Place(s, o)) ELSE s

\* _ordered_chat: the lock is taken at once or waited for in order, and dropped
\* by the last who uses it.
DropAtOnce == chat' = None                             \* fault: others may be waiting
DropUnused == chat' = IF chat # None /\ line'[chat] = <<>> THEN None ELSE chat
KeepPlace(o) ==                                        \* fault: who gives up waiting stays
    line' = [l \in Locks |-> IF op[o].pc = "line" THEN line[l] ELSE Without(line[l], o)]
GivePlace(o) == line' = [l \in Locks |-> Without(line[l], o)]
LeaveChat(o) == GivePlace(o) /\ DropUnused
Leave(o) == LeaveChat(o) /\ Finish(o)

EnterChat(o, r) ==
    \/ /\ chat # None
       /\ Goes(o, r, "line")
       /\ line' = [line EXCEPT ![chat] = Append(@, o)] /\ UNCHANGED chat
    \/ /\ chat = None /\ Closed
       /\ Finish(o) /\ UNCHANGED locks
    \/ /\ chat = None /\ ~Closed
       /\ Goes(o, r, "rpc")
       /\ \E l \in Locks : line[l] = <<>> /\ chat' = l /\ line' = [line EXCEPT ![l] = <<o>>]

-----------------------------------------------------------------------------
(* Calls.                                                                   *)

\* Only the coalesced edits that are not flushed yet are waited for: the others
\* are in the line already.
WaitForNone == {}                                      \* fault: queued edits are overtaken
QueuedEdits == {pending[m] : m \in Messages} \ {None}

Send(c) ==
    /\ op[c] = Idle /\ ~Closed
    /\ LET r == [Asked("send", None, None) EXCEPT
                   !.older = {o \in Busy : op[o].kind # "ask"}, !.waits = QueuedEdits]
       IN IF r.waits # {} THEN Goes(c, r, "behind") /\ UNCHANGED locks ELSE EnterChat(c, r)
    /\ UNCHANGED <<last, phase>>

\* The queued edits are over.  A future wakes those that wait for it in the order
\* they came.
InTurn(c) == \A u \in op[c].older : At(u, "behind") => ~(op[u].waits \subseteq op[c].waits)
Proceed(c) ==
    /\ At(c, "behind") /\ Answered(op[c].waits) /\ InTurn(c)
    /\ EnterChat(c, [op[c] EXCEPT !.waits = {}])
    /\ UNCHANGED <<last, phase>>

\* edit without coalescing; a repeated edit returns at once.
EditNow(c, m, text) ==
    /\ op[c] = Idle /\ ~Closed /\ last[m] # text
    /\ EnterChat(c, Asked("edit", m, text))
    /\ UNCHANGED <<last, phase>>

\* A coalesced edit: the first one starts a worker, later ones replace its text.
EditSoon(c, m, text) ==
    /\ op[c] = Idle /\ ~Closed
    /\ \E w \in Workers :
         /\ IF pending[m] # None
            THEN w = pending[m]
            ELSE op[w] = Idle /\ \A u \in Ops : w \notin op[u].waits
         /\ pending' = [pending EXCEPT ![m] = w]
         /\ op' = [op EXCEPT
              ![w] = [Asked("edit", m, text) EXCEPT !.pc = "window"],
              ![c] = [Asked("ask", m, None) EXCEPT !.pc = "asked", !.waits = {w}]]
    /\ UNCHANGED <<last, locks, dying, phase>>

\* The future of a coalesced edit is done.
Told(c) ==
    /\ At(c, "asked") /\ Answered(op[c].waits)
    /\ Finish(c)
    /\ UNCHANGED <<last, locks, phase>>

-----------------------------------------------------------------------------
(* Operations under way.                                                    *)

\* _flush_edit after its window.  A repeated edit is skipped, and so is one
\* whose message object already shows the text.
Flush(w) ==
    /\ At(w, "window")
    /\ \E shown \in BOOLEAN :
         IF shown \/ last[op[w].msg] = op[w].text
         THEN Finish(w) /\ UNCHANGED locks
         ELSE EnterChat(w, op[w])
    /\ UNCHANGED <<last, phase>>

\* The lock is handed to the next in line, who looks again.
Repeated(o) == op[o].kind = "edit" /\ last[op[o].msg] = op[o].text
Own(o) ==
    /\ At(o, "line") /\ \E l \in Locks : line[l] # <<>> /\ Head(line[l]) = o
    /\ IF Repeated(o) \/ Closed
       THEN Leave(o)
       ELSE Goes(o, op[o], "rpc") /\ UNCHANGED locks
    /\ UNCHANGED <<last, phase>>

\* The request succeeds.  (Only the last 1000 edits are remembered.)
Succeed(o) ==
    /\ At(o, "rpc")
    /\ last' = IF op[o].kind = "edit" THEN [last EXCEPT ![op[o].msg] = op[o].text] ELSE last
    /\ Leave(o)
    /\ UNCHANGED phase

\* A FloodWait within the limits; any other error, or one FloodWait too many.
FloodWait(o) ==
    /\ At(o, "rpc") /\ op[o].tries < Retries
    /\ Goes(o, [op[o] EXCEPT !.tries = @ + 1], "flood")
    /\ UNCHANGED <<last, locks, phase>>
Fail(o) ==
    /\ At(o, "rpc")
    /\ Leave(o)
    /\ UNCHANGED <<last, phase>>

TriesAgain(o) == IF Closed THEN Leave(o) ELSE Goes(o, op[o], "rpc") /\ UNCHANGED locks
Retry(o) ==
    /\ At(o, "flood")
    /\ TriesAgain(o)
    /\ UNCHANGED <<last, phase>>

\* A call is cancelled, by its plugin, a deadline or the governor.
Cancel(c) ==
    /\ op[c].pc # "idle" /\ c \notin dying
    /\ Leave(c)
    /\ UNCHANGED <<last, phase>>

-----------------------------------------------------------------------------
(* close: the flag, then the task _drain, then the end of what it cancelled. *)
(* A call of the very callback that unloads its plugin is excluded: it goes  *)
(* on, in an instance that is closed.                                        *)

Close ==
    /\ phase = "open" /\ phase' = "closing"
    /\ UNCHANGED <<op, pending, last, locks, dying>>

Cancelled == Busy
Drain ==
    /\ phase = "closing" /\ phase' = "draining"
    /\ \E excluded \in SUBSET Callers : dying' = Cancelled \ excluded
    /\ UNCHANGED <<op, pending, last, locks>>

Die(o) ==
    /\ o \in dying
    /\ Leave(o)
    /\ UNCHANGED <<last, phase>>

Drained ==
    /\ phase = "draining" /\ dying = {}
    /\ phase' = "closed"
    /\ pending' = [m \in Messages |-> None]
    /\ last' = [m \in Messages |-> None]
    /\ chat' = None
    /\ UNCHANGED <<op, line, dying>>

\* The plugin is loaded again: its new context makes a new TelegramDelivery,
\* which shares nothing with the old one (excluded calls may end first).
Reload ==
    /\ phase = "closed" /\ phase' = "open" /\ Busy = {}
    /\ UNCHANGED <<op, pending, last, locks, dying>>

-----------------------------------------------------------------------------
Call(c) ==
    Send(c) \/ \E m \in Messages, text \in Texts : EditNow(c, m, text) \/ EditSoon(c, m, text)
Step(o) ==
    Proceed(o) \/ Told(o) \/ Flush(o) \/ Own(o) \/ Succeed(o) \/ FloodWait(o) \/ Fail(o)
      \/ Retry(o) \/ Die(o)

Next ==
    \/ \E c \in Callers : Call(c) \/ Cancel(c)
    \/ \E o \in Ops : Step(o)
    \/ Close \/ Drain \/ Drained \/ Reload

Spec == Init /\ [][Next]_vars

\* The loop runs what is ready, a request is answered or fails, and a cancelled
\* task ends.
FairSpec ==
    /\ Spec
    /\ \A o \in Ops : WF_vars(Step(o))
    /\ WF_vars(Drain) /\ WF_vars(Drained)

-----------------------------------------------------------------------------
(* What has to hold.                                                        *)

\* Every variable keeps its shape.
OpRec == [kind : {"none", "send", "edit", "ask"},
          pc : {"idle", "behind", "asked", "window", "line", "rpc", "flood"},
          msg : Messages \cup {None}, text : Texts \cup {None}, tries : 0..Retries,
          waits : SUBSET Workers, older : SUBSET Ops]
TypeOK ==
    /\ op \in [Ops -> OpRec]
    /\ pending \in [Messages -> Workers \cup {None}]
    /\ last \in [Messages -> Texts \cup {None}]
    /\ chat \in Locks \cup {None} /\ line \in [Locks -> Seq(Ops)]
    /\ dying \subseteq Ops
    /\ phase \in {"open", "closing", "draining", "closed"}

\* An operation that asks the account something, or waits for its FloodWait, has
\* the chat to itself: a lock is not dropped while it is held or waited for
\* (docs/SPEC.md:197).
InRequest == {o \in Ops : op[o].pc \in {"rpc", "flood"}}
OneRequestPerChat == Cardinality(InRequest) <= 1

\* A request starts, or starts again.
Requests(o) == op[o].pc # "rpc" /\ op'[o].pc = "rpc"

\* A send leaves after every edit that was queued or under way when it was called.
SendsFollowEdits ==
    \A c \in Callers : Requests(c) => \A o \in op'[c].older : op[o].kind # "edit"

\* An edit is not sent again with the text the last one left, however many callers
\* ask for it at once (docs/PLUGIN_GUIDE.md:601).
RepeatsAreSkipped ==
    \A o \in Ops :
        Requests(o) /\ op[o].pc # "flood" /\ op'[o].kind = "edit"
          => last[op'[o].msg] # op'[o].text

\* Nothing is sent for an instance that has been closed, also not by an operation
\* whose FloodWait ends before the cancellation reaches it.
NothingAfterClose == Closed => \A o \in Ops : ~Requests(o)

\* A request leaves only when it is its turn, when it says something new and while
\* its instance lives.
RequestsAreDue == [][SendsFollowEdits /\ RepeatsAreSkipped /\ NothingAfterClose]_vars

\* The closed instance leaves no worker, no queued edit and no lock, and nobody
\* waits in the place of one that has gone (docs/SPEC.md:197).
NothingLeft ==
    phase = "closed" =>
      /\ Busy \subseteq Callers
      /\ \A m \in Messages : pending[m] = None
      /\ chat = None /\ \A l \in Locks : ToSet(line[l]) \subseteq Busy

\* A chat is held by one request at a time, and by none for good.
ChatIsHeld == TypeOK /\ OneRequestPerChat /\ NothingLeft

\* Every call comes to an end, whatever the workers and the calls before it do.
CallsEnd == \A c \in Callers : op[c].pc # "idle" ~> op[c].pc = "idle"

\* A close comes to its end.
CloseEnds == phase = "closing" ~> phase = "closed"

\* Neither a caller nor the close of an instance waits for ever.
EverythingEnds == CallsEnd /\ CloseEnds

\* The sends of a chat leave in the order they were called in
\* (docs/PLUGIN_GUIDE.md:601).
SendsInOrder ==
    [][\A c \in Callers : Requests(c) => \A o \in op[c].older : op[o].kind # "send"]_vars

=============================================================================
