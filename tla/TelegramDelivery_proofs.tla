------------------------ MODULE TelegramDelivery_proofs ------------------------
(***************************************************************************)
(* Proofs about TelegramDelivery, for any callers, workers, messages,      *)
(* texts, locks and number of retries.                                     *)
(*                                                                         *)
(* Inv is the inductive invariant.  Lines: the lines of the locks hold     *)
(* whoever asked for the chat, each once; only one lock has anybody in its *)
(* line, and only the first of a line is in a request.  Kinds: a queued    *)
(* edit is in the table under its message.  Closing: whatever worker a     *)
(* closing instance still has is being cancelled.  Follows: an edit older  *)
(* than a send is ahead of it in the line, or the send still waits for it. *)
(*                                                                         *)
(* A step is first shown to be one of six (OneOfThese): an operation ends, *)
(* enters the line, moves on in it, waits behind queued edits, queues an   *)
(* edit, or the instance changes its phase.  Each preserves Inv, and only  *)
(* entering and moving start a request.                                    *)
(***************************************************************************)
EXTENDS TelegramDelivery, DataLemmas

-----------------------------------------------------------------------------
(* Lines: an operation leaves, the others keep their order.                 *)

\* a stands ahead of b.
Before(s, a, b) == \E i, j \in DOMAIN s : i < j /\ s[i] = a /\ s[j] = b

LEMMA WithoutIt ==
    ASSUME NEW S, NEW s \in Seq(S), IsInjective(s), NEW e
    PROVE  /\ Without(s, e) \in Seq(S)
           /\ IsInjective(Without(s, e))
           /\ ToSet(Without(s, e)) = ToSet(s) \ {e}
           /\ \A a, b : a # e /\ b # e /\ Before(s, a, b) => Before(Without(s, e), a, b)
           /\ s # <<>> /\ Head(s) # e => Without(s, e) # <<>> /\ Head(Without(s, e)) = Head(s)
<1>1. CASE e \notin ToSet(s)
  BY <1>1 DEF Without
<1>2. CASE e \in ToSet(s)
  <2> DEFINE i == Place(s, e)
             t == Without(s, e)
  <2>1. i \in DOMAIN s /\ s[i] = e
    BY <1>2 DEF ToSet, Place
  <2> HIDE DEF i
  <2>2. /\ t \in Seq(S) /\ DOMAIN t = 1..Len(s) - 1
        /\ \A k \in 1..Len(s) - 1 : t[k] = IF k < i THEN s[k] ELSE s[k + 1]
    BY <1>2, <2>1, RemovedAt DEF Without, i
  <2> HIDE DEF t
  <2>3. Len(s) \in Nat /\ DOMAIN s = 1..Len(s) /\ i \in 1..Len(s)
    BY <2>1
  <2>4. IsInjective(t)
    <3> SUFFICES ASSUME NEW j \in 1..Len(s) - 1, NEW k \in 1..Len(s) - 1, t[j] = t[k] PROVE j = k
      BY <2>2 DEF IsInjective
    <3> DEFINE From(n) == IF n < i THEN n ELSE n + 1
    <3>1. \A n \in 1..Len(s) - 1 : From(n) \in DOMAIN s /\ t[n] = s[From(n)]
      BY <2>2, <2>3
    <3>2. From(j) = From(k)
      BY <3>1 DEF IsInjective
    <3> QED BY <2>3, <3>2
  <2>5. \A j \in DOMAIN s : s[j] # e => \E k \in DOMAIN t : t[k] = s[j] /\ k = IF j < i THEN j ELSE j - 1
    BY <2>1, <2>2, <2>3
  <2>6. ASSUME NEW k \in DOMAIN t PROVE \E j \in DOMAIN s : t[k] = s[j] /\ j # i
    <3>1. k \in 1..Len(s) - 1 /\ k \in DOMAIN s /\ k + 1 \in DOMAIN s
      BY <2>2, <2>3
    <3>2. CASE k < i
      <4>1. t[k] = s[k] /\ k # i
        BY <2>2, <2>3, <3>1, <3>2
      <4> QED BY <3>1, <4>1
    <3>3. CASE ~(k < i)
      <4>1. t[k] = s[k + 1] /\ k + 1 # i
        BY <2>2, <2>3, <3>1, <3>3
      <4> QED BY <3>1, <4>1
    <3> QED BY <3>2, <3>3
  <2>7. ToSet(t) = ToSet(s) \ {e}
    BY <2>1, <2>5, <2>6 DEF ToSet, IsInjective
  <2>8. ASSUME NEW a, NEW b, a # e, b # e, Before(s, a, b) PROVE Before(t, a, b)
    <3>1. PICK j, k \in DOMAIN s : j < k /\ s[j] = a /\ s[k] = b
      BY <2>8 DEF Before
    <3> QED BY <2>1, <2>3, <2>5, <2>8, <3>1 DEF Before
  <2>9. ASSUME s # <<>>, Head(s) # e PROVE t # <<>> /\ Head(t) = Head(s)
    <3>1. Head(s) = s[1] /\ 1 \in DOMAIN s
      BY <2>9
    <3>2. i > 1 /\ 1 \in DOMAIN t /\ t[1] = s[1]
      BY <2>1, <2>2, <2>3, <2>9, <3>1
    <3> QED BY <2>2, <3>1, <3>2
  <2> QED BY <2>2, <2>4, <2>7, <2>8, <2>9 DEF t
<1> QED BY <1>1, <1>2

LEMMA Appended ==
    ASSUME NEW S, NEW s \in Seq(S), IsInjective(s), NEW e \in S, e \notin ToSet(s)
    PROVE  /\ Append(s, e) \in Seq(S) /\ Append(s, e) # <<>>
           /\ IsInjective(Append(s, e))
           /\ ToSet(Append(s, e)) = ToSet(s) \cup {e}
           /\ \A a, b : Before(s, a, b) => Before(Append(s, e), a, b)
           /\ \A a \in ToSet(s) : Before(Append(s, e), a, e)
           /\ s # <<>> => Head(Append(s, e)) = Head(s)
<1> DEFINE t == Append(s, e)
<1>1. /\ t \in Seq(S) /\ Len(t) = Len(s) + 1 /\ Len(s) \in Nat
      /\ DOMAIN t = 1..Len(s) + 1 /\ DOMAIN s = 1..Len(s)
      /\ \A i \in DOMAIN s : t[i] = s[i]
      /\ t[Len(s) + 1] = e /\ t # <<>>
  OBVIOUS
<1> HIDE DEF t
<1>2. IsInjective(t)
  BY <1>1 DEF IsInjective, ToSet
<1>3. ToSet(t) = ToSet(s) \cup {e}
  BY <1>1 DEF ToSet
<1>4. \A a, b : Before(s, a, b) => Before(t, a, b)
  BY <1>1 DEF Before
<1>5. \A a \in ToSet(s) : Before(t, a, e)
  BY <1>1 DEF Before, ToSet
<1>6. s # <<>> => Head(t) = Head(s)
  BY <1>1
<1> QED BY <1>1, <1>2, <1>3, <1>4, <1>5, <1>6 DEF t

\* Nobody is ahead of the first.
LEMMA FirstIsFirst ==
    ASSUME NEW S, NEW s \in Seq(S), IsInjective(s), s # <<>>, NEW a
    PROVE  ~Before(s, a, Head(s)) /\ Head(s) \in ToSet(s)
BY DEF Before, IsInjective, ToSet

-----------------------------------------------------------------------------
(* The inductive invariant.                                                 *)

InLine(o) == op[o].pc \in {"line", "rpc", "flood"}

\* The lines hold those who asked for the chat, each once; only one lock has
\* anybody in its line, and whoever is in a request is the first there.
Lines ==
    /\ \A l \in Locks : IsInjective(line[l]) /\ \A o \in ToSet(line[l]) : InLine(o)
    /\ \A o \in Ops : InLine(o) => \E l \in Locks : o \in ToSet(line[l])
    /\ \A o \in InRequest : \E l \in Locks : line[l] # <<>> /\ Head(line[l]) = o
    /\ \A l, k \in Locks : line[l] # <<>> /\ line[k] # <<>> => l = k
    /\ phase # "closed" => \A l \in Locks : line[l] # <<>> => l = chat

\* What an operation is follows from where it is, and a queued edit is in the
\* table under its message.
Kinds ==
    /\ \A o \in Ops :
         /\ op[o].pc = "idle" => op[o] = Idle
         /\ op[o].pc = "behind" => op[o].kind = "send"
         /\ op[o].pc = "window" =>
              o \in Workers /\ op[o].kind = "edit" /\ op[o].msg \in Messages /\ pending[op[o].msg] = o
         /\ op[o].kind = "edit" => op[o].older = {} /\ (op[o].pc = "window" \/ InLine(o))
    /\ \A m \in Messages : pending[m] # None => op[pending[m]].pc = "window" /\ op[pending[m]].msg = m

\* A close cancels every worker, and ends when the cancelled have ended.
Closing ==
    /\ phase \in {"draining", "closed"} => \A w \in Workers : op[w].pc # "idle" => w \in dying
    /\ phase = "closed" => dying = {} /\ chat = None /\ \A m \in Messages : pending[m] = None

\* An edit that was there when a send was called is ahead of it in the line, or
\* the send still waits for it.
Follows ==
    \A c, o \in Ops :
      o \in op[c].older =>
        /\ o # c /\ op[o].pc # "idle"
        /\ op[o].kind = "edit" =>
             /\ op[c].pc = "behind" => InLine(o) \/ o \in op[c].waits
             /\ InLine(c) => \E l \in Locks : Before(line[l], o, c)

Inv == TypeOK /\ Lines /\ Kinds /\ Closing /\ Follows

-----------------------------------------------------------------------------
(* Type correctness.                                                        *)

LEMMA IdleTyped == Idle \in OpRec
BY DeliveryAssumption DEF Idle, OpRec

LEMMA AskedIs ==
    ASSUME NEW kind \in {"send", "edit", "ask"}, NEW m \in Messages \cup {None},
           NEW text \in Texts \cup {None}
    PROVE  LET r == Asked(kind, m, text)
           IN  /\ r \in OpRec /\ r.kind = kind /\ r.msg = m /\ r.text = text
               /\ r.pc = "idle" /\ r.waits = {} /\ r.older = {}
<1>1. ASSUME NEW r \in OpRec
      PROVE  LET q == [r EXCEPT !.kind = kind, !.msg = m, !.text = text]
             IN  /\ q \in OpRec /\ q.kind = kind /\ q.msg = m /\ q.text = text
                 /\ q.pc = r.pc /\ q.waits = r.waits /\ q.older = r.older
  BY DEF OpRec
<1>2. Idle \in OpRec /\ Idle.pc = "idle" /\ Idle.waits = {} /\ Idle.older = {}
  BY IdleTyped DEF Idle
<1> QED BY <1>1, <1>2 DEF Asked

LEMMA FieldsTyped ==
    ASSUME NEW r \in OpRec
    PROVE  /\ \A x \in SUBSET Ops : [r EXCEPT !.older = x] \in OpRec
           /\ \A x \in SUBSET Workers : [r EXCEPT !.waits = x] \in OpRec
           /\ \A n \in 0..Retries : [r EXCEPT !.tries = n] \in OpRec
           /\ r.older \in SUBSET Ops /\ r.waits \in SUBSET Workers /\ r.tries \in 0..Retries
BY DEF OpRec

LEMMA FinishTyped ==
    ASSUME TypeOK, NEW o \in Ops, Finish(o)
    PROVE  op' \in [Ops -> OpRec] /\ dying' \subseteq Ops /\ pending' \in [Messages -> Workers \cup {None}]
<1>1. ASSUME NEW u \in Ops PROVE [op[u] EXCEPT !.older = @ \ {o}] \in OpRec
  <2>1. op[u] \in OpRec
    BY DEF TypeOK
  <2>2. op[u].older \ {o} \in SUBSET Ops
    BY <2>1, FieldsTyped
  <2> QED BY <2>1, <2>2, FieldsTyped
<1> QED BY <1>1, IdleTyped DEF TypeOK, Finish, Unqueue

LEMMA GoesTyped ==
    ASSUME TypeOK, NEW o \in Ops, NEW r \in OpRec,
           NEW pc \in {"idle", "behind", "asked", "window", "line", "rpc", "flood"}, Goes(o, r, pc)
    PROVE  op' \in [Ops -> OpRec] /\ dying' \subseteq Ops /\ pending' \in [Messages -> Workers \cup {None}]
<1>1. [r EXCEPT !.pc = pc] \in OpRec
  BY DEF OpRec
<1> QED BY <1>1 DEF TypeOK, Goes, Unqueue

LEMMA LeaveChatTyped ==
    ASSUME TypeOK, Lines, NEW o \in Ops, LeaveChat(o)
    PROVE  line' \in [Locks -> Seq(Ops)] /\ chat' \in Locks \cup {None}
<1>1. \A l \in Locks : Without(line[l], o) \in Seq(Ops)
  BY WithoutIt DEF TypeOK, Lines
<1> QED BY <1>1 DEF TypeOK, LeaveChat, GivePlace, DropUnused

LEMMA EnterTyped ==
    ASSUME TypeOK, NEW o \in Ops, NEW r \in OpRec, EnterChat(o, r)
    PROVE  /\ op' \in [Ops -> OpRec] /\ dying' \subseteq Ops
           /\ pending' \in [Messages -> Workers \cup {None}]
           /\ line' \in [Locks -> Seq(Ops)] /\ chat' \in Locks \cup {None}
<1>1. CASE chat # None /\ Goes(o, r, "line") /\ line' = [line EXCEPT ![chat] = Append(@, o)] /\ UNCHANGED chat
  BY <1>1, GoesTyped DEF TypeOK
<1>2. CASE Finish(o) /\ UNCHANGED locks
  BY <1>2, FinishTyped DEF TypeOK, locks
<1>3. CASE Goes(o, r, "rpc") /\ \E l \in Locks : line[l] = <<>> /\ chat' = l /\ line' = [line EXCEPT ![l] = <<o>>]
  BY <1>3, GoesTyped DEF TypeOK
<1> QED BY <1>1, <1>2, <1>3 DEF EnterChat

LEMMA LeaveTyped ==
    ASSUME TypeOK, Lines, NEW o \in Ops, Leave(o)
    PROVE  /\ op' \in [Ops -> OpRec] /\ dying' \subseteq Ops
           /\ pending' \in [Messages -> Workers \cup {None}]
           /\ line' \in [Locks -> Seq(Ops)] /\ chat' \in Locks \cup {None}
BY FinishTyped, LeaveChatTyped DEF Leave

LEMMA SendTyped ==
    ASSUME TypeOK
    PROVE  /\ QueuedEdits \subseteq Workers
           /\ \A m \in Messages, text \in Texts : Asked("edit", m, text) \in OpRec
           /\ [Asked("send", None, None) EXCEPT
                 !.older = {o \in Busy : op[o].kind # "ask"}, !.waits = QueuedEdits] \in OpRec
<1>1. QueuedEdits \subseteq Workers
  BY DEF TypeOK, QueuedEdits
<1>2. {o \in Busy : op[o].kind # "ask"} \in SUBSET Ops
  BY DEF Busy
<1>3. \A m \in Messages, text \in Texts : Asked("edit", m, text) \in OpRec
  BY AskedIs
<1>4. Asked("send", None, None) \in OpRec
  BY AskedIs
<1> DEFINE r == [Asked("send", None, None) EXCEPT !.older = {o \in Busy : op[o].kind # "ask"}]
<1>5. r \in OpRec
  BY <1>2, <1>4, FieldsTyped
<1>6. [r EXCEPT !.waits = QueuedEdits] \in OpRec
  BY <1>1, <1>5, FieldsTyped
<1> QED BY <1>1, <1>3, <1>6

LEMMA TypeNext == TypeOK /\ Lines /\ Kinds /\ [Next]_vars => TypeOK'
<1> SUFFICES ASSUME TypeOK, Lines, Kinds, [Next]_vars PROVE TypeOK'
  OBVIOUS
<1> USE DEF locks
<1>1. ASSUME NEW c \in Callers, Send(c) PROVE TypeOK'
  <2> DEFINE r == [Asked("send", None, None) EXCEPT
                     !.older = {o \in Busy : op[o].kind # "ask"}, !.waits = QueuedEdits]
  <2>1. r \in OpRec /\ c \in Ops
    BY SendTyped DEF Ops
  <2>2. CASE Goes(c, r, "behind") /\ UNCHANGED locks
    BY <1>1, <2>1, <2>2, GoesTyped DEF Send, TypeOK
  <2>3. CASE EnterChat(c, r)
    BY <1>1, <2>1, <2>3, EnterTyped DEF Send, TypeOK
  <2> QED BY <1>1, <2>2, <2>3 DEF Send
<1>2. ASSUME NEW c \in Callers, NEW m \in Messages, NEW text \in Texts, EditNow(c, m, text) PROVE TypeOK'
  <2>1. EnterChat(c, Asked("edit", m, text)) /\ c \in Ops
    BY <1>2 DEF EditNow, Ops
  <2> QED BY <1>2, <2>1, EnterTyped, SendTyped DEF EditNow, TypeOK
<1>3. ASSUME NEW c \in Callers, NEW m \in Messages, NEW text \in Texts, EditSoon(c, m, text) PROVE TypeOK'
  <2>1. PICK w \in Workers :
          /\ pending' = [pending EXCEPT ![m] = w]
          /\ op' = [op EXCEPT
               ![w] = [Asked("edit", m, text) EXCEPT !.pc = "window"],
               ![c] = [Asked("ask", m, None) EXCEPT !.pc = "asked", !.waits = {w}]]
    BY <1>3 DEF EditSoon
  <2>2. /\ [Asked("edit", m, text) EXCEPT !.pc = "window"] \in OpRec
        /\ [Asked("ask", m, None) EXCEPT !.pc = "asked", !.waits = {w}] \in OpRec
    <3>1. Asked("edit", m, text) \in OpRec /\ Asked("ask", m, None) \in OpRec
      BY AskedIs
    <3>2. [Asked("edit", m, text) EXCEPT !.pc = "window"] \in OpRec
      BY <3>1 DEF OpRec
    <3>3. [Asked("ask", m, None) EXCEPT !.pc = "asked"] \in OpRec
      BY <3>1 DEF OpRec
    <3>4. [[Asked("ask", m, None) EXCEPT !.pc = "asked"] EXCEPT !.waits = {w}] \in OpRec
      BY <3>3, FieldsTyped
    <3> QED BY <3>2, <3>4
  <2> QED BY <1>3, <2>1, <2>2 DEF EditSoon, TypeOK
<1>4. ASSUME NEW o \in Ops, Proceed(o) PROVE TypeOK'
  <2>1. [op[o] EXCEPT !.waits = {}] \in OpRec
    BY FieldsTyped DEF TypeOK
  <2> QED BY <1>4, <2>1, EnterTyped DEF Proceed, TypeOK
<1>5. ASSUME NEW o \in Ops, Told(o) PROVE TypeOK'
  BY <1>5, FinishTyped DEF Told, TypeOK
<1>6. ASSUME NEW o \in Ops, Flush(o) PROVE TypeOK'
  <2>1. op[o] \in OpRec
    BY DEF TypeOK
  <2>2. (Finish(o) /\ UNCHANGED locks) \/ EnterChat(o, op[o])
    BY <1>6 DEF Flush
  <2> QED BY <1>6, <2>1, <2>2, EnterTyped, FinishTyped DEF Flush, TypeOK
<1>7. ASSUME NEW o \in Ops, Own(o) \/ Retry(o) PROVE TypeOK'
  <2>1. op[o] \in OpRec
    BY DEF TypeOK
  <2>2. Leave(o) \/ (Goes(o, op[o], "rpc") /\ UNCHANGED locks)
    BY <1>7 DEF Own, Retry, TriesAgain
  <2>3. UNCHANGED <<last, phase>>
    BY <1>7 DEF Own, Retry
  <2> QED BY <2>1, <2>2, <2>3, GoesTyped, LeaveTyped DEF TypeOK
<1>8. ASSUME NEW o \in Ops, Succeed(o) PROVE TypeOK'
  <2>1. last' \in [Messages -> Texts \cup {None}]
    BY <1>8 DEF Succeed, TypeOK, OpRec
  <2> QED BY <1>8, <2>1, LeaveTyped DEF Succeed, TypeOK
<1>9. ASSUME NEW o \in Ops, FloodWait(o) PROVE TypeOK'
  <2>1. op[o] \in OpRec /\ op[o].tries + 1 \in 0..Retries
    <3>1. op[o] \in OpRec
      BY DEF TypeOK
    <3> QED BY <1>9, <3>1, FieldsTyped, DeliveryAssumption DEF FloodWait
  <2>2. [op[o] EXCEPT !.tries = @ + 1] \in OpRec
    BY <2>1, FieldsTyped
  <2> QED BY <1>9, <2>2, GoesTyped DEF FloodWait, TypeOK
<1>10. ASSUME NEW o \in Ops, Fail(o) \/ Cancel(o) \/ Die(o) PROVE TypeOK'
  BY <1>10, LeaveTyped DEF Fail, Cancel, Die, TypeOK
<1>11. CASE Close \/ Drain \/ Drained \/ Reload
  BY <1>11 DEF Close, Drain, Drained, Reload, Cancelled, Busy, TypeOK
<1>12. CASE UNCHANGED vars
  BY <1>12 DEF vars, TypeOK
<1>13. Callers \subseteq Ops
  BY DEF Ops
<1> QED
  BY <1>1, <1>2, <1>3, <1>4, <1>5, <1>6, <1>7, <1>8, <1>9, <1>10, <1>11, <1>12, <1>13 DEF Next, Call, Step

-----------------------------------------------------------------------------
(* What a step does to the operations.                                      *)

LEMMA FinishIs ==
    ASSUME TypeOK, NEW o \in Ops, Finish(o)
    PROVE  /\ op'[o] = Idle /\ Idle.pc = "idle" /\ Idle.kind = "none" /\ Idle.older = {}
           /\ \A u \in Ops : u # o =>
                /\ op'[u].pc = op[u].pc /\ op'[u].kind = op[u].kind /\ op'[u].msg = op[u].msg
                /\ op'[u].waits = op[u].waits /\ op'[u].older = op[u].older \ {o}
                /\ op[u] = Idle => op'[u] = Idle
           /\ dying' = dying \ {o}
           /\ \A m \in Messages : pending'[m] = IF pending[m] = o THEN None ELSE pending[m]
<1>1. ASSUME NEW u \in Ops, u # o
      PROVE  /\ op'[u].pc = op[u].pc /\ op'[u].kind = op[u].kind /\ op'[u].msg = op[u].msg
             /\ op'[u].waits = op[u].waits /\ op'[u].older = op[u].older \ {o}
  <2>1. op[u] \in OpRec /\ op'[u] = [op[u] EXCEPT !.older = @ \ {o}]
    BY <1>1 DEF TypeOK, Finish
  <2> QED BY <2>1 DEF OpRec
<1>2. ASSUME NEW u \in Ops, u # o, op[u] = Idle PROVE op'[u] = Idle
  <2>1. op'[u] = [op[u] EXCEPT !.older = op[u].older \ {o}]
    BY <1>2 DEF TypeOK, Finish
  <2>2. op[u].older \ {o} = op[u].older
    BY <1>2 DEF Idle
  <2>3. Idle = [Idle EXCEPT !.older = Idle.older]
    BY DEF Idle
  <2> QED BY <1>2, <2>1, <2>2, <2>3
<1> QED BY <1>1, <1>2 DEF Finish, Unqueue, Idle, TypeOK

LEMMA GoesIs ==
    ASSUME TypeOK, NEW o \in Ops, NEW r \in OpRec,
           NEW pc \in {"idle", "behind", "asked", "window", "line", "rpc", "flood"}, Goes(o, r, pc)
    PROVE  /\ op'[o].pc = pc /\ op'[o].kind = r.kind /\ op'[o].msg = r.msg /\ op'[o].text = r.text
           /\ op'[o].waits = r.waits /\ op'[o].older = r.older
           /\ \A u \in Ops : u # o => op'[u] = op[u]
           /\ dying' = dying
           /\ \A m \in Messages : pending'[m] = IF pending[m] = o THEN None ELSE pending[m]
<1>1. op'[o] = [r EXCEPT !.pc = pc]
  BY DEF TypeOK, Goes
<1>2. /\ op'[o].pc = pc /\ op'[o].kind = r.kind /\ op'[o].msg = r.msg /\ op'[o].text = r.text
      /\ op'[o].waits = r.waits /\ op'[o].older = r.older
  BY <1>1 DEF OpRec
<1> QED BY <1>2 DEF Goes, Unqueue, TypeOK

\* An operation ends, in the line or out of it.
Ends(o) ==
    /\ Finish(o) /\ GivePlace(o)
    /\ chat' = chat \/ (chat' = None /\ (chat # None => line'[chat] = <<>>))
    /\ UNCHANGED phase

\* An operation asks for the chat, as the record r.  The edits it follows are in
\* the line already.
Enters(o, r) ==
    /\ \/ /\ chat # None
          /\ Goes(o, r, "line")
          /\ line' = [line EXCEPT ![chat] = Append(@, o)] /\ UNCHANGED chat
       \/ /\ chat = None /\ ~Closed
          /\ Goes(o, r, "rpc")
          /\ \E l \in Locks : line[l] = <<>> /\ chat' = l /\ line' = [line EXCEPT ![l] = <<o>>]
    /\ UNCHANGED phase

Enterable(o, r) ==
    /\ ~InLine(o) /\ r \in OpRec
    /\ op[o].pc = "idle" => ~Closed
    /\ r.kind = op[o].kind \/ op[o].pc = "idle"
    /\ r.kind \in {"send", "edit"}
    /\ r.kind = "edit" => r.older = {} /\ last[r.msg] # r.text
    /\ \A u \in r.older :
         u # o /\ op[u].pc # "idle" /\ (op[u].kind = "edit" => InLine(u))

LEMMA NoneEmpty == ASSUME NEW S, NEW s \in Seq(S), NEW e, Without(s, e) # <<>> PROVE s # <<>>
BY DEF Without, ToSet

LEMMA EndsTyped == ASSUME TypeOK, Lines, NEW o \in Ops PROVE \A l \in Locks :
                     /\ Without(line[l], o) \in Seq(Ops) /\ IsInjective(Without(line[l], o))
                     /\ ToSet(Without(line[l], o)) = ToSet(line[l]) \ {o}
                     /\ \A a, b : a # o /\ b # o /\ Before(line[l], a, b) => Before(Without(line[l], o), a, b)
                     /\ line[l] # <<>> /\ Head(line[l]) # o =>
                          Without(line[l], o) # <<>> /\ Head(Without(line[l], o)) = Head(line[l])
                     /\ Without(line[l], o) # <<>> => line[l] # <<>>
<1> SUFFICES ASSUME NEW l \in Locks
             PROVE  /\ Without(line[l], o) \in Seq(Ops) /\ IsInjective(Without(line[l], o))
                    /\ ToSet(Without(line[l], o)) = ToSet(line[l]) \ {o}
                    /\ \A a, b : a # o /\ b # o /\ Before(line[l], a, b) => Before(Without(line[l], o), a, b)
                    /\ line[l] # <<>> /\ Head(line[l]) # o =>
                          Without(line[l], o) # <<>> /\ Head(Without(line[l], o)) = Head(line[l])
                    /\ Without(line[l], o) # <<>> => line[l] # <<>>
  OBVIOUS
<1>1. line[l] \in Seq(Ops) /\ IsInjective(line[l])
  BY DEF TypeOK, Lines
<1>2. Without(line[l], o) # <<>> => line[l] # <<>>
  BY <1>1, NoneEmpty
<1> QED BY <1>1, <1>2, WithoutIt

\* Somebody out of the line takes no place with him.
LEMMA EndsOutside ==
    ASSUME TypeOK, Lines, NEW o \in Ops, ~InLine(o), Finish(o), UNCHANGED locks, UNCHANGED phase
    PROVE  Ends(o)
<1>1. \A l \in Locks : o \notin ToSet(line[l])
  BY DEF Lines
<1>2. line' = [l \in Locks |-> Without(line[l], o)]
  BY <1>1 DEF Without, locks, TypeOK
<1> QED BY <1>2 DEF Ends, GivePlace, locks

LEMMA LeaveEnds == ASSUME NEW o, Leave(o), UNCHANGED phase PROVE Ends(o)
BY DEF Leave, LeaveChat, DropUnused, Ends

LEMMA EndsInv ==
    ASSUME Inv, NEW o \in Ops, Ends(o)
    PROVE  Lines' /\ Kinds' /\ Closing' /\ Follows'
<1> USE DEF Inv
<1>1. /\ op'[o] = Idle /\ Idle.pc = "idle" /\ Idle.kind = "none" /\ Idle.older = {}
      /\ \A u \in Ops : u # o =>
           /\ op'[u].pc = op[u].pc /\ op'[u].kind = op[u].kind /\ op'[u].msg = op[u].msg
           /\ op'[u].waits = op[u].waits /\ op'[u].older = op[u].older \ {o}
           /\ op[u] = Idle => op'[u] = Idle
      /\ dying' = dying \ {o}
      /\ \A m \in Messages : pending'[m] = IF pending[m] = o THEN None ELSE pending[m]
  BY FinishIs DEF Ends
<1>2. \A l \in Locks :
        /\ line'[l] = Without(line[l], o)
        /\ line[l] \in Seq(Ops) /\ IsInjective(line'[l])
        /\ ToSet(line'[l]) = ToSet(line[l]) \ {o}
        /\ \A a, b : a # o /\ b # o /\ Before(line[l], a, b) => Before(line'[l], a, b)
        /\ line[l] # <<>> /\ Head(line[l]) # o => line'[l] # <<>> /\ Head(line'[l]) = Head(line[l])
        /\ line'[l] # <<>> => line[l] # <<>>
  BY EndsTyped DEF Ends, GivePlace, TypeOK
<1>3. chat' = chat \/ (chat' = None /\ (chat # None => line'[chat] = <<>>))
  BY DEF Ends
<1>4. phase' = phase
  BY DEF Ends
<1>5. \A u \in Ops : InLine(u)' <=> InLine(u) /\ u # o
  BY <1>1 DEF InLine
<1>6. Lines'
  <2>1. \A l \in Locks : ToSet(line[l]) \subseteq Ops
    BY DEF TypeOK, ToSet
  <2>2. (\A l \in Locks : IsInjective(line[l]) /\ \A u \in ToSet(line[l]) : InLine(u))'
    BY <1>2, <1>5, <2>1 DEF Lines
  <2>3. (\A u \in Ops : InLine(u) => \E l \in Locks : u \in ToSet(line[l]))'
    BY <1>2, <1>5 DEF Lines
  <2>4. (\A u \in InRequest : \E l \in Locks : line[l] # <<>> /\ Head(line[l]) = u)'
    BY <1>1, <1>2 DEF Lines, InRequest
  <2>5. (\A l, k \in Locks : line[l] # <<>> /\ line[k] # <<>> => l = k)'
    BY <1>2 DEF Lines
  <2>6. (phase # "closed" => \A l \in Locks : line[l] # <<>> => l = chat)'
    BY <1>2, <1>3, <1>4, DeliveryAssumption DEF Lines
  <2> QED BY <2>2, <2>3, <2>4, <2>5, <2>6 DEF Lines
<1>7. Kinds'
  <2>1. ASSUME NEW u \in Ops
        PROVE ( /\ op[u].pc = "idle" => op[u] = Idle
                /\ op[u].pc = "behind" => op[u].kind = "send"
                /\ op[u].pc = "window" =>
                     u \in Workers /\ op[u].kind = "edit" /\ op[u].msg \in Messages /\ pending[op[u].msg] = u
                /\ op[u].kind = "edit" => op[u].older = {} /\ (op[u].pc = "window" \/ InLine(u)) )'
    BY <1>1, <1>5 DEF Kinds
  <2>2. (\A m \in Messages : pending[m] # None => op[pending[m]].pc = "window" /\ op[pending[m]].msg = m)'
    BY <1>1 DEF Kinds, TypeOK, Ops
  <2> QED BY <2>1, <2>2 DEF Kinds
<1>8. Closing'
  BY <1>1, <1>3, <1>4 DEF Closing, Ops, TypeOK
<1>9. Follows'
  <2> SUFFICES ASSUME NEW c \in Ops, NEW u \in Ops, u \in op'[c].older
               PROVE  /\ u # c /\ op'[u].pc # "idle"
                      /\ op'[u].kind = "edit" =>
                           /\ op'[c].pc = "behind" => InLine(u)' \/ u \in op'[c].waits
                           /\ InLine(c)' => \E l \in Locks : Before(line'[l], u, c)
    BY DEF Follows
  <2>1. c # o /\ u # o /\ u \in op[c].older
    BY <1>1
  <2> QED BY <1>1, <1>2, <1>5, <2>1, SMTT(30) DEF Follows
<1> QED BY <1>6, <1>7, <1>8, <1>9

LEMMA EntersInv ==
    ASSUME Inv, NEW o \in Ops, NEW r, Enterable(o, r), Enters(o, r)
    PROVE  Lines' /\ Kinds' /\ Closing' /\ Follows'
<1> USE DEF Inv
<1>1. PICK pc \in {"line", "rpc"} : Goes(o, r, pc)
  BY DEF Enters
<1>2. /\ op'[o].pc = pc /\ op'[o].kind = r.kind /\ op'[o].older = r.older /\ op'[o].waits = r.waits
      /\ \A u \in Ops : u # o => op'[u] = op[u]
      /\ dying' = dying
      /\ \A m \in Messages : pending'[m] = IF pending[m] = o THEN None ELSE pending[m]
  BY <1>1, GoesIs DEF Enterable
<1>3. PICK k \in Locks :
        /\ chat' = k /\ phase # "closed" /\ phase' = phase
        /\ line' = [line EXCEPT ![k] = Append(line[k], o)]
        /\ pc = "rpc" => line[k] = <<>>
        /\ \A l \in Locks : line[l] # <<>> => l = k
  <2>1. CASE /\ chat # None
             /\ Goes(o, r, "line")
             /\ line' = [line EXCEPT ![chat] = Append(@, o)] /\ UNCHANGED chat
    <3>1. pc = "line"
      BY <2>1, <1>2, GoesIs DEF Enterable
    <3>2. chat \in Locks /\ phase # "closed" /\ phase' = phase
      BY <2>1 DEF TypeOK, Closing, Enters
    <3> QED BY <2>1, <3>1, <3>2 DEF Lines
  <2>2. CASE /\ chat = None /\ ~Closed
             /\ Goes(o, r, "rpc")
             /\ \E l \in Locks : line[l] = <<>> /\ chat' = l /\ line' = [line EXCEPT ![l] = <<o>>]
    <3>1. \A l \in Locks : line[l] = <<>>
      BY <2>2, DeliveryAssumption DEF Lines, Closed
    <3>2. phase # "closed" /\ phase' = phase
      BY <2>2 DEF Closed, Enters
    <3>3. Append(<<>>, o) = <<o>>
      OBVIOUS
    <3> QED BY <2>2, <3>1, <3>2, <3>3
  <2> QED BY <2>1, <2>2 DEF Enters
<1>4. \A l \in Locks : o \notin ToSet(line[l])
  BY DEF Lines, Enterable
<1>5. /\ line[k] \in Seq(Ops)
      /\ line'[k] \in Seq(Ops) /\ line'[k] # <<>>
      /\ IsInjective(line'[k]) /\ ToSet(line'[k]) = ToSet(line[k]) \cup {o}
      /\ \A a, b : Before(line[k], a, b) => Before(line'[k], a, b)
      /\ \A a \in ToSet(line[k]) : Before(line'[k], a, o)
      /\ line[k] # <<>> => Head(line'[k]) = Head(line[k])
      /\ line[k] = <<>> => Head(line'[k]) = o
  <2>1. line[k] \in Seq(Ops) /\ IsInjective(line[k]) /\ line'[k] = Append(line[k], o)
    BY <1>3 DEF TypeOK, Lines
  <2>2. line[k] = <<>> => Head(Append(line[k], o)) = o
    OBVIOUS
  <2> QED BY <1>4, <2>1, <2>2, Appended
<1>6. \A l \in Locks : l # k => line'[l] = line[l] /\ line[l] = <<>>
  BY <1>3 DEF TypeOK
<1>7. \A u \in Ops : InLine(u)' <=> InLine(u) \/ u = o
  BY <1>2 DEF InLine
<1>8. \A l \in Locks : l # k => ToSet(line[l]) = {} /\ \A a, b : ~Before(line[l], a, b)
  BY <1>6 DEF ToSet, Before
<1>9. ToSet(line[k]) \subseteq Ops
  BY <1>5 DEF ToSet
<1>10. Lines'
  <2>1. (\A l \in Locks : IsInjective(line[l]) /\ \A u \in ToSet(line[l]) : InLine(u))'
    <3> SUFFICES ASSUME NEW l \in Locks PROVE IsInjective(line'[l]) /\ \A u \in ToSet(line'[l]) : InLine(u)'
      OBVIOUS
    <3>1. CASE l = k
      BY <1>5, <1>7, <1>9, <3>1 DEF Lines
    <3>2. CASE l # k
      BY <1>6, <1>8, <3>2 DEF Lines
    <3> QED BY <3>1, <3>2
  <2>2. (\A u \in Ops : InLine(u) => \E l \in Locks : u \in ToSet(line[l]))'
    BY <1>5, <1>6, <1>7 DEF Lines
  <2>3. (\A u \in InRequest : \E l \in Locks : line[l] # <<>> /\ Head(line[l]) = u)'
    <3> SUFFICES ASSUME NEW u \in InRequest' PROVE line'[k] # <<>> /\ Head(line'[k]) = u
      OBVIOUS
    <3>1. CASE u = o
      BY <1>2, <1>3, <1>5, <3>1 DEF InRequest
    <3>2. CASE u # o
      <4>1. u \in InRequest
        BY <1>2, <3>2 DEF InRequest
      <4> QED BY <1>3, <1>5, <4>1 DEF Lines
    <3> QED BY <3>1, <3>2
  <2>4. (\A l, j \in Locks : line[l] # <<>> /\ line[j] # <<>> => l = j)'
    BY <1>6
  <2>5. (phase # "closed" => \A l \in Locks : line[l] # <<>> => l = chat)'
    BY <1>3, <1>6
  <2> QED BY <2>1, <2>2, <2>3, <2>4, <2>5 DEF Lines
<1>11. Kinds'
  <2>1. ASSUME NEW u \in Ops
        PROVE ( /\ op[u].pc = "idle" => op[u] = Idle
                /\ op[u].pc = "behind" => op[u].kind = "send"
                /\ op[u].pc = "window" =>
                     u \in Workers /\ op[u].kind = "edit" /\ op[u].msg \in Messages /\ pending[op[u].msg] = u
                /\ op[u].kind = "edit" => op[u].older = {} /\ (op[u].pc = "window" \/ InLine(u)) )'
    <3>1. CASE u = o
      BY <1>2, <1>7, <3>1 DEF Enterable
    <3>2. CASE u # o
      BY <1>2, <1>7, <3>2 DEF Kinds
    <3> QED BY <3>1, <3>2
  <2>2. (\A m \in Messages : pending[m] # None => op[pending[m]].pc = "window" /\ op[pending[m]].msg = m)'
    BY <1>2 DEF Kinds, TypeOK, Ops
  <2> QED BY <2>1, <2>2 DEF Kinds
<1>12. Closing'
  BY <1>2, <1>3 DEF Closing, Ops, Enterable, Closed
<1>13. Follows'
  <2> SUFFICES ASSUME NEW c \in Ops, NEW u \in Ops, u \in op'[c].older
               PROVE  /\ u # c /\ op'[u].pc # "idle"
                      /\ op'[u].kind = "edit" =>
                           /\ op'[c].pc = "behind" => InLine(u)' \/ u \in op'[c].waits
                           /\ InLine(c)' => \E l \in Locks : Before(line'[l], u, c)
    BY DEF Follows
  <2>1. CASE c = o
    <3>1. u # o /\ op[u].pc # "idle" /\ (op[u].kind = "edit" => InLine(u)) /\ op'[u] = op[u]
      BY <1>2, <2>1 DEF Enterable
    <3>2. op[u].kind = "edit" => Before(line'[k], u, o)
      BY <1>5, <1>8, <3>1 DEF Lines
    <3> QED BY <1>2, <2>1, <3>1, <3>2
  <2>2. CASE c # o
    <3>1. /\ u # c /\ op[u].pc # "idle"
          /\ op[u].kind = "edit" =>
                /\ op[c].pc = "behind" => InLine(u) \/ u \in op[c].waits
                /\ InLine(c) => \E l \in Locks : Before(line[l], u, c)
          /\ op'[c] = op[c]
      BY <1>2, <2>2 DEF Follows
    <3>2. op'[u].pc # "idle" /\ (op'[u].kind = "edit" => op[u].kind = "edit")
      BY <1>2, <3>1 DEF Enterable
    <3> QED BY <1>2, <1>5, <1>7, <1>8, <2>2, <3>1, <3>2
  <2> QED BY <2>1, <2>2
<1> QED BY <1>10, <1>11, <1>12, <1>13

\* An operation in the line goes on there: it asks the account something only
\* as the first.
Moves(o, r, pc) ==
    /\ InLine(o) /\ r \in OpRec
    /\ r.kind = op[o].kind /\ r.msg = op[o].msg /\ r.text = op[o].text /\ r.older = op[o].older
    /\ pc \in {"rpc", "flood"}
    /\ pc = "rpc" => ~Closed /\ (Repeated(o) => op[o].pc = "flood")
    /\ \E l \in Locks : line[l] # <<>> /\ Head(line[l]) = o
    /\ Goes(o, r, pc) /\ UNCHANGED <<locks, phase>>

LEMMA MovesInv ==
    ASSUME Inv, NEW o \in Ops, NEW r, NEW pc, Moves(o, r, pc)
    PROVE  Lines' /\ Kinds' /\ Closing' /\ Follows'
<1> USE DEF Inv
<1>1. /\ op'[o].pc = pc /\ op'[o].kind = op[o].kind /\ op'[o].older = op[o].older
      /\ \A u \in Ops : u # o => op'[u] = op[u]
      /\ dying' = dying
      /\ \A m \in Messages : pending'[m] = IF pending[m] = o THEN None ELSE pending[m]
  BY GoesIs DEF Moves
<1>2. chat' = chat /\ line' = line /\ phase' = phase
  BY DEF Moves, locks
<1>3. \A u \in Ops : InLine(u)' <=> InLine(u)
  BY <1>1 DEF InLine, Moves
<1>4. \A l \in Locks : ToSet(line[l]) \subseteq Ops
  BY DEF TypeOK, ToSet
<1>5. Lines'
  <2>1. (\A u \in InRequest : \E l \in Locks : line[l] # <<>> /\ Head(line[l]) = u)'
    BY <1>1, <1>2 DEF Lines, InRequest, Moves
  <2>2. (\A l \in Locks : IsInjective(line[l]) /\ \A u \in ToSet(line[l]) : InLine(u))'
    BY <1>2, <1>3, <1>4 DEF Lines
  <2> QED BY <1>2, <1>3, <2>1, <2>2 DEF Lines
<1>6. Kinds'
  <2>1. ASSUME NEW u \in Ops
        PROVE ( /\ op[u].pc = "idle" => op[u] = Idle
                /\ op[u].pc = "behind" => op[u].kind = "send"
                /\ op[u].pc = "window" =>
                     u \in Workers /\ op[u].kind = "edit" /\ op[u].msg \in Messages /\ pending[op[u].msg] = u
                /\ op[u].kind = "edit" => op[u].older = {} /\ (op[u].pc = "window" \/ InLine(u)) )'
    <3>1. CASE u = o
      BY <1>1, <1>3, <3>1 DEF Moves, Kinds, InLine
    <3>2. CASE u # o
      BY <1>1, <1>3, <3>2 DEF Kinds
    <3> QED BY <3>1, <3>2
  <2>2. (\A m \in Messages : pending[m] # None => op[pending[m]].pc = "window" /\ op[pending[m]].msg = m)'
    BY <1>1 DEF Kinds, TypeOK, Ops
  <2> QED BY <2>1, <2>2 DEF Kinds
<1>7. Closing'
  BY <1>1, <1>2 DEF Closing, Ops, Moves, InLine
<1>8. Follows'
  <2> SUFFICES ASSUME NEW c \in Ops, NEW u \in Ops, u \in op'[c].older
               PROVE  /\ u # c /\ op'[u].pc # "idle"
                      /\ op'[u].kind = "edit" =>
                           /\ op'[c].pc = "behind" => InLine(u)' \/ u \in op'[c].waits
                           /\ InLine(c)' => \E l \in Locks : Before(line'[l], u, c)
    BY DEF Follows
  <2>1. /\ u # c /\ op[u].pc # "idle"
        /\ op[u].kind = "edit" =>
             /\ op[c].pc = "behind" => InLine(u) \/ u \in op[c].waits
             /\ InLine(c) => \E l \in Locks : Before(line[l], u, c)
    BY <1>1 DEF Follows
  <2>2. op'[c].pc = "behind" => c # o /\ op'[c] = op[c]
    BY <1>1 DEF Moves
  <2>3. op'[u].pc # "idle" /\ op'[u].kind = op[u].kind
    BY <1>1, <2>1 DEF Moves
  <2> QED BY <1>2, <1>3, <2>1, <2>2, <2>3
<1> QED BY <1>5, <1>6, <1>7, <1>8

\* A send is called while edits are queued, and waits for them.
Queues(c, r) ==
    /\ op[c] = Idle /\ ~Closed /\ r \in OpRec /\ r.kind = "send"
    /\ \A u \in r.older :
         u # c /\ op[u].pc # "idle" /\ (op[u].kind = "edit" => InLine(u) \/ u \in r.waits)
    /\ Goes(c, r, "behind") /\ UNCHANGED <<locks, phase>>

LEMMA QueuesInv ==
    ASSUME Inv, NEW c \in Ops, NEW r, Queues(c, r)
    PROVE  Lines' /\ Kinds' /\ Closing' /\ Follows'
<1> USE DEF Inv
<1>1. /\ op'[c].pc = "behind" /\ op'[c].kind = "send" /\ op'[c].older = r.older /\ op'[c].waits = r.waits
      /\ \A u \in Ops : u # c => op'[u] = op[u]
      /\ dying' = dying
      /\ \A m \in Messages : pending'[m] = IF pending[m] = c THEN None ELSE pending[m]
  BY GoesIs DEF Queues
<1>2. chat' = chat /\ line' = line /\ phase' = phase /\ phase = "open"
  BY DEF Queues, locks, Closed
<1>3. op[c].pc = "idle" /\ \A u \in Ops : InLine(u)' <=> InLine(u)
  BY <1>1 DEF InLine, Queues, Idle
<1>4. \A l \in Locks : ToSet(line[l]) \subseteq Ops
  BY DEF TypeOK, ToSet
<1>5. Lines'
  <2>1. (\A u \in InRequest : \E l \in Locks : line[l] # <<>> /\ Head(line[l]) = u)'
    BY <1>1, <1>2 DEF Lines, InRequest
  <2>2. (\A l \in Locks : IsInjective(line[l]) /\ \A u \in ToSet(line[l]) : InLine(u))'
    BY <1>2, <1>3, <1>4 DEF Lines
  <2> QED BY <1>2, <1>3, <2>1, <2>2 DEF Lines
<1>6. Kinds'
  <2>1. ASSUME NEW u \in Ops
        PROVE ( /\ op[u].pc = "idle" => op[u] = Idle
                /\ op[u].pc = "behind" => op[u].kind = "send"
                /\ op[u].pc = "window" =>
                     u \in Workers /\ op[u].kind = "edit" /\ op[u].msg \in Messages /\ pending[op[u].msg] = u
                /\ op[u].kind = "edit" => op[u].older = {} /\ (op[u].pc = "window" \/ InLine(u)) )'
    <3>1. CASE u = c
      BY <1>1, <3>1
    <3>2. CASE u # c
      BY <1>1, <1>3, <3>2 DEF Kinds
    <3> QED BY <3>1, <3>2
  <2>2. (\A m \in Messages : pending[m] # None => op[pending[m]].pc = "window" /\ op[pending[m]].msg = m)'
    BY <1>1 DEF Kinds, TypeOK, Ops
  <2> QED BY <2>1, <2>2 DEF Kinds
<1>7. Closing'
  BY <1>2 DEF Closing
<1>8. Follows'
  <2> SUFFICES ASSUME NEW d \in Ops, NEW u \in Ops, u \in op'[d].older
               PROVE  /\ u # d /\ op'[u].pc # "idle"
                      /\ op'[u].kind = "edit" =>
                           /\ op'[d].pc = "behind" => InLine(u)' \/ u \in op'[d].waits
                           /\ InLine(d)' => \E l \in Locks : Before(line'[l], u, d)
    BY DEF Follows
  <2>1. CASE d = c
    BY <1>1, <1>3, <2>1 DEF Queues, InLine
  <2>2. CASE d # c
    <3>1. /\ u # d /\ op[u].pc # "idle"
          /\ op[u].kind = "edit" =>
               /\ op[d].pc = "behind" => InLine(u) \/ u \in op[d].waits
               /\ InLine(d) => \E l \in Locks : Before(line[l], u, d)
      BY <1>1, <2>2 DEF Follows
    <3> QED BY <1>1, <1>2, <1>3, <2>2, <3>1
  <2> QED BY <2>1, <2>2
<1> QED BY <1>5, <1>6, <1>7, <1>8

LEMMA EditSoonInv ==
    ASSUME Inv, NEW c \in Callers, NEW m \in Messages, NEW text \in Texts, EditSoon(c, m, text)
    PROVE  Lines' /\ Kinds' /\ Closing' /\ Follows'
<1> USE DEF Inv
<1>1. PICK w \in Workers :
        /\ IF pending[m] # None
           THEN w = pending[m]
           ELSE op[w] = Idle /\ \A u \in Ops : w \notin op[u].waits
        /\ pending' = [pending EXCEPT ![m] = w]
        /\ op' = [op EXCEPT
             ![w] = [Asked("edit", m, text) EXCEPT !.pc = "window"],
             ![c] = [Asked("ask", m, None) EXCEPT !.pc = "asked", !.waits = {w}]]
  BY DEF EditSoon
<1>2. c \in Ops /\ w \in Ops /\ c # w
  BY DeliveryAssumption DEF Ops
<1>3. /\ op'[w].pc = "window" /\ op'[w].kind = "edit" /\ op'[w].msg = m /\ op'[w].older = {}
      /\ op'[c].pc = "asked" /\ op'[c].kind = "ask" /\ op'[c].older = {}
      /\ \A u \in Ops : u # w /\ u # c => op'[u] = op[u]
  <2> DEFINE r == Asked("edit", m, text)  q == Asked("ask", m, None)
  <2>1. r \in OpRec /\ r.kind = "edit" /\ r.msg = m /\ r.older = {}
    BY AskedIs
  <2>2. q \in OpRec /\ q.kind = "ask" /\ q.older = {}
    BY AskedIs
  <2> HIDE DEF r, q
  <2>3. op'[w] = [r EXCEPT !.pc = "window"] /\ op'[c] = [q EXCEPT !.pc = "asked", !.waits = {w}]
    BY <1>1, <1>2 DEF r, q, TypeOK
  <2>4. op'[w].pc = "window" /\ op'[w].kind = "edit" /\ op'[w].msg = m /\ op'[w].older = {}
    BY <2>1, <2>3 DEF OpRec
  <2>5. op'[c].pc = "asked" /\ op'[c].kind = "ask" /\ op'[c].older = {}
    BY <2>2, <2>3 DEF OpRec
  <2> QED BY <1>1, <2>4, <2>5 DEF TypeOK
<1>4. chat' = chat /\ line' = line /\ phase' = phase /\ phase = "open" /\ op[c].pc = "idle"
  BY DEF EditSoon, locks, Closed, Idle
<1>5. op[w].pc = "window" \/ (op[w].pc = "idle" /\ \A n \in Messages : pending[n] # w)
  <2>1. CASE pending[m] # None
    BY <1>1, <2>1 DEF Kinds
  <2>2. CASE pending[m] = None
    <3>1. op[w] = Idle /\ Idle.pc = "idle"
      BY <1>1, <2>2 DEF Idle
    <3>2. w # None
      BY DeliveryAssumption DEF Ops
    <3> QED BY <3>1, <3>2 DEF Kinds
  <2> QED BY <2>1, <2>2
<1>6. \A n \in Messages : n # m => pending'[n] = pending[n] /\ pending[n] # w
  <2>1. CASE pending[m] # None
    BY <1>1, <2>1, DeliveryAssumption DEF Kinds, TypeOK, Ops
  <2>2. CASE pending[m] = None
    <3>1. op[w] = Idle /\ Idle.pc = "idle"
      BY <1>1, <2>2 DEF Idle
    <3>2. w # None
      BY DeliveryAssumption DEF Ops
    <3> QED BY <1>1, <3>1, <3>2 DEF Kinds, TypeOK
  <2> QED BY <2>1, <2>2
<1>7. \A u \in Ops : InLine(u)' <=> InLine(u)
  BY <1>2, <1>3, <1>4, <1>5 DEF InLine
<1>8. \A l \in Locks : ToSet(line[l]) \subseteq Ops
  BY DEF TypeOK, ToSet
<1>9. Lines'
  <2>1. (\A u \in InRequest : \E l \in Locks : line[l] # <<>> /\ Head(line[l]) = u)'
    BY <1>3, <1>4 DEF Lines, InRequest
  <2>2. (\A l \in Locks : IsInjective(line[l]) /\ \A u \in ToSet(line[l]) : InLine(u))'
    BY <1>4, <1>7, <1>8 DEF Lines
  <2> QED BY <1>4, <1>7, <2>1, <2>2 DEF Lines
<1>10. Kinds'
  <2>1. ASSUME NEW u \in Ops
        PROVE ( /\ op[u].pc = "idle" => op[u] = Idle
                /\ op[u].pc = "behind" => op[u].kind = "send"
                /\ op[u].pc = "window" =>
                     u \in Workers /\ op[u].kind = "edit" /\ op[u].msg \in Messages /\ pending[op[u].msg] = u
                /\ op[u].kind = "edit" => op[u].older = {} /\ (op[u].pc = "window" \/ InLine(u)) )'
    <3>1. CASE u = w
      BY <1>1, <1>3, <3>1 DEF TypeOK
    <3>2. CASE u = c
      BY <1>3, <3>2
    <3>3. CASE u # w /\ u # c
      <4>1. op'[u] = op[u]
        BY <1>3, <3>3
      <4>2. op[u].pc = "window" => op[u].msg # m
        BY <1>1, <1>5, <3>3, DeliveryAssumption DEF Kinds, Ops
      <4> QED BY <1>6, <1>7, <4>1, <4>2 DEF Kinds
    <3> QED BY <3>1, <3>2, <3>3
  <2>2. ASSUME NEW n \in Messages, pending'[n] # None
        PROVE  op'[pending'[n]].pc = "window" /\ op'[pending'[n]].msg = n
    <3>1. CASE n = m
      BY <1>1, <1>3, <3>1 DEF TypeOK
    <3>2. CASE n # m
      <4>1. pending'[n] = pending[n] /\ pending[n] # w /\ pending[n] \in Ops
        BY <1>6, <2>2, <3>2 DEF TypeOK, Ops
      <4>2. op[pending[n]].pc = "window" /\ op[pending[n]].msg = n
        BY <2>2, <4>1 DEF Kinds
      <4> QED BY <1>3, <1>4, <4>1, <4>2
    <3> QED BY <3>1, <3>2
  <2> QED BY <2>1, <2>2 DEF Kinds
<1>11. Closing'
  BY <1>4 DEF Closing
<1>12. Follows'
  <2> SUFFICES ASSUME NEW d \in Ops, NEW u \in Ops, u \in op'[d].older
               PROVE  /\ u # d /\ op'[u].pc # "idle"
                      /\ op'[u].kind = "edit" =>
                           /\ op'[d].pc = "behind" => InLine(u)' \/ u \in op'[d].waits
                           /\ InLine(d)' => \E l \in Locks : Before(line'[l], u, d)
    BY DEF Follows
  <2>1. d # w /\ d # c /\ op'[d] = op[d]
    BY <1>3
  <2>2. /\ u # d /\ op[u].pc # "idle"
        /\ op[u].kind = "edit" =>
             /\ op[d].pc = "behind" => InLine(u) \/ u \in op[d].waits
             /\ InLine(d) => \E l \in Locks : Before(line[l], u, d)
    BY <2>1 DEF Follows
  <2>3. op'[u].pc # "idle" /\ (op'[u].kind = "edit" => op[u].kind = "edit")
    <3>1. u # c
      BY <1>4, <2>2
    <3>2. CASE u = w
      BY <1>2, <1>3, <1>5, <2>2, <3>2 DEF Kinds
    <3>3. CASE u # w
      BY <1>3, <2>2, <3>1, <3>3
    <3> QED BY <3>2, <3>3
  <2> QED BY <1>4, <1>7, <2>1, <2>2, <2>3
<1> QED BY <1>9, <1>10, <1>11, <1>12

LEMMA PhasesInv ==
    ASSUME Inv, Close \/ Drain \/ Drained \/ Reload
    PROVE  Lines' /\ Kinds' /\ Closing' /\ Follows'
<1> USE DEF Inv
<1>1. op' = op /\ line' = line
  BY DEF Close, Drain, Drained, Reload, locks
<1>2. Follows'
  BY <1>1 DEF Follows, InLine
<1>3. \A l \in Locks : ToSet(line[l]) \subseteq Ops
  BY DEF TypeOK, ToSet
<1>4. /\ \A l \in Locks : IsInjective(line'[l]) /\ \A o \in ToSet(line'[l]) : InLine(o)'
      /\ \A o \in Ops : InLine(o)' => \E l \in Locks : o \in ToSet(line'[l])
      /\ \A o \in InRequest' : \E l \in Locks : line'[l] # <<>> /\ Head(line'[l]) = o
      /\ \A l, k \in Locks : line'[l] # <<>> /\ line'[k] # <<>> => l = k
  BY <1>1 DEF Lines, InLine, InRequest
<1>5. CASE Close
  <2>1. chat' = chat /\ pending' = pending /\ phase = "open" /\ phase' = "closing"
    BY <1>5 DEF Close, locks
  <2>2. Lines'
    BY <1>1, <1>4, <2>1 DEF Lines
  <2>3. Kinds'
    BY <1>1, <2>1 DEF Kinds, InLine
  <2> QED BY <1>2, <2>1, <2>2, <2>3 DEF Closing
<1>6. CASE Drain
  <2>1. chat' = chat /\ pending' = pending /\ phase = "closing" /\ phase' = "draining"
    BY <1>6 DEF Drain, locks
  <2>2. \A w \in Workers : op[w].pc # "idle" => w \in dying'
    BY <1>6, DeliveryAssumption DEF Drain, Cancelled, Busy, Ops
  <2>3. Lines'
    BY <1>1, <1>4, <2>1 DEF Lines
  <2>4. Kinds'
    BY <1>1, <2>1 DEF Kinds, InLine
  <2> QED BY <1>1, <1>2, <2>1, <2>2, <2>3, <2>4 DEF Closing
<1>7. CASE Drained
  <2>1. /\ chat' = None /\ dying = {} /\ dying' = {} /\ phase' = "closed"
        /\ \A m \in Messages : pending'[m] = None
        /\ \A w \in Workers : op[w].pc = "idle"
    BY <1>7 DEF Drained, Closing
  <2>2. Lines'
    BY <1>1, <1>4, <2>1 DEF Lines
  <2>3. Kinds'
    BY <1>1, <2>1 DEF Kinds, InLine
  <2> QED BY <1>1, <1>2, <2>1, <2>2, <2>3 DEF Closing
<1>8. CASE Reload
  <2>1. chat' = chat /\ pending' = pending /\ phase' = "open" /\ \A o \in Ops : op[o].pc = "idle"
    BY <1>8 DEF Reload, locks, Busy
  <2>2. \A l \in Locks : line[l] = <<>>
    <3> SUFFICES ASSUME NEW l \in Locks, line[l] # <<>> PROVE FALSE
      OBVIOUS
    <3>1. line[l] \in Seq(Ops) /\ IsInjective(line[l])
      BY DEF TypeOK, Lines
    <3>2. Head(line[l]) \in ToSet(line[l])
      BY <3>1, FirstIsFirst
    <3> QED BY <1>3, <2>1, <3>2 DEF Lines, InLine
  <2>3. Lines'
    BY <1>1, <1>4, <2>2 DEF Lines
  <2>4. Kinds'
    BY <1>1, <2>1 DEF Kinds, InLine
  <2> QED BY <1>2, <2>1, <2>3, <2>4 DEF Closing
<1> QED BY <1>5, <1>6, <1>7, <1>8

-----------------------------------------------------------------------------
(* Every step is one of those.                                              *)

Kept == Close \/ Drain \/ Drained \/ Reload \/ UNCHANGED vars
OneOfThese ==
    \/ \E o \in Ops : Ends(o)
    \/ \E o \in Ops, r \in OpRec : Enterable(o, r) /\ Enters(o, r)
    \/ \E o \in Ops, r \in OpRec, pc \in {"rpc", "flood"} : Moves(o, r, pc)
    \/ \E c \in Ops, r \in OpRec : Queues(c, r)
    \/ \E c \in Callers, m \in Messages, text \in Texts : EditSoon(c, m, text)
    \/ Kept

\* Who asks for the chat gets into its line, or finds his instance closed.
LEMMA EnterChatIs ==
    ASSUME Inv, NEW o \in Ops, NEW r, Enterable(o, r), EnterChat(o, r), UNCHANGED phase
    PROVE  OneOfThese
<1>1. CASE Finish(o) /\ UNCHANGED locks
  BY <1>1, EndsOutside DEF Inv, Enterable, OneOfThese
<1>2. CASE Enters(o, r)
  BY <1>2 DEF OneOfThese, Enterable
<1> QED BY <1>1, <1>2 DEF EnterChat, Enters

LEMMA LeaveIs == ASSUME NEW o \in Ops, Leave(o), UNCHANGED phase PROVE OneOfThese
BY LeaveEnds DEF OneOfThese

\* Everything but the calls that are only asked for is older than a send; the
\* edits among it are in the line, or queued.
LEMMA SendAsks ==
    ASSUME Inv, NEW c \in Callers, op[c] = Idle, NEW r,
           r = [Asked("send", None, None) EXCEPT
                  !.older = {o \in Busy : op[o].kind # "ask"}, !.waits = QueuedEdits]
    PROVE  /\ r \in OpRec /\ r.kind = "send" /\ r.waits = QueuedEdits
           /\ \A u \in r.older :
                u # c /\ op[u].pc # "idle" /\ (op[u].kind = "edit" => InLine(u) \/ u \in r.waits)
<1> USE DEF Inv
<1> DEFINE a == Asked("send", None, None)
<1>1. a \in OpRec /\ a.kind = "send"
  BY AskedIs
<1> HIDE DEF a
<1>2. r = [a EXCEPT !.older = {o \in Busy : op[o].kind # "ask"}, !.waits = QueuedEdits]
  BY DEF a
<1>3. r.kind = "send" /\ r.waits = QueuedEdits /\ r.older = {o \in Busy : op[o].kind # "ask"}
  BY <1>1, <1>2 DEF OpRec
<1>4. op[c].pc = "idle"
  BY DEF Idle
<1>5. ASSUME NEW u \in Busy, op[u].kind = "edit", ~InLine(u) PROVE u \in QueuedEdits
  <2>1. op[u].pc = "window" /\ u \in Ops
    BY <1>5 DEF Kinds, Busy
  <2> QED BY <2>1, DeliveryAssumption DEF Kinds, QueuedEdits
<1> QED BY <1>3, <1>4, <1>5, SendTyped DEF Busy

LEMMA StepIs == Inv /\ [Next]_vars => OneOfThese
<1> SUFFICES ASSUME Inv, [Next]_vars PROVE OneOfThese
  OBVIOUS
<1> USE DEF Inv
<1>1. ASSUME NEW c \in Callers, Send(c) PROVE OneOfThese
  <2> DEFINE r == [Asked("send", None, None) EXCEPT
                     !.older = {o \in Busy : op[o].kind # "ask"}, !.waits = QueuedEdits]
  <2>1. /\ op[c] = Idle /\ ~Closed /\ UNCHANGED phase
        /\ IF r.waits # {} THEN Goes(c, r, "behind") /\ UNCHANGED locks ELSE EnterChat(c, r)
    BY <1>1 DEF Send
  <2>2. /\ r \in OpRec /\ r.kind = "send"
        /\ \A u \in r.older :
             u # c /\ op[u].pc # "idle" /\ (op[u].kind = "edit" => InLine(u) \/ u \in r.waits)
    BY <2>1, SendAsks
  <2> HIDE DEF r
  <2>3. c \in Ops /\ op[c].pc = "idle"
    BY <2>1 DEF Ops, Idle
  <2>4. CASE r.waits # {}
    BY <2>1, <2>2, <2>3, <2>4 DEF Queues, OneOfThese
  <2>5. CASE r.waits = {}
    <3>1. Enterable(c, r)
      BY <2>1, <2>2, <2>3, <2>5 DEF Enterable, InLine
    <3> QED BY <2>1, <2>3, <2>5, <3>1, EnterChatIs
  <2> QED BY <2>4, <2>5
<1>2. ASSUME NEW c \in Callers, NEW m \in Messages, NEW text \in Texts, EditNow(c, m, text) PROVE OneOfThese
  <2>1. c \in Ops /\ op[c].pc = "idle" /\ ~Closed /\ UNCHANGED phase /\ last[m] # text
    BY <1>2 DEF EditNow, Ops, Idle
  <2>2. Enterable(c, Asked("edit", m, text))
    BY <2>1, AskedIs DEF Enterable, InLine
  <2> QED BY <1>2, <2>1, <2>2, EnterChatIs DEF EditNow
<1>3. ASSUME NEW c \in Callers, NEW m \in Messages, NEW text \in Texts, EditSoon(c, m, text) PROVE OneOfThese
  BY <1>3 DEF OneOfThese
<1>4. ASSUME NEW o \in Ops, Proceed(o) PROVE OneOfThese
  <2> DEFINE r == [op[o] EXCEPT !.waits = {}]
  <2>1. op[o].pc = "behind" /\ op[o].waits \cap Busy = {} /\ EnterChat(o, r) /\ UNCHANGED phase
    BY <1>4 DEF Proceed, At, Answered
  <2>2. op[o] \in OpRec
    BY DEF TypeOK
  <2>3. r \in OpRec /\ r.kind = op[o].kind /\ r.older = op[o].older
    BY <2>2, FieldsTyped DEF OpRec
  <2> HIDE DEF r
  <2>4. \A u \in op[o].older : u # o /\ op[u].pc # "idle" /\ (op[u].kind = "edit" => InLine(u))
    BY <2>1, <2>2, FieldsTyped DEF Follows, Busy
  <2>5. Enterable(o, r)
    BY <2>1, <2>3, <2>4 DEF Enterable, InLine, Kinds
  <2> QED BY <2>1, <2>5, EnterChatIs
<1>5. ASSUME NEW o \in Ops, Told(o) PROVE OneOfThese
  <2>1. ~InLine(o) /\ Finish(o) /\ UNCHANGED locks /\ UNCHANGED phase
    BY <1>5 DEF Told, At, InLine
  <2> QED BY <2>1, EndsOutside DEF OneOfThese
<1>6. ASSUME NEW o \in Ops, Flush(o) PROVE OneOfThese
  <2>1. ~InLine(o) /\ op[o].pc = "window" /\ UNCHANGED phase
    BY <1>6 DEF Flush, At, InLine
  <2>2. CASE Finish(o) /\ UNCHANGED locks
    BY <2>1, <2>2, EndsOutside DEF OneOfThese
  <2>3. CASE EnterChat(o, op[o]) /\ last[op[o].msg] # op[o].text
    <3>1. op[o] \in OpRec
      BY DEF TypeOK
    <3>2. Enterable(o, op[o])
      BY <2>1, <2>3, <3>1 DEF Enterable, Kinds
    <3> QED BY <2>1, <2>3, <3>2, EnterChatIs
  <2> QED BY <1>6, <2>2, <2>3 DEF Flush
<1>7. ASSUME NEW o \in Ops, Own(o) PROVE OneOfThese
  <2>1. CASE Leave(o)
    BY <1>7, <2>1, LeaveIs DEF Own
  <2>2. CASE ~Repeated(o) /\ ~Closed /\ Goes(o, op[o], "rpc") /\ UNCHANGED locks
    <3>1. op[o] \in OpRec
      BY DEF TypeOK
    <3>2. Moves(o, op[o], "rpc")
      BY <1>7, <2>2, <3>1 DEF Own, Moves, At, InLine
    <3> QED BY <3>1, <3>2 DEF OneOfThese
  <2> QED BY <1>7, <2>1, <2>2 DEF Own
<1>8. ASSUME NEW o \in Ops, FloodWait(o) PROVE OneOfThese
  <2> DEFINE r == [op[o] EXCEPT !.tries = @ + 1]
  <2>1. op[o] \in OpRec /\ op[o].tries + 1 \in 0..Retries
    <3>1. op[o] \in OpRec
      BY DEF TypeOK
    <3> QED BY <1>8, <3>1, FieldsTyped, DeliveryAssumption DEF FloodWait
  <2>2. /\ r \in OpRec /\ r.kind = op[o].kind /\ r.msg = op[o].msg /\ r.text = op[o].text
        /\ r.older = op[o].older
    BY <2>1, FieldsTyped DEF OpRec
  <2>3. o \in InRequest
    BY <1>8 DEF FloodWait, At, InRequest
  <2>4. Goes(o, r, "flood") /\ UNCHANGED <<locks, phase>>
    BY <1>8 DEF FloodWait
  <2> HIDE DEF r
  <2>5. Moves(o, r, "flood")
    BY <2>2, <2>3, <2>4 DEF Moves, Lines, InRequest, InLine
  <2> QED BY <2>2, <2>5 DEF OneOfThese
<1>9. ASSUME NEW o \in Ops, Retry(o) PROVE OneOfThese
  <2>1. CASE Leave(o)
    BY <1>9, <2>1, LeaveIs DEF Retry
  <2>2. CASE ~Closed /\ Goes(o, op[o], "rpc") /\ UNCHANGED locks
    <3>1. op[o] \in OpRec
      BY DEF TypeOK
    <3>2. o \in InRequest /\ op[o].pc = "flood"
      BY <1>9 DEF Retry, At, InRequest
    <3>3. Moves(o, op[o], "rpc")
      BY <1>9, <2>2, <3>1, <3>2 DEF Retry, Moves, Lines, InRequest, InLine
    <3> QED BY <3>1, <3>3 DEF OneOfThese
  <2> QED BY <1>9, <2>1, <2>2 DEF Retry, TriesAgain
<1>10. ASSUME NEW o \in Ops, Succeed(o) \/ Fail(o) \/ Cancel(o) \/ Die(o) PROVE OneOfThese
  BY <1>10, LeaveIs DEF Succeed, Fail, Cancel, Die
<1>11. CASE Kept
  BY <1>11 DEF OneOfThese
<1>12. Callers \subseteq Ops
  BY DEF Ops
<1> QED
  BY <1>1, <1>2, <1>3, <1>4, <1>5, <1>6, <1>7, <1>8, <1>9, <1>10, <1>11, <1>12 DEF Next, Call, Step, Kept

LEMMA InvNext == Inv /\ [Next]_vars => Inv'
<1> SUFFICES ASSUME Inv, [Next]_vars PROVE Lines' /\ Kinds' /\ Closing' /\ Follows'
  BY TypeNext DEF Inv
<1>1. CASE UNCHANGED vars
  BY <1>1 DEF Inv, vars, locks, Lines, Kinds, Closing, Follows, InLine, InRequest
<1> QED
  BY <1>1, StepIs, EndsInv, EntersInv, MovesInv, QueuesInv, EditSoonInv, PhasesInv DEF OneOfThese, Kept

LEMMA InvInit == Init => Inv
<1> SUFFICES ASSUME Init PROVE Inv
  OBVIOUS
<1>1. \A o \in Ops : op[o] = Idle /\ op[o].pc = "idle" /\ op[o].kind = "none" /\ op[o].older = {}
  BY DEF Init, Idle
<1>2. TypeOK
  BY IdleTyped DEF Init, TypeOK
<1>3. Lines
  <2>1. IsInjective(<<>>) /\ ToSet(<<>>) = {}
    BY DEF IsInjective, ToSet
  <2> QED BY <1>1, <2>1 DEF Init, Lines, InLine, InRequest
<1>4. Kinds
  BY <1>1 DEF Init, Kinds
<1>5. Closing /\ Follows
  BY <1>1 DEF Init, Closing, Follows
<1> QED BY <1>2, <1>3, <1>4, <1>5 DEF Inv

LEMMA Invariance == Spec => []Inv
BY InvInit, InvNext, PTL DEF Spec

-----------------------------------------------------------------------------
(* What a chat promises.                                                    *)

LEMMA InvHolds == Inv => ChatIsHeld
<1> SUFFICES ASSUME Inv PROVE ChatIsHeld
  OBVIOUS
<1> USE DEF Inv
<1>1. OneRequestPerChat
  <2>1. \A a, b \in InRequest : a = b
    BY DEF Lines
  <2>2. CASE InRequest = {}
    BY <2>2, FS_EmptySet DEF OneRequestPerChat
  <2>3. CASE InRequest # {}
    <3>1. PICK a \in InRequest : TRUE
      BY <2>3
    <3>2. InRequest = {a}
      BY <2>1, <3>1
    <3> QED BY <3>2, FS_Singleton DEF OneRequestPerChat
  <2> QED BY <2>2, <2>3
<1>2. NothingLeft
  <2>1. \A l \in Locks : ToSet(line[l]) \subseteq Busy
    BY DEF TypeOK, ToSet, Lines, InLine, Busy
  <2> QED BY <2>1 DEF Closing, NothingLeft, Busy, Ops
<1> QED BY <1>1, <1>2 DEF ChatIsHeld

\* At any time at most one operation of a chat is in a request to the account or in
\* the FloodWait of one, and a closed instance leaves no worker, no queued edit, no
\* lock and no place in a line to an operation that has ended: the lock of
\* _ordered_chat with its users count, and close with _drain.
THEOREM ChatHeld == Spec => []ChatIsHeld
BY Invariance, InvHolds, PTL

-----------------------------------------------------------------------------
(* Requests.                                                                *)

Due(o) ==
    /\ ~Closed
    /\ op[o].pc # "flood" /\ op'[o].kind = "edit" => last[op'[o].msg] # op'[o].text
    /\ \A u \in op'[o].older : op[u].kind # "edit"

LEMMA EnteringIsDue ==
    ASSUME Inv, NEW u \in Ops, NEW r \in OpRec, Enterable(u, r), Enters(u, r), NEW o \in Ops, Requests(o)
    PROVE  Due(o)
<1> USE DEF Inv
<1>1. PICK pc \in {"line", "rpc"} : Goes(u, r, pc) /\ (pc = "rpc" => ~Closed /\ chat = None)
  BY DEF Enters
<1>2. /\ op'[u].pc = pc /\ op'[u].kind = r.kind /\ op'[u].msg = r.msg /\ op'[u].text = r.text
      /\ op'[u].older = r.older /\ \A v \in Ops : v # u => op'[v] = op[v]
  BY <1>1, GoesIs
<1>3. o = u /\ ~Closed /\ chat = None
  BY <1>1, <1>2 DEF Requests
<1>4. \A v \in Ops : ~InLine(v)
  <2>1. \A l \in Locks : line[l] = <<>>
    BY <1>3, DeliveryAssumption DEF Lines, Closed
  <2> QED BY <2>1 DEF Lines, ToSet
<1>5. r.older \subseteq Ops
  BY FieldsTyped
<1> QED BY <1>2, <1>3, <1>4, <1>5 DEF Due, Enterable

LEMMA MovingIsDue ==
    ASSUME Inv, NEW u \in Ops, NEW r \in OpRec, NEW pc, Moves(u, r, pc), NEW o \in Ops, Requests(o)
    PROVE  Due(o)
<1> USE DEF Inv
<1>1. /\ op'[u].pc = pc /\ op'[u].kind = op[u].kind /\ op'[u].msg = op[u].msg /\ op'[u].text = op[u].text
      /\ op'[u].older = op[u].older /\ \A v \in Ops : v # u => op'[v] = op[v]
  BY GoesIs DEF Moves
<1>2. o = u /\ ~Closed /\ (op[o].pc # "flood" => ~Repeated(o))
  BY <1>1 DEF Requests, Moves
<1>3. \A v \in op[o].older : op[v].kind # "edit"
  <2> SUFFICES ASSUME NEW v \in op[o].older, op[v].kind = "edit" PROVE FALSE
    OBVIOUS
  <2>1. v \in Ops
    BY FieldsTyped DEF TypeOK
  <2>2. PICK l \in Locks : Before(line[l], v, o)
    BY <1>2, <2>1 DEF Follows, Moves
  <2>3. PICK k \in Locks : line[k] # <<>> /\ Head(line[k]) = o
    BY <1>2 DEF Moves
  <2>4. line[l] # <<>>
    BY <2>2 DEF Before
  <2>5. l = k /\ line[l] \in Seq(Ops) /\ IsInjective(line[l])
    BY <2>3, <2>4 DEF Lines, TypeOK
  <2> QED BY <2>2, <2>3, <2>5, FirstIsFirst
<1> QED BY <1>1, <1>2, <1>3 DEF Due, Repeated

LEMMA RequestIsDue ==
    ASSUME Inv, [Next]_vars, NEW o \in Ops, Requests(o)
    PROVE  Due(o)
<1>1. ASSUME NEW u \in Ops, Ends(u) PROVE FALSE
  BY <1>1, FinishIs DEF Ends, Requests, Inv
<1>2. ASSUME NEW u \in Ops, NEW r \in OpRec, Queues(u, r) PROVE FALSE
  BY <1>2, GoesIs DEF Queues, Requests, Inv
<1>3. ASSUME NEW c \in Callers, NEW m \in Messages, NEW text \in Texts, EditSoon(c, m, text) PROVE FALSE
  <2> DEFINE r == Asked("edit", m, text)  q == Asked("ask", m, None)
  <2>1. PICK w \in Workers :
          op' = [op EXCEPT ![w] = [r EXCEPT !.pc = "window"],
                           ![c] = [q EXCEPT !.pc = "asked", !.waits = {w}]]
    BY <1>3 DEF EditSoon
  <2>2. r \in OpRec /\ q \in OpRec
    BY AskedIs
  <2> HIDE DEF r, q
  <2>3. c # w /\ c \in Ops /\ w \in Ops
    BY DeliveryAssumption DEF Ops
  <2>4. op'[w] = [r EXCEPT !.pc = "window"] /\ op'[c] = [q EXCEPT !.pc = "asked", !.waits = {w}]
    BY <2>1, <2>3 DEF Inv, TypeOK
  <2>5. op'[w].pc = "window" /\ op'[c].pc = "asked"
    BY <2>2, <2>4 DEF OpRec
  <2> QED BY <2>1, <2>5 DEF Requests, Inv, TypeOK
<1>4. CASE Kept
  BY <1>4 DEF Kept, Close, Drain, Drained, Reload, vars, Requests
<1> QED BY <1>1, <1>2, <1>3, <1>4, StepIs, EnteringIsDue, MovingIsDue DEF OneOfThese

\* A request to the account starts only while its instance is open, a send's only
\* after every edit that was queued or under way when it was called, and an edit's
\* only with a text its message does not show yet: send, edit, _flush_edit and what
\* _ordered_chat looks at again when the lock is handed on.
THEOREM RequestsDue == Spec => RequestsAreDue
<1>1. Inv /\ [Next]_vars => [SendsFollowEdits /\ RepeatsAreSkipped /\ NothingAfterClose]_vars
  BY RequestIsDue DEF Due, SendsFollowEdits, RepeatsAreSkipped, NothingAfterClose, Ops
<1> QED BY <1>1, Invariance, PTL DEF Spec, RequestsAreDue

=============================================================================
