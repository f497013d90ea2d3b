-------------------------- MODULE Platform_proofs ---------------------------
(***************************************************************************)
(* Proofs about the components of the platform around the plugin runtime.  *)
(***************************************************************************)
EXTENDS SystemUpdates, PlatformStart, PluginStores, AIStream, Notices, CloakBrowser,
        TelegramAccounts, SettingsSave, DependencyInstall, MarketInstall, AIRequests,
        DataLemmas, TLAPS

-----------------------------------------------------------------------------
(***************************************************************************)
(* ImportIsAtomic for any configurations and any number of crashes,        *)
(* restarts, imports and saves.  It holds because the old file is back     *)
(* before the transaction that names it is deleted (TakenBack), and since  *)
(* a boot on the new file begins with a transaction of its own (Untried).  *)
(***************************************************************************)

TakenBack == boot \in {"forget", "close"} => config = transaction.back
\* No boot has been tried with an import that is still being put in place.
Untried == ~transaction.open \/ boot \in {"replace", "consume"} => ~transaction.tried
StartInv == StartTypeOK /\ TakenBack /\ Untried

\* The first start of the platform satisfies the invariant.
LEMMA FirstStart == StartInit => StartInv
<1> SUFFICES ASSUME StartInit PROVE StartInv
  OBVIOUS
<1>1. NoTransaction \in [open: BOOLEAN, back: Configs \cup {NoConfig}, tried: BOOLEAN]
  BY DEF NoTransaction
<1>2. StartTypeOK
  <2>1. disturbed \in 0..MaxDisturbance
    BY StartAssumption DEF StartInit
  <2>2. transaction \in [open: BOOLEAN, back: Configs \cup {NoConfig}, tried: BOOLEAN]
    BY <1>1 DEF StartInit
  <2>3. config \in Configs \cup {NoConfig} /\ boot \in BootPhases /\ restored \in BOOLEAN
    BY StartAssumption DEF StartInit, BootPhases
  <2> QED
    BY <2>1, <2>2, <2>3 DEF StartInit, StartTypeOK
<1> QED
  BY <1>2 DEF StartInit, StartInv, TakenBack, Untried, NoTransaction

\* Each step keeps the invariant and does to the transaction what it should.
LEMMA StartStep ==
    ASSUME StartInv, StartNext
    PROVE  StartInv' /\ UnconfirmedBootsOnce /\ EndsEitherWay
<1> DEFINE Done == StartInv' /\ UnconfirmedBootsOnce /\ EndsEitherWay
<1> DEFINE Transactions == [open: BOOLEAN, back: Configs \cup {NoConfig}, tried: BOOLEAN]
<1> USE DEF StartInv, StartTypeOK, TakenBack, Untried, UnconfirmedBootsOnce, EndsEitherWay,
       BootPhases
<1>n. NoTransaction \in Transactions /\ ~NoTransaction.open /\ ~NoTransaction.tried
  BY DEF NoTransaction
<1>m. MaxDisturbance \in Nat /\ (disturbed < MaxDisturbance => disturbed + 1 \in 0..MaxDisturbance)
  BY StartAssumption
<1>1. ASSUME Boot \/ Copy \/ Unpack \/ Forget \/ Replace \/ Consume \/ Stopped PROVE Done
  BY <1>1 DEF Boot, Copy, Unpack, Forget, Replace, Consume, Stopped, BootGoes, Files
<1>2. ASSUME Look PROVE Done
  BY <1>2 DEF Look, AfterLook, Files
<1>3. ASSUME CloseTransaction PROVE Done
  BY <1>3, <1>n DEF CloseTransaction
<1>4. ASSUME OpenTransaction PROVE Done
  <2>1. transaction' \in Transactions /\ transaction'.open /\ ~transaction'.tried
    BY <1>4 DEF OpenTransaction
  <2> QED
    BY <1>4, <2>1 DEF OpenTransaction, BootGoes
<1>5. ASSUME DiskFull PROVE Done
  BY <1>5, <1>m DEF DiskFull, Files
<1>6. ASSUME ServerStarts \/ PlatformStarts \/ BootFails PROVE Done
  <2>1. transaction' = [transaction EXCEPT !.tried = @ \/ transaction.open]
    BY <1>6 DEF ServerStarts, PlatformStarts, BootFails
  <2>2. /\ transaction' \in Transactions /\ transaction'.open = transaction.open
        /\ transaction'.tried = (transaction.tried \/ transaction.open)
    BY <2>1
  <2> QED
    BY <1>6, <2>2 DEF ServerStarts, PlatformStarts, BootFails
<1>7. ASSUME Commit PROVE Done
  BY <1>7, <1>n DEF Commit, BootGoes, Confirmed
<1>8. ASSUME NEW c \in Configs, StageImport(c) \/ SaveConfig(c) PROVE Done
  BY <1>8, <1>m DEF StageImport, SaveConfig, Console
<1>9. ASSUME RestartAsked \/ Failed \/ Crash PROVE Done
  BY <1>9, <1>m DEF RestartAsked, Failed, Crash, Console, Files
<1> QED
  BY <1>1, <1>2, <1>3, <1>4, <1>5, <1>6, <1>7, <1>8, <1>9 DEF StartNext, BootNext

-----------------------------------------------------------------------------
\* An import ends confirmed or with the configuration there was before it, and
\* the platform never boots twice with one that is not confirmed, wherever the
\* process dies.
THEOREM ImportsAreAtomic == StartSpec => ImportIsAtomic
<1>1. StartInv /\ UNCHANGED startVars => StartInv'
  BY DEF startVars, StartInv, StartTypeOK, TakenBack, Untried
<1>2. StartInv /\ [StartNext]_startVars => StartInv'
  BY <1>1, StartStep
<1>3. StartInv' => StartTypeOK'
  BY DEF StartInv
<1>4. StartInv /\ [StartNext]_startVars
        => [UnconfirmedBootsOnce /\ EndsEitherWay /\ StartTypeOK']_startVars
  BY <1>2, <1>3, StartStep
<1> QED
  BY <1>2, <1>4, FirstStart, PTL DEF StartSpec, ImportIsAtomic

-----------------------------------------------------------------------------
(***************************************************************************)
(* NoticeOnce for any number of releases, Bots, crashes and restarts: what *)
(* has arrived has a record, and what is under way is recorded before it   *)
(* is sent, so a notice begins only where nothing can have arrived.        *)
(***************************************************************************)

ReachedIsRecorded == \A v \in ReleaseNumbers : reached[v] > 0 => records[v] # "none"
\* A notice under way is of a release, recorded, and the first of it and of
\* every later one.
UnderWay == notice.at \in {"resolving", "asking"} =>
    /\ notice.version \in ReleaseNumbers /\ records[notice.version] = "inflight"
    /\ \A w \in ReleaseNumbers : w >= notice.version => reached[w] = 0
UpdatesInv == UpdatesTypeOK /\ ReachedIsRecorded /\ UnderWay

\* The parts of the type invariant that speak of notices and records.
Notices == [at: {"none", "begun", "resolving", "asking"}, version: 0..NewestRelease,
            bot: Bots \cup {NoBot}]
Records == [ReleaseNumbers -> {"none", "inflight", "uncertain", "sent"}]

\* The end of a notice.
LEMMA NoNoticeTyped == NoNotice \in Notices /\ NoNotice.at = "none"
BY UpdatesAssumption DEF NoNotice, Notices

\* The first start of the platform satisfies the invariant.
LEMMA UpdatesBegin == UpdatesInit => UpdatesInv
<1> SUFFICES ASSUME UpdatesInit PROVE UpdatesInv
  OBVIOUS
<1>1. UpdatesTypeOK
  <2>1. 0 \in 0..NewestRelease /\ 0 \in 0..MaxDeaths /\ 0 \in 0..2
    BY UpdatesAssumption
  <2>2. records \in Records /\ reached \in [ReleaseNumbers -> 0..2]
    BY <2>1 DEF UpdatesInit, Records
  <2>3. notice \in Notices
    BY NoNoticeTyped DEF UpdatesInit
  <2>4. fetching \in BOOLEAN /\ readable \in BOOLEAN /\ enabled \in BOOLEAN /\ serving \in BOOLEAN
    BY Zenon DEF UpdatesInit
  <2> QED
    BY <2>1, <2>2, <2>3, <2>4, Zenon DEF UpdatesInit, UpdatesTypeOK, Records, Notices
<1> QED
  BY <1>1, NoNoticeTyped DEF UpdatesInit, UpdatesInv, ReachedIsRecorded, UnderWay

\* A notice arrives: what a step that ends it does to the invariant.
LEMMA Arrival ==
    ASSUME UpdatesInv, notice.at = "asking", Arrives \/ UNCHANGED reached, Finished,
           records' \in Records,
           \A v \in ReleaseNumbers : records[v] # "none" => records'[v] # "none"
    PROVE  reached' \in [ReleaseNumbers -> 0..2] /\ ReachedIsRecorded' /\ UnderWay' /\ TellsOnce
<1>1. notice.version \in ReleaseNumbers /\ records[notice.version] = "inflight"
      /\ (\A w \in ReleaseNumbers : w >= notice.version => reached[w] = 0)
      /\ reached \in [ReleaseNumbers -> 0..2]
  BY DEF UpdatesInv, UnderWay, UpdatesTypeOK
<1>2. \A v \in ReleaseNumbers : v = notice.version \/ reached'[v] = reached[v]
  BY <1>1 DEF Arrives
<1>3. reached' \in [ReleaseNumbers -> 0..2]
  BY <1>1 DEF Arrives
<1>4. ReachedIsRecorded'
  BY <1>1, <1>2 DEF UpdatesInv, ReachedIsRecorded
<1>5. UnderWay'
  BY NoNoticeTyped DEF Finished, UnderWay
<1>6. TellsOnce
  BY <1>1, <1>2 DEF TellsOnce
<1> QED
  BY <1>3, <1>4, <1>5, <1>6

\* Each step keeps the invariant and tells of a release once.
LEMMA UpdatesStep ==
    ASSUME UpdatesInv, UpdatesNext
    PROVE  UpdatesInv' /\ TellsOnce
<1> DEFINE Done == UpdatesInv' /\ TellsOnce
<1>b. /\ published \in 0..NewestRelease /\ known \in 0..NewestRelease
      /\ notice \in Notices /\ records \in Records
      /\ reached \in [ReleaseNumbers -> 0..2] /\ deaths \in 0..MaxDeaths
      /\ NewestRelease \in Nat /\ MaxDeaths \in Nat
  BY UpdatesAssumption DEF UpdatesInv, UpdatesTypeOK, Notices, Records
<1>i. ReachedIsRecorded /\ UnderWay /\ UpdatesTypeOK
  BY DEF UpdatesInv
<1>r. UNCHANGED reached => TellsOnce
  BY <1>b DEF TellsOnce
<1>m. ASSUME NEW v \in ReleaseNumbers, NEW s \in {"none", "inflight", "uncertain", "sent"},
             MarkNotice(v, s)
      PROVE  /\ records' \in Records /\ records'[v] \in {records[v], s}
             /\ \A w \in ReleaseNumbers \ {v} : records'[w] = records[w]
  BY <1>m, <1>b DEF MarkNotice, Records
\* Steps that leave the notice, the records and what arrived alone.
<1>1. ASSUME Publish \/ StartFetch \/ EndFetch \/ ChangeSettings \/ Load PROVE Done
  <2>1. UNCHANGED <<notice, records, reached>>
    BY <1>1 DEF Publish, StartFetch, EndFetch, ChangeSettings, Load
  <2>2. ReachedIsRecorded' /\ UnderWay'
    BY <2>1, <1>i DEF ReachedIsRecorded, UnderWay
  <2>3. UpdatesTypeOK'
    <3>1. published' \in 0..NewestRelease
      <4>1. published' = published \/ (published < NewestRelease /\ published' = published + 1)
        BY <1>1 DEF Publish, StartFetch, EndFetch, ChangeSettings, Load
      <4> QED
        BY <4>1, <1>b
    <3>2. known' \in 0..NewestRelease
      <4>1. known' \in {0, known, published}
        BY <1>1 DEF Publish, StartFetch, EndFetch, ChangeSettings, Load
      <4> QED
        BY <4>1, <1>b
    <3>3. /\ fetching' \in BOOLEAN /\ readable' \in BOOLEAN
          /\ enabled' \in BOOLEAN /\ serving' \in BOOLEAN
      BY <1>1, <1>i, Zenon
      DEF Publish, StartFetch, EndFetch, ChangeSettings, Load, UpdatesTypeOK
    <3>4. bot' \in Bots \cup {NoBot} /\ deaths' = deaths
      BY <1>1, <1>i DEF Publish, StartFetch, EndFetch, ChangeSettings, Load, UpdatesTypeOK
    <3> QED
      BY <2>1, <3>1, <3>2, <3>3, <3>4, <1>i DEF UpdatesTypeOK
  <2> QED
    BY <1>r, <2>1, <2>2, <2>3 DEF UpdatesInv
<1>2. ASSUME StartNotice \/ NothingToSay PROVE Done
  <2>1. notice' \in Notices /\ notice'.at \in {"none", "begun"}
    BY <1>2, NoNoticeTyped DEF StartNotice, NothingToSay, Finished, Notices
  <2>2. UNCHANGED <<records, reached>>
    BY <1>2 DEF StartNotice, NothingToSay
  <2>3. ReachedIsRecorded' /\ UnderWay'
    BY <2>1, <2>2, <1>i DEF ReachedIsRecorded, UnderWay
  <2>4. UpdatesTypeOK'
    BY <1>2, <2>1, <2>2, <1>i DEF StartNotice, NothingToSay, UpdatesTypeOK, Notices
  <2> QED
    BY <1>r, <2>2, <2>3, <2>4 DEF UpdatesInv
<1>3. ASSUME Announce PROVE Done
  <2>1. known \in ReleaseNumbers /\ Unannounced(known) /\ UNCHANGED reached
    BY <1>3, <1>b DEF Announce, Wanted, ReleaseNumbers
  <2>2. /\ records' \in Records /\ records'[known] \in {records[known], "inflight"}
        /\ \A w \in ReleaseNumbers \ {known} : records'[w] = records[w]
    BY <1>3, <2>1, <1>m DEF Announce
  <2>3. \A w \in ReleaseNumbers : w >= known => reached[w] = 0
    BY <2>1, <1>b, <1>i DEF Unannounced, ReachedIsRecorded
  <2>4. /\ notice' \in Notices
        /\ notice'.at = "resolving" => notice'.version = known /\ records'[known] = "inflight"
        /\ notice'.at \in {"none", "resolving"}
    BY <1>3, <1>b, <1>i, NoNoticeTyped DEF Announce, NoticeRecorded, Notices, UpdatesTypeOK
  <2>5. UnderWay'
    BY <2>1, <2>3, <2>4 DEF UnderWay
  <2>6. ReachedIsRecorded'
    BY <2>1, <2>2, <2>3, <1>i DEF ReachedIsRecorded
  <2>7. UpdatesTypeOK'
    BY <1>3, <2>1, <2>2, <2>4, <1>i DEF Announce, UpdatesTypeOK, Notices, Records
  <2> QED
    BY <1>r, <2>1, <2>5, <2>6, <2>7 DEF UpdatesInv
<1>4. ASSUME Ask PROVE Done
  <2>1. notice' \in Notices /\ notice'.version = notice.version /\ notice.at = "resolving"
    BY <1>4, <1>b DEF Ask, Notices
  <2>2. UNCHANGED <<records, reached>>
    BY <1>4 DEF Ask
  <2>3. ReachedIsRecorded' /\ UnderWay'
    BY <2>1, <2>2, <1>i DEF ReachedIsRecorded, UnderWay
  <2>4. UpdatesTypeOK'
    BY <1>4, <2>1, <1>i DEF Ask, UpdatesTypeOK, Notices
  <2> QED
    BY <1>r, <2>2, <2>3, <2>4 DEF UpdatesInv
\* The notice was not sent, or refused: its record goes, and nothing arrived.
<1>5. ASSUME GiveUpNotice \/ Rejected PROVE Done
  <2>1. /\ notice.at \in {"resolving", "asking"} /\ MarkNotice(notice.version, "none")
        /\ notice' = NoNotice /\ UNCHANGED reached
    BY <1>5 DEF GiveUpNotice, Rejected, Finished
  <2>2. notice.version \in ReleaseNumbers /\ reached[notice.version] = 0
    BY <2>1, <1>b, <1>i DEF UnderWay, ReleaseNumbers
  <2>3. records' \in Records /\ \A w \in ReleaseNumbers \ {notice.version} : records'[w] = records[w]
    BY <2>1, <2>2, <1>m
  <2>4. ReachedIsRecorded' /\ UnderWay'
    BY <2>1, <2>2, <2>3, <1>i, NoNoticeTyped DEF ReachedIsRecorded, UnderWay
  <2>5. UpdatesTypeOK'
    BY <1>5, <2>1, <2>3, <1>i, NoNoticeTyped
    DEF GiveUpNotice, Rejected, UpdatesTypeOK, Notices, Records
  <2> QED
    BY <1>r, <2>1, <2>4, <2>5 DEF UpdatesInv
\* The outcome is known to be good, or is not known.
<1>6. ASSUME Delivered \/ Unknown PROVE Done
  <2>1. PICK s \in {"sent", "uncertain"} : MarkNotice(notice.version, s)
    BY <1>6 DEF Delivered, Unknown, Doubt
  <2>2. notice.at = "asking" /\ (Arrives \/ UNCHANGED reached) /\ Finished
    BY <1>6 DEF Delivered, Unknown
  <2>3. notice.version \in ReleaseNumbers
    BY <2>2, <1>i DEF UnderWay
  <2>4. /\ records' \in Records
        /\ \A v \in ReleaseNumbers : records[v] # "none" => records'[v] # "none"
    BY <2>1, <2>3, <1>m
  <2>5. reached' \in [ReleaseNumbers -> 0..2] /\ ReachedIsRecorded' /\ UnderWay' /\ TellsOnce
    BY <2>2, <2>4, Arrival
  <2>6. UpdatesTypeOK'
    BY <1>6, <2>2, <2>4, <2>5, <1>i, NoNoticeTyped
    DEF Delivered, Unknown, Finished, UpdatesTypeOK, Notices, Records
  <2> QED
    BY <2>5, <2>6 DEF UpdatesInv
\* The process ends: what was under way may have arrived.
<1>7. ASSUME CloseUpdates \/ Dies PROVE Done
  <2>1. /\ records' \in Records
        /\ \A v \in ReleaseNumbers : records[v] # "none" => records'[v] # "none"
    <3>1. CASE UNCHANGED records
      BY <1>b, <3>1
    <3>2. CASE notice.at \in {"resolving", "asking"} /\ MarkNotice(notice.version, "uncertain")
      <4>1. notice.version \in ReleaseNumbers
        BY <3>2, <1>i DEF UnderWay
      <4> QED
        BY <3>2, <4>1, <1>m
    <3> QED
      BY <1>7, <3>1, <3>2 DEF CloseUpdates, Dies, Doubt
  <2>2. Finished
    BY <1>7 DEF CloseUpdates, Dies
  <2>3. reached' \in [ReleaseNumbers -> 0..2] /\ ReachedIsRecorded' /\ UnderWay' /\ TellsOnce
    <3>1. CASE notice.at = "asking"
      <4>1. Arrives \/ UNCHANGED reached
        BY <1>7, <3>1 DEF CloseUpdates, Dies
      <4> QED
        BY <2>1, <2>2, <3>1, <4>1, Arrival
    <3>2. CASE notice.at # "asking"
      <4>1. UNCHANGED reached
        BY <1>7, <3>2 DEF CloseUpdates, Dies
      <4> QED
        BY <1>b, <1>i, <1>r, <2>1, <2>2, <4>1, NoNoticeTyped DEF ReachedIsRecorded, UnderWay,
           Finished
    <3> QED
      BY <3>1, <3>2
  <2>4. UpdatesTypeOK'
    <3>1. notice' \in Notices
      BY <2>2, NoNoticeTyped DEF Finished
    <3>2. deaths' \in 0..MaxDeaths
      BY <1>7, <1>b DEF CloseUpdates, Dies
    <3> QED
      BY <1>7, <2>1, <2>3, <3>1, <3>2, <1>i DEF CloseUpdates, Dies, UpdatesTypeOK, Notices, Records
  <2> QED
    BY <2>3, <2>4 DEF UpdatesInv
<1> QED
  BY <1>1, <1>2, <1>3, <1>4, <1>5, <1>6, <1>7 DEF UpdatesNext

-----------------------------------------------------------------------------
\* One notice per release, and none of an older release after a newer one:
\* through failed writes, lost answers, crashes and changes of the Bot.
THEOREM NoticesAreSentOnce == UpdatesSpec => NoticeOnce
<1>1. UpdatesInv /\ [UpdatesNext]_updateVars => UpdatesInv'
  <2>1. UpdatesInv /\ UNCHANGED updateVars => UpdatesInv'
    BY DEF updateVars, UpdatesInv, UpdatesTypeOK, ReachedIsRecorded, UnderWay
  <2> QED
    BY <2>1, UpdatesStep
<1>2. UpdatesInv' => UpdatesTypeOK'
  BY DEF UpdatesInv
<1>3. UpdatesInv /\ [UpdatesNext]_updateVars => [TellsOnce /\ UpdatesTypeOK']_updateVars
  BY <1>1, <1>2, UpdatesStep
<1> QED
  BY <1>1, <1>3, UpdatesBegin, PTL DEF UpdatesSpec, NoticeOnce

-----------------------------------------------------------------------------
(***************************************************************************)
(* StoresAreKept for any number of handlers, sessions and callers.  The    *)
(* sessions need little more than the types, since whoever takes data away *)
(* has looked again with the lock; the store needs that a thread has a     *)
(* caller which waits for it, cancelled or not, and which has the lock.    *)
(***************************************************************************)

Aimed == \A h \in Handlers : handler[h].does = "waits" => handler[h].of \in Objects
\* A caller has the operation lock while it waits for its thread.
Waits(c) == caller[c] \in {"runs", "drains"}
Served == \A c \in Callers :
    /\ thread[c] \in {"started", "inside"} => Waits(c)
    /\ Waits(c) => opLock[StoreOf(c)] = c
    /\ caller[c] \in {"rests", "waits"} => thread[c] = "none"
\* close() waits for the lock, and afterwards no operation starts.
Drained == \A c \in Callers : store[StoreOf(c)] = "closed" => ~Waits(c)
StoresInv == StoresTypeOK /\ Aimed /\ Served /\ Drained

\* Each caller uses one of the two instances.
LEMMA StoresOfCallers ==
    /\ \A c \in Callers : StoreOf(c) \in Stores
    /\ \A k \in Stores : k \in {"old", "new"}
BY DEF Stores, StoreOf

\* A new instance, beside the one it replaces, satisfies the invariant.
LEMMA StoresBegin == StoresInit => StoresInv
<1> SUFFICES ASSUME StoresInit PROVE StoresInv
  OBVIOUS
<1>1. StoresTypeOK
  BY DEF StoresInit, SessionsInit, StoreInit, StoresTypeOK, MaybeObject, Nobody, Resting, At
<1>2. Served /\ Drained
  BY DEF StoresInit, StoreInit, Served, Drained, Waits
<1>3. Aimed
  BY DEF StoresInit, SessionsInit, Resting, At, Aimed
<1> QED
  BY <1>1, <1>2, <1>3 DEF StoresInv

\* The part of the type invariant that is about the sessions, and the one that
\* is about the store.
SessionsTyped ==
    /\ table \in MaybeObject /\ expired \subseteq Objects /\ filled \subseteq Objects
    /\ holder \in [Objects -> Handlers \cup {Nobody, Sweeper, Drain}]
    /\ handler \in [Handlers -> [does: {"rests", "waits", "uses", "resets"}, of: MaybeObject]]
    /\ sweep \in MaybeObject /\ made \subseteq Objects
    /\ sessions \in {"open", "closing", "draining", "closed"}
StoreTyped ==
    /\ caller \in [Callers -> {"rests", "waits", "runs", "drains", "done", "refused"}]
    /\ opLock \in [Stores -> Callers \cup {Nobody}]
    /\ thread \in [Callers -> {"none", "started", "inside", "ended"}]
    /\ store \in [Stores -> {"open", "closing", "closed"}]
\* The type invariant of the stores in its two parts.
LEMMA TypeParts == StoresTypeOK <=> SessionsTyped /\ StoreTyped
BY DEF StoresTypeOK, SessionsTyped, StoreTyped

\* Whatever is at a handler is an object it can have.
LEMMA Handled ==
    ASSUME SessionsTyped
    PROVE  /\ \A h \in Handlers, does \in {"rests", "waits", "uses", "resets"}, o \in MaybeObject :
                 [handler EXCEPT ![h] = At(does, o)]
                    \in [Handlers -> [does: {"rests", "waits", "uses", "resets"}, of: MaybeObject]]
           /\ \A h \in Handlers : handler[h].of \in MaybeObject
           /\ NoObject \in MaybeObject /\ Objects \subseteq MaybeObject
BY DEF SessionsTyped, At, MaybeObject

-----------------------------------------------------------------------------
\* The steps of the sessions.
LEMMA SessionsStep ==
    ASSUME SessionsTyped, Aimed, SessionsNext
    PROVE  SessionsTyped' /\ Aimed' /\ DataIsKept /\ SameSession
<1> DEFINE Kept == SessionsTyped' /\ DataIsKept /\ SameSession
<1> DEFINE Unmoved == UNCHANGED <<table, filled>>
<1>1. Unmoved => DataIsKept /\ SameSession
  BY DEF DataIsKept, SameSession
<1>2. ASSUME NEW h \in Handlers, NEW o \in Objects, GetSession(h, o) PROVE Kept
  <2>a. handler' = [handler EXCEPT ![h] = At("waits", o)] /\ o \in MaybeObject
    BY <1>2, Handled DEF GetSession
  <2>b. handler' \in [Handlers -> [does: {"rests", "waits", "uses", "resets"}, of: MaybeObject]]
    BY <2>a, Handled
  <2>1. SessionsTyped'
    BY <1>2, <2>a, <2>b DEF GetSession, SessionsTyped
  <2>2. DataIsKept
    BY <1>2 DEF GetSession, DataIsKept
  <2>3. SameSession
    BY <1>2 DEF GetSession, CurrentSession, Outworn, SameSession
  <2> QED
    BY <2>1, <2>2, <2>3
<1>3. ASSUME NEW h \in Handlers, Lock(h) PROVE Kept
  <2>1. handler[h].of \in Objects
    BY <1>3 DEF Lock, Aimed
  <2>2. SessionsTyped'
    BY <1>3, <2>1, Handled DEF Lock, SessionsTyped, MaybeObject
  <2> QED
    BY <1>3, <2>2 DEF Lock, DataIsKept, SameSession
<1>4. ASSUME NEW h \in Handlers, Unlock(h) PROVE Kept
  <2>1. SessionsTyped'
    BY <1>4, Handled DEF Unlock, SessionsTyped, Resting
  <2> QED
    BY <1>1, <1>4, <2>1 DEF Unlock
<1>5. ASSUME NEW h \in Handlers, AskReset(h) PROVE Kept
  <2>1. SessionsTyped'
    BY <1>5, Handled DEF AskReset, SessionsTyped
  <2> QED
    BY <1>1, <1>5, <2>1 DEF AskReset
<1>6. ASSUME NEW h \in Handlers, ResetSession(h) PROVE Kept
  <2>1. SessionsTyped'
    BY <1>6, Handled DEF ResetSession, SessionsTyped, Resting
  <2>2. handler' = [handler EXCEPT ![h] = Resting] /\ handler \in [Handlers ->
              [does: {"rests", "waits", "uses", "resets"}, of: MaybeObject]]
    BY <1>6 DEF ResetSession, SessionsTyped
  <2>3. handler[h] = At("resets", handler[h].of) /\ handler'[h] = Resting
    BY <1>6, <2>2 DEF ResetSession, At
  <2>4. DataIsKept
    BY <1>6, <2>3 DEF ResetSession, DataIsKept
  <2>5. SameSession
    BY <1>6, <2>3 DEF ResetSession, SameSession
  <2> QED
    BY <2>1, <2>4, <2>5
<1>7. ASSUME NEW o \in Objects, SessionExpires(o) PROVE Kept
  BY <1>1, <1>7 DEF SessionExpires, SessionsTyped
<1>8. ASSUME Select PROVE Kept
  BY <1>1, <1>8 DEF Select, SessionsTyped
<1>9. ASSUME Sweep PROVE Kept
  <2>1. SessionsTyped'
    BY <1>9, Handled DEF Sweep, SessionsTyped
  <2>2. DataIsKept
    BY <1>9 DEF Sweep, StillOutworn, DataIsKept
  <2>3. SameSession
    BY <1>9 DEF Sweep, StillOutworn, SameSession
  <2> QED
    BY <2>1, <2>2, <2>3
<1>10. ASSUME CloseSessions PROVE Kept
  BY <1>1, <1>10 DEF CloseSessions, SessionsTyped
<1>11. ASSUME DrainTable PROVE Kept
  <2>1. SessionsTyped'
    BY <1>11, Handled DEF DrainTable, SessionsTyped
  <2>2. DataIsKept /\ SameSession
    BY <1>11 DEF DrainTable, DataIsKept, SameSession
  <2> QED
    BY <2>1, <2>2
<1>12. ASSUME DrainSessions PROVE Kept
  <2>1. SessionsTyped'
    BY <1>12, Handled DEF DrainSessions, SessionsTyped
  <2>2. NoObject \notin filled
    BY StoresAssumption DEF SessionsTyped
  <2>3. DataIsKept /\ SameSession
    BY <1>12, <2>2 DEF DrainSessions, LetGo, DataIsKept, SameSession
  <2> QED
    BY <2>1, <2>3
<1>13. Aimed'
  <2> SUFFICES ASSUME NEW g \in Handlers, handler'[g].does = "waits"
               PROVE  handler'[g].of \in Objects
    BY DEF Aimed
  <2>1. ASSUME NEW h \in Handlers, NEW o \in Objects, GetSession(h, o)
        PROVE  handler'[g].of \in Objects
    BY <2>1 DEF GetSession, SessionsTyped, Aimed, At
  <2>2. ASSUME NEW h \in Handlers,
               Lock(h) \/ Unlock(h) \/ AskReset(h) \/ ResetSession(h)
        PROVE  handler'[g].of \in Objects
    <3>1. g # h /\ handler'[g] = handler[g]
      BY <2>2 DEF Lock, Unlock, AskReset, ResetSession, SessionsTyped, At, Resting
    <3> QED
      BY <3>1 DEF Aimed
  <2>3. UNCHANGED handler => handler'[g].of \in Objects
    BY DEF Aimed
  <2> QED
    BY <2>1, <2>2, <2>3 DEF SessionsNext, SessionExpires, Select, Sweep, CloseSessions,
       DrainTable, DrainSessions
<1> QED
  BY <1>2, <1>3, <1>4, <1>5, <1>6, <1>7, <1>8, <1>9, <1>10, <1>11, <1>12, <1>13 DEF SessionsNext

\* The steps of the store.
LEMMA StoreStep ==
    ASSUME StoreTyped, Served, Drained, StoreNext
    PROVE  StoreTyped' /\ Served' /\ Drained'
<1> USE StoresOfCallers DEF StoreTyped, Waits
<1>1. ASSUME NEW c \in Callers, Operate(c) PROVE StoreTyped' /\ Served' /\ Drained'
  <2>1. StoreTyped'
    BY <1>1 DEF Operate
  <2>2. \A d \in Callers : Waits(d)' <=> Waits(d)
    BY <1>1 DEF Operate
  <2>3. thread[c] = "none"
    BY <1>1 DEF Operate, Served
  <2> QED
    BY <1>1, <2>1, <2>2, <2>3 DEF Operate, Served, Drained
<1>2. ASSUME NEW c \in Callers, StartThread(c) PROVE StoreTyped' /\ Served' /\ Drained'
  <2>1. StoreTyped'
    BY <1>2 DEF StartThread
  <2>a. opLock[StoreOf(c)] = Nobody /\ \A d \in Callers : StoreOf(d) = StoreOf(c) => ~Waits(d)
    BY <1>2, StoresAssumption DEF StartThread, OpLockFree, Served, Nobody
  <2>2. Served'
    BY <1>2, <2>a DEF StartThread, Served
  <2>3. Drained'
    BY <1>2 DEF StartThread, Drained
  <2> QED
    BY <2>1, <2>2, <2>3
<1>3. ASSUME NEW c \in Callers, EnterDatabase(c) \/ CommitWrite(c)
      PROVE  StoreTyped' /\ Served' /\ Drained'
  BY <1>3 DEF EnterDatabase, CommitWrite, Served, Drained
<1>4. ASSUME NEW c \in Callers, CancelCaller(c) PROVE StoreTyped' /\ Served' /\ Drained'
  BY <1>4 DEF CancelCaller, Cancelled, Served, Drained
<1>5. ASSUME NEW c \in Callers, Return(c) PROVE StoreTyped' /\ Served' /\ Drained'
  <2>1. StoreTyped'
    BY <1>5 DEF Return
  <2>2. \A d \in Callers \ {c} : Waits(d) => StoreOf(d) # StoreOf(c)
    BY <1>5 DEF Return, Served
  <2>3. Served' /\ Drained'
    BY <1>5, <2>2 DEF Return, Served, Drained
  <2> QED
    BY <2>1, <2>3
<1>6. ASSUME NEW k \in Stores, CloseStore(k) PROVE StoreTyped' /\ Served' /\ Drained'
  BY <1>6 DEF CloseStore, Served, Drained
<1>7. ASSUME NEW k \in Stores, StoreDrained(k) PROVE StoreTyped' /\ Served' /\ Drained'
  <2>1. \A c \in Callers : StoreOf(c) = k => ~Waits(c)
    BY <1>7, StoresAssumption DEF StoreDrained, OpLockFree, Served, Nobody
  <2> QED
    BY <1>7, <2>1 DEF StoreDrained, Served, Drained
<1> QED
  BY <1>1, <1>2, <1>3, <1>4, <1>5, <1>6, <1>7 DEF StoreNext

-----------------------------------------------------------------------------
\* Nobody takes from a plugin what it uses: a session is cleared only when it
\* was reset, is over or the instance closes, with nobody at work on it; and no
\* thread of a store outlives its caller or the close of its instance.
THEOREM DataIsTakenFromNobody == StoresSpec => StoresAreKept
<1>1. StoresInv /\ [StoresNext]_storesVars
        => StoresInv' /\ ((DataIsKept /\ SameSession) \/ UNCHANGED storesVars)
  <2> SUFFICES ASSUME StoresInv, [StoresNext]_storesVars
               PROVE  StoresInv' /\ ((DataIsKept /\ SameSession) \/ UNCHANGED storesVars)
    OBVIOUS
  <2>1. SessionsTyped /\ Aimed /\ StoreTyped /\ Served /\ Drained
    BY TypeParts DEF StoresInv
  <2>2. UNCHANGED kvVars => StoreTyped' /\ Served' /\ Drained'
    BY <2>1 DEF kvVars, StoreTyped, Served, Drained, Waits
  <2>3. UNCHANGED sessionVars => SessionsTyped' /\ Aimed' /\ DataIsKept /\ SameSession
    BY <2>1 DEF sessionVars, SessionsTyped, Aimed, DataIsKept, SameSession
  <2>4. SessionsTyped' /\ StoreTyped' => StoresTypeOK'
    BY DEF StoresTypeOK, SessionsTyped, StoreTyped
  <2>5. CASE SessionsNext /\ UNCHANGED kvVars
    BY <2>1, <2>2, <2>4, <2>5, SessionsStep DEF StoresInv
  <2>6. CASE StoreNext /\ UNCHANGED sessionVars
    BY <2>1, <2>3, <2>4, <2>6, StoreStep DEF StoresInv
  <2>7. CASE UNCHANGED storesVars
    BY <2>1, <2>2, <2>3, <2>4, <2>7 DEF StoresInv, storesVars
  <2> QED
    BY <2>5, <2>6, <2>7 DEF StoresNext
<1>2. StoresInv' => NoOrphanThread' /\ StoresTypeOK'
  BY DEF StoresInv, Served, Drained, NoOrphanThread
<1>3. StoresInv /\ [StoresNext]_storesVars
        => [DataIsKept /\ SameSession /\ NoOrphanThread' /\ StoresTypeOK']_storesVars
  BY <1>1, <1>2
<1>4. StoresInv /\ [StoresNext]_storesVars => StoresInv'
  BY <1>1
<1> QED
  BY <1>3, <1>4, StoresBegin, PTL DEF StoresSpec, StoresAreKept

-----------------------------------------------------------------------------
(***************************************************************************)
(* PartialIsNotCallable for any number of tool calls: a good reason comes    *)
(* after every planned call is whole, and nothing arrives after it.          *)
(***************************************************************************)

\* A good reason is only taken once every planned call is whole, and only a
\* turn with a good reason is returned.
StreamInv == /\ StreamTypeOK
             /\ finish = "good" => \A i \in 1..plan : Complete(i)
             /\ streamOutcome = "returned" => finish = "good"

\* Every event of the provider's stream keeps what is known about the turn.
LEMMA NextStreamInv == ASSUME StreamInv, [StreamNext]_streamVars PROVE StreamInv'
<1> USE StreamAssumption
<1>1. ASSUME NEW i \in 1..ToolCalls, Fragment(i) PROVE StreamInv'
  <2>1. got' \in [1..ToolCalls -> 0..Whole]
    BY <1>1 DEF StreamInv, StreamTypeOK, Fragment, Complete, Whole
  <2> QED BY <1>1, <2>1 DEF StreamInv, StreamTypeOK, Fragment, Complete, Whole, StreamOpen
<1>2. ASSUME NEW i \in 1..ToolCalls, EndBlock(i) PROVE StreamInv'
  BY <1>2 DEF StreamInv, StreamTypeOK, EndBlock, Complete, Whole, StreamOpen, Refuse
<1>3. ASSUME NEW why \in {"good", "length"}, FinishReason(why) PROVE StreamInv'
  BY <1>3 DEF StreamInv, StreamTypeOK, FinishReason, Complete, Whole, StreamOpen, Refuse, GoodReason
<1>4. CASE Terminal
  BY <1>4 DEF StreamInv, StreamTypeOK, Terminal, Terminated, GoodReason, Complete, Whole,
     StreamOpen, Refuse
<1>5. CASE Break \/ AfterBreak \/ UNCHANGED streamVars
  BY <1>5 DEF StreamInv, StreamTypeOK, Break, AfterBreak, streamVars, Complete, StreamOpen, Refuse
<1> QED BY <1>1, <1>2, <1>3, <1>4, <1>5 DEF StreamNext

\* A turn of the model that was cut off, broke or lacks a piece of a call's
\* arguments is never returned to the assistant as one whose tools may be
\* called: for any number of calls, plans and fragments.
THEOREM OnlyWholeTurns == StreamSpec => []PartialIsNotCallable
<1>1. StreamInit => StreamInv
  <2> SUFFICES ASSUME StreamInit PROVE StreamInv
    OBVIOUS
  <2>1. got \in [1..ToolCalls -> 0..Whole]
    BY DEF StreamInit, Whole
  <2>2. StreamTypeOK
    BY <2>1 DEF StreamInit, StreamTypeOK
  <2> QED BY <2>2 DEF StreamInit, StreamInv
<1>2. StreamInv => PartialIsNotCallable
  BY DEF StreamInv, PartialIsNotCallable
<1> QED BY <1>1, <1>2, NextStreamInv, PTL DEF StreamSpec

-----------------------------------------------------------------------------
(***************************************************************************)
(* DeliveredAsChecked for any channels of any kind and any private           *)
(* deliveries. A channel is tried once (Untouched), and a channel that tells *)
(* a refusal from a lost answer has a copy only where the sender knows of it *)
(* (Counted).                                                                *)
(***************************************************************************)

\* A channel is in the list once, and only as long as it has not been tried.
Untouched ==
    /\ \A i, j \in DOMAIN todo : todo[i] = todo[j] => i = j
    /\ \A i \in DOMAIN todo : outcome[todo[i]] = "none"
\* A channel that was not tried has no copy; one that acknowledges has none
\* either when it failed.
Counted ==
    \A ch \in Channels :
        /\ copies[ch] <= 1
        /\ outcome[ch] = "none" => copies[ch] = 0
        /\ ch \in Acknowledging /\ outcome[ch] = "failed" => copies[ch] = 0
\* A request is under way for the first channel of a notice that is being sent.
Trying ==
    /\ trying # "none" => todo # <<>> /\ notification = "sending"
    /\ notification = "account" => todo = <<>> /\ \A ch \in Acknowledging : copies[ch] = 0
NoticesInv == NoticesTypeOK /\ Untouched /\ Counted /\ Trying /\ ActsAsChecked

DeliveryRecords == [stage: {"idle", "waiting", "reading", "over", "uncertain"}, app: Apps, chunks: 0..2]

\* Init: the list holds each channel once.
LEMMA NoticesBegin == NoticesInit => NoticesInv
<1> SUFFICES ASSUME NoticesInit PROVE NoticesInv
  OBVIOUS
<1> USE NoticesAssumption
<1>1. Cardinality(Channels) \in Nat
  BY FS_CardinalityType
<1>2. PICK s \in SetToSeqs(Channels) : todo = s
  BY DEF NoticesInit, RouteInit
<1>3. /\ s \in [1..Cardinality(Channels) -> Channels]
      /\ \A i, j \in 1..Cardinality(Channels) : i # j => s[i] # s[j]
  BY DEF SetToSeqs
<1>4. todo \in Seq(Channels)
  BY <1>1, <1>2, <1>3
<1>5. noticeConfig \in NoticeConfigs
  BY DEF NoticesInit, PrivateInit, NoticeConfigs
<1>6. delivery \in [Deliveries -> DeliveryRecords]
  BY <1>5 DEF NoticesInit, PrivateInit, NoticeConfigs, DeliveryRecords
<1>7. NoticesTypeOK
  BY <1>4, <1>5, <1>6 DEF NoticesInit, RouteInit, PrivateInit, NoticesTypeOK, DeliveryRecords
<1>8. Untouched
  BY <1>2, <1>3 DEF NoticesInit, RouteInit, Untouched
<1> QED
  BY <1>7, <1>8 DEF NoticesInit, RouteInit, PrivateInit, NoticesInv, Counted, Trying, ActsAsChecked

\* The first channel of the list is over: what is left is still untouched.
LEMMA HeadIsOver ==
    ASSUME NoticesInv, todo # <<>>, NEW o \in {"ok", "failed", "uncertain"},
           todo' = Tail(todo), outcome' = [outcome EXCEPT ![Head(todo)] = o]
    PROVE  /\ Head(todo) \in Channels /\ outcome[Head(todo)] = "none"
           /\ todo' \in Seq(Channels)
           /\ outcome' \in [Channels -> {"none", "ok", "failed", "uncertain"}]
           /\ Untouched'
<1> USE DEF NoticesInv, NoticesTypeOK, Untouched
<1>1. /\ Head(todo) \in Channels /\ Head(todo) = todo[1] /\ 1 \in DOMAIN todo
      /\ Len(todo) \in Nat /\ DOMAIN todo = 1..Len(todo)
  OBVIOUS
<1>2. /\ todo' \in Seq(Channels) /\ Len(todo') = Len(todo) - 1
      /\ \A i \in 1..Len(todo') : todo'[i] = todo[i + 1] /\ i + 1 \in DOMAIN todo
  BY <1>1
<1>3. DOMAIN todo' = 1..Len(todo') /\ Len(todo') \in Nat
  BY <1>2
<1>4. ASSUME NEW i \in DOMAIN todo' PROVE todo'[i] # Head(todo) /\ todo'[i] \in Channels
  <2>1. i \in 1..Len(todo') /\ i + 1 # 1 /\ i + 1 \in DOMAIN todo /\ todo'[i] = todo[i + 1]
    BY <1>2, <1>3
  <2> QED BY <2>1, <1>1
<1>5. Untouched'
  <2>1. ASSUME NEW i \in DOMAIN todo', NEW j \in DOMAIN todo', todo'[i] = todo'[j] PROVE i = j
    <3>1. i \in Nat /\ j \in Nat /\ todo[i + 1] = todo[j + 1] /\ i + 1 \in DOMAIN todo /\ j + 1 \in DOMAIN todo
      BY <1>2, <1>3, <2>1
    <3>2. i + 1 = j + 1
      BY <3>1
    <3> QED BY <3>1, <3>2
  <2>2. ASSUME NEW i \in DOMAIN todo' PROVE outcome'[todo'[i]] = "none"
    BY <1>4, <1>2, <1>3
  <2> QED BY <2>1, <2>2
<1> QED BY <1>1, <1>2, <1>5

\* The steps of a notice.
LEMMA RouteStep ==
    ASSUME NoticesInv, RouteNext, UNCHANGED privateVars
    PROVE  NoticesInv'
<1> USE NoticesAssumption
<1> DEFINE ch == Head(todo)
<1>p. /\ delivery' \in [Deliveries -> DeliveryRecords] /\ noticeConfig' \in NoticeConfigs
      /\ acted' \subseteq [app: Apps, under: NoticeConfigs] /\ ActsAsChecked'
  BY DEF NoticesInv, NoticesTypeOK, privateVars, ActsAsChecked, DeliveryRecords
<1>1. CASE TryChannel
  <2>1. CASE UNCHANGED <<todo, outcome>>
    BY <1>1, <2>1, <1>p DEF TryChannel, NoticesInv, NoticesTypeOK, Untouched, Counted, Trying,
       DeliveryRecords
  <2>2. CASE outcome' = [outcome EXCEPT ![ch] = "failed"] /\ todo' = Tail(todo) /\ UNCHANGED trying
    <3>1. /\ ch \in Channels /\ outcome[ch] = "none" /\ Untouched' /\ todo' \in Seq(Channels)
          /\ outcome' \in [Channels -> {"none", "ok", "failed", "uncertain"}]
      BY <1>1, <2>2, HeadIsOver DEF TryChannel
    <3> HIDE DEF ch
    <3>2. NoticesTypeOK'
      BY <3>1, <1>1, <2>2, <1>p DEF TryChannel, NoticesInv, NoticesTypeOK, DeliveryRecords
    <3>3. Counted'
      BY <3>1, <1>1, <2>2 DEF TryChannel, NoticesInv, NoticesTypeOK, Counted
    <3> QED BY <3>1, <3>2, <3>3, <1>1, <2>2, <1>p DEF TryChannel, NoticesInv, Trying
  <2> QED BY <1>1, <2>1, <2>2 DEF TryChannel
<1>2. ASSUME NEW o \in {"ok", "failed", "uncertain"}, Concludes(ch, o), trying # "none", UNCHANGED notification,
             copies' \in [Channels -> Nat], \A x \in Channels \ {ch} : copies'[x] = copies[x],
             copies'[ch] <= copies[ch] + 1,
             ch \in Acknowledging /\ o = "failed" => copies'[ch] = copies[ch]
      PROVE NoticesInv'
  <2>1. todo # <<>> /\ notification = "sending"
    BY <1>2 DEF NoticesInv, Trying
  <2>2. /\ ch \in Channels /\ outcome[ch] = "none" /\ Untouched' /\ todo' \in Seq(Channels)
        /\ outcome' \in [Channels -> {"none", "ok", "failed", "uncertain"}]
    BY <1>2, <2>1, HeadIsOver DEF Concludes
  <2> HIDE DEF ch
  <2>3. NoticesTypeOK'
    BY <2>2, <1>2, <1>p DEF Concludes, NoticesInv, NoticesTypeOK, DeliveryRecords
  <2>4. ASSUME NEW x \in Channels
        PROVE /\ copies'[x] <= 1
              /\ outcome'[x] = "none" => copies'[x] = 0
              /\ x \in Acknowledging /\ outcome'[x] = "failed" => copies'[x] = 0
    <3>1. CASE x = ch
      <4>1. copies[ch] = 0 /\ copies'[ch] \in Nat /\ outcome'[ch] = o
        BY <2>2, <1>2 DEF NoticesInv, NoticesTypeOK, Counted, Concludes
      <4> QED BY <4>1, <3>1, <1>2
    <3>2. CASE x # ch
      BY <3>2, <1>2, <2>2 DEF NoticesInv, NoticesTypeOK, Counted, Concludes
    <3> QED BY <3>1, <3>2
  <2> QED BY <2>1, <2>2, <2>3, <2>4, <1>2, <1>p DEF Concludes, NoticesInv, Counted, Trying
<1>3. CASE Accepted
  <2>1. trying # "none" /\ Concludes(ch, "ok") /\ copies' = [copies EXCEPT ![ch] = @ + 1] /\ UNCHANGED notification
    BY <1>3 DEF Accepted
  <2>2. ch \in Channels
    BY <2>1 DEF NoticesInv, NoticesTypeOK, Trying
  <2>3. copies' \in [Channels -> Nat] /\ copies'[ch] <= copies[ch] + 1 /\ \A x \in Channels \ {ch} : copies'[x] = copies[x]
    BY <2>1, <2>2 DEF NoticesInv, NoticesTypeOK
  <2> QED BY <2>1, <2>3, <1>2
<1>4. CASE ChannelRejects
  <2>1. CASE trying = "rich" /\ trying' = "plain" /\ UNCHANGED <<todo, outcome>>
    BY <1>4, <2>1, <1>p DEF ChannelRejects, NoticesInv, NoticesTypeOK, Untouched, Counted,
       Trying, DeliveryRecords
  <2>2. CASE Concludes(ch, "failed")
    <3>1. ch \in Channels /\ UNCHANGED copies /\ trying # "none" /\ UNCHANGED notification
      BY <1>4, <2>2 DEF ChannelRejects, NoticesInv, NoticesTypeOK, Trying
    <3>2. copies' \in [Channels -> Nat] /\ copies'[ch] <= copies[ch] + 1
      BY <3>1 DEF NoticesInv, NoticesTypeOK
    <3> QED BY <3>1, <3>2, <2>2, <1>2
  <2> QED BY <1>4, <2>1, <2>2 DEF ChannelRejects
<1>5. CASE NoAnswer
  <2>1. ch \in Channels /\ Concludes(ch, Unclear(ch)) /\ trying # "none" /\ UNCHANGED notification
    BY <1>5 DEF NoAnswer, NoticesInv, NoticesTypeOK, Trying
  <2>2. Unclear(ch) \in {"failed", "uncertain"} /\ (ch \in Acknowledging => Unclear(ch) = "uncertain")
    BY <2>1 DEF Unclear
  <2>3. copies' \in [Channels -> Nat] /\ copies'[ch] <= copies[ch] + 1 /\ \A x \in Channels \ {ch} : copies'[x] = copies[x]
    <3>1. copies' = copies \/ copies' = [copies EXCEPT ![ch] = @ + 1]
      BY <1>5 DEF NoAnswer
    <3>2. copies \in [Channels -> Nat] /\ copies[ch] \in Nat
      BY <2>1 DEF NoticesInv, NoticesTypeOK
    <3> QED BY <2>1, <3>1, <3>2
  <2> QED BY <2>1, <2>2, <2>3, <1>2
<1>6. CASE Conclude
  <2>1. /\ UNCHANGED <<todo, trying, outcome, copies>> /\ notification = "sending" /\ todo = <<>>
        /\ notification' \in {"done", "raised", "account"}
        /\ notification' = "account" => ~Tried("ok") /\ ~Tried("uncertain")
    BY <1>6 DEF Conclude
  <2>2. notification' = "account" => \A x \in Channels : outcome[x] \in {"none", "failed"}
    BY <2>1 DEF Tried, NoticesInv, NoticesTypeOK
  <2>3. notification' = "account" => \A x \in Acknowledging : copies[x] = 0
    BY <2>2 DEF NoticesInv, Counted
  <2>4. NoticesTypeOK' /\ Untouched' /\ Counted'
    BY <2>1, <1>p DEF NoticesInv, NoticesTypeOK, Untouched, Counted, DeliveryRecords
  <2>5. trying = "none"
    BY <2>1 DEF NoticesInv, Trying
  <2> QED BY <2>1, <2>3, <2>4, <2>5, <1>p DEF NoticesInv, Trying
<1> QED BY <1>1, <1>3, <1>4, <1>5, <1>6 DEF RouteNext

\* The steps of a private delivery: it acts only after its second look.
LEMMA PrivateStep ==
    ASSUME NoticesInv, PrivateNext, UNCHANGED routeVars
    PROVE  NoticesInv'
<1> USE NoticesAssumption
<1>r. /\ todo' \in Seq(Channels) /\ trying' \in {"none", "rich", "plain"}
      /\ outcome' \in [Channels -> {"none", "ok", "failed", "uncertain"}]
      /\ copies' \in [Channels -> Nat]
      /\ notification' \in {"new", "sending", "done", "raised", "account"}
      /\ Untouched' /\ Counted' /\ Trying'
  BY DEF NoticesInv, NoticesTypeOK, routeVars, Untouched, Counted, Trying
<1>t. delivery \in [Deliveries -> DeliveryRecords] /\ noticeConfig \in NoticeConfigs
  BY DEF NoticesInv, NoticesTypeOK, DeliveryRecords
<1>1. ASSUME delivery' \in [Deliveries -> DeliveryRecords], noticeConfig' \in NoticeConfigs,
             acted' \subseteq [app: Apps, under: NoticeConfigs], ActsAsChecked'
      PROVE NoticesInv'
  BY <1>1, <1>r DEF NoticesInv, NoticesTypeOK, DeliveryRecords
<1>2. ASSUME NEW d \in Deliveries, NEW next \in {"idle", "waiting", "reading", "over", "uncertain"},
             DeliveryGoes(d, next)
      PROVE delivery' \in [Deliveries -> DeliveryRecords]
  BY <1>2, <1>t DEF DeliveryGoes, DeliveryRecords
<1>3. ASSUME NEW d \in Deliveries, Acts(d), Still(d)
      PROVE acted' \subseteq [app: Apps, under: NoticeConfigs] /\ ActsAsChecked'
  <2>1. delivery[d].app \in Apps /\ noticeConfig.permitted /\ noticeConfig.app = delivery[d].app
    BY <1>3, <1>t DEF Still, DeliveryRecords
  <2> QED BY <2>1, <1>3, <1>t DEF Acts, NoticesInv, NoticesTypeOK, ActsAsChecked
<1>4. ASSUME UNCHANGED acted
      PROVE acted' \subseteq [app: Apps, under: NoticeConfigs] /\ ActsAsChecked'
  BY <1>4 DEF NoticesInv, NoticesTypeOK, ActsAsChecked
<1>5. CASE ChangeConfig
  BY <1>5, <1>1, <1>4, <1>t DEF ChangeConfig
<1>6. ASSUME NEW d \in Deliveries, Check(d) PROVE NoticesInv'
  <2>1. delivery' \in [Deliveries -> DeliveryRecords]
    BY <1>6, <1>t DEF Check, DeliveryRecords, NoticeConfigs
  <2> QED BY <1>6, <2>1, <1>1, <1>4, <1>t DEF Check
<1>7. ASSUME NEW d \in Deliveries, SendPrivate(d) PROVE NoticesInv'
  <2>1. Still(d) /\ UNCHANGED noticeConfig
    BY <1>7 DEF SendPrivate
  <2>2. PICK s \in {"reading", "over", "uncertain"} : DeliveryGoes(d, s) /\ (Acts(d) \/ UNCHANGED acted)
    BY <1>7 DEF SendPrivate
  <2>3. delivery' \in [Deliveries -> DeliveryRecords]
    BY <2>2, <1>2
  <2>4. acted' \subseteq [app: Apps, under: NoticeConfigs] /\ ActsAsChecked'
    BY <2>1, <2>2, <1>3, <1>4
  <2> QED BY <2>1, <2>3, <2>4, <1>1, <1>t
<1>8. ASSUME NEW d \in Deliveries, ReadPart(d) PROVE NoticesInv'
  <2>1. delivery[d].chunks + 1 \in 0..2
    BY <1>8, <1>t DEF ReadPart, DeliveryRecords
  <2>2. delivery' \in [Deliveries -> DeliveryRecords]
    BY <1>8, <2>1, <1>t DEF ReadPart, DeliveryRecords
  <2> QED BY <1>8, <2>2, <1>1, <1>4, <1>t DEF ReadPart
<1>9. ASSUME NEW d \in Deliveries, HandOver(d) PROVE NoticesInv'
  <2>1. delivery' \in [Deliveries -> DeliveryRecords] /\ noticeConfig' = noticeConfig
    BY <1>9, <1>2 DEF HandOver
  <2>2. acted' \subseteq [app: Apps, under: NoticeConfigs] /\ ActsAsChecked'
    BY <1>9, <1>3 DEF HandOver
  <2> QED BY <2>1, <2>2, <1>1, <1>t
<1>10. ASSUME NEW d \in Deliveries, Abandon(d) PROVE NoticesInv'
  <2>1. delivery' \in [Deliveries -> DeliveryRecords] /\ UNCHANGED <<noticeConfig, acted>>
    BY <1>10, <1>2 DEF Abandon
  <2> QED BY <2>1, <1>1, <1>4, <1>t
<1> QED BY <1>5, <1>6, <1>7, <1>8, <1>9, <1>10 DEF PrivateNext

\* A notification reaches a channel at most once although the service tries again
\* what failed, and a private delivery acts for the application and keys that
\* were checked. The owner's account is used only when no channel that tells a
\* refusal from a lost answer has a copy; the other kinds may bring a second one.
THEOREM NoticesArriveAsChecked == NoticesSpec => []DeliveredAsChecked
<1>1. NoticesInv /\ [NoticesNext]_noticesVars => NoticesInv'
  <2>1. ASSUME NoticesInv, UNCHANGED noticesVars PROVE NoticesInv'
    BY <2>1 DEF noticesVars, routeVars, privateVars, NoticesInv, NoticesTypeOK, Untouched, Counted,
                Trying, ActsAsChecked
  <2> QED BY <2>1, RouteStep, PrivateStep DEF NoticesNext
<1>2. NoticesInv => DeliveredAsChecked
  BY DEF NoticesInv, DeliveredAsChecked, NoSecondCopy, Counted, Trying
<1> QED BY <1>1, <1>2, NoticesBegin, PTL DEF NoticesSpec

-----------------------------------------------------------------------------
(***************************************************************************)
(* BrowsersAreSound for any launchers, keys and update requests, restarts    *)
(* at any time included. The queue holds the waiting launchers once each     *)
(* (Lined), a lease is released exactly in the sessions that have no seat    *)
(* (Leased), and maintenance, which nobody enters with a seat or a ticket,   *)
(* lasts from the beginning of an update to the restart after it, unless a   *)
(* restart has overtaken an update (Quiet).                                  *)
(***************************************************************************)

Leases == [key: Keys \cup {NoKey}, released: BOOLEAN, old: BOOLEAN]
CloakTyped ==
    /\ session \in [Launchers -> SessionPhases] /\ lease \in [Launchers -> Leases]
    /\ queue \in Seq(Launchers)
    /\ active \in BOOLEAN /\ maintenance \in BOOLEAN /\ cooldown \in BOOLEAN
    /\ recoveryKey \in Keys \cup {NoKey} /\ recoveryOld \in BOOLEAN /\ key \in Keys \cup {NoKey}
    /\ update \in [Updaters -> {"none", "checking", "working"}]
    /\ workers \subseteq Updaters /\ replaced \subseteq Updaters /\ overtaken \subseteq Updaters
    /\ saving \subseteq Keys \cup {NoKey}
\* Who waits has one ticket, and nobody else has one.
Lined ==
    /\ \A i, j \in DOMAIN queue : queue[i] = queue[j] => i = j
    /\ \A u \in Launchers : session[u] = "queued" <=> \E i \in DOMAIN queue : queue[i] = u
\* A lease is held from the claim until the session is closed or lost.
Leased ==
    \A u \in Launchers : /\ session[u] \in {"idle", "queued", "dead"} => lease[u].released
                         /\ session[u] \in {"claimed", "open"} => ~lease[u].released
\* As long as no restart has overtaken an update, one request at a time updates,
\* under maintenance, which lasts until what it wrote is imported.
Orderly ==
    /\ \A r \in Updaters : update[r] # "none" => maintenance
    /\ \A r, s \in Updaters : update[r] # "none" /\ update[s] # "none" => r = s
    /\ replaced # {} => maintenance /\ \A r \in Updaters : update[r] # "checking"
\* Nobody has or waits for the seat during maintenance; a worker belongs to a
\* request that waits for it.
Quiet ==
    /\ maintenance => Holders = {} /\ queue = <<>>
    /\ \A r \in workers : update[r] = "working"
    /\ overtaken = {} => Orderly
CloakInv == CloakTyped /\ Lined /\ Leased /\ SeatIsAccounted /\ KeyIsStable /\ Quiet

\* What a lease, the seat and the keys say does not depend on the queue.
LeaseFacts == Leased /\ SeatIsAccounted /\ KeyIsStable

\* Nobody has or waits for the browser when the platform starts.
LEMMA CloakBegins == CloakInit => CloakInv
<1> SUFFICES ASSUME CloakInit PROVE CloakInv
  OBVIOUS
<1>1. NoLease \in Leases /\ NoLease.released
  BY DEF NoLease, Leases
<1>2. CloakTyped
  <2>1. lease \in [Launchers -> Leases] /\ session \in [Launchers -> SessionPhases]
    BY <1>1 DEF CloakInit, SessionPhases
  <2>2. queue \in Seq(Launchers)
    BY DEF CloakInit
  <2> QED BY <2>1, <2>2 DEF CloakInit, CloakTyped
<1>3. \A u \in Launchers : session[u] = "idle" /\ lease[u].released
  BY <1>1 DEF CloakInit
<1>o. Orderly
  BY DEF CloakInit, Orderly
<1>4. Holders = {}
  BY <1>3 DEF Holders
<1>5. queue = <<>> /\ DOMAIN queue = {}
  BY DEF CloakInit
<1> QED
  BY <1>2, <1>3, <1>4, <1>5, <1>o DEF CloakInit, CloakInv, Lined, Leased, SeatIsAccounted,
     KeyIsStable, Quiet

\* A ticket at the end, the first ticket taken, a ticket withdrawn.
LEMMA TicketDrawn ==
    ASSUME CloakInv, NEW u \in Launchers, session[u] # "queued", queue' = Append(queue, u),
           session' = [session EXCEPT ![u] = "queued"]
    PROVE  queue' \in Seq(Launchers) /\ Lined'
<1> USE DEF CloakInv, CloakTyped, Lined
<1>1. /\ Len(queue) \in Nat /\ DOMAIN queue = 1..Len(queue) /\ queue' \in Seq(Launchers)
      /\ DOMAIN queue' = 1..(Len(queue) + 1) /\ queue'[Len(queue) + 1] = u
      /\ \A i \in 1..Len(queue) : queue'[i] = queue[i]
  OBVIOUS
<1>2. \A i \in 1..Len(queue) : queue[i] # u
  BY <1>1
<1>3. \A i, j \in DOMAIN queue' : queue'[i] = queue'[j] => i = j
  BY <1>1, <1>2
<1>4. ASSUME NEW v \in Launchers PROVE session'[v] = "queued" <=> \E i \in DOMAIN queue' : queue'[i] = v
  <2>1. CASE v = u
    BY <2>1, <1>1
  <2>2. CASE v # u
    <3>1. session'[v] = session[v]
      BY <2>2
    <3>2. (\E i \in DOMAIN queue' : queue'[i] = v) <=> \E i \in DOMAIN queue : queue[i] = v
      BY <2>2, <1>1
    <3> QED BY <3>1, <3>2
  <2> QED BY <2>1, <2>2
<1> QED BY <1>1, <1>3, <1>4

\* Whoever withdraws or is let in leaves the rest of the queue in its order.
LEMMA TicketGone ==
    ASSUME CloakInv, NEW n \in DOMAIN queue, queue' = RemoveAt(queue, n),
           NEW t \in SessionPhases, t # "queued", session' = [session EXCEPT ![queue[n]] = t]
    PROVE  queue' \in Seq(Launchers) /\ Lined'
<1> USE DEF CloakInv, CloakTyped, Lined
<1>1. /\ Len(queue) \in Nat /\ DOMAIN queue = 1..Len(queue) /\ queue[n] \in Launchers
      /\ n \in 1..Len(queue)
  OBVIOUS
<1>2. /\ queue' \in Seq(Launchers) /\ DOMAIN queue' = 1..Len(queue) - 1
      /\ \A k \in 1..Len(queue) - 1 : queue'[k] = IF k < n THEN queue[k] ELSE queue[k + 1]
  BY RemovedAt
<1>3. \A k \in 1..Len(queue) - 1 : k \in 1..Len(queue) /\ k + 1 \in 1..Len(queue) /\ queue'[k] # queue[n]
  <2> SUFFICES ASSUME NEW k \in 1..Len(queue) - 1
               PROVE  k \in 1..Len(queue) /\ k + 1 \in 1..Len(queue) /\ queue'[k] # queue[n]
    OBVIOUS
  <2>1. /\ k \in 1..Len(queue) /\ k + 1 \in 1..Len(queue)
        /\ k < n => k # n
        /\ ~(k < n) => k + 1 # n
    BY <1>1
  <2>2. PICK i \in 1..Len(queue) : i # n /\ queue'[k] = queue[i]
    BY <2>1, <1>2
  <2>3. queue[i] # queue[n]
    BY <2>2, <1>1
  <2> QED BY <2>1, <2>2, <2>3
<1> DEFINE Before(k) == IF k < n THEN k ELSE k + 1
<1>b. \A k \in 1..Len(queue) - 1 : Before(k) \in DOMAIN queue /\ Before(k) # n /\ queue'[k] = queue[Before(k)]
  BY <1>1, <1>2
<1>c. \A i, j \in 1..Len(queue) - 1 : Before(i) = Before(j) => i = j
  BY <1>1
<1> HIDE DEF Before
<1>4. \A i, j \in DOMAIN queue' : queue'[i] = queue'[j] => i = j
  BY <1>2, <1>b, <1>c
<1>5. ASSUME NEW v \in Launchers PROVE session'[v] = "queued" <=> \E i \in DOMAIN queue' : queue'[i] = v
  <2>1. CASE v = queue[n]
    <3>1. session'[v] = t
      BY <2>1, <1>1
    <3> QED BY <3>1, <2>1, <1>2, <1>3
  <2>2. CASE v # queue[n]
    <3>1. session'[v] = session[v]
      BY <2>2, <1>1
    <3>2. ASSUME NEW i \in DOMAIN queue', queue'[i] = v PROVE \E j \in DOMAIN queue : queue[j] = v
      BY <3>2, <1>2, <1>b
    <3>3. ASSUME NEW j \in DOMAIN queue, queue[j] = v PROVE \E i \in DOMAIN queue' : queue'[i] = v
      <4>1. j \in 1..Len(queue) /\ j # n
        BY <3>3, <2>2, <1>1
      <4>2. CASE j < n
        <5>1. j \in 1..Len(queue) - 1
          BY <4>1, <4>2, <1>1
        <5> QED BY <5>1, <4>2, <3>3, <1>2
      <4>3. CASE j > n
        <5>1. j - 1 \in 1..Len(queue) - 1 /\ ~(j - 1 < n) /\ (j - 1) + 1 = j
          BY <4>1, <4>3, <1>1
        <5> QED BY <5>1, <3>3, <1>2
      <4> QED BY <4>1, <4>2, <4>3, <1>1
    <3> QED BY <3>1, <3>2, <3>3
  <2> QED BY <2>1, <2>2
<1> QED BY <1>2, <1>4, <1>5

\* Taking the head of a queue removes its first position.
LEMMA FirstTicketGone ==
    ASSUME NEW S, NEW s \in Seq(S), s # <<>>
    PROVE  1 \in DOMAIN s /\ Head(s) = s[1] /\ Tail(s) = RemoveAt(s, 1)
<1>1. Len(s) \in Nat \ {0} /\ 1 \in DOMAIN s
  OBVIOUS
<1>2. RemoveAt(s, 1) \in Seq(S) /\ DOMAIN RemoveAt(s, 1) = 1..Len(s) - 1
      /\ \A k \in 1..Len(s) - 1 : RemoveAt(s, 1)[k] = IF k < 1 THEN s[k] ELSE s[k + 1]
  BY <1>1, RemovedAt
<1>3. /\ Tail(s) \in Seq(S) /\ DOMAIN Tail(s) = 1..Len(s) - 1
      /\ \A k \in 1..Len(s) - 1 : Tail(s)[k] = s[k + 1]
  BY <1>1
<1>4. \A k \in 1..Len(s) - 1 : Tail(s)[k] = RemoveAt(s, 1)[k]
  BY <1>1, <1>2, <1>3
<1> QED BY <1>1, <1>2, <1>3, <1>4

\* Nothing about leases, seat and keys changes.
LEMMA LeasesStay ==
    ASSUME CloakInv, UNCHANGED <<lease, active, recoveryKey, recoveryOld, key>>,
           \A u \in Launchers : session'[u] # session[u] =>
               /\ session'[u] \in {"idle", "queued", "dead"} => lease[u].released
               /\ session'[u] \in {"claimed", "open"} => ~lease[u].released
    PROVE  LeaseFacts' /\ Holders' = Holders
<1>1. Holders' = Holders
  BY DEF Holders
<1> QED BY <1>1 DEF CloakInv, Leased, SeatIsAccounted, KeyIsStable, LeaseFacts

\* The seat is taken: there was no other holder.
LEMMA Claimed ==
    ASSUME CloakInv, NEW u \in Launchers, Claim(u) PROVE CloakInv'
<1>1. /\ session[u] = "queued" /\ ~maintenance /\ queue # <<>> /\ Head(queue) = u /\ ~active
      /\ session' = [session EXCEPT ![u] = "claimed"]
      /\ lease' = [lease EXCEPT ![u] = [key |-> key, released |-> FALSE, old |-> FALSE]]
      /\ queue' = Tail(queue) /\ active' = TRUE
      /\ UNCHANGED <<maintenance, cooldown, recoveryKey, recoveryOld, key, updates, saving>>
  BY DEF Claim, MayClaim
<1>2. Holders = {} /\ 1 \in DOMAIN queue /\ queue[1] = u /\ queue' = RemoveAt(queue, 1)
  BY <1>1, FirstTicketGone DEF CloakInv, CloakTyped, SeatIsAccounted
<1>3. queue' \in Seq(Launchers) /\ Lined'
  <2>1. "claimed" \in SessionPhases /\ "claimed" # "queued" /\ session' = [session EXCEPT ![queue[1]] = "claimed"]
    BY <1>1, <1>2 DEF SessionPhases
  <2> QED BY <2>1, <1>2, TicketGone
<1>4. [key |-> key, released |-> FALSE, old |-> FALSE] \in Leases
  BY DEF CloakInv, CloakTyped, Leases
<1>5. CloakTyped'
  BY <1>1, <1>3, <1>4 DEF CloakInv, CloakTyped, updates, SessionPhases
<1>6. /\ lease'[u] = [key |-> key, released |-> FALSE, old |-> FALSE]
      /\ \A v \in Launchers \ {u} : lease'[v] = lease[v] /\ session'[v] = session[v]
      /\ session'[u] = "claimed"
  BY <1>1 DEF CloakInv, CloakTyped
<1>7. \A v \in Launchers : v \in Holders' <=> v = u
  BY <1>2, <1>6 DEF Holders
<1>8. Holders' = {u}
  BY <1>7 DEF Holders
<1>9. SeatIsAccounted'
  BY <1>8, <1>1 DEF SeatIsAccounted
<1>10. KeyIsStable'
  BY <1>8, <1>6, <1>1 DEF CloakInv, KeyIsStable
<1>11. Leased'
  BY <1>6 DEF CloakInv, Leased
<1>12. Quiet'
  BY <1>1 DEF CloakInv, Quiet, Orderly, updates
<1> QED BY <1>3, <1>5, <1>9, <1>10, <1>11, <1>12 DEF CloakInv

\* A session is over or lost its browser: its lease is released, once.
LEMMA ReleasedOnce ==
    ASSUME CloakInv, NEW u \in Launchers, NEW abnormal \in BOOLEAN, Release(u, abnormal),
           session[u] \in {"claimed", "open", "dead", "closing"}, NEW t \in {"idle", "dead"},
           session' = [session EXCEPT ![u] = t]
    PROVE  CloakInv'
<1> DEFINE recover == Releases(u) /\ abnormal /\ lease[u].key # NoKey /\ recoveryKey = NoKey
<1>1. /\ lease' = [lease EXCEPT ![u] = NoLease]
      /\ active' = (active /\ ~Releases(u))
      /\ cooldown' = (cooldown \/ (Releases(u) /\ abnormal /\ lease[u].key # NoKey))
      /\ recoveryKey' = IF recover THEN lease[u].key ELSE recoveryKey
      /\ recoveryOld' = IF recover THEN lease[u].old ELSE recoveryOld
      /\ UNCHANGED <<queue, maintenance, key, updates, saving>>
  BY DEF Release
<1>n. NoLease \in Leases /\ NoLease.released
  BY DEF NoLease, Leases
<1>2. lease[u] \in Leases /\ (Releases(u) <=> u \in Holders)
  BY DEF CloakInv, CloakTyped, Releases, Holders
<1>3. /\ lease' \in [Launchers -> Leases] /\ lease'[u].released
      /\ \A v \in Launchers \ {u} : lease'[v] = lease[v] /\ session'[v] = session[v]
      /\ session'[u] = t /\ session' \in [Launchers -> SessionPhases]
  BY <1>1, <1>2, <1>n DEF CloakInv, CloakTyped, SessionPhases
<1>4. \A v \in Launchers : v \in Holders' <=> v \in Holders /\ v # u
  BY <1>3 DEF Holders
<1>5. Holders' \subseteq Holders
  BY <1>4 DEF Holders
<1>6. /\ active' \in BOOLEAN /\ cooldown' \in BOOLEAN
      /\ recoveryKey' \in Keys \cup {NoKey} /\ recoveryOld' \in BOOLEAN
  <2>1. lease[u].key \in Keys \cup {NoKey} /\ lease[u].old \in BOOLEAN
    BY <1>2 DEF Leases
  <2>2. active' \in BOOLEAN /\ cooldown' \in BOOLEAN
    BY <1>1
  <2>3. CASE recover
    BY <2>1, <2>2, <2>3, <1>1
  <2>4. CASE ~recover
    BY <2>2, <2>4, <1>1 DEF CloakInv, CloakTyped
  <2> QED BY <2>3, <2>4
<1>7. CloakTyped'
  BY <1>1, <1>3, <1>6 DEF CloakInv, CloakTyped, updates
<1>8. SeatIsAccounted'
  <2>1. \A v, w \in Holders' : v = w
    BY <1>5 DEF CloakInv, SeatIsAccounted
  <2>2. CASE u \in Holders
    <3>1. Holders' = {}
      BY <2>2, <1>4, <1>5 DEF CloakInv, SeatIsAccounted, Holders
    <3>2. active' = FALSE
      BY <2>2, <1>1, <1>2
    <3> QED BY <3>1, <3>2 DEF SeatIsAccounted
  <2>3. CASE u \notin Holders
    <3>1. Holders' = Holders
      BY <2>3, <1>4, <1>5 DEF Holders
    <3>2. active' = active
      BY <2>3, <1>1, <1>2 DEF CloakInv, CloakTyped
    <3> QED BY <3>1, <3>2 DEF CloakInv, SeatIsAccounted
  <2> QED BY <2>2, <2>3
<1>9. KeyIsStable'
  <2>1. \A v \in Holders' : lease'[v].key = key' \/ lease'[v].old
    BY <1>1, <1>3, <1>4, <1>5 DEF CloakInv, KeyIsStable, Holders
  <2>2. CASE recover
    <3>1. lease[u].key = key \/ lease[u].old
      BY <2>2, <1>2 DEF CloakInv, KeyIsStable
    <3> QED BY <2>1, <2>2, <3>1, <1>1 DEF KeyIsStable
  <2>3. CASE ~recover
    BY <2>1, <2>3, <1>1 DEF CloakInv, KeyIsStable
  <2> QED BY <2>2, <2>3
<1>10. Leased'
  BY <1>3 DEF CloakInv, Leased
<1>11. Lined'
  <2>1. \A v \in Launchers : session'[v] = "queued" <=> session[v] = "queued"
    BY <1>3
  <2> QED BY <2>1, <1>1 DEF CloakInv, Lined
<1>12. Quiet'
  BY <1>1, <1>5 DEF CloakInv, Quiet, Orderly, updates
<1> QED BY <1>7, <1>8, <1>9, <1>10, <1>11, <1>12 DEF CloakInv

\* The steps of a launcher.
LEMMA LauncherStep ==
    ASSUME CloakInv, NEW u \in Launchers, LauncherNext(u) PROVE CloakInv'
<1>1. CASE Launch(u)
  <2>1. /\ session[u] = "idle" /\ ~maintenance /\ session' = [session EXCEPT ![u] = "queued"]
        /\ queue' = Append(queue, u)
        /\ UNCHANGED <<lease, active, maintenance, cooldown, recoveryKey, recoveryOld, key, updates, saving>>
    BY <1>1 DEF Launch
  <2>2. queue' \in Seq(Launchers) /\ Lined'
    BY <2>1, TicketDrawn
  <2>3. LeaseFacts'
    <3>1. lease[u].released
      BY <2>1 DEF CloakInv, Leased
    <3>2. \A v \in Launchers : session'[v] # session[v] => v = u /\ session'[v] = "queued"
      BY <2>1 DEF CloakInv, CloakTyped
    <3> QED BY <2>1, <3>1, <3>2, LeasesStay
  <2>4. CloakTyped'
    BY <2>1, <2>2 DEF CloakInv, CloakTyped, SessionPhases, updates
  <2>5. Quiet'
    BY <2>1 DEF CloakInv, Quiet, Orderly, updates
  <2> QED BY <2>2, <2>3, <2>4, <2>5 DEF CloakInv, LeaseFacts
<1>2. CASE Claim(u)
  BY <1>2, Claimed
<1>3. CASE Withdraw(u)
  <2>1. /\ session[u] = "queued" /\ session' = [session EXCEPT ![u] = "idle"]
        /\ queue' = RemoveAt(queue, Ticket(u))
        /\ UNCHANGED <<lease, active, maintenance, cooldown, recoveryKey, recoveryOld, key, updates, saving>>
    BY <1>3 DEF Withdraw
  <2>2. Ticket(u) \in DOMAIN queue /\ queue[Ticket(u)] = u
    BY <2>1 DEF CloakInv, Lined, Ticket
  <2>3. queue' \in Seq(Launchers) /\ Lined'
    <3>1. "idle" \in SessionPhases /\ "idle" # "queued" /\ session' = [session EXCEPT ![queue[Ticket(u)]] = "idle"]
      BY <2>1, <2>2 DEF SessionPhases
    <3> QED BY <2>1, <2>2, <3>1, TicketGone
  <2>4. LeaseFacts' /\ Holders' = Holders
    <3>1. lease[u].released
      BY <2>1 DEF CloakInv, Leased
    <3>2. \A v \in Launchers : session'[v] # session[v] => v = u /\ session'[v] = "idle"
      BY <2>1 DEF CloakInv, CloakTyped
    <3> QED BY <2>1, <3>1, <3>2, LeasesStay
  <2>5. CloakTyped'
    BY <2>1, <2>3 DEF CloakInv, CloakTyped, SessionPhases, updates
  <2>6. ~maintenance
    BY <2>2 DEF CloakInv, Quiet
  <2>7. Quiet'
    BY <2>1, <2>6 DEF CloakInv, Quiet, Orderly, updates
  <2> QED BY <2>3, <2>4, <2>5, <2>7 DEF CloakInv, LeaseFacts
<1>4. CASE FailLaunch(u)
  <2>1. PICK abnormal \in BOOLEAN : Release(u, abnormal)
    BY <1>4 DEF FailLaunch
  <2> QED BY <1>4, <2>1, ReleasedOnce DEF FailLaunch
<1>5. CASE CancelLaunch(u)
  BY <1>5, ReleasedOnce DEF CancelLaunch
<1>6. ASSUME NEW from \in {"claimed", "open", "dead"}, NEW t \in {"open", "closing"}, session[u] = from,
             t = "open" => from = "claimed",
             session' = [session EXCEPT ![u] = t], UNCHANGED <<lease, gate, key, updates, saving>>
      PROVE CloakInv'
  <2>1. \A v \in Launchers : /\ session'[v] = "queued" <=> session[v] = "queued"
                             /\ session'[v] # session[v] => v = u /\ session'[v] = t
    BY <1>6 DEF CloakInv, CloakTyped
  <2>2. t = "open" => ~lease[u].released
    BY <1>6 DEF CloakInv, Leased
  <2>3. LeaseFacts' /\ Holders' = Holders
    BY <1>6, <2>1, <2>2, LeasesStay DEF gate
  <2>4. CloakTyped'
    BY <1>6 DEF CloakInv, CloakTyped, SessionPhases, updates, gate
  <2>5. Lined'
    BY <1>6, <2>1 DEF CloakInv, Lined, gate
  <2>6. Quiet'
    BY <1>6, <2>3 DEF CloakInv, Quiet, Orderly, updates, gate
  <2> QED BY <2>3, <2>4, <2>5, <2>6 DEF CloakInv, LeaseFacts
<1>7. CASE Open(u)
  BY <1>7, <1>6 DEF Open
<1>8. CASE CloseSession(u)
  BY <1>8, <1>6 DEF CloseSession
<1>9. CASE Closed(u)
  <2>1. PICK fails \in BOOLEAN : Release(u, fails)
    BY <1>9 DEF Closed
  <2> QED BY <1>9, <2>1, ReleasedOnce DEF Closed
<1>10. CASE Disconnected(u)
  BY <1>10, ReleasedOnce DEF Disconnected
<1> QED BY <1>1, <1>2, <1>3, <1>4, <1>5, <1>7, <1>8, <1>9, <1>10 DEF LauncherNext

\* The platform restarts: what was under way is overtaken.
LEMMA Restarted == ASSUME CloakInv, NEW k \in Keys \cup {NoKey}, Restart(k) PROVE CloakInv'
<1>1. /\ maintenance' = FALSE /\ replaced' = workers /\ key' = k /\ saving' = {}
      /\ overtaken' = {r \in Updaters : update[r] # "none"}
      /\ lease' = [u \in Launchers |-> [lease[u] EXCEPT !.old = ~lease[u].released]]
      /\ recoveryOld' = (recoveryKey # NoKey)
      /\ UNCHANGED <<session, queue, active, cooldown, recoveryKey, update, workers>>
  BY DEF Restart
<1>2. \A u \in Launchers : /\ lease'[u] \in Leases /\ lease'[u].released = lease[u].released
                           /\ lease'[u].old = ~lease[u].released
  BY <1>1 DEF CloakInv, CloakTyped, Leases
<1>3. Holders' = Holders
  BY <1>2 DEF Holders
<1>4. CloakTyped'
  BY <1>1, <1>2 DEF CloakInv, CloakTyped
<1>5. Lined' /\ Leased' /\ SeatIsAccounted'
  BY <1>1, <1>2, <1>3 DEF CloakInv, Lined, Leased, SeatIsAccounted
<1>6. KeyIsStable'
  BY <1>1, <1>2, <1>3 DEF KeyIsStable, Holders
<1>7. Quiet'
  <2>1. CASE \E r \in Updaters : update[r] # "none"
    BY <1>1, <2>1 DEF CloakInv, Quiet
  <2>2. CASE \A r \in Updaters : update[r] = "none"
    <3>1. workers = {}
      BY <2>2 DEF CloakInv, CloakTyped, Quiet
    <3> QED BY <1>1, <2>2, <3>1 DEF CloakInv, Quiet, Orderly
  <2> QED BY <2>1, <2>2
<1> QED BY <1>4, <1>5, <1>6, <1>7 DEF CloakInv

\* The steps of the recovery, the settings and the update.
LEMMA PlatformStep ==
    ASSUME CloakInv,
           \/ SeatIsFree \/ RecoveryEnds \/ CooldownEnds
           \/ \E k \in Keys \cup {NoKey} : SaveSettings(k) \/ CommitSettings(k)
           \/ \E r \in Updaters : UpdateNext(r)
    PROVE  CloakInv'
<1>1. UNCHANGED <<session, lease, queue, active>>
  BY DEF SeatIsFree, RecoveryEnds, CooldownEnds, SaveSettings, CommitSettings, UpdateNext,
         BeginUpdate, StartWork, GiveUpUpdate, WorkerEnds, EndUpdate, gate
<1>2. Holders' = Holders /\ Leased' /\ Lined' /\ SeatIsAccounted'
  BY <1>1 DEF CloakInv, Holders, Leased, Lined, SeatIsAccounted
<1>3. ASSUME UNCHANGED updates, UNCHANGED maintenance,
             cooldown' \in BOOLEAN, recoveryKey' \in Keys \cup {NoKey}, recoveryOld' \in BOOLEAN,
             key' \in Keys \cup {NoKey}, saving' \subseteq Keys \cup {NoKey}, KeyIsStable'
      PROVE CloakInv'
  <2>1. CloakTyped'
    BY <1>1, <1>3 DEF CloakInv, CloakTyped, updates
  <2>2. Quiet'
    BY <1>1, <1>2, <1>3 DEF CloakInv, Quiet, Orderly, updates
  <2> QED BY <1>2, <1>3, <2>1, <2>2 DEF CloakInv
<1>4. CASE SeatIsFree \/ CooldownEnds
  <2>1. KeyIsStable'
    BY <1>1, <1>2, <1>4 DEF SeatIsFree, CooldownEnds, CloakInv, KeyIsStable
  <2> QED BY <1>3, <1>4, <2>1 DEF SeatIsFree, CooldownEnds, CloakInv, CloakTyped
<1>5. CASE RecoveryEnds
  <2>1. KeyIsStable'
    BY <1>1, <1>2, <1>5 DEF RecoveryEnds, CloakInv, KeyIsStable
  <2> QED BY <1>3, <1>5, <2>1 DEF RecoveryEnds, CloakInv, CloakTyped
<1>6. ASSUME NEW k \in Keys \cup {NoKey}, SaveSettings(k) PROVE CloakInv'
  <2>1. KeyIsStable'
    BY <1>1, <1>2, <1>6 DEF SaveSettings, gate, CloakInv, KeyIsStable
  <2> QED BY <1>3, <1>6, <2>1 DEF SaveSettings, gate, CloakInv, CloakTyped
<1>7. ASSUME NEW k \in Keys \cup {NoKey}, CommitSettings(k) PROVE CloakInv'
  <2>1. CASE Refused
    <3>1. KeyIsStable'
      BY <1>1, <1>2, <1>7, <2>1 DEF CommitSettings, gate, CloakInv, KeyIsStable
    <3> QED BY <1>3, <1>7, <2>1, <3>1 DEF CommitSettings, gate, CloakInv, CloakTyped
  <2>2. CASE ~Refused
    <3>1. Holders = {} /\ recoveryKey = NoKey
      BY <2>2 DEF Refused, KeyInUse, CloakInv, SeatIsAccounted
    <3>2. KeyIsStable'
      BY <1>2, <1>7, <3>1 DEF CommitSettings, gate, KeyIsStable
    <3> QED BY <1>3, <1>7, <2>2, <3>2 DEF CommitSettings, gate, CloakInv, CloakTyped
  <2> QED BY <2>1, <2>2
<1>8. ASSUME NEW r \in Updaters, UpdateNext(r) PROVE CloakInv'
  <2>1. UNCHANGED <<cooldown, recoveryKey, recoveryOld, key, overtaken, saving>>
    BY <1>8 DEF UpdateNext, BeginUpdate, StartWork, GiveUpUpdate, WorkerEnds, EndUpdate, gate
  <2>2. KeyIsStable'
    BY <1>1, <1>2, <2>1 DEF CloakInv, KeyIsStable
  <2>3. CloakTyped'
    BY <1>1, <1>8, <2>1 DEF UpdateNext, BeginUpdate, StartWork, GiveUpUpdate, WorkerEnds, EndUpdate,
                            gate, CloakInv, CloakTyped
  <2>4. Quiet'
    <3> USE DEF CloakInv, CloakTyped, Quiet, Orderly
    <3>1. CASE BeginUpdate(r)
      <4>1. Holders = {} /\ queue = <<>>
        BY <3>1 DEF BeginUpdate, Idle, SeatIsAccounted
      <4> QED BY <3>1, <4>1, <1>1, <1>2, <2>1 DEF BeginUpdate
    <3>2. CASE StartWork(r)
      BY <3>2, <1>1, <1>2, <2>1 DEF StartWork, gate
    <3>3. CASE WorkerEnds(r)
      BY <3>3, <1>1, <1>2, <2>1 DEF WorkerEnds, gate
    <3>4. CASE GiveUpUpdate(r)
      BY <3>4, <1>1, <1>2, <2>1 DEF GiveUpUpdate
    <3>5. CASE EndUpdate(r)
      BY <3>5, <1>1, <1>2, <2>1 DEF EndUpdate, WorkIsOver, gate
    <3> QED BY <3>1, <3>2, <3>3, <3>4, <3>5, <1>8 DEF UpdateNext
  <2> QED BY <1>2, <2>2, <2>3, <2>4 DEF CloakInv
<1> QED BY <1>4, <1>5, <1>6, <1>7, <1>8

\* Tickets of different launchers: the queue is as long as its set is large.
LEMMA QueueIsASet == ASSUME CloakInv PROVE Len(queue) = Cardinality(ToSet(queue))
<1>1. /\ Len(queue) \in Nat /\ DOMAIN queue = 1..Len(queue)
      /\ \A i, j \in 1..Len(queue) : queue[i] = queue[j] => i = j
  BY DEF CloakInv, CloakTyped, Lined
<1>2. queue \in [1..Len(queue) -> ToSet(queue)]
  BY <1>1 DEF ToSet, CloakInv, CloakTyped
<1>3. queue \in Bijection(1..Len(queue), ToSet(queue))
  BY <1>1, <1>2 DEF Bijection, Injection, Surjection, IsInjective, ToSet
<1> QED BY <1>1, <1>3, FS_CountingElements DEF ExistsBijection

\* The browser's seat is never given away twice or lost, a session keeps the key
\* it was opened with unless a restart reads another one, and no session is open
\* while its files are replaced unless a restart has overtaken an update: for any
\* launchers, keys, update requests and restarts.
THEOREM BrowsersKeepTheirSeat == CloakSpec => []BrowsersAreSound
<1>1. CloakInv /\ [CloakNext]_cloakVars => CloakInv'
  <2>1. ASSUME CloakInv, UNCHANGED cloakVars PROVE CloakInv'
    BY <2>1 DEF cloakVars, gate, updates, CloakInv, CloakTyped, Lined, Leased, SeatIsAccounted,
       KeyIsStable, Quiet, Orderly, Holders
  <2> QED BY <2>1, LauncherStep, PlatformStep, Restarted DEF CloakNext
<1>2. CloakInv => BrowsersAreSound
  <2>1. CloakInv => CloakTypeOK
    BY QueueIsASet DEF CloakInv, CloakTyped, CloakTypeOK, Leases
  <2>2. CloakInv => BrowsersMatchFiles
    BY DEF CloakInv, Quiet, Orderly, BrowsersMatchFiles
  <2> QED BY <2>1, <2>2 DEF CloakInv, BrowsersAreSound
<1> QED BY <1>1, <1>2, CloakBegins, PTL DEF CloakSpec

-----------------------------------------------------------------------------
(***************************************************************************)
(* AccountIsKept for any number of client objects. The account, the start    *)
(* under the connection lock and the login never share a client, and two of  *)
(* them have one at the same time only after a start and a login overlapped  *)
(* (Held). An account that is wanted and has no client is being started or   *)
(* left to the administrator; one that has a client has it watched,          *)
(* recovered, started anew or given up as revoked (Cared).                   *)
(***************************************************************************)

Recoveries == [at: {"off", "asleep", "waiting", "starting", "refresh"}, was: Maybe, new: Maybe]
Logins == [at: {"none", "sending", "sent"}, client: Maybe]
AccountTyped ==
    /\ halt \in {"no", "stopping", "stopped"} /\ link \in [Clients -> {"closed", "connecting", "up", "down", "revoked"}]
    /\ suppressed \in {"no", "login", "removal"} /\ configured \in BOOLEAN /\ sessionFile \in BOOLEAN
    /\ entering \in BOOLEAN /\ finishing \in BOOLEAN
    /\ settled \in BOOLEAN /\ crossed \in BOOLEAN /\ missed \in BOOLEAN
    /\ user \in Maybe /\ watched \in Maybe /\ permanent \in Maybe /\ opening \in Maybe
    /\ signing \in Maybe /\ bound \in Maybe
    /\ request \in {"idle", "waiting", "starting", "refresh"} /\ recovery \in Recoveries
    /\ removal \in {"none", "offline", "delete"} /\ login \in Logins
    /\ displaced \subseteq Clients
\* A client is open for the account, the start or the login, or it got lost.
OpenClients == \A c \in Clients : link[c] # "closed" <=> c \in {user, opening, login.client} \cup displaced
\* Nobody shares his client.
Apart ==
    /\ user # NoClient => user # opening /\ user # login.client
    /\ opening # NoClient => opening # login.client
    /\ user \notin displaced /\ opening \notin displaced /\ login.client \notin displaced
    /\ login.at = "none" <=> login.client = NoClient
\* Two of them have a client only after a start and a login overlapped.
Overlaps ==
    /\ displaced # {} => crossed
    /\ opening # NoClient /\ user # NoClient => crossed
    /\ opening # NoClient /\ login.client # NoClient => crossed
    /\ user # NoClient /\ login.client # NoClient => crossed
\* The connection lock is held by one start.
LockHeld ==
    /\ opening # NoClient <=> request = "starting" \/ recovery.at = "starting"
    /\ ~(request = "starting" /\ recovery.at = "starting")
\* After the shutdown there is neither a client nor a login, and no verdict
\* that a connection is gone for good.
Emptied ==
    /\ halt = "stopped" => user = NoClient /\ login.client = NoClient
    /\ Stops => permanent = NoClient
Held == AccountTyped /\ OpenClients /\ Apart /\ Overlaps /\ LockHeld /\ Emptied /\ StaysOffline

\* Only a revoked session is given up for good.
Permanent == permanent # NoClient /\ permanent = user => link[user] = "revoked"
ShouldRun == ~Suppressed /\ ~Stops /\ (configured \/ finishing) /\ ~missed /\ ~crossed
\* A wanted account without a client is being started or left to the administrator.
NotForgotten ==
    ShouldRun /\ user = NoClient =>
        settled \/ entering \/ recovery.at # "off" \/ request \in {"waiting", "starting"}
\* Its client is watched, or being recovered, or about to be started, or given up.
NotLost ==
    ShouldRun /\ user # NoClient => user = watched \/ recovery.at # "off" \/ request = "waiting" \/ permanent = user
\* A recovery that refreshes the plugins leaves a client that is watched.
Refreshing == recovery.at = "refresh" /\ ShouldRun /\ HasRecovered => watched = user
Cared == Permanent /\ NotForgotten /\ NotLost /\ Refreshing

AccountInv == Held /\ Cared

\* A process starts without a client and with nothing under way.
LEMMA AccountBegins == AccountsInit => AccountInv
<1> SUFFICES ASSUME AccountsInit PROVE AccountInv
  OBVIOUS
<1>1. NoRecovery \in Recoveries /\ NoLogin \in Logins /\ NoRecovery.at = "off" /\ NoLogin.at = "none" /\ NoLogin.client = NoClient
  BY DEF NoRecovery, NoLogin, Recoveries, Logins, Maybe
<1>2. AccountTyped
  BY <1>1 DEF AccountsInit, AccountTyped, Maybe
<1> QED BY <1>1, <1>2, AccountsAssumption DEF AccountsInit, AccountInv, Held, Cared, OpenClients, Apart, Overlaps,
     LockHeld, Emptied, Suppressed, StaysOffline, Permanent, NotForgotten, NotLost, Refreshing, ShouldRun, Stops, Maybe

\* A start that ends, with a client or without one, moves only the one who made it.
LEMMA EndsOnline ==
    ASSUME AccountTyped, NEW by \in {"request", "recovery"}, NEW c \in Clients, Online(by, c)
    PROVE  /\ recovery' \in Recoveries
           /\ by = "request" => request' = "refresh" /\ recovery' = recovery
           /\ by = "recovery" => request' = request /\ recovery'.at \in {"off", "refresh"}
<1>1. CASE by = "request"
  BY <1>1 DEF Online, AccountTyped
<1>2. CASE by = "recovery" /\ c = recovery.was
  BY <1>2 DEF Online, NoRecovery, Recoveries, Maybe
<1>3. CASE by = "recovery" /\ c # recovery.was
  BY <1>3, ZenonT(30) DEF Online, AccountTyped, Recoveries, Maybe
<1> QED BY <1>1, <1>2, <1>3

\* A start that is no longer wanted ends without a client.
LEMMA EndsWithout ==
    ASSUME AccountTyped, NEW by \in {"request", "recovery"}, Unwanted(by)
    PROVE  /\ recovery' \in Recoveries
           /\ by = "request" => request' = "idle" /\ recovery' = recovery
           /\ by = "recovery" => request' = request /\ recovery'.at = "off"
<1>1. CASE by = "request"
  BY <1>1 DEF Unwanted, AccountTyped
<1>2. CASE by = "recovery"
  BY <1>2 DEF Unwanted, NoRecovery, Recoveries, Maybe
<1> QED BY <1>1, <1>2

\* A start finds the account online.
LEMMA HeldStillOnline ==
    ASSUME Held, NEW by \in {"request", "recovery"}, StillOnline(by)
    PROVE  Held'
<1> USE AccountsAssumption DEF Held
<1>0. /\ user \in Clients /\ watched' = user /\ permanent' = NoClient /\ missed' = FALSE /\ ~Stops /\ opening = NoClient
      /\ UNCHANGED <<halt, suppressed, configured, sessionFile, user, link, opening, removal, entering, login,
                     signing, finishing, bound, settled, crossed, displaced>>
  BY DEF StillOnline, LockFree, Connected, AccountTyped, Maybe, logins
<1>1. recovery' \in Recoveries /\ request' \in {"idle", "waiting", "starting", "refresh"}
      /\ request' # "starting" /\ recovery'.at # "starting"
  BY <1>0, EndsOnline DEF StillOnline, Starts, AccountTyped, LockHeld
<1>2. AccountTyped'
  <2>1. watched' \in Maybe /\ permanent' \in Maybe
    BY <1>0 DEF Maybe
  <2> QED BY <1>0, <1>1, <2>1, ZenonT(40) DEF AccountTyped
<1> QED BY <1>0, <1>1, <1>2 DEF OpenClients, Apart, Overlaps, LockHeld, Emptied, Stops, StaysOffline, Suppressed

\* A start ends before it connects.
LEMMA HeldStartRefused ==
    ASSUME Held, NEW by \in {"request", "recovery"}, StartRefused(by)
    PROVE  Held'
<1> USE AccountsAssumption DEF Held
<1>0. /\ opening = NoClient /\ UNCHANGED <<halt, suppressed, configured, sessionFile, opening, removal, entering, login,
                     signing, finishing, bound, crossed, displaced, missed>>
  BY DEF StartRefused, LockFree, logins
<1>1. recovery' \in Recoveries /\ request' \in {"idle", "waiting", "starting", "refresh"}
      /\ request' # "starting" /\ recovery'.at # "starting"
  BY <1>0, EndsWithout DEF StartRefused, Starts, AccountTyped, LockHeld
<1>2. CASE Stops \/ Suppressed
  <2>1. UNCHANGED <<user, link, watched, permanent, settled>>
    BY <1>2 DEF StartRefused
  <2>2. AccountTyped'
    BY <1>0, <1>1, <2>1, ZenonT(40) DEF AccountTyped
  <2> QED BY <1>0, <1>1, <2>1, <2>2 DEF OpenClients, Apart, Overlaps, LockHeld, Emptied, Stops, StaysOffline
<1>3. CASE ~(Stops \/ Suppressed)
  <2>1. /\ user' = NoClient /\ link' = CloseAll({user}) /\ watched' = NoClient /\ permanent' = NoClient
        /\ settled' = TRUE
    BY <1>3 DEF StartRefused
  <2>2. link' \in [Clients -> {"closed", "connecting", "up", "down", "revoked"}]
    BY <2>1 DEF CloseAll, AccountTyped
  <2>3. AccountTyped'
    <3>1. NoClient \in Maybe
      BY DEF Maybe
    <3> QED BY <1>0, <1>1, <2>1, <2>2, <3>1, ZenonT(40) DEF AccountTyped
  <2>4. OpenClients' /\ Apart' /\ Overlaps'
    BY <1>0, <2>1 DEF CloseAll, OpenClients, Apart, Overlaps, AccountTyped, Maybe
  <2> QED BY <1>0, <1>1, <2>1, <2>3, <2>4 DEF LockHeld, Emptied, Stops, StaysOffline
<1> QED BY <1>2, <1>3

\* A start opens a client under the lock, in place of the account's old one.
LEMMA HeldStartOpens ==
    ASSUME Held, NEW by \in {"request", "recovery"}, StartOpens(by)
    PROVE  Held'
<1> USE AccountsAssumption DEF Held
<1>1. PICK c \in Clients : /\ New(c) /\ opening' = c
                           /\ link' = [CloseAll({user}) EXCEPT ![c] = "connecting"]
  BY DEF StartOpens
<1>2. /\ user' = NoClient /\ permanent' = NoClient /\ watched' \in {watched, NoClient} /\ opening = NoClient
      /\ ~Stops /\ crossed' = (crossed \/ login.at # "none")
      /\ UNCHANGED <<halt, suppressed, configured, sessionFile, removal, entering, login,
                     signing, finishing, bound, settled, displaced, missed>>
  BY DEF StartOpens, LockFree, logins
<1>3. /\ recovery' \in Recoveries /\ request' \in {"idle", "waiting", "starting", "refresh"}
      /\ request' = "starting" \/ recovery'.at = "starting"
      /\ ~(request' = "starting" /\ recovery'.at = "starting")
  BY <1>2 DEF StartOpens, Starts, LockFree, LockHeld, AccountTyped, Recoveries
<1>4. /\ link' \in [Clients -> {"closed", "connecting", "up", "down", "revoked"}]
      /\ \A d \in Clients : link'[d] # "closed" <=> d = c \/ (link[d] # "closed" /\ d # user)
  BY <1>1 DEF CloseAll, AccountTyped
<1>5. AccountTyped'
  <2>1. watched' \in Maybe /\ permanent' \in Maybe /\ user' \in Maybe /\ opening' \in Maybe /\ crossed' \in BOOLEAN
    BY <1>1, <1>2 DEF AccountTyped, Maybe
  <2> QED BY <1>2, <1>3, <1>4, <2>1, ZenonT(40) DEF AccountTyped
<1>6. link[c] = "closed" /\ c # NoClient
  BY <1>1 DEF New
<1>8. c \notin {user, login.client} \cup displaced
  BY <1>6 DEF OpenClients
<1>9. OpenClients'
  BY <1>1, <1>2, <1>4, <1>6, <1>8 DEF OpenClients, Apart, AccountTyped
<1>10. Apart'
  BY <1>1, <1>2, <1>6, <1>8 DEF Apart, AccountTyped
<1>7. OpenClients' /\ Apart' /\ Overlaps'
  BY <1>1, <1>2, <1>9, <1>10 DEF Overlaps, Apart
<1> QED BY <1>1, <1>2, <1>3, <1>5, <1>6, <1>7 DEF LockHeld, Emptied, Stops, StaysOffline

\* A start has its connection, and looks once more before it takes the account.
LEMMA HeldStartSucceeds ==
    ASSUME Held, NEW by \in {"request", "recovery"}, StartSucceeds(by)
    PROVE  Held'
<1> USE AccountsAssumption DEF Held
<1>1. /\ opening \in Clients /\ opening' = NoClient
      /\ UNCHANGED <<halt, suppressed, configured, sessionFile, removal, entering, login,
                     signing, finishing, bound, crossed>>
  BY DEF StartSucceeds, Starts, LockHeld, AccountTyped, Maybe, logins
<1>2. CASE StillWanted
  <2>1. /\ user' = opening /\ watched' = opening /\ link' = [link EXCEPT ![opening] = "up"]
        /\ permanent' = NoClient /\ settled' = FALSE /\ missed' = FALSE /\ ~Stops /\ ~Suppressed
        /\ displaced' = displaced \cup ({user} \ {NoClient})
    BY <1>2 DEF StartSucceeds, StillWanted, TakesOver
  <2>2. recovery' \in Recoveries /\ request' \in {"idle", "waiting", "starting", "refresh"}
        /\ request' # "starting" /\ recovery'.at # "starting"
    BY <1>1, <1>2, EndsOnline DEF StartSucceeds, Starts, AccountTyped, LockHeld
  <2>3. AccountTyped'
    <3>1. watched' \in Maybe /\ permanent' \in Maybe /\ user' \in Maybe /\ opening' \in Maybe /\ displaced' \subseteq Clients
          /\ link' \in [Clients -> {"closed", "connecting", "up", "down", "revoked"}]
      BY <1>1, <2>1 DEF AccountTyped, Maybe
    <3> QED BY <1>1, <2>1, <2>2, <3>1, ZenonT(40) DEF AccountTyped
  <2>4. \A d \in Clients : link'[d] # "closed" <=> link[d] # "closed"
    BY <1>1, <2>1 DEF OpenClients, AccountTyped
  <2>5. OpenClients' /\ Apart' /\ Overlaps'
    BY <1>1, <2>1, <2>4 DEF OpenClients, Apart, Overlaps, AccountTyped, Maybe
  <2> QED BY <1>1, <2>1, <2>2, <2>3, <2>5 DEF LockHeld, Emptied, Stops, StaysOffline, Suppressed
<1>3. CASE ~StillWanted
  <2>1. link' = CloseAll({opening}) /\ UNCHANGED <<user, watched, permanent, settled, displaced, missed>>
    BY <1>3 DEF StartSucceeds
  <2>2. recovery' \in Recoveries /\ request' \in {"idle", "waiting", "starting", "refresh"}
        /\ request' # "starting" /\ recovery'.at # "starting"
    BY <1>1, <1>3, EndsWithout DEF StartSucceeds, Starts, AccountTyped, LockHeld
  <2>3. AccountTyped'
    <3>1. opening' \in Maybe /\ link' \in [Clients -> {"closed", "connecting", "up", "down", "revoked"}]
      BY <1>1, <2>1 DEF AccountTyped, Maybe, CloseAll
    <3> QED BY <1>1, <2>1, <2>2, <3>1, ZenonT(40) DEF AccountTyped
  <2>4. OpenClients'
    BY <1>1, <2>1, AccountsAssumption DEF OpenClients, Apart, CloseAll
  <2>5. Apart' /\ Overlaps'
    BY <1>1, <2>1 DEF Apart, Overlaps, AccountTyped
  <2> QED BY <1>1, <2>1, <2>2, <2>3, <2>4, <2>5 DEF LockHeld, Emptied, Stops, StaysOffline, Suppressed
<1> QED BY <1>2, <1>3

\* A login ends, saved or not.
LEMMA HeldLoginSaved ==
    ASSUME Held, LoginSaved \/ LoginUnsaved
    PROVE  Held'
<1> USE AccountsAssumption DEF Held
<1>1. /\ finishing' = FALSE /\ configured' \in BOOLEAN /\ bound' \in Maybe
      /\ UNCHANGED <<halt, suppressed, sessionFile, user, link, watched, permanent, request, recovery, opening,
                     removal, entering, login, signing, settled, crossed, displaced, missed>>
  BY DEF LoginSaved, LoginUnsaved, Bindings, Connected, AccountTyped, Maybe, starts, history
<1>2. AccountTyped'
  BY <1>1, ZenonT(40) DEF AccountTyped
<1> QED BY <1>1, <1>2 DEF OpenClients, Apart, Overlaps, LockHeld, Emptied, Stops, StaysOffline, Suppressed

\* The console connects: a recovery that holds the lock ends with its client.
LEMMA HeldConnectUser ==
    ASSUME Held, ConnectUser
    PROVE  Held'
<1> USE AccountsAssumption DEF Held
<1>1. /\ recovery' = NoRecovery /\ suppressed' = "no" /\ request' = "waiting" /\ settled' = FALSE /\ request = "idle"
      /\ link' = CloseAll(HeldByRecovery) /\ opening' = IF HeldByRecovery = {} THEN opening ELSE NoClient
      /\ UNCHANGED <<halt, configured, sessionFile, user, watched, permanent, removal, entering, login, signing,
                     finishing, bound, crossed, displaced, missed>>
  BY DEF ConnectUser, CancelsRecovery, logins
<1>2. AccountTyped'
  <2>1. /\ opening' \in Maybe /\ recovery' \in Recoveries
        /\ link' \in [Clients -> {"closed", "connecting", "up", "down", "revoked"}]
    BY <1>1 DEF AccountTyped, Maybe, CloseAll, NoRecovery, Recoveries
  <2> QED BY <1>1, <2>1, ZenonT(40) DEF AccountTyped
<1>3. HeldByRecovery = IF opening = NoClient THEN {} ELSE {opening}
  BY <1>1 DEF HeldByRecovery, LockHeld
<1>4. OpenClients' /\ Apart' /\ Overlaps' /\ opening' = NoClient
  BY <1>1, <1>3 DEF OpenClients, Apart, Overlaps, CloseAll, AccountTyped, Maybe
<1> QED BY <1>1, <1>2, <1>4 DEF LockHeld, Emptied, Stops, StaysOffline, NoRecovery

\* A login takes the place of an earlier one.
LEMMA HeldLoginBegins ==
    ASSUME Held, LoginBegins
    PROVE  Held'
<1> USE AccountsAssumption DEF Held
<1>1. /\ entering' = FALSE /\ suppressed' \in {suppressed, "login"}
      /\ suppressed' = "removal" => suppressed = "removal"
      /\ UNCHANGED <<halt, configured, sessionFile, user, watched, permanent, request, recovery, opening,
                     removal, signing, finishing, bound, settled, displaced, missed>>
  BY DEF LoginBegins, starts
<1>2. CASE Stops \/ user # NoClient
  <2>1. login' = NoLogin /\ link' = CloseAll({login.client}) /\ UNCHANGED crossed
    BY <1>2 DEF LoginBegins
  <2>2. AccountTyped'
    <3>1. /\ login' \in Logins /\ suppressed' \in {"no", "login", "removal"}
          /\ link' \in [Clients -> {"closed", "connecting", "up", "down", "revoked"}]
      BY <1>1, <2>1 DEF AccountTyped, Maybe, CloseAll, NoLogin, Logins
    <3> QED BY <1>1, <2>1, <3>1, ZenonT(40) DEF AccountTyped
  <2>3. OpenClients' /\ Apart' /\ Overlaps'
    BY <1>1, <2>1 DEF OpenClients, Apart, Overlaps, CloseAll, AccountTyped, Maybe, NoLogin
  <2> QED BY <1>1, <2>1, <2>2, <2>3 DEF LockHeld, Emptied, Stops, StaysOffline, NoLogin
<1>3. CASE ~Stops /\ user = NoClient
  <2>1. PICK c \in Clients : /\ New(c) /\ login' = [at |-> "sending", client |-> c]
                             /\ link' = [CloseAll({login.client}) EXCEPT ![c] = "connecting"]
    BY <1>3 DEF LoginBegins
  <2>2. crossed' = (crossed \/ opening # NoClient) /\ link[c] = "closed" /\ c # NoClient
    BY <1>3, <2>1 DEF LoginBegins, New
  <2>3. AccountTyped'
    <3>1. /\ login' \in Logins /\ suppressed' \in {"no", "login", "removal"} /\ crossed' \in BOOLEAN
          /\ link' \in [Clients -> {"closed", "connecting", "up", "down", "revoked"}]
      BY <1>1, <2>1, <2>2 DEF AccountTyped, Maybe, CloseAll, Logins
    <3> QED BY <1>1, <3>1, ZenonT(40) DEF AccountTyped
  <2>4. \A d \in Clients : link'[d] # "closed" <=> d = c \/ (link[d] # "closed" /\ d # login.client)
    BY <2>1 DEF CloseAll, AccountTyped
  <2>5. OpenClients' /\ Apart' /\ Overlaps'
    BY <1>1, <1>3, <2>1, <2>2, <2>4 DEF OpenClients, Apart, Overlaps, AccountTyped, Maybe
  <2> QED BY <1>1, <1>3, <2>1, <2>3, <2>5 DEF LockHeld, Emptied, Stops, StaysOffline
<1> QED BY <1>2, <1>3

\* A code is accepted: the login's client becomes the account's.
LEMMA HeldSignedIn ==
    ASSUME Held, SignedIn
    PROVE  Held'
<1> USE AccountsAssumption DEF Held
<1>1. /\ signing # NoClient /\ signing' = NoClient
      /\ UNCHANGED <<halt, configured, sessionFile, link, request, recovery, opening, removal, entering, bound, crossed>>
  BY DEF SignedIn, starts
<1>2. CASE SameLogin
  <2>1. /\ login' = NoLogin /\ finishing' = TRUE /\ suppressed' = "no" /\ user' = signing
        /\ displaced' = displaced \cup ({user} \ {NoClient}) /\ settled' = FALSE /\ missed' = FALSE
        /\ watched' \in {watched, signing} /\ permanent' \in {permanent, NoClient}
        /\ login.at = "sent" /\ login.client = signing
    BY <1>2 DEF SignedIn, TakesOver, SameLogin
  <2>2. AccountTyped'
    <3>1. /\ login' \in Logins /\ user' \in Maybe /\ watched' \in Maybe /\ permanent' \in Maybe /\ signing' \in Maybe
          /\ displaced' \subseteq Clients
      BY <1>1, <2>1 DEF AccountTyped, Maybe, NoLogin, Logins
    <3>2. finishing' \in BOOLEAN /\ settled' \in BOOLEAN /\ missed' \in BOOLEAN /\ suppressed' \in {"no", "login", "removal"}
      BY <2>1
    <3> QED BY <1>1, <3>1, <3>2, ZenonT(40) DEF AccountTyped
  <2>3. OpenClients' /\ Apart' /\ Overlaps'
    BY <1>1, <2>1 DEF OpenClients, Apart, Overlaps, AccountTyped, Maybe, NoLogin
  <2>4. Emptied'
    BY <1>1, <1>2, <2>1 DEF SignedIn, Emptied, Stops
  <2> QED BY <1>1, <2>1, <2>2, <2>3, <2>4 DEF LockHeld, StaysOffline
<1>3. CASE ~SameLogin
  <2>1. UNCHANGED <<login, finishing, suppressed, user, watched, permanent, settled, displaced, missed>>
    BY <1>3 DEF SignedIn
  <2>2. AccountTyped'
    <3>1. signing' \in Maybe
      BY <1>1 DEF Maybe
    <3>2. UNCHANGED <<halt, configured, sessionFile, link, request, recovery, opening, removal, entering, bound, crossed>>
      BY <1>1
    <3> QED BY <2>1, <3>1, <3>2, SMTT(30) DEF AccountTyped
  <2> QED BY <1>1, <2>1, <2>2 DEF OpenClients, Apart, Overlaps, LockHeld, Emptied, Stops, StaysOffline
<1> QED BY <1>2, <1>3

\* Every open client has one holder, whatever the console, the watcher and the
\* recovery do in between.
LEMMA HeldStep ==
    ASSUME Held, AccountsNext
    PROVE  Held'
<1> USE AccountsAssumption DEF Held, AccountTyped, OpenClients, Apart, Overlaps, LockHeld, Emptied,
       Stops, Suppressed, Maybe, Recoveries, Logins, StaysOffline, history
<1>1. ASSUME NEW by \in {"request", "recovery"}, StillOnline(by) PROVE Held'
  BY <1>1, HeldStillOnline
<1>2. ASSUME NEW by \in {"request", "recovery"}, StartRefused(by) PROVE Held'
  BY <1>2, HeldStartRefused
<1>3. ASSUME NEW by \in {"request", "recovery"}, StartOpens(by) PROVE Held'
  BY <1>3, HeldStartOpens
<1>4. ASSUME NEW by \in {"request", "recovery"}, StartSucceeds(by) PROVE Held'
  BY <1>4, HeldStartSucceeds
<1>5. ASSUME NEW by \in {"request", "recovery"}, StartDenied(by) PROVE Held'
  BY <1>5, EndsWithout DEF StartDenied, Starts, CloseAll, logins
<1>6. ASSUME NEW by \in {"request", "recovery"}, StartFails(by) PROVE Held'
  BY <1>6 DEF StartFails, Starts, CloseAll, Rescheduled, logins
<1>7. ASSUME RequestRefreshes PROVE Held'
  BY <1>7 DEF RequestRefreshes, Connected, logins
<1>8. ASSUME WatcherWakes PROVE Held'
  BY <1>8 DEF WatcherWakes, Connected, Rescheduled, logins
<1>9. ASSUME RecoveryWakes PROVE Held'
  BY <1>9 DEF RecoveryWakes, NoRecovery, logins
<1>10. ASSUME RecoveryRefreshes PROVE Held'
  BY <1>10 DEF RecoveryRefreshes, Bindings, Connected, HasRecovered, NoRecovery, logins
<1>11. ASSUME Removed PROVE Held'
  BY <1>11 DEF Removed, LockFree, CloseAll, starts, logins
<1>12. ASSUME LoginSaved PROVE Held'
  BY <1>12, HeldLoginSaved
<1>13. ASSUME LoginUnsaved PROVE Held'
  BY <1>13, HeldLoginSaved
<1>14. ASSUME NEW c \in Clients, LinkEnds(c) PROVE Held'
  BY <1>14 DEF LinkEnds, starts, logins
<1>15. ASSUME NEW c \in Clients, LinkReturns(c) PROVE Held'
  BY <1>15 DEF LinkReturns, starts, logins
<1>16. ASSUME ConnectUser PROVE Held'
  BY <1>16, HeldConnectUser
<1>17. ASSUME NEW how \in {"offline", "delete"}, DisconnectUser(how) PROVE Held'
  BY <1>17 DEF DisconnectUser, CancelsRecovery, NoRecovery, HeldByRecovery, CloseAll, NoLogin
<1>18. ASSUME BeginLogin PROVE Held'
  BY <1>18 DEF BeginLogin, CancelsRecovery, NoRecovery, HeldByRecovery, CloseAll
<1>19. ASSUME LoginBegins PROVE Held'
  BY <1>19, HeldLoginBegins
<1>20. ASSUME CodeSent PROVE Held'
  BY <1>20 DEF CodeSent, NoLogin, CloseAll, starts
<1>21. ASSUME EndLogin PROVE Held'
  BY <1>21 DEF EndLogin, NoLogin, CloseAll, starts
<1>22. ASSUME SubmitCode PROVE Held'
  BY <1>22 DEF SubmitCode, starts
<1>23. ASSUME SignInFails PROVE Held'
  BY <1>23 DEF SignInFails, NoLogin, CloseAll, starts
<1>24. ASSUME SignedIn PROVE Held'
  BY <1>24, HeldSignedIn
<1>25. ASSUME StopRecovery PROVE Held'
  BY <1>25 DEF StopRecovery, CancelsRecovery, NoRecovery, HeldByRecovery, CloseAll, logins
<1>26. ASSUME StopClients PROVE Held'
  BY <1>26 DEF StopClients, CloseAll, NoLogin, starts
<1> QED BY <1>1, <1>2, <1>3, <1>4, <1>5, <1>6, <1>7, <1>8, <1>9, <1>10, <1>11, <1>12, <1>13, <1>14, <1>15, <1>16, <1>17, <1>18, <1>19, <1>20, <1>21, <1>22, <1>23, <1>24, <1>25, <1>26
           DEF AccountsNext, AccountWork

\* The account that a start has brought online is watched.
LEMMA CaredStartSucceeds ==
    ASSUME Held, Held', Cared, NEW by \in {"request", "recovery"}, StartSucceeds(by)
    PROVE  Cared'
<1> USE AccountsAssumption DEF Held, Cared, Permanent, NotForgotten, NotLost, ShouldRun, Refreshing
<1>1. /\ opening \in Clients /\ opening' = NoClient
      /\ UNCHANGED <<halt, suppressed, configured, sessionFile, removal, entering, login,
                     signing, finishing, bound, crossed>>
  BY DEF StartSucceeds, Starts, LockHeld, AccountTyped, Maybe, logins
<1>2. CASE StillWanted
  <2>1. user' = opening /\ watched' = opening /\ permanent' = NoClient
    BY <1>2 DEF StartSucceeds, TakesOver
  <2> QED BY <1>1, <2>1
<1>3. CASE ~StillWanted
  <2>1. ~ShouldRun'
    BY <1>1, <1>3 DEF StillWanted, Stops, Suppressed
  <2>2. Permanent'
    <3>1. link' = CloseAll({opening}) /\ UNCHANGED <<user, permanent>>
      BY <1>3 DEF StartSucceeds
    <3> QED BY <1>1, <3>1 DEF CloseAll, Apart, AccountTyped, Maybe
  <2> QED BY <2>1, <2>2
<1> QED BY <1>2, <1>3

\* No step forgets an account that is wanted.
LEMMA CaredStep ==
    ASSUME Held, Held', Cared, AccountsNext
    PROVE  Cared'
<1> USE AccountsAssumption DEF Held, AccountTyped, OpenClients, Apart, Overlaps, LockHeld, Emptied,
       Stops, Suppressed, Maybe, Recoveries, Logins, Cared, Permanent, NotForgotten, NotLost,
       ShouldRun, Refreshing, HasRecovered, history
<1>1. ASSUME NEW by \in {"request", "recovery"}, StillOnline(by) PROVE Cared'
  BY <1>1, EndsOnline DEF StillOnline, Starts, LockFree, logins, Connected, Online, Unwanted, NoRecovery
<1>2. ASSUME NEW by \in {"request", "recovery"}, StartRefused(by) PROVE Cared'
  BY <1>2, EndsWithout DEF StartRefused, Starts, LockFree, CloseAll, logins, Connected, Online, Unwanted, NoRecovery
<1>3. ASSUME NEW by \in {"request", "recovery"}, StartOpens(by) PROVE Cared'
  BY <1>3 DEF StartOpens, Starts, LockFree, Connected, New, CloseAll, logins, Connected, Online, Unwanted, NoRecovery
<1>4. ASSUME NEW by \in {"request", "recovery"}, StartSucceeds(by) PROVE Cared'
  BY <1>4, CaredStartSucceeds
<1>5. ASSUME NEW by \in {"request", "recovery"}, StartDenied(by) PROVE Cared'
  BY <1>5, EndsWithout DEF StartDenied, Starts, CloseAll, logins, Connected, Online, Unwanted, NoRecovery
<1>6. ASSUME NEW by \in {"request", "recovery"}, StartFails(by) PROVE Cared'
  BY <1>6 DEF StartFails, Starts, CloseAll, Rescheduled, logins, Connected, Online, Unwanted, NoRecovery
<1>7. ASSUME RequestRefreshes PROVE Cared'
  BY <1>7 DEF RequestRefreshes, Connected, logins, Connected, Online, Unwanted, NoRecovery
<1>8. ASSUME WatcherWakes PROVE Cared'
  BY <1>8 DEF WatcherWakes, Connected, Rescheduled, logins, Connected, Online, Unwanted, NoRecovery
<1>9. ASSUME RecoveryWakes PROVE Cared'
  BY <1>9 DEF RecoveryWakes, NoRecovery, logins, Connected, Online, Unwanted, NoRecovery
<1>10. ASSUME RecoveryRefreshes PROVE Cared'
  BY <1>10 DEF RecoveryRefreshes, Bindings, Connected, HasRecovered, NoRecovery, logins, Connected, Online, Unwanted, NoRecovery
<1>11. ASSUME Removed PROVE Cared'
  BY <1>11 DEF Removed, LockFree, CloseAll, starts, logins, Connected, Online, Unwanted, NoRecovery
<1>12. ASSUME LoginSaved PROVE Cared'
  BY <1>12 DEF LoginSaved, Bindings, Connected, starts, Connected, Online, Unwanted, NoRecovery
<1>13. ASSUME LoginUnsaved PROVE Cared'
  BY <1>13 DEF LoginUnsaved, starts, Connected, Online, Unwanted, NoRecovery
<1>14. ASSUME NEW c \in Clients, LinkEnds(c) PROVE Cared'
  BY <1>14 DEF LinkEnds, starts, logins, Connected, Online, Unwanted, NoRecovery
<1>15. ASSUME NEW c \in Clients, LinkReturns(c) PROVE Cared'
  BY <1>15 DEF LinkReturns, starts, logins, Connected, Online, Unwanted, NoRecovery
<1>16. ASSUME ConnectUser PROVE Cared'
  BY <1>16 DEF ConnectUser, CancelsRecovery, NoRecovery, HeldByRecovery, CloseAll, logins, Connected, Online, Unwanted, NoRecovery
<1>17. ASSUME NEW how \in {"offline", "delete"}, DisconnectUser(how) PROVE Cared'
  BY <1>17 DEF DisconnectUser, CancelsRecovery, NoRecovery, HeldByRecovery, CloseAll, NoLogin, Connected, Online, Unwanted, NoRecovery
<1>18. ASSUME BeginLogin PROVE Cared'
  BY <1>18 DEF BeginLogin, CancelsRecovery, NoRecovery, HeldByRecovery, CloseAll, Connected, Online, Unwanted, NoRecovery
<1>19. ASSUME LoginBegins PROVE Cared'
  BY <1>19 DEF LoginBegins, New, NoLogin, CloseAll, starts, Connected, Online, Unwanted, NoRecovery
<1>20. ASSUME CodeSent PROVE Cared'
  BY <1>20 DEF CodeSent, NoLogin, CloseAll, starts, Connected, Online, Unwanted, NoRecovery
<1>21. ASSUME EndLogin PROVE Cared'
  BY <1>21 DEF EndLogin, NoLogin, CloseAll, starts, Connected, Online, Unwanted, NoRecovery
<1>22. ASSUME SubmitCode PROVE Cared'
  BY <1>22 DEF SubmitCode, starts, Connected, Online, Unwanted, NoRecovery
<1>23. ASSUME SignInFails PROVE Cared'
  BY <1>23 DEF SignInFails, NoLogin, CloseAll, starts, Connected, Online, Unwanted, NoRecovery
<1>24. ASSUME SignedIn PROVE Cared'
  BY <1>24 DEF SignedIn, SameLogin, TakesOver, NoLogin, starts, Connected, Online, Unwanted, NoRecovery
<1>25. ASSUME StopRecovery PROVE Cared'
  BY <1>25 DEF StopRecovery, CancelsRecovery, NoRecovery, HeldByRecovery, CloseAll, logins, Connected, Online, Unwanted, NoRecovery
<1>26. ASSUME StopClients PROVE Cared'
  BY <1>26 DEF StopClients, CloseAll, NoLogin, starts, Connected, Online, Unwanted, NoRecovery
<1> QED BY <1>1, <1>2, <1>3, <1>4, <1>5, <1>6, <1>7, <1>8, <1>9, <1>10, <1>11, <1>12, <1>13, <1>14, <1>15, <1>16, <1>17, <1>18, <1>19, <1>20, <1>21, <1>22, <1>23, <1>24, <1>25, <1>26
           DEF AccountsNext, AccountWork

\* Every open client of the account is the account's, the start's or the login's
\* unless a start and a login overlapped, the account stays offline when the
\* administrator said so, and as long as it is wanted somebody starts, watches or
\* recovers it, or it is left to the administrator, except after the three events
\* that LookedAfter names: for any number of clients.
THEOREM AccountIsLookedAfter == AccountsSpec => []AccountIsKept
<1>1. AccountInv /\ [AccountsNext]_accountVars => AccountInv'
  <2>1. ASSUME AccountInv, UNCHANGED accountVars PROVE AccountInv'
    BY <2>1 DEF accountVars, starts, logins, history, AccountInv, Held, AccountTyped, OpenClients,
       Apart, Overlaps, LockHeld, Emptied, Stops, Suppressed, StaysOffline, Cared, Permanent,
       NotForgotten, NotLost, ShouldRun, Refreshing, HasRecovered, Connected
  <2> QED BY <2>1, HeldStep, CaredStep DEF AccountInv
<1>2. AccountInv => AccountIsKept
  <2> SUFFICES ASSUME AccountInv PROVE AccountIsKept
    OBVIOUS
  <2> USE AccountsAssumption DEF AccountInv, Held, AccountTyped
  <2>1. AccountsTypeOK
    BY DEF AccountsTypeOK, Recoveries, Logins
  <2>2. ClientsAreHeld
    <3>1. \A c \in Clients : c # NoClient
      OBVIOUS
    <3>2. \A c : c \in {d \in Clients : link[d] # "closed"} <=>
                 c \in ({user, opening, login.client} \ {NoClient}) \cup displaced
      BY <3>1 DEF OpenClients, Maybe, Logins
    <3>3. {d \in Clients : link[d] # "closed"} = ({user, opening, login.client} \ {NoClient}) \cup displaced
      BY <3>2
    <3> QED BY <3>3 DEF ClientsAreHeld, Emptied, Overlaps
  <2>3. LookedAfter
    BY DEF LookedAfter, Attended, Cared, NotForgotten, NotLost, Permanent, ShouldRun
  <2> QED BY <2>1, <2>2, <2>3 DEF AccountIsKept
<1> QED BY <1>1, <1>2, AccountBegins, PTL DEF AccountsSpec

-----------------------------------------------------------------------------
(***************************************************************************)
(* ApprovedAsSeen: an edit is taken only while the settings are those its  *)
(* preview showed, and a save that keeps a snapshot takes back what it     *)
(* could not write, so what runs is what is saved (SavesInv).              *)
(***************************************************************************)

SavesInv == SaveTypeOK /\ RunsWhatIsSaved

\* Where a request stands tells what kind of request it is.
LEMMA KindsOfSaves ==
    /\ \A e \in Edit : e \notin Form /\ e # NoSave /\ e.seen \in SettingsObject /\ e.shown \in Contents
    /\ \A f \in Form : f \notin Edit /\ f # NoSave
<1>1. \A e \in Edit : e.at \in {"proposed", "checked"} /\ e.seen \in SettingsObject /\ e.shown \in Contents
  BY DEF Edit
<1>2. \A f \in Form : f.at = "pip"
  BY DEF Form
<1>3. NoSave.at = "none"
  BY DEF NoSave
<1> QED BY <1>1, <1>2, <1>3

\* What is saved is in the file or is taken back.
LEMMA PersistKeeps ==
    ASSUME SavesInv, NEW after \in SettingsObject, Persist(after)
    PROVE  /\ settings' \in SettingsObject /\ disk' \in SettingsObject /\ unsaved' \in BOOLEAN
           /\ RunsWhatIsSaved' /\ settings' \in {settings, after}
BY DEF SavesInv, SaveTypeOK, RunsWhatIsSaved, Persist, Restored

\* Every request keeps the invariant, and an edit saves what its preview showed.
LEMMA SavesStep ==
    ASSUME SavesInv, SaveNext
    PROVE  SavesInv' /\ EditsWhatWasSeen
<1> USE DEF SavesInv, SaveTypeOK
<1> DEFINE States == {NoSave} \cup Form \cup Edit
<1>0. ASSUME NEW r \in Saves, NEW s \in States, save' = [save EXCEPT ![r] = s]
      PROVE  \A q \in Saves : save'[q] = NoSave \/ save'[q] \in Form \/ save'[q] \in Edit
  BY <1>0
<1>1. ASSUME NEW r \in Saves, NEW shown \in Contents, NEW token \in Contents \cup {Mask},
             NEW secret \in Contents \cup {Mask}, SubmitForm(r, shown, token, secret)
      PROVE  SavesInv' /\ EditsWhatWasSeen
  BY <1>1, <1>0 DEF SubmitForm, Form, Meant, SettingsObject, RunsWhatIsSaved, EditsWhatWasSeen
<1>2. ASSUME NEW r \in Saves, CommitForm(r) PROVE SavesInv' /\ EditsWhatWasSeen
  <2>1. save[r] \in Form /\ save' = [save EXCEPT ![r] = NoSave]
    BY <1>2 DEF CommitForm, Ends
  <2>2. Filled(save[r]) \in SettingsObject
    BY <2>1 DEF Filled, Meant, SettingsObject, Form
  <2>3. SavesInv'
    BY <1>2, <1>0, <2>1, <2>2, PersistKeeps DEF CommitForm
  <2>4. EditsWhatWasSeen
    BY <2>1, KindsOfSaves DEF EditsWhatWasSeen
  <2> QED BY <2>3, <2>4
<1>3. ASSUME NEW r \in Saves, NEW shown \in Contents, Propose(r, shown) PROVE SavesInv' /\ EditsWhatWasSeen
  BY <1>3, <1>0 DEF Propose, Edit, RunsWhatIsSaved, EditsWhatWasSeen
<1>4. ASSUME NEW r \in Saves, StartEdit(r) PROVE SavesInv' /\ EditsWhatWasSeen
  BY <1>4, <1>0 DEF StartEdit, Edit, RunsWhatIsSaved, EditsWhatWasSeen
<1>5. ASSUME NEW r \in Saves, CommitEdit(r) PROVE SavesInv' /\ EditsWhatWasSeen
  <2>1. save[r] \in Edit /\ save' = [save EXCEPT ![r] = NoSave] /\ authorized /\ settings = save[r].seen
    BY <1>5 DEF CommitEdit, Ends, MayCommit, StillValid
  <2>2. Edited(save[r]) \in SettingsObject /\ Edited(save[r]) = [save[r].seen EXCEPT !.shown = save[r].shown]
    BY <2>1, KindsOfSaves DEF Edited, SettingsObject
  <2>3. SavesInv' /\ settings' \in {settings, Edited(save[r])}
    BY <1>5, <1>0, <2>1, <2>2, PersistKeeps DEF CommitEdit
  <2>4. EditsWhatWasSeen
    BY <2>1, <2>2, <2>3, KindsOfSaves DEF EditsWhatWasSeen
  <2> QED BY <2>3, <2>4
<1>6. ASSUME NEW r \in Saves, GiveUpSave(r) PROVE SavesInv' /\ EditsWhatWasSeen
  BY <1>6, <1>0 DEF GiveUpSave, Ends, RunsWhatIsSaved, EditsWhatWasSeen
<1>7. ASSUME NEW c \in Contents, SaveAI(c) PROVE SavesInv' /\ EditsWhatWasSeen
  <2>1. [settings EXCEPT !.ai = c] \in SettingsObject
    BY DEF SettingsObject
  <2> QED BY <1>7, <2>1, PersistKeeps, KindsOfSaves DEF SaveAI, EditsWhatWasSeen
<1>8. ASSUME NEW c \in Contents, SaveInPlace(c) PROVE SavesInv' /\ EditsWhatWasSeen
  <2>1. settings' \in SettingsObject
    BY <1>8 DEF SaveInPlace, SettingsObject
  <2> QED BY <1>8, <2>1, KindsOfSaves DEF SaveInPlace, RunsWhatIsSaved, EditsWhatWasSeen
<1>9. CASE Authorize \/ Reload
  BY <1>9 DEF Authorize, Reload, RunsWhatIsSaved, EditsWhatWasSeen
<1> QED BY <1>1, <1>2, <1>3, <1>4, <1>5, <1>6, <1>7, <1>8, <1>9 DEF SaveNext

\* An approved edit changes what its preview showed, of the settings the preview
\* was made from, and the platform runs with the settings of the file, but for a
\* failed write of the forms that keep no snapshot.
THEOREM EditsAreAsApproved == SaveSpec => ApprovedAsSeen
<1>1. SaveInit => SavesInv
  BY DEF SaveInit, SavesInv, SaveTypeOK, RunsWhatIsSaved
<1>2. SavesInv /\ [SaveNext]_saveVars => SavesInv'
  BY SavesStep DEF saveVars, SavesInv, SaveTypeOK, RunsWhatIsSaved
<1>3. SavesInv /\ [SaveNext]_saveVars => [EditsWhatWasSeen /\ RunsWhatIsSaved' /\ SaveTypeOK']_saveVars
  BY SavesStep DEF SavesInv
<1> QED BY <1>1, <1>2, <1>3, PTL DEF SaveSpec, ApprovedAsSeen

-----------------------------------------------------------------------------
(***************************************************************************)
(* InstallIsAtomic for any crashes, cancellations and failures: until it     *)
(* commits, an installation has the old code in the backup and the old       *)
(* source on record, and from the commit both are the new ones (Underway).   *)
(* A transaction that no installation is at work on was left open, and says  *)
(* so, unless the plugin was replaced since (LeftOpen).                      *)
(***************************************************************************)

\* The installation is at work on a transaction of its own.
AtWork == op \in Installs /\ ~op.open /\ op.at \in {"copy", "load", "confirm", "commit", "undo"}
\* What an installation finds, moves and records at each of its steps.
Underway ==
    op \in Installs /\ ~op.open =>
        /\ op.at = "download" => plugin = op.old /\ ~pending
        /\ op.at = "restore" => plugin = op.old \/ pending
        /\ op.at \in {"copy", "load", "confirm", "commit", "undo"} =>
            pending /\ backup = op.old /\ owed = op.old
        /\ op.at \in {"load", "confirm", "commit"} => plugin = op.new
        /\ source = IF op.at = "commit" THEN op.new.repo ELSE op.was
        /\ op.was # NoRepo /\ op.old # Nothing /\ ~torn => op.old.repo = op.was
\* One that found a transaction open leaves it or, if it is the poll, undoes it.
FoundOpen ==
    op \in Installs /\ op.open =>
        /\ op.at \in {"download", "undo", "restore"}
        /\ op.at = "download" => pending
        /\ op.by = "poll" => torn
        /\ op.at = "undo" => op.by = "poll"
\* A transaction outside its installation was left open.
LeftOpen ==
    /\ pending /\ ~AtWork => torn \/ (source = NoRepo /\ (localOnly \/ plugin = Nothing))
    /\ pending => owed \in {Nothing, backup}
    /\ op.at = "down" => ~pending
\* Code of a known source was not uploaded by hand.
KnownSource == source # NoRepo => ~localOnly
MarketInv ==
    MarketTypeOK /\ Underway /\ FoundOpen /\ LeftOpen /\ KnownSource /\ SourceIsProven /\ OldIsKept

\* What the market publishes has a repository; an empty or uploaded plugin has none.
LEMMA CodesAreDistinct ==
    /\ Nothing \in Code /\ Uploaded \in Code /\ Nothing.repo = NoRepo /\ Uploaded.repo = NoRepo
    /\ \A c \in Published : c \in Code /\ c.repo \in Repos /\ c # Nothing
    /\ \A c \in Code : c.repo \in Repos \cup {NoRepo}
BY MarketAssumption DEF Nothing, Uploaded, Published, Code

\* An installation is told from the other operations by its step.
LEMMA InstallsAreDistinct ==
    /\ \A i \in Installs : i # Free /\ i.at \notin {"free", "down", "delete"}
    /\ Free.at = "free" /\ Free \notin Installs /\ [at |-> "down"] \notin Installs /\ [at |-> "delete"] \notin Installs
<1>1. \A i \in Installs : i.at \in {"download", "copy", "load", "confirm", "commit", "undo", "restore"}
  BY DEF Installs
<1>2. Free.at = "free" /\ [at |-> "down"].at = "down" /\ [at |-> "delete"].at = "delete"
  BY DEF Free
<1> QED BY <1>1, <1>2

\* The market begins in the invariant.
LEMMA MarketBegins == MarketInit => MarketInv
<1> SUFFICES ASSUME MarketInit PROVE MarketInv
  OBVIOUS
<1>1. plugin \in Code /\ running \in Code /\ backup \in Code /\ 0 \in 0..MaxChanges
  BY CodesAreDistinct, MarketAssumption DEF MarketInit
<1>2. MarketTypeOK
  BY <1>1 DEF MarketInit, MarketTypeOK
<1>3. Underway /\ FoundOpen /\ LeftOpen
  BY InstallsAreDistinct DEF MarketInit, Underway, FoundOpen, LeftOpen
<1> QED BY <1>2, <1>3 DEF MarketInit, MarketInv, KnownSource, SourceIsProven, OldIsKept

\* A source is recorded with a new number.
LEMMA SourceSet ==
    ASSUME MarketTypeOK, NEW repo \in Repos \cup {NoRepo}, NEW byHand \in BOOLEAN, SetSource(repo, byHand)
    PROVE  source' = repo /\ localOnly' = byHand /\ changes' \in 0..MaxChanges
BY MarketAssumption DEF MarketTypeOK, SetSource

\* A rollback brings the old code back, or leaves the transaction open and says so.
LEMMA RolledBack ==
    ASSUME MarketInv, RollBack
    PROVE  /\ plugin' \in {plugin, backup, Nothing} /\ backup' \in {backup, Nothing}
           /\ pending' \in BOOLEAN /\ torn' \in BOOLEAN /\ owed' \in {owed, Nothing}
           /\ torn => torn'
           /\ pending' => torn' /\ pending /\ backup' = backup /\ owed' = owed
           /\ pending /\ ~pending' => plugin' = backup /\ owed' = Nothing
           /\ ~pending => UNCHANGED <<files, past>>
<1> USE DEF MarketInv, MarketTypeOK, LeftOpen
<1>1. CASE ~pending /\ UNCHANGED <<files, past>>
  BY <1>1 DEF files, past
<1>2. CASE pending /\ pending' = FALSE /\ plugin' = backup /\ backup' = Nothing /\ owed' = Nothing /\ UNCHANGED torn
  BY <1>2
<1>3. CASE pending /\ plugin' \in {plugin, Nothing} /\ torn' = TRUE /\ UNCHANGED <<backup, pending, owed>>
  BY <1>3
<1> QED BY <1>1, <1>2, <1>3 DEF RollBack

\* Each operation keeps the invariant, and an installation ends whole.
LEMMA MarketStep ==
    ASSUME MarketInv, MarketNext
    PROVE  MarketInv' /\ EndsWhole
<1> USE MarketAssumption, CodesAreDistinct, InstallsAreDistinct
    DEF MarketInv, MarketTypeOK, Underway, FoundOpen, AtWork, LeftOpen, KnownSource, SourceIsProven,
        OldIsKept, EndsWhole
<1> DEFINE Goal == MarketInv' /\ EndsWhole
           Steps == {"download", "copy", "load", "confirm", "commit", "undo", "restore"}
<1>0. ASSUME op.at \in Steps, NEW step \in Steps, Goto(step)
      PROVE  op \in Installs /\ op' \in Installs /\ op'.at = step /\ op'.by = op.by /\ op'.new = op.new
             /\ op'.old = op.old /\ op'.was = op.was /\ op'.loaded = op.loaded /\ op'.open = op.open
  BY <1>0 DEF Goto, Installs
<1>t. op.at \in Steps => op \in Installs
  OBVIOUS
<1>i. op \in Installs => /\ op.at \in Steps /\ op.by \in {"console", "poll"} /\ op.new \in Published
                         /\ op.old \in Code /\ op.was \in Repos \cup {NoRepo}
                         /\ op.loaded \in BOOLEAN /\ op.open \in BOOLEAN
  BY DEF Installs
<1>1. ASSUME NEW by \in {"console", "poll"}, NEW new \in Published, BeginInstall(by, new) PROVE Goal
  <2>1. /\ op' \in Installs /\ op'.at = "download" /\ op'.by = by /\ op'.old = plugin /\ op'.was = source
        /\ op'.new = new /\ op'.open = pending
    BY <1>1 DEF BeginInstall, Installs
  <2> QED BY <1>1, <2>1 DEF BeginInstall, files, sources, past
<1>2. CASE DownloadFails
  BY <1>2, <1>0, <1>i DEF DownloadFails, sources
<1>3. CASE StillOpen
  BY <1>3, <1>0, <1>i DEF StillOpen, files, sources, past
<1>4. CASE MoveAway
  BY <1>4, <1>0, <1>i DEF MoveAway, sources
<1>5. CASE CopyIn
  <2>1. CASE plugin' = op.new /\ Goto("load")
    BY <1>5, <2>1, <1>0, <1>i DEF CopyIn, sources, past
  <2>2. CASE plugin' = plugin /\ Goto("undo")
    BY <1>5, <2>2, <1>0, <1>i DEF CopyIn, sources, past
  <2> QED BY <1>5, <2>1, <2>2 DEF CopyIn
<1>6. CASE LoadNew
  BY <1>6, <1>0, <1>i DEF LoadNew, files, sources, past
<1>7. CASE Confirm
  <2>1. CASE Goto("commit")
    <3>1. /\ op.at = "confirm" /\ op.new.repo \in Repos
          /\ UNCHANGED <<files, running, proof, past>>
      BY <1>7, <1>i, <1>t DEF Confirm
    <3>2. source' = op.new.repo /\ localOnly' = FALSE /\ changes' \in 0..MaxChanges
      <4>1. CASE source = op.new.repo /\ UNCHANGED sources
        BY <4>1, <3>1 DEF sources
      <4>2. CASE SetSource(op.new.repo, FALSE)
        BY <4>2, <3>1, SourceSet
      <4> QED BY <1>7, <2>1, <4>1, <4>2, InstallsAreDistinct, <1>0 DEF Confirm, Goto
    <3>3. /\ op \in Installs /\ op' \in Installs /\ op'.at = "commit" /\ op'.new = op.new /\ op'.old = op.old
          /\ op'.was = op.was /\ op'.open = op.open
      BY <2>1, <3>1, <1>0
    <3>4. MarketTypeOK'
      BY <3>1, <3>2, <3>3, <1>i DEF files, past
    <3>5. Underway' /\ FoundOpen' /\ LeftOpen' /\ EndsWhole
      BY <3>1, <3>2, <3>3, <1>i DEF files, past
    <3>6. KnownSource' /\ SourceIsProven' /\ OldIsKept'
      BY <3>1, <3>2, <3>3, <1>i DEF files, past
    <3> QED BY <3>4, <3>5, <3>6
  <2>2. CASE Goto("undo") /\ UNCHANGED sources
    BY <1>7, <2>2, <1>0, <1>i DEF Confirm, files, sources, past
  <2> QED BY <1>7, <2>1, <2>2 DEF Confirm
<1>8. CASE CommitInstall
  BY <1>8, <1>t, <1>i DEF CommitInstall, sources
<1>9. CASE Undo
  <2>1. op \in Installs /\ op.at = "undo" /\ UNCHANGED <<sources, proof>> /\ running' = Nothing
    BY <1>9, <1>t DEF Undo
  <2>2. CASE Goto("restore")
    <3>1. /\ op' \in Installs /\ op'.at = "restore" /\ op'.by = op.by /\ op'.new = op.new /\ op'.old = op.old
          /\ op'.was = op.was /\ op'.open = op.open /\ op' # Free
      BY <2>1, <2>2, <1>0, <1>i
    <3>2. RollBack /\ UNCHANGED <<source, localOnly, changes>>
      BY <2>1, <1>9 DEF Undo, sources
    <3>3. MarketTypeOK'
      BY <2>1, <3>1, <3>2, <1>i, RolledBack
    <3>4. Underway' /\ FoundOpen' /\ EndsWhole
      BY <2>1, <3>1, <3>2, <1>i, RolledBack
    <3>5. LeftOpen' /\ KnownSource' /\ OldIsKept'
      BY <2>1, <3>1, <3>2, <1>i, RolledBack DEF files, past
    <3>6. SourceIsProven'
      BY <2>1, <3>1, <3>2, <1>i, RolledBack DEF files, past
    <3> QED BY <3>3, <3>4, <3>5, <3>6
  <2>3. CASE op.by = "console" /\ op' = Free
    BY <2>1, <2>3, <1>9, <1>i, RolledBack DEF Undo, sources
  <2> QED BY <1>9, <2>2, <2>3 DEF Undo
<1>10. CASE Restore
  BY <1>10, <1>t, <1>i DEF Restore, files, sources, past
<1>11. CASE LeaveInstall
  <2>1. op \in Installs /\ op' = Free /\ UNCHANGED <<running, sources, proof>> /\ op.at \in {"download", "load", "undo"}
    BY <1>11, <1>t DEF LeaveInstall
  <2>2. CASE op.by = "poll" /\ op.at # "undo"
    BY <2>1, <2>2, <1>11, <1>i, RolledBack DEF LeaveInstall, sources, files, past
  <2>3. CASE ~(op.by = "poll" /\ op.at # "undo")
    <3>1. torn' = (torn \/ op.at # "download") /\ UNCHANGED <<plugin, backup, pending, owed, source, localOnly, changes>>
      BY <1>11, <2>3 DEF LeaveInstall, files, sources
    <3> QED BY <2>1, <2>3, <3>1, <1>i
  <2> QED BY <2>2, <2>3
<1>12. CASE Upload
  <2>1. CASE plugin' = Uploaded /\ SetSource(NoRepo, TRUE) /\ torn' = FALSE /\ owed' = Nothing
    <3>1. source' = NoRepo /\ localOnly' = TRUE /\ changes' \in 0..MaxChanges
      BY <2>1, SourceSet
    <3> QED BY <1>12, <2>1, <3>1 DEF Upload
  <2>2. CASE plugin' = Nothing /\ owed' = Nothing /\ UNCHANGED <<sources, torn>>
    BY <1>12, <2>2 DEF Upload, sources
  <2> QED BY <1>12, <2>1, <2>2 DEF Upload
<1>13. CASE BeginDelete
  BY <1>13 DEF BeginDelete, files, sources, past
<1>14. CASE Delete
  <2>1. CASE UNCHANGED <<plugin, running, sources, past>>
    BY <1>14, <2>1 DEF Delete, sources, past
  <2>2. CASE plugin' = Nothing /\ owed' = Nothing /\ UNCHANGED <<running, sources, torn>>
    BY <1>14, <2>2 DEF Delete, sources
  <2>3. CASE plugin' = Nothing /\ owed' = Nothing /\ SetSource(NoRepo, FALSE) /\ torn' = FALSE /\ UNCHANGED running
    <3>1. source' = NoRepo /\ localOnly' = FALSE /\ changes' \in 0..MaxChanges
      BY <2>3, SourceSet
    <3> QED BY <1>14, <2>3, <3>1 DEF Delete
  <2> QED BY <1>14, <2>1, <2>2, <2>3 DEF Delete
<1>15. CASE Switch
  BY <1>15 DEF Switch, files, sources, past
<1>16. CASE ReadPlugin
  BY <1>16 DEF ReadPlugin, files, sources, past
<1>17. CASE NotProven
  BY <1>17 DEF NotProven, files, sources, past
<1>18. ASSUME NEW r \in Repos, Bind(r) PROVE Goal
  <2>1. source' = r /\ localOnly' = FALSE /\ changes' \in 0..MaxChanges
    BY <1>18, SourceSet DEF Bind
  <2> QED BY <1>18, <2>1 DEF Bind, StillProven, files, past
<1>19. CASE ProcessDies
  <2>1. op'.at = "down" /\ op' # Free /\ op' \notin Installs /\ op' = [at |-> "down"]
    BY <1>19 DEF ProcessDies, Down
  <2>2. SourceIsProven'
    BY <1>19 DEF ProcessDies, Down, sources
  <2> QED BY <1>19, <2>1, <2>2 DEF ProcessDies, Down, sources
<1>20. CASE UploadDies
  BY <1>20 DEF UploadDies, Down, sources
<1>21. CASE DeleteDies
  BY <1>21 DEF DeleteDies, Down, sources
<1>22. CASE MarketStarts
  BY <1>22 DEF MarketStarts, files, sources, past
<1> QED BY <1>1, <1>2, <1>3, <1>4, <1>5, <1>6, <1>7, <1>8, <1>9, <1>10, <1>11, <1>12, <1>13,
           <1>14, <1>15, <1>16, <1>17, <1>18, <1>19, <1>20, <1>21, <1>22 DEF MarketNext

\* For any repositories, versions, crashes, cancellations and failed rollbacks an
\* installation ends with the new code and its source or with the old code and its
\* source, or leaves its transaction open; a plugin has a source only if its code
\* came from there, and the old code is kept as long as it is owed.
THEOREM InstallsEndWhole == MarketSpec => InstallIsAtomic
<1>1. MarketInv /\ UNCHANGED marketVars => MarketInv'
  BY DEF marketVars, files, sources, past, MarketInv, MarketTypeOK, Underway, FoundOpen, AtWork,
         LeftOpen, KnownSource, SourceIsProven, OldIsKept
<1>2. MarketInv /\ [MarketNext]_marketVars => MarketInv'
  BY <1>1, MarketStep
<1>3. MarketInv /\ [MarketNext]_marketVars =>
          [EndsWhole /\ SourceIsProven' /\ OldIsKept' /\ MarketTypeOK']_marketVars
  BY <1>2, MarketStep DEF MarketInv
<1> QED BY <1>2, <1>3, MarketBegins, PTL DEF MarketSpec, InstallIsAtomic

-----------------------------------------------------------------------------
(***************************************************************************)
(* InstallsAreHonest: a record of a version is never later than the files, *)
(* because pip records what it moves (Dated) and moves a package once      *)
(* (OnlyMoved); the clean-up after it leaves the record of the files       *)
(* alone.                                                                  *)
(***************************************************************************)

\* When a version was recorded; 0 if it is not.
Times == [Packages -> [Versions -> 0..MaxInstalls]]
PipJobs == [at: {"pip"}, req: Requirement, before: Times, root: SUBSET Versions, kept: Versions \cup {0}]
\* The types of the state and of the pip that runs.
DepsTyped ==
    /\ global \in [Packages -> Versions \cup {0}] /\ code \in [Packages -> Versions \cup {0}]
    /\ info \in Times /\ clock \in 0..MaxInstalls
    /\ job = NoJob \/ job \in PipJobs
\* No record is later than the clock, and that of the files is the latest.
Dated ==
    \A p \in Packages :
        /\ \A v \in Versions : info[p][v] <= clock
        /\ Recorded(p) # {} => code[p] \in Newest(p)
\* What pip has moved so far are the files that lie there now.
OnlyMoved == job.at = "pip" =>
    /\ \A p \in Packages, v \in Versions : info[p][v] # job.before[p][v] => v = code[p]
    /\ job.req.extra /\ ~job.req.upgrade /\ job.kept \in job.req.range => job.root = {job.kept}
DepsInv == DepsTyped /\ Dated /\ OnlyMoved

\* The types of a requirement.
LEMMA RangesAreVersions == \A r \in Requirement : r.pkg \in Packages /\ r.range \in SUBSET Versions /\ r.extra \in BOOLEAN
BY DEF Requirement

\* A pip that runs is told from none.
LEMMA JobsAreDistinct == NoJob.at = "none" /\ \A j \in PipJobs : j.at = "pip" /\ j # NoJob
<1>1. NoJob.at = "none"
  BY DEF NoJob
<1>2. \A j \in PipJobs : j.at = "pip"
  BY DEF PipJobs
<1> QED BY <1>1, <1>2

\* The version that is reported is one that is recorded.
LEMMA SeenIsAVersion ==
    ASSUME DepsTyped, NEW p \in Packages, NEW t \in BOOLEAN
    PROVE  Target(p) \in Versions \cup {0} /\ Sees(p, t) \in Versions \cup {0}
<1>1. ASSUME Cardinality(Newest(p)) = 1 PROVE Newest(p) # {}
  BY <1>1, FS_EmptySet
<1>2. Newest(p) \subseteq Versions
  BY DEF Newest, Recorded
<1>3. Target(p) \in Versions \cup {0}
  BY <1>1, <1>2 DEF Target
<1> QED BY <1>3 DEF Sees, DepsTyped

\* A single latest record is that of the files.
LEMMA DatedIsTrue == ASSUME DepsInv PROVE VersionIsTrue
<1> SUFFICES ASSUME NEW p \in Packages, Recorded(p) # {}, Cardinality(Newest(p)) = 1 PROVE Target(p) = code[p]
  BY DEF VersionIsTrue, Target
<1>1. IsFiniteSet(Newest(p))
  BY DepsAssumption, FS_Subset DEF Newest, Recorded
<1>2. PICK v : Newest(p) = {v}
  BY <1>1, FS_Singleton
<1>3. code[p] \in Newest(p)
  BY DEF DepsInv, Dated
<1> QED BY <1>2, <1>3 DEF Target

\* The records of a package that is left alone are the same.
LEMMA SameRecords ==
    ASSUME NEW p \in Packages, \A w \in Versions : info'[p][w] = info[p][w]
    PROVE  Recorded(p)' = Recorded(p) /\ Newest(p)' = Newest(p)
<1>1. Recorded(p)' = Recorded(p)
  BY DEF Recorded
<1>2. \A v \in Recorded(p) : v \in Versions
  BY DEF Recorded
<1> QED BY <1>1, <1>2 DEF Newest

\* Each step of an installation keeps the invariant, and an extra leaves its root package alone.
LEMMA DepsStep ==
    ASSUME DepsInv, DepsNext
    PROVE  DepsInv' /\ RootIsKept
<1> USE DepsAssumption, JobsAreDistinct, RangesAreVersions DEF DepsInv, DepsTyped, Dated,
       OnlyMoved, RootIsKept
<1> DEFINE Goal == DepsInv' /\ RootIsKept
<1>1. ASSUME NEW r \in Requirement, Install(r) PROVE Goal
  <2>1. Sees(r.pkg, r.target) \in Versions \cup {0}
    <3>1. r.target \in BOOLEAN
      BY DEF Requirement
    <3> QED BY <3>1, SeenIsAVersion
  <2>2. Pinned(r) \in SUBSET Versions
    BY DEF Pinned
  <2>3. job' \in PipJobs
    BY <1>1, <2>1, <2>2 DEF Install, PipJobs
  <2>4. job'.before = info /\ job'.req = r /\ job'.root = Pinned(r) /\ job'.kept = Sees(r.pkg, r.target)
    BY <1>1 DEF Install
  <2>5. UNCHANGED <<global, code, info, clock>> /\ job = NoJob
    BY <1>1 DEF Install
  <2>a. \A p \in Packages : Recorded(p)' = Recorded(p) /\ Newest(p)' = Newest(p)
    BY <2>5 DEF Recorded, Newest
  <2>6. Dated'
    BY <2>5, <2>a
  <2>7. OnlyMoved'
    BY <2>4, <2>5 DEF Pinned
  <2> QED BY <2>3, <2>5, <2>6, <2>7
<1>2. CASE Moves
  <2>p. PICK p \in Moved :
            /\ info[p] = job.before[p]
            /\ \E v \in Offered(p) : code' = [code EXCEPT ![p] = v] /\ info' = [info EXCEPT ![p][v] = clock']
    BY <1>2 DEF Moves
  <2>v. PICK v \in Offered(p) : code' = [code EXCEPT ![p] = v] /\ info' = [info EXCEPT ![p][v] = clock']
    BY <2>p
  <2>1. /\ info[p] = job.before[p] /\ code' = [code EXCEPT ![p] = v] /\ info' = [info EXCEPT ![p][v] = clock']
        /\ p \in Moved /\ v \in Offered(p)
    BY <2>p, <2>v
  <2>2. job \in PipJobs /\ clock' = clock + 1 /\ clock' \in 1..MaxInstalls /\ UNCHANGED <<global, job>>
    BY <1>2 DEF Moves
  <2>3. p \in Packages /\ v \in Versions
    <3>1. job.req \in Requirement /\ job.root \in SUBSET Versions
      BY <2>2 DEF PipJobs
    <3> QED BY <3>1 DEF Moved, Offered
  <2>4. DepsTyped'
    BY <2>1, <2>2, <2>3 DEF Times
  <2>5. \A q \in Packages, w \in Versions : info'[q][w] = IF q = p /\ w = v THEN clock + 1 ELSE info[q][w]
    BY <2>1, <2>2, <2>3 DEF Times
  <2>6. \A q \in Packages : code'[q] = IF q = p THEN v ELSE code[q]
    BY <2>1, <2>3
  <2>7. ASSUME NEW q \in Packages
        PROVE  (\A w \in Versions : info'[q][w] <= clock') /\ (Recorded(q)' # {} => code'[q] \in Newest(q)')
    <3>a. info[q] \in [Versions -> 0..MaxInstalls] /\ clock \in Nat
      BY DEF Times
    <3>b. \A w \in Versions : info[q][w] <= clock
      OBVIOUS
    <3>0. \A w \in Versions : info[q][w] \in 0..MaxInstalls /\ info[q][w] <= clock /\ clock \in Nat
      BY <3>a, <3>b
    <3>1. \A w \in Versions : info'[q][w] <= clock'
      <4>1. clock' = clock + 1
        BY <2>2, Zenon
      <4>2. ASSUME NEW w \in Versions PROVE info'[q][w] <= clock'
        <5>1. info'[q][w] = clock + 1 \/ info'[q][w] = info[q][w]
          BY <2>5, Zenon
        <5>2. info[q][w] <= clock /\ info[q][w] \in Int /\ clock \in Nat
          BY <3>0
        <5> HIDE DEF DepsTyped
        <5> QED BY <4>1, <5>1, <5>2
      <4> QED BY <4>2, Zenon
    <3>2. CASE q = p
      <4>1. info'[q][v] = clock + 1 /\ v \in Recorded(q)'
        <5>1. info'[q][v] = clock + 1
          BY <2>3, <2>5, <3>2, Zenon
        <5>2. info'[q][v] # 0
          BY <5>1, <3>a
        <5> QED BY <5>1, <5>2, <2>3, Zenon DEF Recorded
      <4>2. v \in Newest(q)'
        BY <4>1, <3>1, <2>2 DEF Newest, Recorded
      <4> QED BY <3>1, <3>2, <4>2, <2>6
    <3>3. CASE q # p
      <4>0. \A w \in Versions : info'[q][w] = info[q][w]
        BY <2>5, <3>3
      <4>1. Recorded(q)' = Recorded(q) /\ Newest(q)' = Newest(q)
        BY <4>0, SameRecords
      <4> QED BY <3>1, <3>3, <4>1, <2>6
    <3> QED BY <3>2, <3>3
  <2>8. OnlyMoved'
    BY <2>1, <2>2, <2>3, <2>5, <2>6 DEF PipJobs, Times
  <2>9. RootIsKept
    BY <2>1, <2>2, <2>6 DEF Offered
  <2> QED BY <2>4, <2>7, <2>8, <2>9
<1>3. CASE Installed
  <2>1. PICK stuck \in SUBSET Packages : info' = [p \in Packages |-> IF p \in stuck THEN info[p] ELSE Cleaned(p)]
    BY <1>3 DEF Installed
  <2>2. job \in PipJobs /\ job' = NoJob /\ UNCHANGED <<global, code, clock>>
    BY <1>3 DEF Installed
  <2>3. ASSUME NEW p \in Packages
        PROVE  /\ info'[p] \in [Versions -> 0..MaxInstalls]
               /\ \A v \in Versions : info'[p][v] <= clock
               /\ Recorded(p)' # {} => code[p] \in Newest(p)'
    <3>0. info[p] \in [Versions -> 0..MaxInstalls] /\ clock \in Nat
      BY DEF Times
    <3>1. CASE info'[p] = info[p]
      <4>1. Recorded(p)' = Recorded(p) /\ Newest(p)' = Newest(p)
        BY <3>1 DEF Recorded, Newest
      <4> QED BY <3>0, <3>1, <4>1
    <3>2. CASE info'[p] = [v \in Versions |-> IF v \in Changed(p) THEN info[p][v] ELSE 0]
      <4>1. \A v \in Changed(p) : v = code[p] /\ info[p][v] # 0 /\ v \in Versions
        BY <2>2 DEF Changed, Recorded
      <4>2. Recorded(p)' = Changed(p)
        BY <3>2, <4>1, <3>0 DEF Recorded
      <4>3. \A v \in Recorded(p)' : v = code[p]
        BY <4>1, <4>2
      <4>4. Recorded(p)' # {} => code[p] \in Newest(p)'
        <5>1. Newest(p)' = {v \in Recorded(p)' : \A w \in Recorded(p)' : info'[p][w] <= info'[p][v]}
          BY DEF Newest
        <5>2. \A w \in Recorded(p)' : info'[p][w] <= info'[p][code[p]]
          <6> SUFFICES ASSUME NEW w \in Recorded(p)' PROVE info'[p][w] <= info'[p][code[p]]
            OBVIOUS
          <6>1. w = code[p] /\ w \in Versions /\ w \in Changed(p)
            BY <4>1, <4>2
          <6>2. info'[p][w] = info[p][w] /\ info[p][w] \in Nat
            BY <6>1, <3>0, <3>2
          <6> QED BY <6>1, <6>2
        <5> QED BY <4>3, <5>1, <5>2
      <4> QED BY <3>0, <3>2, <4>4
    <3> QED BY <2>1, <3>1, <3>2 DEF Cleaned
  <2>4. info' \in Times
    BY <2>1, <2>3 DEF Times
  <2> QED BY <2>2, <2>3, <2>4
<1>4. CASE StopsInstalling
  BY <1>4 DEF StopsInstalling, Recorded, Newest
<1>5. CASE CopyData
  <2>1. clock' = 1 /\ 1 \in 0..MaxInstalls /\ job' = NoJob /\ UNCHANGED <<global, code, job>>
    BY <1>5 DEF CopyData
  <2>2. \A p \in Packages, v \in Versions : info'[p][v] = IF info[p][v] = 0 THEN 0 ELSE 1
    BY <1>5 DEF CopyData
  <2>3. info' \in Times
    BY <1>5, <2>1 DEF CopyData, Times
  <2>4. ASSUME NEW p \in Packages PROVE Recorded(p)' = Recorded(p) /\ Newest(p)' = Recorded(p)
    <3>0. \A v \in Versions : (info'[p][v] # 0 <=> info[p][v] # 0) /\ (info[p][v] # 0 => info'[p][v] = 1)
      BY <2>2
    <3>1. Recorded(p)' = Recorded(p) /\ \A v \in Recorded(p) : info'[p][v] = 1
      BY <3>0 DEF Recorded
    <3>2. Newest(p)' = {v \in Recorded(p)' : \A w \in Recorded(p)' : info'[p][w] <= info'[p][v]}
      BY DEF Newest
    <3> QED BY <3>1, <3>2
  <2>5. \A p \in Packages : Newest(p) \subseteq Recorded(p)
    BY DEF Newest
  <2> QED BY <2>1, <2>2, <2>3, <2>4, <2>5
<1> QED BY <1>1, <1>2, <1>3, <1>4, <1>5 DEF DepsNext

\* For any packages, versions and installations the version the manager reports is
\* that of the files, and filling in an extra leaves the root package alone.
THEOREM ReportsMatchFiles == DepsSpec => InstallsAreHonest
<1>1. DepsInit => DepsInv
  BY DepsAssumption, JobsAreDistinct DEF DepsInit, DepsInv, DepsTyped, Dated, OnlyMoved, Times,
     Recorded
<1>2. DepsInv /\ UNCHANGED depsVars => DepsInv'
  BY DEF depsVars, DepsInv, DepsTyped, Dated, OnlyMoved, Recorded, Newest
<1>3. DepsInv /\ [DepsNext]_depsVars => DepsInv'
  BY <1>2, DepsStep
<1>4. DepsInv => VersionIsTrue /\ DepsTypeOK
  BY DatedIsTrue DEF DepsInv, DepsTyped, DepsTypeOK, Times, PipJobs
<1>5. DepsInv' => VersionIsTrue' /\ DepsTypeOK'
  BY <1>4, PTL
<1>6. DepsInv /\ [DepsNext]_depsVars => [VersionIsTrue' /\ RootIsKept /\ DepsTypeOK']_depsVars
  BY <1>3, <1>5, DepsStep
<1> QED BY <1>1, <1>3, <1>6, PTL DEF DepsSpec, InstallsAreHonest

-----------------------------------------------------------------------------
(***************************************************************************)
(* RequestIsOne for any requests, budget and changes of the limits, with   *)
(* models of any protocols behind one provider. A request that mistook     *)
(* nothing does not run out of protocols before it has tried the one its   *)
(* model speaks (StillToFind), unless the protocol of the other model was  *)
(* remembered (LearnedIsSpoken). A request goes on after part of an answer *)
(* was heard only because of a mistake (GoesOnMistaken). The counters are  *)
(* those of the requests (CountedOnce), by a step of its own.              *)
(***************************************************************************)

\* The types of the requests and of the counters, which are only integers here.
AITyped ==
    /\ speaks \in [Models -> Protocols \cup {"nothing"}] /\ learned \in Protocols \cup {"unknown"}
    /\ streamed \subseteq Requests /\ stage \in [Requests -> Stages] /\ model \in [Requests -> Models]
    /\ untried \in [Requests -> Seq(Protocols)] /\ \A r \in Requests : Len(untried[r]) <= 3
    /\ used \in [Requests -> 0..Budget] /\ heard \subseteq streamed /\ mistaken \subseteq Requests
    /\ reason \in [Requests -> Reasons]
    /\ pool \in [Requests -> Nat] /\ limits \in Seq(Nat) /\ \A r \in Requests : pool[r] \in 1..Len(limits)
    /\ limitChanges \in 0..Changes /\ usage \in [Counters -> Int]
\* What was learned is what some model of the provider speaks.
LearnedIsSpoken == learned # "unknown" => \E m \in Models : speaks[m] = learned
\* The other model of the provider speaks another protocol than this one.
OthersSpeakOtherwise(sp, m) == \E n \in Models : sp[n] \in Protocols \ {sp[m]}
\* The protocol of the model is among these, if there is one to be found.
Found(sp, ps, m) ==
    sp[m] = "nothing" \/ OthersSpeakOtherwise(sp, m) \/ \E i \in DOMAIN ps : ps[i] = sp[m]
UnderWayStages == {"ready", "waiting", "sent", "failed"}
\* A request that mistook nothing has not yet passed by the protocol of its model.
StillToFind ==
    \A r \in Requests :
        /\ stage[r] \in UnderWayStages => untried[r] # <<>>
        /\ stage[r] \in UnderWayStages /\ r \notin mistaken => Found(speaks, untried[r], model[r])
        /\ stage[r] = "failed" /\ reason[r] = "mismatch" /\ r \notin mistaken
              => speaks[model[r]] # Head(untried[r])
\* A request that goes on after part of an answer was heard mistook that answer.
GoesOnMistaken ==
    \A r \in heard :
        /\ stage[r] \in UnderWayStages
        /\ r \notin mistaken => stage[r] = "failed" /\ reason[r] # "mismatch"
RequestsInv == AITyped /\ LearnedIsSpoken /\ StillToFind /\ GoesOnMistaken

\* The service begins in the invariant.
LEMMA AIBegins == ASSUME AIInit PROVE RequestsInv
BY RequestsAssumption DEF AIInit, RequestsInv, AITyped, LearnedIsSpoken, StillToFind, GoesOnMistaken,
   UnderWayStages, Models, Protocols, Stages, Reasons, Counters

\* The protocol of a model, if there is one to be found, is a candidate.
LEMMA CandidatesSuffice ==
    ASSUME RequestsInv, NEW m \in Models
    PROVE  /\ Candidates \in Seq(Protocols) /\ Candidates # <<>> /\ Len(Candidates) <= 3
           /\ Found(speaks, Candidates, m)
<1>1. CASE learned = "unknown"
  <2>1. Candidates = <<"chat", "responses", "messages">>
    BY <1>1 DEF Candidates, Order
  <2>2. speaks[m] # "nothing" => speaks[m] \in {"chat", "responses", "messages"}
    BY DEF RequestsInv, AITyped, Protocols
  <2> QED BY <2>1, <2>2 DEF Protocols, Found
<1>2. CASE learned # "unknown"
  <2>1. Candidates = <<learned>> /\ learned \in Protocols
    BY <1>2 DEF Candidates, RequestsInv, AITyped
  <2>2. speaks[m] = learned \/ OthersSpeakOtherwise(speaks, m)
    BY <1>2, <2>1 DEF RequestsInv, LearnedIsSpoken, OthersSpeakOtherwise
  <2> QED BY <2>1, <2>2 DEF Found
<1> QED BY <1>1, <1>2

\* A request that ends leaves everything typed.
LEMMA RequestEndTyped ==
    ASSUME AITyped, NEW r \in Requests, NEW how \in {"succeeded", "failed"}, RequestEnds(r, how),
           learned' \in Protocols \cup {"unknown"}
    PROVE  AITyped'
<1> USE RequestsAssumption DEF AITyped
<1>1. stage' \in [Requests -> Stages] /\ usage' \in [Counters -> Int]
  BY DEF RequestEnds, Stages, Counters
<1>2. untried' \in [Requests -> Seq(Protocols)] /\ (\A q \in Requests : Len(untried'[q]) <= 3)
  BY DEF RequestEnds
<1>3. used' \in [Requests -> 0..Budget] /\ reason' \in [Requests -> Reasons] /\ model' \in [Requests -> Models]
  BY DEF RequestEnds, Reasons, Models
<1>4. pool' \in [Requests -> Nat] /\ (\A q \in Requests : pool'[q] \in 1..Len(limits'))
  <2>1. 1 \in 1..Len(limits)
    <3>1. pool[r] \in 1..Len(limits) /\ Len(limits) \in Nat
      OBVIOUS
    <3> QED BY <3>1
  <2> QED BY <2>1 DEF RequestEnds
<1>5. /\ speaks' \in [Models -> Protocols \cup {"nothing"}] /\ streamed' \subseteq Requests
      /\ heard' \subseteq streamed' /\ mistaken' \subseteq Requests
      /\ limits' \in Seq(Nat) /\ limitChanges' \in 0..Changes
  BY DEF RequestEnds
<1> QED BY <1>1, <1>2, <1>3, <1>4, <1>5

\* Each step keeps the invariant, and what it may not do after a part of an answer or a
\* mismatch, it does not do.
LEMMA RequestsStep ==
    ASSUME RequestsInv, AINext
    PROVE  RequestsInv' /\ NotReplayed /\ DetectionIsComplete
<1> USE RequestsAssumption DEF RequestsInv, AITyped, LearnedIsSpoken, StillToFind, GoesOnMistaken,
       DetectionIsComplete, NotReplayed, UnderWayStages, Counters, heardOf
<1> DEFINE Goal == RequestsInv' /\ NotReplayed /\ DetectionIsComplete
<1>1. ASSUME NEW r \in Requests, BeginRequest(r) PROVE Goal
  <2>1. Candidates \in Seq(Protocols) /\ Candidates # <<>> /\ Len(Candidates) <= 3
        /\ Found(speaks, Candidates, model[r])
    <3>1. model[r] \in Models
      OBVIOUS
    <3> QED BY <3>1, CandidatesSuffice
  <2>2. AITyped'
    BY <1>1, <2>1, SMTT(30) DEF BeginRequest, Stages
  <2>3. LearnedIsSpoken' /\ GoesOnMistaken' /\ DetectionIsComplete /\ NotReplayed
    BY <1>1 DEF BeginRequest
  <2>4. StillToFind'
    BY <1>1, <2>1 DEF BeginRequest
  <2> QED BY <2>2, <2>3, <2>4
<1>2. ASSUME NEW r \in Requests, NEW cost \in 1..2, Attempt(r, cost) PROVE Goal
  <2>1. CASE r \in streamed /\ ~Affordable(r, cost)
    <3>1. /\ stage' = [stage EXCEPT ![r] = "failed"] /\ reason' = [reason EXCEPT ![r] = "budget"] /\ stage[r] = "ready"
          /\ UNCHANGED <<speaks, learned, streamed, model, untried, used, heard, mistaken, pool, limits, limitChanges, usage>>
      BY <1>2, <2>1 DEF Attempt
    <3>2. AITyped'
      BY <3>1 DEF Stages, Reasons
    <3> QED BY <3>1, <3>2, SMTT(30)
  <2>2. CASE ~(r \in streamed /\ ~Affordable(r, cost))
    <3>1. used' \in [Requests -> 0..Budget]
      <4>1. r \in streamed => used[r] + cost \in 0..Budget
        BY <2>2 DEF Affordable
      <4> QED BY <1>2, <2>2, <4>1, ZenonT(30) DEF Attempt
    <3>2. Len(limits) \in 1..Len(limits)
      <4>1. pool[r] \in 1..Len(limits) /\ Len(limits) \in Nat
        OBVIOUS
      <4> QED BY <4>1
    <3>3. /\ stage' = [stage EXCEPT ![r] = "waiting"] /\ pool' = [pool EXCEPT ![r] = Len(limits)] /\ stage[r] = "ready"
          /\ UNCHANGED <<speaks, learned, streamed, model, untried, heard, mistaken, reason, limits, limitChanges, usage>>
      BY <1>2, <2>2 DEF Attempt
    <3>4. AITyped'
      BY <3>1, <3>2, <3>3 DEF Stages
    <3> QED BY <3>3, <3>4
  <2> QED BY <2>1, <2>2
<1>3. ASSUME NEW r \in Requests, Unresolved(r) PROVE Goal
  BY <1>3 DEF Unresolved, Fails, Stages, Reasons
<1>4. ASSUME NEW r \in Requests, Send(r) PROVE Goal
  BY <1>4 DEF Send, Stages
<1>5. ASSUME NEW r \in Requests, Succeed(r) PROVE Goal
  <2>1. untried[r] # <<>> /\ Head(untried[r]) \in Protocols
    BY <1>5 DEF Succeed
  <2>2. AITyped'
    BY <1>5, <2>1, RequestEndTyped DEF Succeed
  <2>3. LearnedIsSpoken'
    <3>1. model[r] \in Models /\ speaks[model[r]] = learned' /\ speaks' = speaks
      BY <1>5 DEF Succeed, RequestEnds
    <3> QED BY <3>1
  <2>4. StillToFind' /\ GoesOnMistaken' /\ DetectionIsComplete /\ NotReplayed
    BY <1>5 DEF Succeed, RequestEnds
  <2> QED BY <2>2, <2>3, <2>4
<1>6. ASSUME NEW r \in Requests, WrongProtocol(r) PROVE Goal
  BY <1>6 DEF WrongProtocol, Fails, Stages, Reasons
<1>7. ASSUME NEW r \in Requests, ServiceFails(r) PROVE Goal
  BY <1>7 DEF ServiceFails, Heard, Fails, Stages, Reasons
<1>8. ASSUME NEW r \in Requests, StreamBreaks(r) PROVE Goal
  BY <1>8 DEF StreamBreaks, Heard, Fails, Stages, Reasons
<1>14. ASSUME NEW r \in Requests, Mistake(r) PROVE Goal
  BY <1>14 DEF Mistake, Heard, Fails, Stages, Reasons
<1>9. ASSUME NEW r \in Requests, NextProtocol(r) PROVE Goal
  <2>1. /\ untried[r] \in Seq(Protocols) /\ Len(untried[r]) > 1 /\ Len(untried[r]) <= 3
        /\ (r \notin mistaken => speaks[model[r]] # Head(untried[r]))
    BY <1>9 DEF NextProtocol, MayTryProtocol
  <2> DEFINE t == Tail(untried[r])
  <2>2. t \in Seq(Protocols) /\ Len(t) = Len(untried[r]) - 1 /\ \A i \in 1..Len(t) : t[i] = untried[r][i + 1]
    BY <2>1
  <2> HIDE DEF t
  <2>n. t # <<>> /\ Len(t) <= 3
    <3>1. Len(t) > 0 /\ Len(t) <= 3
      BY <2>1, <2>2
    <3>2. t = <<>> => Len(t) = 0
      OBVIOUS
    <3> QED BY <3>1, <3>2
  <2>3. r \notin mistaken => Found(speaks, t, model[r])
    <3> SUFFICES ASSUME r \notin mistaken, NEW i \in DOMAIN untried[r], untried[r][i] = speaks[model[r]]
                 PROVE  \E k \in DOMAIN t : t[k] = speaks[model[r]]
      BY <1>9 DEF NextProtocol, Found
    <3>2. i \in 1..Len(untried[r]) /\ i # 1 /\ Len(untried[r]) \in Nat
      BY <2>1
    <3>3. i - 1 \in 1..Len(t) /\ t[i - 1] = untried[r][i]
      BY <2>2, <3>2, SMTT(30)
    <3> QED BY <2>2, <3>3
  <2>4. AITyped'
    <3>1. untried' \in [Requests -> Seq(Protocols)] /\ (\A q \in Requests : Len(untried'[q]) <= 3)
      BY <1>9, <2>2, <2>n DEF NextProtocol, t
    <3>2. stage' \in [Requests -> Stages] /\ reason' \in [Requests -> Reasons]
      BY <1>9 DEF NextProtocol, Stages, Reasons
    <3> QED BY <1>9, <3>1, <3>2 DEF NextProtocol
  <2>5. StillToFind'
    BY <1>9, <2>n, <2>3, SMTT(30) DEF NextProtocol, t
  <2>6. LearnedIsSpoken' /\ GoesOnMistaken' /\ DetectionIsComplete /\ NotReplayed
    BY <1>9 DEF NextProtocol, MayTryProtocol
  <2> QED BY <2>4, <2>5, <2>6
<1>10. ASSUME NEW r \in Requests, FallBack(r) PROVE Goal
  <2>1. Candidates \in Seq(Protocols) /\ Candidates # <<>> /\ Len(Candidates) <= 3
        /\ Found(speaks, Candidates, "fallback")
    BY CandidatesSuffice DEF Models
  <2>2. AITyped'
    <3>1. untried' \in [Requests -> Seq(Protocols)] /\ (\A q \in Requests : Len(untried'[q]) <= 3)
      BY <1>10, <2>1 DEF FallBack
    <3>2. stage' \in [Requests -> Stages] /\ reason' \in [Requests -> Reasons] /\ model' \in [Requests -> Models]
      BY <1>10 DEF FallBack, Stages, Reasons, Models
    <3>3. heard' \subseteq streamed
      BY <1>10 DEF FallBack
    <3> QED BY <1>10, <3>1, <3>2, <3>3 DEF FallBack, NotCounted
  <2>3. LearnedIsSpoken' /\ GoesOnMistaken' /\ DetectionIsComplete /\ NotReplayed
    BY <1>10 DEF FallBack, MayFallBack
  <2>4. StillToFind'
    BY <1>10, <2>1 DEF FallBack
  <2> QED BY <2>2, <2>3, <2>4
<1>11. ASSUME NEW r \in Requests, Raise(r) PROVE Goal
  <2>1. AITyped'
    BY <1>11, RequestEndTyped DEF Raise
  <2>2. reason[r] = "mismatch" /\ r \notin mistaken
        => speaks[model[r]] = "nothing" \/ OthersSpeakOtherwise(speaks, model[r])
    <3>1. reason[r] = "mismatch" => \A i \in DOMAIN untried[r] : untried[r][i] = Head(untried[r])
      BY <1>11 DEF Raise, MayTryProtocol
    <3> QED BY <1>11, <3>1 DEF Raise, Found
  <2>3. DetectionIsComplete
    BY <1>11, <2>2 DEF Raise, RequestEnds, OthersSpeakOtherwise
  <2>4. LearnedIsSpoken' /\ StillToFind' /\ GoesOnMistaken' /\ NotReplayed
    BY <1>11 DEF Raise, RequestEnds
  <2> QED BY <2>1, <2>3, <2>4
<1>12. ASSUME NEW r \in Requests, CancelRequest(r) PROVE Goal
  <2>1. AITyped'
    BY <1>12, RequestEndTyped DEF CancelRequest
  <2>2. LearnedIsSpoken' /\ StillToFind' /\ GoesOnMistaken' /\ NotReplayed /\ DetectionIsComplete
    BY <1>12 DEF CancelRequest, RequestEnds
  <2> QED BY <2>1, <2>2
<1>13. ASSUME NEW n \in 1..2, SetLimit(n) PROVE Goal
  BY <1>13 DEF SetLimit
<1> QED BY <1>1, <1>2, <1>3, <1>4, <1>5, <1>6, <1>7, <1>8, <1>9, <1>10, <1>11, <1>12,
           <1>13, <1>14 DEF AINext

-----------------------------------------------------------------------------
\* The requests that are under way, and those that ended in one way.
UnderWayAI == {r \in Requests : stage[r] \notin {"idle", "answered", "raised"}}
EndedAs(end) == {r \in Requests : stage[r] = end}

\* A request that begins or ends is counted, and a step in between is not.
LEMMA CountedStep ==
    ASSUME AITyped, CountedOnce, AINext
    PROVE  CountedOnce'
<1> USE RequestsAssumption DEF AITyped, Counters
<1>f. IsFiniteSet(UnderWayAI) /\ IsFiniteSet(EndedAs("answered")) /\ IsFiniteSet(EndedAs("raised"))
  BY FS_Subset DEF UnderWayAI, EndedAs
<1>u. /\ usage["active"] = Cardinality(UnderWayAI) /\ usage["succeeded"] = Cardinality(EndedAs("answered"))
      /\ usage["failed"] = Cardinality(EndedAs("raised"))
  BY DEF CountedOnce, UnderWayAI, EndedAs
<1>g. SUFFICES /\ usage'["active"] = Cardinality(UnderWayAI') /\ usage'["succeeded"] = Cardinality(EndedAs("answered")')
               /\ usage'["failed"] = Cardinality(EndedAs("raised")')
  BY DEF CountedOnce, UnderWayAI, EndedAs
<1>1. ASSUME NEW r \in Requests, BeginRequest(r)
      PROVE  /\ usage'["active"] = Cardinality(UnderWayAI') /\ usage'["succeeded"] = Cardinality(EndedAs("answered")')
             /\ usage'["failed"] = Cardinality(EndedAs("raised")')
  <2>1. r \notin UnderWayAI /\ UnderWayAI' = UnderWayAI \cup {r}
    BY <1>1 DEF BeginRequest, UnderWayAI
  <2>2. EndedAs("answered")' = EndedAs("answered") /\ EndedAs("raised")' = EndedAs("raised")
    BY <1>1 DEF BeginRequest, EndedAs
  <2>3. Cardinality(UnderWayAI') = Cardinality(UnderWayAI) + 1
    BY <2>1, <1>f, OneMore
  <2>4. usage'["active"] = usage["active"] + 1 /\ usage'["succeeded"] = usage["succeeded"] /\ usage'["failed"] = usage["failed"]
    BY <1>1 DEF BeginRequest
  <2> QED BY <2>2, <2>3, <2>4, <1>u
<1>2. ASSUME NEW r \in Requests, stage[r] \notin {"idle", "answered", "raised"}, RequestEnds(r, "succeeded")
      PROVE  /\ usage'["active"] = Cardinality(UnderWayAI') /\ usage'["succeeded"] = Cardinality(EndedAs("answered")')
             /\ usage'["failed"] = Cardinality(EndedAs("raised")')
  <2>1. r \in UnderWayAI /\ UnderWayAI' = UnderWayAI \ {r}
    BY <1>2 DEF RequestEnds, UnderWayAI
  <2>2. r \notin EndedAs("answered") /\ EndedAs("answered")' = EndedAs("answered") \cup {r}
    BY <1>2 DEF RequestEnds, EndedAs
  <2>3. EndedAs("raised")' = EndedAs("raised")
    BY <1>2 DEF RequestEnds, EndedAs
  <2>4. usage'["active"] = usage["active"] - 1 /\ usage'["succeeded"] = usage["succeeded"] + 1 /\ usage'["failed"] = usage["failed"]
    BY <1>2 DEF RequestEnds
  <2>5. Cardinality(UnderWayAI') = Cardinality(UnderWayAI) - 1
    BY <2>1, <1>f, OneLess
  <2>6. Cardinality(EndedAs("answered")') = Cardinality(EndedAs("answered")) + 1
    BY <2>2, <1>f, OneMore
  <2> QED BY <2>3, <2>4, <2>5, <2>6, <1>u
<1>3. ASSUME NEW r \in Requests, stage[r] \notin {"idle", "answered", "raised"}, RequestEnds(r, "failed")
      PROVE  /\ usage'["active"] = Cardinality(UnderWayAI') /\ usage'["succeeded"] = Cardinality(EndedAs("answered")')
             /\ usage'["failed"] = Cardinality(EndedAs("raised")')
  <2>1. r \in UnderWayAI /\ UnderWayAI' = UnderWayAI \ {r}
    BY <1>3 DEF RequestEnds, UnderWayAI
  <2>2. r \notin EndedAs("raised") /\ EndedAs("raised")' = EndedAs("raised") \cup {r}
    BY <1>3 DEF RequestEnds, EndedAs
  <2>3. EndedAs("answered")' = EndedAs("answered")
    BY <1>3 DEF RequestEnds, EndedAs
  <2>4. usage'["active"] = usage["active"] - 1 /\ usage'["failed"] = usage["failed"] + 1 /\ usage'["succeeded"] = usage["succeeded"]
    BY <1>3 DEF RequestEnds
  <2>5. Cardinality(UnderWayAI') = Cardinality(UnderWayAI) - 1
    BY <2>1, <1>f, OneLess
  <2>6. Cardinality(EndedAs("raised")') = Cardinality(EndedAs("raised")) + 1
    BY <2>2, <1>f, OneMore
  <2> QED BY <2>3, <2>4, <2>5, <2>6, <1>u
<1>4. ASSUME UNCHANGED usage,
             \A r \in Requests : \/ stage'[r] = stage[r]
                                \/ {stage[r], stage'[r]} \subseteq {"ready", "waiting", "sent", "failed"}
      PROVE  /\ usage'["active"] = Cardinality(UnderWayAI') /\ usage'["succeeded"] = Cardinality(EndedAs("answered")')
             /\ usage'["failed"] = Cardinality(EndedAs("raised")')
  <2>1. UnderWayAI' = UnderWayAI /\ EndedAs("answered")' = EndedAs("answered") /\ EndedAs("raised")' = EndedAs("raised")
    BY <1>4 DEF UnderWayAI, EndedAs
  <2> QED BY <1>4, <2>1, <1>u
<1>5. ASSUME NEW r \in Requests, NEW cost \in 1..2, Attempt(r, cost)
      PROVE  UNCHANGED usage /\ \A q \in Requests : stage'[q] = stage[q]
                \/ {stage[q], stage'[q]} \subseteq {"ready", "waiting", "sent", "failed"}
  BY <1>5 DEF Attempt
<1>6. ASSUME NEW r \in Requests,
             Unresolved(r) \/ Send(r) \/ WrongProtocol(r) \/ ServiceFails(r) \/ NextProtocol(r) \/ FallBack(r)
                \/ StreamBreaks(r) \/ Mistake(r)
      PROVE  UNCHANGED usage /\ \A q \in Requests : stage'[q] = stage[q]
                \/ {stage[q], stage'[q]} \subseteq {"ready", "waiting", "sent", "failed"}
  BY <1>6 DEF Unresolved, Send, WrongProtocol, ServiceFails, NextProtocol, FallBack,
     StreamBreaks, Mistake, Fails, NotCounted
<1>7. ASSUME NEW r \in Requests, Succeed(r) \/ Raise(r) \/ CancelRequest(r)
      PROVE  /\ stage[r] \notin {"idle", "answered", "raised"}
             /\ RequestEnds(r, "succeeded") \/ RequestEnds(r, "failed")
  BY <1>7 DEF Succeed, Raise, CancelRequest
<1>8. ASSUME NEW n \in 1..2, SetLimit(n) PROVE UNCHANGED <<usage, stage>>
  BY <1>8 DEF SetLimit
<1> QED BY <1>1, <1>2, <1>3, <1>4, <1>5, <1>6, <1>7, <1>8 DEF AINext

\* Whatever the attempts, the change of protocol, the fallback and a cancelled
\* caller do, a logical request is counted once, keeps to its budget, does not go
\* on after part of an answer because its stream broke, and fails for its protocol
\* only at a model that speaks none, next to a model of another protocol or after
\* a mistake: for any requests, budget, limits and protocols of the models.
THEOREM RequestsAreOne == AISpec => RequestIsOne
<1> DEFINE Inv == RequestsInv /\ CountedOnce
<1>1. AIInit => Inv
  <2>1. ASSUME AIInit PROVE CountedOnce
    <3>1. UnderWayAI = {} /\ EndedAs("answered") = {} /\ EndedAs("raised") = {}
      BY <2>1 DEF AIInit, UnderWayAI, EndedAs
    <3> QED BY <2>1, <3>1, FS_EmptySet DEF AIInit, CountedOnce, Counters, UnderWayAI, EndedAs
  <2> QED BY <2>1, AIBegins
<1>2. Inv /\ AINext => Inv' /\ NotReplayed /\ DetectionIsComplete
  BY RequestsStep, CountedStep DEF RequestsInv
<1>3. Inv /\ UNCHANGED aiVars => Inv'
  BY DEF aiVars, heardOf, RequestsInv, AITyped, LearnedIsSpoken, StillToFind, Found,
     OthersSpeakOtherwise, UnderWayStages, GoesOnMistaken, CountedOnce
<1>4. Inv => BudgetShared /\ AITypeOK /\ CountedOnce
  <2> SUFFICES ASSUME Inv PROVE BudgetShared /\ AITypeOK
    BY DEF RequestsInv
  <2>1. BudgetShared
    BY RequestsAssumption DEF RequestsInv, AITyped, BudgetShared
  <2>2. /\ Cardinality(UnderWayAI) \in 0..Cardinality(Requests) /\ Cardinality(EndedAs("answered")) \in 0..Cardinality(Requests)
        /\ Cardinality(EndedAs("raised")) \in 0..Cardinality(Requests)
    <3>1. ASSUME NEW S \in SUBSET Requests PROVE Cardinality(S) \in 0..Cardinality(Requests)
      BY RequestsAssumption, FS_Subset, FS_CardinalityType
    <3>2. UnderWayAI \in SUBSET Requests /\ EndedAs("answered") \in SUBSET Requests /\ EndedAs("raised") \in SUBSET Requests
      BY DEF UnderWayAI, EndedAs
    <3> QED BY <3>1, <3>2
  <2>3. \A k \in Counters : usage[k] \in 0..Cardinality(Requests)
    BY <2>2 DEF CountedOnce, Counters, UnderWayAI, EndedAs
  <2>4. usage \in [Counters -> 0..Cardinality(Requests)]
    BY <2>3 DEF RequestsInv, AITyped
  <2> QED BY <2>1, <2>4 DEF RequestsInv, AITyped, AITypeOK
<1>5. Inv /\ [AINext]_aiVars => Inv'
  BY <1>2, <1>3
<1>6. Inv' => CountedOnce' /\ BudgetShared' /\ AITypeOK'
  BY <1>4, PTL
<1>7. Inv /\ [AINext]_aiVars
        => [NotReplayed /\ CountedOnce' /\ BudgetShared' /\ DetectionIsComplete /\ AITypeOK']_aiVars
  BY <1>2, <1>5, <1>6
<1> QED BY <1>1, <1>5, <1>7, PTL DEF AISpec, RequestIsOne
=============================================================================
