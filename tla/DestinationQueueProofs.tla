----------------------- MODULE DestinationQueueProofs -----------------------
(***************************************************************************)
(* Theorems about DestinationQueue for any events, queue objects, limits   *)
(* and bounds, with and without the timing assumption Prompt.              *)
(***************************************************************************)
EXTENDS DestinationQueue, FiniteSetTheorems, SequenceTheorems, TLAPS

\* An update keeps the type of a function: outside the domain it changes nothing.
LEMMA ExceptType ==
  ASSUME NEW S, NEW T, NEW f \in [S -> T], NEW x, NEW v, x \in S => v \in T
  PROVE  [f EXCEPT ![x] = v] \in [S -> T]
<1>1. CASE x \in S
  BY <1>1
<1>2. CASE x \notin S
  BY <1>2
<1> QED
  BY <1>1, <1>2

\* What remains of a sequence when its first n elements are cut off.
LEMMA CutPrefix ==
  ASSUME NEW S, NEW s \in Seq(S), NEW n \in Nat
  PROVE  /\ SubSeq(s, n + 1, Len(s)) \in Seq(S)
         /\ Len(SubSeq(s, n + 1, Len(s))) <= Len(s)
<1>1. \A i \in (n + 1) .. Len(s) : s[i] \in S
  OBVIOUS
<1>2. n + 1 \in Int /\ Len(s) \in Int
  OBVIOUS
<1> QED
  BY <1>1, <1>2, SubSeqProperties

-----------------------------------------------------------------------------
(* What loading a page from the database does to the pending events.       *)

\* The queue has room for what it may hold, for both kinds.
LEMMA LimitType == \A k \in Kinds : MaxInMemory[k] \in Nat /\ MaxPerTransaction[k] \in Nat \ {0}
BY LimitsAssumption DEF Kinds, MaxInMemory, MaxPerTransaction

\* Every event is a PDU or an EDU, and there are finitely many.
LEMMA EventsFinite == IsFiniteSet(Events)
BY KindsAssumption, FS_Union DEF Events

\* What the database returns are rows of the kind that was asked for.
LEMMA FetchedRows ==
  ASSUME NEW k \in Kinds, NEW f \in Fetches(k)
  PROVE  f.rows \subseteq stored
<1>1. f \in [rows : Pages(k), ok : DBOutcomes \cap {TRUE}] \/ f = [rows |-> {}, ok |-> FALSE]
  BY Zenon DEF Fetches
<1>2. CASE f \in [rows : Pages(k), ok : DBOutcomes \cap {TRUE}]
  BY <1>2 DEF Pages, Rows
<1>3. CASE f = [rows |-> {}, ok |-> FALSE]
  BY <1>3
<1> QED
  BY <1>1, <1>2, <1>3

\* A reload keeps the events in S and the kind within its limit.
LEMMA ReloadBounded ==
  ASSUME NEW q \in Queues, NEW k \in Kinds, NEW f, NEW S,
         f.rows \subseteq S, IsFiniteSet(f.rows),
         pending[q][k] \in Seq(S), Len(pending[q][k]) <= MaxInMemory[k],
         NEW p \in Reload(q, k, f)
  PROVE  p \in Seq(S) /\ Len(p) <= MaxInMemory[k]
<1> DEFINE room == MaxInMemory[k] - Len(pending[q][k])
           new  == f.rows \ Members(pending[q][k])
           n    == Least(Cardinality(new), room)
<1>1. PICK t \in Arrangements(new, n) : p = pending[q][k] \o t
  BY DEF Reload
<1>2. room \in Nat
  BY LimitType
<1>3. Cardinality(new) \in Nat
  BY FS_Subset, FS_CardinalityType
<1>4. n \in Nat /\ n <= room
  BY <1>2, <1>3 DEF Least
<1>5. t \in [1 .. n -> new] /\ new \subseteq S
  BY DEF Arrangements
<1> HIDE DEF n, new, room
<1>6. t \in Seq(S) /\ Len(t) = n
  BY <1>4, <1>5
<1> QED
  BY <1>1, <1>2, <1>4, <1>6, LimitType DEF room

-----------------------------------------------------------------------------
(* Types and the memory limit.                                             *)

Fit == TypeOK /\ MemoryBounded

\* Replacing the pending events of a queue by others within the limits.
LEMMA PendingFits ==
  ASSUME Fit, NEW q \in Queues, NEW v \in [Kinds -> Seq(Events)],
         \A k \in Kinds : Len(v[k]) <= MaxInMemory[k],
         pending' = [pending EXCEPT ![q] = v]
  PROVE  pending' \in [Queues -> [Kinds -> Seq(Events)]] /\ MemoryBounded'
BY DEF Fit, TypeOK, MemoryBounded

\* wakeQueueAndNotify() touches neither the pending events nor a transaction.
LEMMA WakeFits ==
  ASSUME Fit, NEW th \in Threads, Wake(th) PROVE Fit'
<1> USE DEF Fit, TypeOK, MemoryBounded, SenderPoints, OtherPoints
<1>1. CASE WakeNotify(th)
  BY <1>1 DEF WakeNotify, Goto, workers, table, stats, world, process
<1>2. CASE WakeUnback(th)
  BY <1>2 DEF WakeUnback, Goto, workers, table, stats, world, process
<1>3. CASE WakeSpawn(th)
  <2>1. spawned' \in [Queues -> Nat]
    <3>1. CASE spawned' = spawned
      BY <3>1
    <3>2. CASE spawned' = [spawned EXCEPT ![at[th]] = @ + 1]
      <4>1. at[th] \in Queues => spawned[at[th]] + 1 \in Nat
        OBVIOUS
      <4> QED
        BY <3>2, <4>1, ExceptType
    <3> QED
      BY <1>3, <3>1, <3>2 DEF WakeSpawn
  <2>2. pc' \in [Threads -> SenderPoints \cup OtherPoints]
    BY <1>3 DEF WakeSpawn, Proceed, Goto, Rest
  <2>3. at' \in [Threads -> Queues \cup {NoQueue}]
    BY <1>3 DEF WakeSpawn, Proceed
  <2> QED
    BY <1>3, <2>1, <2>2, <2>3 DEF WakeSpawn, workers, table, stats, world, process
<1> QED
  BY <1>1, <1>2, <1>3 DEF Wake

\* getQueue() creates at most one queue object and keeps every type.
LEMMA GetQueueFits ==
  ASSUME Fit, NEW th \in Threads, NEW to \in SenderPoints \cup OtherPoints,
         GetQueueCheck(th, to) \/ GetQueueGet(th, to)
  PROVE  Fit'
<1> USE DEF Fit, TypeOK, MemoryBounded, SenderPoints, OtherPoints
<1>1. CASE GetQueueCheck(th, to)
  BY <1>1 DEF GetQueueCheck, Goto, objects, workers, table, stats, world, process
<1>2. CASE GetQueueGet(th, to)
  BY <1>2 DEF GetQueueGet, Goto, objects, workers, table, stats, world, process
<1> QED
  BY <1>1, <1>2

\* Appending an event keeps the kind within its limit.
LEMMA SenderFits ==
  ASSUME Fit, NEW e \in Events, SendBegin(e) \/ Sender(e) PROVE Fit'
<1> USE DEF Fit, TypeOK, MemoryBounded, SenderPoints, OtherPoints, Threads
<1>1. CASE SendBegin(e)
  <2>1. pc' = [pc EXCEPT ![e] = "check"]
    BY <1>1 DEF SendBegin, Goto
  <2> QED
    BY <1>1, <2>1 DEF SendBegin, objects, workers, table, stats, world, process
<1>2. CASE SendAssociate(e)
  BY <1>2 DEF SendAssociate, Proceed, Goto, objects, workers, table, stats, process
<1>3. CASE SendBlacklistCheck(e)
  BY <1>3 DEF SendBlacklistCheck, Proceed, Goto, objects, workers, table, stats, world, process
<1>4. CASE SendAppend(e)
  <2> DEFINE q == at[e]
             k == KindOf(e)
  <2>1. k \in Kinds
    BY DEF KindOf, Kinds
  <2>2. /\ pending' \in [Queues -> [Kinds -> Seq(Events)]]
        /\ MemoryBounded'
    <3>1. CASE pending' = pending
      BY <3>1
    <3>2. CASE /\ pending' = [pending EXCEPT ![q] = [pending[q] EXCEPT ![k] = Append(pending[q][k], e)]]
               /\ Len(pending[q][k]) < MaxInMemory[k]
      <4>1. CASE q \in Queues
        <5> DEFINE longer == Append(pending[q][k], e)
        <5>1. pending[q][k] \in Seq(Events)
          BY <2>1, <4>1
        <5>2. longer \in Seq(Events) /\ Len(longer) <= MaxInMemory[k]
          BY <2>1, <3>2, <5>1, LimitType
        <5> HIDE DEF q, k, longer
        <5>3. pending' = [pending EXCEPT ![q] = [pending[q] EXCEPT ![k] = longer]]
          BY <3>2 DEF longer
        <5>4. [pending[q] EXCEPT ![k] = longer] \in [Kinds -> Seq(Events)]
          BY <4>1, <5>2
        <5>5. pending' \in [Queues -> [Kinds -> Seq(Events)]]
          BY <5>3, <5>4
        <5>6. ASSUME NEW r \in Queues, NEW j \in Kinds
              PROVE  (pending'[r][j] = longer /\ j = k) \/ pending'[r][j] = pending[r][j]
          BY <4>1, <5>3, <5>6
        <5> QED
          BY <5>2, <5>5, <5>6
      <4>2. CASE q \notin Queues
        <5> HIDE DEF q, k
        <5> QED
          BY <3>2, <4>2
      <4> QED
        BY <4>1, <4>2
    <3> QED
      BY <1>4, <3>1, <3>2 DEF SendAppend
  <2>3. pc' \in [Threads -> SenderPoints \cup OtherPoints]
    BY <1>4 DEF SendAppend, Goto
  <2>4. overflowed' \in [Queues -> BOOLEAN]
    BY <1>4 DEF SendAppend
  <2>5. UNCHANGED <<at, wasBlacklisted, running, backingOff, notify, spawned,
                    workers, table, stats, world, process>>
    BY <1>4 DEF SendAppend
  <2> QED
    BY <2>2, <2>3, <2>4, <2>5 DEF workers, table, stats, world, process
<1>5. CASE SendBackoffCheck(e)
  BY <1>5 DEF SendBackoffCheck, Proceed, Goto, objects, workers, table, stats, world, process
<1> QED
  BY <1>1, <1>2, <1>3, <1>4, <1>5, WakeFits, GetQueueFits DEF Sender

\* Steps of the worker that leave pending and batch alone.
LEMMA QuietWorkerFits ==
  ASSUME Fit, NEW q \in Queues,
         \/ Start(q) \/ SelectNotify(q) \/ SelectIdle(q) \/ SelectDone(q) \/ Send(q)
         \/ CleanPDUs(q) \/ CleanEDUs(q) \/ TransactionSuccess(q) \/ TransactionFailure(q)
         \/ BackOff(q) \/ BlacklistUnassign(q) \/ BlacklistDelete(q)
  PROVE  Fit'
<1> USE DEF Fit, TypeOK, MemoryBounded, WorkerPoints, Move
<1>1. CASE Start(q)
  <2>1. spawned' \in [Queues -> Nat]
    BY <1>1 DEF Start
  <2>2. CASE UNCHANGED <<running, overflowed, wpc>>
    BY <1>1, <2>1, <2>2 DEF Start, table, stats, threads, world, process
  <2>3. CASE /\ running' = [running EXCEPT ![q] = TRUE]
             /\ overflowed' = [overflowed EXCEPT ![q] = TRUE]
             /\ wpc' = [wpc EXCEPT ![q] = "loop"]
    BY <1>1, <2>1, <2>3 DEF Start, table, stats, threads, world, process
  <2> QED
    BY <1>1, <2>2, <2>3 DEF Start
<1>2. CASE SelectNotify(q)
  BY <1>2 DEF SelectNotify, table, stats, threads, world, process
<1>3. CASE SelectIdle(q)
  BY <1>3 DEF SelectIdle, objects, table, stats, threads, world, process
<1>4. CASE SelectDone(q)
  BY <1>4 DEF SelectDone, objects, table, threads, world, process
<1>5. CASE Send(q)
  <2>1. delivered' \in SUBSET Events
    <3>1. BatchEvents(q) \subseteq Events
      BY DEF BatchEvents, Members, Kinds
    <3> QED
      BY <1>5, <3>1 DEF Send
  <2>2. method' \in [Queues -> {"direct", "relay"}]
    BY <1>5 DEF Send
  <2>3. /\ wpc' \in [Queues -> WorkerPoints]
        /\ \A r \in Queues : wpc'[r] = "stopped" <=> wpc[r] = "stopped"
    BY <1>5 DEF Send
  <2> QED
    BY <1>5, <2>1, <2>2, <2>3 DEF Send, objects, table, stats, threads, process
<1>6. CASE CleanPDUs(q)
  BY <1>6 DEF CleanPDUs, Clean, objects, table, stats, threads, process
<1>7. CASE CleanEDUs(q)
  BY <1>7 DEF CleanEDUs, Clean, objects, table, stats, threads, process
<1>8. CASE TransactionSuccess(q)
  BY <1>8 DEF TransactionSuccess, StatsSuccess, objects, table, threads, world, process
<1>9. CASE TransactionFailure(q)
  BY <1>9, LimitsAssumption
     DEF TransactionFailure, StatsFailure, stats, objects, table, threads, world, process
<1>10. CASE BackOff(q)
  BY <1>10 DEF BackOff, table, stats, threads, world, process
<1>11. CASE BlacklistUnassign(q)
  BY <1>11 DEF BlacklistUnassign, objects, stats, threads, world, process
<1>12. CASE BlacklistDelete(q)
  BY <1>12 DEF BlacklistDelete, objects, stats, threads, world, process
<1> QED
  BY <1>1, <1>2, <1>3, <1>4, <1>5, <1>6, <1>7, <1>8, <1>9, <1>10, <1>11, <1>12

\* Loading, snapshotting, cutting and dropping keep the limits.
LEMMA WorkerFits ==
  ASSUME Fit, NEW q \in Queues, Worker(q) PROVE Fit'
<1> USE DEF Fit, TypeOK, MemoryBounded, WorkerPoints, Move
<1>0. NothingPending \in [Kinds -> Seq(Events)] /\ \A k \in Kinds : Len(NothingPending[k]) = 0
  BY DEF NothingPending
<1>1. CASE Loop(q)
  <2>1. CASE UNCHANGED <<overflowed, pending, notify>>
    BY <1>1, <2>1 DEF Loop, table, stats, threads, world, process
  <2>2. CASE \E fp \in Fetches("pdu"), fe \in Fetches("edu") :
             \E p \in Reload(q, "pdu", fp), e \in Reload(q, "edu", fe) :
                Load(q, fp, p, fe, e)
    <3>1. PICK fp \in Fetches("pdu"), fe \in Fetches("edu") :
             \E p \in Reload(q, "pdu", fp), e \in Reload(q, "edu", fe) :
                Load(q, fp, p, fe, e)
      BY <2>2
    <3>2. PICK p \in Reload(q, "pdu", fp), e \in Reload(q, "edu", fe) :
                Load(q, fp, p, fe, e)
      BY <3>1
    <3> DEFINE loaded == [k \in Kinds |-> IF k = "pdu" THEN p ELSE e]
    <3>3. "pdu" \in Kinds /\ "edu" \in Kinds
      BY DEF Kinds
    <3>4. /\ fp.rows \subseteq Events /\ IsFiniteSet(fp.rows)
          /\ fe.rows \subseteq Events /\ IsFiniteSet(fe.rows)
      BY <3>3, FetchedRows, EventsFinite, FS_Subset
    <3>5. /\ p \in Seq(Events) /\ Len(p) <= MaxInMemory["pdu"]
          /\ e \in Seq(Events) /\ Len(e) <= MaxInMemory["edu"]
      <4>1. \A k \in Kinds : pending[q][k] \in Seq(Events) /\ Len(pending[q][k]) <= MaxInMemory[k]
        OBVIOUS
      <4> QED
        BY <3>3, <3>4, <4>1, ReloadBounded
    <3>6. loaded \in [Kinds -> Seq(Events)] /\ \A k \in Kinds : Len(loaded[k]) <= MaxInMemory[k]
      BY <3>5 DEF Kinds
    <3>7. /\ pending' = [pending EXCEPT ![q] = loaded]
          /\ overflowed' \in [Queues -> BOOLEAN]
          /\ notify' \in [Queues -> BOOLEAN]
      BY <3>2 DEF Load, FullPage
    <3> HIDE DEF loaded
    <3>8. pending' \in [Queues -> [Kinds -> Seq(Events)]] /\ MemoryBounded'
      BY <3>6, <3>7, PendingFits
    <3> QED
      BY <1>1, <3>7, <3>8 DEF Loop, table, stats, threads, world, process
  <2> QED
    BY <1>1, <2>1, <2>2 DEF Loop
<1>2. CASE Snapshot(q)
  <2>1. \A k \in Kinds : Prefix(q, k) \in Seq(Events)
    BY LimitType DEF Prefix, Least
  <2> QED
    BY <1>2, <2>1 DEF Snapshot, objects, table, stats, threads, world, process
<1>3. CASE RemoveSent(q)
  <2> DEFINE rest == [k \in Kinds |-> SubSeq(pending[q][k], Len(batch[q][k]) + 1, Len(pending[q][k]))]
  <2>1. \A k \in Kinds : rest[k] \in Seq(Events) /\ Len(rest[k]) <= Len(pending[q][k])
    <3> SUFFICES ASSUME NEW k \in Kinds
                 PROVE  rest[k] \in Seq(Events) /\ Len(rest[k]) <= Len(pending[q][k])
      OBVIOUS
    <3>1. pending[q][k] \in Seq(Events) /\ Len(batch[q][k]) \in Nat
      OBVIOUS
    <3> QED
      BY <3>1, CutPrefix
  <2>2. pending' = [pending EXCEPT ![q] = rest] /\ notify' \in [Queues -> BOOLEAN]
    BY <1>3 DEF RemoveSent
  <2>3. rest \in [Kinds -> Seq(Events)]
    BY <2>1
  <2> HIDE DEF rest
  <2>4. \A k \in Kinds : Len(rest[k]) <= MaxInMemory[k]
    <3> SUFFICES ASSUME NEW k \in Kinds PROVE Len(rest[k]) <= MaxInMemory[k]
      OBVIOUS
    <3>1. Len(rest[k]) <= Len(pending[q][k]) /\ Len(pending[q][k]) <= MaxInMemory[k]
      BY <2>1
    <3>2. Len(rest[k]) \in Nat /\ Len(pending[q][k]) \in Nat
      BY <2>3
    <3> QED
      BY <3>1, <3>2, LimitType
  <2>5. pending' \in [Queues -> [Kinds -> Seq(Events)]] /\ MemoryBounded'
    BY <2>2, <2>3, <2>4, PendingFits
  <2> QED
    BY <1>3, <2>2, <2>5 DEF RemoveSent, table, stats, threads, world, process
<1>4. CASE BlacklistClear(q)
  BY <1>0, <1>4, LimitType DEF BlacklistClear, table, stats, threads, world, process
<1>5. CASE Stop(q)
  BY <1>0, <1>5 DEF Stop, Goto, Threads, OtherPoints, table, stats, world, process
<1> QED
  BY <1>1, <1>2, <1>3, <1>4, <1>5, QuietWorkerFits DEF Worker

\* The timer, the other users of the statistics, expiry and shutdown.
LEMMA OthersFit ==
  ASSUME Fit,
         \/ \E e \in Events : Expire(e)
         \/ \E q \in Queues : CloseCheck(q)
         \/ TimerFires \/ TimerNotifier \/ ApiSuccess \/ ApiFailure \/ ApiAlive
         \/ RetryPending \/ Shutdown
  PROVE  Fit'
<1> USE DEF Fit, TypeOK, MemoryBounded
<1>1. ASSUME NEW e \in Events, Expire(e) PROVE Fit'
  BY <1>1 DEF Expire, objects, workers, table, stats, threads, process
<1>2. ASSUME NEW q \in Queues, CloseCheck(q) PROVE Fit'
  BY <1>2 DEF CloseCheck, Proceed, Goto, workers, table, stats, world, process,
              Threads, SenderPoints, OtherPoints
<1>3. CASE TimerFires
  BY <1>3 DEF TimerFires, Goto, objects, workers, table, world, process,
              Threads, Other, SenderPoints, OtherPoints
<1>4. CASE TimerNotifier
  BY <1>4 DEF TimerNotifier, Goto, objects, workers, table, stats, world, process,
              Threads, Other, SenderPoints, OtherPoints
<1>5. ASSUME NEW o, ApiCall(o) PROVE apiCalls' \in Nat /\ done' = done /\ restarts' = restarts
  BY <1>5 DEF ApiCall
<1>6. CASE ApiSuccess
  <2>1. blacklisted' \in BOOLEAN /\ assumedOffline' \in BOOLEAN
    BY <1>6 DEF ApiSuccess, StatsSuccess
  <2>2. dbBlacklist' = dbBlacklist /\ failures' = 0 /\ timer' = "off"
    BY <1>6 DEF ApiSuccess, StatsSuccess
  <2>3. UNCHANGED <<objects, workers, table, threads, world>>
    BY <1>6 DEF ApiSuccess
  <2> QED
    BY <1>5, <1>6, <2>1, <2>2, <2>3 DEF ApiSuccess, objects, workers, table, threads, world
<1>7. CASE ApiFailure
  <2>1. blacklisted' \in BOOLEAN /\ assumedOffline' \in BOOLEAN /\ dbBlacklist' \in BOOLEAN
    <3>1. CASE UNCHANGED stats
      BY <3>1 DEF stats
    <3>2. CASE /\ assumedOffline' = (assumedOffline \/ failures + 1 >= FailuresUntilAssumedOffline)
               /\ blacklisted' = (failures + 1 >= FailuresUntilBlacklist)
               /\ dbBlacklist' = (dbBlacklist \/ failures + 1 >= FailuresUntilBlacklist)
      BY <3>2
    <3> QED
      BY <1>7, <3>1, <3>2 DEF ApiFailure, StatsFailure
  <2>2. failures' \in Nat /\ timer' \in {"off", "armed"}
    BY <1>7, LimitsAssumption DEF ApiFailure, StatsFailure, stats
  <2>3. UNCHANGED <<objects, workers, table, threads, world>>
    BY <1>7 DEF ApiFailure
  <2> QED
    BY <1>5, <1>7, <2>1, <2>2, <2>3 DEF ApiFailure, objects, workers, table, threads, world
<1>8. CASE ApiAlive
  <2>1. /\ blacklisted' \in BOOLEAN /\ assumedOffline' \in BOOLEAN /\ dbBlacklist' \in BOOLEAN
        /\ wasBlacklisted' \in BOOLEAN
    BY <1>8 DEF ApiAlive, StatsAlive
  <2>2. failures' = 0 /\ timer' = "off"
    BY <1>8 DEF ApiAlive, StatsAlive
  <2>3. pc' \in [Threads -> SenderPoints \cup OtherPoints]
    BY <1>8 DEF ApiAlive, Goto, Threads, Other, SenderPoints, OtherPoints
  <2>4. UNCHANGED <<at, objects, workers, table, world>>
    BY <1>8 DEF ApiAlive
  <2> QED
    BY <1>5, <1>8, <2>1, <2>2, <2>3, <2>4 DEF ApiAlive, objects, workers, table, world
<1>9. CASE RetryPending
  BY <1>9 DEF RetryPending, Proceed, Goto, objects, workers, table, stats, world, process,
              Threads, Other, SenderPoints, OtherPoints
<1>10. CASE Shutdown
  BY <1>10 DEF Shutdown, objects, workers, table, stats, threads, world
<1> QED
  BY <1>1, <1>2, <1>3, <1>4, <1>6, <1>7, <1>8, <1>9, <1>10

\* Queues with nothing in memory are within their limits.
LEMMA EmptyQueues ==
  LET empty == [q \in Queues |-> NothingPending]
  IN  /\ empty \in [Queues -> [Kinds -> Seq(Events)]]
      /\ \A q \in Queues, k \in Kinds : empty[q][k] = <<>> /\ Len(empty[q][k]) <= MaxInMemory[k]
<1>1. NothingPending \in [Kinds -> Seq(Events)] /\ \A k \in Kinds : NothingPending[k] = <<>>
  BY DEF NothingPending
<1>2. \A k \in Kinds : Len(<<>>) <= MaxInMemory[k]
  BY LimitType
<1> QED
  BY <1>1, <1>2

\* The goroutines and the table of queues after a restart, h: is a queue rehydrated?
LEMMA RestartThreads ==
  ASSUME Restart
  PROVE  \E q \in Queues, h \in BOOLEAN :
          /\ current'  = IF h THEN q ELSE NoQueue
          /\ notifier' = IF h THEN q ELSE NoQueue
          /\ created'  = IF h THEN {q} ELSE {}
          /\ at' = [th \in Threads |-> IF h /\ th = "hydrate" THEN q ELSE NoQueue]
          /\ pc' = [th \in Threads |->
                      CASE th \in Events -> AfterRestart(pc[th])
                        [] h /\ th = "hydrate" -> "unback"
                        [] OTHER -> "idle"]
<1>1. PICK q \in Queues, ok \in DBOutcomes :
         LET hydrate == ok /\ stored # {} /\ ~blacklisted'
         IN  /\ current'  = IF hydrate THEN q ELSE NoQueue
             /\ notifier' = IF hydrate THEN q ELSE NoQueue
             /\ created'  = IF hydrate THEN {q} ELSE {}
             /\ at' = [th \in Threads |-> IF hydrate /\ th = "hydrate" THEN q ELSE NoQueue]
             /\ pc' = [th \in Threads |->
                         CASE th \in Events -> AfterRestart(pc[th])
                           [] hydrate /\ th = "hydrate" -> "unback"
                           [] OTHER -> "idle"]
  BY Zenon DEF Restart
<1> DEFINE h == ok /\ stored # {} /\ ~blacklisted'
<1>2. h \in BOOLEAN
  OBVIOUS
<1>3. /\ current'  = IF h THEN q ELSE NoQueue
      /\ notifier' = IF h THEN q ELSE NoQueue
      /\ created'  = IF h THEN {q} ELSE {}
      /\ at' = [th \in Threads |-> IF h /\ th = "hydrate" THEN q ELSE NoQueue]
      /\ pc' = [th \in Threads |->
                  CASE th \in Events -> AfterRestart(pc[th])
                    [] h /\ th = "hydrate" -> "unback"
                    [] OTHER -> "idle"]
  BY <1>1, Zenon
<1> HIDE DEF h
<1> QED
  BY <1>2, <1>3, Zenon

\* NewOutgoingQueues() leaves every queue empty and stopped.
LEMMA RestartFits ==
  ASSUME Fit, Restart PROVE Fit'
<1>1. /\ pending' = [q \in Queues |-> NothingPending]
      /\ batch' = [q \in Queues |-> NothingPending]
  BY DEF Restart
<1>2. PICK q \in Queues, h \in BOOLEAN :
          /\ current'  = IF h THEN q ELSE NoQueue
          /\ notifier' = IF h THEN q ELSE NoQueue
          /\ created'  = IF h THEN {q} ELSE {}
          /\ at' = [th \in Threads |-> IF h /\ th = "hydrate" THEN q ELSE NoQueue]
          /\ pc' = [th \in Threads |->
                      CASE th \in Events -> AfterRestart(pc[th])
                        [] h /\ th = "hydrate" -> "unback"
                        [] OTHER -> "idle"]
  BY RestartThreads, Zenon
<1>3. /\ current' \in Queues \cup {NoQueue} /\ notifier' \in Queues \cup {NoQueue}
      /\ created' \in SUBSET Queues
      /\ at' \in [Threads -> Queues \cup {NoQueue}]
  BY <1>2
<1>4. pc' \in [Threads -> SenderPoints \cup OtherPoints]
  <2>1. \A p : AfterRestart(p) \in {"new", "dropped", "done"}
    BY DEF AfterRestart
  <2> QED
    BY <1>2, <2>1 DEF SenderPoints, OtherPoints
<1>5. blacklisted' \in BOOLEAN /\ assumedOffline' \in BOOLEAN
  BY DEF Restart
<1>6. /\ wpc' = [r \in Queues |-> "stopped"] /\ running' = [r \in Queues |-> FALSE]
      /\ method' = [r \in Queues |-> "direct"] /\ spawned' = [r \in Queues |-> 0]
      /\ backingOff' = [r \in Queues |-> FALSE] /\ overflowed' = [r \in Queues |-> FALSE]
      /\ notify' = [r \in Queues |-> FALSE]
      /\ failures' = 0 /\ timer' = "off" /\ wasBlacklisted' = FALSE /\ done' = FALSE
      /\ restarts' = restarts + 1
      /\ UNCHANGED <<apiCalls, dbBlacklist, stored, accepted, delivered>>
  BY DEF Restart, world
<1>7. MemoryBounded'
  BY <1>1, EmptyQueues DEF MemoryBounded
<1>8. running' \in [Queues -> BOOLEAN] /\ wpc' \in [Queues -> WorkerPoints]
      /\ \A r \in Queues : running'[r] <=> wpc'[r] # "stopped"
  BY <1>6 DEF WorkerPoints
<1>9. /\ backingOff' \in [Queues -> BOOLEAN] /\ overflowed' \in [Queues -> BOOLEAN]
      /\ notify' \in [Queues -> BOOLEAN]
      /\ method' \in [Queues -> {"direct", "relay"}] /\ spawned' \in [Queues -> Nat]
  BY <1>6
<1>10. /\ pending' \in [Queues -> [Kinds -> Seq(Events)]]
       /\ batch' \in [Queues -> [Kinds -> Seq(Events)]]
  BY <1>1, EmptyQueues
<1>11. /\ failures' \in Nat /\ timer' \in {"off", "armed"} /\ restarts' \in Nat
       /\ apiCalls' \in Nat
       /\ stored' \in SUBSET Events /\ accepted' \in SUBSET Events
       /\ delivered' \in SUBSET Events
  BY <1>6 DEF Fit, TypeOK
<1>12. wasBlacklisted' \in BOOLEAN /\ done' \in BOOLEAN /\ dbBlacklist' \in BOOLEAN
  BY <1>6 DEF Fit, TypeOK
<1> QED
  BY <1>3, <1>4, <1>5, <1>7, <1>8, <1>9, <1>10, <1>11, <1>12 DEF Fit, TypeOK

\* A first start is well typed and within the limits.
LEMMA InitFits == Init => Fit
<1> SUFFICES ASSUME Init PROVE Fit
  OBVIOUS
<1>1. MemoryBounded
  BY EmptyQueues DEF Init, MemoryBounded
<1>2. pc \in [Threads -> SenderPoints \cup OtherPoints]
  BY DEF Init, SenderPoints, OtherPoints
<1>3. wpc \in [Queues -> WorkerPoints]
  BY DEF Init, WorkerPoints
<1> QED
  BY <1>1, <1>2, <1>3, EmptyQueues DEF Init, Fit, TypeOK

\* Fit is inductive.
LEMMA FitStep == Fit /\ [Next]_vars => Fit'
<1> SUFFICES ASSUME Fit, [Next]_vars PROVE Fit'
  OBVIOUS
<1>1. CASE UNCHANGED vars
  BY <1>1 DEF Fit, TypeOK, MemoryBounded, vars, objects, workers, table, stats, threads,
              world, process
<1>2. ASSUME NEW e \in Events, SendBegin(e) \/ Expire(e) PROVE Fit'
  BY <1>2, SenderFits, OthersFit
<1>3. CASE Thread
  <2>1. ASSUME NEW e \in Events, Sender(e) PROVE Fit'
    BY <2>1, SenderFits
  <2>2. ASSUME NEW q \in Queues, Closer(q) PROVE Fit'
    BY <2>2, WakeFits, OthersFit DEF Closer, Threads
  <2>3. CASE TimerThread
    BY <2>3, WakeFits, OthersFit DEF TimerThread, Threads, Other
  <2>4. CASE ApiThread
    BY <2>4, WakeFits, GetQueueFits, OthersFit
       DEF ApiThread, Threads, Other, SenderPoints, OtherPoints
  <2>5. CASE Wake("hydrate")
    BY <2>5, WakeFits DEF Threads, Other
  <2> QED
    BY <1>3, <2>1, <2>2, <2>3, <2>4, <2>5 DEF Thread
<1>4. ASSUME NEW q \in Queues, Worker(q) PROVE Fit'
  BY <1>4, WorkerFits
<1> QED
  BY <1>1, <1>2, <1>3, <1>4, OthersFit, RestartFits DEF Next

\* Every reachable state is well typed, and running[q] holds exactly while a worker of
\* q is between its CompareAndSwap and its deferred running.Store(false), for any
\* number of events, queue objects, failures and restarts.
THEOREM TypeCorrect == Spec => []TypeOK
<1>1. Fit => TypeOK
  BY DEF Fit
<1> QED
  BY <1>1, InitFits, FitStep, PTL DEF Spec

\* The pending events of a kind never exceed the memory limit, although senders append
\* (each after its own test of the length) and workers reload pages concurrently.
THEOREM MemoryIsBounded == Spec => []MemoryBounded
<1>1. Fit => MemoryBounded
  BY DEF Fit
<1> QED
  BY <1>1, InitFits, FitStep, PTL DEF Spec

-----------------------------------------------------------------------------
(* The events of a transaction stay the first ones pending.                *)

\* A step that does not disturb the transaction of r, if r has one afterwards.
Undisturbed(r) ==
    wpc'[r] \in Transacting =>
        wpc[r] \in Transacting /\ pending'[r] = pending[r] /\ batch'[r] = batch[r]

\* If no transaction is disturbed, every batch stays a prefix.
LEMMA UndisturbedPrefix ==
  ASSUME BatchIsPrefix, \A r \in Queues : Undisturbed(r) PROVE BatchIsPrefix'
BY DEF BatchIsPrefix, Undisturbed

\* No goroutine but a worker and an appending sender touches queues or transactions.
LEMMA ThreadsKeepTransactions ==
  ASSUME NEW th, NEW to, Wake(th) \/ GetQueueCheck(th, to) \/ GetQueueGet(th, to)
  PROVE  UNCHANGED <<wpc, pending, batch, stored, accepted, delivered>>
BY DEF Wake, WakeNotify, WakeUnback, WakeSpawn, GetQueueCheck, GetQueueGet, objects, workers, world

\* A sender appends behind a transaction.
LEMMA AppendPrefix ==
  ASSUME Fit, BatchIsPrefix, NEW e \in Events, SendAppend(e) PROVE BatchIsPrefix'
<1> DEFINE q == at[e]
           k == KindOf(e)
<1>1. k \in Kinds
  BY DEF KindOf, Kinds
<1>2. UNCHANGED <<wpc, batch>>
  BY DEF SendAppend, workers
<1>3. CASE pending' = pending
  BY <1>2, <1>3 DEF BatchIsPrefix
<1>4. CASE pending' = [pending EXCEPT ![q] = [pending[q] EXCEPT ![k] = Append(pending[q][k], e)]]
  <2> SUFFICES ASSUME NEW r \in Queues, NEW j \in Kinds, wpc[r] \in Transacting
               PROVE  /\ Len(batch[r][j]) <= Len(pending'[r][j])
                      /\ batch[r][j] = SubSeq(pending'[r][j], 1, Len(batch[r][j]))
    BY <1>2 DEF BatchIsPrefix
  <2>1. /\ pending[r][j] \in Seq(Events) /\ batch[r][j] \in Seq(Events)
        /\ pending \in [Queues -> [Kinds -> Seq(Events)]]
    BY DEF Fit, TypeOK
  <2>2. /\ Len(batch[r][j]) <= Len(pending[r][j])
        /\ batch[r][j] = SubSeq(pending[r][j], 1, Len(batch[r][j]))
    BY DEF BatchIsPrefix
  <2> HIDE DEF q, k
  <2>3. pending'[r][j] = pending[r][j] \/ pending'[r][j] = Append(pending[r][j], e)
    <3>1. CASE q \in Queues
      BY <1>1, <1>4, <2>1, <3>1
    <3>2. CASE q \notin Queues
      BY <1>4, <2>1, <3>2
    <3> QED
      BY <3>1, <3>2
  <2>4. ASSUME NEW s \in Seq(Events), NEW n \in Nat, n <= Len(s)
        PROVE  n <= Len(Append(s, e)) /\ SubSeq(Append(s, e), 1, n) = SubSeq(s, 1, n)
    BY <2>4
  <2> QED
    BY <2>1, <2>2, <2>3, <2>4
<1> QED
  BY <1>3, <1>4 DEF SendAppend

\* A worker puts a transaction together from the first events pending.
LEMMA SnapshotPrefix ==
  ASSUME Fit, BatchIsPrefix, NEW q \in Queues, Snapshot(q) PROVE BatchIsPrefix'
<1>1. /\ wpc \in [Queues -> WorkerPoints] /\ batch \in [Queues -> [Kinds -> Seq(Events)]]
      /\ pending \in [Queues -> [Kinds -> Seq(Events)]]
  BY DEF Fit, TypeOK
<1>2. /\ pending' = pending
      /\ batch' = [batch EXCEPT ![q] = [k \in Kinds |-> Prefix(q, k)]]
      /\ \A r \in Queues : r # q => wpc'[r] = wpc[r]
  BY <1>1 DEF Snapshot, Move, objects
<1> SUFFICES ASSUME NEW r \in Queues, NEW k \in Kinds, wpc'[r] \in Transacting
             PROVE  /\ Len(batch'[r][k]) <= Len(pending[r][k])
                    /\ batch'[r][k] = SubSeq(pending[r][k], 1, Len(batch'[r][k]))
  BY <1>2 DEF BatchIsPrefix
<1>3. CASE r # q
  BY <1>1, <1>2, <1>3 DEF BatchIsPrefix
<1>4. CASE r = q
  <2> DEFINE n == Least(Len(pending[q][k]), MaxPerTransaction[k])
  <2>1. batch'[r][k] = SubSeq(pending[q][k], 1, n)
    BY <1>1, <1>2, <1>4 DEF Prefix
  <2>2. n \in Nat /\ n <= Len(pending[q][k]) /\ pending[q][k] \in Seq(Events)
    BY <1>1, LimitType DEF Least
  <2> HIDE DEF n
  <2>3. Len(SubSeq(pending[q][k], 1, n)) = n
    BY <2>2
  <2> QED
    BY <1>4, <2>1, <2>2, <2>3
<1> QED
  BY <1>3, <1>4

\* BatchIsPrefix is inductive, given the types.
LEMMA PrefixStep == Fit /\ BatchIsPrefix /\ [Next]_vars => BatchIsPrefix'
<1> SUFFICES ASSUME Fit, BatchIsPrefix, [Next]_vars PROVE BatchIsPrefix'
  OBVIOUS
<1>0. wpc \in [Queues -> WorkerPoints]
  BY DEF Fit, TypeOK
<1>1. ASSUME UNCHANGED <<wpc, pending, batch>> PROVE BatchIsPrefix'
  BY <1>1 DEF BatchIsPrefix
<1>2. CASE UNCHANGED vars
  BY <1>1, <1>2 DEF vars, objects, workers
<1>3. ASSUME NEW e \in Events, SendBegin(e) \/ Expire(e) PROVE BatchIsPrefix'
  BY <1>1, <1>3 DEF SendBegin, Expire, objects, workers
<1>4. CASE Thread
  <2>1. ASSUME NEW e \in Events, Sender(e), ~SendAppend(e) PROVE BatchIsPrefix'
    BY <1>1, <2>1, ThreadsKeepTransactions
       DEF Sender, SendAssociate, SendBlacklistCheck, SendBackoffCheck, objects, workers
  <2>2. ASSUME NEW q \in Queues, Closer(q) PROVE BatchIsPrefix'
    BY <1>1, <2>2, ThreadsKeepTransactions DEF Closer, CloseCheck, workers
  <2>3. CASE TimerThread \/ ApiThread \/ Wake("hydrate")
    BY <1>1, <2>3, ThreadsKeepTransactions
       DEF TimerThread, ApiThread, TimerNotifier, RetryPending, objects, workers
  <2> QED
    BY <1>4, <2>1, <2>2, <2>3, AppendPrefix DEF Thread
<1>5. ASSUME NEW q \in Queues, Worker(q) PROVE BatchIsPrefix'
  <2> SUFFICES ASSUME ~Snapshot(q) PROVE \A r \in Queues : Undisturbed(r)
    BY SnapshotPrefix, UndisturbedPrefix
  <2> USE <1>0 DEF Undisturbed, Transacting, Move
  <2>1. CASE Start(q) \/ SelectNotify(q) \/ SelectIdle(q) \/ SelectDone(q)
    BY <2>1 DEF Start, SelectNotify, SelectIdle, SelectDone, objects
  <2>2. CASE Loop(q)
    <3>1. /\ wpc'[q] \notin Transacting /\ batch' = batch
          /\ \A r \in Queues : r # q => wpc'[r] = wpc[r]
      BY <2>2 DEF Loop
    <3>2. \A r \in Queues : r # q => pending'[r] = pending[r]
      BY <2>2 DEF Loop, Load, Fit, TypeOK
    <3> QED
      BY <3>1, <3>2
  <2>3. CASE Send(q) \/ CleanPDUs(q) \/ CleanEDUs(q)
    BY <2>3 DEF Send, CleanPDUs, CleanEDUs, Clean, objects
  <2>4. CASE TransactionSuccess(q) \/ TransactionFailure(q) \/ BackOff(q)
    BY <2>4 DEF TransactionSuccess, TransactionFailure, BackOff, objects
  <2>5. CASE RemoveSent(q)
    BY <2>5 DEF RemoveSent, Fit, TypeOK
  <2>6. CASE BlacklistClear(q)
    BY <2>6 DEF BlacklistClear, Fit, TypeOK
  <2>7. CASE BlacklistUnassign(q) \/ BlacklistDelete(q)
    BY <2>7 DEF BlacklistUnassign, BlacklistDelete, objects
  <2>8. CASE Stop(q)
    BY <2>8 DEF Stop, Fit, TypeOK
  <2> QED
    BY <1>5, <2>1, <2>2, <2>3, <2>4, <2>5, <2>6, <2>7, <2>8 DEF Worker
<1>6. CASE TimerFires \/ ApiSuccess \/ ApiFailure \/ ApiAlive \/ Shutdown
  BY <1>1, <1>6 DEF TimerFires, ApiSuccess, ApiFailure, ApiAlive, Shutdown, objects, workers
<1>7. CASE Restart
  BY <1>7 DEF Restart, BatchIsPrefix, Transacting
<1> QED
  BY <1>2, <1>3, <1>4, <1>5, <1>6, <1>7 DEF Next

\* From its snapshot until it is dropped from memory the contents of a transaction are
\* the first pending events of each kind, whatever is appended meanwhile, so that the
\* cut of handleTransactionSuccess() removes exactly what was sent.
THEOREM BatchStaysPrefix == Spec => []BatchIsPrefix
<1>1. Init => BatchIsPrefix
  BY DEF Init, BatchIsPrefix, Transacting
<1> QED
  BY <1>1, InitFits, FitStep, PrefixStep, PTL DEF Spec

-----------------------------------------------------------------------------
(* The queue implements ReliableDelivery.                                  *)

BeforeAccept == {"new", "check", "get", "associate", "failed", "dropped"}
AfterAccept  == {"blacklistCheck", "append"}
Cleaning     == {"cleanPDUs", "cleanEDUs"}

\* Rows and deliveries are of accepted events.
RowsKnown == stored \subseteq accepted /\ delivered \subseteq accepted

\* A sender is before or behind the writing of its row.
SendersKnown ==
    \A e \in Events : /\ pc[e] \in AfterAccept => e \in accepted
                      /\ pc[e] \in BeforeAccept => e \notin accepted

\* Memory and transactions hold accepted events; what is being cleaned was delivered.
QueuesKnown ==
    \A q \in Queues :
        /\ \A k \in Kinds : pending[q][k] \in Seq(accepted) /\ batch[q][k] \in Seq(accepted)
        /\ wpc[q] \in Cleaning => BatchEvents(q) \subseteq delivered

Known == RowsKnown /\ SendersKnown /\ QueuesKnown

\* What the other steps may do to the senders and to the queues.
SendersKept ==
    \A e \in Events : /\ pc'[e] \in AfterAccept => pc[e] \in AfterAccept
                      /\ pc'[e] \in BeforeAccept => pc[e] \in BeforeAccept
QueuesKept ==
    \A q \in Queues : /\ pending'[q] = pending[q] \/ pending'[q] = NothingPending
                      /\ batch'[q] = batch[q] \/ batch'[q] = NothingPending
                      /\ wpc'[q] \in Cleaning => wpc[q] \in Cleaning /\ batch'[q] = batch[q]

\* Senders that stay on their side of the row keep SendersKnown.
LEMMA SendersFrame ==
  ASSUME SendersKnown, SendersKept, accepted' = accepted PROVE SendersKnown'
BY DEF SendersKnown, SendersKept

\* Queues that are kept or emptied keep QueuesKnown.
LEMMA QueuesFrame ==
  ASSUME QueuesKnown, QueuesKept, accepted \subseteq accepted', delivered \subseteq delivered'
  PROVE  QueuesKnown'
<1> SUFFICES ASSUME NEW q \in Queues
             PROVE  /\ \A k \in Kinds : pending'[q][k] \in Seq(accepted') /\ batch'[q][k] \in Seq(accepted')
                    /\ wpc'[q] \in Cleaning => BatchEvents(q)' \subseteq delivered'
  BY DEF QueuesKnown
<1>1. ASSUME NEW k \in Kinds
      PROVE  pending'[q][k] \in Seq(accepted') /\ batch'[q][k] \in Seq(accepted')
  <2>1. NothingPending[k] \in Seq(accepted')
    BY DEF NothingPending
  <2>2. \A t \in Seq(accepted) : t \in Seq(accepted')
    OBVIOUS
  <2>3. pending[q][k] \in Seq(accepted) /\ batch[q][k] \in Seq(accepted)
    BY DEF QueuesKnown
  <2> QED
    BY <2>1, <2>2, <2>3 DEF QueuesKept
<1>2. ASSUME wpc'[q] \in Cleaning PROVE BatchEvents(q)' \subseteq delivered'
  BY <1>2 DEF QueuesKnown, QueuesKept, BatchEvents
<1> QED
  BY <1>1, <1>2

\* A step that writes no row, delivers nothing and keeps senders and queues.
LEMMA KnownFrame ==
  ASSUME Known, SendersKept, QueuesKept, accepted' = accepted, delivered' = delivered,
         stored' \subseteq stored
  PROVE  Known'
BY SendersFrame, QueuesFrame DEF Known, RowsKnown

\* A goroutine that moves and is not the sender of an event.
LEMMA OthersKeepSenders ==
  ASSUME Fit, NEW th \in Threads \ Events, NEW to, pc' = [pc EXCEPT ![th] = to]
  PROVE  SendersKept
BY DEF Fit, TypeOK, SendersKept, Threads

\* A sender that moves from one side of the writing of its row to the same side.
LEMMA SenderMoves ==
  ASSUME Fit, NEW e \in Events, NEW to, pc' = [pc EXCEPT ![e] = to],
         to \in AfterAccept => pc[e] \in AfterAccept,
         to \in BeforeAccept => pc[e] \in BeforeAccept
  PROVE  SendersKept
BY DEF Fit, TypeOK, SendersKept, Threads

\* wakeQueueAndNotify() touches no event.
LEMMA WakeKnown ==
  ASSUME Fit, Known, NEW th \in Threads, Wake(th) PROVE Known'
<1>1. UNCHANGED <<wpc, pending, batch, stored, accepted, delivered>>
  BY ThreadsKeepTransactions
<1>2. SendersKept
  <2>1. PICK to \in {"unback", "spawn", "done", "idle"} : pc' = [pc EXCEPT ![th] = to]
    BY DEF Wake, WakeNotify, WakeUnback, WakeSpawn, Proceed, Goto, Rest
  <2>2. to \notin AfterAccept /\ to \notin BeforeAccept
    BY DEF AfterAccept, BeforeAccept
  <2> QED
    BY <2>1, <2>2, OthersKeepSenders, SenderMoves
<1>3. QueuesKept
  BY <1>1 DEF QueuesKept
<1> QED
  BY <1>1, <1>2, <1>3, KnownFrame

\* A sender accepts its event once, and appends it only afterwards.
LEMMA SenderKnown ==
  ASSUME Fit, Known, NEW e \in Events, SendBegin(e) \/ Sender(e) PROVE Known'
<1> USE DEF AfterAccept, BeforeAccept, Goto, Proceed
<1>1. CASE SendBegin(e) \/ SendBlacklistCheck(e) \/ SendBackoffCheck(e)
  <2>1. SendersKept
    BY <1>1, SenderMoves DEF SendBegin, SendBlacklistCheck, SendBackoffCheck
  <2>2. QueuesKept /\ UNCHANGED world
    BY <1>1 DEF SendBegin, SendBlacklistCheck, SendBackoffCheck, objects, workers, QueuesKept
  <2> QED
    BY <2>1, <2>2, KnownFrame DEF world
<1>2. CASE GetQueueCheck(e, "dropped") \/ GetQueueGet(e, "associate")
  <2>1. SendersKept
    BY <1>2, SenderMoves DEF GetQueueCheck, GetQueueGet
  <2>2. QueuesKept /\ UNCHANGED world
    BY <1>2 DEF GetQueueCheck, GetQueueGet, objects, workers, QueuesKept
  <2> QED
    BY <2>1, <2>2, KnownFrame DEF world
<1>3. CASE SendAssociate(e)
  <2>0. e \notin accepted
    BY <1>3 DEF SendAssociate, Known, SendersKnown
  <2>1. QueuesKept /\ delivered' = delivered
    BY <1>3 DEF SendAssociate, objects, workers, QueuesKept
  <2>2. CASE /\ stored' = stored \cup {e} /\ accepted' = accepted \cup {e}
             /\ pc' = [pc EXCEPT ![e] = "blacklistCheck"]
    <3>1. SendersKnown'
      BY <2>2 DEF Known, SendersKnown, Fit, TypeOK, Threads
    <3>2. QueuesKnown'
      BY <2>1, <2>2, QueuesFrame DEF Known
    <3>3. RowsKnown'
      BY <2>1, <2>2 DEF Known, RowsKnown
    <3> QED
      BY <3>1, <3>2, <3>3 DEF Known
  <2>3. CASE stored' = stored /\ accepted' = accepted /\ pc' = [pc EXCEPT ![e] = "failed"]
    <3>1. SendersKept
      BY <1>3, <2>3, SenderMoves DEF SendAssociate
    <3> QED
      BY <2>1, <2>3, <3>1, KnownFrame
  <2> QED
    BY <1>3, <2>2, <2>3 DEF SendAssociate
<1>4. CASE SendAppend(e)
  <2>0. pc[e] = "append" /\ pc' = [pc EXCEPT ![e] = "backoffCheck"] /\ UNCHANGED <<batch, wpc, world>>
    BY <1>4 DEF SendAppend, workers
  <2>1. SendersKept
    BY <2>0, SenderMoves
  <2>2. e \in accepted
    BY <2>0 DEF Known, SendersKnown
  <2>3. CASE pending' = pending
    BY <2>0, <2>1, <2>3, KnownFrame DEF world, QueuesKept
  <2>4. CASE pending' = [pending EXCEPT ![at[e]] = [pending[at[e]] EXCEPT ![KindOf(e)] =
                                  Append(pending[at[e]][KindOf(e)], e)]]
    <3> DEFINE q == at[e]
               k == KindOf(e)
    <3>1. pending \in [Queues -> [Kinds -> Seq(Events)]] /\ k \in Kinds
      BY DEF Fit, TypeOK, KindOf, Kinds
    <3> HIDE DEF q, k
    <3>2. pending' = [pending EXCEPT ![q] = [pending[q] EXCEPT ![k] = Append(pending[q][k], e)]]
      BY <2>4 DEF q, k
    <3>3. ASSUME NEW r \in Queues, NEW j \in Kinds
          PROVE  pending'[r][j] = pending[r][j] \/ pending'[r][j] = Append(pending[r][j], e)
      <4>1. CASE q \in Queues
        BY <3>1, <3>2, <4>1
      <4>2. CASE q \notin Queues
        BY <3>1, <3>2, <4>2
      <4> QED
        BY <4>1, <4>2
    <3>4. ASSUME NEW r \in Queues, NEW j \in Kinds PROVE pending'[r][j] \in Seq(accepted)
      <4>1. pending[r][j] \in Seq(accepted)
        BY DEF Known, QueuesKnown
      <4>2. Append(pending[r][j], e) \in Seq(accepted)
        BY <2>2, <4>1
      <4> QED
        BY <3>3, <4>1, <4>2
    <3>5. QueuesKnown'
      BY <2>0, <3>4 DEF Known, QueuesKnown, BatchEvents, world
    <3> QED
      BY <2>0, <2>1, <3>5, SendersFrame DEF Known, RowsKnown, world
  <2> QED
    BY <1>4, <2>3, <2>4 DEF SendAppend
<1> QED
  BY <1>1, <1>2, <1>3, <1>4, WakeKnown DEF Sender, Threads

\* New pending events and a new transaction for q, of accepted events.
LEMMA QueueReplaced ==
  ASSUME Fit, Known, NEW q \in Queues, NEW v \in [Kinds -> Seq(accepted)],
         NEW b \in [Kinds -> Seq(accepted)],
         pending' = [pending EXCEPT ![q] = v], batch' = [batch EXCEPT ![q] = b],
         NEW to, to \notin Cleaning, wpc' = [wpc EXCEPT ![q] = to],
         pc' = pc, UNCHANGED <<stored, accepted, delivered>>
  PROVE  Known'
<1>1. /\ pending \in [Queues -> [Kinds -> Seq(Events)]] /\ batch \in [Queues -> [Kinds -> Seq(Events)]]
      /\ wpc \in [Queues -> WorkerPoints]
  BY DEF Fit, TypeOK
<1>2. pending'[q] = v /\ batch'[q] = b /\ wpc'[q] = to
  BY <1>1
<1>3. \A r \in Queues : r # q => pending'[r] = pending[r] /\ batch'[r] = batch[r] /\ wpc'[r] = wpc[r]
  BY <1>1
<1>4. QueuesKnown'
  <2> SUFFICES ASSUME NEW r \in Queues
               PROVE  /\ \A k \in Kinds : pending'[r][k] \in Seq(accepted) /\ batch'[r][k] \in Seq(accepted)
                      /\ wpc'[r] \in Cleaning => BatchEvents(r)' \subseteq delivered
    BY DEF QueuesKnown
  <2>1. CASE r = q
    BY <1>2, <2>1
  <2>2. CASE r # q
    BY <1>3, <2>2 DEF Known, QueuesKnown, BatchEvents
  <2> QED
    BY <2>1, <2>2
<1>5. SendersKnown' /\ RowsKnown'
  BY DEF Known, SendersKnown, RowsKnown
<1> QED
  BY <1>4, <1>5 DEF Known

\* A transaction holds accepted events.
LEMMA BatchAccepted ==
  ASSUME Known, NEW q \in Queues PROVE BatchEvents(q) \subseteq accepted
<1>1. \A k \in Kinds : Members(batch[q][k]) \subseteq accepted
  BY DEF Known, QueuesKnown, Members
<1> QED
  BY <1>1 DEF BatchEvents, Kinds

\* A worker loads rows, sends a prefix and cleans only what was answered.
LEMMA WorkerKnown ==
  ASSUME Fit, Known, NEW q \in Queues, Worker(q) PROVE Known'
<1>0. /\ wpc \in [Queues -> WorkerPoints]
      /\ pending \in [Queues -> [Kinds -> Seq(Events)]]
      /\ batch \in [Queues -> [Kinds -> Seq(Events)]]
  BY DEF Fit, TypeOK
<1>1. /\ pending[q] \in [Kinds -> Seq(accepted)]
      /\ batch[q] \in [Kinds -> Seq(accepted)]
  BY <1>0 DEF Known, QueuesKnown
<1>2. CASE \/ Start(q) \/ SelectNotify(q) \/ SelectIdle(q) \/ SelectDone(q)
           \/ TransactionSuccess(q) \/ TransactionFailure(q) \/ BackOff(q)
           \/ BlacklistUnassign(q) \/ BlacklistDelete(q)
  <2>1. UNCHANGED <<pc, pending, batch, stored, accepted, delivered>>
    BY <1>2 DEF Start, SelectNotify, SelectIdle, SelectDone, TransactionSuccess,
                TransactionFailure, BackOff, BlacklistUnassign, BlacklistDelete, objects,
                threads, world
  <2>2. \A r \in Queues : wpc'[r] \in Cleaning => wpc[r] \in Cleaning
    BY <1>0, <1>2
       DEF Start, SelectNotify, SelectIdle, SelectDone, TransactionSuccess, TransactionFailure,
           BackOff, BlacklistUnassign, BlacklistDelete, Move, Cleaning
  <2> QED
    BY <2>1, <2>2, KnownFrame DEF SendersKept, QueuesKept
<1>3. CASE Loop(q)
  <2>1. /\ UNCHANGED <<pc, batch, stored, accepted, delivered>>
        /\ \E to : to \notin Cleaning /\ wpc' = [wpc EXCEPT ![q] = to]
    BY <1>3 DEF Loop, Move, Cleaning, threads, world
  <2>2. batch' = [batch EXCEPT ![q] = batch[q]]
    BY <1>0, <2>1
  <2>3. \E v \in [Kinds -> Seq(accepted)] : pending' = [pending EXCEPT ![q] = v]
    <3>1. CASE pending' = pending
      BY <1>0, <1>1, <3>1
    <3>2. CASE \E fp \in Fetches("pdu"), fe \in Fetches("edu") :
               \E p \in Reload(q, "pdu", fp), e \in Reload(q, "edu", fe) :
                  Load(q, fp, p, fe, e)
      <4>0. PICK fp \in Fetches("pdu"), fe \in Fetches("edu") :
               \E p \in Reload(q, "pdu", fp), e \in Reload(q, "edu", fe) :
                  Load(q, fp, p, fe, e)
        BY <3>2
      <4>1. PICK p \in Reload(q, "pdu", fp), e \in Reload(q, "edu", fe) :
                  Load(q, fp, p, fe, e)
        BY <4>0
      <4>2. "pdu" \in Kinds /\ "edu" \in Kinds
        BY DEF Kinds
      <4>3. /\ fp.rows \subseteq accepted /\ IsFiniteSet(fp.rows)
            /\ fe.rows \subseteq accepted /\ IsFiniteSet(fe.rows)
        BY <4>2, FetchedRows, EventsFinite, FS_Subset DEF Known, RowsKnown, Fit, TypeOK
      <4>4. p \in Seq(accepted) /\ e \in Seq(accepted)
        <5>1. \A k \in Kinds : /\ pending[q][k] \in Seq(accepted)
                               /\ Len(pending[q][k]) <= MaxInMemory[k]
          BY <1>1 DEF Fit, MemoryBounded
        <5> QED
          BY <4>2, <4>3, <5>1, ReloadBounded
      <4> QED
        BY <4>1, <4>4 DEF Load
    <3> QED
      BY <1>3, <3>1, <3>2 DEF Loop
  <2> QED
    BY <1>1, <2>1, <2>2, <2>3, QueueReplaced
<1>4. CASE Snapshot(q)
  <2>1. /\ UNCHANGED <<pc, pending, stored, accepted, delivered>>
        /\ \E to : to \notin Cleaning /\ wpc' = [wpc EXCEPT ![q] = to]
    BY <1>4 DEF Snapshot, Move, Cleaning, objects, threads, world
  <2>2. pending' = [pending EXCEPT ![q] = pending[q]]
    BY <1>0, <2>1
  <2>3. batch' = [batch EXCEPT ![q] = [k \in Kinds |-> Prefix(q, k)]]
    BY <1>4 DEF Snapshot
  <2>4. [k \in Kinds |-> Prefix(q, k)] \in [Kinds -> Seq(accepted)]
    <3>1. \A k \in Kinds : Prefix(q, k) \in Seq(accepted)
      BY <1>1, LimitType DEF Prefix, Least
    <3> QED
      BY <3>1
  <2> QED
    BY <1>1, <2>1, <2>2, <2>3, <2>4, QueueReplaced
<1>5. CASE RemoveSent(q)
  <2> DEFINE rest == [k \in Kinds |-> SubSeq(pending[q][k], Len(batch[q][k]) + 1, Len(pending[q][k]))]
  <2>1. /\ UNCHANGED <<pc, batch, stored, accepted, delivered>>
        /\ \E to : to \notin Cleaning /\ wpc' = [wpc EXCEPT ![q] = to]
    BY <1>5 DEF RemoveSent, Move, Cleaning, threads, world
  <2>2. batch' = [batch EXCEPT ![q] = batch[q]]
    BY <1>0, <2>1
  <2>3. pending' = [pending EXCEPT ![q] = rest]
    BY <1>5 DEF RemoveSent
  <2>4. rest \in [Kinds -> Seq(accepted)]
    <3>1. \A k \in Kinds : pending[q][k] \in Seq(accepted) /\ Len(batch[q][k]) \in Nat
      BY <1>1
    <3> QED
      BY <3>1, CutPrefix
  <2> HIDE DEF rest
  <2> QED
    BY <1>1, <2>1, <2>2, <2>3, <2>4, QueueReplaced
<1>6. CASE Send(q)
  <2>1. UNCHANGED <<pc, pending, batch, stored, accepted>>
    BY <1>6 DEF Send, objects, threads
  <2>2. /\ delivered' = delivered \/ delivered' = delivered \cup BatchEvents(q)
        /\ wpc'[q] \in Cleaning => delivered' = delivered \cup BatchEvents(q)
        /\ \A r \in Queues : r # q => wpc'[r] = wpc[r]
    BY <1>0, <1>6 DEF Send, Move, Cleaning
  <2>3. RowsKnown'
    BY <2>1, <2>2, BatchAccepted DEF Known, RowsKnown
  <2>4. SendersKnown'
    BY <2>1 DEF Known, SendersKnown
  <2>5. QueuesKnown'
    BY <2>1, <2>2 DEF Known, QueuesKnown, BatchEvents
  <2> QED
    BY <2>3, <2>4, <2>5 DEF Known
<1>7. CASE CleanPDUs(q) \/ CleanEDUs(q)
  <2>1. UNCHANGED <<pc, pending, batch, accepted, delivered>> /\ stored' \subseteq stored
    BY <1>7 DEF CleanPDUs, CleanEDUs, Clean, objects, threads
  <2>2. \A r \in Queues : wpc'[r] \in Cleaning => wpc[r] \in Cleaning
    BY <1>0, <1>7 DEF CleanPDUs, CleanEDUs, Clean, Move, Cleaning
  <2> QED
    BY <2>1, <2>2, KnownFrame DEF SendersKept, QueuesKept
<1>8. CASE BlacklistClear(q)
  <2>1. UNCHANGED <<pc, batch, stored, accepted, delivered>>
    BY <1>8 DEF BlacklistClear, threads, world
  <2>2. QueuesKept
    BY <1>0, <1>8 DEF BlacklistClear, Move, Cleaning, QueuesKept
  <2> QED
    BY <2>1, <2>2, KnownFrame DEF SendersKept
<1>9. CASE Stop(q)
  <2>1. UNCHANGED <<pending, stored, accepted, delivered>>
    BY <1>9 DEF Stop, world
  <2>2. QueuesKept
    BY <1>0, <1>9 DEF Stop, Move, Cleaning, QueuesKept
  <2>3. SendersKept
    BY <1>9, OthersKeepSenders, ThreadsAssumption DEF Stop, Goto, Threads
  <2> QED
    BY <2>1, <2>2, <2>3, KnownFrame
<1> QED
  BY <1>2, <1>3, <1>4, <1>5, <1>6, <1>7, <1>8, <1>9 DEF Worker

\* The timer, the other users of the statistics, closing workers and shutdown touch
\* neither events nor rows.
LEMMA OthersKnown ==
  ASSUME Fit, Known,
         \/ \E q \in Queues : CloseCheck(q)
         \/ TimerFires \/ TimerNotifier \/ ApiSuccess \/ ApiFailure \/ ApiAlive
         \/ RetryPending \/ Shutdown
         \/ GetQueueCheck("api", "idle") \/ GetQueueGet("api", "pending")
  PROVE  Known'
<1>1. UNCHANGED <<wpc, pending, batch, stored, accepted, delivered>>
  BY ThreadsKeepTransactions
     DEF CloseCheck, TimerFires, TimerNotifier, ApiSuccess, ApiFailure, ApiAlive, RetryPending,
         Shutdown, objects, workers, world
<1>2. SendersKept
  <2>1. \E th \in Threads \ Events : \E to : pc' = pc \/ pc' = [pc EXCEPT ![th] = to]
    <3>1. {"timer", "api"} \cup Queues \subseteq Threads \ Events
      BY ThreadsAssumption DEF Threads, Other
    <3>2. \/ pc' = pc
          \/ \E th \in {"timer", "api"} \cup Queues : \E to : pc' = [pc EXCEPT ![th] = to]
      <4>1. ASSUME NEW q \in Queues, CloseCheck(q)
            PROVE  \E to : pc' = [pc EXCEPT ![q] = to]
        BY <4>1 DEF CloseCheck, Proceed, Goto
      <4>2. CASE TimerFires \/ TimerNotifier
        BY <4>2 DEF TimerFires, TimerNotifier, Goto
      <4>3. CASE ApiAlive \/ RetryPending \/ GetQueueCheck("api", "idle")
                 \/ GetQueueGet("api", "pending")
        BY <4>3 DEF ApiAlive, RetryPending, GetQueueCheck, GetQueueGet, Proceed, Goto
      <4>4. CASE ApiSuccess \/ ApiFailure \/ Shutdown
        BY <4>4 DEF ApiSuccess, ApiFailure, Shutdown, threads
      <4> QED
        BY <4>1, <4>2, <4>3, <4>4
    <3> QED
      BY <3>1, <3>2
  <2>2. CASE pc' = pc
    BY <2>2 DEF SendersKept
  <2> QED
    BY <2>1, <2>2, OthersKeepSenders
<1> QED
  BY <1>1, <1>2, KnownFrame DEF QueuesKept

\* A restart forgets what was in memory and redelivers what was not accepted.
LEMMA RestartKnown ==
  ASSUME Fit, Known, Restart PROVE Known'
<1>1. UNCHANGED <<stored, accepted, delivered>>
  BY DEF Restart, world
<1>2. QueuesKept
  BY DEF Restart, QueuesKept, Cleaning
<1>3. \A e \in Events : pc'[e] = AfterRestart(pc[e])
  <2>1. \E h \in BOOLEAN : pc' = [th \in Threads |->
                      CASE th \in Events -> AfterRestart(pc[th])
                        [] h /\ th = "hydrate" -> "unback"
                        [] OTHER -> "idle"]
    BY RestartThreads, Zenon
  <2>2. ASSUME NEW e \in Events PROVE e \in Threads /\ e # "hydrate"
    BY ThreadsAssumption DEF Threads, Other
  <2> QED
    BY <2>1, <2>2
<1>4. SendersKept
  BY <1>3 DEF SendersKept, AfterRestart, AfterAccept, BeforeAccept
<1> QED
  BY <1>1, <1>2, <1>4, KnownFrame

\* Known is inductive.
LEMMA KnownStep == Fit /\ Known /\ [Next]_vars => Known'
<1> SUFFICES ASSUME Fit, Known, [Next]_vars PROVE Known'
  OBVIOUS
<1>1. CASE UNCHANGED vars
  BY <1>1, KnownFrame DEF vars, objects, workers, threads, world, SendersKept, QueuesKept
<1>2. ASSUME NEW e \in Events, Expire(e) PROVE Known'
  BY <1>2, KnownFrame DEF Expire, objects, workers, threads, SendersKept, QueuesKept
<1>3. CASE Thread
  <2>1. ASSUME NEW q \in Queues, Closer(q) PROVE Known'
    BY <2>1, WakeKnown, OthersKnown DEF Closer, Threads
  <2>2. CASE TimerThread
    BY <2>2, WakeKnown, OthersKnown DEF TimerThread, Threads, Other
  <2>3. CASE ApiThread
    BY <2>3, WakeKnown, OthersKnown DEF ApiThread, Threads, Other
  <2>4. CASE Wake("hydrate")
    BY <2>4, WakeKnown DEF Threads, Other
  <2> QED
    BY <1>3, <2>1, <2>2, <2>3, <2>4, SenderKnown DEF Thread
<1> QED
  BY <1>1, <1>2, <1>3, SenderKnown, WorkerKnown, OthersKnown, RestartKnown DEF Next

\* At the first start nothing is accepted.
LEMMA InitKnown == Init => Known
<1> SUFFICES ASSUME Init PROVE Known
  OBVIOUS
<1>1. RowsKnown /\ SendersKnown
  BY DEF Init, RowsKnown, SendersKnown, AfterAccept, Threads
<1>2. QueuesKnown
  <2>1. \A q \in Queues, k \in Kinds : pending[q][k] = <<>> /\ batch[q][k] = <<>>
    BY DEF Init, NothingPending
  <2>2. \A q \in Queues : wpc[q] \notin Cleaning
    BY DEF Init, Cleaning
  <2>3. <<>> \in Seq(accepted)
    OBVIOUS
  <2> HIDE DEF Init
  <2> QED
    BY <2>1, <2>2, <2>3, Zenon DEF QueuesKnown
<1> QED
  BY <1>1, <1>2 DEF Known

\* Every step is a step of ReliableDelivery or leaves rows and deliveries alone.
LEMMA StepImplements == Fit /\ Known /\ [Next]_vars => [RD!Next]_(RD!vars)
<1> SUFFICES ASSUME Fit, Known, [Next]_vars PROVE RD!Next \/ UNCHANGED world
  BY DEF RD!vars, world
<1>1. CASE UNCHANGED vars
  BY <1>1 DEF vars
<1>2. ASSUME NEW e \in Events, Expire(e) PROVE RD!Next
  BY <1>2 DEF Expire, RD!Next, RD!Expire
<1>3. ASSUME NEW e \in Events, SendAssociate(e) PROVE RD!Next \/ UNCHANGED world
  <2>1. e \notin accepted
    BY <1>3 DEF SendAssociate, Proceed, Goto, Known, SendersKnown, BeforeAccept
  <2>2. \/ UNCHANGED world
        \/ stored' = stored \cup {e} /\ accepted' = accepted \cup {e} /\ delivered' = delivered
    BY <1>3 DEF SendAssociate, world
  <2> QED
    BY <2>1, <2>2 DEF RD!Next, RD!Accept
<1>4. ASSUME NEW q \in Queues, Send(q) PROVE RD!Next \/ UNCHANGED world
  <2>1. BatchEvents(q) \in SUBSET Events /\ BatchEvents(q) \subseteq accepted
    BY BatchAccepted DEF Fit, TypeOK
  <2>2. \/ UNCHANGED world
        \/ delivered' = delivered \cup BatchEvents(q) /\ UNCHANGED <<stored, accepted>>
    BY <1>4 DEF Send, world
  <2> QED
    BY <2>1, <2>2 DEF RD!Next, RD!Deliver
<1>5. ASSUME NEW q \in Queues, CleanPDUs(q) \/ CleanEDUs(q) PROVE RD!Next \/ UNCHANGED world
  <2>1. PICK k \in Kinds :
          \/ UNCHANGED world
          \/ stored' = stored \ Members(batch[q][k]) /\ UNCHANGED <<accepted, delivered>>
    BY <1>5 DEF CleanPDUs, CleanEDUs, Clean, Kinds, world
  <2>2. Members(batch[q][k]) \subseteq BatchEvents(q)
    BY DEF BatchEvents, Kinds
  <2>3. BatchEvents(q) \subseteq delivered
    BY <1>5 DEF CleanPDUs, CleanEDUs, Clean, Move, Known, QueuesKnown, Cleaning
  <2>4. Members(batch[q][k]) \in SUBSET Events
    BY <2>2, <2>3 DEF Fit, TypeOK
  <2> QED
    BY <2>1, <2>2, <2>3, <2>4 DEF RD!Next, RD!Forget
<1>6. CASE Thread
  <2>1. ASSUME NEW e \in Events, Sender(e), ~SendAssociate(e) PROVE UNCHANGED world
    BY <2>1, ThreadsKeepTransactions
       DEF Sender, SendBlacklistCheck, SendAppend, SendBackoffCheck, world
  <2>2. ASSUME NEW q \in Queues, Closer(q) PROVE UNCHANGED world
    BY <2>2, ThreadsKeepTransactions DEF Closer, CloseCheck, world
  <2>3. CASE TimerThread \/ ApiThread \/ Wake("hydrate")
    BY <2>3, ThreadsKeepTransactions DEF TimerThread, ApiThread, TimerNotifier, RetryPending, world
  <2> QED
    BY <1>3, <1>6, <2>1, <2>2, <2>3 DEF Thread
<1>7. ASSUME NEW q \in Queues, Worker(q) PROVE RD!Next \/ UNCHANGED world
  <2>1. \/ Send(q) \/ CleanPDUs(q) \/ CleanEDUs(q)
        \/ UNCHANGED world
    BY <1>7 DEF Worker, Start, Loop, SelectNotify, SelectIdle, SelectDone, Snapshot,
                TransactionSuccess, RemoveSent, TransactionFailure, BackOff, BlacklistClear,
                BlacklistUnassign, BlacklistDelete, Stop
  <2> QED
    BY <1>4, <1>5, <2>1
<1>8. CASE TimerFires \/ ApiSuccess \/ ApiFailure \/ ApiAlive \/ Shutdown \/ Restart
  BY <1>8 DEF TimerFires, ApiSuccess, ApiFailure, ApiAlive, Shutdown, Restart
<1>9. ASSUME NEW e \in Events, SendBegin(e) PROVE UNCHANGED world
  BY <1>9 DEF SendBegin
<1> QED
  BY <1>1, <1>2, <1>6, <1>7, <1>8, <1>9 DEF Next

\* The queue of a destination, with all its goroutines, memory limits, backoff,
\* blacklisting, half-finished transactions, database errors, shutdowns and crashes, is
\* an at-least-once delivery service: it implements ReliableDelivery.
THEOREM QueueIsReliable == Spec => Reliable
<1>1. Init => RD!Init
  BY DEF Init, RD!Init
<1> QED
  BY <1>1, InitFits, FitStep, InitKnown, KnownStep, StepImplements, PTL
     DEF Spec, Reliable, RD!Spec

\* An event whose row was written is stored until it was delivered, unless it is an EDU
\* that may expire: rows are deleted only after the answer to the transaction.
THEOREM NothingIsLost == Spec => []NoLoss
<1>1. Init => NoLoss
  BY DEF Init, NoLoss
<1>2. NoLoss /\ [RD!Next]_(RD!vars) => NoLoss'
  BY DEF NoLoss, RD!Next, RD!vars, RD!Accept, RD!Deliver, RD!Forget, RD!Expire
<1> QED
  BY <1>1, <1>2, InitFits, FitStep, InitKnown, KnownStep, StepImplements, PTL DEF Spec

=============================================================================
