-------------------- MODULE DestinationQueueWakeupProofs --------------------
(***************************************************************************)
(* Theorems about the wake-ups of DestinationQueue: nothing is stranded    *)
(* at a destination that answers, nor at one that fails and recovers, and  *)
(* a queue that backs off is woken.                                        *)
(***************************************************************************)
EXTENDS DestinationQueueProofs

\* Where a goroutine holds a queue object.
Holds == {"associate", "blacklistCheck", "append", "backoffCheck", "pending", "close",
          "notify", "unback", "spawn"}

\* A goroutine past getQueue() holds a queue, and a closing worker its own.
Holders ==
    /\ \A th \in Threads : pc[th] \in Holds => at[th] \in Queues
    /\ \A q \in Queues : pc[q] # "idle" => at[q] = q

\* A goroutine that moves to a point where it holds a queue has one, a worker its own.
LEMMA HolderMoves ==
  ASSUME Fit, Holders, NEW th \in Threads, NEW to, NEW v,
         pc' = [pc EXCEPT ![th] = to], at' = [at EXCEPT ![th] = v],
         to \in Holds => v \in Queues, th \in Queues /\ to # "idle" => v = th
  PROVE  Holders'
<1>1. pc \in [Threads -> SenderPoints \cup OtherPoints] /\ at \in [Threads -> Queues \cup {NoQueue}]
  BY DEF Fit, TypeOK
<1>2. pc'[th] = to /\ at'[th] = v
  BY <1>1
<1>3. \A x \in Threads : x # th => pc'[x] = pc[x] /\ at'[x] = at[x]
  BY <1>1
<1>4. Queues \subseteq Threads
  BY DEF Threads
<1> QED
  BY <1>2, <1>3, <1>4 DEF Holders

\* A goroutine that keeps its queue when it moves.
LEMMA HolderKeeps ==
  ASSUME Fit, Holders, NEW th \in Threads, NEW to, at' = at,
         pc' = [pc EXCEPT ![th] = to], to \in Holds => at[th] \in Queues,
         th \in Queues /\ to # "idle" => pc[th] # "idle"
  PROVE  Holders'
<1>1. at' = [at EXCEPT ![th] = at[th]]
  BY DEF Fit, TypeOK
<1>2. th \in Queues /\ to # "idle" => at[th] = th
  BY DEF Holders
<1> QED
  BY <1>1, <1>2, HolderMoves

\* A goroutine that goes on by Proceed keeps its queue or ends without one.
LEMMA HolderProceeds ==
  ASSUME Fit, Holders, NEW th \in Threads, NEW from \in Holds, NEW to \in SenderPoints \cup OtherPoints,
         Proceed(th, from, to), th \in Queues => to \notin {"done", "failed"}
  PROVE  Holders'
<1>1. pc[th] = from /\ pc' = [pc EXCEPT ![th] = to]
  BY DEF Proceed, Goto
<1>2. at[th] \in Queues /\ (th \in Queues => at[th] = th)
  BY <1>1 DEF Holders, Holds
<1>3. CASE to \in {"done", "failed", "idle"}
  <2>1. at' = [at EXCEPT ![th] = NoQueue]
    BY <1>3 DEF Proceed
  <2>2. to \notin Holds
    BY <1>3 DEF Holds
  <2> QED
    BY <1>1, <1>3, <2>1, <2>2, HolderMoves
<1>4. CASE to \notin {"done", "failed", "idle"}
  <2>1. at' = at
    BY <1>4 DEF Proceed, Fit, TypeOK
  <2>2. pc[th] # "idle"
    BY <1>1 DEF Holds
  <2> QED
    BY <1>1, <1>2, <2>1, <2>2, HolderKeeps
<1> QED
  BY <1>3, <1>4

\* The steps of a goroutine that wakes a queue.
LEMMA WakeHolders ==
  ASSUME Fit, Holders, NEW th \in Threads, Wake(th) PROVE Holders'
<1>1. CASE WakeNotify(th)
  <2>1. pc[th] = "notify" /\ pc' = [pc EXCEPT ![th] = "unback"] /\ at' = at
    BY <1>1 DEF WakeNotify, Goto
  <2> QED
    BY <2>1, HolderKeeps DEF Holders, Holds
<1>2. CASE WakeUnback(th)
  <2>1. pc[th] = "unback" /\ pc' = [pc EXCEPT ![th] = "spawn"] /\ at' = at
    BY <1>2 DEF WakeUnback, Goto
  <2> QED
    BY <2>1, HolderKeeps DEF Holders, Holds
<1>3. CASE WakeSpawn(th)
  <2>1. Proceed(th, "spawn", Rest(th))
    BY <1>3 DEF WakeSpawn
  <2>2. Rest(th) \in {"done", "idle"} /\ (th \in Queues => Rest(th) = "idle")
    BY ThreadsAssumption DEF Rest
  <2>3. "spawn" \in Holds /\ Rest(th) \in SenderPoints \cup OtherPoints
    BY <2>2 DEF Holds, SenderPoints, OtherPoints
  <2> QED
    BY <2>1, <2>2, <2>3, HolderProceeds
<1> QED
  BY <1>1, <1>2, <1>3 DEF Wake

\* getQueue() gives the goroutine a queue.
LEMMA GetQueueHolders ==
  ASSUME Fit, Holders, NEW th \in Threads \ Queues, NEW to, to \notin Holds, NEW found,
         GetQueueCheck(th, to) \/ GetQueueGet(th, found)
  PROVE  Holders'
<1>1. CASE GetQueueCheck(th, to)
  <2>1. PICK x : x \notin Holds /\ pc' = [pc EXCEPT ![th] = x] /\ at' = at
    BY <1>1 DEF GetQueueCheck, Goto, Holds
  <2> QED
    BY <2>1, HolderKeeps
<1>2. CASE GetQueueGet(th, found)
  <2>1. PICK q \in Queues : at' = [at EXCEPT ![th] = q]
    <3>1. current \in Queues \cup {NoQueue}
      BY DEF Fit, TypeOK
    <3> QED
      BY <1>2, <3>1 DEF GetQueueGet
  <2>2. pc' = [pc EXCEPT ![th] = found]
    BY <1>2 DEF GetQueueGet, Goto
  <2> QED
    BY <2>1, <2>2, HolderMoves
<1> QED
  BY <1>1, <1>2

\* A sender holds its queue until it ends.
LEMMA SenderHolders ==
  ASSUME Fit, Holders, NEW e \in Events, SendBegin(e) \/ Sender(e) PROVE Holders'
<1>0. e \in Threads \ Queues
  BY ThreadsAssumption DEF Threads
<1> USE DEF Holds, SenderPoints, OtherPoints
<1>1. CASE SendBegin(e)
  <2>1. pc' = [pc EXCEPT ![e] = "check"] /\ at' = at
    BY <1>1 DEF SendBegin, Goto
  <2> QED
    BY <1>0, <2>1, HolderKeeps
<1>2. CASE SendAssociate(e)
  <2>1. Proceed(e, "associate", "blacklistCheck") \/ Proceed(e, "associate", "failed")
    BY <1>2 DEF SendAssociate
  <2> QED
    BY <1>0, <2>1, HolderProceeds
<1>3. CASE SendBlacklistCheck(e)
  <2>1. Proceed(e, "blacklistCheck", "done") \/ Proceed(e, "blacklistCheck", "append")
    BY <1>3 DEF SendBlacklistCheck
  <2> QED
    BY <1>0, <2>1, HolderProceeds
<1>4. CASE SendAppend(e)
  <2>1. pc[e] = "append" /\ pc' = [pc EXCEPT ![e] = "backoffCheck"] /\ at' = at
    BY <1>4 DEF SendAppend, Goto
  <2> QED
    BY <1>0, <2>1, HolderKeeps DEF Holders
<1>5. CASE SendBackoffCheck(e)
  <2>1. Proceed(e, "backoffCheck", "done") \/ Proceed(e, "backoffCheck", "notify")
    BY <1>5 DEF SendBackoffCheck
  <2> QED
    BY <1>0, <2>1, HolderProceeds
<1>6. CASE GetQueueCheck(e, "dropped") \/ GetQueueGet(e, "associate")
  <2>1. "dropped" \notin Holds
    OBVIOUS
  <2> HIDE DEF Holds
  <2> QED
    BY <1>0, <1>6, <2>1, GetQueueHolders
<1> QED
  BY <1>0, <1>1, <1>2, <1>3, <1>4, <1>5, <1>6, WakeHolders DEF Sender

\* The timer, the other users of the statistics and a closing worker.
LEMMA OtherHolders ==
  ASSUME Fit, Holders,
         \/ \E q \in Queues : CloseCheck(q)
         \/ TimerFires \/ TimerNotifier \/ ApiAlive \/ RetryPending
         \/ GetQueueCheck("api", "idle") \/ GetQueueGet("api", "pending")
  PROVE  Holders'
<1>0. {"timer", "api"} \subseteq Threads \ Queues
  BY ThreadsAssumption DEF Threads, Other
<1> USE DEF Holds, SenderPoints, OtherPoints
<1>1. ASSUME NEW q \in Queues, CloseCheck(q) PROVE Holders'
  <2>1. Proceed(q, "close", "notify") \/ Proceed(q, "close", "idle")
    BY <1>1 DEF CloseCheck
  <2> QED
    BY <2>1, HolderProceeds DEF Threads
<1>2. CASE TimerFires
  <2>1. pc' = [pc EXCEPT !["timer"] = "notifier"] /\ at' = at
    BY <1>2 DEF TimerFires, Goto
  <2> QED
    BY <1>0, <2>1, HolderKeeps
<1>3. CASE TimerNotifier
  <2>1. CASE notifier # NoQueue /\ backingOff[notifier]
    <3>1. notifier \in Queues
      BY <2>1 DEF Fit, TypeOK
    <3>2. pc' = [pc EXCEPT !["timer"] = "notify"] /\ at' = [at EXCEPT !["timer"] = notifier]
      BY <1>3, <2>1 DEF TimerNotifier, Goto
    <3> QED
      BY <1>0, <3>1, <3>2, HolderMoves
  <2>2. CASE ~(notifier # NoQueue /\ backingOff[notifier])
    <3>1. pc' = [pc EXCEPT !["timer"] = "idle"] /\ at' = [at EXCEPT !["timer"] = NoQueue]
      BY <1>3, <2>2 DEF TimerNotifier, Goto
    <3> QED
      BY <1>0, <3>1, HolderMoves
  <2> QED
    BY <2>1, <2>2
<1>4. CASE ApiAlive
  <2>1. pc' = [pc EXCEPT !["api"] = "check"] /\ at' = at
    BY <1>4 DEF ApiAlive, Goto
  <2> QED
    BY <1>0, <2>1, HolderKeeps
<1>5. CASE RetryPending
  <2>1. Proceed("api", "pending", "notify") \/ Proceed("api", "pending", "idle")
    BY <1>5 DEF RetryPending
  <2> QED
    BY <1>0, <2>1, HolderProceeds
<1>6. CASE GetQueueCheck("api", "idle") \/ GetQueueGet("api", "pending")
  <2>1. "idle" \notin Holds
    OBVIOUS
  <2> HIDE DEF Holds
  <2> QED
    BY <1>0, <1>6, <2>1, GetQueueHolders
<1> QED
  BY <1>1, <1>2, <1>3, <1>4, <1>5, <1>6

\* After a restart only the goroutine of the rehydration holds a queue.
LEMMA RestartHolders ==
  ASSUME Fit, Restart PROVE Holders'
<1>1. PICK q \in Queues, h \in BOOLEAN :
          /\ at' = [th \in Threads |-> IF h /\ th = "hydrate" THEN q ELSE NoQueue]
          /\ pc' = [th \in Threads |->
                      CASE th \in Events -> AfterRestart(pc[th])
                        [] h /\ th = "hydrate" -> "unback"
                        [] OTHER -> "idle"]
  BY RestartThreads, Zenon
<1>2. ASSUME NEW th \in Threads
      PROVE  /\ pc'[th] \in {"new", "dropped", "done", "idle"} \/ (h /\ th = "hydrate")
             /\ h /\ th = "hydrate" => at'[th] = q
             /\ th \in Queues => pc'[th] = "idle"
  <2>1. \A p : AfterRestart(p) \in {"new", "dropped", "done"}
    BY DEF AfterRestart
  <2>2. "hydrate" \notin Queues /\ (th \in Queues => th \notin Events)
    BY ThreadsAssumption DEF Other
  <2> QED
    BY <1>1, <2>1, <2>2
<1>3. Queues \subseteq Threads
  BY DEF Threads
<1> QED
  BY <1>2, <1>3 DEF Holders, Holds

\* Holders is inductive.
LEMMA HoldersStep == Fit /\ Holders /\ [Next]_vars => Holders'
<1> SUFFICES ASSUME Fit, Holders, [Next]_vars PROVE Holders'
  OBVIOUS
<1>0. ASSUME UNCHANGED <<pc, at>> PROVE Holders'
  BY <1>0 DEF Holders
<1>1. CASE UNCHANGED vars
  BY <1>0, <1>1 DEF vars, threads
<1>2. ASSUME NEW e \in Events, SendBegin(e) \/ Expire(e) PROVE Holders'
  BY <1>0, <1>2, SenderHolders DEF Expire, threads
<1>3. CASE Thread
  <2>1. ASSUME NEW q \in Queues, Closer(q) PROVE Holders'
    BY <2>1, WakeHolders, OtherHolders DEF Closer, Threads
  <2>2. CASE TimerThread
    BY <2>2, WakeHolders, OtherHolders DEF TimerThread, Threads, Other
  <2>3. CASE ApiThread
    BY <2>3, WakeHolders, OtherHolders DEF ApiThread, Threads, Other
  <2>4. CASE Wake("hydrate")
    BY <2>4, WakeHolders DEF Threads, Other
  <2> QED
    BY <1>3, <2>1, <2>2, <2>3, <2>4, SenderHolders DEF Thread
<1>4. ASSUME NEW q \in Queues, Worker(q) PROVE Holders'
  <2>1. CASE Stop(q)
    <3>1. pc' = [pc EXCEPT ![q] = "close"] /\ at' = [at EXCEPT ![q] = q]
      BY <2>1 DEF Stop, Goto
    <3> QED
      BY <3>1, HolderMoves DEF Threads
  <2>2. CASE ~Stop(q)
    BY <1>0, <1>4, <2>2
       DEF Worker, Start, Loop, SelectNotify, SelectIdle, SelectDone, Snapshot, Send, CleanPDUs,
           CleanEDUs, Clean, TransactionSuccess, RemoveSent, TransactionFailure, BackOff,
           BlacklistClear, BlacklistUnassign, BlacklistDelete, threads
  <2> QED
    BY <2>1, <2>2
<1>5. CASE ApiSuccess \/ ApiFailure \/ Shutdown
  BY <1>0, <1>5 DEF ApiSuccess, ApiFailure, Shutdown, threads
<1> QED
  BY <1>1, <1>2, <1>3, <1>4, <1>5, OtherHolders, RestartHolders DEF Next

\* At the first start nobody holds a queue.
LEMMA InitHolders == Init => Holders
<1> SUFFICES ASSUME Init PROVE Holders
  OBVIOUS
<1>1. \A th \in Threads : pc[th] \in {"new", "idle"}
  BY DEF Init
<1>2. \A q \in Queues : pc[q] = "idle"
  BY ThreadsAssumption DEF Init, Threads
<1> QED
  BY <1>1, <1>2 DEF Holders, Holds

-----------------------------------------------------------------------------
(* A destination that answers                                              *)

\* The database works.
Dependable == DBOutcomes = {TRUE}

\* Every transaction is answered, the database works, and what fails outside the queue
\* stays below the threshold of the blacklist.
Healthy ==
    /\ Outcomes \subseteq {"direct", "relay"}
    /\ Dependable
    /\ MaxFailures < FailuresUntilBlacklist

\* There is room in memory for all rows of a kind.
Roomy ==
    \A q \in Queues, k \in Kinds :
        Len(pending[q][k]) + Cardinality(Rows(k)) < MaxInMemory[k]

\* The server is not blacklisted and no worker has met a failure.
Unblemished ==
    /\ ~blacklisted /\ ~dbBlacklist /\ failures <= MaxFailures
    /\ \A q \in Queues :
          /\ ~backingOff[q]
          /\ wpc[q] \notin {"failure", "backoff", "blacklist", "unassign", "delete"}

\* Whoever is about to end a backoff has left a notification for the worker, or another
\* is about to leave one.
Roused ==
    \A q \in Queues :
        backingOff[q] /\ (\E th \in Threads : at[th] = q /\ pc[th] = "unback") =>
            notify[q] \/ \E th \in Threads : at[th] = q /\ pc[th] = "notify"

\* Nothing has been blacklisted and nothing is about to be; a backoff may be on.
Calm ==
    /\ ~blacklisted
    /\ \A q \in Queues : wpc[q] \notin {"blacklist", "unassign", "delete"}
    /\ Roused

\* What was answered has lost its rows before it is cut from memory.
Cleaned ==
    \A q \in Queues :
        /\ wpc[q] \in {"cleanEDUs", "success", "remove"} =>
              Members(batch[q]["pdu"]) \cap stored = {}
        /\ wpc[q] \in {"success", "remove"} => Members(batch[q]["edu"]) \cap stored = {}

\* A goroutine that will start a worker of q if there is none.
Coming(q) ==
    \/ spawned[q] > 0
    \/ \E th \in Threads : at[th] = q /\ pc[th] \in {"unback", "spawn"}

\* The worker of q is going to load every row.
WillLoad(q) ==
    \/ wpc[q] = "loop" /\ overflowed[q]
    \/ wpc[q] = "stopped" /\ Coming(q)

\* A row is in memory, or a worker is going to load it, or its sender to append it.
Covered(e) ==
    \/ pc[e] \in AfterAccept
    \/ \E q \in Queues : e \in Members(pending[q][KindOf(e)]) \/ WillLoad(q)

\* q backs off, or its worker has met a failure and is about to make it back off.
Resting(q) == wpc[q] \in {"failure", "backoff"} \/ backingOff[q]

\* The worker of q is going to look at its memory, because it is about to or because
\* it, its successor or the last words of its predecessor will find a notification;
\* or a goroutine is about to notify it; or the end of a backoff will see to it.
Attended(q) ==
    \/ wpc[q] \in {"snapshot"} \cup Transacting
    \/ notify[q] /\ (wpc[q] # "stopped" \/ pc[q] = "close" \/ Coming(q))
    \/ \E th \in Threads : at[th] = q /\ pc[th] \in {"backoffCheck", "notify"}
    \/ Resting(q)

\* Unless the process is stopping, rows are covered and what is in memory attended to.
Awake ==
    ~done => /\ Cleaned
             /\ \A e \in stored : Covered(e)
             /\ \A q \in Queues : (\E k \in Kinds : pending[q][k] # <<>>) => Attended(q)

\* No step blacklists the server or makes a worker back off.
LEMMA UnblemishedStep ==
  ASSUME Healthy, Fit, Unblemished, [Next]_vars PROVE Unblemished'
<1>0. /\ wpc \in [Queues -> WorkerPoints] /\ backingOff \in [Queues -> BOOLEAN]
      /\ failures \in Nat /\ MaxFailures \in Nat /\ FailuresUntilBlacklist \in Nat
  BY LimitsAssumption DEF Fit, TypeOK
<1>1. ASSUME UNCHANGED <<backingOff, wpc, stats>> PROVE Unblemished'
  BY <1>1 DEF Unblemished, stats
<1>2. CASE UNCHANGED vars
  BY <1>1, <1>2 DEF vars, objects, workers
<1>3. ASSUME NEW th \in Threads, Wake(th) PROVE Unblemished'
  <2>1. CASE WakeUnback(th)
    <3>1. /\ backingOff' = [backingOff EXCEPT ![at[th]] = FALSE]
          /\ UNCHANGED <<wpc, stats>>
      BY <2>1 DEF WakeUnback, workers
    <3> QED
      BY <1>0, <3>1 DEF Unblemished, stats
  <2> QED
    BY <1>1, <1>3, <2>1 DEF Wake, WakeNotify, WakeSpawn, workers
<1>4. ASSUME NEW e \in Events, SendBegin(e) \/ Expire(e) \/ Sender(e) PROVE Unblemished'
  BY <1>1, <1>3, <1>4
     DEF SendBegin, Expire, Sender, GetQueueCheck, GetQueueGet, SendAssociate, SendBlacklistCheck,
         SendAppend, SendBackoffCheck, objects, workers, Threads
<1>5. ASSUME NEW q \in Queues, Closer(q) PROVE Unblemished'
  BY <1>1, <1>3, <1>5 DEF Closer, CloseCheck, objects, workers, Threads
<1>6. CASE TimerThread \/ ApiThread \/ Wake("hydrate") \/ Shutdown
  BY <1>1, <1>3, <1>6
     DEF TimerThread, ApiThread, TimerNotifier, RetryPending, GetQueueCheck, GetQueueGet,
         Shutdown, objects, workers, Threads, Other
<1>7. ASSUME NEW q \in Queues, Worker(q) PROVE Unblemished'
  <2>1. CASE \/ Start(q) \/ Loop(q) \/ SelectNotify(q) \/ SelectIdle(q) \/ Snapshot(q)
             \/ CleanPDUs(q) \/ CleanEDUs(q) \/ RemoveSent(q) \/ Stop(q)
    <3>1. UNCHANGED <<backingOff, stats>>
      BY <2>1 DEF Start, Loop, SelectNotify, SelectIdle, Snapshot, CleanPDUs, CleanEDUs, Clean,
                  RemoveSent, Stop, objects
    <3>2. \/ wpc' = wpc
          \/ \E to \in {"loop", "select", "snapshot", "stop", "send", "cleanEDUs", "success",
                        "stopped"} : wpc' = [wpc EXCEPT ![q] = to]
      BY <2>1 DEF Start, Loop, SelectNotify, SelectIdle, Snapshot, CleanPDUs, CleanEDUs, Clean,
                  RemoveSent, Stop, Move
    <3> QED
      BY <1>0, <3>1, <3>2 DEF Unblemished, stats
  <2>2. CASE Send(q)
    <3>1. wpc' = [wpc EXCEPT ![q] = "cleanPDUs"] /\ UNCHANGED <<backingOff, stats>>
      BY <2>2 DEF Send, Move, Healthy, objects
    <3> QED
      BY <1>0, <3>1 DEF Unblemished, stats
  <2>3. CASE SelectDone(q) \/ TransactionSuccess(q)
    <3>1. /\ backingOff' = backingOff /\ dbBlacklist' = dbBlacklist
          /\ blacklisted' = FALSE \/ blacklisted' = blacklisted
          /\ failures' = 0 \/ failures' = failures
          /\ \E to \in {"stop", "remove"} : wpc' = [wpc EXCEPT ![q] = to]
      BY <2>3 DEF SelectDone, TransactionSuccess, StatsSuccess, Move, objects
    <3> QED
      BY <1>0, <3>1 DEF Unblemished
  <2>4. CASE \/ TransactionFailure(q) \/ BackOff(q) \/ BlacklistClear(q) \/ BlacklistUnassign(q)
             \/ BlacklistDelete(q)
    BY <2>4 DEF TransactionFailure, BackOff, BlacklistClear, BlacklistUnassign, BlacklistDelete,
                Move, Unblemished
  <2> QED
    BY <1>7, <2>1, <2>2, <2>3, <2>4 DEF Worker
<1>8. CASE TimerFires \/ ApiSuccess \/ ApiAlive
  <2>1. UNCHANGED <<backingOff, wpc>>
    BY <1>8 DEF TimerFires, ApiSuccess, ApiAlive, objects, workers
  <2>2. /\ ~blacklisted' /\ ~dbBlacklist'
        /\ failures' = 0 \/ failures' = failures
    <3>1. CASE TimerFires
      BY <3>1 DEF TimerFires, Unblemished
    <3>2. CASE ApiSuccess
      BY <3>2 DEF ApiSuccess, StatsSuccess, Unblemished
    <3>3. CASE ApiAlive
      BY <3>3, Zenon DEF ApiAlive, StatsAlive, Unblemished
    <3> QED
      BY <1>8, <3>1, <3>2, <3>3
  <2> QED
    BY <1>0, <2>1, <2>2 DEF Unblemished
<1>9. CASE ApiFailure
  <2>1. UNCHANGED <<backingOff, wpc>> /\ failures < MaxFailures
    BY <1>9 DEF ApiFailure, objects, workers
  <2>2. \/ UNCHANGED stats
        \/ /\ failures' = failures + 1
           /\ blacklisted' = (failures + 1 >= FailuresUntilBlacklist)
           /\ dbBlacklist' = (dbBlacklist \/ failures + 1 >= FailuresUntilBlacklist)
    BY <1>9 DEF ApiFailure, StatsFailure
  <2>3. ~(failures + 1 >= FailuresUntilBlacklist) /\ failures + 1 <= MaxFailures
    BY <1>0, <2>1 DEF Healthy
  <2> QED
    BY <1>1, <2>1, <2>2, <2>3 DEF Unblemished
<1>10. CASE Restart
  BY <1>0, <1>10 DEF Restart, Unblemished
<1> QED
  BY <1>2, <1>4, <1>5, <1>6, <1>7, <1>8, <1>9, <1>10 DEF Next, Thread

\* What a restart or a first start begins with.
LEMMA InitUnblemished == Init => Unblemished
BY LimitsAssumption DEF Init, Unblemished

-----------------------------------------------------------------------------
(* Without blacklisting every step keeps rows covered and queues awake.    *)

\* A destination that answers is calm.
LEMMA UnblemishedIsCalm == Unblemished => Calm
BY DEF Unblemished, Calm, Roused

\* The state in which a step of the running process is taken.
Ready == /\ Fit /\ Known /\ BatchIsPrefix /\ Holders /\ Calm /\ Roomy
         /\ Awake /\ ~done

\* The members of two sequences put together.
LEMMA MembersConcat ==
  ASSUME NEW S, NEW s \in Seq(S), NEW t \in Seq(S)
  PROVE  Members(s \o t) = Members(s) \cup Members(t)
<1> DEFINE p == s \o t
           m == Len(s)
           n == Len(t)
<1>1. m \in Nat /\ n \in Nat
  OBVIOUS
<1>2. DOMAIN s = 1 .. m /\ DOMAIN t = 1 .. n
  OBVIOUS
<1>3. /\ DOMAIN p = 1 .. (m + n)
      /\ \A i \in 1 .. (m + n) : p[i] = IF i <= m THEN s[i] ELSE t[i - m]
  BY ConcatProperties
<1> HIDE DEF p, m, n
<1>4. ASSUME NEW i \in 1 .. (m + n) PROVE p[i] \in Members(s) \cup Members(t)
  <2>1. CASE i <= m
    BY <1>1, <1>2, <1>3, <2>1 DEF Members
  <2>2. CASE ~(i <= m)
    <3>1. i - m \in 1 .. n /\ p[i] = t[i - m]
      BY <1>1, <1>3, <2>2
    <3> QED
      BY <1>2, <3>1 DEF Members
  <2> QED
    BY <2>1, <2>2
<1>5. ASSUME NEW i \in 1 .. m PROVE s[i] \in Members(p)
  <2>1. i \in 1 .. (m + n) /\ p[i] = s[i]
    BY <1>1, <1>3
  <2> QED
    BY <1>3, <2>1 DEF Members
<1>6. ASSUME NEW i \in 1 .. n PROVE t[i] \in Members(p)
  <2>1. m + i \in 1 .. (m + n) /\ ~(m + i <= m) /\ (m + i) - m = i
    BY <1>1
  <2>2. p[m + i] = t[i]
    BY <1>3, <2>1
  <2> QED
    BY <1>3, <2>1, <2>2 DEF Members
<1>7. Members(p) \subseteq Members(s) \cup Members(t)
  BY <1>3, <1>4 DEF Members
<1>8. Members(s) \subseteq Members(p) /\ Members(t) \subseteq Members(p)
  BY <1>2, <1>5, <1>6 DEF Members
<1> QED
  BY <1>7, <1>8 DEF p

\* Memory with nothing left out: all the rows of the kind and what was there before.
LEMMA ReloadIsComplete ==
  ASSUME Dependable, Fit, Roomy, ~done, NEW q \in Queues, NEW k \in Kinds,
         NEW f \in Fetches(k), NEW p \in Reload(q, k, f)
  PROVE  Rows(k) \cup Members(pending[q][k]) \subseteq Members(p)
<1> DEFINE old  == pending[q][k]
           room == MaxInMemory[k] - Len(old)
           new  == f.rows \ Members(old)
<1>1. /\ old \in Seq(Events) /\ Len(old) \in Nat
      /\ Len(old) + Cardinality(Rows(k)) < MaxInMemory[k]
      /\ MaxInMemory[k] \in Nat
  BY LimitType DEF Fit, TypeOK, Roomy
<1>2. IsFiniteSet(Rows(k)) /\ Cardinality(Rows(k)) \in Nat
  <2>1. Rows(k) \in SUBSET Events
    BY DEF Rows, Fit, TypeOK
  <2> QED
    BY <2>1, EventsFinite, FS_Subset, FS_CardinalityType
<1>3. f.rows = Rows(k)
  <2>1. FALSE \notin DBResults
    BY DEF DBResults, Dependable
  <2>2. f \in [rows : Pages(k), ok : DBOutcomes \cap {TRUE}]
    BY <2>1 DEF Fetches
  <2>3. f.rows \in Pages(k)
    BY <2>2
  <2>4. f.rows \in SUBSET Rows(k) /\ Cardinality(f.rows) = Cardinality(Rows(k))
    BY <1>1, <1>2, <2>3 DEF Pages, Least
  <2> QED
    BY <1>2, <2>4, FS_Subset
<1>4. /\ IsFiniteSet(new) /\ Cardinality(new) \in Nat
      /\ Cardinality(new) <= Cardinality(Rows(k))
  <2>1. new \in SUBSET Rows(k)
    BY <1>3
  <2> QED
    BY <1>2, <2>1, FS_Subset, FS_CardinalityType
<1>5. PICK t \in Arrangements(new, Least(Cardinality(new), room)) : p = old \o t
  BY DEF Reload
<1>6. Least(Cardinality(new), room) = Cardinality(new)
  <2> DEFINE c == Cardinality(new)
             l == Len(old)
             m == MaxInMemory[k]
             r == Cardinality(Rows(k))
  <2>1. c \in Nat /\ l \in Nat /\ m \in Nat /\ r \in Nat /\ c <= r /\ l + r < m
    BY <1>1, <1>2, <1>4
  <2> HIDE DEF c, l, m, r
  <2>2. c <= m - l
    BY <2>1
  <2> QED
    BY <2>2 DEF Least, c, l, m
<1> DEFINE n == Cardinality(new)
<1>7. t \in Injection(1 .. n, new)
  BY <1>5, <1>6 DEF Arrangements, Injection, IsInjective
<1>8. Cardinality(1 .. n) = n
  BY <1>4, FS_Interval
<1>9. t \in Surjection(1 .. n, new) /\ t \in [1 .. n -> new]
  BY <1>4, <1>7, <1>8, FS_Injection DEF Injection
<1> HIDE DEF n, new
<1>10. t \in Seq(Events) /\ Len(t) = n
  <2>1. n \in Nat
    BY <1>4 DEF n
  <2>2. new \subseteq Events
    BY <1>3 DEF new, Rows, Fit, TypeOK
  <2> QED
    BY <1>9, <2>1, <2>2
<1>11. Members(p) = Members(old) \cup Members(t)
  BY <1>1, <1>5, <1>10, MembersConcat
<1>12. new \subseteq Members(t)
  BY <1>9 DEF Surjection, Members
<1> QED
  BY <1>3, <1>11, <1>12 DEF new

\* What is pending is what was sent and what is left.
LEMMA MembersCut ==
  ASSUME NEW S, NEW s \in Seq(S), NEW n \in Nat, n <= Len(s)
  PROVE  Members(s) \subseteq Members(SubSeq(s, 1, n)) \cup Members(SubSeq(s, n + 1, Len(s)))
<1> DEFINE front == SubSeq(s, 1, n)
           rest  == SubSeq(s, n + 1, Len(s))
           m     == Len(s)
<1>1. m \in Nat /\ DOMAIN s = 1 .. m /\ n <= m
  OBVIOUS
<1>2. DOMAIN front = 1 .. n /\ \A i \in 1 .. n : front[i] = s[i]
  OBVIOUS
<1>3. DOMAIN rest = 1 .. (m - n) /\ \A i \in 1 .. (m - n) : rest[i] = s[n + i]
  OBVIOUS
<1> HIDE DEF front, rest, m
<1>4. ASSUME NEW i \in 1 .. m PROVE s[i] \in Members(front) \cup Members(rest)
  <2>1. CASE i <= n
    <3>1. i \in 1 .. n
      BY <1>1, <2>1
    <3> QED
      BY <1>2, <3>1 DEF Members
  <2>2. CASE ~(i <= n)
    <3>1. i - n \in 1 .. (m - n) /\ n + (i - n) = i
      BY <1>1, <2>2
    <3> QED
      BY <1>3, <3>1 DEF Members
  <2> QED
    BY <2>1, <2>2
<1> QED
  BY <1>1, <1>4 DEF Members, front, rest, m

\* An appended event is a member, and so is everything that was one.
LEMMA MembersAppend ==
  ASSUME NEW S, NEW s \in Seq(S), NEW e \in S
  PROVE  Members(Append(s, e)) = Members(s) \cup {e}
<1> DEFINE p == Append(s, e)
           m == Len(s)
<1>1. m \in Nat /\ DOMAIN s = 1 .. m
  OBVIOUS
<1>2. DOMAIN p = 1 .. (m + 1) /\ p[m + 1] = e /\ \A i \in 1 .. m : p[i] = s[i]
  OBVIOUS
<1> HIDE DEF p, m
<1>3. m + 1 \in 1 .. (m + 1) /\ \A i \in 1 .. (m + 1) : i \in 1 .. m \/ i = m + 1
  BY <1>1
<1>4. \A i \in 1 .. m : i \in 1 .. (m + 1)
  BY <1>1
<1> QED
  BY <1>1, <1>2, <1>3, <1>4 DEF Members, p

-----------------------------------------------------------------------------
(* Frames                                                                  *)

\* Rows that are not touched, or only deleted, keep transactions cleaned.
LEMMA CleanedFrame ==
  ASSUME Cleaned, UNCHANGED <<wpc, batch>>, stored' \subseteq stored PROVE Cleaned'
BY DEF Cleaned

\* A row stays covered by what covered it.
LEMMA CoveredKept ==
  ASSUME NEW e \in Events, Covered(e),
         pc[e] \in AfterAccept => pc'[e] \in AfterAccept,
         \A q \in Queues : e \in Members(pending[q][KindOf(e)]) => e \in Members(pending'[q][KindOf(e)]),
         \A q \in Queues : WillLoad(q) => WillLoad(q)'
  PROVE  Covered(e)'
BY DEF Covered

\* Parts of Awake that make it up.
LEMMA AwakeParts ==
  ASSUME Cleaned', \A e \in stored' : Covered(e)',
         \A q \in Queues : (\E k \in Kinds : pending'[q][k] # <<>>) => Attended(q)'
  PROVE  Awake'
BY DEF Awake

\* A queue the step does not touch.
LEMMA OtherQueue ==
  ASSUME NEW r \in Queues, UNCHANGED <<pc, at>>, wpc'[r] = wpc[r], spawned'[r] = spawned[r],
         overflowed'[r] = overflowed[r], notify'[r] = notify[r], backingOff'[r] = backingOff[r]
  PROVE  /\ WillLoad(r) => WillLoad(r)'
         /\ Attended(r) => Attended(r)'
BY DEF WillLoad, Attended, Coming, Resting

\* Who comes to q still comes if somebody else moves.
LEMMA ComingKept ==
  ASSUME Fit, NEW th \in Threads, NEW to, NEW v, NEW q \in Queues,
         pc' = [pc EXCEPT ![th] = to], at' = [at EXCEPT ![th] = v],
         pc[th] \notin {"unback", "spawn"}, spawned'[q] = spawned[q], Coming(q)
  PROVE  Coming(q)'
<1>1. pc \in [Threads -> SenderPoints \cup OtherPoints] /\ at \in [Threads -> Queues \cup {NoQueue}]
  BY DEF Fit, TypeOK
<1>2. \A x \in Threads : x # th => pc'[x] = pc[x] /\ at'[x] = at[x]
  BY <1>1
<1> QED
  BY <1>2 DEF Coming

\* A step of a goroutine that is not attending to a queue.
PlainStep(th) ==
    /\ pc[th] \notin {"backoffCheck", "notify", "unback", "spawn", "close"}
    /\ \E to, v : pc' = [pc EXCEPT ![th] = to] /\ at' = [at EXCEPT ![th] = v]
    /\ pc[th] \in AfterAccept => pc'[th] \in AfterAccept
    /\ UNCHANGED <<objects, wpc>>

\* Such a step keeps rows covered and queues attended.
LEMMA PlainKeeps ==
  ASSUME Fit, NEW th \in Threads, PlainStep(th)
  PROVE  /\ \A e \in Events : Covered(e) => Covered(e)'
         /\ \A q \in Queues : Attended(q) => Attended(q)'
<1>1. pc \in [Threads -> SenderPoints \cup OtherPoints] /\ at \in [Threads -> Queues \cup {NoQueue}]
  BY DEF Fit, TypeOK
<1>2. PICK to, v : pc' = [pc EXCEPT ![th] = to] /\ at' = [at EXCEPT ![th] = v]
  BY DEF PlainStep
<1>3. UNCHANGED <<backingOff, overflowed, notify, pending, spawned, wpc>>
  BY DEF PlainStep, objects
<1>4. \A x \in Threads : x # th => pc'[x] = pc[x] /\ at'[x] = at[x]
  BY <1>1, <1>2
<1>5. \A q \in Queues : Coming(q) => Coming(q)'
  BY <1>2, <1>3, ComingKept DEF PlainStep
<1>6. \A q \in Queues : WillLoad(q) => WillLoad(q)'
  BY <1>3, <1>5 DEF WillLoad
<1>7. \A e \in Events : pc[e] \in AfterAccept => pc'[e] \in AfterAccept
  BY <1>4 DEF PlainStep, Threads
<1>8. \A e \in Events : Covered(e) => Covered(e)'
  BY <1>3, <1>6, <1>7, CoveredKept
<1>9. ASSUME NEW q \in Queues, Attended(q) PROVE Attended(q)'
  <2>1. pc[q] = "close" => pc'[q] = "close"
    BY <1>4 DEF PlainStep, Threads
  <2>2. ASSUME NEW x \in Threads, at[x] = q, pc[x] \in {"backoffCheck", "notify"}
        PROVE  at'[x] = q /\ pc'[x] \in {"backoffCheck", "notify"}
    BY <1>4, <2>2 DEF PlainStep
  <2> QED
    BY <1>3, <1>5, <1>9, <2>1, <2>2 DEF Attended, Resting
<1> QED
  BY <1>8, <1>9

\* A plain step that writes no row.
LEMMA PlainAwake ==
  ASSUME Ready, NEW th \in Threads, PlainStep(th), batch' = batch, stored' \subseteq stored
  PROVE  Awake'
<1>1. Cleaned /\ (\A e \in stored : Covered(e)) /\ stored \subseteq Events
      /\ (\A q \in Queues : (\E k \in Kinds : pending[q][k] # <<>>) => Attended(q))
  BY DEF Ready, Awake, Fit, TypeOK
<1>2. pending' = pending /\ wpc' = wpc
  BY DEF PlainStep, objects
<1>3. Cleaned'
  BY <1>1, <1>2, CleanedFrame
<1>4. \A e \in Events : Covered(e) => Covered(e)'
  BY PlainKeeps DEF Ready
<1>5. \A q \in Queues : Attended(q) => Attended(q)'
  BY PlainKeeps DEF Ready
<1> QED
  BY <1>1, <1>2, <1>3, <1>4, <1>5, AwakeParts

-----------------------------------------------------------------------------
(* One lemma per family of steps                                           *)

\* What Ready says of rows, memory and queues.
LEMMA ReadyParts ==
  ASSUME Ready
  PROVE  /\ Cleaned /\ stored \subseteq Events
         /\ \A e \in stored : Covered(e)
         /\ \A q \in Queues : (\E k \in Kinds : pending[q][k] # <<>>) => Attended(q)
BY DEF Ready, Awake, Fit, TypeOK

\* wakeQueueAndNotify() and wakeQueueIfNeeded(): the notification is there before the
\* test of running, and whoever finds no worker starts one.
LEMMA WakeAwake ==
  ASSUME Ready, NEW th \in Threads, Wake(th) PROVE Awake'
<1>0. /\ pc \in [Threads -> SenderPoints \cup OtherPoints] /\ at \in [Threads -> Queues \cup {NoQueue}]
      /\ notify \in [Queues -> BOOLEAN] /\ spawned \in [Queues -> Nat]
      /\ backingOff \in [Queues -> BOOLEAN]
      /\ \A q \in Queues : running[q] <=> wpc[q] # "stopped"
  BY DEF Ready, Fit, TypeOK
<1>1. UNCHANGED <<wpc, batch, pending, overflowed, running, stored>>
  BY DEF Wake, WakeNotify, WakeUnback, WakeSpawn, workers, world
<1>2. pc[th] \in {"notify", "unback", "spawn"} /\ at[th] \in Queues
  BY DEF Wake, WakeNotify, WakeUnback, WakeSpawn, Proceed, Goto, Ready, Holders, Holds
<1>3. PICK to : pc' = [pc EXCEPT ![th] = to]
  BY DEF Wake, WakeNotify, WakeUnback, WakeSpawn, Proceed, Goto
<1>4. PICK v : at' = [at EXCEPT ![th] = v]
  <2>1. CASE at' = at
    BY <1>0, <2>1
  <2> QED
    BY <2>1 DEF Wake, WakeNotify, WakeUnback, WakeSpawn, Proceed
<1>5. \A x \in Threads : x # th => pc'[x] = pc[x] /\ at'[x] = at[x]
  BY <1>0, <1>3, <1>4
<1>6. \A q \in Queues : spawned'[q] >= spawned[q] /\ spawned'[q] \in Nat
  <2>1. spawned' = spawned \/ spawned' = [spawned EXCEPT ![at[th]] = spawned[at[th]] + 1]
    BY DEF Wake, WakeNotify, WakeUnback, WakeSpawn
  <2> QED
    BY <1>0, <1>2, <2>1
<1>7. \A q \in Queues : notify[q] => notify'[q]
  <2>1. notify' = notify \/ notify' = [notify EXCEPT ![at[th]] = TRUE]
    BY DEF Wake, WakeNotify, WakeUnback, WakeSpawn
  <2> QED
    BY <1>0, <1>2, <2>1
<1>8. ASSUME NEW q \in Queues, Coming(q) PROVE wpc'[q] # "stopped" \/ Coming(q)'
  <2>1. CASE spawned[q] > 0
    BY <1>0, <1>6, <2>1 DEF Coming
  <2>2. ASSUME NEW x \in Threads, x # th, at[x] = q, pc[x] \in {"unback", "spawn"}
        PROVE  Coming(q)'
    BY <1>5, <2>2 DEF Coming
  <2>3. CASE at[th] = q /\ pc[th] = "unback"
    <3>1. pc' = [pc EXCEPT ![th] = "spawn"] /\ at' = at
      BY <2>3 DEF Wake, WakeNotify, WakeUnback, WakeSpawn, Proceed, Goto
    <3> QED
      BY <1>0, <2>3, <3>1 DEF Coming
  <2>4. CASE at[th] = q /\ pc[th] = "spawn"
    <3>1. running[q] \/ spawned' = [spawned EXCEPT ![q] = spawned[q] + 1]
      BY <2>4 DEF Wake, WakeNotify, WakeUnback, WakeSpawn, Proceed, Goto
    <3>2. CASE spawned' = [spawned EXCEPT ![q] = spawned[q] + 1]
      <4>1. spawned'[q] > 0
        BY <1>0, <3>2
      <4> QED
        BY <4>1 DEF Coming
    <3> QED
      BY <1>0, <1>1, <3>1, <3>2
  <2> QED
    BY <1>8, <2>1, <2>2, <2>3, <2>4 DEF Coming
<1>9. \A q \in Queues : WillLoad(q) => WillLoad(q)'
  BY <1>1, <1>8 DEF WillLoad
<1>10. \A e \in Events : pc[e] \in AfterAccept => pc'[e] \in AfterAccept
  BY <1>2, <1>5 DEF AfterAccept, Threads
<1>11. \A e \in stored' : Covered(e)'
  BY <1>1, <1>9, <1>10, CoveredKept, ReadyParts
<1>12. ASSUME NEW q \in Queues, Attended(q) PROVE Attended(q)'
  <2>1. CASE wpc[q] \in {"snapshot"} \cup Transacting
    BY <1>1, <2>1 DEF Attended
  <2>2. CASE notify[q] /\ (wpc[q] # "stopped" \/ pc[q] = "close" \/ Coming(q))
    <3>1. pc[q] = "close" => pc'[q] = "close"
      BY <1>2, <1>5 DEF Threads
    <3> QED
      BY <1>1, <1>7, <1>8, <2>2, <3>1 DEF Attended
  <2>3. ASSUME NEW x \in Threads, at[x] = q, pc[x] \in {"backoffCheck", "notify"}
        PROVE  Attended(q)'
    <3>1. CASE x # th
      BY <1>5, <2>3, <3>1 DEF Attended
    <3>2. CASE x = th
      <4>1. WakeNotify(th)
        BY <2>3, <3>2 DEF Wake, WakeNotify, WakeUnback, WakeSpawn, Proceed, Goto
      <4>2. notify'[q] /\ pc'[th] = "unback" /\ at'[th] = q
        BY <1>0, <2>3, <3>2, <4>1 DEF WakeNotify, Goto
      <4> QED
        BY <4>2 DEF Attended, Coming
    <3> QED
      BY <3>1, <3>2
  <2>4. CASE wpc[q] \in {"failure", "backoff"}
    BY <1>1, <2>4 DEF Attended, Resting
  <2>5. CASE backingOff[q]
    <3>1. CASE backingOff'[q]
      BY <3>1 DEF Attended, Resting
    <3>2. CASE ~backingOff'[q]
      <4>1. /\ at[th] = q /\ pc[th] = "unback" /\ notify' = notify /\ at' = at
            /\ pc' = [pc EXCEPT ![th] = "spawn"]
        <5>1. WakeUnback(th)
          BY <2>5, <3>2 DEF Wake, WakeNotify, WakeSpawn
        <5> QED
          BY <1>0, <2>5, <3>2, <5>1 DEF WakeUnback, Goto
      <4>2. notify[q] \/ \E x \in Threads : at[x] = q /\ pc[x] = "notify"
        BY <2>5, <4>1 DEF Ready, Calm, Roused
      <4>3. CASE notify[q]
        <5>1. pc'[th] = "spawn" /\ at'[th] = q /\ notify'[q]
          BY <1>0, <4>1, <4>3
        <5> QED
          BY <5>1 DEF Attended, Coming
      <4>4. ASSUME NEW x \in Threads, at[x] = q, pc[x] = "notify" PROVE Attended(q)'
        BY <1>5, <4>1, <4>4 DEF Attended
      <4> QED
        BY <4>2, <4>3, <4>4
    <3> QED
      BY <3>1, <3>2
  <2> QED
    BY <1>12, <2>1, <2>2, <2>3, <2>4, <2>5 DEF Attended, Resting
<1>13. Cleaned'
  BY <1>1, CleanedFrame, ReadyParts
<1> QED
  BY <1>1, <1>11, <1>12, <1>13, AwakeParts, ReadyParts

\* Senders: a row is written before its event is appended, and the event is appended
\* before the queue is woken.
LEMMA SenderAwake ==
  ASSUME Dependable, Ready, NEW e \in Events, SendBegin(e) \/ Sender(e) PROVE Awake'
<1>0. /\ pc \in [Threads -> SenderPoints \cup OtherPoints] /\ at \in [Threads -> Queues \cup {NoQueue}]
      /\ pending \in [Queues -> [Kinds -> Seq(Events)]]
      /\ e \in Threads /\ ~blacklisted
  BY DEF Ready, Fit, TypeOK, Calm, Threads
<1>1. CASE SendBegin(e) \/ GetQueueCheck(e, "dropped") \/ GetQueueGet(e, "associate")
  <2>1. /\ pc[e] \in {"new", "failed", "check", "get"}
        /\ UNCHANGED <<objects, wpc, batch, stored>>
        /\ \E to : pc' = [pc EXCEPT ![e] = to]
    BY <1>1 DEF SendBegin, GetQueueCheck, GetQueueGet, Goto, workers, world
  <2>2. \E v : at' = [at EXCEPT ![e] = v]
    <3>1. CASE at' = at
      BY <1>0, <3>1
    <3> QED
      BY <1>1, <3>1 DEF SendBegin, GetQueueCheck, GetQueueGet
  <2>3. PlainStep(e)
    BY <2>1, <2>2 DEF PlainStep, AfterAccept
  <2> QED
    BY <1>0, <2>1, <2>3, PlainAwake
<1>2. CASE SendAssociate(e)
  <2>1. /\ pc[e] = "associate" /\ pc' = [pc EXCEPT ![e] = "blacklistCheck"]
        /\ stored' = stored \cup {e} /\ UNCHANGED <<objects, wpc, batch>>
        /\ \E v : at' = [at EXCEPT ![e] = v]
    <3>1. DBResults = {TRUE}
      BY DEF DBResults, Dependable, Ready
    <3> QED
      BY <1>2, <3>1 DEF SendAssociate, Proceed, Goto, workers
  <2>2. pc'[e] \in AfterAccept /\ PlainStep(e)
    BY <1>0, <2>1 DEF PlainStep, AfterAccept
  <2>3. e \notin accepted
    BY <2>1 DEF Ready, Known, SendersKnown, BeforeAccept
  <2>4. \A q \in Queues, k \in Kinds : e \notin Members(batch[q][k])
    <3>1. \A q \in Queues, k \in Kinds : Members(batch[q][k]) \subseteq accepted
      BY DEF Ready, Known, QueuesKnown, Members
    <3> QED
      BY <2>3, <3>1
  <2>5. Cleaned'
    BY <2>1, <2>4, ReadyParts DEF Cleaned, Kinds
  <2>6. /\ \A x \in Events : Covered(x) => Covered(x)'
        /\ \A q \in Queues : Attended(q) => Attended(q)'
    BY <1>0, <2>2, PlainKeeps DEF Ready
  <2>7. Covered(e)'
    BY <2>2 DEF Covered
  <2>8. pending' = pending
    BY <2>1 DEF objects
  <2> QED
    BY <2>1, <2>5, <2>6, <2>7, <2>8, ReadyParts, AwakeParts
<1>3. CASE SendBlacklistCheck(e)
  <2>1. /\ pc[e] = "blacklistCheck" /\ pc' = [pc EXCEPT ![e] = "append"]
        /\ UNCHANGED <<objects, wpc, batch, stored>>
        /\ \E v : at' = [at EXCEPT ![e] = v]
    BY <1>0, <1>3 DEF SendBlacklistCheck, Proceed, Goto, workers, world
  <2>2. PlainStep(e)
    BY <1>0, <2>1 DEF PlainStep, AfterAccept
  <2> QED
    BY <1>0, <2>1, <2>2, PlainAwake
<1>4. CASE SendAppend(e)
  <2>1. PICK q \in Queues : q = at[e]
    BY <1>4 DEF SendAppend, Goto, Ready, Holders, Holds, Threads
  <2>2. PICK k \in Kinds : k = KindOf(e)
    BY DEF KindOf, Kinds
  <2>3. /\ pc[e] = "append" /\ pc' = [pc EXCEPT ![e] = "backoffCheck"] /\ at' = at
        /\ UNCHANGED <<backingOff, notify, spawned, wpc, batch, stored>>
    BY <1>4 DEF SendAppend, Goto, workers, world
  <2>4. Len(pending[q][k]) < MaxInMemory[k]
    <3>1. Len(pending[q][k]) + Cardinality(Rows(k)) < MaxInMemory[k]
      BY DEF Ready, Roomy
    <3>2. Cardinality(Rows(k)) \in Nat
      <4>1. Rows(k) \in SUBSET Events
        BY DEF Rows, Ready, Fit, TypeOK
      <4> QED
        BY <4>1, EventsFinite, FS_Subset, FS_CardinalityType
    <3>3. Len(pending[q][k]) \in Nat /\ MaxInMemory[k] \in Nat
      BY <1>0, LimitType
    <3> QED
      BY <3>1, <3>2, <3>3
  <2>5. /\ pending' = [pending EXCEPT ![q] = [pending[q] EXCEPT ![k] = Append(pending[q][k], e)]]
        /\ overflowed' = overflowed
    <3>1. ~(Len(pending[q][k]) >= MaxInMemory[k])
      BY <1>0, <2>4, LimitType
    <3> QED
      BY <1>4, <2>1, <2>2, <3>1 DEF SendAppend
  <2>6. /\ pending'[q][k] = Append(pending[q][k], e)
        /\ \A r \in Queues : r # q => pending'[r] = pending[r]
        /\ \A j \in Kinds : j # k => pending'[q][j] = pending[q][j]
    BY <1>0, <2>5
  <2>7. Members(pending'[q][k]) = Members(pending[q][k]) \cup {e}
    BY <1>0, <2>6, MembersAppend
  <2>8. \A r \in Queues, j \in Kinds : Members(pending[r][j]) \subseteq Members(pending'[r][j])
    BY <2>6, <2>7
  <2>9. \A x \in Threads : x # e => pc'[x] = pc[x]
    BY <1>0, <2>3
  <2>10. \A r \in Queues : Coming(r) => Coming(r)'
    <3>1. at' = [at EXCEPT ![e] = at[e]]
      BY <1>0, <2>3
    <3> QED
      BY <1>0, <2>3, <3>1, ComingKept DEF Ready
  <2>11. \A r \in Queues : WillLoad(r) => WillLoad(r)'
    BY <2>3, <2>5, <2>10 DEF WillLoad
  <2>12. Covered(e)'
    BY <2>2, <2>7 DEF Covered
  <2>13. ASSUME NEW x \in stored', x # e PROVE Covered(x)'
    <3>1. x \in Events /\ Covered(x) /\ x \in Threads /\ KindOf(x) \in Kinds
      BY <2>3, <2>13, ReadyParts DEF Threads, KindOf, Kinds
    <3>2. pc'[x] = pc[x]
      BY <2>9, <2>13, <3>1
    <3> QED
      BY <2>8, <2>11, <3>1, <3>2, CoveredKept
  <2>14. Attended(q)'
    <3>1. pc'[e] = "backoffCheck" /\ at'[e] = q
      BY <1>0, <2>1, <2>3
    <3> QED
      BY <1>0, <3>1 DEF Attended
  <2>15. ASSUME NEW r \in Queues, r # q, Attended(r) PROVE Attended(r)'
    <3>1. r \in Threads /\ r # e
      BY ThreadsAssumption DEF Threads
    <3>2. pc'[r] = pc[r]
      BY <2>9, <3>1
    <3>3. ASSUME NEW x \in Threads, at[x] = r, pc[x] \in {"backoffCheck", "notify"}
          PROVE  at'[x] = r /\ pc'[x] = pc[x]
      BY <2>1, <2>3, <2>9, <2>15, <3>3
    <3> QED
      BY <2>3, <2>10, <2>15, <3>2, <3>3 DEF Attended, Resting
  <2>16. Cleaned'
    BY <2>3, CleanedFrame, ReadyParts
  <2>17. \A x \in stored' : Covered(x)'
    BY <2>12, <2>13
  <2>18. \A r \in Queues : (\E j \in Kinds : pending'[r][j] # <<>>) => Attended(r)'
    BY <2>6, <2>14, <2>15, ReadyParts
  <2> QED
    BY <2>16, <2>17, <2>18, AwakeParts
<1>5. CASE SendBackoffCheck(e)
  <2>1. PICK q \in Queues : q = at[e]
    BY <1>5 DEF SendBackoffCheck, Proceed, Goto, Ready, Holders, Holds, Threads
  <2>2. /\ pc[e] = "backoffCheck" /\ UNCHANGED <<objects, wpc, batch, stored>>
        /\ backingOff[q] => pc' = [pc EXCEPT ![e] = "done"]
        /\ ~backingOff[q] => pc' = [pc EXCEPT ![e] = "notify"] /\ at' = at
    BY <1>0, <1>5, <2>1 DEF SendBackoffCheck, Proceed, Goto, workers, world
  <2>3. PICK to : pc' = [pc EXCEPT ![e] = to]
    BY <2>2
  <2>4. PICK v : at' = [at EXCEPT ![e] = v]
    BY <1>5 DEF SendBackoffCheck, Proceed
  <2>5. \A x \in Threads : x # e => pc'[x] = pc[x] /\ at'[x] = at[x]
    BY <1>0, <2>3, <2>4
  <2>6. UNCHANGED <<backingOff, overflowed, notify, pending, spawned>>
    BY <2>2 DEF objects
  <2>7. \A r \in Queues : Coming(r) => Coming(r)'
    BY <1>0, <2>2, <2>3, <2>4, <2>6, ComingKept DEF Ready
  <2>8. \A r \in Queues : WillLoad(r) => WillLoad(r)'
    BY <2>2, <2>6, <2>7 DEF WillLoad
  <2>9. \A x \in Events : pc[x] \in AfterAccept => pc'[x] \in AfterAccept
    BY <2>2, <2>5 DEF Threads, AfterAccept
  <2>10. \A x \in stored' : Covered(x)'
    BY <2>2, <2>6, <2>8, <2>9, CoveredKept, ReadyParts
  <2>11. Attended(q)'
    <3>1. CASE backingOff[q]
      BY <2>6, <3>1 DEF Attended, Resting
    <3>2. CASE ~backingOff[q]
      <4>1. pc'[e] = "notify" /\ at'[e] = q
        BY <1>0, <2>1, <2>2, <3>2
      <4> QED
        BY <1>0, <4>1 DEF Attended
    <3> QED
      BY <3>1, <3>2
  <2>12. ASSUME NEW r \in Queues, r # q, Attended(r) PROVE Attended(r)'
    <3>1. pc'[r] = pc[r]
      BY <2>5, ThreadsAssumption DEF Threads
    <3>2. ASSUME NEW x \in Threads, at[x] = r PROVE pc'[x] = pc[x] /\ at'[x] = r
      BY <2>1, <2>5, <2>12, <3>2
    <3> QED
      BY <2>2, <2>6, <2>7, <2>12, <3>1, <3>2 DEF Attended, Resting
  <2>13. Cleaned'
    BY <2>2, CleanedFrame, ReadyParts
  <2>14. \A r \in Queues : (\E j \in Kinds : pending'[r][j] # <<>>) => Attended(r)'
    BY <2>6, <2>11, <2>12, ReadyParts
  <2> QED
    BY <2>10, <2>13, <2>14, AwakeParts
<1> QED
  BY <1>0, <1>1, <1>2, <1>3, <1>4, <1>5, WakeAwake DEF Sender

\* checkNotificationsOnClose(): a notification that came when the worker had already
\* decided to stop is passed on.
LEMMA CloseAwake ==
  ASSUME Ready, NEW q \in Queues, CloseCheck(q) PROVE Awake'
<1>0. /\ pc \in [Threads -> SenderPoints \cup OtherPoints] /\ at \in [Threads -> Queues \cup {NoQueue}]
      /\ notify \in [Queues -> BOOLEAN] /\ q \in Threads /\ ~blacklisted
  BY DEF Ready, Fit, TypeOK, Calm, Threads
<1>1. pc[q] = "close" /\ at[q] = q
  BY DEF CloseCheck, Proceed, Goto, Ready, Holders
<1>2. UNCHANGED <<backingOff, pending, overflowed, spawned, wpc, batch, stored>>
  BY DEF CloseCheck, workers, world
<1>3. /\ notify[q] => pc' = [pc EXCEPT ![q] = "notify"] /\ at' = at
      /\ ~notify[q] => pc' = [pc EXCEPT ![q] = "idle"]
      /\ \E v : at' = [at EXCEPT ![q] = v]
  BY <1>0 DEF CloseCheck, Proceed, Goto
<1>4. \A x \in Threads : x # q => pc'[x] = pc[x] /\ at'[x] = at[x]
  BY <1>0, <1>3
<1>5. \A r \in Queues : r # q => notify'[r] = notify[r]
  BY <1>0 DEF CloseCheck
<1>6. \A r \in Queues : Coming(r) => Coming(r)'
  BY <1>0, <1>1, <1>2, <1>3, ComingKept DEF Ready
<1>7. \A r \in Queues : WillLoad(r) => WillLoad(r)'
  BY <1>2, <1>6 DEF WillLoad
<1>8. \A x \in Events : pc'[x] = pc[x]
  BY <1>4, ThreadsAssumption DEF Threads
<1>9. \A x \in stored' : Covered(x)'
  BY <1>2, <1>7, <1>8, CoveredKept, ReadyParts
<1>10. ASSUME NEW r \in Queues, Attended(r) PROVE Attended(r)'
  <2>1. CASE wpc[r] \in {"snapshot"} \cup Transacting
    BY <1>2, <2>1 DEF Attended
  <2>2. ASSUME NEW x \in Threads, at[x] = r, pc[x] \in {"backoffCheck", "notify"}
        PROVE  Attended(r)'
    <3>1. x # q
      BY <1>1, <2>2
    <3> QED
      BY <1>4, <2>2, <3>1 DEF Attended
  <2>3. CASE notify[r] /\ (wpc[r] # "stopped" \/ pc[r] = "close" \/ Coming(r))
    <3>1. CASE r = q
      <4>1. pc'[q] = "notify" /\ at'[q] = q
        BY <1>0, <1>1, <1>3, <2>3, <3>1
      <4> QED
        BY <1>0, <3>1, <4>1 DEF Attended
    <3>2. CASE r # q
      BY <1>2, <1>4, <1>5, <1>6, <2>3, <3>2 DEF Attended, Threads
    <3> QED
      BY <3>1, <3>2
  <2>4. CASE Resting(r)
    BY <1>2, <2>4 DEF Attended, Resting
  <2> QED
    BY <1>10, <2>1, <2>2, <2>3, <2>4 DEF Attended
<1>11. Cleaned'
  BY <1>2, CleanedFrame, ReadyParts
<1> QED
  BY <1>2, <1>9, <1>10, <1>11, AwakeParts, ReadyParts

\* The timer and the other users of the statistics attend to no queue before they
\* begin to wake one.
LEMMA OtherAwake ==
  ASSUME Ready, \/ TimerFires \/ TimerNotifier \/ ApiAlive \/ RetryPending
                \/ GetQueueCheck("api", "idle") \/ GetQueueGet("api", "pending")
  PROVE  Awake'
<1>0. /\ {"timer", "api"} \subseteq Threads
      /\ at \in [Threads -> Queues \cup {NoQueue}]
  BY DEF Ready, Fit, TypeOK, Threads, Other
<1>1. UNCHANGED <<objects, wpc, batch, stored>>
  BY DEF TimerFires, TimerNotifier, ApiAlive, RetryPending, GetQueueCheck, GetQueueGet,
         workers, world
<1>2. \E th \in {"timer", "api"} :
         /\ pc[th] \in {"idle", "notifier", "pending", "check", "get"}
         /\ \E to : pc' = [pc EXCEPT ![th] = to]
         /\ at' = at \/ \E v : at' = [at EXCEPT ![th] = v]
  <2>1. CASE TimerFires \/ TimerNotifier
    BY <2>1 DEF TimerFires, TimerNotifier, Goto
  <2>2. CASE ApiAlive \/ RetryPending
    BY <2>2 DEF ApiAlive, RetryPending, Goto, Proceed
  <2>3. CASE GetQueueCheck("api", "idle") \/ GetQueueGet("api", "pending")
    BY <2>3 DEF GetQueueCheck, GetQueueGet, Goto
  <2> QED
    BY <2>1, <2>2, <2>3
<1>3. PICK th \in {"timer", "api"} :
         /\ pc[th] \in {"idle", "notifier", "pending", "check", "get"}
         /\ \E to : pc' = [pc EXCEPT ![th] = to]
         /\ at' = at \/ \E v : at' = [at EXCEPT ![th] = v]
  BY <1>2
<1>4. at' = at => at' = [at EXCEPT ![th] = at[th]]
  BY <1>0
<1>5. PlainStep(th)
  BY <1>1, <1>3, <1>4 DEF PlainStep, AfterAccept
<1> QED
  BY <1>0, <1>1, <1>5, PlainAwake

\* Steps that touch neither goroutines nor queues.
LEMMA StillAwake ==
  ASSUME Ready, UNCHANGED <<objects, workers, threads>>, stored' \subseteq stored
  PROVE  Awake'
<1>1. UNCHANGED <<backingOff, overflowed, notify, pending, spawned, wpc, batch, pc, at>>
  BY DEF objects, workers, threads
<1>2. \A q \in Queues : (WillLoad(q) => WillLoad(q)') /\ (Attended(q) => Attended(q)')
  BY <1>1, OtherQueue
<1>3. \A e \in stored' : Covered(e)'
  BY <1>1, <1>2, CoveredKept, ReadyParts
<1>4. Cleaned'
  BY <1>1, CleanedFrame, ReadyParts
<1> QED
  BY <1>1, <1>2, <1>3, <1>4, AwakeParts, ReadyParts

\* The goroutine of the rehydration covers the rows a restart finds.
LEMMA RestartAwake ==
  ASSUME Dependable, Fit, ~blacklisted', Restart PROVE Awake'
<1>1. /\ wpc' = [q \in Queues |-> "stopped"] /\ stored' = stored /\ ~blacklisted'
      /\ pending' = [q \in Queues |-> NothingPending]
  BY DEF Restart, world
<1>2. Cleaned'
  BY <1>1 DEF Cleaned
<1>3. \A q \in Queues, k \in Kinds : pending'[q][k] = <<>>
  BY <1>1 DEF NothingPending
<1>4. ASSUME NEW e \in stored' PROVE Covered(e)'
  <2>1. PICK q \in Queues, ok \in DBOutcomes :
         LET hydrate == ok /\ stored # {} /\ ~blacklisted'
         IN  /\ at' = [th \in Threads |-> IF hydrate /\ th = "hydrate" THEN q ELSE NoQueue]
             /\ pc' = [th \in Threads |->
                         CASE th \in Events -> AfterRestart(pc[th])
                           [] hydrate /\ th = "hydrate" -> "unback"
                           [] OTHER -> "idle"]
    BY Zenon DEF Restart
  <2>2. ok /\ stored # {} /\ ~blacklisted'
    BY <1>1, <1>4 DEF Dependable
  <2>3. /\ at' = [th \in Threads |-> IF th = "hydrate" THEN q ELSE NoQueue]
        /\ pc' = [th \in Threads |->
                    CASE th \in Events -> AfterRestart(pc[th])
                      [] th = "hydrate" -> "unback"
                      [] OTHER -> "idle"]
    BY <2>1, <2>2
  <2>4. "hydrate" \in Threads /\ "hydrate" \notin Events
    BY ThreadsAssumption DEF Threads, Other
  <2>5. at'["hydrate"] = q /\ pc'["hydrate"] = "unback"
    BY <2>3, <2>4
  <2>6. WillLoad(q)'
    BY <1>1, <2>4, <2>5 DEF WillLoad, Coming
  <2> QED
    BY <2>6 DEF Covered
<1> QED
  BY <1>2, <1>3, <1>4, AwakeParts

\* A worker that is past its start and moves without touching memory.
LEMMA WorkerMoves ==
  ASSUME Ready, NEW q \in Queues, NEW to, wpc' = [wpc EXCEPT ![q] = to],
         wpc[q] \notin {"loop", "stopped"},
         UNCHANGED <<pc, at, spawned, overflowed, pending>>,
         \A r \in Queues : r # q => /\ notify'[r] = notify[r] /\ batch'[r] = batch[r]
                                   /\ backingOff'[r] = backingOff[r],
         stored' \subseteq stored,
         to \in {"cleanEDUs", "success", "remove"} => Members(batch'[q]["pdu"]) \cap stored' = {},
         to \in {"success", "remove"} => Members(batch'[q]["edu"]) \cap stored' = {},
         (\E k \in Kinds : pending[q][k] # <<>>) /\ Attended(q) => Attended(q)'
  PROVE  Awake'
<1>1. wpc'[q] = to /\ \A r \in Queues : r # q => wpc'[r] = wpc[r]
  BY DEF Ready, Fit, TypeOK
<1>2. ASSUME NEW r \in Queues, r # q PROVE (WillLoad(r) => WillLoad(r)') /\ (Attended(r) => Attended(r)')
  <2>1. /\ wpc'[r] = wpc[r] /\ spawned'[r] = spawned[r] /\ overflowed'[r] = overflowed[r]
        /\ notify'[r] = notify[r] /\ backingOff'[r] = backingOff[r]
    BY <1>1, <1>2
  <2> QED
    BY <2>1, OtherQueue
<1>3. ~WillLoad(q)
  BY DEF WillLoad
<1>4. \A r \in Queues : WillLoad(r) => WillLoad(r)'
  BY <1>2, <1>3
<1>5. \A e \in stored' : Covered(e)'
  BY <1>4, CoveredKept, ReadyParts
<1>6. Cleaned'
  BY <1>1, ReadyParts DEF Cleaned
<1>7. \A r \in Queues : (\E k \in Kinds : pending'[r][k] # <<>>) => Attended(r)'
  BY <1>2, ReadyParts
<1> QED
  BY <1>5, <1>6, <1>7, AwakeParts

\* A spawned goroutine becomes the worker, or finds one.
LEMMA StartAwake ==
  ASSUME Ready, NEW q \in Queues, Start(q) PROVE Awake'
<1>0. /\ wpc \in [Queues -> WorkerPoints] /\ overflowed \in [Queues -> BOOLEAN]
      /\ spawned \in [Queues -> Nat] /\ (running[q] <=> wpc[q] # "stopped")
      /\ ~done
  BY DEF Ready, Fit, TypeOK
<1>1. /\ UNCHANGED <<backingOff, notify, pending, batch, pc, at, stored>>
      /\ spawned' = [spawned EXCEPT ![q] = spawned[q] - 1]
  BY DEF Start, threads, world
<1>2. \A r \in Queues : r # q => wpc'[r] = wpc[r] /\ overflowed'[r] = overflowed[r] /\ spawned'[r] = spawned[r]
  BY <1>0, <1>1 DEF Start, Move
<1>3. \/ wpc[q] # "stopped" /\ wpc' = wpc /\ overflowed' = overflowed
      \/ wpc[q] = "stopped" /\ wpc'[q] = "loop" /\ overflowed'[q]
  BY <1>0 DEF Start, Move
<1>4. ASSUME NEW r \in Queues, r # q PROVE (WillLoad(r) => WillLoad(r)') /\ (Attended(r) => Attended(r)')
  <2>1. notify'[r] = notify[r] /\ backingOff'[r] = backingOff[r]
    BY <1>1
  <2> QED
    BY <1>1, <1>2, <1>4, <2>1, OtherQueue
<1>5. WillLoad(q) => WillLoad(q)'
  BY <1>3 DEF WillLoad
<1>6. Attended(q) => Attended(q)'
  <2>1. wpc'[q] # "stopped" /\ (wpc[q] \in {"snapshot"} \cup Transacting => wpc'[q] = wpc[q])
    BY <1>3 DEF Transacting
  <2>2. wpc[q] \in {"failure", "backoff"} => wpc'[q] = wpc[q]
    BY <1>3
  <2> QED
    BY <1>1, <2>1, <2>2 DEF Attended, Resting
<1>7. \A e \in stored' : Covered(e)'
  BY <1>1, <1>4, <1>5, CoveredKept, ReadyParts
<1>8. Cleaned'
  <2>1. \A r \in Queues : wpc'[r] \in {"cleanEDUs", "success", "remove"} => wpc'[r] = wpc[r]
    BY <1>2, <1>3
  <2> QED
    BY <1>1, <2>1, ReadyParts DEF Cleaned
<1>9. \A r \in Queues : (\E k \in Kinds : pending'[r][k] # <<>>) => Attended(r)'
  BY <1>1, <1>4, <1>6, ReadyParts
<1> QED
  BY <1>7, <1>8, <1>9, AwakeParts

\* A turn of the loop loads every row if it loads at all, and then notifies.
LEMMA LoopAwake ==
  ASSUME Dependable, Ready, NEW q \in Queues, Loop(q) PROVE Awake'
<1>0. /\ wpc \in [Queues -> WorkerPoints] /\ overflowed \in [Queues -> BOOLEAN]
      /\ notify \in [Queues -> BOOLEAN] /\ pending \in [Queues -> [Kinds -> Seq(Events)]]
  BY DEF Ready, Fit, TypeOK
<1>1. UNCHANGED <<backingOff, spawned, batch, pc, at, stored>> /\ wpc[q] = "loop"
      /\ wpc' = [wpc EXCEPT ![q] = "select"]
  BY DEF Loop, Move, threads, world
<1>2. wpc'[q] = "select" /\ \A r \in Queues : r # q => wpc'[r] = wpc[r]
  BY <1>0, <1>1
<1>3. \A r \in Queues : r # q => overflowed'[r] = overflowed[r] /\ notify'[r] = notify[r]
                                 /\ pending'[r] = pending[r]
  BY <1>0 DEF Loop, Load
<1>4. ASSUME NEW r \in Queues, r # q PROVE (WillLoad(r) => WillLoad(r)') /\ (Attended(r) => Attended(r)')
  <2>1. spawned'[r] = spawned[r] /\ backingOff'[r] = backingOff[r]
    BY <1>1
  <2> QED
    BY <1>1, <1>2, <1>3, <1>4, <2>1, OtherQueue
<1>5. Cleaned'
  BY <1>1, <1>2, ReadyParts DEF Cleaned
<1>6. CASE ~overflowed[q] /\ UNCHANGED <<pending, notify>>
  <2>1. ~WillLoad(q)
    BY <1>1, <1>6 DEF WillLoad
  <2>2. \A e \in stored' : Covered(e)'
    BY <1>1, <1>4, <1>6, <2>1, CoveredKept, ReadyParts
  <2>3. Attended(q) => Attended(q)'
    BY <1>1, <1>2, <1>6 DEF Attended, Resting, Transacting
  <2>4. \A r \in Queues : (\E k \in Kinds : pending'[r][k] # <<>>) => Attended(r)'
    BY <1>4, <1>6, <2>3, ReadyParts
  <2> QED
    BY <1>5, <2>2, <2>4, AwakeParts
<1>7. ASSUME NEW fp \in Fetches("pdu"), NEW fe \in Fetches("edu"),
             NEW p \in Reload(q, "pdu", fp), NEW x \in Reload(q, "edu", fe),
             Load(q, fp, p, fe, x)
      PROVE  Awake'
  <2> DEFINE loaded == [k \in Kinds |-> IF k = "pdu" THEN p ELSE x]
  <2>1. /\ pending' = [pending EXCEPT ![q] = loaded]
        /\ notify' = [notify EXCEPT ![q] = notify[q] \/ loaded # pending[q]]
    BY <1>7 DEF Load
  <2>2. "pdu" \in Kinds /\ "edu" \in Kinds /\ Kinds = {"pdu", "edu"}
    BY DEF Kinds
  <2>3. /\ Rows("pdu") \cup Members(pending[q]["pdu"]) \subseteq Members(p)
        /\ Rows("edu") \cup Members(pending[q]["edu"]) \subseteq Members(x)
    BY <2>2, ReloadIsComplete DEF Ready
  <2>4. loaded["pdu"] = p /\ loaded["edu"] = x
    BY <2>2
  <2> HIDE DEF loaded
  <2>5. pending'[q] = loaded
    BY <1>0, <2>1
  <2>6. ASSUME NEW e \in stored' PROVE Covered(e)'
    <3>1. e \in Events /\ e \in Rows(KindOf(e)) /\ KindOf(e) \in {"pdu", "edu"}
      BY <1>1, <2>6, ReadyParts DEF Rows, KindOf, EventsOf, Events
    <3>2. e \in Members(pending'[q][KindOf(e)])
      BY <2>3, <2>4, <2>5, <3>1
    <3> QED
      BY <3>2 DEF Covered
  <2>7. ASSUME \E k \in Kinds : pending'[q][k] # <<>> PROVE Attended(q)'
    <3>1. CASE loaded # pending[q]
      <4>1. notify'[q]
        BY <1>0, <2>1, <3>1
      <4> QED
        BY <1>2, <4>1 DEF Attended
    <3>2. CASE loaded = pending[q]
      <4>1. Attended(q)
        BY <2>5, <2>7, <3>2, ReadyParts
      <4>2. notify'[q] = notify[q]
        BY <1>0, <2>1, <3>2
      <4> QED
        BY <1>1, <1>2, <4>1, <4>2 DEF Attended, Resting, Transacting
    <3> QED
      BY <3>1, <3>2
  <2>8. \A r \in Queues : (\E k \in Kinds : pending'[r][k] # <<>>) => Attended(r)'
    BY <1>3, <1>4, <2>7, ReadyParts
  <2> QED
    BY <1>5, <2>6, <2>8, AwakeParts
<1> QED
  BY <1>6, <1>7 DEF Loop

\* handleTransactionSuccess() cuts what has lost its rows, and notifies if something
\* is left.
LEMMA RemoveAwake ==
  ASSUME Ready, NEW q \in Queues, RemoveSent(q) PROVE Awake'
<1> DEFINE rest == [k \in Kinds |-> SubSeq(pending[q][k], Len(batch[q][k]) + 1, Len(pending[q][k]))]
<1>0. /\ wpc \in [Queues -> WorkerPoints] /\ notify \in [Queues -> BOOLEAN]
      /\ pending \in [Queues -> [Kinds -> Seq(Events)]]
      /\ batch \in [Queues -> [Kinds -> Seq(Events)]]
  BY DEF Ready, Fit, TypeOK
<1>1. /\ UNCHANGED <<backingOff, overflowed, spawned, batch, pc, at, stored>> /\ wpc[q] = "remove"
      /\ wpc' = [wpc EXCEPT ![q] = "loop"]
      /\ pending' = [pending EXCEPT ![q] = rest]
      /\ notify' = [notify EXCEPT ![q] = notify[q] \/ \E k \in Kinds : rest[k] # <<>>]
  BY DEF RemoveSent, Move, threads, world
<1>2. ASSUME NEW k \in Kinds
      PROVE  Members(pending[q][k]) \subseteq Members(batch[q][k]) \cup Members(rest[k])
  <2>1. /\ Len(batch[q][k]) <= Len(pending[q][k])
        /\ batch[q][k] = SubSeq(pending[q][k], 1, Len(batch[q][k]))
    BY <1>1 DEF Ready, BatchIsPrefix, Transacting
  <2>2. pending[q][k] \in Seq(Events) /\ Len(batch[q][k]) \in Nat
    BY <1>0
  <2>3. Members(pending[q][k]) \subseteq
          Members(SubSeq(pending[q][k], 1, Len(batch[q][k]))) \cup
          Members(SubSeq(pending[q][k], Len(batch[q][k]) + 1, Len(pending[q][k])))
    BY <2>1, <2>2, MembersCut
  <2>4. rest[k] = SubSeq(pending[q][k], Len(batch[q][k]) + 1, Len(pending[q][k]))
    OBVIOUS
  <2> HIDE DEF rest
  <2> QED
    BY <2>1, <2>3, <2>4
<1> HIDE DEF rest
<1>3. /\ wpc'[q] = "loop" /\ pending'[q] = rest
      /\ \A r \in Queues : r # q => wpc'[r] = wpc[r] /\ notify'[r] = notify[r] /\ pending'[r] = pending[r]
  BY <1>0, <1>1
<1>4. ASSUME NEW r \in Queues, r # q PROVE (WillLoad(r) => WillLoad(r)') /\ (Attended(r) => Attended(r)')
  <2>1. spawned'[r] = spawned[r] /\ overflowed'[r] = overflowed[r] /\ backingOff'[r] = backingOff[r]
    BY <1>1
  <2> QED
    BY <1>1, <1>3, <1>4, <2>1, OtherQueue
<1>5. ~WillLoad(q)
  BY <1>1 DEF WillLoad
<1>6. \A k \in Kinds : Members(batch[q][k]) \cap stored = {}
  BY <1>1, ReadyParts DEF Cleaned, Kinds
<1>7. ASSUME NEW e \in stored' PROVE Covered(e)'
  <2>1. e \in Events /\ e \in stored /\ Covered(e) /\ KindOf(e) \in Kinds
    BY <1>1, <1>7, ReadyParts DEF KindOf, Kinds
  <2>2. e \in Members(pending[q][KindOf(e)]) => e \in Members(pending'[q][KindOf(e)])
    BY <1>2, <1>3, <1>6, <2>1
  <2>3. \A r \in Queues : WillLoad(r) => WillLoad(r)'
    BY <1>4, <1>5
  <2>4. \A r \in Queues : e \in Members(pending[r][KindOf(e)]) => e \in Members(pending'[r][KindOf(e)])
    BY <1>3, <2>2
  <2> QED
    BY <1>1, <2>1, <2>3, <2>4, CoveredKept
<1>8. Cleaned'
  BY <1>1, <1>3, ReadyParts DEF Cleaned
<1>9. (\E k \in Kinds : pending'[q][k] # <<>>) => Attended(q)'
  <2>1. (\E k \in Kinds : rest[k] # <<>>) => notify'[q]
    BY <1>0, <1>1
  <2> QED
    BY <1>3, <2>1 DEF Attended
<1>10. \A r \in Queues : (\E k \in Kinds : pending'[r][k] # <<>>) => Attended(r)'
  BY <1>3, <1>4, <1>9, ReadyParts
<1> QED
  BY <1>7, <1>8, <1>10, AwakeParts

\* A worker that stops leaves its last words to its closing goroutine.
LEMMA StopAwake ==
  ASSUME Ready, NEW q \in Queues, Stop(q) PROVE Awake'
<1>0. /\ wpc \in [Queues -> WorkerPoints] /\ batch \in [Queues -> [Kinds -> Seq(Events)]]
      /\ pc \in [Threads -> SenderPoints \cup OtherPoints] /\ at \in [Threads -> Queues \cup {NoQueue}]
      /\ q \in Threads
  BY DEF Ready, Fit, TypeOK, Threads
<1>1. /\ UNCHANGED <<backingOff, overflowed, notify, pending, spawned, stored>> /\ wpc[q] = "stop"
      /\ wpc' = [wpc EXCEPT ![q] = "stopped"] /\ batch' = [batch EXCEPT ![q] = NothingPending]
      /\ pc[q] = "idle" /\ pc' = [pc EXCEPT ![q] = "close"] /\ at' = [at EXCEPT ![q] = q]
  BY DEF Stop, Move, Goto, world
<1>2. /\ wpc'[q] = "stopped" /\ pc'[q] = "close"
      /\ \A r \in Queues : r # q => wpc'[r] = wpc[r] /\ batch'[r] = batch[r]
      /\ \A x \in Threads : x # q => pc'[x] = pc[x] /\ at'[x] = at[x]
  BY <1>0, <1>1
<1>3. \A r \in Queues : Coming(r) => Coming(r)'
  BY <1>0, <1>1, ComingKept DEF Ready
<1>4. \A r \in Queues : WillLoad(r) => WillLoad(r)'
  BY <1>1, <1>2, <1>3 DEF WillLoad
<1>5. \A e \in Events : pc'[e] = pc[e]
  BY <1>2, ThreadsAssumption DEF Threads
<1>6. \A e \in stored' : Covered(e)'
  BY <1>1, <1>4, <1>5, CoveredKept, ReadyParts
<1>7. ASSUME NEW r \in Queues, Attended(r) PROVE Attended(r)'
  <2>1. ASSUME NEW x \in Threads, at[x] = r, pc[x] \in {"backoffCheck", "notify"}
        PROVE  at'[x] = r /\ pc'[x] = pc[x]
    BY <1>1, <1>2, <2>1
  <2>2. pc[r] = "close" => pc'[r] = "close"
    BY <1>2 DEF Threads
  <2>3. CASE r = q
    BY <1>1, <1>2, <1>7, <2>1, <2>3 DEF Attended, Resting, Transacting
  <2>4. CASE r # q
    BY <1>1, <1>2, <1>3, <1>7, <2>1, <2>2, <2>4 DEF Attended, Resting
  <2> QED
    BY <2>3, <2>4
<1>8. Cleaned'
  BY <1>1, <1>2, ReadyParts DEF Cleaned
<1> QED
  BY <1>1, <1>6, <1>7, <1>8, AwakeParts, ReadyParts

\* The steps of a worker.
LEMMA WorkerAwake ==
  ASSUME Dependable, Ready, ~blacklisted', NEW q \in Queues, Worker(q) PROVE Awake'
<1>0. /\ wpc \in [Queues -> WorkerPoints] /\ notify \in [Queues -> BOOLEAN]
      /\ batch \in [Queues -> [Kinds -> Seq(Events)]] /\ ~done
      /\ wpc[q] \notin {"blacklist", "unassign", "delete"} /\ backingOff \in [Queues -> BOOLEAN]
  BY DEF Ready, Fit, TypeOK, Calm
<1>1. CASE SelectNotify(q)
  <2>1. /\ wpc[q] = "select" /\ wpc' = [wpc EXCEPT ![q] = "snapshot"]
        /\ UNCHANGED <<pc, at, spawned, backingOff, overflowed, pending, batch, stored>>
        /\ \A r \in Queues : r # q => notify'[r] = notify[r]
    BY <1>0, <1>1 DEF SelectNotify, Move, threads, world
  <2>2. Attended(q)'
    BY <1>0, <2>1 DEF Attended
  <2> QED
    BY <2>1, <2>2, WorkerMoves
<1>2. CASE SelectIdle(q)
  <2>1. /\ wpc[q] = "select" /\ wpc' = [wpc EXCEPT ![q] = "stop"]
        /\ UNCHANGED <<pc, at, spawned, backingOff, overflowed, pending, notify, batch, stored>>
    BY <1>2 DEF SelectIdle, Move, objects, threads, world
  <2>2. wpc'[q] = "stop"
    BY <1>0, <2>1
  <2>3. Attended(q) => Attended(q)'
    BY <2>1, <2>2 DEF Attended, Resting, Transacting
  <2> QED
    BY <2>1, <2>3, WorkerMoves
<1>3. CASE Snapshot(q)
  <2>1. /\ wpc[q] = "snapshot"
        /\ wpc' = [wpc EXCEPT ![q] = IF \A k \in Kinds : pending[q][k] = <<>> THEN "loop" ELSE "send"]
        /\ UNCHANGED <<pc, at, spawned, backingOff, overflowed, pending, notify, stored>>
        /\ \A r \in Queues : r # q => batch'[r] = batch[r]
    BY <1>0, <1>3 DEF Snapshot, Move, objects, threads, world
  <2>2. (\E k \in Kinds : pending[q][k] # <<>>) => Attended(q)'
    BY <1>0, <2>1 DEF Attended, Transacting
  <2>3. PICK to \in {"loop", "send"} : wpc' = [wpc EXCEPT ![q] = to]
    BY <2>1
  <2> QED
    BY <2>1, <2>2, <2>3, WorkerMoves
<1>4. CASE Send(q)
  <2>1. /\ wpc[q] = "send"
        /\ UNCHANGED <<pc, at, spawned, backingOff, overflowed, pending, notify, batch, stored>>
    BY <1>4 DEF Send, Move, objects, threads
  <2>2. PICK to \in {"cleanPDUs", "failure"} : wpc' = [wpc EXCEPT ![q] = to]
    BY <1>4 DEF Send, Move
  <2>3. Attended(q)'
    BY <1>0, <2>2 DEF Attended, Resting, Transacting
  <2> QED
    BY <2>1, <2>2, <2>3, WorkerMoves
<1>5. CASE CleanPDUs(q) \/ CleanEDUs(q)
  <2>1. FALSE \notin DBResults
    BY <1>0 DEF DBResults, Dependable
  <2>2. UNCHANGED <<pc, at, spawned, backingOff, overflowed, pending, notify, batch>> /\ stored' \subseteq stored
    BY <1>5 DEF CleanPDUs, CleanEDUs, Clean, objects, threads
  <2>3. CASE CleanPDUs(q)
    <3>1. /\ wpc[q] = "cleanPDUs" /\ wpc' = [wpc EXCEPT ![q] = "cleanEDUs"]
          /\ stored' = stored \ Members(batch[q]["pdu"])
      BY <2>1, <2>3 DEF CleanPDUs, Clean, Move
    <3>2. Attended(q)'
      BY <1>0, <3>1 DEF Attended, Transacting
    <3>3. Members(batch'[q]["pdu"]) \cap stored' = {}
      BY <2>2, <3>1
    <3> QED
      BY <2>2, <3>1, <3>2, <3>3, WorkerMoves
  <2>4. CASE CleanEDUs(q)
    <3>1. /\ wpc[q] = "cleanEDUs" /\ wpc' = [wpc EXCEPT ![q] = "success"]
          /\ stored' = stored \ Members(batch[q]["edu"])
      BY <2>1, <2>4 DEF CleanEDUs, Clean, Move
    <3>2. Attended(q)'
      BY <1>0, <3>1 DEF Attended, Transacting
    <3>3. /\ Members(batch'[q]["edu"]) \cap stored' = {}
          /\ Members(batch'[q]["pdu"]) \cap stored' = {}
      BY <2>2, <3>1, ReadyParts DEF Cleaned
    <3> QED
      BY <2>2, <3>1, <3>2, <3>3, WorkerMoves
  <2> QED
    BY <1>5, <2>3, <2>4
<1>6. CASE TransactionSuccess(q)
  <2>1. /\ wpc[q] = "success" /\ wpc' = [wpc EXCEPT ![q] = "remove"]
        /\ UNCHANGED <<pc, at, spawned, backingOff, overflowed, pending, notify, batch, stored>>
    BY <1>6 DEF TransactionSuccess, Move, objects, threads, world
  <2>2. Attended(q)'
    BY <1>0, <2>1 DEF Attended, Transacting
  <2>3. /\ Members(batch'[q]["edu"]) \cap stored' = {}
        /\ Members(batch'[q]["pdu"]) \cap stored' = {}
    BY <2>1, ReadyParts DEF Cleaned
  <2> QED
    BY <2>1, <2>2, <2>3, WorkerMoves
<1>7. CASE TransactionFailure(q)
  <2>1. /\ wpc[q] = "failure" /\ wpc' = [wpc EXCEPT ![q] = "backoff"]
        /\ UNCHANGED <<pc, at, spawned, backingOff, overflowed, pending, notify, batch, stored>>
    BY <1>7 DEF TransactionFailure, Move, objects, threads, world
  <2>2. Attended(q)'
    BY <1>0, <2>1 DEF Attended, Resting
  <2> QED
    BY <2>1, <2>2, WorkerMoves
<1>8. CASE BackOff(q)
  <2>1. /\ wpc[q] = "backoff" /\ wpc' = [wpc EXCEPT ![q] = "stop"]
        /\ backingOff' = [backingOff EXCEPT ![q] = TRUE]
        /\ UNCHANGED <<pc, at, spawned, overflowed, pending, notify, batch, stored>>
    BY <1>8 DEF BackOff, Move, threads, world
  <2>2. backingOff'[q] /\ \A r \in Queues : r # q => backingOff'[r] = backingOff[r]
    BY <1>0, <2>1
  <2>3. Attended(q)'
    BY <2>2 DEF Attended, Resting
  <2> QED
    BY <2>1, <2>2, <2>3, WorkerMoves
<1>9. CASE SelectDone(q) \/ BlacklistClear(q) \/ BlacklistUnassign(q) \/ BlacklistDelete(q)
  BY <1>0, <1>9 DEF SelectDone, BlacklistClear, BlacklistUnassign, BlacklistDelete, Move
<1> QED
  BY <1>1, <1>2, <1>3, <1>4, <1>5, <1>6, <1>7, <1>8, <1>9, StartAwake, LoopAwake, RemoveAwake,
     StopAwake
     DEF Worker

\* Awake is inductive as long as there is room.
LEMMA AwakeStep ==
  ASSUME Dependable, Fit, Known, BatchIsPrefix, Holders, Calm, Calm', Roomy, Awake, [Next]_vars
  PROVE  Awake'
<1>0. ~blacklisted'
  BY DEF Calm
<1>1. CASE Restart
  BY <1>0, <1>1, RestartAwake
<1>2. CASE done /\ ~Restart
  <2>1. done'
    BY <1>2 DEF Next, vars, process, Thread, Sender, Closer, TimerThread, ApiThread, Worker, Wake,
       SendBegin, Expire, GetQueueCheck, GetQueueGet, SendAssociate, SendBlacklistCheck, SendAppend,
       SendBackoffCheck, WakeNotify, WakeUnback, WakeSpawn, CloseCheck, TimerNotifier, RetryPending,
       TimerFires, ApiSuccess, ApiFailure, ApiAlive, ApiCall, Shutdown, Start, Loop, SelectNotify,
       SelectIdle, SelectDone, Snapshot, Send, CleanPDUs, CleanEDUs, Clean, TransactionSuccess,
       RemoveSent, TransactionFailure, BackOff, BlacklistClear, BlacklistUnassign, BlacklistDelete,
       Stop
  <2> QED
    BY <2>1 DEF Awake
<1>3. CASE ~done /\ ~Restart
  <2>0. Ready
    BY <1>3 DEF Ready
  <2>1. CASE UNCHANGED vars
    BY <2>0, <2>1, StillAwake DEF vars, world
  <2>2. ASSUME NEW e \in Events, SendBegin(e) \/ Expire(e) PROVE Awake'
    BY <2>0, <2>2, SenderAwake, StillAwake DEF Expire
  <2>3. CASE Thread
    <3>1. ASSUME NEW q \in Queues, Closer(q) PROVE Awake'
      BY <2>0, <3>1, WakeAwake, CloseAwake DEF Closer, Threads
    <3>2. CASE TimerThread
      BY <2>0, <3>2, WakeAwake, OtherAwake DEF TimerThread, Threads, Other
    <3>3. CASE ApiThread
      BY <2>0, <3>3, WakeAwake, OtherAwake DEF ApiThread, Threads, Other
    <3>4. CASE Wake("hydrate")
      BY <2>0, <3>4, WakeAwake DEF Threads, Other
    <3> QED
      BY <2>0, <2>3, <3>1, <3>2, <3>3, <3>4, SenderAwake DEF Thread
  <2>4. CASE ApiSuccess \/ ApiFailure
    BY <2>0, <2>4, StillAwake DEF ApiSuccess, ApiFailure, world
  <2>5. CASE Shutdown
    BY <2>5 DEF Shutdown, Awake
  <2> QED
    BY <1>0, <1>3, <2>0, <2>1, <2>2, <2>3, <2>4, <2>5, WorkerAwake, OtherAwake DEF Next
<1> QED
  BY <1>1, <1>2, <1>3

\* The first start.
LEMMA InitAwake == Init => Awake
<1> SUFFICES ASSUME Init PROVE Awake
  OBVIOUS
<1>1. Cleaned
  BY DEF Init, Cleaned
<1>2. \A q \in Queues, k \in Kinds : pending[q][k] = <<>>
  BY DEF Init, NothingPending
<1>3. stored = {}
  BY DEF Init
<1> HIDE DEF Init
<1> QED
  BY <1>1, <1>2, <1>3 DEF Awake

\* At rest nobody covers a row or attends to a queue that does not back off.
LEMMA AwakeIsEnough ==
  ASSUME Fit, Awake, Quiet => \A q \in Queues : ~backingOff[q] PROVE NothingStranded
<1> SUFFICES ASSUME Quiet
             PROVE  stored = {} /\ \A q \in Queues, k \in Kinds : pending[q][k] = <<>>
  BY DEF NothingStranded
<1>1. \A th \in Threads : pc[th] \in {"new", "done", "dropped", "failed", "idle"}
  BY DEF Quiet, Threads
<1>2. \A q \in Queues : spawned[q] = 0 /\ wpc[q] = "stopped"
  BY DEF Quiet
<1>3. \A q \in Queues : ~Coming(q)
  BY <1>1, <1>2 DEF Coming
<1>4. \A q \in Queues : ~Attended(q)
  BY <1>1, <1>2, <1>3 DEF Attended, Resting, Transacting, Threads
<1>5. ~done
  BY DEF Quiet
<1>6. \A q \in Queues, k \in Kinds : pending[q][k] = <<>>
  BY <1>4, <1>5 DEF Awake
<1>7. ASSUME NEW e \in stored PROVE FALSE
  <2>1. Covered(e) /\ e \in Events /\ KindOf(e) \in Kinds
    BY <1>5 DEF Awake, Fit, TypeOK, KindOf, Kinds
  <2>2. pc[e] \notin AfterAccept
    BY <1>1, <2>1 DEF AfterAccept, Threads
  <2>3. \A q \in Queues : ~WillLoad(q)
    BY <1>2, <1>3 DEF WillLoad
  <2>4. \A q \in Queues : Members(pending[q][KindOf(e)]) = {}
    <3>1. Members(<<>>) = {}
      BY DEF Members
    <3> QED
      BY <1>6, <2>1, <3>1
  <2> QED
    BY <2>1, <2>2, <2>3, <2>4 DEF Covered
<1> QED
  BY <1>6, <1>7

\* No lost wake-up: at a destination that answers, and as long as memory has room for
\* the rows, no interleaving of senders, wakers, idle timeouts, closing workers, requests
\* outside the queue, expiry, shutdowns and crashes leaves an event behind that nobody
\* is going to send.
THEOREM NobodyIsStranded ==
  ASSUME Healthy PROVE Spec /\ []Roomy => []NothingStranded
<1> DEFINE Inv == Fit /\ Known /\ BatchIsPrefix /\ Holders /\ Unblemished /\ Awake
<1>1. Init => Inv
  <2>1. Init => BatchIsPrefix
    BY DEF Init, BatchIsPrefix, Transacting
  <2> QED
    BY <2>1, InitFits, InitKnown, InitHolders, InitUnblemished, InitAwake
<1>2. Inv /\ Roomy /\ [Next]_vars => Inv'
  <2> SUFFICES ASSUME Inv, Roomy, [Next]_vars PROVE Inv'
    OBVIOUS
  <2>1. Unblemished'
    BY UnblemishedStep
  <2>2. Calm /\ Calm'
    BY <2>1, UnblemishedIsCalm DEF Unblemished, Calm, Roused
  <2>3. Awake'
    BY <2>2, AwakeStep DEF Healthy
  <2> QED
    BY <2>1, <2>3, FitStep, KnownStep, PrefixStep, HoldersStep
<1>3. Inv => NothingStranded
  BY AwakeIsEnough DEF Unblemished
<1> HIDE DEF Inv
<1> QED
  BY <1>1, <1>2, <1>3, PTL DEF Spec

-----------------------------------------------------------------------------
(* Few events are never too many for memory                                *)

\* Few events: memory could hold each of them three times.
Few == \A k \in Kinds : 3 * Cardinality(Events) < MaxInMemory[k]

AtMostOnce(s, e) == \A i, j \in DOMAIN s : s[i] = e /\ s[j] = e => i = j
AtMostTwice(s)   == \A i, j, l \in DOMAIN s : s[i] = s[j] /\ s[j] = s[l] => i = j \/ j = l \/ i = l

\* A sender that has not appended its event yet.
BeforeAppend == {"new", "check", "get", "associate", "failed", "dropped", "blacklistCheck",
                 "append"}

\* An event is in memory at most twice, loaded from its row and appended by its sender,
\* who appends without looking; before that at most once.
Doubled ==
    \A q \in Queues, k \in Kinds :
        /\ AtMostTwice(pending[q][k])
        /\ \A e \in Events : pc[e] \in BeforeAppend => AtMostOnce(pending[q][k], e)

\* A sequence in which each of the members of a set is at most twice.
LEMMA TwiceBounded ==
  ASSUME NEW S, IsFiniteSet(S), NEW s \in Seq(S), AtMostTwice(s)
  PROVE  Len(s) <= 2 * Cardinality(S)
<1> DEFINE n == Len(s)
           A == {i \in 1 .. n : \A j \in 1 .. n : s[j] = s[i] => i <= j}
           B == (1 .. n) \ A
           f == [i \in A |-> s[i]]
           g == [i \in B |-> s[i]]
<1>1. n \in Nat /\ DOMAIN s = 1 .. n /\ \A i \in 1 .. n : s[i] \in S
  OBVIOUS
<1> HIDE DEF n
<1>2. f \in Injection(A, S)
  <2>1. f \in [A -> S]
    BY <1>1
  <2>2. ASSUME NEW i \in A, NEW j \in A, f[i] = f[j] PROVE i = j
    <3>1. i <= j /\ j <= i /\ i \in Int /\ j \in Int
      BY <1>1, <2>2
    <3> QED
      BY <3>1
  <2> QED
    BY <2>1, <2>2 DEF Injection, IsInjective
<1>3. g \in Injection(B, S)
  <2>1. g \in [B -> S]
    BY <1>1
  <2>2. ASSUME NEW i \in B, NEW j \in B, g[i] = g[j], i # j PROVE FALSE
    <3>1. PICK a \in 1 .. n : s[a] = s[i] /\ ~(i <= a)
      OBVIOUS
    <3>2. PICK b \in 1 .. n : s[b] = s[j] /\ ~(j <= b)
      OBVIOUS
    <3>3. s[i] = s[j] /\ i \in 1 .. n /\ j \in 1 .. n
      BY <2>2
    <3>4. a = j /\ b = i
      <4>1. a # i /\ b # j
        BY <1>1, <3>1, <3>2
      <4> QED
        BY <1>1, <2>2, <3>1, <3>2, <3>3, <4>1 DEF AtMostTwice
    <3> QED
      BY <1>1, <3>1, <3>2, <3>3, <3>4
  <2> QED
    BY <2>1, <2>2 DEF Injection, IsInjective
<1>4. IsFiniteSet(A) /\ Cardinality(A) <= Cardinality(S)
  BY <1>2, FS_Injection
<1>5. IsFiniteSet(B) /\ Cardinality(B) <= Cardinality(S)
  BY <1>3, FS_Injection
<1>6. 1 .. n = A \cup B /\ A \cap B = {}
  OBVIOUS
<1> HIDE DEF A, B
<1>7. Cardinality(1 .. n) = n
  BY <1>1, FS_Interval
<1>8. n = Cardinality(A) + Cardinality(B)
  <2>1. Cardinality(A \cup B) = Cardinality(A) + Cardinality(B) - Cardinality(A \cap B)
    BY <1>4, <1>5, FS_Union
  <2>2. Cardinality(A \cap B) = 0 /\ Cardinality(A \cup B) = n
    BY <1>6, <1>7, FS_EmptySet
  <2>3. Cardinality(A) \in Nat /\ Cardinality(B) \in Nat
    BY <1>4, <1>5, FS_CardinalityType
  <2> QED
    BY <2>1, <2>2, <2>3
<1>9. Cardinality(A) \in Nat /\ Cardinality(B) \in Nat /\ Cardinality(S) \in Nat
  BY <1>4, <1>5, FS_CardinalityType
<1> QED
  BY <1>4, <1>5, <1>8, <1>9 DEF n

\* Appending a single event.
LEMMA AppendDoubles ==
  ASSUME NEW S, NEW s \in Seq(S), NEW e \in S, AtMostTwice(s), AtMostOnce(s, e)
  PROVE  /\ AtMostTwice(Append(s, e))
         /\ \A x : x # e /\ AtMostOnce(s, x) => AtMostOnce(Append(s, e), x)
<1> DEFINE p == Append(s, e)
           m == Len(s)
<1>1. m \in Nat /\ DOMAIN s = 1 .. m
  OBVIOUS
<1>2. DOMAIN p = 1 .. (m + 1) /\ p[m + 1] = e /\ \A i \in 1 .. m : p[i] = s[i]
  OBVIOUS
<1> HIDE DEF p, m
<1>3. \A i \in DOMAIN p : i = m + 1 \/ (i \in DOMAIN s /\ p[i] = s[i])
  BY <1>1, <1>2
<1>4. AtMostTwice(p)
  BY <1>2, <1>3 DEF AtMostTwice, AtMostOnce
<1>5. ASSUME NEW x, x # e, AtMostOnce(s, x) PROVE AtMostOnce(p, x)
  BY <1>2, <1>3, <1>5 DEF AtMostOnce
<1> QED
  BY <1>4, <1>5 DEF p

\* Cutting a prefix.
LEMMA CutDoubles ==
  ASSUME NEW S, NEW s \in Seq(S), NEW n \in Nat, n <= Len(s)
  PROVE  /\ AtMostTwice(s) => AtMostTwice(SubSeq(s, n + 1, Len(s)))
         /\ \A x : AtMostOnce(s, x) => AtMostOnce(SubSeq(s, n + 1, Len(s)), x)
<1> DEFINE rest == SubSeq(s, n + 1, Len(s))
           m    == Len(s)
<1>1. m \in Nat /\ DOMAIN s = 1 .. m /\ n <= m
  OBVIOUS
<1>2. DOMAIN rest = 1 .. (m - n) /\ \A i \in 1 .. (m - n) : rest[i] = s[n + i]
  OBVIOUS
<1> HIDE DEF rest, m
<1>3. \A i \in DOMAIN rest : i \in Int /\ n + i \in DOMAIN s /\ rest[i] = s[n + i]
  BY <1>1, <1>2
<1>4. ASSUME AtMostTwice(s), NEW i \in DOMAIN rest, NEW j \in DOMAIN rest, NEW l \in DOMAIN rest,
             rest[i] = rest[j], rest[j] = rest[l]
      PROVE  i = j \/ j = l \/ i = l
  <2>1. n + i = n + j \/ n + j = n + l \/ n + i = n + l
    BY <1>3, <1>4 DEF AtMostTwice
  <2> QED
    BY <1>3, <2>1
<1>5. ASSUME NEW x, AtMostOnce(s, x), NEW i \in DOMAIN rest, NEW j \in DOMAIN rest,
             rest[i] = x, rest[j] = x
      PROVE  i = j
  <2>1. n + i = n + j
    BY <1>3, <1>5 DEF AtMostOnce
  <2> QED
    BY <1>3, <2>1
<1> QED
  BY <1>4, <1>5 DEF AtMostTwice, AtMostOnce, rest, m

\* Loading rows that are not in memory.
LEMMA ReloadDoubles ==
  ASSUME Fit, NEW q \in Queues, NEW k \in Kinds, NEW f \in Fetches(k), NEW p \in Reload(q, k, f)
  PROVE  /\ AtMostTwice(pending[q][k]) => AtMostTwice(p)
         /\ \A x : AtMostOnce(pending[q][k], x) => AtMostOnce(p, x)
<1> DEFINE old == pending[q][k]
           new == f.rows \ Members(old)
           n   == Least(Cardinality(new), MaxInMemory[k] - Len(old))
<1>1. PICK t \in Arrangements(new, n) : p = old \o t
  BY DEF Reload
<1>2. f.rows \subseteq Events /\ IsFiniteSet(f.rows)
  <2>1. f.rows \subseteq stored /\ stored \subseteq Events
    BY FetchedRows DEF Fit, TypeOK
  <2> QED
    BY <2>1, EventsFinite, FS_Subset
<1>3. n \in Nat
  <2>1. IsFiniteSet(new) /\ Cardinality(new) \in Nat
    BY <1>2, FS_Subset, FS_CardinalityType
  <2>2. Len(old) \in Nat /\ MaxInMemory[k] \in Nat /\ Len(old) <= MaxInMemory[k]
    BY LimitType DEF Fit, TypeOK, MemoryBounded
  <2> QED
    BY <2>1, <2>2 DEF Least
<1>4. old \in Seq(Events)
  BY DEF Fit, TypeOK
<1> HIDE DEF n
<1>5. t \in [1 .. n -> new] /\ \A i, j \in 1 .. n : t[i] = t[j] => i = j
  BY <1>1 DEF Arrangements
<1>6. t \in Seq(Events) /\ Len(t) = n
  BY <1>2, <1>3, <1>5
<1> DEFINE m == Len(old)
<1>7. m \in Nat /\ DOMAIN old = 1 .. m
  BY <1>4
<1>8. /\ DOMAIN p = 1 .. (m + n)
      /\ \A i \in 1 .. (m + n) : p[i] = IF i <= m THEN old[i] ELSE t[i - m]
  BY <1>1, <1>4, <1>6, ConcatProperties
<1>9. \A i \in DOMAIN p : /\ i \in DOMAIN old => p[i] = old[i] /\ p[i] \in Members(old)
                          /\ i \notin DOMAIN old => i \in Int /\ i - m \in 1 .. n /\ p[i] = t[i - m]
                                                    /\ p[i] \notin Members(old)
  <2> HIDE DEF m
  <2>1. ASSUME NEW i \in DOMAIN p, i \in DOMAIN old PROVE p[i] = old[i] /\ p[i] \in Members(old)
    <3>1. p[i] = old[i]
      BY <1>3, <1>7, <1>8, <2>1
    <3> QED
      BY <2>1, <3>1 DEF Members
  <2>2. ASSUME NEW i \in DOMAIN p, i \notin DOMAIN old
        PROVE  i \in Int /\ i - m \in 1 .. n /\ p[i] = t[i - m] /\ p[i] \notin Members(old)
    <3>1. i \in Int /\ i - m \in 1 .. n /\ p[i] = t[i - m]
      BY <1>3, <1>7, <1>8, <2>2
    <3> QED
      BY <1>5, <3>1
  <2> QED
    BY <2>1, <2>2
<1> HIDE DEF m, old, new
<1>10. ASSUME NEW i \in DOMAIN p, NEW j \in DOMAIN p, p[i] = p[j], i # j
       PROVE  i \in DOMAIN old /\ j \in DOMAIN old /\ old[i] = p[i] /\ old[j] = p[j]
  <2>1. ASSUME i \notin DOMAIN old PROVE FALSE
    <3>1. j \notin DOMAIN old
      BY <1>9, <1>10, <2>1
    <3>2. i - m = j - m /\ i \in Int /\ j \in Int
      BY <1>5, <1>9, <1>10, <2>1, <3>1
    <3> QED
      BY <1>7, <1>10, <3>2
  <2>2. i \in DOMAIN old /\ j \in DOMAIN old
    BY <1>9, <1>10, <2>1
  <2> QED
    BY <1>9, <2>2
<1>11. AtMostTwice(old) => AtMostTwice(p)
  BY <1>10 DEF AtMostTwice
<1>12. \A x : AtMostOnce(old, x) => AtMostOnce(p, x)
  BY <1>10 DEF AtMostOnce
<1> QED
  BY <1>11, <1>12 DEF old

\* Memory that is kept or dropped, and senders that are not set back.
LEMMA DoubledFrame ==
  ASSUME Doubled,
         \A q \in Queues : pending'[q] = pending[q] \/ pending'[q] = NothingPending,
         \A e \in Events : pc'[e] \in BeforeAppend => pc[e] \in BeforeAppend
  PROVE  Doubled'
<1> SUFFICES ASSUME NEW q \in Queues, NEW k \in Kinds
             PROVE  /\ AtMostTwice(pending'[q][k])
                    /\ \A e \in Events : pc'[e] \in BeforeAppend => AtMostOnce(pending'[q][k], e)
  BY DEF Doubled, AtMostTwice, AtMostOnce
<1>1. CASE pending'[q] = pending[q]
  BY <1>1 DEF Doubled
<1>2. CASE pending'[q] = NothingPending
  <2>1. pending'[q][k] = <<>>
    BY <1>2 DEF NothingPending
  <2> QED
    BY <2>1 DEF AtMostTwice, AtMostOnce
<1> QED
  BY <1>1, <1>2

\* One queue's memory is replaced.
LEMMA DoubledReplaced ==
  ASSUME Fit, Doubled, pc' = pc, NEW q \in Queues, NEW v, pending' = [pending EXCEPT ![q] = v],
         \A k \in Kinds : /\ AtMostTwice(pending[q][k]) => AtMostTwice(v[k])
                          /\ \A x : AtMostOnce(pending[q][k], x) => AtMostOnce(v[k], x)
  PROVE  Doubled'
<1> SUFFICES ASSUME NEW r \in Queues, NEW k \in Kinds
             PROVE  /\ AtMostTwice(pending'[r][k])
                    /\ \A e \in Events : pc'[e] \in BeforeAppend => AtMostOnce(pending'[r][k], e)
  BY DEF Doubled, AtMostTwice, AtMostOnce
<1>1. pending'[q] = v /\ \A x \in Queues : x # q => pending'[x] = pending[x]
  BY DEF Fit, TypeOK
<1>2. CASE r = q
  BY <1>1, <1>2 DEF Doubled
<1>3. CASE r # q
  BY <1>1, <1>3 DEF Doubled
<1> QED
  BY <1>2, <1>3

\* The steps of a goroutine other than the append set no sender back.
LEMMA ThreadDoubled ==
  ASSUME Fit, Doubled, pending' = pending, NEW th \in Threads, NEW to,
         pc' = [pc EXCEPT ![th] = to],
         th \in Events /\ to \in BeforeAppend => pc[th] \in BeforeAppend
  PROVE  Doubled'
<1>1. pc \in [Threads -> SenderPoints \cup OtherPoints]
  BY DEF Fit, TypeOK
<1>2. \A e \in Events : pc'[e] \in BeforeAppend => pc[e] \in BeforeAppend
  BY <1>1 DEF Threads
<1> QED
  BY <1>2, DoubledFrame

\* The append.
LEMMA AppendDoubled ==
  ASSUME Fit, Holders, Doubled, NEW e \in Events, SendAppend(e) PROVE Doubled'
<1>0. /\ pc \in [Threads -> SenderPoints \cup OtherPoints] /\ e \in Threads
      /\ pending \in [Queues -> [Kinds -> Seq(Events)]]
  BY DEF Fit, TypeOK, Threads
<1>1. PICK q \in Queues : q = at[e]
  BY <1>0 DEF SendAppend, Goto, Holders, Holds
<1>2. PICK k \in Kinds : k = KindOf(e)
  BY DEF KindOf, Kinds
<1>3. pc[e] = "append" /\ pc' = [pc EXCEPT ![e] = "backoffCheck"]
  BY DEF SendAppend, Goto
<1>4. CASE pending' = pending
  BY <1>0, <1>3, <1>4, ThreadDoubled DEF BeforeAppend
<1>5. CASE pending' # pending
  <2>1. pending' = [pending EXCEPT ![q][k] = Append(pending[q][k], e)]
    BY <1>1, <1>2, <1>5 DEF SendAppend
  <2>2. AtMostTwice(pending[q][k]) /\ AtMostOnce(pending[q][k], e) /\ pending[q][k] \in Seq(Events)
    BY <1>0, <1>3 DEF Doubled, BeforeAppend
  <2>3. /\ AtMostTwice(Append(pending[q][k], e))
        /\ \A x : x # e /\ AtMostOnce(pending[q][k], x) => AtMostOnce(Append(pending[q][k], e), x)
    BY <2>2, AppendDoubles
  <2>4. pc'[e] \notin BeforeAppend /\ \A x \in Events : x # e => pc'[x] = pc[x]
    BY <1>0, <1>3 DEF BeforeAppend, Threads
  <2> SUFFICES ASSUME NEW r \in Queues, NEW l \in Kinds
               PROVE  /\ AtMostTwice(pending'[r][l])
                      /\ \A x \in Events : pc'[x] \in BeforeAppend => AtMostOnce(pending'[r][l], x)
    BY DEF Doubled, AtMostTwice, AtMostOnce
  <2>5. CASE r = q /\ l = k
    <3>1. pending'[r][l] = Append(pending[q][k], e)
      BY <1>0, <2>1, <2>5
    <3> QED
      BY <2>3, <2>4, <2>5, <3>1 DEF Doubled
  <2>6. CASE ~(r = q /\ l = k)
    <3>1. pending'[r][l] = pending[r][l]
      BY <1>0, <2>1, <2>6
    <3> QED
      BY <2>4, <3>1 DEF Doubled
  <2> QED
    BY <2>5, <2>6
<1> QED
  BY <1>4, <1>5

\* The steps of a worker.
LEMMA WorkerDoubled ==
  ASSUME Fit, BatchIsPrefix, Doubled, NEW q \in Queues, Worker(q) PROVE Doubled'
<1>0. /\ pc \in [Threads -> SenderPoints \cup OtherPoints]
      /\ pending \in [Queues -> [Kinds -> Seq(Events)]] /\ batch \in [Queues -> [Kinds -> Seq(Events)]]
  BY DEF Fit, TypeOK
<1>1. CASE Loop(q)
  <2>1. pc' = pc
    BY <1>1 DEF Loop, threads
  <2>2. CASE pending' = pending
    BY <2>1, <2>2, DoubledFrame
  <2>3. CASE pending' # pending
    <3>1. PICK fp \in Fetches("pdu"), fe \in Fetches("edu") :
             \E p \in Reload(q, "pdu", fp), e \in Reload(q, "edu", fe) : Load(q, fp, p, fe, e)
      BY <1>1, <2>3 DEF Loop
    <3>2. PICK p \in Reload(q, "pdu", fp), e \in Reload(q, "edu", fe) : Load(q, fp, p, fe, e)
      BY <3>1
    <3> DEFINE v == [k \in Kinds |-> IF k = "pdu" THEN p ELSE e]
    <3>3. pending' = [pending EXCEPT ![q] = v]
      BY <3>2 DEF Load
    <3>4. ASSUME NEW k \in Kinds
          PROVE  /\ AtMostTwice(pending[q][k]) => AtMostTwice(v[k])
                 /\ \A x : AtMostOnce(pending[q][k], x) => AtMostOnce(v[k], x)
      <4>1. CASE k = "pdu"
        BY <4>1, ReloadDoubles DEF Kinds
      <4>2. CASE k = "edu"
        BY <4>2, ReloadDoubles DEF Kinds
      <4> QED
        BY <4>1, <4>2 DEF Kinds
    <3> HIDE DEF v
    <3> QED
      BY <2>1, <3>3, <3>4, DoubledReplaced
  <2> QED
    BY <2>2, <2>3
<1>2. CASE RemoveSent(q)
  <2> DEFINE v == [k \in Kinds |-> SubSeq(pending[q][k], Len(batch[q][k]) + 1, Len(pending[q][k]))]
  <2>1. wpc[q] = "remove" /\ pc' = pc /\ pending' = [pending EXCEPT ![q] = v]
    BY <1>2 DEF RemoveSent, Move, threads
  <2>2. ASSUME NEW k \in Kinds
        PROVE  /\ AtMostTwice(pending[q][k]) => AtMostTwice(v[k])
               /\ \A x : AtMostOnce(pending[q][k], x) => AtMostOnce(v[k], x)
    <3>1. /\ Len(batch[q][k]) \in Nat /\ pending[q][k] \in Seq(Events)
          /\ Len(batch[q][k]) <= Len(pending[q][k])
      BY <1>0, <2>1 DEF BatchIsPrefix, Transacting
    <3> QED
      BY <3>1, CutDoubles
  <2> HIDE DEF v
  <2> QED
    BY <2>1, <2>2, DoubledReplaced
<1>3. CASE BlacklistClear(q)
  <2>1. pc' = pc /\ pending' = [pending EXCEPT ![q] = NothingPending]
    BY <1>3 DEF BlacklistClear, threads
  <2>2. \A r \in Queues : pending'[r] = pending[r] \/ pending'[r] = NothingPending
    BY <1>0, <2>1
  <2> QED
    BY <2>1, <2>2, DoubledFrame
<1>4. CASE Stop(q)
  <2>1. pc' = [pc EXCEPT ![q] = "close"] /\ pending' = pending
    BY <1>4 DEF Stop, Goto
  <2> QED
    BY <2>1, ThreadDoubled, ThreadsAssumption DEF Threads
<1>5. CASE ~(Loop(q) \/ RemoveSent(q) \/ BlacklistClear(q) \/ Stop(q))
  <2>1. UNCHANGED <<pending, pc>>
    BY <1>5 DEF Worker, Start, SelectNotify, SelectIdle, SelectDone, Snapshot, Send, CleanPDUs,
                CleanEDUs, Clean, TransactionSuccess, TransactionFailure, BackOff,
                BlacklistUnassign, BlacklistDelete, objects, threads
  <2> QED
    BY <2>1, DoubledFrame
<1> QED
  BY <1>1, <1>2, <1>3, <1>4, <1>5

\* Doubled is inductive.
LEMMA DoubledStep ==
  ASSUME Fit, Holders, BatchIsPrefix, Doubled, [Next]_vars PROVE Doubled'
<1>0. ASSUME UNCHANGED <<objects, threads>> PROVE Doubled'
  BY <1>0, DoubledFrame DEF objects, threads
<1>1. CASE UNCHANGED vars
  BY <1>0, <1>1 DEF vars
<1>2. ASSUME NEW th \in Threads,
             Wake(th) \/ (\E to \in {"dropped", "idle"} : GetQueueCheck(th, to))
             \/ (\E found : GetQueueGet(th, found))
      PROVE  Doubled'
  <2>1. CASE Wake(th)
    <3>1. pending' = pending /\ \E to \in {"unback", "spawn", "done", "idle"} : pc' = [pc EXCEPT ![th] = to]
      BY <2>1 DEF Wake, WakeNotify, WakeUnback, WakeSpawn, Proceed, Goto, Rest
    <3> QED
      BY <3>1, ThreadDoubled DEF BeforeAppend
  <2>2. CASE (\E to \in {"dropped", "idle"} : GetQueueCheck(th, to)) \/ \E found : GetQueueGet(th, found)
    <3>1. /\ pending' = pending /\ pc[th] \in {"check", "get"}
          /\ \E to : pc' = [pc EXCEPT ![th] = to]
      BY <2>2 DEF GetQueueCheck, GetQueueGet, Goto, objects
    <3> QED
      BY <3>1, ThreadDoubled DEF BeforeAppend
  <2> QED
    BY <1>2, <2>1, <2>2
<1>3. ASSUME NEW e \in Events, SendBegin(e) \/ Expire(e) \/ Sender(e) PROVE Doubled'
  <2>0. e \in Threads
    BY DEF Threads
  <2>1. CASE SendBegin(e) \/ SendAssociate(e) \/ SendBlacklistCheck(e) \/ SendBackoffCheck(e)
    <3>1. /\ pending' = pending
          /\ \E to : pc' = [pc EXCEPT ![e] = to] /\ (to \in BeforeAppend => pc[e] \in BeforeAppend)
      BY <2>1 DEF SendBegin, SendAssociate, SendBlacklistCheck, SendBackoffCheck, Proceed, Goto,
                  objects, BeforeAppend
    <3> QED
      BY <2>0, <3>1, ThreadDoubled
  <2>2. CASE Expire(e)
    BY <1>0, <2>2 DEF Expire
  <2> QED
    BY <1>2, <1>3, <2>0, <2>1, <2>2, AppendDoubled DEF Sender
<1>4. ASSUME NEW q \in Queues, Closer(q) PROVE Doubled'
  <2>1. q \in Threads /\ q \notin Events
    BY ThreadsAssumption DEF Threads
  <2>2. CASE CloseCheck(q)
    <3>1. pending' = pending /\ \E to : pc' = [pc EXCEPT ![q] = to]
      BY <2>2 DEF CloseCheck, Proceed, Goto
    <3> QED
      BY <2>1, <3>1, ThreadDoubled
  <2> QED
    BY <1>2, <1>4, <2>1, <2>2 DEF Closer
<1>5. CASE TimerThread \/ ApiThread \/ Wake("hydrate") \/ TimerFires \/ ApiAlive
  <2>0. {"timer", "api", "hydrate"} \subseteq Threads \ Events
    BY ThreadsAssumption DEF Threads, Other
  <2>1. CASE TimerFires \/ TimerNotifier \/ ApiAlive \/ RetryPending
    <3>1. pending' = pending /\ \E th \in {"timer", "api"} : \E to : pc' = [pc EXCEPT ![th] = to]
      BY <2>1 DEF TimerFires, TimerNotifier, ApiAlive, RetryPending, Proceed, Goto, objects
    <3> QED
      BY <2>0, <3>1, ThreadDoubled
  <2> QED
    BY <1>2, <1>5, <2>0, <2>1 DEF TimerThread, ApiThread
<1>6. CASE ApiSuccess \/ ApiFailure \/ Shutdown
  BY <1>0, <1>6 DEF ApiSuccess, ApiFailure, Shutdown
<1>7. CASE Restart
  <2>1. pending' = [q \in Queues |-> NothingPending]
    BY <1>7 DEF Restart
  <2>2. \A q \in Queues, k \in Kinds : pending'[q][k] = <<>>
    BY <2>1 DEF NothingPending
  <2> QED
    BY <2>2 DEF Doubled, AtMostTwice, AtMostOnce
<1> QED
  BY <1>1, <1>3, <1>4, <1>5, <1>6, <1>7, WorkerDoubled DEF Next, Thread

\* Few events leave room in memory.
LEMMA FewAreRoomy ==
  ASSUME Few, Fit, Doubled PROVE Roomy
<1> SUFFICES ASSUME NEW q \in Queues, NEW k \in Kinds
             PROVE  Len(pending[q][k]) + Cardinality(Rows(k)) < MaxInMemory[k]
  BY DEF Roomy
<1> DEFINE l == Len(pending[q][k])
           r == Cardinality(Rows(k))
           c == Cardinality(Events)
           m == MaxInMemory[k]
<1>1. pending[q][k] \in Seq(Events) /\ AtMostTwice(pending[q][k])
  BY DEF Fit, TypeOK, Doubled
<1>2. l \in Nat /\ l <= 2 * c
  BY <1>1, EventsFinite, TwiceBounded
<1>3. r \in Nat /\ r <= c /\ c \in Nat
  <2>1. Rows(k) \in SUBSET Events
    BY DEF Rows, Fit, TypeOK
  <2> QED
    BY <2>1, EventsFinite, FS_Subset, FS_CardinalityType
<1>4. 3 * c < m /\ m \in Nat
  BY LimitType DEF Few
<1> HIDE DEF l, r, c, m
<1>5. l + r < m
  BY <1>2, <1>3, <1>4
<1> QED
  BY <1>5 DEF l, r, m

\* Memory always has room for the rows if it has room for three times the events that
\* are ever sent.
LEMMA FewAreAlwaysRoomy ==
  ASSUME Few PROVE Spec => []Roomy
<1> DEFINE Inv == Fit /\ BatchIsPrefix /\ Holders /\ Doubled
<1>1. Init => Inv
  <2>1. Init => BatchIsPrefix
    BY DEF Init, BatchIsPrefix, Transacting
  <2>2. Init => Doubled
    <3> SUFFICES ASSUME Init PROVE Doubled
      OBVIOUS
    <3>1. \A q \in Queues, k \in Kinds : pending[q][k] = <<>>
      BY DEF Init, NothingPending
    <3> QED
      BY <3>1 DEF Doubled, AtMostTwice, AtMostOnce
  <2> QED
    BY <2>1, <2>2, InitFits, InitHolders
<1>2. Inv /\ [Next]_vars => Inv'
  BY FitStep, PrefixStep, HoldersStep, DoubledStep
<1>3. Inv => Roomy
  BY FewAreRoomy
<1> HIDE DEF Inv
<1> QED
  BY <1>1, <1>2, <1>3, PTL DEF Spec

\* No lost wake-up, without a condition on the behaviour: if memory has room for three
\* times the events that are ever sent, no event is stranded at a destination that answers.
THEOREM FewAreNotStranded ==
  ASSUME Healthy, Few PROVE Spec => []NothingStranded
BY FewAreAlwaysRoomy, NobodyIsStranded, PTL

-----------------------------------------------------------------------------
(* A destination that fails                                                *)

\* Failures, in the queue and outside, stay below the threshold of the blacklist.
Tolerated == MaxFailures + 1 < FailuresUntilBlacklist

\* A queue object nobody uses.
Unused(q) ==
    /\ wpc[q] = "stopped" /\ spawned[q] = 0 /\ ~backingOff[q]
    /\ pc[q] = "idle"

\* There is one queue object at a time, and no goroutine holds another.
OneQueue ==
    /\ notifier = current
    /\ \A th \in Threads : at[th] \in {current, NoQueue}
    /\ \A q \in Queues : q # current => Unused(q)

\* The server is never blacklisted.
NotListed ==
    /\ ~blacklisted /\ ~dbBlacklist /\ failures <= MaxFailures + 1
    /\ \A q \in Queues :
          /\ wpc[q] \notin {"blacklist", "unassign", "delete"}
          /\ wpc[q] = "failure" => failures <= MaxFailures

\* A worker is about to back off only while the timer runs. A queue that backs off has
\* no worker and nobody who will start one, and the timer will wake it.
BackingOff ==
    \A q \in Queues :
        /\ wpc[q] = "backoff" => timer = "armed"
        /\ backingOff[q] =>
              /\ wpc[q] \in {"stop", "stopped"} /\ spawned[q] = 0
              /\ \A th \in Threads : at[th] = q => pc[th] # "spawn"
              /\ done \/ timer = "armed" \/ pc["timer"] # "idle"

\* A goroutine moves: it holds the queue or none, and an unused queue stays unused.
LEMMA OneQueueMoves ==
  ASSUME Fit, OneQueue, NEW th \in Threads, NEW to, NEW v \in {current, NoQueue},
         pc' = [pc EXCEPT ![th] = to], at' = [at EXCEPT ![th] = v],
         UNCHANGED <<wpc, current, notifier>>, th \in Queues => th = current,
         \A q \in Queues : q # current => spawned'[q] = spawned[q] /\ (backingOff'[q] => backingOff[q])
  PROVE  OneQueue'
<1>1. pc \in [Threads -> SenderPoints \cup OtherPoints] /\ at \in [Threads -> Queues \cup {NoQueue}]
  BY DEF Fit, TypeOK
<1>2. at'[th] = v /\ \A x \in Threads : x # th => pc'[x] = pc[x] /\ at'[x] = at[x]
  BY <1>1
<1>3. \A x \in Threads : at'[x] \in {current', NoQueue}
  BY <1>2 DEF OneQueue
<1>4. ASSUME NEW q \in Queues, q # current PROVE Unused(q)'
  <2>1. q \in Threads /\ q # th /\ Unused(q)
    BY <1>4 DEF OneQueue, Threads
  <2> QED
    BY <1>2, <1>4, <2>1 DEF Unused
<1> QED
  BY <1>3, <1>4 DEF OneQueue

\* The queue that a waking goroutine, a closing goroutine or a worker serves is in use.
LEMMA InUse ==
  ASSUME Fit, Holders, OneQueue
  PROVE  /\ \A th \in Threads : pc[th] \in Holds => at[th] = current /\ current \in Queues
         /\ \A q \in Queues : wpc[q] # "stopped" \/ spawned[q] > 0 \/ pc[q] # "idle" => q = current
<1>1. \A th \in Threads : pc[th] \in Holds => at[th] \in Queues /\ at[th] \in {current, NoQueue}
  BY DEF Holders, OneQueue
<1>2. NoQueue \notin Queues
  BY ThreadsAssumption
<1>3. ASSUME NEW q \in Queues, wpc[q] # "stopped" \/ spawned[q] > 0 \/ pc[q] # "idle"
      PROVE  q = current
  BY <1>3 DEF OneQueue, Unused
<1> QED
  BY <1>1, <1>2, <1>3

\* Goroutines do not share a second queue object.
LEMMA ThreadOneQueue ==
  ASSUME Fit, Holders, OneQueue,
         \/ \E th \in Threads : Wake(th)
         \/ \E e \in Events : SendBegin(e) \/ Sender(e)
         \/ \E q \in Queues : CloseCheck(q)
         \/ TimerFires \/ TimerNotifier \/ ApiAlive \/ RetryPending
         \/ GetQueueCheck("api", "idle") \/ GetQueueGet("api", "pending")
  PROVE  OneQueue'
<1>0. /\ pc \in [Threads -> SenderPoints \cup OtherPoints] /\ at \in [Threads -> Queues \cup {NoQueue}]
      /\ backingOff \in [Queues -> BOOLEAN] /\ spawned \in [Queues -> Nat]
      /\ \A x \in Threads : at[x] \in {current, NoQueue}
      /\ \A x : at' = at => at' = [at EXCEPT ![x] = at[x]]
  BY DEF Fit, TypeOK, OneQueue
<1>1. Events \subseteq Threads \ Queues /\ {"timer", "api"} \subseteq Threads \ Queues
      /\ Queues \subseteq Threads
  BY ThreadsAssumption DEF Threads, Other
<1>2. ASSUME NEW th \in Threads, Wake(th) PROVE OneQueue'
  <2>1. pc[th] \in {"notify", "unback", "spawn"}
    BY <1>2 DEF Wake, WakeNotify, WakeUnback, WakeSpawn, Proceed, Goto
  <2>2. at[th] = current /\ current \in Queues /\ (th \in Queues => th = current)
    BY <1>1, <2>1, InUse DEF Holds
  <2>3. /\ \E to : pc' = [pc EXCEPT ![th] = to]
        /\ at' = at \/ \E v \in {current, NoQueue} : at' = [at EXCEPT ![th] = v]
        /\ UNCHANGED <<wpc, current, notifier>>
        /\ spawned' = spawned \/ spawned' = [spawned EXCEPT ![current] = spawned[current] + 1]
        /\ backingOff' = backingOff \/ backingOff' = [backingOff EXCEPT ![current] = FALSE]
    <3>1. CASE WakeNotify(th) \/ WakeUnback(th)
      BY <2>2, <3>1 DEF WakeNotify, WakeUnback, Goto, workers, table
    <3>2. CASE WakeSpawn(th)
      <4>1. at' = [at EXCEPT ![th] = NoQueue] \/ at' = [at EXCEPT ![th] = at[th]]
        BY <3>2 DEF WakeSpawn, Proceed
      <4> QED
        BY <2>2, <3>2, <4>1 DEF WakeSpawn, Proceed, Goto, workers, table
    <3> QED
      BY <1>2, <3>1, <3>2 DEF Wake
  <2>4. \E v \in {current, NoQueue} : at' = [at EXCEPT ![th] = v]
    <3>1. CASE at' = at
      <4>1. at' = [at EXCEPT ![th] = at[th]]
        BY <1>0, <3>1
      <4> QED
        BY <2>2, <4>1
    <3> QED
      BY <2>3, <3>1
  <2>5. \A q \in Queues : q # current => spawned'[q] = spawned[q] /\ (backingOff'[q] => backingOff[q])
    BY <1>0, <2>2, <2>3
  <2>6. PICK to : pc' = [pc EXCEPT ![th] = to]
    BY <2>3
  <2>7. PICK v \in {current, NoQueue} : at' = [at EXCEPT ![th] = v]
    BY <2>4
  <2>8. UNCHANGED <<wpc, current, notifier>>
    BY <2>3
  <2> QED
    BY <2>2, <2>5, <2>6, <2>7, <2>8, OneQueueMoves
<1>3. ASSUME NEW th \in Threads \ Queues, NEW to, GetQueueCheck(th, to) PROVE OneQueue'
  <2>1. /\ \E x : pc' = [pc EXCEPT ![th] = x]
        /\ at' = at /\ UNCHANGED <<wpc, current, notifier, spawned, backingOff>>
    BY <1>3 DEF GetQueueCheck, Goto, objects, workers, table
  <2>2. at' = [at EXCEPT ![th] = at[th]] /\ at[th] \in {current, NoQueue}
    BY <1>0, <2>1
  <2> QED
    BY <2>1, <2>2, OneQueueMoves
<1>4. ASSUME NEW th \in Threads \ Queues, NEW found, GetQueueGet(th, found) PROVE OneQueue'
  <2>1. /\ pc' = [pc EXCEPT ![th] = found]
        /\ UNCHANGED <<wpc, spawned, backingOff>>
    BY <1>4 DEF GetQueueGet, Goto, objects, workers
  <2>2. CASE current # NoQueue
    <3>1. at' = [at EXCEPT ![th] = current] /\ UNCHANGED <<current, notifier>>
      BY <1>4, <2>2 DEF GetQueueGet, table
    <3> QED
      BY <2>1, <3>1, OneQueueMoves
  <2>3. CASE current = NoQueue
    <3>1. PICK q \in Queues : current' = q /\ notifier' = q /\ at' = [at EXCEPT ![th] = q]
      BY <1>4, <2>3 DEF GetQueueGet
    <3>2. \A x \in Threads : at'[x] \in {q, NoQueue}
      BY <1>0, <2>3, <3>1
    <3>3. ASSUME NEW r \in Queues, r # q PROVE Unused(r)'
      <4>1. Unused(r) /\ r # th
        BY <2>3, ThreadsAssumption DEF OneQueue
      <4>2. pc'[r] = pc[r]
        BY <1>0, <1>1, <2>1, <4>1
      <4> QED
        BY <2>1, <4>1, <4>2 DEF Unused
    <3> QED
      BY <3>1, <3>2, <3>3 DEF OneQueue
  <2> QED
    BY <2>2, <2>3
<1>5. ASSUME NEW e \in Events,
             \/ SendBegin(e) \/ SendAssociate(e) \/ SendBlacklistCheck(e) \/ SendAppend(e)
             \/ SendBackoffCheck(e)
      PROVE  OneQueue'
  <2>1. /\ \E to : pc' = [pc EXCEPT ![e] = to]
        /\ UNCHANGED <<wpc, current, notifier, spawned, backingOff>>
    BY <1>5 DEF SendBegin, SendAssociate, SendBlacklistCheck, SendAppend, SendBackoffCheck, Proceed,
                Goto, objects, workers, table
  <2>2. at' = at \/ at' = [at EXCEPT ![e] = NoQueue] \/ at' = [at EXCEPT ![e] = at[e]]
    <3>1. CASE SendBegin(e) \/ SendAppend(e)
      BY <3>1 DEF SendBegin, SendAppend
    <3>2. ASSUME NEW from, NEW to, Proceed(e, from, to)
          PROVE  at' = [at EXCEPT ![e] = NoQueue] \/ at' = [at EXCEPT ![e] = at[e]]
      BY <3>2 DEF Proceed
    <3>3. CASE SendAssociate(e) \/ SendBlacklistCheck(e) \/ SendBackoffCheck(e)
      BY <3>2, <3>3 DEF SendAssociate, SendBlacklistCheck, SendBackoffCheck
    <3> QED
      BY <1>5, <3>1, <3>3
  <2>3. \E v \in {current, NoQueue} : at' = [at EXCEPT ![e] = v]
    BY <1>0, <1>1, <2>2
  <2> QED
    BY <1>1, <2>1, <2>3, OneQueueMoves
<1>6. ASSUME NEW q \in Queues, CloseCheck(q) PROVE OneQueue'
  <2>1. pc[q] = "close" /\ UNCHANGED <<wpc, current, notifier, spawned, backingOff>>
        /\ \E to : pc' = [pc EXCEPT ![q] = to]
    BY <1>6 DEF CloseCheck, Proceed, Goto, workers, table
  <2>2. at' = [at EXCEPT ![q] = NoQueue] \/ at' = [at EXCEPT ![q] = at[q]]
    BY <1>6 DEF CloseCheck, Proceed
  <2>3. q = current /\ at[q] \in {current, NoQueue}
    BY <1>0, <1>1, <2>1, InUse
  <2> QED
    BY <1>1, <2>1, <2>2, <2>3, OneQueueMoves
<1>7. CASE TimerFires \/ TimerNotifier \/ ApiAlive \/ RetryPending
  <2>1. UNCHANGED <<wpc, current, notifier, spawned, backingOff>>
    BY <1>7 DEF TimerFires, TimerNotifier, ApiAlive, RetryPending, objects, workers, table
  <2>2. PICK th \in {"timer", "api"} :
           /\ \E to : pc' = [pc EXCEPT ![th] = to]
           /\ at' = at \/ \E v \in {notifier, NoQueue, at[th]} : at' = [at EXCEPT ![th] = v]
    <3>1. CASE TimerFires \/ TimerNotifier
      BY <3>1 DEF TimerFires, TimerNotifier, Goto
    <3>2. CASE ApiAlive \/ RetryPending
      BY <3>2 DEF ApiAlive, RetryPending, Proceed, Goto
    <3> QED
      BY <1>7, <3>1, <3>2
  <2>3. \E v \in {current, NoQueue} : at' = [at EXCEPT ![th] = v]
    <3>1. at[th] \in {current, NoQueue} /\ notifier = current
      BY <1>0, <1>1 DEF OneQueue
    <3> QED
      BY <1>0, <2>2, <3>1
  <2> QED
    BY <1>1, <2>1, <2>2, <2>3, OneQueueMoves
<1> QED
  BY <1>1, <1>2, <1>3, <1>4, <1>5, <1>6, <1>7 DEF Sender

\* What a worker does to the table of queues and to the goroutines.
LEMMA WorkerOneQueue ==
  ASSUME Fit, Holders, OneQueue, NotListed, NEW q \in Queues, Worker(q)
  PROVE  OneQueue' /\ q = current
<1>0. /\ wpc \in [Queues -> WorkerPoints] /\ spawned \in [Queues -> Nat]
      /\ backingOff \in [Queues -> BOOLEAN]
      /\ pc \in [Threads -> SenderPoints \cup OtherPoints] /\ at \in [Threads -> Queues \cup {NoQueue}]
      /\ wpc[q] \notin {"blacklist", "unassign", "delete"}
  BY DEF Fit, TypeOK, NotListed
<1>1. wpc[q] # "stopped" \/ spawned[q] > 0
  BY DEF Worker, Start, Loop, SelectNotify, SelectIdle, SelectDone, Snapshot, Send, CleanPDUs,
         CleanEDUs, Clean, TransactionSuccess, RemoveSent, TransactionFailure, BackOff,
         BlacklistClear, BlacklistUnassign, BlacklistDelete, Stop, Move
<1>2. q = current
  BY <1>1, InUse
<1>3. UNCHANGED <<current, notifier>>
  <2>1. CASE BlacklistUnassign(q) \/ BlacklistDelete(q)
    BY <1>0, <2>1 DEF BlacklistUnassign, BlacklistDelete, Move
  <2> QED
    BY <2>1 DEF Worker, Start, Loop, SelectNotify, SelectIdle, SelectDone, Snapshot, Send, CleanPDUs,
         CleanEDUs, Clean, TransactionSuccess, RemoveSent, TransactionFailure, BackOff,
         BlacklistClear, Stop, table
<1>4. /\ wpc' = wpc \/ \E to : wpc' = [wpc EXCEPT ![q] = to]
      /\ spawned' = spawned \/ \E n : spawned' = [spawned EXCEPT ![q] = n]
      /\ backingOff' = backingOff \/ backingOff' = [backingOff EXCEPT ![q] = TRUE]
      /\ pc' = pc \/ pc' = [pc EXCEPT ![q] = "close"]
      /\ at' = at \/ at' = [at EXCEPT ![q] = q]
  <2>1. CASE \/ Start(q) \/ Loop(q) \/ SelectNotify(q) \/ SelectIdle(q) \/ SelectDone(q)
             \/ Snapshot(q)
    BY <2>1 DEF Start, Loop, SelectNotify, SelectIdle, SelectDone, Snapshot, Move, objects, threads
  <2>2. CASE Send(q)
    BY <2>2 DEF Send, Move, objects, threads
  <2>3. CASE CleanPDUs(q) \/ CleanEDUs(q) \/ TransactionSuccess(q) \/ RemoveSent(q)
    BY <2>3 DEF CleanPDUs, CleanEDUs, Clean, TransactionSuccess, RemoveSent, Move, objects, threads
  <2>4. CASE TransactionFailure(q) \/ BackOff(q) \/ BlacklistClear(q)
    BY <2>4 DEF TransactionFailure, BackOff, BlacklistClear, Move, objects, threads
  <2>5. CASE BlacklistUnassign(q) \/ BlacklistDelete(q)
    BY <2>5 DEF BlacklistUnassign, BlacklistDelete, Move, objects, threads
  <2>6. CASE Stop(q)
    BY <2>6 DEF Stop, Goto, Move
  <2> QED
    BY <2>1, <2>2, <2>3, <2>4, <2>5, <2>6 DEF Worker
<1>5. \A x \in Threads : at'[x] \in {current, NoQueue}
  BY <1>0, <1>2, <1>4 DEF OneQueue
<1>6. ASSUME NEW r \in Queues, r # current PROVE Unused(r)'
  <2>1. /\ wpc'[r] = wpc[r] /\ spawned'[r] = spawned[r] /\ backingOff'[r] = backingOff[r]
    BY <1>0, <1>2, <1>4, <1>6
  <2>2. pc'[r] = pc[r]
    BY <1>0, <1>2, <1>4, <1>6 DEF Threads
  <2> QED
    BY <1>6, <2>1, <2>2 DEF OneQueue, Unused
<1> QED
  BY <1>2, <1>3, <1>5, <1>6 DEF OneQueue

\* Nothing is used after a restart but what is rehydrated.
LEMMA RestartOneQueue ==
  ASSUME Fit, Restart PROVE OneQueue'
<1>1. PICK q \in Queues, h \in BOOLEAN :
          /\ current'  = IF h THEN q ELSE NoQueue
          /\ notifier' = IF h THEN q ELSE NoQueue
          /\ created'  = IF h THEN {q} ELSE {}
          /\ at' = [th \in Threads |-> IF h /\ th = "hydrate" THEN q ELSE NoQueue]
          /\ pc' = [th \in Threads |->
                      CASE th \in Events -> AfterRestart(pc[th])
                        [] h /\ th = "hydrate" -> "unback"
                        [] OTHER -> "idle"]
  BY RestartThreads, Zenon
<1>2. /\ wpc' = [r \in Queues |-> "stopped"] /\ spawned' = [r \in Queues |-> 0]
      /\ backingOff' = [r \in Queues |-> FALSE]
  BY DEF Restart
<1>3. \A r \in Queues : r \in Threads /\ r \notin Events /\ r # "hydrate"
  BY ThreadsAssumption DEF Threads, Other
<1>4. \A r \in Queues : pc'[r] = "idle"
  BY <1>1, <1>3
<1>5. \A th \in Threads : at'[th] \in {current', NoQueue}
  BY <1>1
<1> QED
  BY <1>1, <1>2, <1>4, <1>5 DEF OneQueue, Unused

\* OneQueue is inductive if the server is never blacklisted.
LEMMA OneQueueStep ==
  ASSUME Fit, Holders, NotListed, OneQueue, [Next]_vars PROVE OneQueue'
<1>0. ASSUME UNCHANGED <<objects, workers, table, threads>> PROVE OneQueue'
  BY <1>0 DEF OneQueue, Unused, objects, workers, table, threads
<1>1. CASE UNCHANGED vars
  BY <1>0, <1>1 DEF vars
<1>2. ASSUME NEW e \in Events, SendBegin(e) \/ Expire(e) PROVE OneQueue'
  BY <1>0, <1>2, ThreadOneQueue DEF Expire
<1>3. CASE Thread
  <2>1. ASSUME NEW q \in Queues, Closer(q) PROVE OneQueue'
    BY <2>1, ThreadOneQueue DEF Closer, Threads
  <2>2. CASE TimerThread
    BY <2>2, ThreadOneQueue DEF TimerThread, Threads, Other
  <2>3. CASE ApiThread
    BY <2>3, ThreadOneQueue DEF ApiThread, Threads, Other
  <2>4. CASE Wake("hydrate")
    BY <2>4, ThreadOneQueue DEF Threads, Other
  <2> QED
    BY <1>3, <2>1, <2>2, <2>3, <2>4, ThreadOneQueue DEF Thread
<1>4. CASE ApiSuccess \/ ApiFailure \/ Shutdown
  BY <1>0, <1>4 DEF ApiSuccess, ApiFailure, Shutdown
<1> QED
  BY <1>1, <1>2, <1>3, <1>4, ThreadOneQueue, WorkerOneQueue, RestartOneQueue DEF Next

\* A failure below the threshold does not blacklist.
LEMMA FailureTolerated ==
  ASSUME Tolerated, Fit, NotListed, StatsFailure, failures <= MaxFailures
  PROVE  /\ ~blacklisted' /\ ~dbBlacklist' /\ timer' = "armed"
         /\ failures' = failures \/ failures' = failures + 1
<1>0. /\ failures \in Nat /\ MaxFailures \in Nat /\ FailuresUntilBlacklist \in Nat
      /\ timer \in {"off", "armed"} /\ ~blacklisted /\ ~dbBlacklist
  BY LimitsAssumption DEF Fit, TypeOK, NotListed
<1>1. ~(failures + 1 >= FailuresUntilBlacklist)
  BY <1>0 DEF Tolerated
<1>2. CASE timer = "armed"
  BY <1>0, <1>2 DEF StatsFailure, stats
<1>3. CASE timer # "armed"
  <2>1. /\ failures' = failures + 1
        /\ blacklisted' = (failures + 1 >= FailuresUntilBlacklist)
        /\ dbBlacklist' = (dbBlacklist \/ failures + 1 >= FailuresUntilBlacklist)
        /\ timer' = IF failures + 1 >= FailuresUntilBlacklist THEN "off" ELSE "armed"
    BY <1>0, <1>3 DEF StatsFailure
  <2> QED
    BY <1>0, <1>1, <2>1
<1> QED
  BY <1>2, <1>3

\* The server is never blacklisted.
LEMMA NotListedStep ==
  ASSUME Tolerated, Fit, Holders, OneQueue, NotListed, [Next]_vars PROVE NotListed'
<1>0. /\ wpc \in [Queues -> WorkerPoints] /\ failures \in Nat /\ MaxFailures \in Nat
      /\ failures <= MaxFailures + 1 /\ ~blacklisted /\ ~dbBlacklist
  BY LimitsAssumption DEF Fit, TypeOK, NotListed
<1>1. ASSUME UNCHANGED <<wpc, stats>> PROVE NotListed'
  BY <1>1 DEF NotListed, stats
<1>2. CASE UNCHANGED vars
  BY <1>1, <1>2 DEF vars, workers
<1>3. ASSUME NEW th, Wake(th) PROVE NotListed'
  BY <1>1, <1>3 DEF Wake, WakeNotify, WakeUnback, WakeSpawn, workers
<1>4. ASSUME NEW e \in Events, SendBegin(e) \/ Expire(e) \/ Sender(e) PROVE NotListed'
  BY <1>1, <1>3, <1>4
     DEF SendBegin, Expire, Sender, GetQueueCheck, GetQueueGet, SendAssociate, SendBlacklistCheck,
         SendAppend, SendBackoffCheck, workers
<1>5. ASSUME NEW q \in Queues, Closer(q) PROVE NotListed'
  BY <1>1, <1>3, <1>5 DEF Closer, CloseCheck, workers
<1>6. CASE TimerThread \/ ApiThread \/ Wake("hydrate") \/ Shutdown
  BY <1>1, <1>3, <1>6
     DEF TimerThread, ApiThread, TimerNotifier, RetryPending, GetQueueCheck, GetQueueGet,
         Shutdown, workers
<1>7. ASSUME NEW q \in Queues, Worker(q) PROVE NotListed'
  <2>1. CASE \/ Start(q) \/ Loop(q) \/ SelectNotify(q) \/ SelectIdle(q) \/ Snapshot(q)
             \/ CleanPDUs(q) \/ CleanEDUs(q) \/ RemoveSent(q) \/ BackOff(q) \/ Stop(q)
    <3>1. UNCHANGED stats
      BY <2>1 DEF Start, Loop, SelectNotify, SelectIdle, Snapshot, CleanPDUs, CleanEDUs, Clean,
                  RemoveSent, BackOff, Stop
    <3>2. \/ wpc' = wpc
          \/ \E to \in {"loop", "select", "snapshot", "stop", "send", "cleanEDUs", "success",
                        "stopped"} : wpc' = [wpc EXCEPT ![q] = to]
      BY <2>1 DEF Start, Loop, SelectNotify, SelectIdle, Snapshot, CleanPDUs, CleanEDUs, Clean,
                  RemoveSent, BackOff, Stop, Move
    <3> QED
      BY <1>0, <3>1, <3>2 DEF NotListed, stats
  <2>2. CASE Send(q)
    <3>1. /\ UNCHANGED stats
          /\ \/ wpc' = [wpc EXCEPT ![q] = "cleanPDUs"]
             \/ wpc' = [wpc EXCEPT ![q] = "failure"] /\ failures < MaxFailures
      BY <2>2, ChoicesAssumption DEF Send, Move
    <3>2. failures < MaxFailures => failures <= MaxFailures
      BY <1>0
    <3> QED
      BY <1>0, <3>1, <3>2 DEF NotListed, stats
  <2>3. CASE SelectDone(q) \/ TransactionSuccess(q)
    <3>1. /\ dbBlacklist' = dbBlacklist
          /\ blacklisted' = FALSE \/ blacklisted' = blacklisted
          /\ failures' = 0 \/ failures' = failures
          /\ \E to \in {"stop", "remove"} : wpc' = [wpc EXCEPT ![q] = to]
      BY <2>3 DEF SelectDone, TransactionSuccess, StatsSuccess, Move
    <3> QED
      BY <1>0, <3>1 DEF NotListed
  <2>4. CASE TransactionFailure(q)
    <3>1. wpc[q] = "failure" /\ StatsFailure
      BY <2>4 DEF TransactionFailure, Move
    <3>2. failures <= MaxFailures
      BY <3>1 DEF NotListed
    <3>3. /\ ~blacklisted' /\ ~dbBlacklist'
          /\ failures' = failures \/ failures' = failures + 1
      BY <3>1, <3>2, FailureTolerated
    <3>4. wpc' = [wpc EXCEPT ![q] = "backoff"]
      BY <2>4, <3>3 DEF TransactionFailure, Move
    <3>5. ASSUME NEW r \in Queues PROVE wpc'[r] \notin {"failure", "blacklist", "unassign", "delete"}
      <4>1. CASE r = q
        BY <1>0, <3>4, <4>1
      <4>2. CASE r # q
        <5>1. wpc'[r] = wpc[r] /\ q = current
          BY <1>0, <1>7, <3>4, <4>2, WorkerOneQueue
        <5> QED
          BY <4>2, <5>1 DEF OneQueue, Unused
      <4> QED
        BY <4>1, <4>2
    <3>6. failures' <= MaxFailures + 1
      BY <1>0, <3>2, <3>3
    <3> QED
      BY <3>3, <3>5, <3>6 DEF NotListed
  <2>5. CASE BlacklistClear(q) \/ BlacklistUnassign(q) \/ BlacklistDelete(q)
    BY <2>5 DEF BlacklistClear, BlacklistUnassign, BlacklistDelete, Move, NotListed
  <2> QED
    BY <1>7, <2>1, <2>2, <2>3, <2>4, <2>5 DEF Worker
<1>8. CASE TimerFires \/ ApiSuccess \/ ApiAlive
  <2>1. wpc' = wpc
    BY <1>8 DEF TimerFires, ApiSuccess, ApiAlive, workers
  <2>2. /\ ~blacklisted' /\ ~dbBlacklist'
        /\ failures' = 0 \/ failures' = failures
    <3>1. CASE TimerFires
      BY <1>0, <3>1 DEF TimerFires
    <3>2. CASE ApiSuccess
      BY <1>0, <3>2 DEF ApiSuccess, StatsSuccess
    <3>3. CASE ApiAlive
      BY <1>0, <3>3, Zenon DEF ApiAlive, StatsAlive
    <3> QED
      BY <1>8, <3>1, <3>2, <3>3
  <2> QED
    BY <1>0, <2>1, <2>2 DEF NotListed
<1>9. CASE ApiFailure
  <2>1. wpc' = wpc /\ failures < MaxFailures /\ StatsFailure
    BY <1>9 DEF ApiFailure, workers
  <2>2. failures <= MaxFailures
    BY <1>0, <2>1
  <2>3. /\ ~blacklisted' /\ ~dbBlacklist'
        /\ failures' = failures \/ failures' = failures + 1
    BY <2>1, <2>2, FailureTolerated
  <2>4. failures' <= MaxFailures
    BY <1>0, <2>1, <2>3
  <2>5. failures' \in Nat
    BY <1>0, <2>3
  <2> QED
    BY <1>0, <2>1, <2>3, <2>4, <2>5 DEF NotListed
<1>10. CASE Restart
  <2>1. /\ ~blacklisted' /\ ~dbBlacklist' /\ failures' = 0 /\ wpc' = [q \in Queues |-> "stopped"]
    BY <1>0, <1>10 DEF Restart
  <2> QED
    BY <1>0, <2>1 DEF NotListed
<1> QED
  BY <1>2, <1>4, <1>5, <1>6, <1>7, <1>8, <1>9, <1>10 DEF Next, Thread

\* What a first start begins with.
LEMMA InitOneQueue == Init => OneQueue /\ NotListed
<1> SUFFICES ASSUME Init PROVE OneQueue /\ NotListed
  OBVIOUS
<1>1. \A q \in Queues : pc[q] = "idle"
  BY ThreadsAssumption DEF Init, Threads
<1>2. OneQueue
  BY <1>1 DEF Init, OneQueue, Unused
<1>3. NotListed
  BY LimitsAssumption DEF Init, NotListed
<1> QED
  BY <1>2, <1>3

\* A step that arms and disarms nothing, lets no goroutine get to the point of starting
\* a worker and does not end the timer's goroutine.
LEMMA BackingOffKept ==
  ASSUME Fit, BackingOff,
         done => done', timer = "armed" => timer' = "armed",
         pc["timer"] # "idle" => pc'["timer"] # "idle",
         \A th \in Threads : pc'[th] = "spawn" => pc[th] = "spawn" /\ at'[th] = at[th],
         \A q \in Queues :
            /\ wpc'[q] = "backoff" => wpc[q] = "backoff"
            /\ backingOff'[q] =>
                  backingOff[q] /\ wpc'[q] \in {"stop", "stopped"} /\ spawned'[q] = 0
  PROVE  BackingOff'
<1> SUFFICES ASSUME NEW q \in Queues
             PROVE  /\ wpc'[q] = "backoff" => timer' = "armed"
                    /\ backingOff'[q] =>
                          /\ wpc'[q] \in {"stop", "stopped"} /\ spawned'[q] = 0
                          /\ \A th \in Threads : at'[th] = q => pc'[th] # "spawn"
                          /\ done' \/ timer' = "armed" \/ pc'["timer"] # "idle"
  BY DEF BackingOff
<1>1. wpc'[q] = "backoff" => timer' = "armed"
  BY DEF BackingOff
<1>2. ASSUME backingOff'[q]
      PROVE  /\ wpc'[q] \in {"stop", "stopped"} /\ spawned'[q] = 0
             /\ \A th \in Threads : at'[th] = q => pc'[th] # "spawn"
             /\ done' \/ timer' = "armed" \/ pc'["timer"] # "idle"
  BY <1>2 DEF BackingOff
<1> QED
  BY <1>1, <1>2

\* A goroutine moves, but not to the point of starting a worker.
LEMMA ThreadBackingOff ==
  ASSUME Fit, BackingOff, NEW th \in Threads, NEW to,
         pc' = [pc EXCEPT ![th] = to], to # "spawn", th = "timer" => to # "idle",
         at' = at \/ \E v : at' = [at EXCEPT ![th] = v],
         UNCHANGED <<backingOff, wpc, spawned, timer, done>>
  PROVE  BackingOff'
<1>0. pc \in [Threads -> SenderPoints \cup OtherPoints] /\ at \in [Threads -> Queues \cup {NoQueue}]
      /\ "timer" \in Threads
  BY DEF Fit, TypeOK, Threads, Other
<1>1. \A x \in Threads : pc'[x] = "spawn" => pc[x] = "spawn" /\ at'[x] = at[x]
  <2>1. pc'[th] = to /\ \A x \in Threads : x # th => pc'[x] = pc[x] /\ at'[x] = at[x]
    BY <1>0
  <2> QED
    BY <2>1
<1>2. pc["timer"] # "idle" => pc'["timer"] # "idle"
  BY <1>0
<1>3. \A q \in Queues :
         /\ wpc'[q] = "backoff" => wpc[q] = "backoff"
         /\ backingOff'[q] => backingOff[q] /\ wpc'[q] \in {"stop", "stopped"} /\ spawned'[q] = 0
  BY DEF BackingOff
<1> QED
  BY <1>1, <1>2, <1>3, BackingOffKept

\* A waking goroutine: it ends the backing off before it starts a worker, so the timer's
\* goroutine is still there as long as its queue backs off.
LEMMA WakeBackingOff ==
  ASSUME Fit, Holders, OneQueue, BackingOff, NEW th \in Threads, Wake(th)
  PROVE  BackingOff'
<1>0. /\ pc \in [Threads -> SenderPoints \cup OtherPoints] /\ at \in [Threads -> Queues \cup {NoQueue}]
      /\ backingOff \in [Queues -> BOOLEAN] /\ spawned \in [Queues -> Nat]
      /\ "timer" \in Threads
  BY DEF Fit, TypeOK, Threads, Other
<1>1. UNCHANGED <<wpc, timer, done>>
  BY DEF Wake, WakeNotify, WakeUnback, WakeSpawn, workers, stats, process
<1>2. pc[th] \in {"notify", "unback", "spawn"}
  BY DEF Wake, WakeNotify, WakeUnback, WakeSpawn, Proceed, Goto
<1>3. at[th] = current /\ current \in Queues
  BY <1>2, InUse DEF Holds
<1>4. CASE WakeNotify(th)
  <2>1. pc' = [pc EXCEPT ![th] = "unback"] /\ UNCHANGED <<at, backingOff, spawned>>
    BY <1>4 DEF WakeNotify, Goto
  <2> QED
    BY <1>1, <2>1, ThreadBackingOff
<1>5. CASE WakeUnback(th)
  <2>1. /\ pc' = [pc EXCEPT ![th] = "spawn"] /\ UNCHANGED <<at, spawned>>
        /\ backingOff' = [backingOff EXCEPT ![current] = FALSE]
    BY <1>3, <1>5 DEF WakeUnback, Goto
  <2>2. \A q \in Queues : ~backingOff'[q]
    <3>1. \A q \in Queues : q # current => ~backingOff[q]
      BY DEF OneQueue, Unused
    <3> QED
      BY <1>0, <1>3, <2>1, <3>1
  <2> QED
    BY <1>1, <2>2 DEF BackingOff
<1>6. CASE WakeSpawn(th)
  <2>1. pc[th] = "spawn" /\ backingOff' = backingOff
    BY <1>6 DEF WakeSpawn, Proceed, Goto
  <2>2. \A q \in Queues : ~backingOff'[q]
    <3>1. \A q \in Queues : q # current => ~backingOff[q]
      BY DEF OneQueue, Unused
    <3>2. ~backingOff[current]
      BY <1>3, <2>1 DEF BackingOff
    <3> QED
      BY <2>1, <3>1, <3>2
  <2> QED
    BY <1>1, <2>2 DEF BackingOff
<1> QED
  BY <1>4, <1>5, <1>6 DEF Wake

\* The steps of a worker.
LEMMA WorkerBackingOff ==
  ASSUME Tolerated, Prompt, Fit, Holders, OneQueue, NotListed, BackingOff,
         NEW q \in Queues, Worker(q)
  PROVE  BackingOff'
<1>0. /\ wpc \in [Queues -> WorkerPoints] /\ spawned \in [Queues -> Nat]
      /\ backingOff \in [Queues -> BOOLEAN]
      /\ pc \in [Threads -> SenderPoints \cup OtherPoints] /\ at \in [Threads -> Queues \cup {NoQueue}]
      /\ Queues \subseteq Threads /\ "timer" \in Threads \ Queues
  BY ThreadsAssumption DEF Fit, TypeOK, Threads, Other
<1>1. q = current
  BY WorkerOneQueue
<1>2. \A r \in Queues : r # q => wpc[r] = "stopped" /\ ~backingOff[r]
  BY <1>1 DEF OneQueue, Unused
<1>3. ASSUME wpc[q] \notin {"stop", "stopped", "backoff"},
             NEW to \in WorkerPoints \ {"backoff"}, wpc' = [wpc EXCEPT ![q] = to],
             backingOff' = backingOff
      PROVE  BackingOff'
  <2>1. \A r \in Queues : ~backingOff'[r] /\ wpc'[r] # "backoff"
    BY <1>0, <1>2, <1>3 DEF BackingOff
  <2> QED
    BY <2>1 DEF BackingOff
<1>4. CASE Start(q)
  <2>1. /\ spawned[q] > 0 /\ backingOff' = backingOff
        /\ wpc' = wpc \/ wpc' = [wpc EXCEPT ![q] = "loop"]
        /\ wpc' = wpc \/ wpc[q] = "stopped"
    BY <1>4 DEF Start, Move
  <2>2. ~backingOff[q]
    BY <1>0, <2>1 DEF BackingOff
  <2>3. timer' = timer
    BY <1>4 DEF Start, stats
  <2>4. \A r \in Queues : ~backingOff'[r] /\ (wpc'[r] = "backoff" => wpc[r] = "backoff")
    BY <1>0, <1>2, <2>1, <2>2
  <2> QED
    BY <2>3, <2>4 DEF BackingOff
<1>5. CASE \/ Loop(q) \/ SelectNotify(q) \/ SelectIdle(q) \/ SelectDone(q) \/ Snapshot(q)
  <2>1. /\ wpc[q] \in {"loop", "select", "snapshot"} /\ backingOff' = backingOff
        /\ \E to \in {"select", "snapshot", "stop", "loop", "send"} : wpc' = [wpc EXCEPT ![q] = to]
    BY <1>5 DEF Loop, SelectNotify, SelectIdle, SelectDone, Snapshot, Move, objects
  <2> QED
    BY <1>3, <2>1 DEF WorkerPoints
<1>6. CASE Send(q)
  <2>1. /\ wpc[q] = "send" /\ backingOff' = backingOff
        /\ \E to \in {"cleanPDUs", "failure"} : wpc' = [wpc EXCEPT ![q] = to]
    BY <1>6 DEF Send, Move, objects
  <2> QED
    BY <1>3, <2>1 DEF WorkerPoints
<1>7. CASE CleanPDUs(q) \/ CleanEDUs(q) \/ TransactionSuccess(q) \/ RemoveSent(q)
  <2>1. /\ wpc[q] \in {"cleanPDUs", "cleanEDUs", "success", "remove"} /\ backingOff' = backingOff
        /\ \E to \in {"cleanEDUs", "success", "remove", "loop"} : wpc' = [wpc EXCEPT ![q] = to]
    BY <1>7 DEF CleanPDUs, CleanEDUs, Clean, TransactionSuccess, RemoveSent, Move, objects
  <2> QED
    BY <1>3, <2>1 DEF WorkerPoints
<1>8. CASE TransactionFailure(q)
  <2>1. wpc[q] = "failure" /\ StatsFailure /\ backingOff' = backingOff
    BY <1>8 DEF TransactionFailure, Move, objects
  <2>2. failures <= MaxFailures
    BY <2>1 DEF NotListed
  <2>3. timer' = "armed"
    BY <2>1, <2>2, FailureTolerated
  <2>4. \A r \in Queues : ~backingOff'[r]
    BY <1>2, <2>1 DEF BackingOff
  <2> QED
    BY <2>3, <2>4 DEF BackingOff
<1>9. CASE BackOff(q)
  <2>1. /\ wpc[q] = "backoff" /\ wpc' = [wpc EXCEPT ![q] = "stop"]
        /\ spawned[q] = 0 /\ UNCHANGED <<spawned, pc, at, timer>>
        /\ \A th \in Threads : at[th] = q => pc[th] # "spawn"
        /\ backingOff' = [backingOff EXCEPT ![q] = TRUE]
    BY <1>9 DEF BackOff, Move, stats, threads
  <2>2. timer' = "armed"
    BY <2>1 DEF BackingOff
  <2>3. /\ wpc'[q] = "stop" /\ spawned'[q] = 0
        /\ \A th \in Threads : at'[th] = q => pc'[th] # "spawn"
    BY <1>0, <2>1
  <2>4. \A r \in Queues : r # q => ~backingOff'[r]
    BY <1>0, <1>2, <2>1
  <2> QED
    BY <2>2, <2>3, <2>4 DEF BackingOff
<1>10. CASE BlacklistClear(q) \/ BlacklistUnassign(q) \/ BlacklistDelete(q)
  BY <1>10 DEF BlacklistClear, BlacklistUnassign, BlacklistDelete, Move, NotListed
<1>11. CASE Stop(q)
  <2>1. /\ wpc[q] = "stop" /\ wpc' = [wpc EXCEPT ![q] = "stopped"]
        /\ pc' = [pc EXCEPT ![q] = "close"] /\ at' = [at EXCEPT ![q] = q]
        /\ UNCHANGED <<backingOff, spawned>>
    BY <1>11 DEF Stop, Move, Goto
  <2>2. UNCHANGED <<timer, done>>
    BY <1>11 DEF Stop, stats, process
  <2>3. \A r \in Queues :
           /\ wpc'[r] = "backoff" => wpc[r] = "backoff"
           /\ backingOff'[r] => backingOff[r] /\ wpc'[r] \in {"stop", "stopped"} /\ spawned'[r] = 0
    <3>1. \A r \in Queues : wpc'[r] = "stopped"
      BY <1>0, <1>2, <2>1
    <3> QED
      BY <2>1, <3>1 DEF BackingOff
  <2>4. \A th \in Threads : pc'[th] = "spawn" => pc[th] = "spawn" /\ at'[th] = at[th]
    <3>1. pc'[q] = "close" /\ \A th \in Threads : th # q => pc'[th] = pc[th] /\ at'[th] = at[th]
      BY <1>0, <2>1
    <3> QED
      BY <3>1
  <2>5. pc'["timer"] = pc["timer"]
    BY <1>0, <2>1
  <2> QED
    BY <2>2, <2>3, <2>4, <2>5, BackingOffKept
<1> QED
  BY <1>4, <1>5, <1>6, <1>7, <1>8, <1>9, <1>10, <1>11 DEF Worker

\* BackingOff is inductive when goroutines are prompt and no request outside the queue
\* switches the timer off.
LEMMA BackingOffStep ==
  ASSUME Tolerated, Prompt, ApiOps \subseteq {"failure"},
         Fit, Holders, OneQueue, NotListed, BackingOff, [Next]_vars
  PROVE  BackingOff'
<1>0. /\ pc \in [Threads -> SenderPoints \cup OtherPoints] /\ at \in [Threads -> Queues \cup {NoQueue}]
      /\ Events \subseteq Threads \ {"timer"} /\ Queues \subseteq Threads \ {"timer"}
      /\ Other \subseteq Threads /\ {"timer", "api", "hydrate"} = Other
  BY ThreadsAssumption DEF Fit, TypeOK, Threads, Other
<1>1. ASSUME UNCHANGED <<objects, workers, threads>>, done => done', timer = "armed" => timer' = "armed"
      PROVE  BackingOff'
  <2>1. UNCHANGED <<backingOff, spawned, wpc, pc, at>>
    BY <1>1 DEF objects, workers, threads
  <2> QED
    BY <1>1, <2>1 DEF BackingOff
<1>2. CASE UNCHANGED vars
  BY <1>1, <1>2 DEF vars, process, stats
<1>3. ASSUME NEW e \in Events, Expire(e) PROVE BackingOff'
  BY <1>1, <1>3 DEF Expire, process, stats
<1>4. ASSUME NEW th \in Threads \ {"timer"}, NEW to, to # "spawn",
             GetQueueCheck(th, to) \/ GetQueueGet(th, to)
      PROVE  BackingOff'
  <2>1. /\ UNCHANGED <<backingOff, wpc, spawned, timer, done>>
        /\ \E x : x # "spawn" /\ pc' = [pc EXCEPT ![th] = x]
    BY <1>4 DEF GetQueueCheck, GetQueueGet, Goto, objects, workers, stats, process
  <2>2. at' = at \/ \E v : at' = [at EXCEPT ![th] = v]
    BY <1>4 DEF GetQueueCheck, GetQueueGet
  <2> QED
    BY <2>1, <2>2, ThreadBackingOff
<1>5. ASSUME NEW e \in Events,
             \/ SendBegin(e) \/ SendAssociate(e) \/ SendBlacklistCheck(e) \/ SendAppend(e)
             \/ SendBackoffCheck(e)
      PROVE  BackingOff'
  <2>1. /\ UNCHANGED <<backingOff, wpc, spawned, timer, done>>
        /\ \E x : x # "spawn" /\ pc' = [pc EXCEPT ![e] = x]
    BY <1>5 DEF SendBegin, SendAssociate, SendBlacklistCheck, SendAppend, SendBackoffCheck, Proceed,
                Goto, objects, workers, stats, process
  <2>2. at' = at \/ \E v : at' = [at EXCEPT ![e] = v]
    BY <1>5 DEF SendBegin, SendAssociate, SendBlacklistCheck, SendAppend, SendBackoffCheck, Proceed
  <2> QED
    BY <1>0, <2>1, <2>2, ThreadBackingOff
<1>6. ASSUME NEW q \in Queues, CloseCheck(q) PROVE BackingOff'
  <2>1. /\ UNCHANGED <<backingOff, wpc, spawned, timer, done>>
        /\ \E x : x # "spawn" /\ pc' = [pc EXCEPT ![q] = x]
        /\ \E v : at' = [at EXCEPT ![q] = v]
    BY <1>6 DEF CloseCheck, Proceed, Goto, workers, stats, process
  <2> QED
    BY <1>0, <2>1, ThreadBackingOff
<1>7. CASE RetryPending
  <2>1. /\ UNCHANGED <<backingOff, wpc, spawned, timer, done>>
        /\ \E x : x # "spawn" /\ pc' = [pc EXCEPT !["api"] = x]
        /\ \E v : at' = [at EXCEPT !["api"] = v]
    BY <1>7 DEF RetryPending, Proceed, Goto, objects, workers, stats, process
  <2> QED
    BY <1>0, <2>1, ThreadBackingOff
<1>8. CASE TimerFires
  <2>1. /\ UNCHANGED <<backingOff, wpc, spawned, at, done>>
        /\ pc["timer"] = "idle" /\ pc' = [pc EXCEPT !["timer"] = "notifier"]
        /\ \A q \in Queues : wpc[q] # "backoff"
    BY <1>8 DEF TimerFires, Goto, objects, workers, process
  <2>2. pc'["timer"] = "notifier" /\ \A th \in Threads : pc'[th] = "spawn" => pc[th] = "spawn"
    BY <1>0, <2>1
  <2> QED
    BY <2>1, <2>2 DEF BackingOff
<1>9. CASE TimerNotifier
  <2>1. UNCHANGED <<backingOff, wpc, spawned, timer, done>>
    BY <1>9 DEF TimerNotifier, objects, workers, stats, process
  <2>2. \E v : at' = [at EXCEPT !["timer"] = v]
    BY <1>9 DEF TimerNotifier
  <2>3. CASE notifier # NoQueue /\ backingOff[notifier]
    <3>1. pc' = [pc EXCEPT !["timer"] = "notify"]
      BY <1>9, <2>3 DEF TimerNotifier, Goto
    <3> QED
      BY <1>0, <2>1, <2>2, <3>1, ThreadBackingOff
  <2>4. CASE ~(notifier # NoQueue /\ backingOff[notifier])
    <3>1. \A q \in Queues : ~backingOff[q]
      BY <2>4, ThreadsAssumption DEF OneQueue, Unused
    <3> QED
      BY <2>1, <3>1 DEF BackingOff
  <2> QED
    BY <2>3, <2>4
<1>10. CASE ApiFailure
  <2>1. failures < MaxFailures /\ StatsFailure /\ UNCHANGED <<objects, workers, threads, done>>
    BY <1>10 DEF ApiFailure, ApiCall
  <2>2. failures <= MaxFailures
    BY <2>1, LimitsAssumption DEF Fit, TypeOK
  <2>3. timer' = "armed"
    BY <2>1, <2>2, FailureTolerated
  <2> QED
    BY <1>1, <2>1, <2>3
<1>11. ~ApiSuccess /\ ~ApiAlive
  BY DEF ApiSuccess, ApiAlive, ApiCall
<1>12. CASE Shutdown
  BY <1>1, <1>12 DEF Shutdown, stats
<1>13. CASE Restart
  <2>1. wpc' = [q \in Queues |-> "stopped"] /\ backingOff' = [q \in Queues |-> FALSE]
    BY <1>13 DEF Restart
  <2> QED
    BY <2>1 DEF BackingOff
<1>14. CASE Thread
  <2>1. ASSUME NEW e \in Events, Sender(e) PROVE BackingOff'
    BY <1>0, <1>4, <1>5, <2>1, WakeBackingOff DEF Sender
  <2>2. ASSUME NEW q \in Queues, Closer(q) PROVE BackingOff'
    BY <1>0, <1>6, <2>2, WakeBackingOff DEF Closer
  <2>3. CASE TimerThread \/ ApiThread \/ Wake("hydrate")
    BY <1>0, <1>4, <1>7, <1>9, <2>3, WakeBackingOff DEF TimerThread, ApiThread
  <2> QED
    BY <1>14, <2>1, <2>2, <2>3 DEF Thread
<1> QED
  BY <1>2, <1>3, <1>5, <1>8, <1>10, <1>11, <1>12, <1>13, <1>14, WorkerBackingOff DEF Next

\* "It'll get restarted automatically when the backoff completes": below the threshold of
\* the blacklist, if the goroutines that are between two instructions are faster than a
\* backoff and no request outside the queue succeeds meanwhile, a queue that has stopped to
\* back off is woken by the timer, in every interleaving with senders, closing workers,
\* failures outside the queue, failing database calls, shutdowns and crashes.
THEOREM BackedOffIsWoken ==
  ASSUME Tolerated, Prompt, ApiOps \subseteq {"failure"} PROVE Spec => []BackingOffHasTimer
<1> DEFINE Inv == Fit /\ Holders /\ OneQueue /\ NotListed /\ BackingOff
<1>1. Init => Inv
  <2>1. Init => BackingOff
    BY DEF Init, BackingOff
  <2> QED
    BY <2>1, InitFits, InitHolders, InitOneQueue
<1>2. Inv /\ [Next]_vars => Inv'
  BY FitStep, HoldersStep, OneQueueStep, NotListedStep, BackingOffStep
<1>3. Inv => BackingOffHasTimer
  BY DEF BackingOff, BackingOffHasTimer
<1> HIDE DEF Inv
<1> QED
  BY <1>1, <1>2, <1>3, PTL DEF Spec

-----------------------------------------------------------------------------
(* A destination that fails and recovers strands nothing                   *)

\* A step after which fewer queues back off, nobody new is about to end a backoff, and
\* every notification and everyone about to leave one is still there.
LEMMA RousedKept ==
  ASSUME Roused, \A q \in Queues : backingOff'[q] => backingOff[q],
         \A q \in Queues : notify[q] => notify'[q],
         \A th \in Threads, q \in Queues :
            /\ at'[th] = q /\ pc'[th] = "unback" => at[th] = q /\ pc[th] = "unback"
            /\ at[th] = q /\ pc[th] = "notify" => at'[th] = q /\ pc'[th] = "notify"
  PROVE  Roused'
BY DEF Roused

\* A step of one goroutine that is not about to notify.
LEMMA RousedMoves ==
  ASSUME Fit, Roused, NEW th \in Threads, NEW to, to # "unback", NEW v,
         pc' = [pc EXCEPT ![th] = to], at' = [at EXCEPT ![th] = v], pc[th] # "notify",
         notify' = notify, \A q \in Queues : backingOff'[q] => backingOff[q]
  PROVE  Roused'
<1>1. pc \in [Threads -> SenderPoints \cup OtherPoints] /\ at \in [Threads -> Queues \cup {NoQueue}]
  BY DEF Fit, TypeOK
<1>2. pc'[th] = to /\ \A x \in Threads : x # th => pc'[x] = pc[x] /\ at'[x] = at[x]
  BY <1>1
<1> QED
  BY <1>2, RousedKept

\* wakeQueueAndNotify() leaves its notification before it ends the backoff.
LEMMA WakeRoused ==
  ASSUME Fit, Holders, Roused, NEW th \in Threads, Wake(th) PROVE Roused'
<1>0. /\ pc \in [Threads -> SenderPoints \cup OtherPoints] /\ at \in [Threads -> Queues \cup {NoQueue}]
      /\ notify \in [Queues -> BOOLEAN] /\ backingOff \in [Queues -> BOOLEAN]
  BY DEF Fit, TypeOK
<1>1. CASE WakeNotify(th)
  <2>1. /\ pc[th] = "notify" /\ pc' = [pc EXCEPT ![th] = "unback"] /\ at' = at
        /\ notify' = [notify EXCEPT ![at[th]] = TRUE] /\ backingOff' = backingOff
    BY <1>1 DEF WakeNotify, Goto
  <2>2. PICK q \in Queues : q = at[th]
    BY <2>1 DEF Holders, Holds
  <2>3. notify'[q] /\ \A r \in Queues : notify[r] => notify'[r]
    BY <1>0, <2>1, <2>2
  <2>4. \A x \in Threads : x # th => pc'[x] = pc[x]
    BY <1>0, <2>1
  <2>5. ASSUME NEW r \in Queues, r # q, backingOff'[r],
               NEW x \in Threads, at'[x] = r, pc'[x] = "unback"
        PROVE  notify'[r] \/ \E y \in Threads : at'[y] = r /\ pc'[y] = "notify"
    <3>1. x # th /\ at[x] = r /\ pc[x] = "unback"
      BY <2>1, <2>2, <2>4, <2>5
    <3>2. notify[r] \/ \E y \in Threads : at[y] = r /\ pc[y] = "notify"
      BY <2>1, <2>5, <3>1 DEF Roused
    <3> QED
      BY <2>1, <2>2, <2>3, <2>4, <2>5, <3>2
  <2> QED
    BY <2>3, <2>5 DEF Roused
<1>2. CASE WakeUnback(th)
  <2>1. /\ pc[th] = "unback" /\ pc' = [pc EXCEPT ![th] = "spawn"] /\ at' = at
        /\ notify' = notify /\ backingOff' = [backingOff EXCEPT ![at[th]] = FALSE]
    BY <1>2 DEF WakeUnback, Goto
  <2>2. at' = [at EXCEPT ![th] = at[th]] /\ \A q \in Queues : backingOff'[q] => backingOff[q]
    BY <1>0, <2>1
  <2> QED
    BY <2>1, <2>2, RousedMoves
<1>3. CASE WakeSpawn(th)
  <2>1. /\ pc[th] = "spawn" /\ UNCHANGED <<notify, backingOff>>
        /\ pc' = [pc EXCEPT ![th] = Rest(th)] /\ Rest(th) # "unback"
    BY <1>3 DEF WakeSpawn, Proceed, Goto, Rest
  <2>2. PICK v : at' = [at EXCEPT ![th] = v]
    BY <1>3 DEF WakeSpawn, Proceed
  <2> QED
    BY <2>1, <2>2, RousedMoves
<1> QED
  BY <1>1, <1>2, <1>3 DEF Wake

\* A closing worker passes a notification on.
LEMMA CloseRoused ==
  ASSUME Fit, Holders, ~blacklisted, Roused, NEW q \in Queues, CloseCheck(q) PROVE Roused'
<1>0. /\ pc \in [Threads -> SenderPoints \cup OtherPoints] /\ at \in [Threads -> Queues \cup {NoQueue}]
      /\ notify \in [Queues -> BOOLEAN] /\ q \in Threads
  BY DEF Fit, TypeOK, Threads
<1>1. /\ pc[q] = "close" /\ at[q] = q /\ backingOff' = backingOff
      /\ notify[q] => pc' = [pc EXCEPT ![q] = "notify"] /\ at' = at
      /\ ~notify[q] => pc' = [pc EXCEPT ![q] = "idle"]
      /\ \E v : at' = [at EXCEPT ![q] = v]
  BY <1>0 DEF CloseCheck, Proceed, Goto, Holders
<1>2. /\ \A x \in Threads : x # q => pc'[x] = pc[x] /\ at'[x] = at[x]
      /\ pc'[q] \in {"notify", "idle"}
      /\ notify[q] => pc'[q] = "notify" /\ at'[q] = q
  BY <1>0, <1>1
<1>3. \A r \in Queues : r # q => notify'[r] = notify[r]
  BY <1>0 DEF CloseCheck
<1>4. ASSUME NEW r \in Queues, backingOff'[r], NEW x \in Threads, at'[x] = r, pc'[x] = "unback"
      PROVE  notify'[r] \/ \E y \in Threads : at'[y] = r /\ pc'[y] = "notify"
  <2>1. at[x] = r /\ pc[x] = "unback"
    BY <1>2, <1>4
  <2>2. notify[r] \/ \E y \in Threads : at[y] = r /\ pc[y] = "notify"
    BY <1>1, <1>4, <2>1 DEF Roused
  <2>3. ASSUME NEW y \in Threads, at[y] = r, pc[y] = "notify"
        PROVE  at'[y] = r /\ pc'[y] = "notify"
    BY <1>1, <1>2, <2>3
  <2>4. CASE notify[r]
    BY <1>0, <1>2, <1>3, <2>4
  <2> QED
    BY <2>2, <2>3, <2>4
<1> QED
  BY <1>4 DEF Roused

\* A worker takes a notification only when its queue does not back off, and makes it
\* back off only when nobody is about to end that backoff.
LEMMA WorkerRoused ==
  ASSUME Prompt, Fit, BackingOff, Roused, NEW q \in Queues, Worker(q) PROVE Roused'
<1>0. /\ pc \in [Threads -> SenderPoints \cup OtherPoints] /\ at \in [Threads -> Queues \cup {NoQueue}]
      /\ notify \in [Queues -> BOOLEAN] /\ backingOff \in [Queues -> BOOLEAN] /\ q \in Threads
  BY DEF Fit, TypeOK, Threads
<1>1. CASE BackOff(q)
  <2>1. /\ UNCHANGED <<pc, at, notify>> /\ backingOff' = [backingOff EXCEPT ![q] = TRUE]
        /\ \A th \in Threads : at[th] = q => pc[th] # "unback"
    BY <1>1 DEF BackOff, threads
  <2>2. \A r \in Queues : r # q => backingOff'[r] = backingOff[r]
    BY <1>0, <2>1
  <2> QED
    BY <2>1, <2>2 DEF Roused
<1>2. CASE Stop(q)
  <2>1. /\ pc[q] = "idle" /\ pc' = [pc EXCEPT ![q] = "close"] /\ at' = [at EXCEPT ![q] = q]
        /\ UNCHANGED <<notify, backingOff>>
    BY <1>2 DEF Stop, Goto
  <2> QED
    BY <1>0, <2>1, RousedMoves
<1>3. CASE SelectNotify(q)
  <2>1. /\ wpc[q] = "select" /\ UNCHANGED <<pc, at, backingOff>>
        /\ \A r \in Queues : r # q => notify'[r] = notify[r]
    BY <1>0, <1>3 DEF SelectNotify, Move, threads
  <2>2. ~backingOff[q]
    BY <2>1 DEF BackingOff
  <2> QED
    BY <2>1, <2>2 DEF Roused
<1>4. CASE Loop(q) \/ RemoveSent(q)
  <2>1. UNCHANGED <<pc, at, backingOff>>
    BY <1>4 DEF Loop, RemoveSent, threads
  <2>2. notify' = notify \/ \E b \in BOOLEAN : notify' = [notify EXCEPT ![q] = notify[q] \/ b]
    BY <1>4 DEF Loop, Load, RemoveSent
  <2>3. \A r \in Queues : notify[r] => notify'[r]
    BY <1>0, <2>2
  <2> QED
    BY <2>1, <2>3, RousedKept
<1>5. CASE \/ Start(q) \/ SelectIdle(q) \/ SelectDone(q) \/ Snapshot(q) \/ Send(q) \/ CleanPDUs(q)
           \/ CleanEDUs(q) \/ TransactionSuccess(q) \/ TransactionFailure(q) \/ BlacklistClear(q)
           \/ BlacklistUnassign(q) \/ BlacklistDelete(q)
  <2>1. UNCHANGED <<pc, at, notify, backingOff>>
    BY <1>5 DEF Start, SelectIdle, SelectDone, Snapshot, Send, CleanPDUs, CleanEDUs, Clean,
                TransactionSuccess, TransactionFailure, BlacklistClear, BlacklistUnassign,
                BlacklistDelete, objects, threads
  <2> QED
    BY <2>1 DEF Roused
<1> QED
  BY <1>1, <1>2, <1>3, <1>4, <1>5 DEF Worker

\* Roused is inductive when goroutines are prompt.
LEMMA RousedStep ==
  ASSUME Prompt, Fit, Holders, NotListed, BackingOff, Roused, [Next]_vars PROVE Roused'
<1>0. /\ at \in [Threads -> Queues \cup {NoQueue}]
      /\ Events \subseteq Threads /\ Queues \subseteq Threads /\ Other \subseteq Threads
      /\ {"timer", "api", "hydrate"} = Other /\ ~blacklisted
  BY DEF Fit, TypeOK, Threads, Other, NotListed
<1>1. ASSUME UNCHANGED <<objects, threads>> PROVE Roused'
  BY <1>1 DEF Roused, objects, threads
<1>2. ASSUME NEW th \in Threads, UNCHANGED objects, pc[th] # "notify",
             \E to : to # "unback" /\ pc' = [pc EXCEPT ![th] = to],
             at' = at \/ \E v : at' = [at EXCEPT ![th] = v]
      PROVE  Roused'
  <2>1. PICK v : at' = [at EXCEPT ![th] = v]
    <3>1. at' = at => at' = [at EXCEPT ![th] = at[th]]
      BY <1>0
    <3> QED
      BY <1>2, <3>1
  <2>2. PICK to : to # "unback" /\ pc' = [pc EXCEPT ![th] = to]
    BY <1>2
  <2> QED
    BY <1>2, <2>1, <2>2, RousedMoves DEF objects
<1>3. ASSUME NEW th \in Threads, NEW to, to # "unback",
             GetQueueCheck(th, to) \/ GetQueueGet(th, to)
      PROVE  Roused'
  BY <1>2, <1>3 DEF GetQueueCheck, GetQueueGet, Goto
<1>4. ASSUME NEW e \in Events, SendBegin(e) \/ Sender(e) PROVE Roused'
  <2>1. CASE SendBegin(e) \/ SendAssociate(e) \/ SendBlacklistCheck(e) \/ SendBackoffCheck(e)
    BY <1>0, <1>2, <2>1
       DEF SendBegin, SendAssociate, SendBlacklistCheck, SendBackoffCheck, Proceed, Goto
  <2>2. CASE SendAppend(e)
    <3>1. /\ pc[e] = "append" /\ pc' = [pc EXCEPT ![e] = "backoffCheck"] /\ at' = at
          /\ UNCHANGED <<notify, backingOff>>
      BY <2>2 DEF SendAppend, Goto
    <3>2. at' = [at EXCEPT ![e] = at[e]]
      BY <1>0, <3>1
    <3> QED
      BY <1>0, <3>1, <3>2, RousedMoves
  <2> QED
    BY <1>0, <1>3, <1>4, <2>1, <2>2, WakeRoused DEF Sender
<1>5. CASE TimerFires \/ TimerNotifier
  BY <1>0, <1>2, <1>5 DEF TimerFires, TimerNotifier, Goto
<1>6. CASE ApiAlive \/ RetryPending
  BY <1>0, <1>2, <1>6 DEF ApiAlive, RetryPending, Proceed, Goto
<1>7. CASE Thread
  <2>1. ASSUME NEW q \in Queues, Closer(q) PROVE Roused'
    BY <1>0, <2>1, WakeRoused, CloseRoused DEF Closer
  <2>2. CASE TimerThread \/ ApiThread \/ Wake("hydrate")
    BY <1>0, <1>3, <1>5, <1>6, <2>2, WakeRoused DEF TimerThread, ApiThread
  <2> QED
    BY <1>4, <1>7, <2>1, <2>2 DEF Thread
<1>8. CASE Restart
  <2>1. backingOff' = [q \in Queues |-> FALSE]
    BY <1>8 DEF Restart
  <2> QED
    BY <2>1 DEF Roused
<1>9. CASE \/ UNCHANGED vars \/ ApiSuccess \/ ApiFailure \/ Shutdown
           \/ \E e \in Events : Expire(e)
  BY <1>1, <1>9 DEF vars, ApiSuccess, ApiFailure, Shutdown, Expire
<1> QED
  BY <1>4, <1>5, <1>6, <1>7, <1>8, <1>9, WorkerRoused DEF Next

\* No lost wake-up at a destination that fails and recovers: below the threshold of the
\* blacklist, if the goroutines that are between two instructions are faster than a backoff,
\* the database works and no request outside the queue succeeds meanwhile, then as long as
\* memory has room for the rows no interleaving of senders, failed transactions, backoffs,
\* the timer, wakers, closing workers, failures outside the queue, expiry, shutdowns and
\* crashes leaves an event behind that nobody is going to send.
THEOREM FailuresStrandNobody ==
  ASSUME Dependable, Tolerated, Prompt, ApiOps \subseteq {"failure"}
  PROVE  Spec /\ []Roomy => []NothingStranded
<1> DEFINE Inv == /\ Fit /\ Known /\ BatchIsPrefix /\ Holders /\ OneQueue /\ NotListed
                  /\ BackingOff /\ Roused /\ Awake
<1>1. Init => Inv
  <2>1. Init => BatchIsPrefix
    BY DEF Init, BatchIsPrefix, Transacting
  <2>2. Init => BackingOff /\ Roused
    BY DEF Init, BackingOff, Roused
  <2> QED
    BY <2>1, <2>2, InitFits, InitKnown, InitHolders, InitOneQueue, InitAwake
<1>2. Inv /\ Roomy /\ [Next]_vars => Inv'
  <2> SUFFICES ASSUME Inv, Roomy, [Next]_vars PROVE Inv'
    OBVIOUS
  <2>1. Fit' /\ Known' /\ BatchIsPrefix' /\ Holders'
    BY FitStep, KnownStep, PrefixStep, HoldersStep
  <2>2. OneQueue' /\ NotListed' /\ BackingOff'
    BY OneQueueStep, NotListedStep, BackingOffStep
  <2>3. Roused'
    BY RousedStep
  <2>4. Calm /\ Calm'
    BY <2>2, <2>3 DEF Calm, NotListed
  <2>5. Awake'
    BY <2>4, AwakeStep
  <2> QED
    BY <2>1, <2>2, <2>3, <2>5
<1>3. Inv => NothingStranded
  <2> SUFFICES ASSUME Inv PROVE NothingStranded
    OBVIOUS
  <2>1. Quiet => \A q \in Queues : ~backingOff[q]
    BY ThreadsAssumption DEF Quiet, BackingOff, Threads, Other
  <2> QED
    BY <2>1, AwakeIsEnough
<1> HIDE DEF Inv
<1> QED
  BY <1>1, <1>2, <1>3, PTL DEF Spec

\* The same without a condition on the behaviour: if memory has room for three times the
\* events that are ever sent, failures and backoffs strand no event.
THEOREM FailuresStrandNoneOfFew ==
  ASSUME Dependable, Tolerated, Prompt, ApiOps \subseteq {"failure"}, Few
  PROVE  Spec => []NothingStranded
BY FewAreAlwaysRoomy, FailuresStrandNobody, PTL

=============================================================================
