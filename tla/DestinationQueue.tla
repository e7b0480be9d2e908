-------------------------- MODULE DestinationQueue --------------------------
(***************************************************************************)
(* The outgoing federation queue for ONE destination:                      *)
(* federationapi/queue/queue.go (OutgoingQueues: the map of queues, the    *)
(* senders, rehydration) and federationapi/queue/destinationqueue.go (the  *)
(* queue object, its worker and everything that wakes it).                 *)
(*                                                                         *)
(* Goroutines:                                                             *)
(*   - one per event being sent (SendEvent / SendEDU), named by the event; *)
(*   - the worker of a queue object (backgroundSend), of which at most one *)
(*     is past the CompareAndSwap on running; wpc[q] is its program point; *)
(*   - the tail of a worker that has already reset running                 *)
(*     (checkNotificationsOnClose), named by the queue object;             *)
(*   - "timer": the goroutine of the backoff timer;                        *)
(*   - "api": every other user of the server's statistics;                 *)
(*   - "hydrate": the wake-up that NewOutgoingQueues schedules.            *)
(*                                                                         *)
(* The statistics of the server are the atomic summary of the module       *)
(* ServerStatistics.  A queue object is a member of Queues: after a        *)
(* blacklisting deletes one from the map another may be created while      *)
(* goroutines still hold the first.                                        *)
(***************************************************************************)
EXTENDS Integers, Sequences, FiniteSets

CONSTANTS
    PDUs, EDUs,                  \* the events sent to the destination
    Expirable,                   \* EDUs of a type with an expiry time
    Queues, NoQueue,             \* identities of destinationQueue objects (a bound)
    MaxPDUsPerTransaction, MaxEDUsPerTransaction,
    MaxPDUsInMemory, MaxEDUsInMemory,
    FailuresUntilAssumedOffline, FailuresUntilBlacklist,
    HasRelays,                   \* does the destination have known relay servers?
    Outcomes,                    \* what may become of a transaction
    ApiOps,                      \* what "api" may do
    DBOutcomes,                  \* {TRUE}: the database never fails
    Prompt,                      \* timing: is a goroutine that is between two
                                 \* instructions faster than a request or a backoff?
    MaxFailures,                 \* bound: failed transactions in a row
    MaxSpawned,                  \* bound: backgroundSend goroutines not yet running
    MaxApiCalls,                 \* bound: operations of "api"
    MaxRestarts                  \* bound: process restarts

Events == PDUs \cup EDUs
Kinds  == {"pdu", "edu"}
Other  == {"timer", "api", "hydrate"}
Threads == Events \cup Queues \cup Other

EventsOf(k)       == IF k = "pdu" THEN PDUs ELSE EDUs
MaxPerTransaction == [k \in Kinds |-> IF k = "pdu" THEN MaxPDUsPerTransaction
                                                   ELSE MaxEDUsPerTransaction]
MaxInMemory       == [k \in Kinds |-> IF k = "pdu" THEN MaxPDUsInMemory ELSE MaxEDUsInMemory]

ASSUME KindsAssumption ==
    /\ IsFiniteSet(PDUs) /\ IsFiniteSet(EDUs)
    /\ PDUs \cap EDUs = {} /\ Expirable \subseteq EDUs
ASSUME ThreadsAssumption ==
    /\ Events \cap Queues = {}
    /\ Other \cap (Events \cup Queues) = {}
    /\ NoQueue \notin Queues
ASSUME LimitsAssumption ==
    /\ MaxPDUsPerTransaction \in Nat \ {0} /\ MaxEDUsPerTransaction \in Nat \ {0}
    /\ MaxPDUsInMemory \in Nat \ {0} /\ MaxEDUsInMemory \in Nat \ {0}
    /\ FailuresUntilAssumedOffline \in Nat /\ FailuresUntilBlacklist \in Nat
    /\ MaxFailures \in Nat /\ MaxSpawned \in Nat /\ MaxRestarts \in Nat
    /\ MaxApiCalls \in Nat
ASSUME ChoicesAssumption ==
    /\ HasRelays \in BOOLEAN /\ Prompt \in BOOLEAN
    /\ Outcomes \subseteq {"direct", "relay", "error", "lost"}
    /\ ApiOps \subseteq {"success", "failure", "alive"}
    /\ DBOutcomes \subseteq BOOLEAN

VARIABLES
    \* the fields of each queue object
    running, backingOff, overflowed, notify, pending,
    spawned,                     \* backgroundSend goroutines that have not run yet
    \* each worker: program point, transaction contents, how it was sent
    wpc, batch, method,
    \* OutgoingQueues.queues[destination], the objects made so far, the notifier
    current, created, notifier,
    \* the destination's ServerStatistics
    blacklisted, assumedOffline, failures, timer,
    \* every other goroutine: program point, queue it holds; MarkServerAlive's result
    pc, at, wasBlacklisted,
    \* the database: blacklist row, queue rows of the destination
    dbBlacklist, stored,
    \* events whose rows were ever written; events the destination or a relay received
    accepted, delivered,
    \* the process: context cancelled, number of restarts and of operations of "api"
    done, restarts, apiCalls

objects == <<running, backingOff, overflowed, notify, pending, spawned>>
workers == <<wpc, batch, method>>
table   == <<current, created, notifier>>
stats   == <<blacklisted, assumedOffline, failures, timer, dbBlacklist>>
threads == <<pc, at, wasBlacklisted>>
world   == <<stored, accepted, delivered>>
process == <<done, restarts, apiCalls>>
vars    == <<objects, workers, table, stats, threads, world, process>>

-----------------------------------------------------------------------------
(* ServerStatistics, each operation atomic.                                *)

\* Success(): cancel() clears the flag first, so the blacklist row is left alone.
StatsSuccess(m) ==
    /\ blacklisted' = FALSE
    /\ timer' = "off"
    /\ failures' = 0
    /\ assumedOffline' = (assumedOffline /\ m = "relay")
    /\ UNCHANGED dbBlacklist

\* Failure(): nothing when blacklisted or already backing off; the caller is told
\* to give up iff blacklisted' holds.
StatsFailure ==
    IF blacklisted \/ timer = "armed" THEN UNCHANGED stats
    ELSE LET n == failures + 1 IN
         /\ failures' = n
         /\ assumedOffline' = (assumedOffline \/ n >= FailuresUntilAssumedOffline)
         /\ blacklisted' = (n >= FailuresUntilBlacklist)
         /\ dbBlacklist' = (dbBlacklist \/ n >= FailuresUntilBlacklist)
         /\ timer' = IF n >= FailuresUntilBlacklist THEN "off" ELSE "armed"

\* MarkServerAlive()
StatsAlive ==
    /\ dbBlacklist' = (dbBlacklist /\ ~blacklisted)
    /\ blacklisted' = FALSE
    /\ timer' = "off"
    /\ failures' = 0
    /\ assumedOffline' = FALSE

-----------------------------------------------------------------------------
(* Steps shared by the goroutines.                                         *)

\* Every database call uses the process context and may fail once it is cancelled.
DBResults == DBOutcomes \cup (IF done THEN {FALSE} ELSE {})

Goto(th, from, to) == pc[th] = from /\ pc' = [pc EXCEPT ![th] = to]

\* A goroutine moves on, and lets go of the queue when it ends.
Proceed(th, from, to) ==
    /\ Goto(th, from, to)
    /\ at' = [at EXCEPT ![th] = IF to \in {"done", "failed", "idle"} THEN NoQueue ELSE @]

\* getQueue(): a queue is looked up only if the server is not blacklisted ...
GetQueueCheck(th, refused) ==
    /\ Goto(th, "check", IF blacklisted THEN refused ELSE "get")
    /\ UNCHANGED <<at, wasBlacklisted, objects, workers, table, stats, world, process>>

\* Mutant: a new queue does not install its backoff notifier.
GetQueueGet_NoNotifier(th, found) ==
    /\ Goto(th, "get", found)
    /\ \/ /\ current # NoQueue
          /\ at' = [at EXCEPT ![th] = current]
          /\ UNCHANGED <<current, created>>
       \/ /\ current = NoQueue
          /\ \E q \in Queues \ created :
                /\ current' = q
                /\ created' = created \cup {q}
                /\ at' = [at EXCEPT ![th] = q]
    /\ UNCHANGED <<notifier, wasBlacklisted, objects, workers, stats, world, process>>

\* ... and then, under queuesMutex, found or made. A new queue installs its backoff
\* notifier, which waits for a notifier that is running (notifierMutex).
GetQueueGet(th, found) ==
    /\ Goto(th, "get", found)
    /\ \/ /\ current # NoQueue
          /\ at' = [at EXCEPT ![th] = current]
          /\ UNCHANGED table
       \/ /\ current = NoQueue
          /\ pc["timer"] \in {"idle", "notifier"}
          /\ \E q \in Queues \ created :
                /\ current' = q
                /\ created' = created \cup {q}
                /\ notifier' = q
                /\ at' = [at EXCEPT ![th] = q]
    /\ UNCHANGED <<wasBlacklisted, objects, workers, stats, world, process>>

\* wakeQueueAndNotify(): notify first, then wakeQueueIfNeeded(), whose two halves
\* are the CompareAndSwap on backingOff and the test of running.
WakeNotify(th) ==
    /\ Goto(th, "notify", "unback")
    /\ notify' = [notify EXCEPT ![at[th]] = TRUE]
    /\ UNCHANGED <<at, wasBlacklisted, running, backingOff, overflowed, pending, spawned,
                   workers, table, stats, world, process>>

WakeUnback(th) ==
    /\ Goto(th, "unback", "spawn")
    /\ backingOff' = [backingOff EXCEPT ![at[th]] = FALSE]
    /\ UNCHANGED <<at, wasBlacklisted, running, overflowed, notify, pending, spawned,
                   workers, table, stats, world, process>>

\* A goroutine that has nothing more to do: events are "done", the others "idle".
Rest(th) == IF th \in Events THEN "done" ELSE "idle"

WakeSpawn(th) ==
    /\ Proceed(th, "spawn", Rest(th))
    /\ \/ /\ running[at[th]]
          /\ UNCHANGED spawned
       \/ /\ ~running[at[th]]
          /\ spawned[at[th]] < MaxSpawned
          /\ spawned' = [spawned EXCEPT ![at[th]] = @ + 1]
    /\ UNCHANGED <<wasBlacklisted, running, backingOff, overflowed, notify, pending,
                   workers, table, stats, world, process>>

Wake(th) == WakeNotify(th) \/ WakeUnback(th) \/ WakeSpawn(th)

-----------------------------------------------------------------------------
(* SendEvent and SendEDU, followed by the queue's sendEvent and sendEDU.   *)

KindOf(e) == IF e \in PDUs THEN "pdu" ELSE "edu"

\* A consumer hands the event over and its JSON is stored. An EDU whose row could not
\* be written was not acknowledged and the stream delivers it again.
SendBegin(e) ==
    /\ ~done
    /\ Goto(e, "new", "check") \/ (e \in EDUs /\ Goto(e, "failed", "check"))
    /\ UNCHANGED <<at, wasBlacklisted, objects, workers, table, stats, world, process>>

\* AssociatePDUWithDestinations / AssociateEDUWithDestinations.
SendAssociate(e) ==
    /\ \E ok \in DBResults :
          /\ Proceed(e, "associate", IF ok THEN "blacklistCheck" ELSE "failed")
          /\ stored'   = IF ok THEN stored \cup {e} ELSE stored
          /\ accepted' = IF ok THEN accepted \cup {e} ELSE accepted
    /\ UNCHANGED <<wasBlacklisted, objects, workers, table, stats, delivered, process>>

SendBlacklistCheck(e) ==                        \* if !oq.statistics.Blacklisted()
    /\ Proceed(e, "blacklistCheck", IF blacklisted THEN "done" ELSE "append")
    /\ UNCHANGED <<wasBlacklisted, objects, workers, table, stats, world, process>>

\* Mutant: a new event goes to the front.
SendAppend_Front(e) ==
    LET q == at[e]
        k == KindOf(e)
        room == Len(pending[q][k]) < MaxInMemory[k]
    IN  /\ Goto(e, "append", "backoffCheck")
        /\ pending' = IF room THEN [pending EXCEPT ![q][k] = <<e>> \o @] ELSE pending
        /\ overflowed' = IF room THEN overflowed ELSE [overflowed EXCEPT ![q] = TRUE]
        /\ UNCHANGED <<at, wasBlacklisted, running, backingOff, notify, spawned,
                       workers, table, stats, world, process>>

\* Under pendingMutex: append if there is room in memory, else mark the overflow.
SendAppend(e) ==
    LET q == at[e]
        k == KindOf(e)
    IN  /\ Goto(e, "append", "backoffCheck")
        /\ \/ /\ Len(pending[q][k]) < MaxInMemory[k]
              /\ pending' = [pending EXCEPT ![q][k] = Append(@, e)]
              /\ UNCHANGED overflowed
           \/ /\ Len(pending[q][k]) >= MaxInMemory[k]
              /\ overflowed' = [overflowed EXCEPT ![q] = TRUE]
              /\ UNCHANGED pending
        /\ UNCHANGED <<at, wasBlacklisted, running, backingOff, notify, spawned,
                       workers, table, stats, world, process>>

SendBackoffCheck(e) ==                          \* if !oq.backingOff.Load()
    /\ Proceed(e, "backoffCheck", IF backingOff[at[e]] THEN "done" ELSE "notify")
    /\ UNCHANGED <<wasBlacklisted, objects, workers, table, stats, world, process>>

Sender(e) ==
    \/ GetQueueCheck(e, "dropped") \/ GetQueueGet(e, "associate")
    \/ SendAssociate(e)
    \/ SendBlacklistCheck(e) \/ SendAppend(e) \/ SendBackoffCheck(e) \/ Wake(e)

-----------------------------------------------------------------------------
(* backgroundSend: the worker of queue object q.                           *)

Move(q, from, to) == wpc[q] = from /\ wpc' = [wpc EXCEPT ![q] = to]

\* A spawned goroutine runs: it returns at once if the process is stopping or a
\* worker is running; otherwise it is the worker and will consult the database.
Start(q) ==
    /\ spawned[q] > 0
    /\ spawned' = [spawned EXCEPT ![q] = @ - 1]
    /\ \/ /\ done \/ running[q]
          /\ UNCHANGED <<running, overflowed, wpc>>
       \/ /\ ~done /\ ~running[q]
          /\ running' = [running EXCEPT ![q] = TRUE]
          /\ overflowed' = [overflowed EXCEPT ![q] = TRUE]
          /\ Move(q, "stopped", "loop")
    /\ UNCHANGED <<backingOff, notify, pending, batch, method, table, stats, threads,
                   world, process>>

\* The sequences of n different members of S, in any order: rows come out of the
\* database through a Go map.
Arrangements(S, n) == {s \in [1 .. n -> S] : \A i, j \in 1 .. n : s[i] = s[j] => i = j}

Least(m, n) == IF m <= n THEN m ELSE n

Rows(k) == stored \cap EventsOf(k)

\* A page of rows, in no particular order: LIMIT MaxInMemory.
Pages(k) == {S \in SUBSET Rows(k) :
                Cardinality(S) = Least(Cardinality(Rows(k)), MaxInMemory[k])}

\* What GetPendingPDUs / GetPendingEDUs may return: a page, or an error (also when the
\* process is stopping), here the empty answer with ok FALSE.
Fetches(k) ==
    [rows : Pages(k), ok : DBOutcomes \cap {TRUE}]
      \cup IF FALSE \in DBResults THEN {[rows |-> {}, ok |-> FALSE]} ELSE {}

Members(s) == {s[i] : i \in DOMAIN s}

\* Mutant: the whole page is loaded, full or not.
Reload_NoBreak(q, k, f) ==
    LET new == f.rows \ Members(pending[q][k])
    IN  {pending[q][k] \o t : t \in Arrangements(new, Cardinality(new))}

\* What one kind of pending events may become: fetched rows that are not yet in
\* memory, in any order, until memory is full. With no room nothing is fetched.
Reload(q, k, f) ==
    LET room == MaxInMemory[k] - Len(pending[q][k])
        new  == f.rows \ Members(pending[q][k])
    IN  {pending[q][k] \o t : t \in Arrangements(new, Least(Cardinality(new), room))}

\* A kind keeps the queue overflowed when a full page came back; a kind with no room
\* in memory, or whose fetch failed, does not.
FullPage(q, k, f) ==
    /\ Len(pending[q][k]) < MaxInMemory[k]
    /\ f.ok
    /\ Cardinality(f.rows) = MaxInMemory[k]

\* getPendingFromDatabase() with the fetched pages fp and fe: pending becomes p and e.
Load(q, fp, p, fe, e) ==
    LET loaded == [k \in Kinds |-> IF k = "pdu" THEN p ELSE e]
    IN  /\ pending' = [pending EXCEPT ![q] = loaded]
        /\ overflowed' = [overflowed EXCEPT
              ![q] = FullPage(q, "pdu", fp) \/ FullPage(q, "edu", fe)]
        /\ notify' = [notify EXCEPT ![q] = @ \/ loaded # pending[q]]

\* One turn of the loop up to the select.
Loop(q) ==
    /\ Move(q, "loop", "select")
    /\ \/ /\ ~overflowed[q]
          /\ UNCHANGED <<overflowed, pending, notify>>
       \/ /\ overflowed[q]
          /\ \E fp \in Fetches("pdu"), fe \in Fetches("edu") :
             \E p \in Reload(q, "pdu", fp), e \in Reload(q, "edu", fe) :
                Load(q, fp, p, fe, e)
    /\ UNCHANGED <<running, backingOff, spawned, batch, method, table, stats, threads,
                   world, process>>

SelectNotify(q) ==                              \* case <-oq.notify
    /\ Move(q, "select", "snapshot")
    /\ notify[q]
    /\ notify' = [notify EXCEPT ![q] = FALSE]
    /\ UNCHANGED <<running, backingOff, overflowed, pending, spawned, batch, method,
                   table, stats, threads, world, process>>

\* case <-idleTimeout.C, which may win against a notification that came just before
\* the timeout; with Prompt a notification is received within the 30 seconds.
SelectIdle(q) ==
    /\ Move(q, "select", "stop")
    /\ Prompt => ~notify[q]
    /\ UNCHANGED <<objects, batch, method, table, stats, threads, world, process>>

SelectDone(q) ==                                \* case <-oq.process.Context().Done()
    /\ Move(q, "select", "stop")
    /\ done
    /\ timer' = "off"                           \* ClearBackoff()
    /\ UNCHANGED <<objects, batch, method, table, threads, world, process,
                   blacklisted, assumedOffline, failures, dbBlacklist>>

\* The events of the next transaction: a prefix of each kind of pending events.
Prefix(q, k) == SubSeq(pending[q][k], 1, Least(Len(pending[q][k]), MaxPerTransaction[k]))

Snapshot(q) ==
    /\ Move(q, "snapshot", IF \A k \in Kinds : pending[q][k] = <<>> THEN "loop" ELSE "send")
    /\ batch' = [batch EXCEPT ![q] = [k \in Kinds |-> Prefix(q, k)]]
    /\ UNCHANGED <<objects, method, table, stats, threads, world, process>>

BatchEvents(q) == Members(batch[q]["pdu"]) \cup Members(batch[q]["edu"])

\* nextTransaction() up to its answer. The transaction reaches the destination
\* ("direct"), or one of its relays when it is assumed offline and has some
\* ("relay"), or nobody ("error"), or it arrives and the answer does not ("lost").
Send(q) ==
    /\ \E o \in Outcomes :
          /\ o = "relay" => HasRelays /\ assumedOffline
          /\ o \in {"error", "lost"} => failures < MaxFailures
          /\ delivered' = IF o = "error" THEN delivered ELSE delivered \cup BatchEvents(q)
          /\ method' = [method EXCEPT ![q] = IF o = "relay" THEN "relay" ELSE "direct"]
          /\ Move(q, "send", IF o \in {"direct", "relay"} THEN "cleanPDUs" ELSE "failure")
    /\ UNCHANGED <<objects, batch, table, stats, threads, stored, accepted, process>>

\* Mutant: everything pending is cleaned, not what was sent.
Clean_Pending(q, k, from, to) ==
    /\ Move(q, from, to)
    /\ stored' = stored \ Members(pending[q][k])
    /\ UNCHANGED <<objects, batch, method, table, stats, threads, accepted, delivered, process>>

\* CleanPDUs / CleanEDUs: an error, also from a cancelled context, leaves the rows.
Clean(q, k, from, to) ==
    /\ Move(q, from, to)
    /\ \/ stored' = stored \ Members(batch[q][k])
       \/ FALSE \in DBResults /\ UNCHANGED stored
    /\ UNCHANGED <<objects, batch, method, table, stats, threads, accepted, delivered, process>>

CleanPDUs(q) == Clean(q, "pdu", "cleanPDUs", "cleanEDUs")
CleanEDUs(q) == Clean(q, "edu", "cleanEDUs", "success")

\* handleTransactionSuccess(): the statistics, then, under pendingMutex, the prefix.
TransactionSuccess(q) ==
    /\ Move(q, "success", "remove")
    /\ StatsSuccess(method[q])
    /\ UNCHANGED <<objects, batch, method, table, threads, world, process>>

RemoveSent(q) ==
    LET rest == [k \in Kinds |-> SubSeq(pending[q][k], Len(batch[q][k]) + 1, Len(pending[q][k]))]
    IN  /\ Move(q, "remove", "loop")
        /\ pending' = [pending EXCEPT ![q] = rest]
        /\ notify' = [notify EXCEPT ![q] = @ \/ \E k \in Kinds : rest[k] # <<>>]
        /\ UNCHANGED <<running, backingOff, overflowed, spawned, batch, method, table,
                       stats, threads, world, process>>

TransactionFailure(q) ==                        \* statistics.Failure()
    /\ StatsFailure
    /\ Move(q, "failure", IF blacklisted' THEN "blacklist" ELSE "backoff")
    /\ UNCHANGED <<objects, batch, method, table, threads, world, process>>

\* oq.backingOff.Store(true). A request has just failed: with Prompt, a goroutine that
\* had begun to wake this queue, or had been started for it, is no longer about.
BackOff(q) ==
    /\ Move(q, "backoff", "stop")
    /\ Prompt => /\ spawned[q] = 0
                 /\ \A th \in Threads : at[th] = q => pc[th] \notin {"unback", "spawn"}
    /\ backingOff' = [backingOff EXCEPT ![q] = TRUE]
    /\ UNCHANGED <<running, overflowed, notify, pending, spawned, batch, method, table,
                   stats, threads, world, process>>

NothingPending == [k \in Kinds |-> <<>>]

\* Mutant: blacklisting also deletes the rows of what was in memory.
BlacklistClear_Rows(q) ==
    /\ Move(q, "blacklist", "unassign")
    /\ pending' = [pending EXCEPT ![q] = NothingPending]
    /\ stored' = stored \ (Members(pending[q]["pdu"]) \cup Members(pending[q]["edu"]))
    /\ UNCHANGED <<running, backingOff, overflowed, notify, spawned, batch, method, table,
                   stats, threads, accepted, delivered, process>>

\* blacklistDestination(): drop what is in memory, uninstall the notifier (waiting
\* for one that is running), delete the map entry, whichever object it names.
BlacklistClear(q) ==
    /\ Move(q, "blacklist", "unassign")
    /\ pending' = [pending EXCEPT ![q] = NothingPending]
    /\ UNCHANGED <<running, backingOff, overflowed, notify, spawned, batch, method, table,
                   stats, threads, world, process>>

BlacklistUnassign(q) ==
    /\ Move(q, "unassign", "delete")
    /\ pc["timer"] \in {"idle", "notifier"}
    /\ notifier' = NoQueue
    /\ UNCHANGED <<objects, batch, method, current, created, stats, threads, world, process>>

BlacklistDelete(q) ==
    /\ Move(q, "delete", "stop")
    /\ current' = NoQueue
    /\ UNCHANGED <<objects, batch, method, created, notifier, stats, threads, world, process>>

\* Mutant: running is not reset.
Stop_NoReset(q) ==
    /\ Move(q, "stop", "stopped")
    /\ batch' = [batch EXCEPT ![q] = NothingPending]
    /\ Goto(q, "idle", "close")
    /\ at' = [at EXCEPT ![q] = q]
    /\ UNCHANGED <<running, backingOff, overflowed, notify, pending, spawned, method,
                   wasBlacklisted, table, stats, world, process>>

\* The deferred calls: running.Store(false), then checkNotificationsOnClose(), which
\* runs beside a new worker and is therefore a goroutine of its own.
Stop(q) ==
    /\ Move(q, "stop", "stopped")
    /\ running' = [running EXCEPT ![q] = FALSE]
    /\ batch' = [batch EXCEPT ![q] = NothingPending]
    /\ Goto(q, "idle", "close")
    /\ at' = [at EXCEPT ![q] = q]
    /\ UNCHANGED <<backingOff, overflowed, notify, pending, spawned, method, wasBlacklisted,
                   table, stats, world, process>>

\* Mutant: a closing worker does not look at its notifications.
CloseCheck_Never(q) ==
    /\ Proceed(q, "close", "idle")
    /\ UNCHANGED <<wasBlacklisted, objects, workers, table, stats, world, process>>

CloseCheck(q) ==
    LET again == notify[q] /\ ~blacklisted
    IN  /\ Proceed(q, "close", IF again THEN "notify" ELSE "idle")
        /\ notify' = [notify EXCEPT ![q] = @ /\ ~again]
        /\ UNCHANGED <<wasBlacklisted, running, backingOff, overflowed, pending, spawned,
                       workers, table, stats, world, process>>

Worker(q) ==
    \/ Start(q) \/ Loop(q) \/ SelectNotify(q) \/ SelectIdle(q) \/ SelectDone(q)
    \/ Snapshot(q) \/ Send(q) \/ CleanPDUs(q) \/ CleanEDUs(q)
    \/ TransactionSuccess(q) \/ RemoveSent(q) \/ TransactionFailure(q) \/ BackOff(q)
    \/ BlacklistClear(q) \/ BlacklistUnassign(q) \/ BlacklistDelete(q) \/ Stop(q)

Closer(q) == CloseCheck(q) \/ Wake(q)

-----------------------------------------------------------------------------
(* The backoff timer, the other users of the statistics, expiry, restarts. *)

\* backoffFinished(): ClearBackoff(). A backoff lasts at least 0.8 * 2 seconds
\* (duration()): with Prompt, the worker that started it has stopped by then.
TimerFires ==
    /\ timer = "armed"
    /\ Prompt => \A q \in Queues : wpc[q] \notin {"backoff", "stop"} /\ pc[q] # "close"
    /\ timer' = "off"
    /\ Goto("timer", "idle", "notifier")
    /\ UNCHANGED <<at, wasBlacklisted, blacklisted, assumedOffline, failures, dbBlacklist,
                   objects, workers, table, world, process>>

\* Mutant: the end of a backoff wakes nobody.
TimerNotifier_Silent ==
    /\ Goto("timer", "notifier", "idle")
    /\ UNCHANGED <<at, wasBlacklisted, objects, workers, table, stats, world, process>>

\* handleBackoffNotifier() of the queue that installed the notifier, if any.
TimerNotifier ==
    LET wake == notifier # NoQueue /\ backingOff[notifier]
    IN  /\ Goto("timer", "notifier", IF wake THEN "notify" ELSE "idle")
        /\ at' = [at EXCEPT !["timer"] = IF wake THEN notifier ELSE NoQueue]
        /\ UNCHANGED <<wasBlacklisted, objects, workers, table, stats, world, process>>

TimerThread == TimerNotifier \/ Wake("timer")

ApiCall(o) ==
    /\ o \in ApiOps /\ apiCalls < MaxApiCalls
    /\ pc["api"] = "idle"
    /\ apiCalls' = apiCalls + 1
    /\ UNCHANGED <<done, restarts>>

\* A request outside the queue succeeds or fails.
ApiSuccess ==
    /\ ApiCall("success")
    /\ StatsSuccess("direct")
    /\ UNCHANGED <<objects, workers, table, threads, world>>

ApiFailure ==
    /\ ApiCall("failure")
    /\ failures < MaxFailures
    /\ StatsFailure
    /\ UNCHANGED <<objects, workers, table, threads, world>>

\* MarkServersAlive(): MarkServerAlive(), then RetryServer(), which wakes the queue
\* if the server was blacklisted or something is pending in memory.
ApiAlive ==
    /\ ApiCall("alive")
    /\ Goto("api", "idle", "check")
    /\ wasBlacklisted' = blacklisted
    /\ StatsAlive
    /\ UNCHANGED <<at, objects, workers, table, world>>

RetryPending ==
    /\ Proceed("api", "pending",
            IF wasBlacklisted \/ \E k \in Kinds : pending[at["api"]][k] # <<>>
            THEN "notify" ELSE "idle")
    /\ UNCHANGED <<wasBlacklisted, objects, workers, table, stats, world, process>>

ApiThread == GetQueueCheck("api", "idle") \/ GetQueueGet("api", "pending")
             \/ RetryPending \/ Wake("api")

\* DeleteExpiredEDUs()
Expire(e) ==
    /\ e \in stored \cap Expirable
    /\ stored' = stored \ {e}
    /\ UNCHANGED <<accepted, delivered, objects, workers, table, stats, threads, process>>

Shutdown ==
    /\ ~done
    /\ restarts < MaxRestarts
    /\ done' = TRUE
    /\ UNCHANGED <<restarts, apiCalls, objects, workers, table, stats, threads, world>>

\* Where the sender of an event is after a restart: an event whose row was not
\* written was not acknowledged to the stream either and is delivered again. (One whose
\* row was written may be delivered again too; it then gets another row, and Events
\* are rows.)
AfterRestart(p) ==
    CASE p \in {"new", "check", "get", "associate", "failed"} -> "new"
      [] p = "dropped" -> "dropped"
      [] OTHER -> "done"

\* The process ends (crash, or after a shutdown) and starts again: only the database
\* and the destination remember. NewOutgoingQueues() makes a queue and schedules its
\* wakeQueueIfNeeded() if there are rows and the server is not blacklisted.
Restart ==
    /\ restarts < MaxRestarts
    /\ restarts' = restarts + 1
    /\ done' = FALSE
    /\ running'    = [q \in Queues |-> FALSE]
    /\ backingOff' = [q \in Queues |-> FALSE]
    /\ overflowed' = [q \in Queues |-> FALSE]
    /\ notify'     = [q \in Queues |-> FALSE]
    /\ spawned'    = [q \in Queues |-> 0]
    /\ pending'    = [q \in Queues |-> NothingPending]
    /\ batch'      = [q \in Queues |-> NothingPending]
    /\ wpc'        = [q \in Queues |-> "stopped"]
    /\ method'     = [q \in Queues |-> "direct"]
    /\ \E ok \in DBOutcomes : blacklisted' = (dbBlacklist /\ ok)
    /\ assumedOffline' = (assumedOffline /\ HasRelays)
    /\ failures' = 0
    /\ timer' = "off"
    /\ wasBlacklisted' = FALSE
    /\ \E q \in Queues, ok \in DBOutcomes :
         LET hydrate == ok /\ stored # {} /\ ~blacklisted'
         IN  /\ current'  = IF hydrate THEN q ELSE NoQueue
             /\ notifier' = IF hydrate THEN q ELSE NoQueue
             /\ created'  = IF hydrate THEN {q} ELSE {}
             /\ at' = [th \in Threads |-> IF hydrate /\ th = "hydrate" THEN q ELSE NoQueue]
             /\ pc' = [th \in Threads |->
                         CASE th \in Events -> AfterRestart(pc[th])
                           [] hydrate /\ th = "hydrate" -> "unback"
                           [] OTHER -> "idle"]
    /\ UNCHANGED <<apiCalls, dbBlacklist, world>>

-----------------------------------------------------------------------------
Init ==
    /\ running    = [q \in Queues |-> FALSE]
    /\ backingOff = [q \in Queues |-> FALSE]
    /\ overflowed = [q \in Queues |-> FALSE]
    /\ notify     = [q \in Queues |-> FALSE]
    /\ spawned    = [q \in Queues |-> 0]
    /\ pending    = [q \in Queues |-> NothingPending]
    /\ batch      = [q \in Queues |-> NothingPending]
    /\ wpc        = [q \in Queues |-> "stopped"]
    /\ method     = [q \in Queues |-> "direct"]
    /\ current = NoQueue /\ created = {} /\ notifier = NoQueue
    /\ blacklisted = FALSE /\ assumedOffline = FALSE /\ failures = 0 /\ timer = "off"
    /\ dbBlacklist = FALSE
    /\ pc = [th \in Threads |-> IF th \in Events THEN "new" ELSE "idle"]
    /\ at = [th \in Threads |-> NoQueue]
    /\ wasBlacklisted = FALSE
    /\ stored = {} /\ accepted = {} /\ delivered = {}
    /\ done = FALSE /\ restarts = 0 /\ apiCalls = 0

\* The other goroutines run to their end once started.
Thread ==
    \/ \E e \in Events : Sender(e)
    \/ \E q \in Queues : Closer(q)
    \/ TimerThread \/ ApiThread \/ Wake("hydrate")

Next ==
    \/ \E e \in Events : SendBegin(e) \/ Expire(e)
    \/ Thread
    \/ \E q \in Queues : Worker(q)
    \/ TimerFires \/ ApiSuccess \/ ApiFailure \/ ApiAlive
    \/ Shutdown \/ Restart

Spec == Init /\ [][Next]_vars

\* Started goroutines are scheduled, timers fire, and a stopping process ends.
Fairness ==
    /\ \A e \in Events : WF_vars(Sender(e))
    /\ \A q \in Queues : WF_vars(Closer(q)) /\ WF_vars(Worker(q))
    /\ WF_vars(TimerFires) /\ WF_vars(TimerThread)
    /\ WF_vars(ApiThread) /\ WF_vars(Wake("hydrate"))
    /\ WF_vars(done /\ Restart)

FairSpec == Spec /\ Fairness

-----------------------------------------------------------------------------
(* Properties.                                                             *)

SenderPoints == {"new", "check", "get", "associate", "failed", "dropped", "blacklistCheck",
                 "append", "backoffCheck", "notify", "unback", "spawn", "done"}
OtherPoints  == {"idle", "check", "get", "pending", "notifier", "close", "notify", "unback",
                 "spawn"}
WorkerPoints == {"stopped", "loop", "select", "snapshot", "send", "cleanPDUs", "cleanEDUs",
                 "success", "remove", "failure", "backoff", "blacklist", "unassign",
                 "delete", "stop"}

\* Every variable holds values of its Go type, a queue's kinds are kept apart, and a
\* worker is between its CompareAndSwap and its running.Store(false) iff running.
TypeOK ==
    /\ running \in [Queues -> BOOLEAN] /\ backingOff \in [Queues -> BOOLEAN]
    /\ overflowed \in [Queues -> BOOLEAN] /\ notify \in [Queues -> BOOLEAN]
    /\ spawned \in [Queues -> Nat]
    /\ wpc \in [Queues -> WorkerPoints]
    /\ \A q \in Queues : running[q] <=> wpc[q] # "stopped"
    /\ method \in [Queues -> {"direct", "relay"}]
    /\ pending \in [Queues -> [Kinds -> Seq(Events)]]
    /\ batch \in [Queues -> [Kinds -> Seq(Events)]]
    /\ current \in Queues \cup {NoQueue} /\ notifier \in Queues \cup {NoQueue}
    /\ created \in SUBSET Queues
    /\ blacklisted \in BOOLEAN /\ assumedOffline \in BOOLEAN /\ dbBlacklist \in BOOLEAN
    /\ failures \in Nat /\ timer \in {"off", "armed"}
    /\ pc \in [Threads -> SenderPoints \cup OtherPoints]
    /\ at \in [Threads -> Queues \cup {NoQueue}]
    /\ wasBlacklisted \in BOOLEAN
    /\ stored \in SUBSET Events /\ accepted \in SUBSET Events /\ delivered \in SUBSET Events
    /\ done \in BOOLEAN /\ restarts \in Nat /\ apiCalls \in Nat

\* An event whose row was written is never lost: until the destination (or a relay)
\* has received it the row is there, through failed and half-finished transactions,
\* overflow, blacklisting, shutdown and crashes. Only expirable EDUs may vanish.
NoLoss == accepted \subseteq stored \cup delivered \cup Expirable

\* Memory holds at most MaxInMemory events of a kind, although senders append and the
\* worker reloads concurrently.
MemoryBounded ==
    \A q \in Queues, k \in Kinds : Len(pending[q][k]) <= MaxInMemory[k]

\* From the moment a transaction is put together until its events are dropped from
\* memory, they are the first ones pending: handleTransactionSuccess() counts on it
\* when it cuts the prefix of the lengths it remembered, after a network request and
\* two database calls during which senders append.
Transacting == {"send", "cleanPDUs", "cleanEDUs", "success", "remove"}
BatchIsPrefix ==
    \A q \in Queues, k \in Kinds :
        wpc[q] \in Transacting =>
            /\ Len(batch[q][k]) <= Len(pending[q][k])
            /\ batch[q][k] = SubSeq(pending[q][k], 1, Len(batch[q][k]))

\* Nobody is going to do anything any more about this destination.
Quiet ==
    /\ \A e \in Events : pc[e] \in {"new", "done", "dropped", "failed"}
    /\ \A th \in Threads \ Events : pc[th] = "idle"
    /\ \A q \in Queues : spawned[q] = 0 /\ wpc[q] = "stopped"
    /\ timer = "off" /\ ~done

\* No lost wake-up: when everything has come to rest and the server is not
\* blacklisted, no event is waiting to be sent, in the database or in memory.
NothingStranded ==
    Quiet /\ ~blacklisted =>
        /\ stored = {}
        /\ \A q \in Queues, k \in Kinds : pending[q][k] = <<>>

\* Every accepted event is eventually received.
Delivery == \A e \in Events : e \in accepted ~> (e \in delivered \/ e \in Expirable)

\* The queue does what ReliableDelivery specifies.
RD == INSTANCE ReliableDelivery
        WITH Events <- Events, Expirable <- Expirable,
             accepted <- accepted, stored <- stored, delivered <- delivered
Reliable == RD!Spec

\* A worker that backs off stops: "It'll get restarted automatically when the backoff
\* completes". While a queue in the map is backing off and stopped, the backoff timer
\* is running, or a goroutine is about to wake the queue.
BackingOffHasTimer ==
    \A q \in Queues :
        current = q /\ backingOff[q] /\ wpc[q] = "stopped" /\ ~done /\ ~blacklisted =>
            \/ timer = "armed" \/ pc["timer"] # "idle"
            \/ spawned[q] > 0
            \/ \E th \in Threads : at[th] = q /\ pc[th] \in {"close", "notify", "unback", "spawn"}

=============================================================================
