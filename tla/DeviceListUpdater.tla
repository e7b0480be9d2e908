------------------------- MODULE DeviceListUpdater -------------------------
(***************************************************************************)
(* The device lists of remote users: the consumer of the device list       *)
(* updates that other servers send (userapi/consumers/devicelistupdate.go) *)
(* and the DeviceListUpdater behind it (userapi/internal/                  *)
(* device_list_update.go), with the tables they share.                     *)
(*                                                                         *)
(* A remote user's list is a sequence of changes, each to one device; the  *)
(* position of a change is its stream ID.  An update says which change it  *)
(* is and names the one before it.  An update whose predecessor is known   *)
(* is stored; otherwise the user is marked stale and a worker is poked     *)
(* with the name of the user's server, and fetches the lists of all the    *)
(* stale users there.  The changes survive a crash in the two tables; the  *)
(* channel, the retries and the callers waiting to poke do not.            *)
(*                                                                         *)
(* Time is not measured: a retry is ready at any moment after it was       *)
(* scheduled, and the ten seconds a caller waits for the worker may end at *)
(* any moment.  The announcement of changed keys to clients changes no     *)
(* state here: only its failure is modelled.                               *)
(***************************************************************************)
EXTENDS Integers, Sequences, SequencesExt, FiniteSets

CONSTANTS Users, Devices, Servers,
          ServerOf,         \* the server of each user
          ChanCap,          \* capacity of the worker's channel (10 in the code)
          MaxChanges,       \* bound on the changes of all the lists
          MaxEvents         \* bound on calls of ManualUpdate, changes of the
                            \* blacklist, failures and crashes together

ASSUME ServersAssumption == ServerOf \in [Users -> Servers]
ASSUME BoundsAssumption == /\ ChanCap \in Nat /\ ChanCap > 2
                           /\ MaxChanges \in Nat /\ MaxEvents \in Nat

VARIABLES
    history,     \* the changes of each user's list at the remote server
    stream,      \* updates in the JetStream stream; the head is being handled
    rows,        \* keyserver_device_keys: per user, device -> key and stream ID
    stale,       \* keyserver_stale_device_lists: users whose bit is set
    cons,        \* the consumer: where it is, and whether prev IDs were found
    manual,      \* users of ManualUpdate calls that have not poked yet
    timers,      \* users whose timer of Start() has not fired yet
    chan,        \* the worker's channel of server names
    worker,      \* the worker goroutine
    retries,     \* servers in the worker's retries map
    restarting,  \* servers the restarter removed from retries, not yet pushed
    blacklisted, \* servers the federation API reports as blacklisted
    seen,        \* history: the last update of each user that was handled
    raced,       \* history: users whose list a known race has left behind
    abandoned,   \* history: stale users the code has stopped trying for
    budget       \* what is left of MaxEvents

remote == <<history, stream>>
tables == <<rows, stale>>
pokers == <<cons, manual, timers>>
engine == <<chan, worker, retries, restarting>>
ghosts == <<seen, raced, abandoned>>
vars   == <<remote, tables, pokers, engine, blacklisted, ghosts, budget>>

Idle   == [pc |-> "idle"]

Init ==
    /\ history = [u \in Users |-> <<>>] /\ stream = <<>>
    /\ rows = [u \in Users |-> <<>>] /\ stale = {}
    /\ cons = Idle /\ manual = {} /\ timers = {}
    /\ chan = <<>> /\ worker = Idle /\ retries = {} /\ restarting = {}
    /\ blacklisted = {}
    /\ seen = [u \in Users |-> 0] /\ raced = {} /\ abandoned = {}
    /\ budget = MaxEvents

----------------------------------------------------------------------------
(* The remote server                                                       *)

\* The key of device d after the first n changes: the number of the change
\* that set it, or 0 when the device does not exist.
KeyAt(u, n, d) ==
    LET changes == {i \in 1 .. n : history[u][i].device = d}
        last    == CHOOSE i \in changes : \A j \in changes : j <= i
    IN  IF changes = {} THEN 0 ELSE IF history[u][last].deleted THEN 0 ELSE last

\* A user changes a device; the update reaches the stream or is lost.
Change(u, d, deleted, sent) ==
    LET n == Len(history[u]) + 1 IN
    /\ SumFunction([v \in Users |-> Len(history[v])]) < MaxChanges
    /\ deleted => KeyAt(u, n - 1, d) # 0
    /\ history' = [history EXCEPT ![u] =
                     Append(@, [device |-> d, deleted |-> deleted])]
    /\ stream' = IF sent THEN Append(stream, [user |-> u, id |-> n]) ELSE stream
    /\ UNCHANGED <<tables, pokers, engine, blacklisted, ghosts, budget>>

----------------------------------------------------------------------------
(* notifyWorkers                                                           *)

StaleOn(s) == {u \in stale : ServerOf[u] = s}

\* notifyWorkers(): the caller gives up on a blacklisted server, otherwise
\* it sends the server's name, waiting while the channel is full.
NotifyWorkers(u) ==
    LET s == ServerOf[u] IN
    IF s \in blacklisted
    THEN /\ abandoned' = abandoned \cup StaleOn(s)
         /\ UNCHANGED chan
    ELSE /\ Len(chan) < ChanCap
         /\ chan' = Append(chan, s)
         /\ UNCHANGED abandoned

----------------------------------------------------------------------------
(* The consumer: Update()                                                  *)

Current == history[Head(stream).user][Head(stream).id]

\* Mutant: rows are looked for, whatever their number.
PrevIDsExists_Always(u, prevIDs) == TRUE

\* PrevIDsExists(): the number of rows with one of the stream IDs is the
\* number of stream IDs.
PrevIDsExists(u, prevIDs) ==
    Cardinality({d \in DOMAIN rows[u] : rows[u][d].stream \in prevIDs})
      = Cardinality(prevIDs)

\* update() up to the decision; the user's mutex is held from here on.
Check ==
    /\ cons.pc = "idle" /\ stream # <<>>
    /\ LET msg     == Head(stream)
           prevIDs == {msg.id - 1} \ {0}
       IN  cons' = [pc |-> "checked",
                    exists |-> /\ PrevIDsExists(msg.user, prevIDs)
                               /\ prevIDs # {}]
    /\ UNCHANGED <<remote, tables, manual, timers, engine, blacklisted, ghosts,
                   budget>>

\* StoreRemoteDeviceKeys() writes the row of one device.
Upsert(list, dev, row) ==
    [d \in DOMAIN list \cup {dev} |-> IF d = dev THEN row ELSE list[d]]

\* update(): the change is stored.
Apply ==
    /\ cons.pc = "checked" /\ (cons.exists \/ Current.deleted)
    /\ LET msg == Head(stream)
           row == [key |-> IF Current.deleted THEN 0 ELSE msg.id,
                   stream |-> msg.id]
       IN  /\ rows' = [rows EXCEPT ![msg.user] = Upsert(@, Current.device, row)]
           /\ seen' = [seen EXCEPT ![msg.user] = msg.id]
           /\ raced' = IF cons.exists THEN raced ELSE raced \cup {msg.user}
    /\ cons' = [pc |-> "emit"]
    /\ UNCHANGED <<remote, stale, manual, timers, engine, blacklisted, abandoned,
                   budget>>

\* Mutant: the list is marked stale and nobody is told.
MarkStale_NoPoke ==
    /\ cons.pc = "checked" /\ ~cons.exists /\ ~Current.deleted
    /\ LET msg == Head(stream) IN
       /\ stale' = stale \cup {msg.user}
       /\ seen' = [seen EXCEPT ![msg.user] = msg.id]
       /\ abandoned' = abandoned \ {msg.user}
    /\ cons' = [pc |-> "emit"]
    /\ UNCHANGED <<remote, rows, manual, timers, engine, blacklisted, raced, budget>>

\* update(): a change was missed, so that the whole list is stale.
MarkStale ==
    /\ cons.pc = "checked" /\ ~cons.exists /\ ~Current.deleted
    /\ LET msg == Head(stream) IN
       /\ stale' = stale \cup {msg.user}
       /\ seen' = [seen EXCEPT ![msg.user] = msg.id]
       /\ abandoned' = abandoned \ {msg.user}
    /\ cons' = [pc |-> "poke"]
    /\ UNCHANGED <<remote, rows, manual, timers, engine, blacklisted, raced, budget>>

\* Update(): the poke of a stale list.
Poke ==
    /\ cons.pc = "poke"
    /\ NotifyWorkers(Head(stream).user)
    /\ cons' = [pc |-> "done"]
    /\ UNCHANGED <<remote, tables, manual, timers, worker, retries, restarting,
                   blacklisted, seen, raced, budget>>

\* onMessage() returns true and the message is acknowledged.
Ack ==
    /\ cons.pc \in {"emit", "done"}
    /\ stream' = Tail(stream)
    /\ cons' = Idle
    /\ UNCHANGED <<history, tables, manual, timers, engine, blacklisted, ghosts,
                   budget>>

\* Storing, marking or emitting fails: the message is delivered again.
Redeliver ==
    /\ cons.pc \in {"checked", "emit"}
    /\ budget > 0 /\ budget' = budget - 1
    /\ cons' = Idle
    /\ UNCHANGED <<remote, tables, manual, timers, engine, blacklisted, ghosts>>

----------------------------------------------------------------------------
(* ManualUpdate and the timers of Start                                    *)

Updating(u) == cons.pc \in {"checked", "emit"} /\ Head(stream).user = u

\* ManualUpdate() up to the poke.
ManualUpdate(u) ==
    /\ budget > 0 /\ u \notin manual /\ ~Updating(u)
    /\ budget' = budget - 1
    /\ stale' = stale \cup {u} /\ abandoned' = abandoned \ {u}
    /\ manual' = manual \cup {u}
    /\ UNCHANGED <<remote, rows, cons, timers, engine, blacklisted, seen, raced>>

\* The poke of ManualUpdate() or of a timer.
Notify(u) ==
    /\ u \in manual \cup timers
    /\ NotifyWorkers(u)
    /\ IF u \in manual
       THEN manual' = manual \ {u} /\ UNCHANGED timers
       ELSE timers' = timers \ {u} /\ UNCHANGED manual
    /\ UNCHANGED <<remote, tables, cons, worker, retries, restarting, blacklisted,
                   seen, raced, budget>>

----------------------------------------------------------------------------
(* The worker and its restarter                                            *)

\* worker(): a poke is skipped for a server that waits in retries or is
\* blacklisted by now.
Take ==
    /\ worker.pc = "idle" /\ chan # <<>>
    /\ chan' = Tail(chan)
    /\ LET s == Head(chan) IN
       IF s \in retries \cup blacklisted
       THEN /\ abandoned' = IF s \in retries THEN abandoned
                            ELSE abandoned \cup StaleOn(s)
            /\ UNCHANGED worker
       ELSE /\ worker' = [pc |-> "load", server |-> s]
            /\ UNCHANGED abandoned
    /\ UNCHANGED <<remote, tables, pokers, retries, restarting, blacklisted, seen,
                   raced, budget>>

\* processServer(): the stale users of the server.
Load ==
    /\ worker.pc = "load"
    /\ worker' = [pc |-> "next", server |-> worker.server,
                  todo |-> StaleOn(worker.server)]
    /\ UNCHANGED <<remote, tables, pokers, chan, retries, restarting, blacklisted,
                   ghosts, budget>>

\* processServerUser(): GetUserDevices() returns the list as it is now.
Answer(u) ==
    /\ worker.pc = "next" /\ u \in worker.todo
    /\ worker.server \notin blacklisted
    /\ worker' = [pc |-> "fetched", server |-> worker.server,
                  todo |-> worker.todo, user |-> u, id |-> Len(history[u])]
    /\ UNCHANGED <<remote, tables, pokers, chan, retries, restarting, blacklisted,
                   ghosts, budget>>

\* processServerUser(): an answer that is not JSON or names another user, or
\* an error of the federation client without a time to retry after, counts
\* as success although nothing was stored.
Swallow(u) ==
    /\ worker.pc = "next" /\ u \in worker.todo
    /\ worker.server \notin blacklisted
    /\ worker' = [worker EXCEPT !.todo = @ \ {u}]
    /\ abandoned' = abandoned \cup ({u} \cap stale)
    /\ UNCHANGED <<remote, tables, pokers, chan, retries, restarting, blacklisted,
                   seen, raced, budget>>

\* Mutant: the rows carry the stream ID of the next change.
StoreList_NextId ==
    /\ worker.pc = "fetched"
    /\ LET u    == worker.user
           Has  == {d \in Devices : KeyAt(u, worker.id, d) # 0}
           late == seen[u] > worker.id \/ (cons.pc = "checked" /\ Updating(u))
       IN  /\ rows' = [rows EXCEPT ![u] =
                         [d \in Has |-> [key |-> KeyAt(u, worker.id, d),
                                         stream |-> worker.id + 1]]]
           /\ raced' = IF late THEN raced \cup {u} ELSE raced \ {u}
    /\ worker' = [worker EXCEPT !.pc = "stored"]
    /\ UNCHANGED <<remote, stale, pokers, chan, retries, restarting, blacklisted,
                   seen, abandoned, budget>>

\* updateDeviceList(): the list replaces the rows.  The user's mutex is not
\* taken, so that the consumer may be anywhere in update().
StoreList ==
    /\ worker.pc = "fetched"
    /\ LET u    == worker.user
           Has  == {d \in Devices : KeyAt(u, worker.id, d) # 0}
           late == seen[u] > worker.id \/ (cons.pc = "checked" /\ Updating(u))
       IN  /\ rows' = [rows EXCEPT ![u] =
                         [d \in Has |-> [key |-> KeyAt(u, worker.id, d),
                                         stream |-> worker.id]]]
           /\ raced' = IF late THEN raced \cup {u} ELSE raced \ {u}
    /\ worker' = [worker EXCEPT !.pc = "stored"]
    /\ UNCHANGED <<remote, stale, pokers, chan, retries, restarting, blacklisted,
                   seen, abandoned, budget>>

\* updateDeviceList(): the list is fresh, and its changes are announced.
MarkFresh ==
    /\ worker.pc = "stored"
    /\ stale' = stale \ {worker.user}
    /\ abandoned' = abandoned \ {worker.user}
    /\ raced' = IF seen[worker.user] > worker.id THEN raced \cup {worker.user}
                ELSE raced
    /\ worker' = [worker EXCEPT !.pc = "next", !.todo = @ \ {worker.user}]
    /\ UNCHANGED <<remote, rows, pokers, chan, retries, restarting, blacklisted, seen,
                   budget>>

\* processServer() after all its users.
Processed ==
    /\ worker.pc = "next" /\ worker.todo = {}
    /\ worker' = Idle
    /\ UNCHANGED <<remote, tables, pokers, chan, retries, restarting, blacklisted,
                   ghosts, budget>>

\* A request to a blacklisted server fails at once.
Refused == worker.pc = "next" /\ worker.server \in blacklisted

\* An error ends processServer(), whether it loaded, requested, stored or
\* marked: the server is retried, with the users that are left.
Failed ==
    /\ worker.pc # "idle" /\ (worker.pc = "next" => worker.todo # {})
    /\ budget' = budget - (IF Refused THEN 0 ELSE 1) /\ budget' \in Nat
    /\ worker' = Idle
    /\ retries' = retries \cup {worker.server}
    /\ UNCHANGED <<remote, tables, pokers, chan, restarting, blacklisted, ghosts>>

\* Mutant: the restarter keeps one more slot free.
Restart_Strict(S) ==
    /\ restarting = {} /\ S # {} /\ S \subseteq retries
    /\ Cardinality(S) < ChanCap - Len(chan) - 2
    /\ retries' = retries \ S /\ restarting' = S
    /\ UNCHANGED <<remote, tables, pokers, chan, worker, blacklisted, ghosts, budget>>

\* worker()'s goroutine: it takes servers from retries while two slots of
\* the channel stay free.
Restart(S) ==
    /\ restarting = {} /\ S # {} /\ S \subseteq retries
    /\ Cardinality(S) <= ChanCap - Len(chan) - 2
    /\ retries' = retries \ S /\ restarting' = S
    /\ UNCHANGED <<remote, tables, pokers, chan, worker, blacklisted, ghosts, budget>>

Push(s) ==
    /\ s \in restarting /\ Len(chan) < ChanCap
    /\ chan' = Append(chan, s)
    /\ restarting' = restarting \ {s}
    /\ UNCHANGED <<remote, tables, pokers, worker, retries, blacklisted, ghosts,
                   budget>>

----------------------------------------------------------------------------
(* The surroundings                                                        *)

\* The federation API blacklists the server, or hears from it again.
Blacklist(s) ==
    /\ budget > 0
    /\ budget' = budget - 1
    /\ blacklisted' = IF s \in blacklisted THEN blacklisted \ {s}
                      ELSE blacklisted \cup {s}
    /\ UNCHANGED <<remote, tables, pokers, engine, ghosts>>

\* A crash and the next start.  CleanUp() forgets the stale users no room is
\* shared with any more; Start() sets a timer for one stale user of each
\* server (dedupeStaleLists()).
Crash(left, first) ==
    /\ budget > 0
    /\ budget' = budget - 1
    /\ left \subseteq stale
    /\ first \subseteq stale \ left
    /\ \A s \in Servers : Cardinality({u \in first : ServerOf[u] = s})
                            = IF StaleOn(s) \subseteq left THEN 0 ELSE 1
    /\ stale' = stale \ left /\ raced' = raced \cup left
    /\ timers' = first
    /\ cons' = Idle /\ manual' = {} /\ chan' = <<>> /\ worker' = Idle
    /\ retries' = {} /\ restarting' = {}
    /\ abandoned' = {}
    /\ UNCHANGED <<remote, rows, blacklisted, seen>>

Next ==
    \/ \E u \in Users, d \in Devices, deleted \in BOOLEAN, sent \in BOOLEAN :
          Change(u, d, deleted, sent)
    \/ Check \/ Apply \/ MarkStale \/ Poke \/ Ack \/ Redeliver
    \/ \E u \in Users : ManualUpdate(u) \/ Notify(u)
    \/ Take \/ Load \/ StoreList \/ MarkFresh \/ Processed \/ Failed
    \/ \E u \in Users : Answer(u) \/ Swallow(u)
    \/ \E S \in SUBSET Servers : Restart(S)
    \/ \E s \in Servers : Push(s) \/ Blacklist(s)
    \/ \E left, first \in SUBSET Users : Crash(left, first)

Spec == Init /\ [][Next]_vars

\* The goroutines run.  With the bound on failures, a request and a write of
\* the database that are repeated succeed in the end.
Consume == Check \/ Apply \/ MarkStale \/ Poke \/ Ack
Work    == \/ Take \/ Load \/ StoreList \/ MarkFresh \/ Processed
           \/ \E u \in Users : Answer(u)
           \/ Refused /\ Failed

Fairness ==
    /\ WF_vars(Consume) /\ WF_vars(Work)
    /\ \A u \in Users : WF_vars(Notify(u))
    /\ WF_vars(\E S \in SUBSET Servers : Restart(S))
    /\ \A s \in Servers : WF_vars(Push(s))

FairSpec == Spec /\ Fairness

----------------------------------------------------------------------------
(* Properties                                                              *)

\* Types: no row is newer than the list it was taken from, the channel keeps
\* its capacity, and the consumer decides about an update that is still in
\* the stream (update(), updateDeviceList(), worker()).
TypeOK ==
    /\ stale \subseteq Users /\ manual \subseteq Users /\ timers \subseteq Users
    /\ raced \subseteq Users /\ abandoned \subseteq stale
    /\ retries \subseteq Servers /\ restarting \subseteq Servers
    /\ blacklisted \subseteq Servers
    /\ chan \in Seq(Servers) /\ Len(chan) <= ChanCap
    /\ \A u \in Users :
          /\ seen[u] \in 0 .. Len(history[u])
          /\ \A d \in DOMAIN rows[u] :
                /\ d \in Devices
                /\ rows[u][d].stream \in 1 .. Len(history[u])
                /\ rows[u][d].key \in 0 .. rows[u][d].stream
    /\ cons.pc \in {"idle", "checked", "emit", "poke", "done"}
    /\ cons.pc # "idle" => stream # <<>>
    /\ worker.pc \in {"idle", "load", "next", "fetched", "stored"}
    /\ worker.pc \in {"fetched", "stored"} =>
          worker.user \in worker.todo /\ worker.id <= Len(history[worker.user])

\* Somebody will still ask for the stale list of user u: a poke that is
\* queued or about to be, a retry, or the worker on its way to the user.
Tended(u) ==
    LET s == ServerOf[u] IN
    \/ s \in Range(chan) \/ s \in retries \/ s \in restarting
    \/ \E v \in manual \cup timers : ServerOf[v] = s
    \/ cons.pc = "poke" /\ ServerOf[Head(stream).user] = s
    \/ worker.pc = "load" /\ worker.server = s
    \/ worker.pc \in {"next", "fetched", "stored"} /\ u \in worker.todo

\* A stale list is never forgotten (device_list_update.go: the poke after
\* the mark, the skip of a server in retries, the restarter, the timers of
\* Start): whatever the interleaving of consumer, worker and restarter, and
\* after a crash, a list that is stale will be asked for again, unless the
\* server was blacklisted or its answer was ignored.
StaleIsTended == \A u \in stale \ abandoned : Tended(u)

\* The rows of user u hold exactly the keys the remote list had after change n.
Matches(u, n) ==
    \A d \in Devices :
       (IF d \in DOMAIN rows[u] THEN rows[u][d].key ELSE 0) = KeyAt(u, n, d)

\* A missed change is noticed (update(), updateDeviceList()): a list that is
\* not stale holds exactly the keys the remote list had at some moment not
\* before the last update that was handled, although updates are lost and
\* handled twice, and wherever the consumer and the worker are.  The
\* exceptions are a list stored from an answer that was overtaken by an
\* update, and a deletion whose predecessor is missing.
GapsAreNoticed ==
    \A u \in Users \ (stale \cup raced) :
       \E n \in seen[u] .. Len(history[u]) : Matches(u, n)

\* A stale list is fetched in the end (the retries of worker()), unless the
\* code gave up on it.
StaleRefreshed == \A u \in Users : u \in stale ~> (u \notin stale \/ u \in abandoned)
=============================================================================
