----------------------------- MODULE RoomInput -----------------------------
(***************************************************************************)
(* The roomserver's input queue for one room (roomserver/internal/input).  *)
(*                                                                         *)
(* Input events are published to a JetStream stream, which keeps a message *)
(* until every consumer it has for it has acknowledged it.  An ephemeral   *)
(* consumer notices each of them and starts the room's worker, an actor    *)
(* whose _next fetches one message from the room's durable consumer,       *)
(* processes it, acknowledges it and queues itself again.  The worker      *)
(* stops when a fetch finds nothing for a minute.                          *)
(*                                                                         *)
(* Processing an event is several database transactions with a write to    *)
(* the output log inside the last one; the process can be stopped or       *)
(* killed between any two of them.  What an event says is abstracted to    *)
(* the verdict of the authorisation checks (module EventAuth models them)  *)
(* and to its previous events.                                             *)
(***************************************************************************)
EXTENDS Integers, Sequences, FiniteSets, SequencesExt, FiniteSetsExt

CONSTANTS
    Events,         \* the events of the room
    Root,           \* the create event, processed before the model starts
    Prev,           \* Prev[e]: the events that e names as previous events
    Inputs,         \* the input requests made in this instance
    Faults,         \* the steps that may fail while the process runs
    MaxMessages,    \* bound: messages published
    MaxRestarts     \* bound: restarts of the process

ASSUME InputAssumption ==
    /\ IsFiniteSet(Events) /\ Root \in Events
    /\ Prev \in [Events -> SUBSET Events] /\ Prev[Root] = {}
    /\ MaxMessages \in Nat /\ MaxRestarts \in Nat
    /\ \A i \in Inputs : /\ i.ev \in Events
                         /\ i.kind \in {"new", "old", "outlier"}
                         /\ i.hasState \in BOOLEAN /\ i.sync \in BOOLEAN

VARIABLES
    stream,     \* JetStream: the inputs published, by position
    status,     \* where each position stands with the durable consumer
    unseen,     \* positions the ephemeral consumer has yet to notice
    durable,    \* the room's durable consumer exists
    sub,        \* worker.subscription is not nil
    inbox,      \* calls of _next queued in the actor's inbox
    pc,         \* where _next is
    cur,        \* the position being processed, 0 if none
    work,       \* processRoomEvent's input, preceded by the events of a gap
    verdict,    \* what the authorisation checks say of the head of work
    result,     \* what processRoomEvent returned for the message
    stored,     \* roomserver_events: "no", "ok" or "rejected" for each event
    refs,       \* roomserver_previous_events: the events some event refers to
    snap,       \* events with a state snapshot
    sent,       \* events marked as sent to the output log
    latest,     \* the room's forward extremities
    produced,   \* events written to the output log as new room events
    declined,   \* history: positions last rejected, soft-failed or given up
    caller,     \* InputRoomEvents: what the caller of each position has seen
    stopping,   \* the process context has been cancelled
    restarts    \* restarts so far

queue  == <<stream, status, unseen, durable>>
worker == <<sub, inbox, pc, cur, work, verdict, result>>
tables == <<stored, refs, snap, sent, latest, produced>>
room   == <<tables, declined>>
vars   == <<queue, worker, room, caller, stopping, restarts>>

Positions == 1 .. Len(stream)

\* The room is in use; its consumer may have been cleaned up since.
Init ==
    /\ stream = <<>> /\ status = <<>> /\ unseen = {} /\ durable \in BOOLEAN
    /\ sub = FALSE /\ inbox = 0 /\ pc = "fetch" /\ cur = 0 /\ work = <<>>
    /\ verdict = "none" /\ result = "none"
    /\ stored = [e \in Events |-> IF e = Root THEN "ok" ELSE "no"]
    /\ refs = {} /\ snap = {Root} /\ sent = {Root} /\ latest = {Root}
    /\ produced = {Root} /\ declined = {}
    /\ caller = <<>> /\ stopping = FALSE /\ restarts = 0

----------------------------------------------------------------------------
(* Publishing and noticing                                                 *)

\* queueInputRoomEvents() for one event, and InputRoomEvents() up to the
\* wait for the reply of a synchronous request.
Publish(in) ==
    /\ Len(stream) < MaxMessages
    /\ stream' = Append(stream, in)
    /\ status' = Append(status, "new")
    /\ unseen' = unseen \cup {Len(stream) + 1}
    /\ caller' = Append(caller, IF in.sync THEN "waiting" ELSE "none")
    /\ UNCHANGED <<durable, worker, room, stopping, restarts>>

\* The caller's context ends before the reply comes.
GiveUp(i) ==
    /\ i \in Positions /\ caller[i] = "waiting"
    /\ caller' = [caller EXCEPT ![i] = "gone"]
    /\ UNCHANGED <<queue, worker, room, stopping, restarts>>

\* Mutant: every notice queues a call of _next.
Notice_Always ==
    /\ unseen # {}
    /\ unseen' = unseen \ {Min(unseen)}
    /\ durable' = TRUE /\ sub' = TRUE /\ inbox' = inbox + 1
    /\ UNCHANGED <<stream, status, pc, cur, work, verdict, result, room,
                   caller, stopping, restarts>>

\* What startWorkerForRoom() comes to: it can fail to look up or create the
\* durable consumer, or to subscribe to it.
StartOutcomes == {"ok"} \cup (Faults \cap {"consumer", "subscribe"})

\* The callback of the ephemeral consumer: startWorkerForRoom().  A failure
\* is logged and the notice is acknowledged all the same; a room without a
\* durable consumer then has no other interest in the message, and the
\* stream drops it.
Notice ==
    /\ unseen # {}
    /\ unseen' = unseen \ {Min(unseen)}
    /\ \E outcome \in StartOutcomes :
          /\ durable' = (durable \/ (~sub /\ outcome # "consumer"))
          /\ sub' = (sub \/ outcome = "ok")
          /\ inbox' = IF ~sub /\ outcome = "ok" THEN inbox + 1 ELSE inbox
    /\ status' = IF durable' THEN status
                 ELSE [status EXCEPT ![Min(unseen)] = "lost"]
    /\ UNCHANGED <<stream, pc, cur, work, verdict, result, room,
                   caller, stopping, restarts>>

----------------------------------------------------------------------------
(* worker._next: fetching                                                  *)

Available == {i \in Positions : status[i] \in {"new", "due"}}

\* The call of _next at the head of the inbox waits in Fetch.
Fetching == pc = "fetch" /\ inbox > 0

\* Fetch returns a message: one due for redelivery before a new one.
Fetch ==
    /\ Fetching /\ ~stopping
    /\ Available # {}
    /\ LET due == {i \in Available : status[i] = "due"}
           i   == Min(IF due # {} THEN due ELSE Available)
       IN  /\ cur' = i
           /\ status' = [status EXCEPT ![i] = "out"]
           /\ work' = <<[ev |-> stream[i].ev, kind |-> stream[i].kind,
                         hasState |-> stream[i].hasState, gap |-> "no"]>>
           /\ declined' = declined \ {i}
    /\ inbox' = inbox - 1 /\ pc' = "begin"
    /\ UNCHANGED <<stream, unseen, durable, sub, verdict, result, tables,
                   caller, stopping, restarts>>

\* Mutant: the minute is counted from the start of the worker, not per fetch.
FetchFails_OneMinute ==
    /\ Fetching
    /\ inbox' = inbox - 1 /\ pc' = "expire"
    /\ UNCHANGED <<queue, sub, cur, work, verdict, result, room, caller,
                   stopping, restarts>>

\* Fetch returns an error: nothing came for a minute, the process context
\* was cancelled, or the server failed.
FetchFails ==
    /\ Fetching
    /\ Available = {} \/ stopping \/ "fetch" \in Faults
    /\ inbox' = inbox - 1 /\ pc' = "expire"
    /\ UNCHANGED <<queue, sub, cur, work, verdict, result, room, caller,
                   stopping, restarts>>

\* Unsubscribe; the subscription is set to nil under the worker's lock.
Expire ==
    /\ pc = "expire"
    /\ sub' = FALSE /\ pc' = "fetch"
    /\ UNCHANGED <<queue, inbox, cur, work, verdict, result, room, caller,
                   stopping, restarts>>

\* JetStream: AckWait passes for a message that was not acknowledged.
AckTimeout(i) ==
    /\ i \in Positions /\ status[i] = "out"
    /\ status' = [status EXCEPT ![i] = "due"]
    /\ UNCHANGED <<stream, unseen, durable, worker, room, caller, stopping,
                   restarts>>

----------------------------------------------------------------------------
(* processRoomEvent                                                        *)

Job == Head(work)

\* MissingAuthPrevEvents(): previous events that are unknown or have no state.
Missing(e) == Prev[e] \ snap
MissingPrev == ~Job.hasState /\ Missing(Job.ev) # {}

\* The job at the head of work is done: the next one of the gap, the event
\* that waits for the gap, or the end of the message.
Done(res) ==
    /\ work' = Tail(work) /\ verdict' = "none"
    /\ IF Len(work) > 1 THEN pc' = "begin" /\ UNCHANGED result
                        ELSE pc' = "ack" /\ result' = res

\* processRoomEvent returns an error that is not a RejectedError.  If the job
\* filled a gap, processEventWithMissingState gives up and its caller
\* rejects the event that needed the gap.
Failed ==
    /\ verdict' = "none"
    /\ IF Len(work) > 1
       THEN /\ work' = <<[Last(work) EXCEPT !.gap = "failed"]>>
            /\ pc' = "store" /\ UNCHANGED result
       ELSE /\ work' = <<>> /\ pc' = "ack" /\ result' = "failed"

\* A query or a transaction of the step fails, or finds the context cancelled.
Fail ==
    /\ \/ pc \in {"begin", "store", "state", "latest", "commit"} /\ stopping
       \/ pc \in {"store", "state", "latest", "commit"} /\ pc \in Faults
    /\ Failed
    /\ declined' = IF stopping \/ Len(work) > 1 THEN declined
                   ELSE declined \cup {cur}
    /\ UNCHANGED <<queue, sub, inbox, cur, tables, caller, stopping, restarts>>

\* Events of the gap that the servers asked hand out: some of the missing
\* previous events, in an order.
Gaps(e) == {gap \in SeqOf(Missing(e), Cardinality(Missing(e))) :
                gap # <<>> /\ IsInjective(gap)}

\* processEventWithMissingState(): the events of the gap are processed as old
\* events, the earliest with the state before it.  A gap that ends in an
\* event already there counts as filled and is first processed without.
GapJobs(gap) ==
    LET pass(state) == [i \in 1 .. Len(gap) |->
                          [ev |-> gap[i], kind |-> "old",
                           hasState |-> state /\ i = 1, gap |-> "no"]]
    IN  (IF stored[gap[1]] = "rejected" THEN pass(FALSE) ELSE <<>>) \o pass(TRUE)

Known == Job.kind = "outlier" /\ stored[Job.ev] = "ok"
Needs == Job.kind = "new" /\ MissingPrev

\* The context check, the check for a known outlier, and the missing
\* previous events of a new event.  The gap is filled, or is not (no server,
\* no answer).  If the previous events still have no state after it, the
\* state before the event itself is looked up, which may fail too.
Begin ==
    /\ pc = "begin" /\ ~stopping
    /\ \/ Known /\ Done("ok")
       \/ /\ Needs /\ Job.gap = "no"
          /\ \E gap \in Gaps(Job.ev) :
                work' = GapJobs(gap) \o <<[Job EXCEPT !.gap = "filled"]>>
          /\ UNCHANGED <<pc, verdict, result>>
       \/ /\ Needs
          /\ work' = <<[Job EXCEPT !.gap = "failed"]>>
          /\ pc' = "store" /\ UNCHANGED <<verdict, result>>
       \/ /\ Needs /\ Job.gap = "filled"
          /\ work' = <<[Job EXCEPT !.hasState = TRUE]>>
          /\ pc' = "store" /\ UNCHANGED <<verdict, result>>
       \/ /\ ~Known /\ ~Needs
          /\ pc' = "store" /\ UNCHANGED <<work, verdict, result>>
    /\ UNCHANGED <<queue, sub, inbox, cur, room, caller, stopping, restarts>>

\* The state before the event is not known, and was not found.
NoState == Job.gap = "failed" \/ MissingPrev

\* The verdicts the checks can reach: an event whose state before is unknown
\* is rejected; only new events are checked against the current state (soft
\* failure).
Verdicts ==
    IF Job.kind # "outlier" /\ NoState THEN {"rejected"}
    ELSE {"ok", "rejected"} \cup (IF Job.kind = "new" THEN {"softfail"} ELSE {})

\* Mutant: the verdict itself is written as the event's rejected flag.
Store_Verdict ==
    /\ pc = "store"
    /\ \E v \in Verdicts :
         /\ verdict' = v
         /\ stored' = [stored EXCEPT ![Job.ev] = v]
    /\ refs' = refs \cup Prev[Job.ev]
    /\ pc' = "state"
    /\ UNCHANGED <<queue, sub, inbox, cur, work, result, snap, sent, latest,
                   produced, declined, caller, stopping, restarts>>

\* StoreEvent(): the event and its references to previous events in one
\* transaction.  A rejected event may become accepted, never the reverse.
Store ==
    /\ pc = "store"
    /\ \E v \in Verdicts :
         /\ verdict' = v
         /\ stored' = [stored EXCEPT ![Job.ev] =
                         IF @ = "ok" \/ v # "rejected" THEN "ok" ELSE "rejected"]
    /\ refs' = refs \cup Prev[Job.ev]
    /\ pc' = "state"
    /\ UNCHANGED <<queue, sub, inbox, cur, work, result, snap, sent, latest,
                   produced, declined, caller, stopping, restarts>>

\* calculateAndSetState(), then the early ends: an outlier stops once stored,
\* a rejected or soft-failed event after its state is set.
SetState ==
    /\ pc = "state"
    /\ snap' = IF Job.kind # "outlier" /\ ~NoState
               THEN snap \cup {Job.ev} ELSE snap
    /\ declined' = IF Len(work) = 1 /\ verdict # "ok"
                   THEN declined \cup {cur} ELSE declined
    /\ IF Job.kind = "outlier" \/ verdict = "softfail" THEN Done("ok")
       ELSE IF verdict = "rejected" THEN Done("rejected")
       ELSE pc' = "latest" /\ UNCHANGED <<work, verdict, result>>
    /\ UNCHANGED <<queue, sub, inbox, cur, stored, refs, sent, latest,
                   produced, caller, stopping, restarts>>

\* Mutant: an event that is already referenced becomes an extremity.
CalculateLatest_Referenced(e, rewrites) ==
    LET old == IF rewrites THEN {} ELSE latest IN
    {e} \cup ({o \in old : o \notin refs} \ Prev[e])

\* calculateLatest(): the forward extremities after the event.  An event that
\* rewrites the state starts from none.
CalculateLatest(e, rewrites) ==
    LET old == IF rewrites THEN {} ELSE latest IN
    IF e \in old \/ e \in refs THEN old
    ELSE {e} \cup ({o \in old : o \notin refs} \ Prev[e])

\* doUpdateLatestEvents() up to ProduceRoomEvents(), inside the transaction;
\* an old event is only produced.  SetLatestEvents() refuses an empty set.
Latest ==
    /\ pc = "latest"
    /\ \/ /\ Job.kind = "old" \/ Job.ev \in sent
          /\ Done("ok") /\ UNCHANGED <<produced, declined>>
       \/ /\ Job.kind = "new" /\ Job.ev \notin sent
          /\ CalculateLatest(Job.ev, Job.hasState) = {}
          /\ Failed /\ UNCHANGED produced
          /\ declined' = declined \cup {cur}
       \/ /\ Job.kind = "new" /\ Job.ev \notin sent
          /\ CalculateLatest(Job.ev, Job.hasState) # {}
          /\ produced' = produced \cup {Job.ev}
          /\ pc' = "commit" /\ UNCHANGED <<work, verdict, result, declined>>
    /\ UNCHANGED <<queue, sub, inbox, cur, stored, refs, snap, sent, latest,
                   caller, stopping, restarts>>

\* MarkEventAsSent() and the commit: extremities and mark become durable.
Commit ==
    /\ pc = "commit"
    /\ latest' = CalculateLatest(Job.ev, Job.hasState)
    /\ sent' = sent \cup {Job.ev}
    /\ Done("ok")
    /\ UNCHANGED <<queue, sub, inbox, cur, stored, refs, snap, produced,
                   declined, caller, stopping, restarts>>

\* Mutant: a failure is acknowledged while the process is stopping.
Ack_Always ==
    /\ pc = "ack"
    /\ status' = [status EXCEPT ![cur] = "acked"]
    /\ caller' = IF caller[cur] = "waiting"
                 THEN [caller EXCEPT ![cur] = result] ELSE caller
    /\ inbox' = inbox + 1 /\ pc' = "fetch" /\ cur' = 0 /\ result' = "none"
    /\ UNCHANGED <<stream, unseen, durable, sub, work, verdict, room, stopping,
                   restarts>>

\* The end of _next: acknowledge, unless processing returned an error, be it
\* a rejection, and the process is stopping; answer the synchronous caller; queue _next again.  (An
\* acknowledgement that is lost is a restart just before it: redelivery.)
Ack ==
    /\ pc = "ack"
    /\ status' = IF result # "ok" /\ stopping THEN status
                 ELSE [status EXCEPT ![cur] = "acked"]
    /\ caller' = IF caller[cur] = "waiting"
                 THEN [caller EXCEPT ![cur] = result] ELSE caller
    /\ inbox' = inbox + 1 /\ pc' = "fetch" /\ cur' = 0 /\ result' = "none"
    /\ UNCHANGED <<stream, unseen, durable, sub, work, verdict, room, stopping,
                   restarts>>

----------------------------------------------------------------------------
(* Shutdown and restart                                                    *)

\* The process context is cancelled.
Stop ==
    /\ ~stopping /\ restarts < MaxRestarts
    /\ stopping' = TRUE
    /\ UNCHANGED <<queue, worker, room, caller, restarts>>

\* The process ends, after Stop or by a crash, and starts again: memory is
\* lost, an open transaction is rolled back, and a new ephemeral consumer is
\* given every message that the stream still keeps.
Restart ==
    /\ restarts < MaxRestarts
    /\ restarts' = restarts + 1 /\ stopping' = FALSE
    /\ sub' = FALSE /\ inbox' = 0 /\ pc' = "fetch" /\ cur' = 0 /\ work' = <<>>
    /\ verdict' = "none" /\ result' = "none"
    /\ unseen' = {i \in Positions : status[i] \notin {"acked", "lost"}}
    /\ caller' = [i \in Positions |->
                    IF caller[i] = "waiting" THEN "gone" ELSE caller[i]]
    /\ UNCHANGED <<stream, status, durable, room>>

Worker == Fetch \/ Expire \/ Begin \/ Store \/ SetState \/ Latest \/ Commit \/ Ack

Next ==
    \/ \E in \in Inputs : ~stopping /\ Publish(in)
    \/ \E i \in Positions : GiveUp(i)
    \/ Notice
    \/ Worker
    \/ FetchFails
    \/ Fail
    \/ \E i \in Positions : AckTimeout(i)
    \/ Stop
    \/ Restart

Spec == Init /\ [][Next]_vars

\* The worker and the consumer's callback are goroutines of a running process
\* and JetStream redelivers; nobody has to publish, give up, stop or crash.
Fairness ==
    /\ WF_vars(Notice)
    /\ WF_vars(Worker)
    /\ WF_vars(FetchFails)
    /\ \A i \in 1 .. MaxMessages : WF_vars(AckTimeout(i))

FairSpec == Spec /\ Fairness

----------------------------------------------------------------------------
(* Properties                                                              *)

Kinds == {"new", "old", "outlier"}

\* Types.  The rejected flag of a stored event is the only trace of a verdict
\* (StoreEvent()), and every caller of InputRoomEvents() sees one outcome.
TypeOK ==
    /\ stream \in Seq(Inputs) /\ Len(stream) <= MaxMessages
    /\ status \in [Positions -> {"new", "out", "due", "acked", "lost"}]
    /\ unseen \subseteq Positions /\ durable \in BOOLEAN
    /\ sub \in BOOLEAN /\ inbox \in Nat
    /\ pc \in {"fetch", "expire", "begin", "store", "state", "latest", "commit", "ack"}
    /\ cur \in 0 .. Len(stream)
    /\ \A j \in 1 .. Len(work) :
          /\ work[j].ev \in Events /\ work[j].kind \in Kinds
          /\ work[j].hasState \in BOOLEAN
          /\ work[j].gap \in {"no", "filled", "failed"}
    /\ verdict \in {"none", "ok", "rejected", "softfail"}
    /\ result \in {"none", "ok", "rejected", "failed"}
    /\ stored \in [Events -> {"no", "ok", "rejected"}]
    /\ refs \subseteq Events /\ snap \subseteq Events /\ sent \subseteq Events
    /\ latest \subseteq Events /\ produced \subseteq Events
    /\ declined \subseteq Positions
    /\ caller \in [Positions -> {"none", "waiting", "ok", "rejected", "failed", "gone"}]
    /\ stopping \in BOOLEAN /\ restarts \in 0 .. MaxRestarts

\* The subscription is open exactly while one call of _next is queued or
\* running: _next never dereferences a nil subscription (input.go line 273) and
\* no two chains of calls compete for the room.
OneChain == inbox + (IF pc = "fetch" THEN 0 ELSE 1) = (IF sub THEN 1 ELSE 0)

\* Whatever crashes and redeliveries happen, an event marked as sent is in the
\* output log ("we only mark an event as sent if we sent it"), and the forward
\* extremities are sent events, never none, none of which is a previous event
\* of another.
RoomConsistent ==
    /\ sent \subseteq produced
    /\ latest \subseteq sent /\ latest # {}
    /\ \A e, f \in latest : e \notin Prev[f]

\* A message is acknowledged only when its event has reached the output log
\* and the extremities were committed, or its last processing declined it (by
\* the checks, or by an error that is not the shutdown's): neither a crash nor
\* a shutdown in the middle of processing loses it.  A message that the stream
\* drops because no durable consumer could be made for it ("lost", see Notice)
\* is never acknowledged by the worker and not covered.
AckedIsHandled ==
    \A i \in Positions :
        status[i] = "acked" /\ stream[i].kind = "new"
            => stream[i].ev \in sent \/ i \in declined

\* While the worker of the room is subscribed, every message it could be given
\* is processed to the end, unless the process stops or restarts first.
ActiveRoomDrains ==
    \A i \in 1 .. MaxMessages, n \in 0 .. MaxRestarts :
        (i \in Available /\ sub /\ pc # "expire" /\ restarts = n)
            ~> (cur = i /\ pc = "ack") \/ stopping \/ restarts # n

\* "this makes sure that we still reprocess the msg after restarting"
\* (input.go, the comment on the acknowledgement): a message that is in the
\* queue after the last restart is in the end acknowledged.
Reprocessed ==
    \A i \in 1 .. MaxMessages :
        (i \in Positions /\ restarts = MaxRestarts)
            ~> (i \in Positions /\ status[i] = "acked")

=============================================================================
