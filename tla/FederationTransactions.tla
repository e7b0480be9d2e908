----------------------- MODULE FederationTransactions -----------------------
(***************************************************************************)
(* Transactions between two servers that both run this code: the worker of *)
(* the sender's queue (federationapi/queue/destinationqueue.go), which     *)
(* keeps the transaction ID until a transaction succeeds, and the endpoint *)
(* of the receiver (federationapi/routing/send.go with                     *)
(* internal/transactionrequest.go), which lets a request wait for another  *)
(* one with the same ID that is still in flight.                           *)
(*                                                                         *)
(* The queue is what is accepted for the destination and not yet cleaned;  *)
(* how it is stored, loaded and woken up is DestinationQueue.  There is    *)
(* one sender, so the index of the map of transactions is the ID alone.    *)
(***************************************************************************)
EXTENDS Integers, Sequences, FiniteSets, Functions

CONSTANTS PDUs, EDUs,
          Bad,                    \* PDUs that are not canonical JSON for the version of their room
          MaxPDUsPerTransaction,
          MaxEDUsPerTransaction,
          MaxRequests,            \* bound on the requests the sender makes
          MaxFaults               \* bound on restarts of either server and on calls that fail

ASSUME KindsAssumption == PDUs \cap EDUs = {} /\ Bad \subseteq PDUs
ASSUME LimitsAssumption ==
    /\ MaxPDUsPerTransaction \in Nat \ {0} /\ MaxEDUsPerTransaction \in Nat \ {0}
    /\ MaxRequests \in Nat /\ MaxFaults \in Nat

VARIABLES
    pdus, edus,  \* the sender's queue: pendingPDUs, pendingEDUs and their rows
    txnID,       \* oq.transactionID, 0 for ""
    lastID,      \* the last ID that was generated
    call,        \* the request the worker waits for, or 0
    reqs,        \* the requests made so far, with what the receiver does about each
    inFlight,    \* inFlightTxnsPerOrigin: the request that made the channel of an ID
    chan,        \* the channel that each request made
    handled,     \* history: what the receiver has passed on or refused
    cancelled,   \* history: <<r, i>>, i failed in request r, whose context was cancelled
    removed,     \* history: what the sender has cleaned after a success
    joined,      \* history: what was acknowledged for another request that did not handle it
    faults       \* restarts and failing calls that may still happen

sender   == <<pdus, edus, txnID, lastID, call>>
outcome  == <<handled, cancelled>>
receiver == <<inFlight, chan, outcome>>
history  == <<removed, joined>>
vars     == <<sender, reqs, receiver, history, faults>>

Items    == PDUs \cup EDUs
NoResult == "none"
Success  == {"ok", "accepted"}                   \* 200, 202
Results  == Success \cup {"bad", "timeout"}      \* 400, 408

\* Up to n elements from the front of a queue.
First(s, n) == SubSeq(s, 1, IF Len(s) < n THEN Len(s) ELSE n)

\* handleTransactionSuccess(): the queue without its first n elements.
Rest(s, n) == SubSeq(s, n + 1, Len(s))

\* What a request holds.
Batch(q) == Range(q.txnPDUs) \cup Range(q.txnEDUs)

Init ==
    /\ pdus = <<>> /\ edus = <<>>
    /\ txnID = 0 /\ lastID = 0 /\ call = 0
    /\ reqs = <<>>
    /\ inFlight = [id \in {} |-> 0]
    /\ chan = <<>>
    /\ handled = {} /\ cancelled = {} /\ removed = {} /\ joined = {}
    /\ faults = MaxFaults

-----------------------------------------------------------------------------
(* The sender                                                              *)

\* sendEvent(), sendEDU(): an item is queued.
Queue(i) ==
    /\ i \notin removed \cup Range(pdus) \cup Range(edus)
    /\ pdus' = IF i \in PDUs THEN Append(pdus, i) ELSE pdus
    /\ edus' = IF i \in EDUs THEN Append(edus, i) ELSE edus
    /\ UNCHANGED <<txnID, lastID, call, reqs, receiver, history, faults>>

\* nextTransaction(), createTransaction(): the worker takes the front of the
\* queue, and an ID unless it has kept one, and makes a request.
SendTransaction ==
    LET p  == First(pdus, MaxPDUsPerTransaction)
        e  == First(edus, MaxEDUsPerTransaction)
        id == IF txnID = 0 THEN lastID + 1 ELSE txnID
    IN
    /\ call = 0 /\ Len(reqs) < MaxRequests
    /\ p # <<>> \/ e # <<>>
    /\ txnID' = id /\ lastID' = IF txnID = 0 THEN id ELSE lastID
    /\ reqs' = Append(reqs, [txn |-> id, txnPDUs |-> p, txnEDUs |-> e, pdus |-> p,
                             edus |-> e, pc |-> "sent", owner |-> 0, res |-> NoResult])
    /\ chan' = Append(chan, [res |-> NoResult, closed |-> FALSE])
    /\ call' = Len(reqs) + 1
    /\ UNCHANGED <<pdus, edus, inFlight, outcome, history, faults>>

\* nextTransaction(): the request fails without an answer (a lost connection,
\* the time limit of five minutes); the ID is kept for the retry.  A handler
\* that works on the request has its context cancelled.
Disconnect ==
    /\ call # 0
    /\ call' = 0
    /\ UNCHANGED <<pdus, edus, txnID, lastID, reqs, receiver, history, faults>>

\* The sender restarts: the queue is in the database, the ID is not.
RestartSender ==
    /\ faults > 0 /\ faults' = faults - 1
    /\ txnID' = 0 /\ call' = 0
    /\ UNCHANGED <<pdus, edus, lastID, reqs, receiver, history>>

-----------------------------------------------------------------------------
(* The receiver: Send()                                                    *)

Go(r, pc) == [reqs EXCEPT ![r].pc = pc]
Finish(r, res) == [reqs EXCEPT ![r].pc = "answer", ![r].res = res]

\* inFlightTxnsPerOrigin.LoadOrStore(): wait for the request with this ID
\* that is in flight, or become that request.
LoadOrStore(r) ==
    LET id == reqs[r].txn IN
    /\ reqs[r].pc = "sent"
    /\ IF id \in DOMAIN inFlight
       THEN /\ reqs' = [reqs EXCEPT ![r].pc = "wait", ![r].owner = inFlight[id]]
            /\ UNCHANGED inFlight
       ELSE /\ reqs' = Go(r, "process")
            /\ inFlight' = [k \in DOMAIN inFlight \cup {id} |->
                              IF k = id THEN r ELSE inFlight[k]]
    /\ UNCHANGED <<sender, chan, outcome, history, faults>>

\* What the handler of request r failed to pass on.
GaveUp(r) == {i \in Items : <<r, i>> \in cancelled}

\* The channel has a result or is closed: the result, which only one request
\* takes, or 202.  What the request held and the other one did not handle
\* is recorded.
Receive(r) ==
    LET o   == reqs[r].owner
        res == chan[o].res
    IN
    /\ reqs[r].pc = "wait"
    /\ res # NoResult \/ chan[o].closed
    /\ reqs' = Finish(r, IF res = NoResult THEN "accepted" ELSE res)
    /\ chan' = [chan EXCEPT ![o].res = NoResult]
    /\ joined' = joined \cup (IF reqs[o].res = "bad" THEN Batch(reqs[r])
                              ELSE Batch(reqs[r]) \ (Batch(reqs[o]) \ GaveUp(o)))
    /\ UNCHANGED <<sender, inFlight, outcome, removed, faults>>

\* The context is done: the client has gone, or five minutes are over.
GiveUp(r) ==
    /\ reqs[r].pc = "wait"
    /\ reqs' = Finish(r, "timeout")
    /\ UNCHANGED <<sender, receiver, history, faults>>

\* An item is passed on, or refused in the response or silently.  The context
\* is the request's: once the client has gone or the handler has returned,
\* the calls may fail, which is logged or put in the response, no more.
PassOn(r, i) ==
    \/ /\ handled' = handled \cup {i}
       /\ UNCHANGED <<cancelled, faults>>
    \/ /\ call # r /\ faults > 0 /\ faults' = faults - 1
       /\ cancelled' = cancelled \cup {<<r, i>>}
       /\ UNCHANGED handled

\* ProcessTransaction(): the next PDU goes to the roomserver, or is refused as
\* when the version of its room is not known.
ProcessPDU(r) ==
    /\ reqs[r].pc = "process" /\ reqs[r].pdus # <<>>
    /\ reqs' = [reqs EXCEPT ![r].pdus = Tail(@)]
    /\ PassOn(r, Head(reqs[r].pdus))
    /\ UNCHANGED <<sender, inFlight, chan, history>>

\* ProcessTransaction(): a PDU that is not canonical JSON ends it all.
RefuseAll(r) ==
    /\ reqs[r].pc = "process" /\ reqs[r].pdus # <<>> /\ Head(reqs[r].pdus) \in Bad
    /\ reqs' = [reqs EXCEPT ![r].pc = "delete", ![r].res = "bad"]
    /\ UNCHANGED <<sender, receiver, history, faults>>

\* processEDUs(): the goroutine for the EDUs, which also outlives the handler.
ProcessEDU(r) ==
    /\ reqs[r].pc \notin {"sent", "wait"} /\ reqs[r].owner = 0 /\ reqs[r].edus # <<>>
    /\ reqs' = [reqs EXCEPT ![r].edus = Tail(@)]
    /\ PassOn(r, Head(reqs[r].edus))
    /\ UNCHANGED <<sender, inFlight, chan, history>>

\* Mutant: the EDUs are not waited for.
Processed_NoWait(r) ==
    /\ reqs[r].pc = "process" /\ reqs[r].pdus = <<>>
    /\ reqs' = [reqs EXCEPT ![r].pc = "delete", ![r].res = "ok"]
    /\ chan' = [chan EXCEPT ![r].res = "ok"]
    /\ UNCHANGED <<sender, inFlight, outcome, history, faults>>

\* ProcessTransaction() ends with wg.Wait(), and the response goes to whoever
\* waits: ch <- res.
Processed(r) ==
    /\ reqs[r].pc = "process" /\ reqs[r].pdus = <<>> /\ reqs[r].edus = <<>>
    /\ reqs' = [reqs EXCEPT ![r].pc = "delete", ![r].res = "ok"]
    /\ chan' = [chan EXCEPT ![r].res = "ok"]
    /\ UNCHANGED <<sender, inFlight, outcome, history, faults>>

\* Mutant: the channel is closed while the map still names it.
Delete_CloseFirst(r) ==
    /\ reqs[r].pc = "delete"
    /\ chan' = [chan EXCEPT ![r].closed = TRUE]
    /\ reqs' = Go(r, "close")
    /\ UNCHANGED <<sender, inFlight, outcome, history, faults>>

\* defer inFlightTxnsPerOrigin.Delete(index), the last deferred and first run.
Delete(r) ==
    /\ reqs[r].pc = "delete"
    /\ inFlight' = [k \in DOMAIN inFlight \ {reqs[r].txn} |-> inFlight[k]]
    /\ reqs' = Go(r, "close")
    /\ UNCHANGED <<sender, chan, outcome, history, faults>>

\* Mutant: the channel is closed only if there was a result.
Close_Success(r) ==
    /\ reqs[r].pc = "close"
    /\ chan' = [chan EXCEPT ![r].closed = (reqs[r].res = "ok")]
    /\ reqs' = Go(r, "answer")
    /\ UNCHANGED <<sender, inFlight, outcome, history, faults>>

\* defer close(ch)
Close(r) ==
    /\ reqs[r].pc = "close"
    /\ chan' = [chan EXCEPT ![r].closed = TRUE]
    /\ reqs' = Go(r, "answer")
    /\ UNCHANGED <<sender, inFlight, outcome, history, faults>>

\* Mutant: an answer that comes too late is taken for that of the retry.
Answer_Late(r) ==
    LET ok == reqs[r].res \in Success IN
    /\ reqs[r].pc = "answer"
    /\ reqs' = Go(r, "done")
    /\ call' = IF call = r THEN 0 ELSE call
    /\ txnID' = IF ok THEN 0 ELSE txnID
    /\ pdus' = IF call = r /\ ok THEN Rest(pdus, Len(reqs[r].txnPDUs)) ELSE pdus
    /\ edus' = IF call = r /\ ok THEN Rest(edus, Len(reqs[r].txnEDUs)) ELSE edus
    /\ removed' = IF call = r /\ ok THEN removed \cup Batch(reqs[r]) ELSE removed
    /\ UNCHANGED <<lastID, receiver, joined, faults>>

\* The handler returns; if the worker still waits, nextTransaction() cleans
\* the transaction and forgets the ID, or keeps both.
Answer(r) ==
    LET clean == call = r /\ reqs[r].res \in Success IN
    /\ reqs[r].pc = "answer"
    /\ reqs' = Go(r, "done")
    /\ call' = IF call = r THEN 0 ELSE call
    /\ txnID' = IF clean THEN 0 ELSE txnID
    /\ pdus' = IF clean THEN Rest(pdus, Len(reqs[r].txnPDUs)) ELSE pdus
    /\ edus' = IF clean THEN Rest(edus, Len(reqs[r].txnEDUs)) ELSE edus
    /\ removed' = IF clean THEN removed \cup Batch(reqs[r]) ELSE removed
    /\ UNCHANGED <<lastID, receiver, joined, faults>>

\* The receiver restarts: handlers, goroutines and the map are gone.
RestartReceiver ==
    /\ faults > 0 /\ faults' = faults - 1
    /\ reqs' = [r \in DOMAIN reqs |-> IF reqs[r].pc = "sent" THEN reqs[r]
                                      ELSE [reqs[r] EXCEPT !.pc = "done", !.edus = <<>>]]
    /\ inFlight' = [id \in {} |-> 0]
    /\ UNCHANGED <<sender, chan, outcome, history>>

Handle(r) ==
    \/ LoadOrStore(r) \/ Receive(r) \/ ProcessPDU(r) \/ RefuseAll(r)
    \/ ProcessEDU(r) \/ Processed(r) \/ Delete(r) \/ Close(r) \/ Answer(r)

Next ==
    \/ \E i \in Items : Queue(i)
    \/ SendTransaction \/ Disconnect \/ RestartSender \/ RestartReceiver
    \/ \E r \in DOMAIN reqs : Handle(r) \/ GiveUp(r)

Spec == Init /\ [][Next]_vars

\* The receiver's goroutines are scheduled.  A request need not arrive, and
\* nothing is assumed about the time limit of a request that waits.
FairSpec ==
    Spec /\ \A r \in 1 .. MaxRequests :
              WF_vars(r \in DOMAIN reqs /\ reqs[r].pc # "sent" /\ Handle(r))

-----------------------------------------------------------------------------
(* Properties                                                              *)

\* Types: the request the worker waits for has the ID the worker keeps
\* (createTransaction(), nextTransaction()), and what is cleaned is no
\* longer queued.
TypeOK ==
    /\ txnID \in 0 .. lastID /\ call \in 0 .. Len(reqs)
    /\ call # 0 => reqs[call].txn = txnID
    /\ (Range(pdus) \cup Range(edus)) \cap removed = {}
    /\ \A r \in DOMAIN reqs :
          /\ reqs[r].pc \in {"sent", "wait", "process", "delete", "close",
                             "answer", "done"}
          /\ reqs[r].res \in Results \cup {NoResult}
          /\ chan[r].res \in {"ok", NoResult} /\ chan[r].closed \in BOOLEAN

\* A transaction ID has one handler at a time (Send()): the map names the
\* one request that works on it, and its channel is still open, so that no
\* retry is told 202 before the work is done, whatever arrives meanwhile.
OneHandler ==
    /\ \A id \in DOMAIN inFlight :
          LET r == inFlight[id] IN
          reqs[r].txn = id /\ reqs[r].pc \in {"process", "delete"} /\ ~chan[r].closed
    /\ \A r \in DOMAIN reqs : reqs[r].pc \in {"process", "delete"} =>
          reqs[r].txn \in DOMAIN inFlight /\ inFlight[reqs[r].txn] = r

\* What the sender removes from its queue has been handled by the receiver
\* (nextTransaction(), Send(), ProcessTransaction()), over lost answers,
\* retries and restarts, unless a request was acknowledged in the place of
\* another one with its ID that did not handle it: that held other events,
\* was refused, or was given up in part when its client had gone.
NothingDropped == removed \subseteq handled \cup joined

\* A request that has arrived is answered (Send()): the request that works
\* on a transaction leaves nobody waiting, however it ends.
Answered ==
    \A r \in 1 .. MaxRequests :
       (r \in DOMAIN reqs /\ reqs[r].pc # "sent") ~> (r \in DOMAIN reqs /\ reqs[r].pc = "done")
=============================================================================
