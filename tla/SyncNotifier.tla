---------------------------- MODULE SyncNotifier ----------------------------
(***************************************************************************)
(* How a client learns of new data: the consumers of the sync API write    *)
(* it to the database and tell the Notifier (syncapi/consumers,            *)
(* syncapi/notifier), which wakes the /sync requests that wait for it in   *)
(* the RequestPool (syncapi/sync/requestpool.go); the stream providers     *)
(* (syncapi/streams) then read the database between two positions.         *)
(*                                                                         *)
(* Every kind of data has a stream of its own: items in order, of which    *)
(* the position of the last one is what a token holds for that kind.  An   *)
(* item is the set of clients it is for.  A client is one device, with at  *)
(* most one request at a time, that keeps the token of the last response.  *)
(*                                                                         *)
(* GetListener() sets a finalizer on its listener and returns a copy: the  *)
(* original is garbage at once, and when the collector finds it, it is     *)
(* closed, which the request does once more with the copy.  The number of  *)
(* listeners that a stream counts is therefore modelled as it is, a uint,  *)
(* and a stream can be removed although a request waits on it.             *)
(***************************************************************************)
EXTENDS Integers, Sequences, FiniteSets, Functions

CONSTANTS Clients,
          Kinds,       \* the streams: "pdu", "account", "receipt", "device", ...
          MaxItems,    \* bound on the items of all the streams
          MaxFaults,   \* bound on crashes and on responses that get lost
          MaxGarbage,  \* bound on the listeners of a stream left to be collected
          UintSize,    \* the number of values of a uint
          ReadErrors   \* whether reading the database may fail

ASSUME KindsAssumption == Kinds \subseteq STRING
ASSUME BoundsAssumption == /\ MaxItems \in Nat /\ MaxFaults \in Nat /\ MaxGarbage \in Nat
                           /\ UintSize \in Nat \ {0}
ASSUME ErrorsAssumption == ReadErrors \in BOOLEAN

VARIABLES
    items,     \* the rows of each stream: for whom each item is
    consumer,  \* where the consumer of each stream is
    latest,    \* DefaultStreamProvider.latest
    currPos,   \* Notifier.currPos
    streams,    \* UserDeviceStream.pos: the position last broadcast to each client
    mapped,     \* Notifier.userDeviceStreams: the clients whose stream is in the map
    numWaiting, \* UserDeviceStream.numWaiting
    garbage,    \* the listeners of a stream whose finalizer has not run
    req,        \* the /sync request of each client
    token,      \* the client's next_batch
    delivered,  \* history: what each client has been sent
    faults      \* what is left of MaxFaults

db       == <<items, consumer>>
counts   == <<numWaiting, garbage>>
notifier == <<currPos, streams, mapped, counts>>
client   == <<token, delivered>>
vars     == <<db, latest, notifier, req, client, faults>>

Tokens  == [Kinds -> Nat]
Zero    == [k \in Kinds |-> 0]
Idle    == [pc |-> "idle"]

\* StreamingToken.IsAfter()
IsAfter(t, other) == \E k \in Kinds : t[k] > other[k]

\* Mutant: the update replaces the position.
ApplyUpdates_Replace(t, other) == other

\* StreamingToken.ApplyUpdates()
ApplyUpdates(t, other) == [k \in Kinds |-> IF other[k] > t[k] THEN other[k] ELSE t[k]]

Init ==
    /\ items = [k \in Kinds |-> <<>>]
    /\ consumer = [k \in Kinds |-> "idle"]
    /\ latest = Zero /\ currPos = Zero
    /\ streams = [c \in Clients |-> Zero] /\ mapped = {}
    /\ numWaiting = [c \in Clients |-> 0] /\ garbage = [c \in Clients |-> 0]
    /\ req = [c \in Clients |-> Idle]
    /\ token = [c \in Clients |-> Zero]
    /\ delivered = [c \in Clients |-> {}]
    /\ faults = MaxFaults

----------------------------------------------------------------------------
(* The consumers                                                           *)

\* onMessage(): the item is written.
Write(k, to) ==
    /\ consumer[k] = "idle"
    /\ FoldFunction(LAMBDA s, total : Len(s) + total, 0, items) < MaxItems
    /\ items' = [items EXCEPT ![k] = Append(@, to)]
    /\ consumer' = [consumer EXCEPT ![k] = "written"]
    /\ UNCHANGED <<latest, notifier, req, client, faults>>

\* onMessage(): DefaultStreamProvider.Advance().
Advance(k) ==
    /\ consumer[k] = "written"
    /\ latest' = [latest EXCEPT ![k] = Len(items[k])]
    /\ consumer' = [consumer EXCEPT ![k] = "advanced"]
    /\ UNCHANGED <<items, notifier, req, client, faults>>

\* _removeEmptyUserStreams(): streams that count nobody and have not for a
\* while, at any moment a cleanup is due.  What is left of the map.
Kept == {left \in SUBSET mapped : \A c \in mapped \ left : numWaiting[c] = 0}

\* UserDeviceStream.Broadcast() on the streams of the clients in C that are
\* left in the map.
Broadcast(C, pos, left) ==
    /\ mapped' = left
    /\ streams' = [c \in Clients |-> IF c \in C \cap left THEN pos ELSE streams[c]]
    /\ req' = [c \in Clients |-> IF c \in C \cap left /\ req[c].pc = "waiting"
                                 THEN [req[c] EXCEPT !.pc = "woken"] ELSE req[c]]
    /\ UNCHANGED counts

\* Mutant: the clients are woken, but the position stays.
Announce_NoPosition(k) ==
    LET n   == Len(items[k])
        upd == [Zero EXCEPT ![k] = n]
    IN
    /\ consumer[k] = "advanced"
    /\ UNCHANGED currPos
    /\ \E left \in (IF k = "pdu" THEN Kept ELSE {mapped}) :
          Broadcast(items[k][n], IF k = "account" THEN upd ELSE currPos, left)
    /\ consumer' = [consumer EXCEPT ![k] = "idle"]
    /\ UNCHANGED <<items, latest, client, faults>>

\* OnNewEvent(), OnNewReceipt(), OnNewSendToDevice() and the like, with
\* _wakeupUsers(): the position, then the clients.  OnNewAccountData() passes
\* on the position of the account data alone; only OnNewEvent() cleans up.
Announce(k) ==
    LET n   == Len(items[k])
        upd == [Zero EXCEPT ![k] = n]
    IN
    /\ consumer[k] = "advanced"
    /\ currPos' = ApplyUpdates(currPos, upd)
    /\ \E left \in (IF k = "pdu" THEN Kept ELSE {mapped}) :
          Broadcast(items[k][n], IF k = "account" THEN upd ELSE currPos', left)
    /\ consumer' = [consumer EXCEPT ![k] = "idle"]
    /\ UNCHANGED <<items, latest, client, faults>>

----------------------------------------------------------------------------
(* A /sync request: OnIncomingSyncRequest()                                *)

\* The client asks; poll: timeout=0 or full_state=true.
Begin(c, poll) ==
    /\ req[c].pc = "idle"
    /\ req' = [req EXCEPT ![c] = [pc |-> "read", since |-> token[c],
                                  poll |-> poll, held |-> 0]]
    /\ UNCHANGED <<db, latest, notifier, client, faults>>

Responding(r, cur) ==
    [pc |-> "respond", since |-> r.since, poll |-> r.poll,
     held |-> r.held, cur |-> cur,
     batch |-> <<>>, got |-> {}]

\* The top of the loop, with shouldReturnImmediately().
ReadPosition(c) ==
    /\ req[c].pc = "read"
    /\ req' = [req EXCEPT ![c] =
                 IF IsAfter(currPos, @.since) \/ @.poll
                 THEN Responding(@, currPos)
                 ELSE [pc |-> "listen", since |-> @.since, poll |-> FALSE,
                       held |-> @.held, cur |-> currPos]]
    /\ UNCHANGED <<db, latest, notifier, client, faults>>

\* Notifier.GetListener(), UserDeviceStream.GetListener(): a listener of the
\* stream in the map, or of a new one.  The request keeps it until it ends.
GetListener(c) ==
    /\ req[c].pc = "listen"
    /\ \E left \in Kept :
          LET fresh == c \notin left
              n     == IF fresh THEN 0 ELSE numWaiting[c]
              g     == IF fresh THEN 0 ELSE garbage[c]
          IN
          /\ mapped' = left \cup {c}
          /\ streams' = [streams EXCEPT ![c] = IF fresh THEN currPos ELSE @]
          /\ numWaiting' = [numWaiting EXCEPT ![c] = (n + 1) % UintSize]
          /\ garbage' = [garbage EXCEPT ![c] = IF g < MaxGarbage THEN g + 1 ELSE g]
          /\ req' = [req EXCEPT ![c].pc = "listening",
                                ![c].held = IF fresh THEN 1 ELSE @ + 1]
    /\ UNCHANGED <<db, latest, currPos, client, faults>>

\* The collector finds a listener that GetListener() copied: its finalizer
\* closes it.
Finalize(c) ==
    /\ c \in mapped /\ garbage[c] > 0
    /\ garbage' = [garbage EXCEPT ![c] = @ - 1]
    /\ numWaiting' = [numWaiting EXCEPT ![c] = (@ - 1) % UintSize]
    /\ UNCHANGED <<db, latest, currPos, streams, mapped, req, client, faults>>

\* The request ends, and closes its listeners (defer userStreamListener.Close()).
\* Nobody reads the counter of a stream that is no longer in the map.
Close(c) ==
    /\ req' = [req EXCEPT ![c] = Idle]
    /\ numWaiting' = IF c \in mapped
                     THEN [numWaiting EXCEPT ![c] = (@ - req[c].held) % UintSize]
                     ELSE numWaiting
    /\ UNCHANGED <<currPos, streams, mapped, garbage>>

\* Mutant: the request waits for the next broadcast.
GetNotifyChannel_Next(c) ==
    /\ req[c].pc = "listening"
    /\ req' = [req EXCEPT ![c].pc = "waiting"]
    /\ UNCHANGED <<db, latest, notifier, client, faults>>

\* UserDeviceStreamListener.GetNotifyChannel()
GetNotifyChannel(c) ==
    /\ req[c].pc = "listening"
    /\ req' = [req EXCEPT ![c].pc = IF IsAfter(streams[c], req[c].since)
                                    THEN "woken" ELSE "waiting"]
    /\ UNCHANGED <<db, latest, notifier, client, faults>>

\* The channel is closed: the position of the stream is added.
WakeUp(c) ==
    /\ req[c].pc = "woken"
    /\ req' = [req EXCEPT ![c] = Responding(@, ApplyUpdates(@.cur, streams[c]))]
    /\ UNCHANGED <<db, latest, notifier, client, faults>>

\* The timer fires: giveup() responds with the token of the request.
GiveUp(c) ==
    /\ req[c].pc \in {"waiting", "woken"}
    /\ token' = [token EXCEPT ![c] = req[c].since]
    /\ Close(c)
    /\ UNCHANGED <<db, latest, delivered, faults>>

\* What a client is sent of stream k between two positions.
Between(c, k, lo, hi) ==
    {<<k, n>> : n \in {m \in lo + 1 .. hi : m <= Len(items[k]) /\ c \in items[k][m]}}

\* A read of a stream provider: what it found, and where it ends.
Reply(c, k, got, pos) ==
    req' = [req EXCEPT ![c].got = @ \cup got,
                       ![c].batch = [l \in DOMAIN @ \cup {k} |->
                                       IF l = k THEN pos ELSE @[l]]]

\* Mutant: a complete sync ends at the last row of the database.
Complete_Newest(c, k) ==
    /\ req[c].pc = "respond" /\ req[c].since = Zero /\ k \notin DOMAIN req[c].batch
    /\ Reply(c, k, Between(c, k, 0, latest[k]), Len(items[k]))
    /\ UNCHANGED <<db, latest, notifier, client, faults>>

\* CompleteSync() of one stream, for a request without a token.
Complete(c, k) ==
    /\ req[c].pc = "respond" /\ req[c].since = Zero /\ k \notin DOMAIN req[c].batch
    /\ \E failed \in IF ReadErrors THEN BOOLEAN ELSE {FALSE} :
          IF failed THEN Reply(c, k, {}, 0)
          ELSE Reply(c, k, Between(c, k, 0, latest[k]), latest[k])
    /\ UNCHANGED <<db, latest, notifier, client, faults>>

\* IncrementalSync() of one stream, up to the position the notifier has by
\* then; receipts are read without an upper end.  The token may be ahead of
\* the notifier, and the range backwards.
Incremental(c, k) ==
    LET from == req[c].since[k]
        to   == currPos[k]
        lo   == IF from < to THEN from ELSE to
        hi   == IF from < to THEN to ELSE from
        got  == IF k = "receipt" THEN Between(c, k, from, Len(items[k]))
                ELSE Between(c, k, lo, hi)
        last == CHOOSE n \in {i[2] : i \in got} : \A i \in got : i[2] <= n
    IN
    /\ req[c].pc = "respond" /\ req[c].since # Zero /\ k \notin DOMAIN req[c].batch
    /\ \E failed \in IF ReadErrors THEN BOOLEAN ELSE {FALSE} :
          IF failed THEN Reply(c, k, {}, from)
          ELSE Reply(c, k, got, IF got = {} THEN to ELSE last)
    /\ UNCHANGED <<db, latest, notifier, client, faults>>

\* Every stream has been read.
Read(c) == req[c].pc = "respond" /\ DOMAIN req[c].batch = Kinds

\* A request that found nothing asks again as if its token were the position
\* it started with, for the time that is left.
Again(c, poll) ==
    /\ Read(c) /\ req[c].since # Zero /\ req[c].got = {} /\ ~req[c].poll
    /\ req' = [req EXCEPT ![c] = [pc |-> "read", since |-> @.cur, poll |-> poll,
                                  held |-> @.held]]
    /\ UNCHANGED <<db, latest, notifier, client, faults>>

\* The response reaches the client.
Respond(c) ==
    /\ Read(c)
    /\ req[c].since = Zero \/ req[c].got # {} \/ req[c].poll
    /\ token' = [token EXCEPT ![c] = req[c].batch]
    /\ delivered' = [delivered EXCEPT ![c] = @ \cup req[c].got]
    /\ Close(c)
    /\ UNCHANGED <<db, latest, faults>>

----------------------------------------------------------------------------
(* Faults                                                                  *)

\* The client goes away, or its response is lost.
GoAway(c) ==
    /\ faults > 0 /\ faults' = faults - 1
    /\ req[c].pc \in {"waiting", "woken"} \/ Read(c)
    /\ Close(c)
    /\ UNCHANGED <<db, latest, client>>

\* The process is restarted: the positions are those of the database
\* (Setup(), SetCurrentPosition()), and messages not acknowledged come again.
Crash ==
    /\ faults > 0 /\ faults' = faults - 1
    /\ latest' = [k \in Kinds |-> Len(items[k])] /\ currPos' = latest'
    /\ consumer' = [k \in Kinds |-> IF consumer[k] = "idle" THEN "idle" ELSE "written"]
    /\ streams' = [c \in Clients |-> Zero] /\ mapped' = {}
    /\ numWaiting' = [c \in Clients |-> 0] /\ garbage' = [c \in Clients |-> 0]
    /\ req' = [c \in Clients |-> Idle]
    /\ UNCHANGED <<items, client>>

Step(c) ==
    \/ ReadPosition(c) \/ GetListener(c) \/ GetNotifyChannel(c) \/ WakeUp(c)
    \/ \E k \in Kinds : Complete(c, k) \/ Incremental(c, k)
    \/ Respond(c)

Next ==
    \/ \E k \in Kinds : (\E to \in SUBSET Clients : Write(k, to)) \/ Advance(k) \/ Announce(k)
    \/ \E c \in Clients, poll \in BOOLEAN : Begin(c, poll) \/ Again(c, poll)
    \/ \E c \in Clients : Step(c) \/ GiveUp(c) \/ GoAway(c) \/ Finalize(c)
    \/ Crash

Spec == Init /\ [][Next]_vars

\* The goroutines run, a request ends within its timeout, and the client
\* asks again after every response.
Fairness ==
    /\ \A k \in Kinds : WF_vars(Advance(k)) /\ WF_vars(Announce(k))
    /\ \A c \in Clients : /\ WF_vars(Step(c)) /\ WF_vars(GiveUp(c))
                          /\ WF_vars(\E poll \in BOOLEAN : Begin(c, poll))
                          /\ WF_vars(\E poll \in BOOLEAN : Again(c, poll))

FairSpec == Spec /\ Fairness

----------------------------------------------------------------------------
(* Properties                                                              *)

\* Types: the notifier is never ahead of the providers, nor they of the
\* database, nor a stream of the notifier, and a request that waits holds a
\* listener (Advance(), ApplyUpdates(), GetListener()).
TypeOK ==
    /\ \A k \in Kinds : /\ currPos[k] \in 0 .. latest[k]
                        /\ latest[k] \in 0 .. Len(items[k])
                        /\ consumer[k] \in {"idle", "written", "advanced"}
    /\ mapped \subseteq Clients
    /\ \A c \in Clients :
          /\ streams[c] \in Tokens /\ ~IsAfter(streams[c], currPos)
          /\ numWaiting[c] \in 0 .. UintSize - 1 /\ garbage[c] \in 0 .. MaxGarbage
          /\ token[c] \in Tokens /\ ~IsAfter(token[c], [k \in Kinds |-> Len(items[k])])
          /\ req[c].pc \in {"idle", "read", "listen", "listening", "waiting",
                            "woken", "respond"}
          /\ req[c].pc \in {"listening", "waiting", "woken"} => req[c].held > 0

\* Nothing is skipped (OnIncomingSyncRequest(), the stream providers): a
\* token that a client holds is past no item for this client that it has not
\* been sent, however requests, consumers and restarts interleave.
NothingSkipped ==
    \A c \in Clients : \A k \in Kinds : \A n \in 1 .. token[c][k] :
       c \in items[k][n] => <<k, n>> \in delivered[c]

\* No wake-up is lost (GetNotifyChannel(), Broadcast()): nobody waits for
\* something that has already been announced to it after the token of its
\* request, although the position was read before the listener was obtained.
\* The exception is a request whose stream was removed from the map under
\* it, because the finalizer made the stream count one listener too few.
NoLostWakeUp ==
    \A c \in mapped : req[c].pc = "waiting" =>
       \A k \in Kinds : \A n \in req[c].since[k] + 1 .. currPos[k] : c \notin items[k][n]

\* What is written for a client reaches it in the end.
Delivered ==
    \A c \in Clients, k \in Kinds, n \in 1 .. MaxItems :
       (n <= Len(items[k]) /\ c \in items[k][n]) ~> <<k, n>> \in delivered[c]
=============================================================================
