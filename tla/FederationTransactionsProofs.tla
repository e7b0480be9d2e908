-------------------- MODULE FederationTransactionsProofs --------------------
(***************************************************************************)
(* What a sender and a receiver of transactions guarantee together for any *)
(* number of events, requests, lost answers and restarts.                  *)
(***************************************************************************)
EXTENDS FederationTransactions, SequenceTheorems, TLAPS

-----------------------------------------------------------------------------
(* Sequences                                                               *)

\* The front and the rest of a queue are queues with its elements.
LEMMA FirstRest ==
    ASSUME NEW S, NEW s \in Seq(S), NEW n \in Nat
    PROVE  /\ First(s, n) \in Seq(S) /\ Len(First(s, n)) <= Len(s)
           /\ \A i \in 1 .. Len(First(s, n)) : First(s, n)[i] = s[i]
           /\ n <= Len(s) => /\ Rest(s, n) \in Seq(S) /\ Len(Rest(s, n)) = Len(s) - n
                             /\ \A i \in 1 .. Len(s) - n : Rest(s, n)[i] = s[n + i]
<1>1. Len(s) \in Nat
  BY LenProperties
<1>2. \A i \in 1 .. Len(s) : s[i] \in S
  BY ElementOfSeq
<1> DEFINE k == IF Len(s) < n THEN Len(s) ELSE n
<1>3. k \in Nat /\ k <= Len(s)
  BY <1>1
<1>4. /\ First(s, n) \in Seq(S) /\ Len(First(s, n)) = k
      /\ \A i \in 1 .. k : First(s, n)[i] = s[i]
  <2>1. First(s, n) = SubSeq(s, 1, k)
    BY DEF First
  <2> HIDE DEF k
  <2>2. \A i \in 1 .. k : s[i] \in S
    BY <1>1, <1>2, <1>3
  <2>3. k \in 1 - 1 .. Len(s)
    BY <1>1, <1>3
  <2>. QED
    BY <2>1, <2>2, <2>3, <1>1, <1>3, SubSeqProperties, SMTT(20)
<1>5. ASSUME n <= Len(s)
      PROVE  /\ Rest(s, n) \in Seq(S) /\ Len(Rest(s, n)) = Len(s) - n
             /\ \A i \in 1 .. Len(s) - n : Rest(s, n)[i] = s[n + i]
  BY <1>1, <1>5, SubSeqProperties, SMTT(20) DEF Rest
<1>. QED
  BY <1>3, <1>4, <1>5

\* Taking the head off a queue keeps the rest of its elements.
LEMMA TailRange ==
    ASSUME NEW S, NEW s \in Seq(S), s # <<>>
    PROVE  /\ Tail(s) \in Seq(S) /\ Head(s) \in S
           /\ Range(s) \subseteq Range(Tail(s)) \cup {Head(s)}
<1>1. /\ Len(s) \in Nat /\ DOMAIN s = 1 .. Len(s)
      /\ Head(s) = s[1] /\ Head(s) \in S /\ Tail(s) \in Seq(S) /\ Len(Tail(s)) = Len(s) - 1
      /\ \A i \in 1 .. Len(Tail(s)) : Tail(s)[i] = s[i + 1]
  BY HeadTailProperties, LenProperties, EmptySeq
<1>2. DOMAIN Tail(s) = 1 .. Len(s) - 1
  BY <1>1, LenProperties
<1>3. ASSUME NEW i \in DOMAIN s, i # 1
      PROVE  s[i] \in Range(Tail(s))
  <2>1. i - 1 \in DOMAIN Tail(s) /\ Tail(s)[i - 1] = s[i]
    BY <1>1, <1>2, <1>3
  <2>. QED
    BY <2>1 DEF Range
<1>. QED
  BY <1>1, <1>3 DEF Range

-----------------------------------------------------------------------------
(* Types                                                                   *)

Steps   == {"sent", "wait", "process", "delete", "close", "answer", "done"}
Request == [txn : Nat, txnPDUs : Seq(PDUs), txnEDUs : Seq(EDUs), pdus : Seq(PDUs),
            edus : Seq(EDUs), pc : Steps, owner : Nat, res : Results \cup {NoResult}]
Channel == [res : {"ok", NoResult}, closed : BOOLEAN]

Receiver == /\ reqs \in Seq(Request) /\ chan \in Seq(Channel) /\ Len(chan) = Len(reqs)

Unique(s)   == \A i, j \in DOMAIN s : s[i] = s[j] => i = j
Front(p, s) == Len(p) <= Len(s) /\ \A i \in 1 .. Len(p) : s[i] = p[i]

\* The request the worker waits for holds the front of the queue.
Sender ==
    /\ pdus \in Seq(PDUs) /\ edus \in Seq(EDUs)
    /\ Unique(pdus) /\ Unique(edus)
    /\ (Range(pdus) \cup Range(edus)) \cap removed = {}
    /\ lastID \in Nat /\ txnID \in 0 .. lastID /\ call \in 0 .. Len(reqs)
    /\ call # 0 => /\ reqs[call].txn = txnID
                   /\ Front(reqs[call].txnPDUs, pdus) /\ Front(reqs[call].txnEDUs, edus)

\* The map and those who wait name requests.
Mapped ==
    /\ \A id \in DOMAIN inFlight : inFlight[id] \in DOMAIN reqs
    /\ \A r \in DOMAIN reqs : reqs[r].pc = "wait" => reqs[r].owner \in DOMAIN reqs

Typed == Receiver /\ Mapped /\ Sender

\* The steps of the receiver leave what requests hold as it is.
Kept ==
    /\ Len(reqs') = Len(reqs)
    /\ \A r \in 1 .. Len(reqs) : /\ reqs'[r].txn = reqs[r].txn
                                 /\ reqs'[r].txnPDUs = reqs[r].txnPDUs
                                 /\ reqs'[r].txnEDUs = reqs[r].txnEDUs

\* Before the first request there is nothing to type.
LEMMA ReceiverInit == Init => Receiver
BY DEF Init, Receiver

\* One request and no other goes on.
Changed(r) == /\ DOMAIN reqs' = DOMAIN reqs
              /\ \A s \in DOMAIN reqs : s # r => reqs'[s] = reqs[s]

\* A request that goes on as q.
LEMMA Update ==
    ASSUME Receiver, NEW r \in DOMAIN reqs, NEW q \in Request,
           reqs' = [reqs EXCEPT ![r] = q],
           q.txn = reqs[r].txn, q.txnPDUs = reqs[r].txnPDUs, q.txnEDUs = reqs[r].txnEDUs
    PROVE  /\ reqs' \in Seq(Request) /\ Kept /\ Changed(r)
           /\ reqs'[r] = q
<1>1. DOMAIN reqs = 1 .. Len(reqs) /\ Len(reqs) \in Nat
  BY LenProperties DEF Receiver
<1>2. reqs' \in Seq(Request) /\ Len(reqs') = Len(reqs)
  BY ExceptSeq DEF Receiver
<1>3. DOMAIN reqs' = DOMAIN reqs /\ reqs'[r] = q
      /\ \A s \in DOMAIN reqs : s # r => reqs'[s] = reqs[s]
  BY <1>1
<1>. QED
  BY <1>1, <1>2, <1>3 DEF Kept, Changed

\* What a step of request r makes of it.
To(r, pc, owner, res, p, e) ==
    /\ reqs' \in Seq(Request) /\ Kept /\ Changed(r)
    /\ reqs'[r].pc = pc /\ reqs'[r].owner = owner /\ reqs'[r].res = res
    /\ reqs'[r].pdus = p /\ reqs'[r].edus = e

\* The steps of a request, one by one.
LEMMA RequestSteps ==
    ASSUME Receiver, NEW r \in DOMAIN reqs
    PROVE  LET q == reqs[r] IN
           /\ LoadOrStore(r) =>
                IF q.txn \in DOMAIN inFlight
                THEN inFlight[q.txn] \in Nat =>
                       To(r, "wait", inFlight[q.txn], q.res, q.pdus, q.edus)
                ELSE To(r, "process", q.owner, q.res, q.pdus, q.edus)
           /\ Receive(r) => \/ chan[q.owner].res = NoResult /\ To(r, "answer", q.owner, "accepted", q.pdus, q.edus)
                            \/ chan[q.owner].res = "ok" /\ To(r, "answer", q.owner, "ok", q.pdus, q.edus)
                            \/ q.owner \notin DOMAIN reqs
           /\ GiveUp(r) => To(r, "answer", q.owner, "timeout", q.pdus, q.edus)
           /\ ProcessPDU(r) => To(r, "process", q.owner, q.res, Tail(q.pdus), q.edus)
           /\ RefuseAll(r) => To(r, "delete", q.owner, "bad", q.pdus, q.edus)
           /\ ProcessEDU(r) => To(r, q.pc, q.owner, q.res, q.pdus, Tail(q.edus))
           /\ Processed(r) => To(r, "delete", q.owner, "ok", q.pdus, q.edus)
           /\ Delete(r) => To(r, "close", q.owner, q.res, q.pdus, q.edus)
           /\ Close(r) => To(r, "answer", q.owner, q.res, q.pdus, q.edus)
           /\ Answer(r) => To(r, "done", q.owner, q.res, q.pdus, q.edus)
<1> DEFINE q == reqs[r]
<1>1. DOMAIN reqs = 1 .. Len(reqs) /\ Len(reqs) \in Nat /\ q \in Request
      /\ reqs \in [1 .. Len(reqs) -> Request]
  BY LenProperties, ElementOfSeq DEF Receiver
<1>2. ASSUME NEW pc \in Steps, NEW owner \in Nat, NEW res \in Results \cup {NoResult},
             NEW p \in Seq(PDUs), NEW e \in Seq(EDUs),
             reqs' = [reqs EXCEPT ![r] = [q EXCEPT !.pc = pc, !.owner = owner, !.res = res,
                                                   !.pdus = p, !.edus = e]]
      PROVE  To(r, pc, owner, res, p, e)
  <2> DEFINE n == [q EXCEPT !.pc = pc, !.owner = owner, !.res = res, !.pdus = p, !.edus = e]
  <2>1. /\ n \in Request /\ n.txn = q.txn /\ n.txnPDUs = q.txnPDUs /\ n.txnEDUs = q.txnEDUs
        /\ n.pc = pc /\ n.owner = owner /\ n.res = res /\ n.pdus = p /\ n.edus = e
    BY <1>1 DEF Request
  <2> HIDE DEF n
  <2>2. reqs' = [reqs EXCEPT ![r] = n]
    BY <1>2 DEF n
  <2>. QED
    BY <2>1, <2>2, Update DEF To
<1>3. /\ q.pc \in Steps /\ q.owner \in Nat /\ q.res \in Results \cup {NoResult}
      /\ q.pdus \in Seq(PDUs) /\ q.edus \in Seq(EDUs)
  BY <1>1 DEF Request
<1>4. /\ Steps = {"sent", "wait", "process", "delete", "close", "answer", "done"}
      /\ {"ok", "accepted", "bad", "timeout"} \subseteq Results
  BY DEF Steps, Results, Success
<1>5. ASSUME NEW pc, reqs' = Go(r, pc)
      PROVE  reqs' = [reqs EXCEPT ![r] = [q EXCEPT !.pc = pc, !.owner = q.owner, !.res = q.res,
                                                   !.pdus = q.pdus, !.edus = q.edus]]
  BY <1>1, <1>5 DEF Go, Request
<1>6. ASSUME NEW res, reqs' = Finish(r, res)
      PROVE  reqs' = [reqs EXCEPT ![r] = [q EXCEPT !.pc = "answer", !.owner = q.owner, !.res = res,
                                                   !.pdus = q.pdus, !.edus = q.edus]]
  BY <1>1, <1>6 DEF Finish, Request
<1>7. ASSUME NEW owner, reqs' = [reqs EXCEPT ![r].pc = "wait", ![r].owner = owner]
      PROVE  reqs' = [reqs EXCEPT ![r] = [q EXCEPT !.pc = "wait", !.owner = owner, !.res = q.res,
                                                   !.pdus = q.pdus, !.edus = q.edus]]
  BY <1>1, <1>7 DEF Request
<1>8. ASSUME NEW res, reqs' = [reqs EXCEPT ![r].pc = "delete", ![r].res = res]
      PROVE  reqs' = [reqs EXCEPT ![r] = [q EXCEPT !.pc = "delete", !.owner = q.owner, !.res = res,
                                                   !.pdus = q.pdus, !.edus = q.edus]]
  BY <1>1, <1>8 DEF Request
<1>9. ASSUME NEW p, reqs' = [reqs EXCEPT ![r].pdus = p]
      PROVE  reqs' = [reqs EXCEPT ![r] = [q EXCEPT !.pc = q.pc, !.owner = q.owner, !.res = q.res,
                                                   !.pdus = p, !.edus = q.edus]]
  BY <1>1, <1>9 DEF Request
<1>10. ASSUME NEW e, reqs' = [reqs EXCEPT ![r].edus = e]
      PROVE  reqs' = [reqs EXCEPT ![r] = [q EXCEPT !.pc = q.pc, !.owner = q.owner, !.res = q.res,
                                                   !.pdus = q.pdus, !.edus = e]]
  BY <1>1, <1>10 DEF Request
<1>11. ASSUME q.owner \in DOMAIN reqs
       PROVE  chan[q.owner].res \in {"ok", NoResult}
  <2>1. q.owner \in 1 .. Len(chan)
    BY <1>1, <1>11 DEF Receiver
  <2>2. chan[q.owner] \in Channel
    BY <2>1, ElementOfSeq DEF Receiver
  <2>. QED
    BY <2>2 DEF Channel
<1> HIDE DEF q
<1>12. ASSUME LoadOrStore(r), q.txn \in DOMAIN inFlight, inFlight[q.txn] \in Nat
       PROVE  To(r, "wait", inFlight[q.txn], q.res, q.pdus, q.edus)
  BY <1>2, <1>3, <1>4, <1>7, <1>12 DEF LoadOrStore, q
<1>13. ASSUME LoadOrStore(r), q.txn \notin DOMAIN inFlight
       PROVE  To(r, "process", q.owner, q.res, q.pdus, q.edus)
  BY <1>2, <1>3, <1>4, <1>5, <1>13 DEF LoadOrStore, q
<1>14. ASSUME Receive(r), chan[q.owner].res = NoResult
       PROVE  To(r, "answer", q.owner, "accepted", q.pdus, q.edus)
  BY <1>2, <1>3, <1>4, <1>6, <1>14 DEF Receive, q
<1>15. ASSUME Receive(r), chan[q.owner].res = "ok"
       PROVE  To(r, "answer", q.owner, "ok", q.pdus, q.edus)
  BY <1>2, <1>3, <1>4, <1>6, <1>15 DEF Receive, q, NoResult
<1>16. ASSUME GiveUp(r)
       PROVE  To(r, "answer", q.owner, "timeout", q.pdus, q.edus)
  BY <1>2, <1>3, <1>4, <1>6, <1>16 DEF GiveUp
<1>17. ASSUME ProcessPDU(r)
       PROVE  To(r, "process", q.owner, q.res, Tail(q.pdus), q.edus)
  <2>1. Tail(q.pdus) \in Seq(PDUs)
    BY <1>3, <1>17, TailRange DEF ProcessPDU, q
  <2>. QED
    BY <1>2, <1>3, <1>4, <1>9, <1>17, <2>1 DEF ProcessPDU, q
<1>18. ASSUME RefuseAll(r)
       PROVE  To(r, "delete", q.owner, "bad", q.pdus, q.edus)
  BY <1>2, <1>3, <1>4, <1>8, <1>18 DEF RefuseAll
<1>19. ASSUME ProcessEDU(r)
       PROVE  To(r, q.pc, q.owner, q.res, q.pdus, Tail(q.edus))
  <2>1. Tail(q.edus) \in Seq(EDUs)
    BY <1>3, <1>19, TailRange DEF ProcessEDU, q
  <2>. QED
    BY <1>2, <1>3, <1>4, <1>10, <1>19, <2>1 DEF ProcessEDU, q
<1>20. ASSUME Processed(r)
       PROVE  To(r, "delete", q.owner, "ok", q.pdus, q.edus)
  BY <1>2, <1>3, <1>4, <1>8, <1>20 DEF Processed
<1>21. ASSUME Delete(r)
       PROVE  To(r, "close", q.owner, q.res, q.pdus, q.edus)
  BY <1>2, <1>3, <1>4, <1>5, <1>21 DEF Delete
<1>22. ASSUME Close(r)
       PROVE  To(r, "answer", q.owner, q.res, q.pdus, q.edus)
  BY <1>2, <1>3, <1>4, <1>5, <1>22 DEF Close
<1>23. ASSUME Answer(r)
       PROVE  To(r, "done", q.owner, q.res, q.pdus, q.edus)
  BY <1>2, <1>3, <1>4, <1>5, <1>23 DEF Answer
<1>. QED
  BY <1>11, <1>12, <1>13, <1>14, <1>15, <1>16, <1>17, <1>18, <1>19, <1>20, <1>21, <1>22, <1>23
     DEF q

\* A restart of the receiver ends all requests that have arrived.
LEMMA RestartStep ==
    ASSUME Receiver, RestartReceiver
    PROVE  /\ Receiver' /\ Kept
           /\ \A r \in DOMAIN reqs :
                 /\ reqs[r].pc = "sent" => reqs'[r] = reqs[r]
                 /\ reqs[r].pc # "sent" =>
                       /\ reqs'[r].pc = "done" /\ reqs'[r].owner = reqs[r].owner
                       /\ reqs'[r].res = reqs[r].res
<1>1. DOMAIN reqs = 1 .. Len(reqs) /\ Len(reqs) \in Nat /\ reqs \in [1 .. Len(reqs) -> Request]
  BY LenProperties DEF Receiver
<1>2. <<>> \in Seq(EDUs) /\ "done" \in Steps
  BY DEF Steps
<1>3. ASSUME NEW r \in DOMAIN reqs
      PROVE  LET n == [reqs[r] EXCEPT !.pc = "done", !.edus = <<>>] IN
             /\ n \in Request /\ n.pc = "done" /\ n.owner = reqs[r].owner /\ n.res = reqs[r].res
             /\ n.txn = reqs[r].txn /\ n.txnPDUs = reqs[r].txnPDUs /\ n.txnEDUs = reqs[r].txnEDUs
  BY <1>1, <1>2 DEF Request
<1>4. \A r \in DOMAIN reqs : reqs'[r] = IF reqs[r].pc = "sent" THEN reqs[r]
                                        ELSE [reqs[r] EXCEPT !.pc = "done", !.edus = <<>>]
  BY DEF RestartReceiver
<1>5. reqs' \in [1 .. Len(reqs) -> Request]
  <2>1. \A r \in 1 .. Len(reqs) : (IF reqs[r].pc = "sent" THEN reqs[r]
                                   ELSE [reqs[r] EXCEPT !.pc = "done", !.edus = <<>>]) \in Request
    BY <1>1, <1>3
  <2>2. reqs' = [r \in 1 .. Len(reqs) |-> IF reqs[r].pc = "sent" THEN reqs[r]
                                          ELSE [reqs[r] EXCEPT !.pc = "done", !.edus = <<>>]]
    BY <1>1 DEF RestartReceiver
  <2>. QED
    BY <2>1, <2>2
<1>6. reqs' \in Seq(Request) /\ Len(reqs') = Len(reqs)
  BY <1>1, <1>5
<1>. QED
  BY <1>1, <1>3, <1>4, <1>6 DEF Receiver, Kept, RestartReceiver

\* A new request holds the front of the queue.
LEMMA SendStep ==
    ASSUME Typed, SendTransaction
    PROVE  LET n == reqs'[Len(reqs')] IN
           /\ Receiver' /\ Len(reqs') = Len(reqs) + 1
           /\ \A r \in DOMAIN reqs : reqs'[r] = reqs[r] /\ chan'[r] = chan[r]
           /\ n.pc = "sent" /\ n.owner = 0 /\ n.res = NoResult /\ n.txn = txnID'
           /\ n.pdus = n.txnPDUs /\ n.edus = n.txnEDUs
           /\ Front(n.txnPDUs, pdus) /\ Front(n.txnEDUs, edus)
           /\ chan'[Len(reqs')] = [res |-> NoResult, closed |-> FALSE]
           /\ txnID' \in 0 .. lastID' /\ lastID' \in Nat /\ call' = Len(reqs')
<1> DEFINE p  == First(pdus, MaxPDUsPerTransaction)
           e  == First(edus, MaxEDUsPerTransaction)
           id == IF txnID = 0 THEN lastID + 1 ELSE txnID
           n  == [txn |-> id, txnPDUs |-> p, txnEDUs |-> e, pdus |-> p,
                  edus |-> e, pc |-> "sent", owner |-> 0, res |-> NoResult]
           c  == [res |-> NoResult, closed |-> FALSE]
<1>1. p \in Seq(PDUs) /\ e \in Seq(EDUs) /\ Front(p, pdus) /\ Front(e, edus)
  BY FirstRest, LimitsAssumption DEF Typed, Sender, Front
<1>2. id \in Nat
  BY DEF Typed, Sender
<1> HIDE DEF p, e, id
<1>3. n \in Request /\ c \in Channel
  BY <1>1, <1>2 DEF Request, Channel, Steps
<1>4. reqs' = Append(reqs, n) /\ chan' = Append(chan, c) /\ txnID' = id /\ call' = Len(reqs) + 1
  BY DEF SendTransaction, p, e, id
<1>5. txnID' \in 0 .. lastID' /\ lastID' \in Nat
  BY DEF SendTransaction, Typed, Sender
<1>6. /\ n.pc = "sent" /\ n.owner = 0 /\ n.res = NoResult /\ n.txn = id
      /\ n.pdus = n.txnPDUs /\ n.edus = n.txnEDUs /\ n.txnPDUs = p /\ n.txnEDUs = e
  OBVIOUS
<1> HIDE DEF n, c
<1>7. /\ reqs' \in Seq(Request) /\ Len(reqs') = Len(reqs) + 1 /\ reqs'[Len(reqs')] = n
      /\ \A r \in 1 .. Len(reqs) : reqs'[r] = reqs[r]
  BY <1>3, <1>4, AppendProperties DEF Typed, Receiver
<1>8. /\ chan' \in Seq(Channel) /\ Len(chan') = Len(reqs) + 1 /\ chan'[Len(reqs')] = c
      /\ \A r \in 1 .. Len(reqs) : chan'[r] = chan[r]
  BY <1>3, <1>4, <1>7, AppendProperties DEF Typed, Receiver
<1>9. DOMAIN reqs = 1 .. Len(reqs)
  BY LenProperties DEF Typed, Receiver
<1>. QED
  BY <1>1, <1>4, <1>5, <1>6, <1>7, <1>8, <1>9 DEF Receiver, c

\* A channel that changes stays one.
LEMMA ChanStep ==
    ASSUME Receiver, NEW r \in DOMAIN reqs,
           \/ chan' = [chan EXCEPT ![r].res = NoResult]
           \/ chan' = [chan EXCEPT ![r].res = "ok"]
           \/ chan' = [chan EXCEPT ![r].closed = TRUE]
    PROVE  /\ chan' \in Seq(Channel) /\ Len(chan') = Len(chan)
           /\ \A s \in DOMAIN reqs : s # r => chan'[s] = chan[s]
<1>1. DOMAIN reqs = 1 .. Len(chan) /\ Len(chan) \in Nat /\ chan \in [1 .. Len(chan) -> Channel]
  BY LenProperties DEF Receiver
<1>2. PICK c \in Channel : chan' = [chan EXCEPT ![r] = c]
  <2>1. chan[r] \in Channel
    BY <1>1
  <2>2. /\ [chan[r] EXCEPT !.res = NoResult] \in Channel
        /\ [chan[r] EXCEPT !.res = "ok"] \in Channel
        /\ [chan[r] EXCEPT !.closed = TRUE] \in Channel
    BY <2>1 DEF Channel
  <2>. QED
    BY <2>2
<1>3. /\ chan' \in Seq(Channel) /\ Len(chan') = Len(chan)
      /\ \A j \in 1 .. Len(chan) : chan'[j] = IF j = r THEN c ELSE chan[j]
  BY <1>1, <1>2, ExceptSeq DEF Receiver
<1>. QED
  BY <1>1, <1>3

\* The receiver's state stays well-formed.
LEMMA ReceiverNext == Typed /\ [Next]_vars => (Receiver /\ Mapped)'
<1> SUFFICES ASSUME Typed, [Next]_vars
             PROVE  (Receiver /\ Mapped)'
  OBVIOUS
<1>0. Receiver /\ Mapped /\ DOMAIN reqs = 1 .. Len(reqs) /\ Len(reqs) \in Nat
  BY LenProperties DEF Typed, Receiver
<1>1. ASSUME UNCHANGED <<reqs, chan, inFlight>>
      PROVE  (Receiver /\ Mapped)'
  BY <1>0, <1>1 DEF Receiver, Mapped
<1>2. CASE SendTransaction
  <2>1. /\ Receiver' /\ Len(reqs') = Len(reqs) + 1
        /\ \A r \in DOMAIN reqs : reqs'[r] = reqs[r]
        /\ reqs'[Len(reqs')].pc = "sent"
    BY <1>2, SendStep
  <2>2. DOMAIN reqs' = 1 .. Len(reqs')
    BY <2>1, LenProperties DEF Receiver
  <2>3. inFlight' = inFlight
    BY <1>2 DEF SendTransaction
  <2>. QED
    BY <1>0, <2>1, <2>2, <2>3 DEF Mapped
<1>3. CASE RestartReceiver
  <2>1. DOMAIN inFlight' = {}
    BY <1>3 DEF RestartReceiver
  <2>2. Receiver' /\ DOMAIN reqs' = DOMAIN reqs
    BY <1>0, <1>3, RestartStep DEF RestartReceiver
  <2>. QED
    BY <1>0, <1>3, <2>1, <2>2, RestartStep DEF Mapped
<1>4. ASSUME NEW r \in DOMAIN reqs, NEW pc, NEW owner, NEW res, NEW p, NEW e,
             To(r, pc, owner, res, p, e), pc = "wait" => owner \in DOMAIN reqs,
             \/ chan' = chan
             \/ \E o \in DOMAIN reqs : \/ chan' = [chan EXCEPT ![o].res = NoResult]
                                       \/ chan' = [chan EXCEPT ![o].res = "ok"]
                                       \/ chan' = [chan EXCEPT ![o].closed = TRUE],
             \A id \in DOMAIN inFlight' : inFlight'[id] \in DOMAIN reqs
      PROVE  (Receiver /\ Mapped)'
  <2>1. chan' \in Seq(Channel) /\ Len(chan') = Len(chan)
    BY <1>0, <1>4, ChanStep DEF Receiver
  <2>2. reqs' \in Seq(Request) /\ Len(reqs') = Len(reqs) /\ DOMAIN reqs' = DOMAIN reqs
    BY <1>4 DEF To, Kept, Changed
  <2>3. Receiver'
    BY <1>0, <2>1, <2>2 DEF Receiver
  <2>. QED
    BY <1>0, <1>4, <2>2, <2>3 DEF Mapped, To, Changed
<1>5. ASSUME NEW r \in DOMAIN reqs, Handle(r) \/ GiveUp(r)
      PROVE  (Receiver /\ Mapped)'
  <2> DEFINE q == reqs[r]
  <2>0. /\ \A id \in DOMAIN inFlight : inFlight[id] \in DOMAIN reqs
        /\ q.pc = "wait" => q.owner \in DOMAIN reqs
    BY <1>0 DEF Mapped
  <2>1. CASE LoadOrStore(r)
    <3>1. CASE q.txn \in DOMAIN inFlight
      <4>1. inFlight' = inFlight /\ chan' = chan /\ inFlight[q.txn] \in DOMAIN reqs
        BY <2>0, <2>1, <3>1 DEF LoadOrStore
      <4>2. To(r, "wait", inFlight[q.txn], q.res, q.pdus, q.edus)
        BY <1>0, <2>1, <3>1, <4>1, RequestSteps
      <4>. QED
        BY <1>4, <2>0, <4>1, <4>2
    <3>2. CASE q.txn \notin DOMAIN inFlight
      <4>1. chan' = chan /\ \A id \in DOMAIN inFlight' : inFlight'[id] \in DOMAIN reqs
        BY <2>0, <2>1, <3>2 DEF LoadOrStore
      <4>2. To(r, "process", q.owner, q.res, q.pdus, q.edus)
        BY <1>0, <2>1, <3>2, RequestSteps
      <4>. QED
        BY <1>4, <4>1, <4>2
    <3>. QED
      BY <3>1, <3>2
  <2>2. CASE Receive(r)
    <3>1. q.owner \in DOMAIN reqs /\ inFlight' = inFlight
          /\ chan' = [chan EXCEPT ![q.owner].res = NoResult]
      BY <2>0, <2>2 DEF Receive
    <3>2. \E res : To(r, "answer", q.owner, res, q.pdus, q.edus)
      BY <1>0, <2>2, <3>1, RequestSteps
    <3>. QED
      BY <1>4, <2>0, <3>1, <3>2
  <2>3. CASE GiveUp(r)
    <3>1. To(r, "answer", q.owner, "timeout", q.pdus, q.edus)
      BY <1>0, <2>3, RequestSteps
    <3>2. chan' = chan /\ inFlight' = inFlight
      BY <2>3 DEF GiveUp, receiver
    <3>. QED
      BY <1>4, <2>0, <3>1, <3>2
  <2>4. CASE ProcessPDU(r)
    <3>1. To(r, "process", q.owner, q.res, Tail(q.pdus), q.edus)
      BY <1>0, <2>4, RequestSteps
    <3>2. chan' = chan /\ inFlight' = inFlight
      BY <2>4 DEF ProcessPDU
    <3>. QED
      BY <1>4, <2>0, <3>1, <3>2
  <2>5. CASE RefuseAll(r)
    <3>1. To(r, "delete", q.owner, "bad", q.pdus, q.edus)
      BY <1>0, <2>5, RequestSteps
    <3>2. chan' = chan /\ inFlight' = inFlight
      BY <2>5 DEF RefuseAll, receiver
    <3>. QED
      BY <1>4, <2>0, <3>1, <3>2
  <2>6. CASE ProcessEDU(r)
    <3>1. To(r, q.pc, q.owner, q.res, q.pdus, Tail(q.edus))
      BY <1>0, <2>6, RequestSteps
    <3>2. chan' = chan /\ inFlight' = inFlight
      BY <2>6 DEF ProcessEDU
    <3>. QED
      BY <1>4, <2>0, <3>1, <3>2
  <2>7. CASE Processed(r)
    <3>1. To(r, "delete", q.owner, "ok", q.pdus, q.edus)
      BY <1>0, <2>7, RequestSteps
    <3>2. chan' = [chan EXCEPT ![r].res = "ok"] /\ inFlight' = inFlight
      BY <2>7 DEF Processed
    <3>. QED
      BY <1>4, <2>0, <3>1, <3>2
  <2>8. CASE Delete(r)
    <3>1. To(r, "close", q.owner, q.res, q.pdus, q.edus)
      BY <1>0, <2>8, RequestSteps
    <3>2. chan' = chan /\ \A id \in DOMAIN inFlight' : inFlight'[id] \in DOMAIN reqs
      BY <2>0, <2>8 DEF Delete
    <3>. QED
      BY <1>4, <3>1, <3>2
  <2>9. CASE Close(r)
    <3>1. To(r, "answer", q.owner, q.res, q.pdus, q.edus)
      BY <1>0, <2>9, RequestSteps
    <3>2. chan' = [chan EXCEPT ![r].closed = TRUE] /\ inFlight' = inFlight
      BY <2>9 DEF Close
    <3>. QED
      BY <1>4, <2>0, <3>1, <3>2
  <2>10. CASE Answer(r)
    <3>1. To(r, "done", q.owner, q.res, q.pdus, q.edus)
      BY <1>0, <2>10, RequestSteps
    <3>2. chan' = chan /\ inFlight' = inFlight
      BY <2>10 DEF Answer, receiver
    <3>. QED
      BY <1>4, <2>0, <3>1, <3>2
  <2>. QED
    BY <1>5, <2>1, <2>2, <2>3, <2>4, <2>5, <2>6, <2>7, <2>8, <2>9, <2>10 DEF Handle
<1>. QED
  BY <1>1, <1>2, <1>3, <1>5
     DEF Next, Queue, Disconnect, RestartSender, receiver, vars

\* What the worker cleans is the front of its queue and nothing else.
LEMMA Cleaned ==
    ASSUME NEW S, NEW s \in Seq(S), NEW p \in Seq(S), Unique(s), Front(p, s)
    PROVE  LET t == Rest(s, Len(p)) IN
           /\ t \in Seq(S) /\ Unique(t)
           /\ Range(t) \subseteq Range(s) /\ Range(t) \cap Range(p) = {}
<1> DEFINE n == Len(p)
           t == Rest(s, n)
<1>1. /\ n \in Nat /\ Len(s) \in Nat /\ n <= Len(s)
      /\ DOMAIN s = 1 .. Len(s) /\ DOMAIN p = 1 .. n
  BY LenProperties DEF Front
<1>2. /\ t \in Seq(S) /\ Len(t) = Len(s) - n
      /\ \A i \in 1 .. Len(s) - n : t[i] = s[n + i]
  BY <1>1, FirstRest
<1>3. DOMAIN t = 1 .. Len(s) - n
  BY <1>2, LenProperties
<1>0. n = Len(p)
  OBVIOUS
<1> HIDE DEF n, t
<1>4. ASSUME NEW i \in DOMAIN t, NEW j \in DOMAIN t, t[i] = t[j]
      PROVE  i = j
  <2>1. n + i \in DOMAIN s /\ n + j \in DOMAIN s /\ s[n + i] = s[n + j]
    BY <1>1, <1>2, <1>3, <1>4
  <2>2. n + i = n + j
    BY <2>1 DEF Unique
  <2>. QED
    BY <1>1, <1>3, <2>2
<1>5. ASSUME NEW i \in DOMAIN t
      PROVE  t[i] \in Range(s) /\ t[i] \notin Range(p)
  <2>1. n + i \in DOMAIN s /\ t[i] = s[n + i] /\ n + i > n
    BY <1>1, <1>2, <1>3
  <2>2. ASSUME NEW j \in DOMAIN p, p[j] = t[i]
        PROVE  FALSE
    <3>1. j \in DOMAIN s /\ s[j] = p[j] /\ j <= n
      BY <1>0, <1>1 DEF Front
    <3>2. j = n + i
      BY <2>1, <2>2, <3>1 DEF Unique
    <3>. QED
      BY <1>1, <2>1, <3>1, <3>2
  <2>. QED
    BY <2>1, <2>2 DEF Range
<1>. QED
  BY <1>2, <1>4, <1>5 DEF Unique, Range, t, n

\* The sender's state stays well-formed.
LEMMA SenderNext == Typed /\ [Next]_vars => Sender'
<1> SUFFICES ASSUME Typed, [Next]_vars
             PROVE  Sender'
  OBVIOUS
<1>0. /\ Receiver /\ Sender /\ DOMAIN reqs = 1 .. Len(reqs) /\ Len(reqs) \in Nat
      /\ pdus \in Seq(PDUs) /\ edus \in Seq(EDUs) /\ lastID \in Nat
      /\ \A r \in DOMAIN reqs : reqs[r] \in Request
  BY LenProperties, ElementOfSeq DEF Typed, Receiver, Sender
<1>1. ASSUME UNCHANGED <<sender, removed>>, Kept
      PROVE  Sender'
  BY <1>0, <1>1 DEF Sender, sender, Kept
<1>2. CASE SendTransaction
  <2>1. UNCHANGED <<pdus, edus, removed>>
    BY <1>2 DEF SendTransaction, history
  <2>2. /\ Len(reqs') = Len(reqs) + 1 /\ call' = Len(reqs')
        /\ txnID' \in 0 .. lastID' /\ lastID' \in Nat
        /\ reqs'[Len(reqs')].txn = txnID'
        /\ Front(reqs'[Len(reqs')].txnPDUs, pdus) /\ Front(reqs'[Len(reqs')].txnEDUs, edus)
    BY <1>2, SendStep
  <2>. QED
    BY <1>0, <2>1, <2>2 DEF Sender
<1>3. ASSUME NEW i \in Items, Queue(i)
      PROVE  Sender'
  <2>1. /\ i \notin removed /\ i \notin Range(pdus) /\ i \notin Range(edus)
        /\ UNCHANGED <<txnID, lastID, call, reqs, removed>>
        /\ i \in PDUs => pdus' = Append(pdus, i)
        /\ i \notin PDUs => pdus' = pdus
        /\ i \in EDUs => edus' = Append(edus, i)
        /\ i \notin EDUs => edus' = edus
    BY <1>3 DEF Queue, history
  <2>2. ASSUME NEW S, NEW s \in Seq(S), i \in S, i \notin Range(s), Unique(s)
        PROVE  /\ Append(s, i) \in Seq(S) /\ Unique(Append(s, i))
               /\ Range(Append(s, i)) \subseteq Range(s) \cup {i}
               /\ \A p \in Seq(S) : Front(p, s) => Front(p, Append(s, i))
    <3>1. /\ Append(s, i) \in Seq(S) /\ Len(Append(s, i)) = Len(s) + 1
          /\ \A k \in 1 .. Len(s) : Append(s, i)[k] = s[k]
          /\ Append(s, i)[Len(s) + 1] = i
      BY <2>2, AppendProperties
    <3>2. Len(s) \in Nat /\ DOMAIN s = 1 .. Len(s) /\ DOMAIN Append(s, i) = 1 .. Len(s) + 1
      BY <3>1, LenProperties
    <3>3. \A k \in DOMAIN s : s[k] # i
      BY <2>2 DEF Range
    <3>4. Unique(Append(s, i))
      BY <2>2, <3>1, <3>2, <3>3 DEF Unique
    <3>5. ASSUME NEW k \in DOMAIN Append(s, i)
          PROVE  Append(s, i)[k] \in Range(s) \cup {i}
      BY <3>1, <3>2 DEF Range
    <3>6. ASSUME NEW p \in Seq(S), Front(p, s)
          PROVE  Front(p, Append(s, i))
      <4>1. Len(p) \in Nat
        BY LenProperties
      <4>. QED
        BY <3>1, <3>2, <3>6, <4>1 DEF Front
    <3>7. Range(Append(s, i)) \subseteq Range(s) \cup {i}
      BY <3>5 DEF Range
    <3>. QED
      BY <3>1, <3>4, <3>6, <3>7
  <2>3. /\ pdus' \in Seq(PDUs) /\ Unique(pdus') /\ Range(pdus') \subseteq Range(pdus) \cup {i}
        /\ \A p \in Seq(PDUs) : Front(p, pdus) => Front(p, pdus')
    <3>1. Unique(pdus)
      BY <1>0 DEF Sender
    <3>2. CASE i \in PDUs
      BY <1>0, <2>1, <2>2, <3>1, <3>2
    <3>3. CASE i \notin PDUs
      BY <1>0, <2>1, <3>1, <3>3
    <3>. QED
      BY <3>2, <3>3
  <2>4. /\ edus' \in Seq(EDUs) /\ Unique(edus') /\ Range(edus') \subseteq Range(edus) \cup {i}
        /\ \A p \in Seq(EDUs) : Front(p, edus) => Front(p, edus')
    <3>1. Unique(edus)
      BY <1>0 DEF Sender
    <3>2. CASE i \in EDUs
      BY <1>0, <2>1, <2>2, <3>1, <3>2
    <3>3. CASE i \notin EDUs
      BY <1>0, <2>1, <3>1, <3>3
    <3>. QED
      BY <3>2, <3>3
  <2>5. call # 0 => reqs[call].txnPDUs \in Seq(PDUs) /\ reqs[call].txnEDUs \in Seq(EDUs)
    BY <1>0 DEF Sender, Request
  <2>6. (Range(pdus') \cup Range(edus')) \cap removed = {}
    BY <1>0, <2>1, <2>3, <2>4 DEF Sender
  <2>. QED
    BY <1>0, <2>1, <2>3, <2>4, <2>5, <2>6 DEF Sender
<1>4. CASE Disconnect \/ RestartSender
  BY <1>0, <1>4 DEF Disconnect, RestartSender, Sender, history
<1>5. CASE RestartReceiver
  BY <1>0, <1>1, <1>5, RestartStep DEF RestartReceiver, history
<1>6. ASSUME NEW r \in DOMAIN reqs, Answer(r)
      PROVE  Sender'
  <2> DEFINE q == reqs[r]
             clean == call = r /\ q.res \in Success
  <2>1. Kept
    BY <1>0, <1>6, RequestSteps DEF To
  <2>2. CASE ~clean
    <3>1. /\ UNCHANGED <<pdus, edus, txnID, lastID, removed>>
          /\ call' = IF call = r THEN 0 ELSE call
      BY <1>6, <2>2 DEF Answer
    <3>. QED
      BY <1>0, <2>1, <3>1 DEF Sender, Kept
  <2>3. CASE clean
    <3>1. /\ pdus' = Rest(pdus, Len(q.txnPDUs)) /\ edus' = Rest(edus, Len(q.txnEDUs))
          /\ removed' = removed \cup Batch(q) /\ txnID' = 0 /\ call' = 0 /\ lastID' = lastID
      BY <1>6, <2>3 DEF Answer
    <3>2. /\ q.txnPDUs \in Seq(PDUs) /\ q.txnEDUs \in Seq(EDUs)
          /\ Front(q.txnPDUs, pdus) /\ Front(q.txnEDUs, edus) /\ call # 0
      BY <1>0, <2>3 DEF Sender, Request
    <3>3. /\ pdus' \in Seq(PDUs) /\ Unique(pdus') /\ Range(pdus') \subseteq Range(pdus)
          /\ Range(pdus') \cap Range(q.txnPDUs) = {}
      BY <1>0, <3>1, <3>2, Cleaned DEF Sender
    <3>4. /\ edus' \in Seq(EDUs) /\ Unique(edus') /\ Range(edus') \subseteq Range(edus)
          /\ Range(edus') \cap Range(q.txnEDUs) = {}
      BY <1>0, <3>1, <3>2, Cleaned DEF Sender
    <3>5. /\ Range(pdus') \subseteq PDUs /\ Range(q.txnPDUs) \subseteq PDUs
          /\ Range(edus') \subseteq EDUs /\ Range(q.txnEDUs) \subseteq EDUs
      BY <3>2, <3>3, <3>4, LenProperties DEF Range
    <3>6. (Range(pdus') \cup Range(edus')) \cap removed' = {}
      BY <1>0, <3>1, <3>3, <3>4, <3>5, KindsAssumption DEF Batch, Sender
    <3>. QED
      BY <1>0, <2>1, <3>1, <3>3, <3>4, <3>6 DEF Sender, Kept
  <2>. QED
    BY <2>2, <2>3
<1>7. ASSUME NEW r \in DOMAIN reqs, Handle(r) \/ GiveUp(r), ~Answer(r)
      PROVE  Sender'
  <2>1. UNCHANGED <<sender, removed>>
    BY <1>7 DEF Handle, LoadOrStore, Receive, GiveUp, ProcessPDU, RefuseAll, ProcessEDU,
                Processed, Delete, Close, history
  <2>2. Kept
    <3>1. \/ \E pc, owner, res, p, e : To(r, pc, owner, res, p, e)
          \/ LoadOrStore(r) /\ reqs[r].txn \in DOMAIN inFlight /\ inFlight[reqs[r].txn] \notin Nat
          \/ Receive(r) /\ reqs[r].owner \notin DOMAIN reqs
      BY <1>0, <1>7, RequestSteps DEF Handle
    <3>2. /\ reqs[r].txn \in DOMAIN inFlight => inFlight[reqs[r].txn] \in Nat
          /\ Receive(r) => reqs[r].owner \in DOMAIN reqs
      BY <1>0 DEF Typed, Mapped, Receive
    <3>. QED
      BY <3>1, <3>2 DEF To
  <2>. QED
    BY <1>1, <2>1, <2>2
<1>8. CASE UNCHANGED vars
  BY <1>0, <1>8 DEF Sender, vars, sender, history
<1>. QED
  BY <1>2, <1>3, <1>4, <1>5, <1>6, <1>7, <1>8 DEF Next, Handle

\* The invariant holds.
LEMMA TypedAlways == Spec => []Typed
<1>1. Init => Typed
  <2> SUFFICES ASSUME Init PROVE Typed
    OBVIOUS
  <2>1. Receiver
    BY ReceiverInit
  <2>2. DOMAIN reqs = {} /\ DOMAIN inFlight = {} /\ Len(reqs) = 0
    BY DEF Init
  <2>3. Unique(<<>>)
    BY DEF Unique
  <2>4. Sender
    BY <2>2, <2>3 DEF Init, Sender, Range
  <2>. QED
    BY <2>1, <2>2, <2>4 DEF Typed, Mapped
<1>2. Typed /\ [Next]_vars => Typed'
  BY ReceiverNext, SenderNext DEF Typed
<1>. QED
  BY <1>1, <1>2, PTL DEF Spec

\* Types, for any number of events, requests and restarts: the request the
\* worker waits for has the ID that nextTransaction() keeps, and the events
\* it cleans are no longer queued.
THEOREM TypeCorrect == Spec => []TypeOK
<1>1. Typed => TypeOK
  <2> SUFFICES ASSUME Typed PROVE TypeOK
    OBVIOUS
  <2>1. \A r \in DOMAIN reqs : reqs[r] \in Request /\ chan[r] \in Channel
    BY LenProperties, ElementOfSeq DEF Typed, Receiver
  <2>2. \A r \in DOMAIN reqs :
          /\ reqs[r].pc \in Steps /\ reqs[r].res \in Results \cup {NoResult}
          /\ chan[r].res \in {"ok", NoResult} /\ chan[r].closed \in BOOLEAN
    BY <2>1 DEF Request, Channel
  <2>. QED
    BY <2>2 DEF TypeOK, Typed, Sender, Steps
<1>. QED
  BY <1>1, TypedAlways, PTL

-----------------------------------------------------------------------------
(* One handler for a transaction                                           *)

Working == {"process", "delete"}

\* What is known of a request at pc whose channel is c.
Phase(pc, owner, res, c) ==
    /\ pc \in {"sent", "process"} =>
          owner = 0 /\ res = NoResult /\ c.res = NoResult /\ ~c.closed
    /\ pc \in {"delete", "close"} => owner = 0 /\ res \in {"ok", "bad"} /\ ~c.closed
    /\ pc = "wait" => owner # 0 /\ res = NoResult
    /\ owner = 0 => res \in {NoResult, "ok", "bad"}
    /\ owner # 0 => c.res = NoResult /\ ~c.closed
    /\ c.res # NoResult => res = "ok"
    /\ c.closed => res \in {"ok", "bad"}

\* Whoever waits, waits for a request that works or has worked.
Phases ==
    \A r \in DOMAIN reqs :
       /\ Phase(reqs[r].pc, reqs[r].owner, reqs[r].res, chan[r])
       /\ reqs[r].pc = "wait" => /\ reqs[reqs[r].owner].owner = 0
                                 /\ reqs[reqs[r].owner].pc # "sent"

\* A step of request r.
LEMMA PhaseStep ==
    ASSUME Typed, Phases, NEW r \in DOMAIN reqs,
           NEW pc, NEW owner, NEW res, NEW p, NEW e, To(r, pc, owner, res, p, e),
           pc # "sent", Phase(pc, owner, res, chan'[r]),
           owner = reqs[r].owner \/ reqs[r].pc = "sent",
           pc = "wait" => owner # r /\ owner \in DOMAIN reqs
                          /\ reqs[owner].owner = 0 /\ reqs[owner].pc # "sent",
           \A s \in DOMAIN reqs : s # r =>
              Phase(reqs[s].pc, reqs[s].owner, reqs[s].res, chan'[s])
    PROVE  Phases'
<1>1. /\ DOMAIN reqs' = DOMAIN reqs /\ \A s \in DOMAIN reqs : s # r => reqs'[s] = reqs[s]
      /\ reqs'[r].pc = pc /\ reqs'[r].owner = owner /\ reqs'[r].res = res
  BY DEF To, Changed
<1>2. ASSUME NEW s \in DOMAIN reqs
      PROVE  Phase(reqs'[s].pc, reqs'[s].owner, reqs'[s].res, chan'[s])
  BY <1>1
<1>3. ASSUME NEW s \in DOMAIN reqs, reqs'[s].pc = "wait"
      PROVE  reqs'[reqs'[s].owner].owner = 0 /\ reqs'[reqs'[s].owner].pc # "sent"
  <2>1. CASE s = r
    BY <1>1, <1>3, <2>1
  <2>2. CASE s # r
    <3>1. /\ reqs'[s] = reqs[s] /\ reqs[s].owner \in DOMAIN reqs
          /\ reqs[reqs[s].owner].owner = 0 /\ reqs[reqs[s].owner].pc # "sent"
      BY <1>1, <1>3, <2>2 DEF Phases, Typed, Mapped
    <3>. QED
      BY <1>1, <3>1
  <2>. QED
    BY <2>1, <2>2
<1>. QED
  BY <1>1, <1>2, <1>3 DEF Phases

\* A step that neither begins nor ends the work on a transaction.
LEMMA HandlerStep ==
    ASSUME Typed, OneHandler, NEW r \in DOMAIN reqs,
           NEW pc, NEW owner, NEW res, NEW p, NEW e, To(r, pc, owner, res, p, e),
           inFlight' = inFlight, pc \in Working <=> reqs[r].pc \in Working,
           \A s \in DOMAIN reqs : reqs[s].pc \in Working => chan'[s].closed = chan[s].closed
    PROVE  OneHandler'
<1>1. /\ DOMAIN reqs' = DOMAIN reqs /\ DOMAIN reqs = 1 .. Len(reqs)
      /\ \A s \in DOMAIN reqs : /\ reqs'[s].txn = reqs[s].txn
                                /\ reqs'[s].pc \in Working <=> reqs[s].pc \in Working
  BY LenProperties DEF To, Changed, Kept, Typed, Receiver
<1>2. \A id \in DOMAIN inFlight : inFlight[id] \in DOMAIN reqs
  BY DEF Typed, Mapped
<1>. QED
  BY <1>1, <1>2 DEF OneHandler, Working

\* One handler, with what is known of every request.
LEMMA OneHandlerNext == Typed /\ Phases /\ OneHandler /\ [Next]_vars => (Phases /\ OneHandler)'
<1> SUFFICES ASSUME Typed, Phases, OneHandler, [Next]_vars
             PROVE  (Phases /\ OneHandler)'
  OBVIOUS
<1>0. /\ Receiver /\ DOMAIN reqs = 1 .. Len(reqs) /\ Len(reqs) \in Nat
      /\ \A id \in DOMAIN inFlight : inFlight[id] \in DOMAIN reqs
  BY LenProperties DEF Typed, Mapped, Receiver
<1>1. \A s \in DOMAIN reqs : Phase(reqs[s].pc, reqs[s].owner, reqs[s].res, chan[s])
  BY DEF Phases
<1>2. ASSUME NEW o \in DOMAIN reqs, NEW x, chan' = [chan EXCEPT ![o].res = x]
      PROVE  /\ chan'[o].res = x /\ chan'[o].closed = chan[o].closed
             /\ \A s \in DOMAIN reqs : s # o => chan'[s] = chan[s]
  <2>1. chan \in [DOMAIN reqs -> Channel]
    BY <1>0, LenProperties DEF Receiver
  <2>. QED
    BY <1>2, <2>1 DEF Channel
<1>3. ASSUME NEW o \in DOMAIN reqs, chan' = [chan EXCEPT ![o].closed = TRUE]
      PROVE  /\ chan'[o].res = chan[o].res /\ chan'[o].closed
             /\ \A s \in DOMAIN reqs : s # o => chan'[s] = chan[s]
  <2>1. chan \in [DOMAIN reqs -> Channel]
    BY <1>0, LenProperties DEF Receiver
  <2>. QED
    BY <1>3, <2>1 DEF Channel
<1>4. ASSUME UNCHANGED <<reqs, chan, inFlight>>
      PROVE  (Phases /\ OneHandler)'
  BY <1>4 DEF Phases, Phase, OneHandler
<1>5. CASE SendTransaction
  <2> DEFINE n == Len(reqs')
  <2>1. /\ Receiver' /\ n = Len(reqs) + 1
        /\ \A r \in DOMAIN reqs : reqs'[r] = reqs[r] /\ chan'[r] = chan[r]
        /\ reqs'[n].pc = "sent" /\ reqs'[n].owner = 0 /\ reqs'[n].res = NoResult
        /\ chan'[n] = [res |-> NoResult, closed |-> FALSE]
    BY <1>5, SendStep
  <2>2. DOMAIN reqs' = 1 .. n
    BY <2>1, LenProperties DEF Receiver
  <2>3. inFlight' = inFlight
    BY <1>5 DEF SendTransaction
  <2> HIDE DEF n
  <2>4. Phase(reqs'[n].pc, reqs'[n].owner, reqs'[n].res, chan'[n])
    BY <2>1 DEF Phase
  <2>5. DOMAIN reqs' = DOMAIN reqs \cup {n}
    BY <1>0, <2>1, <2>2
  <2>6. \A r \in DOMAIN reqs : reqs[r].pc = "wait" => reqs[r].owner \in DOMAIN reqs
    BY DEF Typed, Mapped
  <2>7. Phases'
    BY <1>1, <2>1, <2>4, <2>5, <2>6 DEF Phases
  <2>8. OneHandler'
    BY <1>0, <2>1, <2>3, <2>5 DEF OneHandler
  <2>. QED
    BY <2>7, <2>8
<1>6. CASE RestartReceiver
  <2>1. DOMAIN inFlight' = {} /\ chan' = chan /\ DOMAIN reqs' = DOMAIN reqs
    BY <1>6 DEF RestartReceiver
  <2>2. \A r \in DOMAIN reqs :
          /\ reqs[r].pc = "sent" => reqs'[r] = reqs[r]
          /\ reqs[r].pc # "sent" => /\ reqs'[r].pc = "done" /\ reqs'[r].owner = reqs[r].owner
                                    /\ reqs'[r].res = reqs[r].res
    BY <1>0, <1>6, RestartStep
  <2>3. ASSUME NEW r \in DOMAIN reqs
        PROVE  Phase(reqs'[r].pc, reqs'[r].owner, reqs'[r].res, chan'[r])
               /\ reqs'[r].pc \in {"sent", "done"}
    <3>1. CASE reqs[r].pc = "sent"
      BY <1>1, <2>1, <2>2, <3>1
    <3>2. CASE reqs[r].pc # "sent"
      BY <1>1, <2>1, <2>2, <3>2 DEF Phase
    <3>. QED
      BY <3>1, <3>2
  <2>. QED
    BY <2>1, <2>3 DEF Phases, OneHandler
<1>7. ASSUME NEW r \in DOMAIN reqs, Handle(r) \/ GiveUp(r)
      PROVE  (Phases /\ OneHandler)'
  <2> DEFINE q == reqs[r]
  <2>0. /\ Phase(q.pc, q.owner, q.res, chan[r])
        /\ q.pc = "wait" => /\ q.owner \in DOMAIN reqs
                            /\ reqs[q.owner].owner = 0 /\ reqs[q.owner].pc # "sent"
    BY DEF Phases, Typed, Mapped
  <2>1. CASE LoadOrStore(r)
    <3>1. chan' = chan /\ q.pc = "sent"
      BY <2>1 DEF LoadOrStore
    <3>2. CASE q.txn \in DOMAIN inFlight
      <4> DEFINE o == inFlight[q.txn]
      <4>1. inFlight' = inFlight /\ o \in DOMAIN reqs
        BY <1>0, <2>1, <3>2 DEF LoadOrStore
      <4>2. To(r, "wait", o, q.res, q.pdus, q.edus)
        BY <1>0, <2>1, <3>2, <4>1, RequestSteps
      <4>3. reqs[o].pc \in Working
        BY <3>2 DEF OneHandler, Working
      <4>4. reqs[o].owner = 0 /\ reqs[o].pc # "sent" /\ o # r /\ o # 0
        BY <1>0, <1>1, <3>1, <4>1, <4>3 DEF Working, Phase
      <4> HIDE DEF o
      <4>5. Phase("wait", o, q.res, chan'[r])
        BY <2>0, <3>1, <4>4 DEF Phase
      <4>6. Phases'
        BY <1>1, <3>1, <4>1, <4>2, <4>4, <4>5, PhaseStep
      <4>7. OneHandler'
        BY <3>1, <4>1, <4>2, HandlerStep DEF Working
      <4>. QED
        BY <4>6, <4>7
    <3>3. CASE q.txn \notin DOMAIN inFlight
      <4>1. /\ DOMAIN inFlight' = DOMAIN inFlight \cup {q.txn} /\ inFlight'[q.txn] = r
            /\ \A id \in DOMAIN inFlight : inFlight'[id] = inFlight[id]
        BY <2>1, <3>3 DEF LoadOrStore
      <4>2. To(r, "process", q.owner, q.res, q.pdus, q.edus)
        BY <1>0, <2>1, <3>3, RequestSteps
      <4>3. Phase("process", q.owner, q.res, chan'[r])
        BY <2>0, <3>1 DEF Phase
      <4>4. Phases'
        BY <1>1, <3>1, <4>2, <4>3, PhaseStep
      <4>5. /\ DOMAIN reqs' = DOMAIN reqs /\ \A s \in DOMAIN reqs : s # r => reqs'[s] = reqs[s]
            /\ reqs'[r].pc = "process" /\ reqs'[r].txn = q.txn
        BY <1>0, <4>2 DEF To, Changed, Kept
      <4>6. \A id \in DOMAIN inFlight : inFlight[id] # r
        BY <3>1 DEF OneHandler
      <4>7. ~chan'[r].closed
        BY <2>0, <3>1 DEF Phase
      <4>8. ASSUME NEW id \in DOMAIN inFlight'
            PROVE  /\ inFlight'[id] \in DOMAIN reqs /\ reqs'[inFlight'[id]].txn = id
                   /\ reqs'[inFlight'[id]].pc \in {"process", "delete"}
                   /\ ~chan'[inFlight'[id]].closed
        <5>1. CASE id = q.txn
          BY <4>1, <4>5, <4>7, <5>1
        <5>2. CASE id # q.txn
          <6>1. id \in DOMAIN inFlight /\ inFlight'[id] = inFlight[id]
                /\ reqs'[inFlight[id]] = reqs[inFlight[id]]
            BY <1>0, <4>1, <4>5, <4>6, <5>2
          <6>. QED
            BY <1>0, <3>1, <6>1 DEF OneHandler
        <5>. QED
          BY <5>1, <5>2
      <4>9. ASSUME NEW s \in DOMAIN reqs, reqs'[s].pc \in {"process", "delete"}
            PROVE  reqs'[s].txn \in DOMAIN inFlight' /\ inFlight'[reqs'[s].txn] = s
        <5>1. CASE s = r
          BY <4>1, <4>5, <5>1
        <5>2. CASE s # r
          BY <4>1, <4>5, <4>9, <5>2 DEF OneHandler
        <5>. QED
          BY <5>1, <5>2
      <4>. QED
        BY <4>4, <4>5, <4>8, <4>9 DEF OneHandler
    <3>. QED
      BY <3>2, <3>3
  <2>2. CASE Receive(r)
    <3> DEFINE o == q.owner
    <3>1. /\ inFlight' = inFlight /\ chan' = [chan EXCEPT ![o].res = NoResult]
          /\ q.pc = "wait" /\ (chan[o].res # NoResult \/ chan[o].closed)
      BY <2>2 DEF Receive
    <3>2. o \in DOMAIN reqs /\ o # 0 /\ o # r /\ reqs[o].owner = 0
      BY <2>0, <3>1 DEF Phase
    <3>3. PICK res \in {"ok", "accepted"} : To(r, "answer", o, res, q.pdus, q.edus)
      BY <1>0, <2>2, <3>2, RequestSteps
    <3>4. /\ chan'[o].res = NoResult /\ chan'[o].closed = chan[o].closed
          /\ \A s \in DOMAIN reqs : s # o => chan'[s] = chan[s]
      BY <1>2, <3>1, <3>2
    <3> HIDE DEF o
    <3>5. Phase("answer", o, res, chan'[r])
      BY <2>0, <3>1, <3>2, <3>4 DEF Phase, o
    <3>6. ASSUME NEW s \in DOMAIN reqs
          PROVE  Phase(reqs[s].pc, reqs[s].owner, reqs[s].res, chan'[s])
      BY <1>1, <3>4 DEF Phase
    <3>7. Phases'
      BY <3>3, <3>5, <3>6, PhaseStep DEF o
    <3>8. OneHandler'
      BY <3>1, <3>3, <3>4, HandlerStep DEF Working
    <3>. QED
      BY <3>7, <3>8
  <2>3. CASE GiveUp(r)
    <3>1. /\ inFlight' = inFlight /\ chan' = chan
          /\ q.pc = "wait"
      BY <2>3 DEF GiveUp, receiver
    <3>2. To(r, "answer", q.owner, "timeout", q.pdus, q.edus)
      BY <1>0, <2>3, RequestSteps
    <3>. QED
      BY <1>0, <1>1, <2>0, <3>1, <3>2, PhaseStep, HandlerStep DEF Phase, Working
  <2>4. CASE ProcessPDU(r)
    <3>1. /\ inFlight' = inFlight /\ chan' = chan
          /\ q.pc = "process"
      BY <2>4 DEF ProcessPDU
    <3>2. To(r, "process", q.owner, q.res, Tail(q.pdus), q.edus)
      BY <1>0, <2>4, RequestSteps
    <3>. QED
      BY <1>0, <1>1, <2>0, <3>1, <3>2, PhaseStep, HandlerStep DEF Phase, Working
  <2>5. CASE RefuseAll(r)
    <3>1. /\ inFlight' = inFlight /\ chan' = chan
          /\ q.pc = "process"
      BY <2>5 DEF RefuseAll, receiver
    <3>2. To(r, "delete", q.owner, "bad", q.pdus, q.edus)
      BY <1>0, <2>5, RequestSteps
    <3>. QED
      BY <1>0, <1>1, <2>0, <3>1, <3>2, PhaseStep, HandlerStep DEF Phase, Working
  <2>6. CASE ProcessEDU(r)
    <3>1. /\ inFlight' = inFlight /\ chan' = chan
          /\ q.pc \notin {"sent", "wait"}
      BY <2>6 DEF ProcessEDU
    <3>2. To(r, q.pc, q.owner, q.res, q.pdus, Tail(q.edus))
      BY <1>0, <2>6, RequestSteps
    <3>. QED
      BY <1>0, <1>1, <2>0, <3>1, <3>2, PhaseStep, HandlerStep DEF Phase, Working
  <2>7. CASE Processed(r)
    <3>1. /\ inFlight' = inFlight /\ chan' = [chan EXCEPT ![r].res = "ok"] /\ q.pc = "process"
      BY <2>7 DEF Processed
    <3>2. To(r, "delete", q.owner, "ok", q.pdus, q.edus)
      BY <1>0, <2>7, RequestSteps
    <3>3. /\ chan'[r].res = "ok" /\ chan'[r].closed = chan[r].closed
          /\ \A s \in DOMAIN reqs : s # r => chan'[s] = chan[s]
      BY <1>2, <3>1
    <3>4. Phase("delete", q.owner, "ok", chan'[r])
      BY <2>0, <3>1, <3>3 DEF Phase
    <3>5. Phases'
      BY <1>1, <3>2, <3>3, <3>4, PhaseStep
    <3>6. OneHandler'
      BY <3>1, <3>2, <3>3, HandlerStep DEF Working
    <3>. QED
      BY <3>5, <3>6
  <2>8. CASE Delete(r)
    <3>1. chan' = chan /\ q.pc = "delete"
      BY <2>8 DEF Delete
    <3>2. /\ DOMAIN inFlight' = DOMAIN inFlight \ {q.txn}
          /\ \A id \in DOMAIN inFlight' : inFlight'[id] = inFlight[id]
      BY <2>8 DEF Delete
    <3>3. To(r, "close", q.owner, q.res, q.pdus, q.edus)
      BY <1>0, <2>8, RequestSteps
    <3>4. Phase("close", q.owner, q.res, chan'[r])
      BY <2>0, <3>1 DEF Phase
    <3>5. Phases'
      BY <1>1, <3>1, <3>3, <3>4, PhaseStep
    <3>6. /\ DOMAIN reqs' = DOMAIN reqs /\ \A s \in DOMAIN reqs : s # r => reqs'[s] = reqs[s]
          /\ reqs'[r].pc = "close"
      BY <3>3 DEF To, Changed
    <3>7. q.txn \in DOMAIN inFlight /\ inFlight[q.txn] = r
      BY <3>1 DEF OneHandler
    <3>8. \A id \in DOMAIN inFlight' : inFlight[id] # r
      BY <3>2 DEF OneHandler
    <3>9. ASSUME NEW s \in DOMAIN reqs, s # r, reqs[s].pc \in {"process", "delete"}
          PROVE  reqs[s].txn \in DOMAIN inFlight' /\ inFlight[reqs[s].txn] = s
      BY <3>2, <3>7, <3>9 DEF OneHandler
    <3>10. OneHandler'
      BY <1>0, <3>1, <3>2, <3>6, <3>8, <3>9 DEF OneHandler
    <3>. QED
      BY <3>5, <3>10
  <2>9. CASE Close(r)
    <3>1. /\ inFlight' = inFlight /\ chan' = [chan EXCEPT ![r].closed = TRUE] /\ q.pc = "close"
      BY <2>9 DEF Close
    <3>2. To(r, "answer", q.owner, q.res, q.pdus, q.edus)
      BY <1>0, <2>9, RequestSteps
    <3>3. /\ chan'[r].res = chan[r].res /\ chan'[r].closed
          /\ \A s \in DOMAIN reqs : s # r => chan'[s] = chan[s]
      BY <1>3, <3>1
    <3>4. Phase("answer", q.owner, q.res, chan'[r])
      BY <2>0, <3>1, <3>3 DEF Phase
    <3>5. Phases'
      BY <1>1, <3>2, <3>3, <3>4, PhaseStep
    <3>6. OneHandler'
      BY <3>1, <3>2, <3>3, HandlerStep DEF Working
    <3>. QED
      BY <3>5, <3>6
  <2>10. CASE Answer(r)
    <3>1. /\ inFlight' = inFlight /\ chan' = chan
          /\ q.pc = "answer"
      BY <2>10 DEF Answer, receiver
    <3>2. To(r, "done", q.owner, q.res, q.pdus, q.edus)
      BY <1>0, <2>10, RequestSteps
    <3>. QED
      BY <1>0, <1>1, <2>0, <3>1, <3>2, PhaseStep, HandlerStep DEF Phase, Working
  <2>. QED
    BY <1>7, <2>1, <2>2, <2>3, <2>4, <2>5, <2>6, <2>7, <2>8, <2>9, <2>10 DEF Handle
<1>. QED
  BY <1>4, <1>5, <1>6, <1>7 DEF Next, Queue, Disconnect, RestartSender, receiver, vars

\* A transaction ID has one handler at a time (Send()), for any number of
\* requests, and no request that waits is told that the work is done before
\* it is.
THEOREM OneHandlerAlways == Spec => []OneHandler
<1>1. Init => Phases /\ OneHandler
  <2> SUFFICES ASSUME Init PROVE Phases /\ OneHandler
    OBVIOUS
  <2>1. DOMAIN reqs = {} /\ DOMAIN inFlight = {}
    BY DEF Init
  <2>. QED
    BY <2>1 DEF Phases, OneHandler
<1>2. Typed /\ (Phases /\ OneHandler) /\ [Next]_vars => (Phases /\ OneHandler)'
  BY OneHandlerNext
<1>. QED
  BY <1>1, <1>2, TypedAlways, PTL DEF Spec

-----------------------------------------------------------------------------
(* Nothing is dropped                                                      *)

\* What a request holds, b, by how far it has come: what is left (rest) and
\* what was handled or given up (h) make up b until it is processed; a success means that
\* b was dealt with, by this request or by the one it has waited for, or
\* joined (j).
Progress(pc, owner, res, rest, b, h, j) ==
    /\ pc \in {"sent", "process"} => b \subseteq rest \cup h
    /\ owner = 0 /\ res = "ok" => b \subseteq h
    /\ owner # 0 /\ res \in Success => b \subseteq h \cup j

Left(q) == Range(q.pdus) \cup Range(q.edus)

\* What was handled, or given up by the handler of request r.
Seen(r) == handled \cup GaveUp(r)

InProgress ==
    \A r \in DOMAIN reqs :
       LET q == reqs[r] IN Progress(q.pc, q.owner, q.res, Left(q), Batch(q), Seen(r), joined)

\* Only a handler whose client has gone gives up.
Gone == \A r : GaveUp(r) # {} => r \in DOMAIN reqs /\ r # call

\* A call that fails belongs to a request whose client has gone, and what has
\* been handled or given up stays so.
LEMMA GoneNext ==
    ASSUME Typed, Gone, [Next]_vars
    PROVE  Gone' /\ handled \subseteq handled' /\ cancelled \subseteq cancelled'
<1>0. Receiver /\ DOMAIN reqs = 1 .. Len(reqs) /\ Len(reqs) \in Nat
  BY LenProperties DEF Typed, Receiver
<1>1. ASSUME DOMAIN reqs \subseteq DOMAIN reqs', UNCHANGED outcome,
             call' \in {call, 0, Len(reqs) + 1}
      PROVE  Gone' /\ handled \subseteq handled' /\ cancelled \subseteq cancelled'
  BY <1>0, <1>1 DEF Gone, GaveUp, outcome
<1>2. ASSUME NEW r \in DOMAIN reqs, NEW i, PassOn(r, i), UNCHANGED call,
             DOMAIN reqs' = DOMAIN reqs
      PROVE  Gone' /\ handled \subseteq handled' /\ cancelled \subseteq cancelled'
  <2>1. \/ handled' = handled \cup {i} /\ UNCHANGED cancelled
        \/ call # r /\ cancelled' = cancelled \cup {<<r, i>>} /\ UNCHANGED handled
    BY <1>2 DEF PassOn
  <2>2. ASSUME NEW s, NEW x \in Items, <<s, x>> \in cancelled'
        PROVE  <<s, x>> \in cancelled \/ (s = r /\ call # r)
    BY <2>1, <2>2
  <2>3. ASSUME NEW s, GaveUp(s)' # {} PROVE s \in DOMAIN reqs /\ s # call
    BY <2>2, <2>3 DEF Gone, GaveUp
  <2>. QED
    BY <1>2, <2>1, <2>3 DEF Gone
<1>3. CASE SendTransaction
  <2>1. Receiver' /\ Len(reqs') = Len(reqs) + 1
    BY <1>3, SendStep
  <2>2. DOMAIN reqs' = 1 .. Len(reqs')
    BY <2>1, LenProperties DEF Receiver
  <2>3. UNCHANGED outcome /\ call' = Len(reqs) + 1
    BY <1>3 DEF SendTransaction
  <2>. QED
    BY <1>0, <1>1, <2>1, <2>2, <2>3
<1>4. CASE RestartReceiver
  BY <1>1, <1>4 DEF RestartReceiver, sender
<1>5. CASE Disconnect \/ RestartSender \/ (\E i \in Items : Queue(i))
  BY <1>1, <1>5 DEF Disconnect, RestartSender, Queue, receiver
<1>6. ASSUME NEW r \in DOMAIN reqs, Handle(r) \/ GiveUp(r)
      PROVE  Gone' /\ handled \subseteq handled' /\ cancelled \subseteq cancelled'
  <2>1. CASE ProcessPDU(r) \/ ProcessEDU(r)
    BY <1>2, <2>1 DEF ProcessPDU, ProcessEDU, sender
  <2>2. CASE \/ LoadOrStore(r) \/ Receive(r) \/ RefuseAll(r) \/ Processed(r)
             \/ Delete(r) \/ Close(r) \/ Answer(r) \/ GiveUp(r)
    <3>1. /\ DOMAIN reqs' = DOMAIN reqs /\ UNCHANGED outcome
          /\ call' \in {call, 0}
      BY <2>2 DEF LoadOrStore, Receive, RefuseAll, Processed, Delete, Close, Answer,
                  GiveUp, Go, Finish, sender, receiver
    <3>. QED
      BY <1>1, <3>1
  <2>. QED
    BY <1>6, <2>1, <2>2 DEF Handle
<1>7. CASE UNCHANGED vars
  BY <1>1, <1>7 DEF vars, sender, receiver
<1>. QED
  BY <1>3, <1>4, <1>5, <1>6, <1>7 DEF Next

\* A step of request r, which may add to what was handled.
LEMMA ProgressStep ==
    ASSUME Typed, InProgress, NEW r \in DOMAIN reqs,
           NEW pc, NEW owner, NEW res, NEW p, NEW e, To(r, pc, owner, res, p, e),
           handled \subseteq handled', cancelled \subseteq cancelled', joined \subseteq joined',
           Progress(pc, owner, res, Range(p) \cup Range(e), Batch(reqs[r]), Seen(r)', joined')
    PROVE  InProgress'
<1>1. /\ DOMAIN reqs' = DOMAIN reqs /\ \A s \in DOMAIN reqs : s # r => reqs'[s] = reqs[s]
      /\ reqs'[r].pc = pc /\ reqs'[r].owner = owner /\ reqs'[r].res = res
      /\ Left(reqs'[r]) = Range(p) \cup Range(e)
  BY DEF To, Changed, Left
<1>2. Batch(reqs'[r]) = Batch(reqs[r])
  BY LenProperties DEF To, Kept, Batch, Typed, Receiver
<1>3. ASSUME NEW s \in DOMAIN reqs
      PROVE  LET q == reqs'[s]
             IN  Progress(q.pc, q.owner, q.res, Left(q), Batch(q), Seen(s)', joined')
  <2>1. CASE s = r
    BY <1>1, <1>2, <2>1
  <2>2. CASE s # r
    <3> DEFINE q == reqs[s]
    <3>1. Progress(q.pc, q.owner, q.res, Left(q), Batch(q), Seen(s), joined)
      BY DEF InProgress
    <3>2. Seen(s) \subseteq Seen(s)'
      BY DEF Seen, GaveUp
    <3>3. Progress(q.pc, q.owner, q.res, Left(q), Batch(q), Seen(s)', joined')
      BY <3>1, <3>2 DEF Progress
    <3>. QED
      BY <1>1, <2>2, <3>3
  <2>. QED
    BY <2>1, <2>2
<1>. QED
  BY <1>1, <1>3 DEF InProgress

\* What leaves the queue was handled, with how far every request has come.
LEMMA NothingDroppedNext ==
    Typed /\ Phases /\ Gone /\ InProgress /\ NothingDropped /\ [Next]_vars
       => (InProgress /\ NothingDropped)'
<1> SUFFICES ASSUME Typed, Phases, Gone, InProgress, NothingDropped, [Next]_vars
             PROVE  (InProgress /\ NothingDropped)'
  OBVIOUS
<1>m. handled \subseteq handled' /\ cancelled \subseteq cancelled'
  BY GoneNext
<1>n. \A s : Seen(s) \subseteq Seen(s)'
  BY <1>m DEF Seen, GaveUp
<1>0. /\ Receiver /\ DOMAIN reqs = 1 .. Len(reqs) /\ Len(reqs) \in Nat
  BY LenProperties DEF Typed, Receiver
<1>1. \A s \in DOMAIN reqs : LET q == reqs[s] IN
          /\ Phase(q.pc, q.owner, q.res, chan[s])
          /\ Progress(q.pc, q.owner, q.res, Left(q), Batch(q), Seen(s), joined)
          /\ q.pc = "wait" => q.owner \in DOMAIN reqs /\ reqs[q.owner].owner = 0
          /\ q.pdus \in Seq(PDUs) /\ q.edus \in Seq(EDUs)
  <2>1. \A s \in DOMAIN reqs : reqs[s] \in Request
    BY <1>0, ElementOfSeq DEF Receiver
  <2>. QED
    BY <2>1 DEF Phases, InProgress, Typed, Mapped, Request
<1>2. ASSUME UNCHANGED <<reqs, outcome, history>>
      PROVE  (InProgress /\ NothingDropped)'
  BY <1>2 DEF InProgress, Progress, Left, Batch, NothingDropped, Seen, GaveUp,
              outcome, history
<1>3. CASE SendTransaction
  <2> DEFINE n == Len(reqs')
  <2>1. /\ Receiver' /\ n = Len(reqs) + 1
        /\ \A r \in DOMAIN reqs : reqs'[r] = reqs[r]
        /\ reqs'[n].pc = "sent" /\ reqs'[n].owner = 0 /\ reqs'[n].res = NoResult
        /\ reqs'[n].pdus = reqs'[n].txnPDUs /\ reqs'[n].edus = reqs'[n].txnEDUs
    BY <1>3, SendStep
  <2>2. DOMAIN reqs' = 1 .. n
    BY <2>1, LenProperties DEF Receiver
  <2>3. UNCHANGED <<handled, joined, removed>> /\ \A s : Seen(s)' = Seen(s)
    BY <1>3 DEF SendTransaction, Seen, GaveUp, outcome, history
  <2> HIDE DEF n
  <2>4. LET q == reqs'[n]
        IN  Progress(q.pc, q.owner, q.res, Left(q), Batch(q), Seen(n), joined)
    BY <2>1 DEF Progress, Left, Batch, NoResult
  <2>5. DOMAIN reqs' = DOMAIN reqs \cup {n}
    BY <1>0, <2>1, <2>2
  <2>. QED
    BY <1>1, <2>1, <2>3, <2>4, <2>5 DEF InProgress, NothingDropped
<1>4. CASE RestartReceiver
  <2>1. /\ UNCHANGED <<handled, joined, removed>> /\ DOMAIN reqs' = DOMAIN reqs
        /\ \A s : Seen(s)' = Seen(s)
    BY <1>4 DEF RestartReceiver, Seen, GaveUp, outcome, history
  <2>2. Kept /\ \A r \in DOMAIN reqs :
          /\ reqs[r].pc = "sent" => reqs'[r] = reqs[r]
          /\ reqs[r].pc # "sent" => /\ reqs'[r].pc = "done" /\ reqs'[r].owner = reqs[r].owner
                                    /\ reqs'[r].res = reqs[r].res
    BY <1>0, <1>4, RestartStep
  <2>3. \A r \in DOMAIN reqs : Batch(reqs'[r]) = Batch(reqs[r])
    BY <1>0, <2>2 DEF Kept, Batch
  <2>4. ASSUME NEW r \in DOMAIN reqs
        PROVE  LET q == reqs'[r]
               IN  Progress(q.pc, q.owner, q.res, Left(q), Batch(q), Seen(r), joined)
    <3>1. CASE reqs[r].pc = "sent"
      BY <1>1, <2>2, <3>1
    <3>2. CASE reqs[r].pc # "sent"
      BY <1>1, <2>2, <2>3, <3>2 DEF Progress
    <3>. QED
      BY <3>1, <3>2
  <2>. QED
    BY <2>1, <2>4 DEF InProgress, NothingDropped
<1>5. ASSUME NEW r \in DOMAIN reqs, Handle(r) \/ GiveUp(r)
      PROVE  (InProgress /\ NothingDropped)'
  <2> DEFINE q == reqs[r]
             b == Batch(q)
             rest == Range(q.pdus) \cup Range(q.edus)
  <2>0. /\ Phase(q.pc, q.owner, q.res, chan[r])
        /\ Progress(q.pc, q.owner, q.res, rest, b, Seen(r), joined)
        /\ q.pc = "wait" => q.owner \in DOMAIN reqs /\ reqs[q.owner].owner = 0
        /\ q.pdus \in Seq(PDUs) /\ q.edus \in Seq(EDUs)
    BY <1>1 DEF Left
  <2> HIDE DEF b
  <2>a. ASSUME NEW pc, NEW owner, NEW res, NEW p, NEW e, To(r, pc, owner, res, p, e),
               joined \subseteq joined', removed' = removed,
               Progress(pc, owner, res, Range(p) \cup Range(e), b, Seen(r)', joined')
        PROVE  (InProgress /\ NothingDropped)'
    <3>1. InProgress'
      BY <1>m, <2>a, ProgressStep DEF b
    <3>2. NothingDropped'
      BY <1>m, <2>a DEF NothingDropped
    <3>. QED
      BY <3>1, <3>2
  <2>1. CASE LoadOrStore(r)
    <3>1. q.pc = "sent" /\ UNCHANGED <<handled, joined, removed>>
      BY <2>1 DEF LoadOrStore, outcome, history
    <3>2. CASE q.txn \in DOMAIN inFlight
      <4> DEFINE o == inFlight[q.txn]
      <4>1. o \in Nat
        BY <1>0, <3>2 DEF Typed, Mapped
      <4>2. To(r, "wait", o, q.res, q.pdus, q.edus)
        BY <1>0, <2>1, <3>2, <4>1, RequestSteps
      <4>3. q.res = NoResult
        BY <2>0, <3>1 DEF Phase
      <4> HIDE DEF o
      <4>4. Progress("wait", o, q.res, rest, b, Seen(r)', joined')
        BY <4>3 DEF Progress, NoResult, Success
      <4>. QED
        BY <2>a, <3>1, <4>2, <4>4
    <3>3. CASE q.txn \notin DOMAIN inFlight
      <4>1. To(r, "process", q.owner, q.res, q.pdus, q.edus)
        BY <1>0, <2>1, <3>3, RequestSteps
      <4>2. Progress("process", q.owner, q.res, rest, b, Seen(r)', joined')
        BY <1>n, <2>0, <3>1 DEF Progress
      <4>. QED
        BY <2>a, <3>1, <4>1, <4>2
    <3>. QED
      BY <3>2, <3>3
  <2>2. CASE Receive(r)
    <3> DEFINE o == q.owner
               ob == Batch(reqs[o])
    <3>1. /\ q.pc = "wait" /\ (chan[o].res # NoResult \/ chan[o].closed)
          /\ joined' = joined \cup (IF reqs[o].res = "bad" THEN b ELSE b \ (ob \ GaveUp(o)))
          /\ UNCHANGED <<handled, removed>>
      BY <2>2 DEF Receive, outcome, b
    <3>2. o \in DOMAIN reqs /\ o # 0 /\ reqs[o].owner = 0
      BY <2>0, <3>1 DEF Phase
    <3>3. PICK res \in {"ok", "accepted"} : To(r, "answer", o, res, q.pdus, q.edus)
      BY <1>0, <2>2, <3>2, RequestSteps
    <3>4. reqs[o].res = "bad" \/ (reqs[o].res = "ok" /\ ob \subseteq handled \cup GaveUp(o))
      <4>1. /\ Phase(reqs[o].pc, reqs[o].owner, reqs[o].res, chan[o])
            /\ Progress(reqs[o].pc, reqs[o].owner, reqs[o].res, Left(reqs[o]), ob, Seen(o), joined)
        BY <1>1, <3>2
      <4>. QED
        BY <3>1, <3>2, <4>1 DEF Phase, Progress, Seen
    <3> HIDE DEF o, ob
    <3>5. b \subseteq handled' \cup joined'
      BY <3>1, <3>4
    <3>6. Progress("answer", o, res, rest, b, Seen(r)', joined')
      BY <3>2, <3>5 DEF Progress, Seen
    <3>. QED
      BY <2>a, <3>1, <3>3, <3>6
  <2>3. CASE GiveUp(r)
    <3>1. q.pc = "wait" /\ UNCHANGED <<handled, joined, removed>>
      BY <2>3 DEF GiveUp, receiver, outcome, history
    <3>2. To(r, "answer", q.owner, "timeout", q.pdus, q.edus)
      BY <1>0, <2>3, RequestSteps
    <3>3. Progress("answer", q.owner, "timeout", rest, b, Seen(r)', joined')
      BY DEF Progress, Success
    <3>. QED
      BY <2>a, <3>1, <3>2, <3>3
  <2>4. CASE ProcessPDU(r)
    <3>1. /\ q.pc = "process" /\ q.pdus # <<>> /\ UNCHANGED <<joined, removed>>
          /\ Seen(r) \cup {Head(q.pdus)} \subseteq Seen(r)'
      <4>1. PassOn(r, Head(q.pdus)) /\ UNCHANGED <<joined, removed>>
        BY <2>4 DEF ProcessPDU, history
      <4>2. q.pdus # <<>> => Head(q.pdus) \in Items
        BY <2>0, HeadTailProperties DEF Items
      <4>3. q.pdus # <<>>
        BY <2>4 DEF ProcessPDU
      <4>4. Head(q.pdus) \in Seen(r)'
        BY <4>1, <4>2, <4>3 DEF PassOn, Seen, GaveUp
      <4>. QED
        BY <1>n, <2>4, <4>1, <4>3, <4>4 DEF ProcessPDU
    <3>2. To(r, "process", q.owner, q.res, Tail(q.pdus), q.edus)
      BY <1>0, <2>4, RequestSteps
    <3>3. Range(q.pdus) \subseteq Range(Tail(q.pdus)) \cup {Head(q.pdus)}
      BY <2>0, <3>1, TailRange
    <3>4. Progress("process", q.owner, q.res, Range(Tail(q.pdus)) \cup Range(q.edus), b,
                   Seen(r)', joined')
      BY <1>n, <2>0, <3>1, <3>3 DEF Progress
    <3>. QED
      BY <2>a, <3>1, <3>2, <3>4
  <2>5. CASE RefuseAll(r)
    <3>1. q.pc = "process" /\ UNCHANGED <<handled, joined, removed>>
      BY <2>5 DEF RefuseAll, receiver, outcome, history
    <3>2. To(r, "delete", q.owner, "bad", q.pdus, q.edus)
      BY <1>0, <2>5, RequestSteps
    <3>3. Progress("delete", q.owner, "bad", rest, b, Seen(r)', joined')
      BY DEF Progress, Success
    <3>. QED
      BY <2>a, <3>1, <3>2, <3>3
  <2>6. CASE ProcessEDU(r)
    <3>1. /\ q.edus # <<>> /\ UNCHANGED <<joined, removed>>
          /\ Seen(r) \cup {Head(q.edus)} \subseteq Seen(r)'
      <4>1. PassOn(r, Head(q.edus)) /\ UNCHANGED <<joined, removed>>
        BY <2>6 DEF ProcessEDU, history
      <4>2. q.edus # <<>> => Head(q.edus) \in Items
        BY <2>0, HeadTailProperties DEF Items
      <4>3. q.edus # <<>>
        BY <2>6 DEF ProcessEDU
      <4>4. Head(q.edus) \in Seen(r)'
        BY <4>1, <4>2, <4>3 DEF PassOn, Seen, GaveUp
      <4>. QED
        BY <1>n, <2>6, <4>1, <4>3, <4>4 DEF ProcessEDU
    <3>2. To(r, q.pc, q.owner, q.res, q.pdus, Tail(q.edus))
      BY <1>0, <2>6, RequestSteps
    <3>3. Range(q.edus) \subseteq Range(Tail(q.edus)) \cup {Head(q.edus)}
      BY <2>0, <3>1, TailRange
    <3>4. Progress(q.pc, q.owner, q.res, Range(q.pdus) \cup Range(Tail(q.edus)), b,
                   Seen(r)', joined')
      BY <1>n, <2>0, <3>1, <3>3 DEF Progress
    <3>. QED
      BY <2>a, <3>1, <3>2, <3>4
  <2>7. CASE Processed(r)
    <3>1. /\ q.pc = "process" /\ q.pdus = <<>> /\ q.edus = <<>>
          /\ UNCHANGED <<handled, joined, removed>>
      BY <2>7 DEF Processed, outcome, history
    <3>2. To(r, "delete", q.owner, "ok", q.pdus, q.edus)
      BY <1>0, <2>7, RequestSteps
    <3>3. rest = {}
      BY <3>1 DEF Range
    <3>4. Progress("delete", q.owner, "ok", rest, b, Seen(r)', joined')
      BY <1>n, <2>0, <3>1, <3>3 DEF Progress
    <3>. QED
      BY <2>a, <3>1, <3>2, <3>4
  <2>8. CASE Delete(r)
    <3>1. UNCHANGED <<handled, joined, removed>>
      BY <2>8 DEF Delete, outcome, history
    <3>2. To(r, "close", q.owner, q.res, q.pdus, q.edus)
      BY <1>0, <2>8, RequestSteps
    <3>3. Progress("close", q.owner, q.res, rest, b, Seen(r)', joined')
      BY <1>n, <2>0, <3>1 DEF Progress
    <3>. QED
      BY <2>a, <3>1, <3>2, <3>3
  <2>9. CASE Close(r)
    <3>1. UNCHANGED <<handled, joined, removed>>
      BY <2>9 DEF Close, outcome, history
    <3>2. To(r, "answer", q.owner, q.res, q.pdus, q.edus)
      BY <1>0, <2>9, RequestSteps
    <3>3. Progress("answer", q.owner, q.res, rest, b, Seen(r)', joined')
      BY <1>n, <2>0, <3>1 DEF Progress
    <3>. QED
      BY <2>a, <3>1, <3>2, <3>3
  <2>10. CASE Answer(r)
    <3>1. /\ UNCHANGED <<handled, joined>>
          /\ \/ removed' = removed
             \/ call = r /\ q.res \in Success /\ removed' = removed \cup b
      BY <2>10 DEF Answer, receiver, outcome, b
    <3>2. To(r, "done", q.owner, q.res, q.pdus, q.edus)
      BY <1>0, <2>10, RequestSteps
    <3>3. Progress("done", q.owner, q.res, rest, b, Seen(r)', joined')
      BY <1>n, <2>0, <3>1 DEF Progress
    <3>4. InProgress'
      BY <1>m, <3>1, <3>2, <3>3, ProgressStep DEF b
    <3>5. q.res \in Success /\ call = r => b \subseteq handled \cup joined
      <4>1. call = r => Seen(r) = handled
        BY DEF Gone, Seen
      <4>. QED
        BY <2>0, <4>1 DEF Phase, Progress, Success, NoResult
    <3>6. NothingDropped'
      BY <3>1, <3>5 DEF NothingDropped
    <3>. QED
      BY <3>4, <3>6
  <2>. QED
    BY <1>5, <2>1, <2>2, <2>3, <2>4, <2>5, <2>6, <2>7, <2>8, <2>9, <2>10 DEF Handle
<1>. QED
  BY <1>2, <1>3, <1>4, <1>5
     DEF Next, Queue, Disconnect, RestartSender, receiver, history, vars

\* What the sender removes from its queue the receiver has handled
\* (nextTransaction(), Send(), ProcessTransaction()), or acknowledged in the
\* place of another request with its ID that did not handle it (it held other
\* events, was refused, or failed after its client had gone), for any number
\* of events, requests, lost answers, failing calls and restarts.
THEOREM NothingIsDropped == Spec => []NothingDropped
<1>1. Init => (Phases /\ OneHandler) /\ Gone /\ (InProgress /\ NothingDropped)
  <2> SUFFICES ASSUME Init
               PROVE  (Phases /\ OneHandler) /\ Gone /\ (InProgress /\ NothingDropped)
    OBVIOUS
  <2>1. DOMAIN reqs = {} /\ DOMAIN inFlight = {} /\ removed = {} /\ cancelled = {}
    BY DEF Init
  <2>. QED
    BY <2>1 DEF Phases, OneHandler, Gone, GaveUp, InProgress, NothingDropped
<1>2. Typed /\ (Phases /\ OneHandler) /\ [Next]_vars => (Phases /\ OneHandler)'
  BY OneHandlerNext
<1>3. Typed /\ Gone /\ [Next]_vars => Gone'
  BY GoneNext
<1>4. Typed /\ (Phases /\ OneHandler) /\ Gone /\ (InProgress /\ NothingDropped) /\ [Next]_vars
        => (InProgress /\ NothingDropped)'
  BY NothingDroppedNext
<1>. QED
  BY <1>1, <1>2, <1>3, <1>4, TypedAlways, PTL DEF Spec
=============================================================================
