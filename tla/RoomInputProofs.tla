-------------------------- MODULE RoomInputProofs ---------------------------
(***************************************************************************)
(* The input queue of a room, for every graph of events, any number of     *)
(* messages, restarts and failing steps.                                   *)
(***************************************************************************)
EXTENDS RoomInput, FiniteSetTheorems, SequenceTheorems, WellFoundedInduction, TLAPS

-----------------------------------------------------------------------------
(* One chain of calls                                                      *)

\* The subscription, the inbox and the program counter have their types.
ChainTypes ==
    /\ sub \in BOOLEAN /\ inbox \in Nat
    /\ pc \in {"fetch", "expire", "begin", "store", "state", "latest", "commit", "ack"}

Chain == ChainTypes /\ OneChain

\* The end of a job is no fetch (processRoomEvent() returns into _next).
LEMMA DoneGoesOn ==
    ASSUME NEW res, Done(res) PROVE pc' \in {"begin", "ack"}
BY DEF Done

\* Neither is its failure.
LEMMA FailedGoesOn ==
    ASSUME Failed PROVE pc' \in {"store", "ack"}
BY DEF Failed

\* Every step keeps the chain of calls and the subscription together.
LEMMA ChainStep == ASSUME Chain, [Next]_vars PROVE Chain'
<1> USE DEF Chain, ChainTypes, OneChain
<1>1. CASE Notice
  <2>1. PICK outcome \in StartOutcomes :
               /\ sub' = (sub \/ outcome = "ok")
               /\ inbox' = IF ~sub /\ outcome = "ok" THEN inbox + 1 ELSE inbox
    BY <1>1, Zenon DEF Notice
  <2>2. \/ (sub' <=> sub) /\ inbox' = inbox
        \/ ~sub /\ sub' /\ inbox' = inbox + 1
    BY <2>1, Zenon
  <2>3. sub' \in BOOLEAN
    BY <2>1
  <2>4. pc' = pc
    BY <1>1 DEF Notice
  <2> QED BY <2>2, <2>3, <2>4
<1>2. CASE Fetch
  BY <1>2 DEF Fetch, Fetching
<1>3. CASE FetchFails
  BY <1>3 DEF FetchFails, Fetching
<1>4. CASE Expire
  <2>1. ~sub' /\ sub' \in BOOLEAN /\ pc = "expire" /\ pc' = "fetch" /\ inbox' = inbox
    BY <1>4, Zenon DEF Expire
  <2> QED BY <2>1
<1>5. CASE Begin
  <2>1. UNCHANGED <<sub, inbox>> /\ pc = "begin" /\ pc' \in {"begin", "store", "ack"}
    BY <1>5, DoneGoesOn DEF Begin
  <2> QED BY <2>1
<1>6. CASE Store
  BY <1>6 DEF Store
<1>7. CASE SetState
  <2>1. UNCHANGED <<sub, inbox>> /\ pc = "state" /\ pc' \in {"begin", "latest", "ack"}
    BY <1>7, DoneGoesOn DEF SetState
  <2> QED BY <2>1
<1>8. CASE Latest
  <2>1. /\ UNCHANGED <<sub, inbox>> /\ pc = "latest"
        /\ pc' \in {"begin", "store", "commit", "ack"}
    BY <1>8, DoneGoesOn, FailedGoesOn DEF Latest
  <2> QED BY <2>1
<1>9. CASE Commit
  <2>1. UNCHANGED <<sub, inbox>> /\ pc = "commit" /\ pc' \in {"begin", "ack"}
    BY <1>9, DoneGoesOn DEF Commit
  <2> QED BY <2>1
<1>10. CASE Ack
  BY <1>10 DEF Ack
<1>11. CASE Fail
  <2>1. /\ UNCHANGED <<sub, inbox>> /\ pc' \in {"store", "ack"}
        /\ pc \in {"begin", "store", "state", "latest", "commit"}
    BY <1>11, FailedGoesOn DEF Fail
  <2> QED BY <2>1
<1>12. CASE Restart
  <2>1. ~sub' /\ sub' \in BOOLEAN /\ pc' = "fetch" /\ inbox' = 0
    BY <1>12, Zenon DEF Restart
  <2> QED BY <2>1
<1>13. CASE UNCHANGED worker
  BY <1>13 DEF worker
<1>14. ASSUME NEW in \in Inputs, Publish(in) PROVE Chain'
  BY <1>14, <1>13 DEF Publish
<1>15. ASSUME NEW i, GiveUp(i) \/ AckTimeout(i) PROVE Chain'
  BY <1>15, <1>13 DEF GiveUp, AckTimeout
<1>16. CASE Stop
  BY <1>16, <1>13 DEF Stop
<1>17. CASE UNCHANGED vars
  BY <1>17, <1>13 DEF vars
<1> QED
  BY <1>1, <1>2, <1>3, <1>4, <1>5, <1>6, <1>7, <1>8, <1>9, <1>10, <1>11, <1>12,
     <1>14, <1>15, <1>16, <1>17 DEF Next, Worker

\* No two chains of calls compete for a room and _next never dereferences a
\* nil subscription, however notices, fetches that expire, and restarts
\* interleave (startWorkerForRoom(), _next()).
THEOREM OneChainAlways == Spec => []OneChain
<1>1. ASSUME Init PROVE Chain
  <2>1. ~sub /\ sub \in BOOLEAN /\ pc = "fetch" /\ inbox = 0
    BY <1>1, Zenon DEF Init
  <2> QED BY <2>1 DEF Chain, ChainTypes, OneChain
<1>2. Chain => OneChain
  BY DEF Chain
<1> QED
  BY <1>1, <1>2, ChainStep, PTL DEF Spec

-----------------------------------------------------------------------------
(* The room                                                                *)

\* The inductive invariant: what an event refers to is on record before the
\* event can become an extremity, and what the transaction is about to commit
\* has been produced and leaves an extremity.
RoomInv ==
    /\ RoomConsistent
    /\ \A f \in latest : Prev[f] \subseteq refs
    /\ pc \in {"state", "latest", "commit"} => Prev[Job.ev] \subseteq refs
    /\ pc = "commit" => /\ Job.ev \in produced
                        /\ CalculateLatest(Job.ev, Job.hasState) # {}

\* The extremities that calculateLatest() returns keep the invariant.
LEMMA LatestKeeps ==
    ASSUME RoomInv, NEW e, NEW rewrites, Prev[e] \subseteq refs,
           CalculateLatest(e, rewrites) # {}
    PROVE  LET new == CalculateLatest(e, rewrites) IN
           /\ new \subseteq latest \cup {e}
           /\ \A f \in new : Prev[f] \subseteq refs
           /\ \A f, g \in new : f \notin Prev[g]
BY DEF CalculateLatest, RoomInv, RoomConsistent

\* A step that leaves the tables alone and does not move into the
\* transaction keeps the room consistent.
LEMMA RoomFrame ==
    ASSUME RoomInv, UNCHANGED <<refs, sent, latest, produced>>,
           pc' \notin {"state", "latest", "commit"}
    PROVE  RoomInv'
BY DEF RoomInv, RoomConsistent

\* Every step keeps the room consistent.
LEMMA RoomStep == ASSUME RoomInv, [Next]_vars PROVE RoomInv'
<1>1. ASSUME UNCHANGED <<pc, work, refs, sent, latest, produced>> PROVE RoomInv'
  BY <1>1 DEF RoomInv, RoomConsistent, CalculateLatest, Job
<1>2. CASE Notice
  BY <1>1, <1>2 DEF Notice, room, tables
<1>3. CASE Fetch
  BY <1>3, RoomFrame DEF Fetch, room, tables
<1>4. CASE FetchFails
  BY <1>4, RoomFrame DEF FetchFails, room, tables
<1>5. CASE Expire
  BY <1>5, RoomFrame DEF Expire, room, tables
<1>6. CASE Begin
  <2>1. pc' \in {"begin", "store", "ack"} /\ UNCHANGED <<refs, sent, latest, produced>>
    BY <1>6, DoneGoesOn DEF Begin, room, tables
  <2> QED BY <2>1, RoomFrame
<1>7. CASE Store
  BY <1>7 DEF Store, RoomInv, RoomConsistent, Job
<1>8. CASE SetState
  <2>1. UNCHANGED <<refs, sent, latest, produced>> /\ pc = "state"
    BY <1>8 DEF SetState
  <2>2. CASE pc' \in {"begin", "ack"}
    BY <2>1, <2>2, RoomFrame
  <2>3. CASE pc' = "latest" /\ UNCHANGED work
    BY <2>1, <2>3 DEF RoomInv, RoomConsistent, Job
  <2> QED
    BY <1>8, <2>2, <2>3, DoneGoesOn DEF SetState
<1>9. CASE Latest
  <2>1. UNCHANGED <<refs, sent, latest>> /\ pc = "latest"
    BY <1>9 DEF Latest
  <2>2. CASE pc' \in {"begin", "store", "ack"} /\ UNCHANGED produced
    BY <2>1, <2>2, RoomFrame
  <2>3. CASE /\ CalculateLatest(Job.ev, Job.hasState) # {}
             /\ produced' = produced \cup {Job.ev}
             /\ pc' = "commit" /\ UNCHANGED work
    BY <2>1, <2>3 DEF RoomInv, RoomConsistent, CalculateLatest, Job
  <2> QED
    BY <1>9, <2>2, <2>3, DoneGoesOn, FailedGoesOn DEF Latest
<1>10. CASE Commit
  <2>1. /\ pc = "commit" /\ UNCHANGED <<refs, produced>>
        /\ latest' = CalculateLatest(Job.ev, Job.hasState)
        /\ sent' = sent \cup {Job.ev}
    BY <1>10 DEF Commit
  <2>2. pc' \in {"begin", "ack"}
    BY <1>10, DoneGoesOn DEF Commit
  <2>3. /\ latest' # {} /\ latest' \subseteq latest \cup {Job.ev}
        /\ \A f \in latest' : Prev[f] \subseteq refs
        /\ \A f, g \in latest' : f \notin Prev[g]
    BY <2>1, LatestKeeps DEF RoomInv
  <2> QED
    BY <2>1, <2>2, <2>3 DEF RoomInv, RoomConsistent
<1>11. CASE Ack
  BY <1>11, RoomFrame DEF Ack, room, tables
<1>12. CASE Fail
  <2>1. pc' \in {"store", "ack"} /\ UNCHANGED <<refs, sent, latest, produced>>
    BY <1>12, FailedGoesOn DEF Fail, tables
  <2> QED BY <2>1, RoomFrame
<1>13. CASE Restart
  BY <1>13, RoomFrame DEF Restart, room, tables
<1>14. ASSUME NEW in \in Inputs, Publish(in) PROVE RoomInv'
  BY <1>14, <1>1 DEF Publish, worker, room, tables
<1>15. ASSUME NEW i, GiveUp(i) \/ AckTimeout(i) PROVE RoomInv'
  BY <1>15, <1>1 DEF GiveUp, AckTimeout, worker, room, tables
<1>16. CASE Stop \/ UNCHANGED vars
  BY <1>16, <1>1 DEF Stop, vars, worker, room, tables
<1> QED
  BY <1>2, <1>3, <1>4, <1>5, <1>6, <1>7, <1>8, <1>9, <1>10, <1>11, <1>12, <1>13,
     <1>14, <1>15, <1>16 DEF Next, Worker

\* An event marked as sent is in the output log, and the forward extremities
\* of the room are sent, never none, and no event of them precedes another
\* (doUpdateLatestEvents(), calculateLatest()), after any crash.
THEOREM RoomStaysConsistent == Spec => []RoomConsistent
<1>1. Init => RoomInv
  BY InputAssumption DEF Init, RoomInv, RoomConsistent
<1>2. RoomInv => RoomConsistent
  BY DEF RoomInv
<1> QED
  BY <1>1, <1>2, RoomStep, PTL DEF Spec

-----------------------------------------------------------------------------
(* Types                                                                   *)

Processing == {"begin", "store", "state", "latest", "commit"}

\* The jobs of processRoomEvent().
Jobs == [ev : Events, kind : Kinds, hasState : BOOLEAN, gap : {"no", "filled", "failed"}]

\* Besides the types: there is a job while one is processed, and a message
\* until it is acknowledged.
Typed ==
    /\ TypeOK
    /\ work \in Seq(Jobs)
    /\ pc \in Processing => work # <<>> /\ cur \in Positions
    /\ pc = "ack" => cur \in Positions /\ result \in {"ok", "rejected", "failed"}

\* Appending to a function on 1 .. n gives one on 1 .. n + 1.
LEMMA AppendFun ==
    ASSUME NEW S, NEW n \in Nat, NEW s \in [1 .. n -> S], NEW x \in S
    PROVE  Append(s, x) \in [1 .. n + 1 -> S]
<1>1. s \in Seq(S) /\ Len(s) = n
  OBVIOUS
<1>2. Append(s, x) \in Seq(S) /\ Len(Append(s, x)) = n + 1
  BY <1>1, AppendProperties
<1> QED
  BY <1>2, LenProperties

\* A sequence with one more element at its end.
LEMMA LastOfConcat ==
    ASSUME NEW S, NEW s \in Seq(S), NEW x \in S
    PROVE  LET w == s \o <<x>> IN
           /\ w \in Seq(S) /\ w # <<>> /\ w[Len(w)] = x
           /\ Len(w) - 1 = Len(s) /\ \A j \in 1 .. Len(s) : w[j] = s[j]
<1>1. <<x>> \in Seq(S) /\ Len(<<x>>) = 1 /\ Len(s) \in Nat
  OBVIOUS
<1>2. s \o <<x>> \in Seq(S) /\ Len(s \o <<x>>) = Len(s) + 1
  BY <1>1, ConcatProperties
<1>3. /\ (s \o <<x>>)[Len(s) + 1] = x
      /\ \A j \in 1 .. Len(s) : (s \o <<x>>)[j] = s[j]
  OBVIOUS
<1> QED
  BY <1>1, <1>2, <1>3

\* The jobs that processEventWithMissingState() makes of a gap end with the
\* event that needed it.
LEMMA GapJobsTyped ==
    ASSUME Typed, pc \in Processing, NEW gap \in Gaps(Job.ev), NEW w,
           w = GapJobs(gap) \o <<[Job EXCEPT !.gap = "filled"]>>
    PROVE  /\ w \in Seq(Jobs) /\ w # <<>>
           /\ w[Len(w)] = [Job EXCEPT !.gap = "filled"]
           /\ \A j \in 1 .. Len(w) - 1 : w[j].kind = "old"
<1> DEFINE Old == {o \in Jobs : o.kind = "old"}
           M == Missing(Job.ev)
           pass(state) == [i \in 1 .. Len(gap) |->
                             [ev |-> gap[i], kind |-> "old",
                              hasState |-> state /\ i = 1, gap |-> "no"]]
           j == [Job EXCEPT !.gap = "filled"]
<1>1. Job \in Jobs
  BY DEF Typed, Job
<1>2. M \in SUBSET Events /\ Cardinality(M) \in Nat
  BY <1>1, InputAssumption, FS_Subset, FS_CardinalityType DEF Missing, Jobs
<1>3. gap \in Seq(Events)
  <2>1. PICK m \in 0 .. Cardinality(M) : gap \in [1 .. m -> M]
    BY DEF Gaps, SeqOf
  <2> QED BY <1>2, <2>1
<1>4. ASSUME NEW state \in BOOLEAN PROVE pass(state) \in Seq(Old)
  <2>1. ASSUME NEW i \in 1 .. Len(gap)
        PROVE  [ev |-> gap[i], kind |-> "old",
                hasState |-> state /\ i = 1, gap |-> "no"] \in Old
    <3>1. gap[i] \in Events /\ (state /\ i = 1) \in BOOLEAN
      BY <1>3, <2>1, ElementOfSeq
    <3> QED BY <3>1 DEF Jobs, Kinds
  <2>2. pass(state) \in [1 .. Len(gap) -> Old] /\ Len(gap) \in Nat
    BY <1>3, <2>1
  <2> HIDE DEF pass, Old
  <2> QED BY <2>2
<1>5. GapJobs(gap) \in Seq(Old)
  <2>1. GapJobs(gap) = (IF stored[gap[1]] = "rejected" THEN pass(FALSE) ELSE <<>>)
                       \o pass(TRUE)
    BY DEF GapJobs
  <2> HIDE DEF pass, Old
  <2>2. pass(TRUE) \in Seq(Old) /\ pass(FALSE) \in Seq(Old)
    BY <1>4, Zenon
  <2>3. <<>> \in Seq(Old)
    OBVIOUS
  <2> QED BY <2>1, <2>2, <2>3, ConcatProperties
<1> DEFINE g == GapJobs(gap)
<1>6. j \in Jobs
  BY <1>1 DEF Jobs
<1> SUFFICES /\ w \in Seq(Jobs) /\ w # <<>> /\ w[Len(w)] = j
             /\ \A k \in 1 .. Len(w) - 1 : w[k].kind = "old"
  OBVIOUS
<1>7. w = g \o <<j>>
  OBVIOUS
<1>8. g \in Seq(Jobs) /\ \A k \in 1 .. Len(g) : g[k].kind = "old"
  <2> HIDE DEF g
  <2>1. g \in Seq(Old)
    BY <1>5 DEF g
  <2>2. ASSUME NEW k \in 1 .. Len(g) PROVE g[k] \in Old
    BY <2>1, <2>2, ElementOfSeq
  <2>3. g \in Seq(Jobs)
    BY <2>1, <2>2
  <2> QED BY <2>2, <2>3
<1> HIDE DEF g, j
<1>9. LET v == g \o <<j>> IN
      /\ v \in Seq(Jobs) /\ v # <<>> /\ v[Len(v)] = j
      /\ Len(v) - 1 = Len(g) /\ \A k \in 1 .. Len(g) : v[k] = g[k]
  BY <1>6, <1>8, LastOfConcat
<1> QED
  BY <1>7, <1>8, <1>9, Zenon

\* A sequence that is not empty: its only element, or its last one.
LEMMA LastOfTail ==
    ASSUME NEW S, NEW s \in Seq(S), s # <<>>
    PROVE  /\ Tail(s) \in Seq(S) /\ s[Len(s)] \in S
           /\ \/ Len(s) = 1 /\ Head(s) = s[Len(s)]
              \/ /\ Len(s) > 1 /\ Tail(s) # <<>>
                 /\ Tail(s)[Len(Tail(s))] = s[Len(s)]
<1> DEFINE n == Len(s)
<1>1. n \in Nat /\ n # 0
  BY EmptySeq
<1>2. /\ Tail(s) \in Seq(S) /\ Len(Tail(s)) = n - 1
      /\ \A i \in 1 .. Len(Tail(s)) : Tail(s)[i] = s[i + 1]
  BY HeadTailProperties
<1>3. s[n] \in S
  BY <1>1, ElementOfSeq
<1>4. CASE n = 1
  BY <1>2, <1>3, <1>4
<1>5. CASE n > 1
  <2>1. Tail(s) # <<>>
    <3>1. Len(Tail(s)) # 0
      BY <1>1, <1>2, <1>5
    <3>2. Len(<<>>) = 0
      BY EmptySeq
    <3> QED BY <3>1, <3>2, Zenon
  <2>2. n - 1 \in 1 .. n - 1 /\ (n - 1) + 1 = n
    BY <1>1, <1>5
  <2>3. Tail(s)[n - 1] = s[n]
    BY <1>2, <2>2
  <2> QED
    BY <1>2, <1>3, <1>5, <2>1, <2>3
<1> HIDE DEF n
<1>6. n = 1 \/ n > 1
  BY <1>1
<1> QED
  BY <1>4, <1>5, <1>6 DEF n

\* What the end of a job leaves (Done).
LEMMA DoneTyped ==
    ASSUME Typed, pc \in Processing, NEW res, Done(res)
    PROVE  /\ work' \in Seq(Jobs) /\ verdict' = "none"
           /\ \/ /\ pc' = "begin" /\ work' # <<>>
                 /\ work'[Len(work')] = work[Len(work)] /\ result' = result
              \/ /\ pc' = "ack" /\ result' = res /\ Job = work[Len(work)]
<1>1. work \in Seq(Jobs) /\ work # <<>>
  BY DEF Typed
<1>2. /\ work' = Tail(work) /\ verdict' = "none"
      /\ Len(work) > 1 => pc' = "begin" /\ result' = result
      /\ ~(Len(work) > 1) => pc' = "ack" /\ result' = res
  BY DEF Done
<1>3. /\ Tail(work) \in Seq(Jobs)
      /\ \/ Len(work) = 1 /\ Head(work) = work[Len(work)]
         \/ /\ Len(work) > 1 /\ Tail(work) # <<>>
            /\ Tail(work)[Len(Tail(work))] = work[Len(work)]
  BY <1>1, LastOfTail
<1>4. ~(1 > 1)
  OBVIOUS
<1> QED
  BY <1>2, <1>3, <1>4, Zenon DEF Job

\* What a failure leaves (Failed).
LEMMA FailedTyped ==
    ASSUME Typed, pc \in Processing, Failed
    PROVE  /\ work' \in Seq(Jobs) /\ verdict' = "none"
           /\ \/ /\ Len(work) > 1
                 /\ pc' = "store" /\ work' # <<>> /\ result' = result
                 /\ work'[Len(work')].ev = work[Len(work)].ev
                 /\ work'[Len(work')].kind = work[Len(work)].kind
              \/ /\ ~(Len(work) > 1)
                 /\ pc' = "ack" /\ result' = "failed" /\ Job = work[Len(work)]
<1>1. work \in Seq(Jobs) /\ work # <<>>
  BY DEF Typed
<1>2. /\ work[Len(work)] \in Jobs
      /\ \/ Len(work) = 1 /\ Head(work) = work[Len(work)]
         \/ Len(work) > 1
  BY <1>1, LastOfTail
<1>3. CASE Len(work) > 1
  <2> DEFINE j == [work[Len(work)] EXCEPT !.gap = "failed"]
  <2>1. j \in Jobs /\ j.ev = work[Len(work)].ev /\ j.kind = work[Len(work)].kind
    BY <1>2 DEF Jobs
  <2>2. work' = <<j>> /\ pc' = "store" /\ result' = result /\ verdict' = "none"
    BY <1>3 DEF Failed, Last
  <2> HIDE DEF j
  <2>3. work' \in Seq(Jobs) /\ work' # <<>> /\ work'[Len(work')] = j
    BY <2>1, <2>2
  <2> QED
    BY <1>3, <2>1, <2>2, <2>3
<1>4. CASE ~(Len(work) > 1)
  <2>1. work' = <<>> /\ pc' = "ack" /\ result' = "failed" /\ verdict' = "none"
    BY <1>4 DEF Failed
  <2>2. Job = work[Len(work)]
    BY <1>2, <1>4, Zenon DEF Job
  <2> QED
    BY <1>4, <2>1, <2>2
<1> QED
  BY <1>3, <1>4, Zenon

\* Min is an element (the positions that Fetch chooses from).
LEMMA LeastPosition ==
    ASSUME NEW n \in Nat, NEW S \in SUBSET (1 .. n), S # {}
    PROVE  Min(S) \in S
<1>1. PICK x \in S : \A y \in S : x <= y
  <2> DEFINE R == {p \in Nat \X Nat : p[1] < p[2]}
  <2>1. IsWellFoundedOn(R, Nat)
    BY NatLessThanWellFounded, Zenon DEF OpToRel
  <2>2. S \subseteq Nat
    OBVIOUS
  <2> HIDE DEF R
  <2>3. PICK x \in S : \A y \in S : ~ (<<y, x>> \in R)
    BY <2>1, <2>2, WFMin
  <2>4. ASSUME NEW y \in S PROVE x <= y
    <3>1. <<y, x>> \in Nat \X Nat /\ ~(<<y, x>> \in R)
      BY <2>2, <2>3, <2>4
    <3>2. ~(y < x)
      BY <3>1 DEF R
    <3> QED BY <2>2, <3>2
  <2> QED
    BY <2>4
<1> QED
  BY <1>1 DEF Min

-----------------------------------------------------------------------------
(* Every step keeps the types                                              *)

\* A step of the worker that leaves the queue and the callers alone.
LEMMA WorkerTyped ==
    ASSUME Typed, pc \in Processing,
           UNCHANGED <<queue, sub, inbox, cur, caller, stopping, restarts>>,
           work' \in Seq(Jobs), pc' \in Processing \cup {"ack"},
           pc' \in Processing => work' # <<>>,
           pc' = "ack" => result' \in {"ok", "rejected", "failed"},
           verdict' \in {"none", "ok", "rejected", "softfail"},
           result' \in {"none", "ok", "rejected", "failed"},
           stored' \in [Events -> {"no", "ok", "rejected"}],
           refs' \subseteq Events, snap' \subseteq Events, sent' \subseteq Events,
           latest' \subseteq Events, produced' \subseteq Events, declined' \subseteq Positions
    PROVE  Typed'
<1>1. ASSUME NEW j \in 1 .. Len(work')
      PROVE  /\ work'[j].ev \in Events /\ work'[j].kind \in Kinds
             /\ work'[j].hasState \in BOOLEAN
             /\ work'[j].gap \in {"no", "filled", "failed"}
  <2>1. work'[j] \in Jobs
    BY ElementOfSeq
  <2> QED BY <2>1 DEF Jobs
<1> QED
  BY <1>1 DEF Typed, TypeOK, Positions, Processing, queue

\* Publishing keeps the types.
LEMMA PublishTyped ==
    ASSUME Typed, NEW in \in Inputs, Publish(in) PROVE Typed'
<1> DEFINE n == Len(stream)
<1>1. n \in Nat /\ n + 1 <= MaxMessages /\ stream' \in Seq(Inputs) /\ Len(stream') = n + 1
  BY InputAssumption, AppendProperties DEF Typed, TypeOK, Publish
<1>2. status' \in [1 .. n + 1 -> {"new", "out", "due", "acked", "lost"}]
  BY <1>1, AppendFun DEF Typed, TypeOK, Publish, Positions
<1>3. caller' \in [1 .. n + 1 -> {"none", "waiting", "ok", "rejected", "failed", "gone"}]
  BY <1>1, AppendFun DEF Typed, TypeOK, Publish, Positions
<1>4. unseen' \subseteq 1 .. n + 1
  <2>1. unseen \subseteq 1 .. n /\ unseen' = unseen \cup {n + 1}
    BY DEF Typed, TypeOK, Publish, Positions
  <2> HIDE DEF n
  <2> QED BY <1>1, <2>1
<1>5. UNCHANGED <<durable, worker, room, stopping, restarts>>
  BY DEF Publish
<1>6. declined \subseteq 1 .. n + 1
  <2>1. declined \subseteq 1 .. n
    BY DEF Typed, TypeOK, Positions
  <2> HIDE DEF n
  <2> QED BY <1>1, <2>1
<1> QED
  BY <1>1, <1>2, <1>3, <1>4, <1>5, <1>6 DEF Typed, TypeOK, Positions, worker, room, tables

\* The jobs of a gap, or the event itself: Begin keeps the types.
LEMMA BeginTyped == ASSUME Typed, Begin PROVE Typed'
<1>1. /\ pc = "begin" /\ pc \in Processing
      /\ UNCHANGED <<queue, sub, inbox, cur, room, caller, stopping, restarts>>
  BY DEF Begin, Processing
<1>2. /\ verdict \in {"none", "ok", "rejected", "softfail"}
      /\ result \in {"none", "ok", "rejected", "failed"}
      /\ stored' \in [Events -> {"no", "ok", "rejected"}]
      /\ refs' \subseteq Events /\ snap' \subseteq Events /\ sent' \subseteq Events
      /\ latest' \subseteq Events /\ produced' \subseteq Events /\ declined' \subseteq Positions
  BY <1>1 DEF Typed, TypeOK, room, tables
<1>3. Job \in Jobs /\ work \in Seq(Jobs) /\ work # <<>>
  BY <1>1 DEF Typed, Job
<1>4. CASE Done("ok")
  BY <1>1, <1>2, <1>4, DoneTyped, WorkerTyped DEF Processing
<1>5. ASSUME NEW gap \in Gaps(Job.ev),
             work' = GapJobs(gap) \o <<[Job EXCEPT !.gap = "filled"]>>,
             UNCHANGED <<pc, verdict, result>>
      PROVE  Typed'
  <2>1. work' \in Seq(Jobs) /\ work' # <<>>
    <3>1. ASSUME NEW w, w = work' PROVE w \in Seq(Jobs) /\ w # <<>>
      BY <1>1, <1>5, <3>1, GapJobsTyped, Zenon
    <3> QED BY <3>1, Zenon
  <2> QED
    BY <1>1, <1>2, <1>5, <2>1, WorkerTyped
<1>6. CASE /\ \/ work' = <<[Job EXCEPT !.gap = "failed"]>>
              \/ work' = <<[Job EXCEPT !.hasState = TRUE]>>
           /\ pc' = "store" /\ UNCHANGED <<verdict, result>>
  <2>1. /\ [Job EXCEPT !.gap = "failed"] \in Jobs
        /\ [Job EXCEPT !.hasState = TRUE] \in Jobs
    BY <1>3 DEF Jobs
  <2>2. work' \in Seq(Jobs) /\ work' # <<>>
    <3>1. ASSUME NEW j \in Jobs, NEW w, w = <<j>> PROVE w \in Seq(Jobs) /\ w # <<>>
      BY <3>1
    <3> QED BY <1>6, <2>1, <3>1, Zenon
  <2> QED
    BY <1>1, <1>2, <1>6, <2>2, WorkerTyped DEF Processing
<1>7. CASE pc' = "store" /\ UNCHANGED <<work, verdict, result>>
  BY <1>1, <1>2, <1>3, <1>7, WorkerTyped DEF Processing
<1> QED
  BY <1>4, <1>5, <1>6, <1>7 DEF Begin

\* Fetch takes an available message.
LEMMA FetchPicks ==
    ASSUME Typed, Fetch
    PROVE  \E i \in Available :
              /\ cur' = i
              /\ status' = [status EXCEPT ![i] = "out"]
              /\ work' = <<[ev |-> stream[i].ev, kind |-> stream[i].kind,
                            hasState |-> stream[i].hasState, gap |-> "no"]>>
<1> DEFINE due == {i \in Available : status[i] = "due"}
<1>1. /\ due \in SUBSET Available /\ Available # {}
      /\ Available \in SUBSET (1 .. Len(stream)) /\ Len(stream) \in Nat
  BY DEF Fetch, Available, Positions, Typed, TypeOK
<1>2. Min(IF due # {} THEN due ELSE Available) \in Available
  BY <1>1, LeastPosition
<1> QED
  BY <1>2 DEF Fetch

\* Every step keeps the types.
LEMMA TypedStep == ASSUME Typed, [Next]_vars PROVE Typed'
<1>1. /\ pc \in Processing => work # <<>> /\ Job \in Jobs /\ Job.ev \in Events
                              /\ Prev[Job.ev] \subseteq Events
      /\ work \in Seq(Jobs)
  <2>1. pc \in Processing => work # <<>> /\ Job \in Jobs
    BY DEF Typed, Job
  <2> QED
    BY <2>1, InputAssumption DEF Typed, Jobs
<1>2. /\ verdict \in {"none", "ok", "rejected", "softfail"}
      /\ result \in {"none", "ok", "rejected", "failed"}
      /\ stored \in [Events -> {"no", "ok", "rejected"}]
      /\ refs \subseteq Events /\ snap \subseteq Events /\ sent \subseteq Events
      /\ latest \subseteq Events /\ produced \subseteq Events /\ declined \subseteq Positions
      /\ pc \in Processing => cur \in Positions
  BY DEF Typed, TypeOK
<1>3. CASE Begin
  BY <1>3, BeginTyped
<1>4. CASE Store
  <2>1. PICK v \in Verdicts :
          /\ verdict' = v
          /\ stored' = [stored EXCEPT ![Job.ev] =
                          IF @ = "ok" \/ v # "rejected" THEN "ok" ELSE "rejected"]
    BY <1>4 DEF Store
  <2>2. v \in {"ok", "rejected", "softfail"}
    BY DEF Verdicts
  <2>3. /\ pc = "store" /\ pc' = "state" /\ refs' = refs \cup Prev[Job.ev]
        /\ UNCHANGED <<queue, sub, inbox, cur, work, result, snap, sent, latest,
                       produced, declined, caller, stopping, restarts>>
    BY <1>4 DEF Store
  <2>4. stored' \in [Events -> {"no", "ok", "rejected"}]
    BY <1>1, <1>2, <2>1, <2>3 DEF Processing
  <2> QED
    BY <1>1, <1>2, <2>1, <2>2, <2>3, <2>4, WorkerTyped DEF Processing
<1>5. CASE SetState
  <2>1. /\ pc = "state" /\ pc \in Processing
        /\ UNCHANGED <<queue, sub, inbox, cur, stored, refs, sent, latest,
                       produced, caller, stopping, restarts>>
        /\ snap' \in {snap, snap \cup {Job.ev}}
        /\ declined' \in {declined, declined \cup {cur}}
        /\ \/ Done("ok") \/ Done("rejected")
           \/ pc' = "latest" /\ UNCHANGED <<work, verdict, result>>
    BY <1>5 DEF SetState, Processing
  <2>2. snap' \subseteq Events /\ declined' \subseteq Positions
    BY <1>1, <1>2, <2>1
  <2>3. /\ work' \in Seq(Jobs) /\ pc' \in Processing \cup {"ack"}
        /\ pc' \in Processing => work' # <<>>
        /\ pc' = "ack" => result' \in {"ok", "rejected", "failed"}
        /\ verdict' \in {"none", "ok", "rejected", "softfail"}
        /\ result' \in {"none", "ok", "rejected", "failed"}
    BY <1>1, <1>2, <2>1, DoneTyped DEF Processing
  <2> QED
    BY <1>2, <2>1, <2>2, <2>3, WorkerTyped
<1>6. CASE Latest
  <2>1. /\ pc = "latest" /\ pc \in Processing
        /\ UNCHANGED <<queue, sub, inbox, cur, stored, refs, snap, sent, latest,
                       caller, stopping, restarts>>
        /\ produced' \in {produced, produced \cup {Job.ev}}
        /\ declined' \in {declined, declined \cup {cur}}
        /\ \/ Done("ok") \/ Failed
           \/ pc' = "commit" /\ UNCHANGED <<work, verdict, result>>
    BY <1>6 DEF Latest, Processing
  <2>2. produced' \subseteq Events /\ declined' \subseteq Positions
    BY <1>1, <1>2, <2>1
  <2>3. /\ work' \in Seq(Jobs) /\ pc' \in Processing \cup {"ack"}
        /\ pc' \in Processing => work' # <<>>
        /\ pc' = "ack" => result' \in {"ok", "rejected", "failed"}
        /\ verdict' \in {"none", "ok", "rejected", "softfail"}
        /\ result' \in {"none", "ok", "rejected", "failed"}
    BY <1>1, <1>2, <2>1, DoneTyped, FailedTyped DEF Processing
  <2> QED
    BY <1>2, <2>1, <2>2, <2>3, WorkerTyped
<1>7. CASE Commit
  <2>1. /\ pc = "commit" /\ pc \in Processing /\ Done("ok")
        /\ UNCHANGED <<queue, sub, inbox, cur, stored, refs, snap, produced,
                       declined, caller, stopping, restarts>>
        /\ sent' = sent \cup {Job.ev}
        /\ latest' = CalculateLatest(Job.ev, Job.hasState)
    BY <1>7 DEF Commit, Processing
  <2>2. sent' \subseteq Events /\ latest' \subseteq Events
    BY <1>1, <1>2, <2>1 DEF CalculateLatest
  <2>3. /\ work' \in Seq(Jobs) /\ pc' \in Processing \cup {"ack"}
        /\ pc' \in Processing => work' # <<>>
        /\ pc' = "ack" => result' \in {"ok", "rejected", "failed"}
        /\ verdict' \in {"none", "ok", "rejected", "softfail"}
        /\ result' \in {"none", "ok", "rejected", "failed"}
    BY <1>2, <2>1, DoneTyped DEF Processing
  <2> QED
    BY <1>2, <2>1, <2>2, <2>3, WorkerTyped
<1>8. CASE Fail
  <2>1. /\ pc \in Processing /\ Failed
        /\ UNCHANGED <<queue, sub, inbox, cur, stored, refs, snap, sent, latest,
                       produced, caller, stopping, restarts>>
        /\ declined' \in {declined, declined \cup {cur}}
    BY <1>8 DEF Fail, Processing, tables
  <2>2. declined' \subseteq Positions
    BY <1>1, <1>2, <2>1
  <2>3. /\ work' \in Seq(Jobs) /\ pc' \in Processing \cup {"ack"}
        /\ pc' \in Processing => work' # <<>>
        /\ pc' = "ack" => result' \in {"ok", "rejected", "failed"}
        /\ verdict' \in {"none", "ok", "rejected", "softfail"}
        /\ result' \in {"none", "ok", "rejected", "failed"}
    BY <1>2, <2>1, FailedTyped DEF Processing
  <2> QED
    BY <1>2, <2>1, <2>2, <2>3, WorkerTyped
<1>9. ASSUME NEW in \in Inputs, Publish(in) PROVE Typed'
  BY <1>9, PublishTyped
<1>10. CASE Notice
  <2>1. PICK outcome \in StartOutcomes :
          /\ durable' = (durable \/ (~sub /\ outcome # "consumer"))
          /\ sub' = (sub \/ outcome = "ok")
          /\ inbox' = IF ~sub /\ outcome = "ok" THEN inbox + 1 ELSE inbox
    BY <1>10, Zenon DEF Notice
  <2>2. sub' \in BOOLEAN /\ durable' \in BOOLEAN /\ inbox' \in {inbox, inbox + 1}
    BY <2>1, Zenon
  <2>3. inbox' \in Nat /\ unseen' \subseteq unseen
    BY <1>10, <2>2 DEF Typed, TypeOK, Notice
  <2>4. UNCHANGED <<stream, pc, cur, work, verdict, result, room,
                    caller, stopping, restarts>>
    BY <1>10 DEF Notice
  <2>5. status' \in {status, [status EXCEPT ![Min(unseen)] = "lost"]}
    BY <1>10, Zenon DEF Notice
  <2>6. status' \in [Positions -> {"new", "out", "due", "acked", "lost"}]
    BY <2>5 DEF Typed, TypeOK
  <2> QED
    BY <2>2, <2>3, <2>4, <2>6 DEF Typed, TypeOK, Positions, room, tables
<1>11. CASE Fetch
  <2>1. PICK i \in Available :
          /\ cur' = i
          /\ status' = [status EXCEPT ![i] = "out"]
          /\ work' = <<[ev |-> stream[i].ev, kind |-> stream[i].kind,
                        hasState |-> stream[i].hasState, gap |-> "no"]>>
    BY <1>11, FetchPicks
  <2>2. i \in Positions /\ stream[i] \in Inputs
    BY DEF Available, Positions, Typed, TypeOK
  <2>3. work' \in Seq(Jobs) /\ work' # <<>>
    <3>1. [ev |-> stream[i].ev, kind |-> stream[i].kind,
           hasState |-> stream[i].hasState, gap |-> "no"] \in Jobs
      BY <2>2, InputAssumption DEF Jobs, Kinds
    <3> QED BY <2>1, <3>1
  <2>4. ASSUME NEW j \in 1 .. Len(work')
        PROVE  /\ work'[j].ev \in Events /\ work'[j].kind \in Kinds
               /\ work'[j].hasState \in BOOLEAN
               /\ work'[j].gap \in {"no", "filled", "failed"}
    <3>1. work'[j] \in Jobs
      BY <2>3, ElementOfSeq
    <3> QED BY <3>1 DEF Jobs
  <2>5. status' \in [Positions -> {"new", "out", "due", "acked", "lost"}] /\ cur' \in 0 .. Len(stream)
    BY <2>1, <2>2 DEF Typed, TypeOK, Positions
  <2>6. /\ inbox' \in Nat /\ pc' = "begin"
        /\ UNCHANGED <<stream, unseen, durable, sub, verdict, result, tables, caller,
                       stopping, restarts>>
        /\ declined' \subseteq declined
    BY <1>11 DEF Fetch, Fetching, Typed, TypeOK
  <2> QED
    BY <2>1, <2>2, <2>3, <2>4, <2>5, <2>6 DEF Typed, TypeOK, Positions, Processing, room, tables
<1>12. CASE FetchFails
  BY <1>12 DEF FetchFails, Fetching, Typed, TypeOK, Positions, Processing, queue, room, tables
<1>13. CASE Expire
  BY <1>13 DEF Expire, Typed, TypeOK, Positions, Processing, queue, room, tables
<1>14. CASE Ack
  <2>1. cur \in Positions /\ pc = "ack"
    BY <1>14 DEF Ack, Typed
  <2>2. status' \in [Positions -> {"new", "out", "due", "acked", "lost"}]
    BY <1>14, <2>1 DEF Ack, Typed, TypeOK
  <2>3. caller' \in [Positions -> {"none", "waiting", "ok", "rejected", "failed", "gone"}]
    <3>1. result \in {"ok", "rejected", "failed"}
      BY <2>1 DEF Typed
    <3> QED
      BY <1>14, <2>1, <3>1 DEF Ack, Typed, TypeOK
  <2>4. /\ inbox' \in Nat /\ pc' = "fetch" /\ cur' = 0 /\ result' = "none"
        /\ UNCHANGED <<stream, unseen, durable, sub, work, verdict, room, stopping,
                       restarts>>
    BY <1>14 DEF Ack, Typed, TypeOK
  <2>5. 0 \in 0 .. Len(stream)
    BY DEF Typed, TypeOK
  <2> QED
    BY <2>2, <2>3, <2>4, <2>5 DEF Typed, TypeOK, Positions, Processing, room, tables
<1>15. ASSUME NEW i, AckTimeout(i) PROVE Typed'
  <2>1. status' \in [Positions -> {"new", "out", "due", "acked", "lost"}]
    BY <1>15 DEF AckTimeout, Typed, TypeOK
  <2>2. UNCHANGED <<stream, unseen, durable, worker, room, caller, stopping, restarts>>
    BY <1>15 DEF AckTimeout
  <2> QED
    BY <2>1, <2>2 DEF Typed, TypeOK, Positions, worker, room, tables
<1>16. ASSUME NEW i, GiveUp(i) PROVE Typed'
  <2>1. caller' \in [Positions -> {"none", "waiting", "ok", "rejected", "failed", "gone"}]
    BY <1>16 DEF GiveUp, Typed, TypeOK
  <2>2. UNCHANGED <<queue, worker, room, stopping, restarts>>
    BY <1>16 DEF GiveUp
  <2> QED
    BY <2>1, <2>2 DEF Typed, TypeOK, Positions, queue, worker, room, tables
<1>17. CASE Stop
  <2>1. stopping' \in BOOLEAN /\ UNCHANGED <<queue, worker, room, caller, restarts>>
    BY <1>17, Zenon DEF Stop
  <2> QED
    BY <2>1 DEF Typed, TypeOK, Positions, queue, worker, room, tables
<1>18. CASE Restart
  <2>1. caller' \in [Positions -> {"none", "waiting", "ok", "rejected", "failed", "gone"}]
    BY <1>18 DEF Restart, Typed, TypeOK
  <2>2. sub' \in BOOLEAN /\ stopping' \in BOOLEAN
    BY <1>18, Zenon DEF Restart
  <2>3. /\ restarts' \in 0 .. MaxRestarts /\ inbox' = 0 /\ pc' = "fetch" /\ cur' = 0
        /\ work' = <<>> /\ verdict' = "none" /\ result' = "none"
        /\ unseen' \subseteq Positions /\ UNCHANGED <<stream, status, durable, room>>
    BY <1>18, InputAssumption DEF Restart, Typed, TypeOK
  <2>4. 0 \in 0 .. Len(stream)
    BY DEF Typed, TypeOK
  <2> QED
    BY <2>1, <2>2, <2>3, <2>4 DEF Typed, TypeOK, Positions, Processing, room, tables
<1>19. CASE UNCHANGED vars
  BY <1>19 DEF Typed, TypeOK, Positions, Job, vars, queue, worker, room, tables
<1> QED
  BY <1>3, <1>4, <1>5, <1>6, <1>7, <1>8, <1>9, <1>10, <1>11, <1>12, <1>13, <1>14,
     <1>15, <1>16, <1>17, <1>18, <1>19 DEF Next, Worker

\* The process starts with the types.
LEMMA InitTyped == ASSUME Init PROVE Typed
<1>1. sub \in BOOLEAN /\ stopping \in BOOLEAN /\ durable \in BOOLEAN
  BY Zenon DEF Init
<1>2. /\ stream = <<>> /\ status = <<>> /\ unseen = {} /\ inbox = 0 /\ pc = "fetch"
      /\ cur = 0 /\ work = <<>> /\ verdict = "none" /\ result = "none"
      /\ caller = <<>> /\ restarts = 0
  BY DEF Init
<1>3. /\ Len(stream) = 0 /\ Len(work) = 0 /\ stream \in Seq(Inputs) /\ work \in Seq(Jobs)
  BY <1>2, EmptySeq
<1>4. /\ status \in [Positions -> {"new", "out", "due", "acked", "lost"}]
      /\ caller \in [Positions -> {"none", "waiting", "ok", "rejected", "failed", "gone"}]
  BY <1>2, <1>3 DEF Positions
<1>5. /\ stored \in [Events -> {"no", "ok", "rejected"}]
      /\ refs \subseteq Events /\ snap \subseteq Events /\ sent \subseteq Events
      /\ latest \subseteq Events /\ produced \subseteq Events /\ declined \subseteq Positions
  BY InputAssumption DEF Init
<1> QED
  BY <1>1, <1>2, <1>3, <1>4, <1>5, InputAssumption DEF Typed, TypeOK, Positions, Processing

\* Every variable keeps its type, and the rejected flag of a stored event is
\* one of the two values StoreEvent() writes.
THEOREM TypeCorrect == Spec => []TypeOK
<1>1. Init => Typed
  BY InitTyped
<1>2. Typed => TypeOK
  BY DEF Typed
<1> QED
  BY <1>1, <1>2, TypedStep, PTL DEF Spec

-----------------------------------------------------------------------------
(* Nothing is acknowledged unhandled                                       *)

\* The inductive invariant: the last job is the message's event and the others
\* fill its gap, and what is about to be acknowledged has been handled, or its
\* acknowledgement is withheld because of the shutdown.
Handled ==
    /\ AckedIsHandled
    /\ \A j \in 1 .. Len(work) - 1 : work[j].kind = "old"
    /\ pc \in Processing => /\ work[Len(work)].ev = stream[cur].ev
                            /\ work[Len(work)].kind = stream[cur].kind
    /\ pc = "ack" /\ stream[cur].kind = "new" =>
          \/ result # "ok" /\ stopping
          \/ stream[cur].ev \in sent \/ cur \in declined

\* A step of processRoomEvent() that goes on with the message, or ends with
\* its event handled.
LEMMA HandledWorker ==
    ASSUME Typed, Handled, pc \in Processing,
           UNCHANGED <<stream, status, cur>>,
           sent \subseteq sent', declined \subseteq declined',
           \A j \in 1 .. Len(work') - 1 : work'[j].kind = "old",
           pc' \in Processing => /\ work'[Len(work')].ev = work[Len(work)].ev
                                 /\ work'[Len(work')].kind = work[Len(work)].kind,
           pc' = "ack" /\ work[Len(work)].kind = "new" =>
              \/ result' # "ok" /\ stopping'
              \/ work[Len(work)].ev \in sent' \/ cur \in declined'
    PROVE  Handled'
BY DEF Handled, AckedIsHandled, Positions

\* A new event is the last job.
LEMMA NewIsLast ==
    ASSUME Typed, Handled, pc \in Processing, Job.kind = "new"
    PROVE  Job = work[Len(work)] /\ Len(work) = 1
<1>1. work \in Seq(Jobs) /\ work # <<>>
  BY DEF Typed
<1>2. \/ Len(work) = 1 /\ Head(work) = work[Len(work)]
      \/ Len(work) > 1
  BY <1>1, LastOfTail
<1>3. CASE Len(work) > 1
  <2>1. Len(work) \in Nat
    BY <1>1
  <2>2. 1 \in 1 .. Len(work) - 1
    BY <1>3, <2>1
  <2>3. work[1].kind = "old"
    BY <2>2 DEF Handled
  <2>4. Job = work[1]
    BY <1>1 DEF Job
  <2> QED
    BY <2>3, <2>4
<1> QED
  BY <1>2, <1>3 DEF Job

\* What is left of the jobs.
LEMMA TailOld ==
    ASSUME Typed, Handled, pc \in Processing
    PROVE  \A j \in 1 .. Len(Tail(work)) - 1 : Tail(work)[j].kind = "old"
<1> DEFINE n == Len(work)
<1>1. work \in Seq(Jobs) /\ work # <<>>
  BY DEF Typed
<1>2. /\ Len(Tail(work)) = n - 1 /\ n \in Nat
      /\ \A i \in 1 .. Len(Tail(work)) : Tail(work)[i] = work[i + 1]
  BY <1>1, HeadTailProperties
<1>3. \A j \in 1 .. n - 1 : work[j].kind = "old"
  BY DEF Handled
<1> HIDE DEF n
<1>4. ASSUME NEW j \in 1 .. Len(Tail(work)) - 1
      PROVE  j + 1 \in 1 .. n - 1 /\ j \in 1 .. Len(Tail(work))
  BY <1>2
<1> QED
  BY <1>2, <1>3, <1>4

\* The end of a job whose event, if new, is handled.
LEMMA HandledDone ==
    ASSUME Typed, Handled, pc \in Processing, NEW res, Done(res),
           UNCHANGED <<stream, status, cur>>,
           sent \subseteq sent', declined \subseteq declined',
           Job.kind = "new" => Job.ev \in sent' \/ cur \in declined'
    PROVE  Handled'
<1>1. \/ pc' = "begin" /\ work'[Len(work')] = work[Len(work)]
      \/ pc' = "ack" /\ Job = work[Len(work)]
  BY DoneTyped
<1>2. \A j \in 1 .. Len(work') - 1 : work'[j].kind = "old"
  BY TailOld DEF Done
<1> QED
  BY <1>1, <1>2, HandledWorker DEF Processing

\* Every step keeps it.
LEMMA HandledStep == ASSUME Typed, Handled, [Next]_vars PROVE Handled'
<1>1. ASSUME UNCHANGED <<stream, pc, work, cur, verdict, result, sent, declined>>,
             \A i \in Positions : status'[i] = "acked" => status[i] = "acked",
             stopping => stopping'
      PROVE  Handled'
  BY <1>1 DEF Handled, AckedIsHandled, Positions, Job
<1>2. ASSUME UNCHANGED <<stream, sent, declined>>,
             \A i \in Positions : status'[i] = "acked" => status[i] = "acked",
             pc' \in {"fetch", "expire"},
             work' = work \/ work' = <<>>
      PROVE  Handled'
  <2>1. \A j \in 1 .. Len(work') - 1 : work'[j].kind = "old"
    <3>1. CASE work' = <<>>
      BY <3>1
    <3>2. CASE work' = work
      BY <3>2 DEF Handled
    <3> QED BY <1>2, <3>1, <3>2
  <2> QED
    BY <1>2, <2>1 DEF Handled, AckedIsHandled, Positions, Processing
<1>3. CASE Begin
  <2>1. /\ pc = "begin" /\ pc \in Processing
        /\ UNCHANGED <<stream, status, cur, sent, declined>>
    BY <1>3 DEF Begin, Processing, queue, room, tables
  <2>2. Job \in Jobs /\ work # <<>> /\ work \in Seq(Jobs)
    BY <2>1 DEF Typed, Job
  <2>3. CASE Job.kind = "outlier" /\ Done("ok")
    BY <2>1, <2>3, HandledDone
  <2>4. ASSUME NEW gap \in Gaps(Job.ev), Job.kind = "new",
               work' = GapJobs(gap) \o <<[Job EXCEPT !.gap = "filled"]>>,
               UNCHANGED <<pc, verdict, result>>
        PROVE  Handled'
    <3>1. /\ work'[Len(work')] = [Job EXCEPT !.gap = "filled"]
          /\ \A j \in 1 .. Len(work') - 1 : work'[j].kind = "old"
      <4> DEFINE j == [Job EXCEPT !.gap = "filled"]
      <4>1. ASSUME NEW w, w = work'
            PROVE  w[Len(w)] = j /\ \A k \in 1 .. Len(w) - 1 : w[k].kind = "old"
        <5>1. w = GapJobs(gap) \o <<j>>
          BY <2>4, <4>1, Zenon
        <5> QED
          BY <2>1, <5>1, GapJobsTyped, Zenon
      <4> QED BY <4>1, Zenon
    <3>2. work'[Len(work')].ev = Job.ev /\ work'[Len(work')].kind = Job.kind
      BY <2>2, <3>1 DEF Jobs
    <3>3. Job = work[Len(work)]
      BY <2>1, <2>4, NewIsLast
    <3>4. pc' = "begin"
      BY <2>1, <2>4
    <3> QED
      BY <2>1, <3>1, <3>2, <3>3, <3>4, HandledWorker
  <2>5. ASSUME NEW j, work' = <<j>>, j.ev = Job.ev, j.kind = Job.kind,
               pc' = "store", UNCHANGED <<verdict, result>>, Job.kind = "new"
        PROVE  Handled'
    <3>1. work'[Len(work')] = j /\ Len(work') = 1
      BY <2>5
    <3>2. Job = work[Len(work)]
      BY <2>1, <2>5, NewIsLast
    <3>3. \A k \in 1 .. Len(work') - 1 : work'[k].kind = "old"
      BY <3>1
    <3> QED
      BY <2>1, <2>5, <3>1, <3>2, <3>3, HandledWorker
  <2>6. CASE pc' = "store" /\ UNCHANGED <<work, verdict, result>>
    <3>1. \A k \in 1 .. Len(work') - 1 : work'[k].kind = "old"
      BY <2>6 DEF Handled
    <3> QED BY <2>1, <2>6, <3>1, HandledWorker
  <2> DEFINE failed == [Job EXCEPT !.gap = "failed"]
             stated == [Job EXCEPT !.hasState = TRUE]
  <2>7. /\ failed.ev = Job.ev /\ failed.kind = Job.kind
        /\ stated.ev = Job.ev /\ stated.kind = Job.kind
    BY <2>2 DEF Jobs
  <2>8. \/ Job.kind = "outlier" /\ Done("ok")
        \/ /\ Job.kind = "new" /\ UNCHANGED <<pc, verdict, result>>
           /\ \E gap \in Gaps(Job.ev) :
                 work' = GapJobs(gap) \o <<[Job EXCEPT !.gap = "filled"]>>
        \/ /\ Job.kind = "new" /\ pc' = "store" /\ UNCHANGED <<verdict, result>>
           /\ work' = <<failed>> \/ work' = <<stated>>
        \/ pc' = "store" /\ UNCHANGED <<work, verdict, result>>
    BY <1>3, Zenon DEF Begin, Known, Needs
  <2> HIDE DEF failed, stated
  <2> QED
    BY <2>3, <2>4, <2>5, <2>6, <2>7, <2>8
<1>4. CASE Store
  <2>1. /\ pc = "store" /\ pc' = "state" /\ pc \in Processing
        /\ UNCHANGED <<stream, status, cur, work, sent, declined>>
    BY <1>4 DEF Store, Processing, queue
  <2>2. \A k \in 1 .. Len(work') - 1 : work'[k].kind = "old"
    BY <2>1 DEF Handled
  <2> QED
    BY <2>1, <2>2, HandledWorker
<1>5. CASE SetState
  <2>1. /\ pc = "state" /\ pc \in Processing
        /\ UNCHANGED <<stream, status, cur, sent>>
        /\ declined' = IF Len(work) = 1 /\ verdict # "ok"
                       THEN declined \cup {cur} ELSE declined
    BY <1>5 DEF SetState, Processing, queue
  <2>2. Job.kind = "new" /\ verdict # "ok" => cur \in declined'
    BY <2>1, NewIsLast
  <2>3. ASSUME NEW res, Done(res), Job.kind # "new" \/ verdict # "ok"
        PROVE  Handled'
    BY <2>1, <2>2, <2>3, HandledDone
  <2>4. CASE pc' = "latest" /\ UNCHANGED <<work, verdict, result>>
    <3>1. \A k \in 1 .. Len(work') - 1 : work'[k].kind = "old"
      BY <2>4 DEF Handled
    <3> QED BY <2>1, <2>4, <3>1, HandledWorker
  <2> QED
    BY <1>5, <2>3, <2>4 DEF SetState
<1>6. ASSUME Failed, pc \in Processing, UNCHANGED <<stream, status, cur, sent>>,
             declined \subseteq declined', stopping => stopping',
             ~(Len(work) > 1) => stopping \/ cur \in declined'
      PROVE  Handled'
  <2>1. /\ \/ /\ Len(work) > 1 /\ pc' = "store"
              /\ work'[Len(work')].ev = work[Len(work)].ev
              /\ work'[Len(work')].kind = work[Len(work)].kind
           \/ /\ ~(Len(work) > 1)
              /\ pc' = "ack" /\ result' = "failed" /\ Job = work[Len(work)]
    BY <1>6, FailedTyped
  <2>2. \A k \in 1 .. Len(work') - 1 : work'[k].kind = "old"
    <3>1. work' = <<>> \/ \E x : work' = <<x>>
      BY <1>6, Zenon DEF Failed
    <3>2. Len(work') = 0 \/ Len(work') = 1
      <4>1. ASSUME NEW x, work' = <<x>> PROVE Len(work') = 1
        BY <4>1
      <4>2. ASSUME work' = <<>> PROVE Len(work') = 0
        BY <4>2
      <4> QED BY <3>1, <4>1, <4>2, Zenon
    <3>3. ASSUME NEW n, n = 0 \/ n = 1 PROVE 1 .. n - 1 = {}
      BY <3>3
    <3>4. 1 .. Len(work') - 1 = {}
      BY <3>2, <3>3, Zenon
    <3> QED BY <3>4, Zenon
  <2> QED
    BY <1>6, <2>1, <2>2, HandledWorker DEF Processing
<1>7. CASE Latest
  <2>1. /\ pc = "latest" /\ pc \in Processing
        /\ UNCHANGED <<stream, status, cur, sent, stopping>>
    BY <1>7 DEF Latest, Processing, queue
  <2>2. CASE Done("ok") /\ (Job.kind = "old" \/ Job.ev \in sent) /\ UNCHANGED declined
    <3>1. Job.kind = "new" => Job.ev \in sent' \/ cur \in declined'
      BY <2>1, <2>2
    <3> QED BY <2>1, <2>2, <3>1, HandledDone
  <2>3. CASE Failed /\ declined' = declined \cup {cur}
    BY <2>1, <2>3, <1>6
  <2>4. CASE pc' = "commit" /\ UNCHANGED <<work, verdict, result, declined>>
    <3>1. \A k \in 1 .. Len(work') - 1 : work'[k].kind = "old"
      BY <2>4 DEF Handled
    <3> QED BY <2>1, <2>4, <3>1, HandledWorker
  <2> QED
    BY <1>7, <2>2, <2>3, <2>4 DEF Latest
<1>8. CASE Commit
  <2>1. /\ pc = "commit" /\ pc \in Processing /\ Done("ok")
        /\ UNCHANGED <<stream, status, cur, declined>>
        /\ sent' = sent \cup {Job.ev}
    BY <1>8 DEF Commit, Processing, queue
  <2> QED
    BY <2>1, HandledDone
<1>9. CASE Fail
  <2>1. /\ pc \in Processing /\ Failed
        /\ UNCHANGED <<stream, status, cur, sent, stopping>>
        /\ declined' = IF stopping \/ Len(work) > 1 THEN declined
                       ELSE declined \cup {cur}
    BY <1>9 DEF Fail, Processing, queue, tables
  <2>2. declined \subseteq declined' /\ (~(Len(work) > 1) => stopping \/ cur \in declined')
    BY <2>1
  <2> QED
    BY <2>1, <2>2, <1>6
<1>10. ASSUME NEW in \in Inputs, Publish(in) PROVE Handled'
  <2>1. /\ UNCHANGED <<pc, work, cur, verdict, result, sent, declined, stopping>>
        /\ stream' = Append(stream, in) /\ status' = Append(status, "new")
    BY <1>10 DEF Publish, worker, room, tables
  <2>2. /\ stream \in Seq(Inputs) /\ Len(stream) \in Nat
        /\ status \in [1 .. Len(stream) -> {"new", "out", "due", "acked", "lost"}]
    BY DEF Typed, TypeOK, Positions
  <2>3. \A i \in 1 .. Len(stream) : stream'[i] = stream[i] /\ status'[i] = status[i]
    BY <2>1, <2>2
  <2>4. Len(stream') = Len(stream) + 1 /\ status'[Len(stream) + 1] = "new"
    BY <2>1, <2>2
  <2>5. pc \in Processing \cup {"ack"} => cur \in 1 .. Len(stream)
    BY DEF Typed, Positions
  <2>6. AckedIsHandled'
    BY <2>1, <2>2, <2>3, <2>4 DEF Handled, AckedIsHandled, Positions
  <2> QED
    BY <2>1, <2>3, <2>5, <2>6 DEF Handled, Job
<1>11. CASE Notice
  <2>1. status' \in {status, [status EXCEPT ![Min(unseen)] = "lost"]}
    BY <1>11, Zenon DEF Notice
  <2>2. \A i \in Positions : status'[i] = "acked" => status[i] = "acked"
    BY <2>1 DEF Typed, TypeOK
  <2>3. UNCHANGED <<stream, pc, cur, work, verdict, result, room, stopping>>
    BY <1>11 DEF Notice
  <2> QED
    BY <1>1, <2>2, <2>3 DEF room, tables
<1>12. CASE Fetch
  <2>1. PICK i \in Available :
          /\ cur' = i
          /\ status' = [status EXCEPT ![i] = "out"]
          /\ work' = <<[ev |-> stream[i].ev, kind |-> stream[i].kind,
                        hasState |-> stream[i].hasState, gap |-> "no"]>>
    BY <1>12, FetchPicks
  <2>2. /\ pc' = "begin" /\ UNCHANGED <<stream, sent>>
        /\ \A j \in Positions : status'[j] = "acked" => status[j] = "acked" /\ j # i
    BY <1>12, <2>1 DEF Fetch, tables, Typed, TypeOK, Available
  <2>5. declined' = declined \ {cur'}
    BY <1>12 DEF Fetch
  <2>3. Len(work') = 1 /\ work'[1].ev = stream[i].ev /\ work'[1].kind = stream[i].kind
    BY <2>1
  <2>4. \A k \in 1 .. Len(work') - 1 : work'[k].kind = "old"
    BY <2>3
  <2> QED
    BY <2>1, <2>2, <2>3, <2>4, <2>5 DEF Handled, AckedIsHandled, Positions, Processing
<1>13. CASE FetchFails
  BY <1>2, <1>13 DEF FetchFails, queue, room, tables
<1>14. CASE Expire
  BY <1>2, <1>14 DEF Expire, queue, room, tables
<1>15. CASE Ack
  <2>1. /\ pc = "ack" /\ cur \in Positions /\ pc' = "fetch"
        /\ UNCHANGED <<stream, work, sent, declined>>
        /\ status' = IF result # "ok" /\ stopping THEN status
                     ELSE [status EXCEPT ![cur] = "acked"]
    BY <1>15 DEF Ack, Typed, room, tables
  <2>2. AckedIsHandled'
    BY <2>1 DEF Handled, AckedIsHandled, Typed, TypeOK, Positions
  <2> QED
    BY <2>1, <2>2 DEF Handled, Processing
<1>16. ASSUME NEW i \in Positions, AckTimeout(i) PROVE Handled'
  <2>1. \A j \in Positions : status'[j] = "acked" => status[j] = "acked"
    BY <1>16 DEF AckTimeout, Typed, TypeOK
  <2> QED
    BY <1>1, <1>16, <2>1 DEF AckTimeout, worker, room, tables
<1>17. ASSUME NEW i \in Positions, GiveUp(i) PROVE Handled'
  BY <1>1, <1>17 DEF GiveUp, queue, worker, room, tables
<1>18. CASE Stop
  <2>1. stopping' /\ UNCHANGED <<queue, worker, room>>
    BY <1>18, Zenon DEF Stop
  <2> QED
    BY <1>1, <2>1 DEF queue, worker, room, tables
<1>19. CASE Restart
  BY <1>2, <1>19 DEF Restart, room, tables
<1>20. CASE UNCHANGED vars
  BY <1>1, <1>20 DEF vars, queue, worker, room, tables
<1> QED
  BY <1>3, <1>4, <1>5, <1>7, <1>8, <1>9, <1>10, <1>11, <1>12, <1>13, <1>14, <1>15,
     <1>16, <1>17, <1>18, <1>19, <1>20 DEF Next, Worker

\* A message is acknowledged only when its event has reached the output log
\* and the extremities, or its last processing declined it; no crash,
\* redelivery or shutdown in the middle of processRoomEvent() has it
\* acknowledged unhandled (_next()).  Messages that the stream drops because
\* their durable consumer could not be made are not acknowledged and not
\* covered (Notice, status "lost").
THEOREM AckedAlwaysHandled == Spec => []AckedIsHandled
<1>1. ASSUME Init PROVE Typed /\ Handled
  <2>1. stream = <<>> /\ work = <<>> /\ pc = "fetch"
    BY <1>1 DEF Init
  <2>2. Positions = {} /\ 1 .. Len(work) - 1 = {}
    BY <2>1 DEF Positions
  <2> QED
    BY <1>1, <2>1, <2>2, InitTyped DEF Handled, AckedIsHandled, Processing
<1>2. Handled => AckedIsHandled
  BY DEF Handled
<1> QED
  BY <1>1, <1>2, TypedStep, HandledStep, PTL DEF Spec
=============================================================================
