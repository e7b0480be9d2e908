------------------------ MODULE DeviceListUpdaterProofs ------------------------
(***************************************************************************)
(* Theorems about DeviceListUpdater for any sets of users, devices and     *)
(* servers, any capacity of the channel and any number of changes,         *)
(* failures and crashes.                                                   *)
(***************************************************************************)
EXTENDS DeviceListUpdater, SequenceTheorems, FiniteSetTheorems,
        WellFoundedInduction, TLAPS

-----------------------------------------------------------------------------
(* The invariants                                                          *)

Changes  == [device : Devices, deleted : BOOLEAN]
Messages == [user : Users, id : Nat]

\* The variables TypeOK says nothing about.
RemoteTyped ==
    /\ history \in [Users -> Seq(Changes)]
    /\ stream \in Seq(Messages)
    /\ DOMAIN rows = Users
    /\ seen \in [Users -> Nat]

\* The parts of TypeOK.
SetsTyped ==
    /\ stale \subseteq Users /\ manual \subseteq Users /\ timers \subseteq Users
    /\ raced \subseteq Users /\ abandoned \subseteq stale
    /\ retries \subseteq Servers /\ restarting \subseteq Servers
    /\ blacklisted \subseteq Servers
ChanTyped == chan \in Seq(Servers) /\ Len(chan) <= ChanCap
RowsTyped ==
    \A u \in Users :
       /\ seen[u] \in 0 .. Len(history[u])
       /\ \A d \in DOMAIN rows[u] :
             /\ d \in Devices
             /\ rows[u][d].stream \in 1 .. Len(history[u])
             /\ rows[u][d].key \in 0 .. rows[u][d].stream
ConsTyped ==
    /\ cons.pc \in {"idle", "checked", "emit", "poke", "done"}
    /\ cons.pc # "idle" => stream # <<>>

\* The worker's record grows a field with each step of processServer.
WorkerTyped ==
    /\ "pc" \in DOMAIN worker
    /\ worker.pc \in {"idle", "load", "next", "fetched", "stored"}
    /\ worker.pc # "idle" =>
          "server" \in DOMAIN worker /\ worker.server \in Servers
    /\ worker.pc \in {"next", "fetched", "stored"} =>
          /\ "todo" \in DOMAIN worker
          /\ worker.todo \subseteq {u \in Users : ServerOf[u] = worker.server}
    /\ worker.pc \in {"fetched", "stored"} =>
          /\ "user" \in DOMAIN worker /\ worker.user \in Users
          /\ "id" \in DOMAIN worker /\ worker.id \in Nat
          /\ worker.user \in worker.todo
          /\ worker.id <= Len(history[worker.user])

\* The stream keeps a user's updates in their order, and none is older than the
\* last one that was handled.
Ordered ==
    /\ \A i \in 1 .. Len(stream) :
          /\ stream[i].id \in 1 .. Len(history[stream[i].user])
          /\ seen[stream[i].user] <= stream[i].id
    /\ \A i, j \in 1 .. Len(stream) :
          i < j /\ stream[i].user = stream[j].user => stream[i].id < stream[j].id

\* The rows of user u are those of change n, and no row is newer; when one is
\* older then change n was handled by the consumer.
Faithful(u, n) ==
    /\ Matches(u, n)
    /\ \A d \in DOMAIN rows[u] :
          \/ rows[u][d].stream = n
          \/ rows[u][d].stream < n /\ n = seen[u]

\* Every list that is neither stale nor raced is faithful to a moment not before
\* the last update that was handled.
Lists == \A u \in Users \ (stale \cup raced) :
            \E n \in seen[u] .. Len(history[u]) : Faithful(u, n)

\* What StoreList wrote is still there when MarkFresh declares the list fresh,
\* unless an update was handled in between.
Stored == (worker.pc = "stored" /\ worker.user \notin raced /\ seen[worker.user] <= worker.id)
          => /\ Matches(worker.user, worker.id)
             /\ \A d \in DOMAIN rows[worker.user] :
                   rows[worker.user][d].stream = worker.id

\* The row PrevIDsExists found is there when the update is applied.
Found == (cons.pc = "checked" /\ cons.exists /\ Head(stream).user \notin raced)
         => /\ Head(stream).id > 1
            /\ \E d \in DOMAIN rows[Head(stream).user] :
                  rows[Head(stream).user][d].stream = Head(stream).id - 1

-----------------------------------------------------------------------------
(* The remote list                                                         *)

\* A non-empty set of change numbers has a last one.
LEMMA LastExists ==
    ASSUME NEW n \in Nat, NEW S \in SUBSET (1 .. n), S # {}
    PROVE  \E x \in S : \A y \in S : y <= x
<1> DEFINE R == {p \in Nat \X Nat : p[1] < p[2]}
           T == {n - x : x \in S}
<1>1. IsWellFoundedOn(R, Nat)
  BY NatLessThanWellFounded, Zenon DEF OpToRel
<1>2. \A x \in S : n - x \in Nat /\ n - x \in T
  OBVIOUS
<1>3. T \subseteq Nat /\ T # {}
  BY <1>2
<1> HIDE DEF R
<1>4. PICK t \in T : \A u \in T : ~ (<<u, t>> \in R)
  BY <1>1, <1>3, WFMin
<1>5. PICK x \in S : t = n - x
  OBVIOUS
<1>6. ASSUME NEW y \in S PROVE y <= x
  <2>1. ~ (<<n - y, t>> \in R)
    BY <1>2, <1>4
  <2>2. ~ (n - y < t)
    BY <1>2, <1>3, <2>1 DEF R
  <2> QED
    BY <1>5, <2>2
<1> QED
  BY <1>6

\* A key is the number of a change not after n.
LEMMA KeyInRange ==
    ASSUME NEW u, NEW n \in Nat, NEW d
    PROVE  KeyAt(u, n, d) \in 0 .. n
<1> DEFINE changes == {i \in 1 .. n : history[u][i].device = d}
           last == CHOOSE i \in changes : \A j \in changes : j <= i
<1>1. CASE changes = {}
  BY <1>1 DEF KeyAt
<1>2. CASE changes # {}
  <2>1. \E i \in changes : \A j \in changes : j <= i
    BY <1>2, LastExists
  <2>2. last \in changes
    BY <2>1
  <2>3. KeyAt(u, n, d) = 0 \/ KeyAt(u, n, d) = last
    BY DEF KeyAt
  <2>4. changes \subseteq 1 .. n
    OBVIOUS
  <2> HIDE DEF changes, last
  <2> QED
    BY <2>2, <2>3, <2>4
<1> QED
  BY <1>1, <1>2

\* Change n decides about its own device and no other.
LEMMA KeyStep ==
    ASSUME NEW u, NEW n \in Nat \ {0}, NEW d
    PROVE  KeyAt(u, n, d) =
              IF history[u][n].device = d
              THEN IF history[u][n].deleted THEN 0 ELSE n
              ELSE KeyAt(u, n - 1, d)
<1> DEFINE C(k) == {i \in 1 .. k : history[u][i].device = d}
           last(k) == CHOOSE i \in C(k) : \A j \in C(k) : j <= i
<1>1. CASE history[u][n].device = d
  <2>1. n \in C(n) /\ \A j \in C(n) : j <= n
    BY <1>1
  <2>2. \A i \in C(n) : (\A j \in C(n) : j <= i) => i = n
    <3> SUFFICES ASSUME NEW i \in C(n), \A j \in C(n) : j <= i PROVE i = n
      OBVIOUS
    <3>1. n <= i /\ i <= n /\ i \in Nat
      BY <2>1
    <3> QED
      BY <3>1
  <2> HIDE DEF C
  <2>3. last(n) \in C(n) /\ \A j \in C(n) : j <= last(n)
    BY <2>1
  <2>4. last(n) = n
    BY <2>2, <2>3
  <2> USE DEF C
  <2>5. KeyAt(u, n, d) = IF C(n) = {} THEN 0 ELSE IF history[u][last(n)].deleted THEN 0 ELSE last(n)
    BY DEF KeyAt
  <2> HIDE DEF C, last
  <2> QED
    BY <1>1, <2>1, <2>4, <2>5
<1>2. CASE history[u][n].device # d
  <2>1. C(n) = C(n - 1)
    BY <1>2
  <2>2. /\ KeyAt(u, n, d) = IF C(n) = {} THEN 0 ELSE IF history[u][last(n)].deleted THEN 0 ELSE last(n)
        /\ KeyAt(u, n - 1, d) = IF C(n - 1) = {} THEN 0
                                ELSE IF history[u][last(n - 1)].deleted THEN 0 ELSE last(n - 1)
    BY DEF KeyAt
  <2> HIDE DEF C
  <2>3. last(n) = last(n - 1)
    BY <2>1
  <2> HIDE DEF last
  <2> QED
    BY <1>2, <2>1, <2>2, <2>3
<1> QED
  BY <1>1, <1>2

\* Later changes do not alter what the list was.
LEMMA KeyKept ==
    ASSUME NEW u, NEW n \in Nat, NEW d,
           \A i \in 1 .. n : history'[u][i] = history[u][i]
    PROVE  KeyAt(u, n, d)' = KeyAt(u, n, d)
<1> DEFINE A == {i \in 1 .. n : history[u][i].device = d}
           B == {i \in 1 .. n : history'[u][i].device = d}
           lastA == CHOOSE i \in A : \A j \in A : j <= i
           lastB == CHOOSE i \in B : \A j \in B : j <= i
<1>1. A = B
  OBVIOUS
<1>2. /\ KeyAt(u, n, d) = IF A = {} THEN 0 ELSE IF history[u][lastA].deleted THEN 0 ELSE lastA
      /\ KeyAt(u, n, d)' = IF B = {} THEN 0 ELSE IF history'[u][lastB].deleted THEN 0 ELSE lastB
  BY DEF KeyAt
<1>3. A # {} => lastA \in A
  <2>1. A # {} => \E i \in A : \A j \in A : j <= i
    BY LastExists
  <2> HIDE DEF A
  <2> QED
    BY <2>1
<1>4. A # {} => history'[u][lastA] = history[u][lastA]
  BY <1>3
<1> HIDE DEF A, B
<1>5. lastA = lastB
  BY <1>1
<1> HIDE DEF lastA, lastB
<1> QED
  BY <1>1, <1>2, <1>4, <1>5

-----------------------------------------------------------------------------
(* Types                                                                   *)

Typed == /\ RemoteTyped /\ SetsTyped /\ ChanTyped /\ RowsTyped /\ ConsTyped
         /\ WorkerTyped /\ Ordered

\* The parts make up the type invariant.
LEMMA TypedIsTypeOK == Typed => TypeOK
BY DEF Typed, TypeOK, SetsTyped, ChanTyped, RowsTyped, ConsTyped, WorkerTyped

\* The parts hold initially.
LEMMA TypedInit == Init => Typed
<1> SUFFICES ASSUME Init PROVE Typed
  OBVIOUS
<1>1. RemoteTyped /\ SetsTyped /\ ChanTyped /\ ConsTyped /\ WorkerTyped
  BY BoundsAssumption DEF Init, RemoteTyped, SetsTyped, ChanTyped, ConsTyped, WorkerTyped, Idle
<1>2. RowsTyped /\ Ordered
  BY DEF Init, RowsTyped, Ordered
<1> QED
  BY <1>1, <1>2 DEF Typed

\* The first update of the stream.
LEMMA HeadTyped ==
    ASSUME Typed, stream # <<>>
    PROVE  /\ Head(stream) = stream[1] /\ 1 \in 1 .. Len(stream)
           /\ Head(stream) \in Messages
           /\ Head(stream).id \in 1 .. Len(history[Head(stream).user])
           /\ seen[Head(stream).user] <= Head(stream).id
           /\ Current \in Changes
<1>1. stream \in Seq(Messages)
  BY DEF Typed, RemoteTyped
<1>2. Head(stream) = stream[1] /\ 1 \in 1 .. Len(stream) /\ stream[1] \in Messages
  BY <1>1
<1>3. /\ Head(stream).id \in 1 .. Len(history[Head(stream).user])
      /\ seen[Head(stream).user] <= Head(stream).id
  BY <1>2 DEF Typed, Ordered
<1>4. history[Head(stream).user] \in Seq(Changes)
  BY <1>2 DEF Typed, RemoteTyped, Messages
<1>5. Current \in Changes
  BY <1>3, <1>4, ElementOfSeq DEF Current
<1> QED
  BY <1>2, <1>3, <1>5

\* A change at the remote server keeps the types.
LEMMA ChangeTyped ==
    ASSUME Typed, NEW u \in Users, NEW d \in Devices, NEW deleted \in BOOLEAN,
           NEW sent \in BOOLEAN, Change(u, d, deleted, sent)
    PROVE  Typed'
<1> DEFINE n == Len(history[u]) + 1
           c == [device |-> d, deleted |-> deleted]
           m == [user |-> u, id |-> n]
<1>1. /\ history' = [history EXCEPT ![u] = Append(@, c)]
      /\ stream' = IF sent THEN Append(stream, m) ELSE stream
      /\ UNCHANGED <<rows, stale, cons, manual, timers, chan, worker, retries, restarting,
                     blacklisted, seen, raced, abandoned, budget>>
  BY DEF Change, tables, pokers, engine, ghosts
<1>2. history[u] \in Seq(Changes) /\ n \in Nat /\ c \in Changes /\ m \in Messages
  <2>1. history[u] \in Seq(Changes)
    BY DEF Typed, RemoteTyped
  <2>2. n \in Nat
    BY <2>1, LenProperties
  <2> QED
    BY <2>1, <2>2 DEF Changes, Messages
<1>3. /\ history'[u] \in Seq(Changes) /\ Len(history'[u]) = n
      /\ \A v \in Users : v # u => history'[v] = history[v]
      /\ history' \in [Users -> Seq(Changes)]
  BY <1>1, <1>2, AppendProperties DEF Typed, RemoteTyped
<1>4. \A v \in Users : /\ Len(history[v]) \in Nat /\ Len(history'[v]) \in Nat
                       /\ Len(history[v]) <= Len(history'[v])
  <2>1. \A v \in Users : Len(history[v]) \in Nat
    BY LenProperties DEF Typed, RemoteTyped
  <2> QED
    BY <1>3, <2>1
<1>5. stream' \in Seq(Messages)
  BY <1>1, <1>2, AppendProperties DEF Typed, RemoteTyped
<1>6. RemoteTyped' /\ SetsTyped' /\ ChanTyped'
  BY <1>1, <1>3, <1>5 DEF Typed, RemoteTyped, SetsTyped, ChanTyped
<1>7. RowsTyped'
  <2> SUFFICES ASSUME NEW v \in Users
               PROVE  /\ seen[v] \in 0 .. Len(history'[v])
                      /\ \A e \in DOMAIN rows[v] :
                            /\ e \in Devices
                            /\ rows[v][e].stream \in 1 .. Len(history'[v])
                            /\ rows[v][e].key \in 0 .. rows[v][e].stream
    BY <1>1 DEF RowsTyped
  <2> QED
    BY <1>4 DEF Typed, RowsTyped
<1>8. ConsTyped'
  <2>1. stream # <<>> => stream' # <<>>
    BY <1>1, <1>2, AppendProperties DEF Typed, RemoteTyped
  <2> QED
    BY <1>1, <2>1 DEF Typed, ConsTyped
<1>9. WorkerTyped'
  BY <1>1, <1>4 DEF Typed, WorkerTyped
<1>10. Ordered'
  <2>1. CASE ~sent
    <3>1. \A i \in 1 .. Len(stream) : stream[i] \in Messages
      BY ElementOfSeq DEF Typed, RemoteTyped
    <3>2. stream' = stream /\ seen' = seen
      BY <1>1, <2>1
    <3> QED
      BY <1>4, <3>1, <3>2 DEF Typed, Ordered, Messages
  <2>2. CASE sent
    <3>1. /\ Len(stream') = Len(stream) + 1 /\ Len(stream) \in Nat
          /\ \A i \in 1 .. Len(stream) : stream'[i] = stream[i] /\ stream[i] \in Messages
          /\ stream'[Len(stream) + 1] = m
      BY <1>1, <1>2, <2>2, AppendProperties DEF Typed, RemoteTyped
    <3>2. seen[u] <= n /\ seen[u] \in Nat
      BY <1>2 DEF Typed, RowsTyped, RemoteTyped
    <3>3. ASSUME NEW i \in 1 .. Len(stream')
          PROVE  /\ stream'[i].id \in 1 .. Len(history'[stream'[i].user])
                 /\ seen'[stream'[i].user] <= stream'[i].id
      <4>1. CASE i \in 1 .. Len(stream)
        BY <1>1, <1>4, <3>1, <4>1 DEF Typed, Ordered, Messages
      <4>2. CASE i = Len(stream) + 1
        BY <1>1, <1>2, <1>3, <3>1, <3>2, <4>2
      <4> QED
        BY <3>1, <4>1, <4>2
    <3>4. ASSUME NEW i \in 1 .. Len(stream'), NEW j \in 1 .. Len(stream'), i < j,
                 stream'[i].user = stream'[j].user
          PROVE  stream'[i].id < stream'[j].id
      <4>1. CASE j \in 1 .. Len(stream)
        BY <3>1, <3>4, <4>1 DEF Typed, Ordered
      <4>2. CASE j = Len(stream) + 1
        <5>1. i \in 1 .. Len(stream) /\ stream'[j].id = n /\ stream[i].user = u
          BY <3>1, <3>4, <4>2
        <5>2. stream[i].id \in 1 .. Len(history[u])
          BY <5>1 DEF Typed, Ordered
        <5> QED
          BY <1>2, <3>1, <5>1, <5>2
      <4> QED
        BY <3>1, <4>1, <4>2
    <3> QED
      BY <3>3, <3>4 DEF Ordered
  <2> QED
    BY <2>1, <2>2
<1> QED
  BY <1>6, <1>7, <1>8, <1>9, <1>10 DEF Typed

\* A step that leaves the remote lists, the stream, the rows and what was handled
\* alone has the rest to keep.
LEMMA FrameTyped ==
    ASSUME Typed, UNCHANGED <<history, stream, rows, seen>>,
           SetsTyped', ChanTyped', ConsTyped', WorkerTyped'
    PROVE  Typed'
BY DEF Typed, RemoteTyped, RowsTyped, Ordered

\* Handling the head of the stream keeps the order of the stream.
LEMMA HandledOrdered ==
    ASSUME Typed, stream # <<>>, UNCHANGED remote,
           seen' = [seen EXCEPT ![Head(stream).user] = Head(stream).id]
    PROVE  /\ Ordered'
           /\ seen' \in [Users -> Nat]
           /\ \A u \in Users : seen'[u] \in 0 .. Len(history[u])
<1> DEFINE msg == Head(stream)
<1>1. msg = stream[1] /\ 1 \in 1 .. Len(stream) /\ msg \in Messages /\ stream' = stream
      /\ msg.id \in 1 .. Len(history[msg.user]) /\ history' = history
  BY HeadTyped DEF remote
<1>2. \A i \in 1 .. Len(stream) : stream[i] \in Messages
  BY ElementOfSeq DEF Typed, RemoteTyped
<1>3. ASSUME NEW i \in 1 .. Len(stream) PROVE seen'[stream[i].user] <= stream[i].id
  <2>1. CASE stream[i].user # msg.user
    BY <1>2, <2>1 DEF Typed, Ordered, RemoteTyped, Messages
  <2>2. CASE stream[i].user = msg.user
    <3>1. seen'[stream[i].user] = msg.id
      BY <1>1, <2>2 DEF Typed, RemoteTyped, Messages
    <3>2. i = 1 \/ (1 < i /\ stream[1].id < stream[i].id)
      BY <1>1, <2>2 DEF Typed, Ordered
    <3>3. msg.id <= stream[i].id
      BY <1>1, <1>2, <3>2 DEF Messages
    <3> QED
      BY <3>1, <3>3
  <2> QED
    BY <2>1, <2>2
<1>4. Ordered'
  BY <1>1, <1>3 DEF Typed, Ordered
<1>5. seen' \in [Users -> Nat] /\ \A u \in Users : seen'[u] \in 0 .. Len(history[u])
  BY <1>1 DEF Typed, RemoteTyped, RowsTyped, Messages
<1> QED
  BY <1>4, <1>5

\* The types are kept when the consumer decides about an update,
LEMMA CheckTyped == ASSUME Typed, Check PROVE Typed'
<1>1. /\ UNCHANGED <<history, stream, rows, seen, chan, worker>>
      /\ UNCHANGED <<stale, manual, timers, raced, abandoned, retries, restarting, blacklisted>>
      /\ cons'.pc = "checked" /\ stream # <<>>
  BY DEF Check, remote, tables, engine, ghosts
<1>2. SetsTyped' /\ ChanTyped' /\ ConsTyped' /\ WorkerTyped'
  BY <1>1 DEF Typed, SetsTyped, ChanTyped, ConsTyped, WorkerTyped
<1> QED
  BY <1>1, <1>2, FrameTyped

\* when it stores the change (one row written, the update handled),
LEMMA ApplyTyped == ASSUME Typed, Apply PROVE Typed'
<1> DEFINE msg == Head(stream)
           row == [key |-> IF Current.deleted THEN 0 ELSE msg.id, stream |-> msg.id]
<1>1. /\ UNCHANGED <<history, stream, chan, worker, stale, manual, timers, abandoned,
                     retries, restarting, blacklisted>>
      /\ cons.pc = "checked" /\ cons'.pc = "emit"
      /\ rows' = [rows EXCEPT ![msg.user] = Upsert(rows[msg.user], Current.device, row)]
      /\ seen' = [seen EXCEPT ![msg.user] = msg.id]
      /\ raced' = raced \/ raced' = raced \cup {msg.user}
  BY DEF Apply, remote, engine
<1>2. stream # <<>>
  BY <1>1 DEF Typed, ConsTyped
<1>3. /\ msg \in Messages /\ msg.user \in Users /\ msg.id \in 1 .. Len(history[msg.user])
      /\ Current.device \in Devices
  BY <1>2, HeadTyped DEF Messages, Changes
<1>4. /\ Ordered' /\ seen' \in [Users -> Nat]
      /\ \A u \in Users : seen'[u] \in 0 .. Len(history[u])
  BY <1>1, <1>2, HandledOrdered DEF remote
<1>5. RemoteTyped' /\ SetsTyped' /\ ChanTyped' /\ ConsTyped' /\ WorkerTyped'
  BY <1>1, <1>2, <1>3, <1>4 DEF Typed, RemoteTyped, SetsTyped, ChanTyped, ConsTyped, WorkerTyped
<1>6. RowsTyped'
  <2> SUFFICES ASSUME NEW u \in Users
               PROVE  \A d \in DOMAIN rows'[u] :
                         /\ d \in Devices
                         /\ rows'[u][d].stream \in 1 .. Len(history[u])
                         /\ rows'[u][d].key \in 0 .. rows'[u][d].stream
    BY <1>1, <1>4 DEF RowsTyped
  <2>1. CASE u # msg.user
    BY <1>1, <2>1 DEF Typed, RowsTyped, RemoteTyped
  <2>2. CASE u = msg.user
    <3>1. rows'[u] = [d \in DOMAIN rows[u] \cup {Current.device} |->
                        IF d = Current.device THEN row ELSE rows[u][d]]
      BY <1>1, <1>3, <2>2 DEF Upsert, Typed, RemoteTyped
    <3>2. row.stream = msg.id /\ row.key \in 0 .. msg.id
      BY <1>3
    <3> QED
      BY <1>3, <2>2, <3>1, <3>2 DEF Typed, RowsTyped
  <2> QED
    BY <2>1, <2>2
<1> QED
  BY <1>4, <1>5, <1>6 DEF Typed

\* when it marks the list stale,
LEMMA MarkStaleTyped == ASSUME Typed, MarkStale PROVE Typed'
<1> DEFINE msg == Head(stream)
<1>1. /\ UNCHANGED <<history, stream, rows, chan, worker, manual, timers, raced,
                     retries, restarting, blacklisted>>
      /\ cons.pc = "checked" /\ cons'.pc = "poke"
      /\ stale' = stale \cup {msg.user} /\ abandoned' = abandoned \ {msg.user}
      /\ seen' = [seen EXCEPT ![msg.user] = msg.id]
  BY DEF MarkStale, remote, engine
<1>2. stream # <<>>
  BY <1>1 DEF Typed, ConsTyped
<1>3. msg.user \in Users
  BY <1>2, HeadTyped DEF Messages
<1>4. /\ Ordered' /\ seen' \in [Users -> Nat]
      /\ \A u \in Users : seen'[u] \in 0 .. Len(history[u])
  BY <1>1, <1>2, HandledOrdered DEF remote
<1>5. RemoteTyped' /\ SetsTyped' /\ ChanTyped' /\ ConsTyped' /\ WorkerTyped'
  BY <1>1, <1>2, <1>3, <1>4 DEF Typed, RemoteTyped, SetsTyped, ChanTyped, ConsTyped, WorkerTyped
<1>6. RowsTyped'
  BY <1>1, <1>4 DEF Typed, RowsTyped
<1> QED
  BY <1>4, <1>5, <1>6 DEF Typed

\* What a poke does to the channel and to the users the code gives up on.
LEMMA PokeEffect ==
    ASSUME Typed, NEW u \in Users, NotifyWorkers(u)
    PROVE  /\ ChanTyped' /\ abandoned' \subseteq stale
           /\ abandoned \subseteq abandoned'
           /\ Range(chan) \subseteq Range(chan')
           /\ \/ ServerOf[u] \in Range(chan')
              \/ \A v \in stale : ServerOf[v] = ServerOf[u] => v \in abandoned'
<1>1. chan \in Seq(Servers) /\ Len(chan) <= ChanCap /\ ServerOf[u] \in Servers
  BY ServersAssumption DEF Typed, ChanTyped
<1>2. CASE ServerOf[u] \in blacklisted
  BY <1>1, <1>2 DEF NotifyWorkers, StaleOn, Typed, SetsTyped, ChanTyped
<1>3. CASE ServerOf[u] \notin blacklisted
  <2>1. Len(chan) < ChanCap /\ chan' = Append(chan, ServerOf[u]) /\ abandoned' = abandoned
    BY <1>3 DEF NotifyWorkers
  <2>2. /\ chan' \in Seq(Servers) /\ Len(chan') = Len(chan) + 1 /\ Len(chan) \in Nat
        /\ \A i \in 1 .. Len(chan) : chan'[i] = chan[i]
        /\ chan'[Len(chan) + 1] = ServerOf[u]
        /\ DOMAIN chan = 1 .. Len(chan) /\ DOMAIN chan' = 1 .. Len(chan')
    BY <1>1, <2>1, AppendProperties, LenProperties
  <2>3. ChanTyped'
    BY BoundsAssumption, <2>1, <2>2 DEF ChanTyped
  <2>4. Range(chan) \subseteq Range(chan') /\ ServerOf[u] \in Range(chan')
    BY <2>2 DEF Range
  <2> QED
    BY <2>1, <2>3, <2>4 DEF Typed, SetsTyped
<1> QED
  BY <1>2, <1>3

\* when it pokes the worker,
LEMMA PokeTyped == ASSUME Typed, Poke PROVE Typed'
<1>1. /\ UNCHANGED <<history, stream, rows, seen, worker, stale, manual, timers, raced,
                     retries, restarting, blacklisted>>
      /\ cons.pc = "poke" /\ cons'.pc = "done" /\ NotifyWorkers(Head(stream).user)
  BY DEF Poke, remote, tables
<1>2. stream # <<>>
  BY <1>1 DEF Typed, ConsTyped
<1>3. Head(stream).user \in Users
  BY <1>2, HeadTyped DEF Messages
<1>4. ChanTyped' /\ abandoned' \subseteq stale
  BY <1>1, <1>3, PokeEffect
<1>5. SetsTyped' /\ ConsTyped' /\ WorkerTyped'
  BY <1>1, <1>2, <1>4 DEF Typed, SetsTyped, ConsTyped, WorkerTyped
<1> QED
  BY <1>1, <1>4, <1>5, FrameTyped

\* when it acknowledges the message,
LEMMA AckTyped == ASSUME Typed, Ack PROVE Typed'
<1>1. /\ UNCHANGED <<history, rows, seen, worker, stale, manual, timers, raced, abandoned, chan,
                     retries, restarting, blacklisted>>
      /\ cons.pc # "idle" /\ cons'.pc = "idle" /\ stream' = Tail(stream)
  BY DEF Ack, Idle, tables, engine, ghosts
<1>2. stream # <<>> /\ stream \in Seq(Messages)
  BY <1>1 DEF Typed, ConsTyped, RemoteTyped
<1>3. /\ stream' \in Seq(Messages) /\ Len(stream') = Len(stream) - 1 /\ Len(stream) \in Nat
      /\ \A i \in 1 .. Len(stream') : stream'[i] = stream[i + 1]
  BY <1>1, <1>2, HeadTailProperties
<1>4. Ordered'
  <2>1. \A i \in 1 .. Len(stream') : i + 1 \in 1 .. Len(stream) /\ i \in Int
    BY <1>3
  <2>2. \A i, j \in 1 .. Len(stream') : i < j => i + 1 < j + 1
    BY <1>3
  <2> QED
    BY <1>1, <1>3, <2>1, <2>2 DEF Typed, Ordered
<1> QED
  BY <1>1, <1>3, <1>4 DEF Typed, RemoteTyped, SetsTyped, ChanTyped, RowsTyped, ConsTyped, WorkerTyped

\* and when the message is delivered again.
LEMMA RedeliverTyped == ASSUME Typed, Redeliver PROVE Typed'
<1>1. /\ UNCHANGED <<history, stream, rows, seen, chan, worker>>
      /\ UNCHANGED <<stale, manual, timers, raced, abandoned, retries, restarting, blacklisted>>
      /\ cons'.pc = "idle"
  BY DEF Redeliver, Idle, remote, tables, engine, ghosts
<1>2. SetsTyped' /\ ChanTyped' /\ ConsTyped' /\ WorkerTyped'
  BY <1>1 DEF Typed, SetsTyped, ChanTyped, ConsTyped, WorkerTyped
<1> QED
  BY <1>1, <1>2, FrameTyped

\* ManualUpdate keeps the types,
LEMMA ManualUpdateTyped == ASSUME Typed, NEW u \in Users, ManualUpdate(u) PROVE Typed'
<1>1. /\ UNCHANGED <<history, stream, rows, seen, chan, worker, cons, timers, raced,
                     retries, restarting, blacklisted>>
      /\ stale' = stale \cup {u} /\ abandoned' = abandoned \ {u} /\ manual' = manual \cup {u}
  BY DEF ManualUpdate, remote, engine
<1>2. SetsTyped' /\ ChanTyped' /\ ConsTyped' /\ WorkerTyped'
  BY <1>1 DEF Typed, SetsTyped, ChanTyped, ConsTyped, WorkerTyped
<1> QED
  BY <1>1, <1>2, FrameTyped

\* and so does its poke, or the poke of a timer.
LEMMA NotifyTyped == ASSUME Typed, NEW u \in Users, Notify(u) PROVE Typed'
<1>1. /\ UNCHANGED <<history, stream, rows, seen, worker, cons, stale, raced,
                     retries, restarting, blacklisted>>
      /\ manual' \subseteq manual /\ timers' \subseteq timers /\ NotifyWorkers(u)
  BY DEF Notify, remote, tables
<1>2. ChanTyped' /\ abandoned' \subseteq stale
  BY <1>1, PokeEffect
<1>3. SetsTyped' /\ ConsTyped' /\ WorkerTyped'
  BY <1>1, <1>2 DEF Typed, SetsTyped, ConsTyped, WorkerTyped
<1> QED
  BY <1>1, <1>2, <1>3, FrameTyped

\* The types are kept when the worker takes a poke,
LEMMA TakeTyped == ASSUME Typed, Take PROVE Typed'
<1>1. /\ UNCHANGED <<history, stream, rows, seen, cons, stale, manual, timers, raced,
                     retries, restarting, blacklisted>>
      /\ chan # <<>> /\ chan' = Tail(chan)
      /\ abandoned' = abandoned \/ abandoned' = abandoned \cup StaleOn(Head(chan))
      /\ worker' = worker \/ worker' = [pc |-> "load", server |-> Head(chan)]
  BY DEF Take, remote, tables, pokers
<1>2. /\ chan' \in Seq(Servers) /\ Len(chan') = Len(chan) - 1 /\ Len(chan) \in Nat
      /\ Head(chan) \in Servers
  BY <1>1, HeadTailProperties DEF Typed, ChanTyped
<1>3. ChanTyped'
  BY <1>2, BoundsAssumption DEF Typed, ChanTyped
<1>4. SetsTyped'
  BY <1>1 DEF Typed, SetsTyped, StaleOn
<1>5. WorkerTyped'
  <2>1. CASE worker' = worker
    BY <1>1, <2>1 DEF Typed, WorkerTyped
  <2>2. CASE worker' = [pc |-> "load", server |-> Head(chan)]
    BY <1>2, <2>2 DEF WorkerTyped
  <2> QED
    BY <1>1, <2>1, <2>2
<1>6. ConsTyped'
  BY <1>1 DEF Typed, ConsTyped
<1> QED
  BY <1>1, <1>3, <1>4, <1>5, <1>6, FrameTyped

\* when it loads the stale users,
LEMMA LoadTyped == ASSUME Typed, Load PROVE Typed'
<1>1. /\ UNCHANGED <<history, stream, rows, seen, chan, cons, stale, manual, timers, raced,
                     abandoned, retries, restarting, blacklisted>>
      /\ worker.pc = "load"
      /\ worker' = [pc |-> "next", server |-> worker.server, todo |-> StaleOn(worker.server)]
  BY DEF Load, remote, tables, pokers, ghosts
<1>2. WorkerTyped'
  BY <1>1 DEF Typed, WorkerTyped, SetsTyped, StaleOn
<1>3. SetsTyped' /\ ChanTyped' /\ ConsTyped'
  BY <1>1 DEF Typed, SetsTyped, ChanTyped, ConsTyped
<1> QED
  BY <1>1, <1>2, <1>3, FrameTyped

\* when it receives the list of one,
LEMMA AnswerTyped == ASSUME Typed, NEW u \in Users, Answer(u) PROVE Typed'
<1>1. /\ UNCHANGED <<history, stream, rows, seen, chan, cons, stale, manual, timers, raced,
                     abandoned, retries, restarting, blacklisted>>
      /\ worker.pc = "next" /\ u \in worker.todo
      /\ worker' = [pc |-> "fetched", server |-> worker.server, todo |-> worker.todo,
                    user |-> u, id |-> Len(history[u])]
  BY DEF Answer, remote, tables, pokers, ghosts
<1>2. Len(history[u]) \in Nat
  BY LenProperties DEF Typed, RemoteTyped
<1>3. WorkerTyped'
  BY <1>1, <1>2 DEF Typed, WorkerTyped
<1>4. SetsTyped' /\ ChanTyped' /\ ConsTyped'
  BY <1>1 DEF Typed, SetsTyped, ChanTyped, ConsTyped
<1> QED
  BY <1>1, <1>3, <1>4, FrameTyped

\* when it ignores an answer,
LEMMA SwallowTyped == ASSUME Typed, NEW u \in Users, Swallow(u) PROVE Typed'
<1>1. /\ UNCHANGED <<history, stream, rows, seen, chan, cons, stale, manual, timers, raced,
                     retries, restarting, blacklisted>>
      /\ worker.pc = "next" /\ u \in worker.todo
      /\ worker' = [worker EXCEPT !.todo = @ \ {u}]
      /\ abandoned' = abandoned \cup ({u} \cap stale)
  BY DEF Swallow, remote, tables, pokers
<1>2. /\ DOMAIN worker' = DOMAIN worker /\ worker'.pc = "next"
      /\ worker'.server = worker.server /\ worker'.todo = worker.todo \ {u}
  BY <1>1 DEF Typed, WorkerTyped
<1>3. WorkerTyped'
  BY <1>1, <1>2 DEF Typed, WorkerTyped
<1>4. SetsTyped' /\ ChanTyped' /\ ConsTyped'
  BY <1>1 DEF Typed, SetsTyped, ChanTyped, ConsTyped
<1> QED
  BY <1>1, <1>3, <1>4, FrameTyped

\* What updateDeviceList does up to the mark.
LEMMA StoreListEffect ==
    ASSUME Typed, StoreList
    PROVE  /\ UNCHANGED <<history, stream, seen, chan, cons, stale, manual, timers, abandoned,
                          retries, restarting, blacklisted>>
           /\ worker.pc = "fetched" /\ worker.user \in Users /\ worker.id \in Nat
           /\ DOMAIN worker' = DOMAIN worker /\ worker'.pc = "stored"
           /\ worker'.server = worker.server /\ worker'.todo = worker.todo
           /\ worker'.user = worker.user /\ worker'.id = worker.id
           /\ DOMAIN rows' = DOMAIN rows
           /\ \A u \in Users : u # worker.user => rows'[u] = rows[u]
           /\ rows'[worker.user] =
                [d \in {d \in Devices : KeyAt(worker.user, worker.id, d) # 0} |->
                   [key |-> KeyAt(worker.user, worker.id, d), stream |-> worker.id]]
           /\ raced' = IF seen[worker.user] > worker.id
                          \/ (cons.pc = "checked" /\ Updating(worker.user))
                       THEN raced \cup {worker.user} ELSE raced \ {worker.user}
<1>1. /\ UNCHANGED <<history, stream, seen, chan, cons, stale, manual, timers, abandoned,
                     retries, restarting, blacklisted>>
      /\ worker.pc = "fetched" /\ worker' = [worker EXCEPT !.pc = "stored"]
      /\ rows' = [rows EXCEPT ![worker.user] =
                   [d \in {d \in Devices : KeyAt(worker.user, worker.id, d) # 0} |->
                      [key |-> KeyAt(worker.user, worker.id, d), stream |-> worker.id]]]
      /\ raced' = IF seen[worker.user] > worker.id
                     \/ (cons.pc = "checked" /\ Updating(worker.user))
                  THEN raced \cup {worker.user} ELSE raced \ {worker.user}
  BY DEF StoreList, remote, pokers
<1>2. worker.user \in Users /\ worker.id \in Nat
  BY <1>1 DEF Typed, WorkerTyped
<1>3. /\ DOMAIN worker' = DOMAIN worker /\ worker'.pc = "stored"
      /\ worker'.server = worker.server /\ worker'.todo = worker.todo
      /\ worker'.user = worker.user /\ worker'.id = worker.id
  BY <1>1 DEF Typed, WorkerTyped
<1>4. DOMAIN rows = Users
  BY DEF Typed, RemoteTyped
<1> QED
  BY <1>1, <1>2, <1>3, <1>4

\* The types are kept when the worker stores the list: a row is as new as the answer,
\* and the answer has a key for it.
LEMMA StoreListTyped == ASSUME Typed, StoreList PROVE Typed'
<1> DEFINE u == worker.user
           n == worker.id
<1>1. RemoteTyped' /\ SetsTyped' /\ ChanTyped' /\ ConsTyped' /\ Ordered' /\ WorkerTyped'
  BY StoreListEffect DEF Typed, RemoteTyped, SetsTyped, ChanTyped, ConsTyped, Ordered, WorkerTyped
<1>2. RowsTyped'
  <2> SUFFICES ASSUME NEW v \in Users, NEW d \in DOMAIN rows'[v]
               PROVE  /\ d \in Devices
                      /\ rows'[v][d].stream \in 1 .. Len(history[v])
                      /\ rows'[v][d].key \in 0 .. rows'[v][d].stream
    BY StoreListEffect DEF Typed, RowsTyped
  <2>1. CASE v # u
    BY <2>1, StoreListEffect DEF Typed, RowsTyped
  <2>2. CASE v = u
    <3>1. /\ d \in Devices /\ KeyAt(u, n, d) # 0
          /\ rows'[v][d].key = KeyAt(u, n, d) /\ rows'[v][d].stream = n
      BY <2>2, StoreListEffect
    <3>2. n \in Nat /\ n <= Len(history[u]) /\ Len(history[u]) \in Nat
      <4>1. Len(history[u]) \in Nat
        BY StoreListEffect, LenProperties DEF Typed, RemoteTyped
      <4> QED
        BY <4>1, StoreListEffect DEF Typed, WorkerTyped
    <3>3. KeyAt(u, n, d) \in 0 .. n
      BY <3>2, KeyInRange
    <3> HIDE DEF u, n
    <3> QED
      BY <2>2, <3>1, <3>2, <3>3
  <2> QED
    BY <2>1, <2>2
<1> QED
  BY <1>1, <1>2 DEF Typed

\* What the mark of updateDeviceList does.
LEMMA MarkFreshEffect ==
    ASSUME Typed, MarkFresh
    PROVE  /\ UNCHANGED <<history, stream, rows, seen, chan, cons, manual, timers,
                          retries, restarting, blacklisted>>
           /\ worker.pc = "stored" /\ worker.user \in Users /\ worker.id \in Nat
           /\ DOMAIN worker' = DOMAIN worker /\ worker'.pc = "next"
           /\ worker'.server = worker.server /\ worker'.todo = worker.todo \ {worker.user}
           /\ stale' = stale \ {worker.user} /\ abandoned' = abandoned \ {worker.user}
           /\ raced' = IF seen[worker.user] > worker.id THEN raced \cup {worker.user} ELSE raced
<1>1. /\ UNCHANGED <<history, stream, rows, seen, chan, cons, manual, timers,
                     retries, restarting, blacklisted>>
      /\ worker.pc = "stored"
      /\ worker' = [worker EXCEPT !.pc = "next", !.todo = @ \ {worker.user}]
      /\ stale' = stale \ {worker.user} /\ abandoned' = abandoned \ {worker.user}
      /\ raced' = IF seen[worker.user] > worker.id THEN raced \cup {worker.user} ELSE raced
  BY DEF MarkFresh, remote, pokers
<1> QED
  BY <1>1 DEF Typed, WorkerTyped

\* The types are kept when the worker declares the list fresh,
LEMMA MarkFreshTyped == ASSUME Typed, MarkFresh PROVE Typed'
<1>1. WorkerTyped'
  BY MarkFreshEffect DEF Typed, WorkerTyped
<1>2. SetsTyped' /\ ChanTyped' /\ ConsTyped'
  BY MarkFreshEffect DEF Typed, SetsTyped, ChanTyped, ConsTyped
<1> QED
  BY <1>1, <1>2, MarkFreshEffect, FrameTyped

\* and when it ends, with or without an error.
LEMMA EndTyped == ASSUME Typed, Processed \/ Failed PROVE Typed'
<1>1. /\ UNCHANGED <<history, stream, rows, seen, chan, cons, stale, manual, timers, raced,
                     abandoned, restarting, blacklisted>>
      /\ worker' = Idle /\ retries' \subseteq retries \cup {worker.server}
      /\ retries' = retries \/ worker.pc # "idle"
  BY DEF Processed, Failed, remote, tables, pokers, ghosts
<1>2. WorkerTyped'
  BY <1>1 DEF WorkerTyped, Idle
<1>3. SetsTyped' /\ ChanTyped' /\ ConsTyped'
  BY <1>1 DEF Typed, SetsTyped, ChanTyped, ConsTyped, WorkerTyped
<1> QED
  BY <1>1, <1>2, <1>3, FrameTyped

\* The types are kept when the restarter takes servers from the retries,
LEMMA RestartTyped == ASSUME Typed, NEW S \in SUBSET Servers, Restart(S) PROVE Typed'
<1>1. /\ UNCHANGED <<history, stream, rows, seen, chan, cons, stale, manual, timers, raced,
                     abandoned, worker, blacklisted>>
      /\ retries' = retries \ S /\ restarting' = S
  BY DEF Restart, remote, tables, pokers, ghosts
<1>2. SetsTyped' /\ ChanTyped' /\ ConsTyped' /\ WorkerTyped'
  BY <1>1 DEF Typed, SetsTyped, ChanTyped, ConsTyped, WorkerTyped
<1> QED
  BY <1>1, <1>2, FrameTyped

\* and when it puts one in the channel.
LEMMA PushTyped == ASSUME Typed, NEW s \in Servers, Push(s) PROVE Typed'
<1>1. /\ UNCHANGED <<history, stream, rows, seen, cons, stale, manual, timers, raced,
                     abandoned, worker, retries, blacklisted>>
      /\ Len(chan) < ChanCap /\ chan' = Append(chan, s) /\ restarting' \subseteq restarting
  BY DEF Push, remote, tables, pokers, ghosts
<1>2. chan' \in Seq(Servers) /\ Len(chan') = Len(chan) + 1 /\ Len(chan) \in Nat
  BY <1>1, AppendProperties, LenProperties DEF Typed, ChanTyped
<1>3. ChanTyped'
  BY <1>1, <1>2, BoundsAssumption DEF ChanTyped
<1>4. SetsTyped' /\ ConsTyped' /\ WorkerTyped'
  BY <1>1 DEF Typed, SetsTyped, ConsTyped, WorkerTyped
<1> QED
  BY <1>1, <1>3, <1>4, FrameTyped

\* The types are kept by a change of the blacklist,
LEMMA BlacklistTyped == ASSUME Typed, NEW s \in Servers, Blacklist(s) PROVE Typed'
<1>1. /\ UNCHANGED <<history, stream, rows, seen, chan, cons, stale, manual, timers, raced,
                     abandoned, worker, retries, restarting>>
      /\ blacklisted' \subseteq blacklisted \cup {s}
  BY DEF Blacklist, remote, tables, pokers, engine, ghosts
<1>2. SetsTyped' /\ ChanTyped' /\ ConsTyped' /\ WorkerTyped'
  BY <1>1 DEF Typed, SetsTyped, ChanTyped, ConsTyped, WorkerTyped
<1> QED
  BY <1>1, <1>2, FrameTyped

\* and by a crash, which empties what is not in the tables.
LEMMA CrashTyped ==
    ASSUME Typed, NEW left \in SUBSET Users, NEW first \in SUBSET Users, Crash(left, first)
    PROVE  Typed'
<1>1. /\ UNCHANGED <<history, stream, rows, seen, blacklisted>>
      /\ stale' = stale \ left /\ raced' = raced \cup left /\ timers' = first
      /\ cons' = Idle /\ manual' = {} /\ chan' = <<>> /\ worker' = Idle
      /\ retries' = {} /\ restarting' = {} /\ abandoned' = {}
  BY DEF Crash, remote
<1>2. ChanTyped'
  BY <1>1, BoundsAssumption DEF ChanTyped
<1>3. SetsTyped' /\ ConsTyped' /\ WorkerTyped'
  BY <1>1 DEF Typed, SetsTyped, ConsTyped, WorkerTyped, Idle
<1> QED
  BY <1>1, <1>2, <1>3, FrameTyped

\* Every step keeps the parts of the type invariant.
LEMMA TypedStep == ASSUME Typed, [Next]_vars PROVE Typed'
<1>1. CASE UNCHANGED vars
  BY <1>1 DEF vars, remote, tables, pokers, engine, ghosts, Typed, RemoteTyped, SetsTyped,
     ChanTyped, RowsTyped, ConsTyped, WorkerTyped, Ordered
<1>2. CASE \E u \in Users, d \in Devices, deleted \in BOOLEAN, sent \in BOOLEAN :
              Change(u, d, deleted, sent)
  BY <1>2, ChangeTyped
<1>3. CASE Check \/ Apply \/ MarkStale \/ Poke \/ Ack \/ Redeliver
  BY <1>3, CheckTyped, ApplyTyped, MarkStaleTyped, PokeTyped, AckTyped, RedeliverTyped
<1>4. CASE \E u \in Users : ManualUpdate(u) \/ Notify(u)
  BY <1>4, ManualUpdateTyped, NotifyTyped
<1>5. CASE Take \/ Load \/ StoreList \/ MarkFresh \/ Processed \/ Failed
  BY <1>5, TakeTyped, LoadTyped, StoreListTyped, MarkFreshTyped, EndTyped
<1>6. CASE \E u \in Users : Answer(u) \/ Swallow(u)
  BY <1>6, AnswerTyped, SwallowTyped
<1>7. CASE \E S \in SUBSET Servers : Restart(S)
  BY <1>7, RestartTyped
<1>8. CASE \E s \in Servers : Push(s) \/ Blacklist(s)
  BY <1>8, PushTyped, BlacklistTyped
<1>9. CASE \E left, first \in SUBSET Users : Crash(left, first)
  BY <1>9, CrashTyped
<1> QED
  BY <1>1, <1>2, <1>3, <1>4, <1>5, <1>6, <1>7, <1>8, <1>9 DEF Next

\* The parts hold in every reachable state.
LEMMA TypedAlways == Spec => []Typed
BY TypedInit, TypedStep, PTL DEF Spec

\* No row is ever newer than the list it was taken from, and an update is decided
\* about while it is in the stream, whatever the interleaving of the consumer, the
\* worker, its restarter and a crash.
THEOREM TypeCorrect == Spec => []TypeOK
BY TypedAlways, TypedIsTypeOK, PTL

-----------------------------------------------------------------------------
(* A stale list is tended                                                  *)

\* Whoever was going to ask for server s still is, the worker aside.
Pending(s) ==
    \/ s \in Range(chan) \/ s \in retries \/ s \in restarting
    \/ \E v \in manual \cup timers : ServerOf[v] = s
    \/ cons.pc = "poke" /\ ServerOf[Head(stream).user] = s

Visiting(u) ==
    \/ worker.pc = "load" /\ worker.server = ServerOf[u]
    \/ worker.pc \in {"next", "fetched", "stored"} /\ u \in worker.todo

\* A list is tended by somebody who is going to poke or by the worker.
LEMMA TendedParts == ASSUME NEW u PROVE Tended(u) <=> Pending(ServerOf[u]) \/ Visiting(u)
BY DEF Tended, Pending, Visiting

\* A step that takes nobody's task away and adds no list keeps every list tended.
LEMMA TendedFrame ==
    ASSUME StaleIsTended, stale' \ abandoned' \subseteq stale \ abandoned,
           \A s : Pending(s) => Pending(s)', \A u : Visiting(u) => Visiting(u)'
    PROVE  StaleIsTended'
BY TendedParts DEF StaleIsTended, Tended, Pending, Visiting

\* The pokes that are due stay due while the variables they are in only grow.
LEMMA PendingKept ==
    ASSUME Range(chan) \subseteq Range(chan'), retries \subseteq retries',
           restarting \subseteq restarting', manual \cup timers \subseteq manual' \cup timers',
           cons.pc = "poke" => cons'.pc = "poke" /\ Head(stream').user = Head(stream).user,
           NEW s, Pending(s)
    PROVE  Pending(s)'
BY DEF Pending

\* Every stale list stays tended while the consumer is not about to poke.
LEMMA ConsumerTends ==
    ASSUME Typed, StaleIsTended, Check \/ Apply \/ Ack \/ Redeliver
    PROVE  StaleIsTended'
<1>1. /\ UNCHANGED <<chan, retries, restarting, manual, timers, worker, stale, abandoned>>
      /\ cons.pc # "poke"
  BY DEF Check, Apply, Ack, Redeliver, remote, tables, engine, ghosts
<1>2. \A s : Pending(s) => Pending(s)'
  BY <1>1, PendingKept
<1>3. \A u : Visiting(u) => Visiting(u)'
  BY <1>1 DEF Visiting
<1> QED
  BY <1>1, <1>2, <1>3, TendedFrame

\* It does when the stream grows: the update that is being handled stays its head.
LEMMA ChangeTends ==
    ASSUME Typed, StaleIsTended, NEW u \in Users, NEW d \in Devices, NEW deleted \in BOOLEAN,
           NEW sent \in BOOLEAN, Change(u, d, deleted, sent)
    PROVE  StaleIsTended'
<1> DEFINE m == [user |-> u, id |-> Len(history[u]) + 1]
<1>1. /\ UNCHANGED <<chan, retries, restarting, manual, timers, worker, stale, abandoned, cons>>
      /\ stream' = IF sent THEN Append(stream, m) ELSE stream
  BY DEF Change, tables, pokers, engine, ghosts
<1>2. cons.pc = "poke" => Head(stream').user = Head(stream).user
  <2> SUFFICES ASSUME cons.pc = "poke" PROVE Head(stream') = Head(stream)
    OBVIOUS
  <2>1. stream # <<>> /\ stream \in Seq(Messages) /\ m \in Messages
    <3>1. Len(history[u]) \in Nat
      BY LenProperties DEF Typed, RemoteTyped
    <3> QED
      BY <3>1 DEF Typed, ConsTyped, RemoteTyped, Messages
  <2>2. Head(Append(stream, m)) = Head(stream)
    BY <2>1, AppendProperties
  <2> QED
    BY <1>1, <2>2
<1>3. \A s : Pending(s) => Pending(s)'
  BY <1>1, <1>2, PendingKept
<1>4. \A v : Visiting(v) => Visiting(v)'
  BY <1>1 DEF Visiting
<1> QED
  BY <1>1, <1>3, <1>4, TendedFrame

\* A list that becomes stale is about to be poked for.
LEMMA MarkStaleTends == ASSUME Typed, StaleIsTended, MarkStale PROVE StaleIsTended'
<1> DEFINE msg == Head(stream)
<1>1. /\ UNCHANGED <<stream, chan, worker, manual, timers, retries, restarting>>
      /\ cons.pc = "checked" /\ cons'.pc = "poke"
      /\ stale' = stale \cup {msg.user} /\ abandoned' = abandoned \ {msg.user}
  BY DEF MarkStale, remote, engine
<1>2. ASSUME NEW u \in stale' \ abandoned' PROVE Tended(u)'
  <2>1. CASE u = msg.user
    BY <1>1, <2>1 DEF Tended
  <2>2. CASE u # msg.user
    <3>1. Tended(u)
      BY <1>1, <2>2 DEF StaleIsTended
    <3> QED
      BY <1>1, <3>1 DEF Tended
  <2> QED
    BY <2>1, <2>2
<1> QED
  BY <1>2 DEF StaleIsTended

\* So is one that ManualUpdate makes stale.
LEMMA ManualUpdateTends ==
    ASSUME Typed, StaleIsTended, NEW u \in Users, ManualUpdate(u) PROVE StaleIsTended'
<1>1. /\ UNCHANGED <<stream, cons, chan, worker, timers, retries, restarting>>
      /\ stale' = stale \cup {u} /\ abandoned' = abandoned \ {u} /\ manual' = manual \cup {u}
  BY DEF ManualUpdate, remote, engine
<1>2. ASSUME NEW v \in stale' \ abandoned' PROVE Tended(v)'
  <2>1. CASE v = u
    BY <1>1, <2>1 DEF Tended
  <2>2. CASE v # u
    <3>1. Tended(v)
      BY <1>1, <2>2 DEF StaleIsTended
    <3> QED
      BY <1>1, <3>1 DEF Tended
  <2> QED
    BY <2>1, <2>2
<1> QED
  BY <1>2 DEF StaleIsTended

\* A poke reaches the channel, or gives up on the whole server.
LEMMA PokedTends ==
    ASSUME Typed, StaleIsTended, NEW u \in Users, NotifyWorkers(u),
           UNCHANGED <<stale, retries, restarting, worker>>,
           \A s : Pending(s) => Pending(s)' \/ s = ServerOf[u]
    PROVE  StaleIsTended'
<1>1. /\ abandoned \subseteq abandoned'
      /\ \/ ServerOf[u] \in Range(chan')
         \/ \A v \in stale : ServerOf[v] = ServerOf[u] => v \in abandoned'
  BY PokeEffect
<1>2. ASSUME NEW v \in stale' \ abandoned' PROVE Tended(v)'
  <2>1. Tended(v)
    BY <1>1 DEF StaleIsTended
  <2>2. CASE Visiting(v)
    BY <2>2 DEF Visiting, Tended
  <2>3. CASE Pending(ServerOf[v]) /\ Pending(ServerOf[v])'
    BY <2>3 DEF Pending, Tended
  <2>4. CASE ServerOf[v] = ServerOf[u]
    BY <1>1, <2>4 DEF Tended
  <2> QED
    BY <2>1, <2>2, <2>3, <2>4, TendedParts
<1> QED
  BY <1>2 DEF StaleIsTended

\* The consumer's poke keeps every stale list tended,
LEMMA PokeTends == ASSUME Typed, StaleIsTended, Poke PROVE StaleIsTended'
<1>1. /\ UNCHANGED <<stale, retries, restarting, worker, manual, timers>>
      /\ cons.pc = "poke" /\ NotifyWorkers(Head(stream).user)
  BY DEF Poke, tables
<1>2. Head(stream).user \in Users
  BY <1>1, HeadTyped DEF Typed, ConsTyped, Messages
<1>3. Range(chan) \subseteq Range(chan')
  BY <1>1, <1>2, PokeEffect
<1>4. \A s : Pending(s) => Pending(s)' \/ s = ServerOf[Head(stream).user]
  BY <1>1, <1>3 DEF Pending
<1> QED
  BY <1>1, <1>2, <1>4, PokedTends

\* and so does the poke of ManualUpdate or of a timer.
LEMMA NotifyTends ==
    ASSUME Typed, StaleIsTended, NEW u \in Users, Notify(u) PROVE StaleIsTended'
<1>1. /\ UNCHANGED <<stale, retries, restarting, worker, cons, stream>>
      /\ manual \cup timers \subseteq manual' \cup timers' \cup {u}
      /\ NotifyWorkers(u)
  BY DEF Notify, remote, tables
<1>2. Range(chan) \subseteq Range(chan')
  BY <1>1, PokeEffect
<1>3. \A s : Pending(s) => Pending(s)' \/ s = ServerOf[u]
  BY <1>1, <1>2 DEF Pending
<1> QED
  BY <1>1, <1>3, PokedTends

\* A poke that is taken is dropped only when a retry will come or the server is
\* blacklisted.
LEMMA TakeTends == ASSUME Typed, StaleIsTended, Take PROVE StaleIsTended'
<1> DEFINE s == Head(chan)
<1>1. /\ UNCHANGED <<stale, retries, restarting, cons, stream, manual, timers>>
      /\ chan # <<>> /\ chan' = Tail(chan) /\ worker.pc = "idle"
      /\ \/ s \in retries /\ abandoned' = abandoned /\ worker' = worker
         \/ abandoned' = abandoned \cup StaleOn(s) /\ worker' = worker
         \/ worker' = [pc |-> "load", server |-> s] /\ abandoned' = abandoned
  BY DEF Take, remote, tables, pokers
<1>2. Range(chan) \subseteq Range(chan') \cup {s}
  <2>1. /\ chan' \in Seq(Servers) /\ Len(chan') = Len(chan) - 1 /\ Len(chan) \in Nat
        /\ \A i \in 1 .. Len(chan') : chan'[i] = chan[i + 1]
        /\ DOMAIN chan = 1 .. Len(chan) /\ DOMAIN chan' = 1 .. Len(chan') /\ s = chan[1]
    BY <1>1, HeadTailProperties, LenProperties DEF Typed, ChanTyped
  <2>2. \A i \in 1 .. Len(chan) : i = 1 \/ (i - 1 \in 1 .. Len(chan') /\ chan[i] = chan'[i - 1])
    <3> SUFFICES ASSUME NEW i \in 1 .. Len(chan), i # 1
                 PROVE  i - 1 \in 1 .. Len(chan') /\ chan[i] = chan'[i - 1]
      OBVIOUS
    <3>1. i - 1 \in 1 .. Len(chan') /\ (i - 1) + 1 = i
      BY <2>1
    <3> QED
      BY <2>1, <3>1
  <2> QED
    BY <2>1, <2>2 DEF Range
<1>3. ASSUME NEW u \in stale' \ abandoned' PROVE Tended(u)'
  <2>1. Tended(u) /\ u \in stale
    BY <1>1 DEF StaleIsTended
  <2>2. CASE ServerOf[u] = s
    BY <1>1, <2>1, <2>2 DEF Tended, StaleOn
  <2>3. CASE ServerOf[u] # s
    BY <1>1, <1>2, <2>1, <2>3 DEF Tended
  <2> QED
    BY <2>2, <2>3
<1> QED
  BY <1>3 DEF StaleIsTended

\* The worker, with the stale users loaded, visits every one of the server it took,
LEMMA LoadTends == ASSUME Typed, StaleIsTended, Load PROVE StaleIsTended'
<1>1. /\ UNCHANGED <<stale, abandoned, retries, restarting, cons, stream, manual, timers, chan>>
      /\ worker.pc = "load" /\ worker'.pc = "next" /\ worker'.todo = StaleOn(worker.server)
  BY DEF Load, remote, tables, pokers, ghosts
<1>2. ASSUME NEW u \in stale' \ abandoned' PROVE Tended(u)'
  <2>1. Tended(u) /\ u \in stale
    BY <1>1 DEF StaleIsTended
  <2> QED
    BY <1>1, <2>1 DEF Tended, StaleOn
<1> QED
  BY <1>2 DEF StaleIsTended

\* leaves a user only when the list is fresh or the answer was ignored,
LEMMA VisitTends ==
    ASSUME Typed, StaleIsTended,
           StoreList \/ MarkFresh \/ \E u \in Users : Answer(u) \/ Swallow(u)
    PROVE  StaleIsTended'
<1>1. ASSUME NEW u, UNCHANGED <<retries, restarting, cons, stream, manual, timers, chan>>,
             worker.pc \in {"next", "fetched", "stored"},
             worker'.pc \in {"next", "fetched", "stored"},
             worker.todo \subseteq worker'.todo \cup {u}, u \notin stale' \ abandoned',
             stale' \ abandoned' \subseteq stale \ abandoned
      PROVE  StaleIsTended'
  <2> SUFFICES ASSUME NEW v \in stale' \ abandoned' PROVE Tended(v)'
    BY DEF StaleIsTended
  <2>1. Tended(v)
    BY <1>1 DEF StaleIsTended
  <2> QED
    BY <1>1, <2>1 DEF Tended
<1>2. CASE StoreList
  <2>1. \A v : Visiting(v) => Visiting(v)'
    BY <1>2, StoreListEffect DEF Visiting
  <2>2. \A s : Pending(s) => Pending(s)'
    BY <1>2, StoreListEffect, PendingKept
  <2> QED
    BY <1>2, <2>1, <2>2, StoreListEffect, TendedFrame
<1>3. CASE MarkFresh
  <2>1. /\ UNCHANGED <<retries, restarting, cons, stream, manual, timers, chan>>
        /\ worker.pc = "stored" /\ worker'.pc = "next"
        /\ worker.todo \subseteq worker'.todo \cup {worker.user}
        /\ worker.user \notin stale' \ abandoned'
        /\ stale' \ abandoned' \subseteq stale \ abandoned
    BY <1>3, MarkFreshEffect
  <2> QED
    BY <1>1, <2>1
<1>4. ASSUME NEW u \in Users, Answer(u) PROVE StaleIsTended'
  <2>1. /\ UNCHANGED <<retries, restarting, cons, stream, manual, timers, chan, stale, abandoned>>
        /\ worker.pc = "next" /\ worker'.pc = "fetched" /\ worker'.todo = worker.todo
    BY <1>4 DEF Answer, remote, tables, pokers, ghosts
  <2>2. \A v : Visiting(v) => Visiting(v)'
    BY <2>1 DEF Visiting
  <2>3. \A s : Pending(s) => Pending(s)'
    BY <2>1, PendingKept
  <2> QED
    BY <2>1, <2>2, <2>3, TendedFrame
<1>5. ASSUME NEW u \in Users, Swallow(u) PROVE StaleIsTended'
  <2>1. /\ UNCHANGED <<retries, restarting, cons, stream, manual, timers, chan, stale>>
        /\ worker.pc = "next" /\ worker' = [worker EXCEPT !.todo = @ \ {u}]
        /\ abandoned' = abandoned \cup ({u} \cap stale)
    BY <1>5 DEF Swallow, remote, tables, pokers
  <2>2. worker'.pc = "next" /\ worker'.todo = worker.todo \ {u}
    BY <2>1 DEF Typed, WorkerTyped
  <2> QED
    BY <1>1, <2>1, <2>2
<1> QED
  BY <1>2, <1>3, <1>4, <1>5

\* and hands the ones that are left to the retries.
LEMMA EndTends == ASSUME Typed, StaleIsTended, Processed \/ Failed PROVE StaleIsTended'
<1>1. UNCHANGED <<restarting, cons, stream, manual, timers, chan, stale, abandoned>>
  BY DEF Processed, Failed, remote, tables, pokers, ghosts
<1>2. /\ retries \subseteq retries'
      /\ \A u : Visiting(u) => ServerOf[u] \in retries'
  <2>1. CASE Processed
    BY <2>1 DEF Processed, Visiting
  <2>2. CASE Failed
    <3>1. retries' = retries \cup {worker.server}
      BY <2>2 DEF Failed
    <3>2. \A u : Visiting(u) => ServerOf[u] = worker.server
      BY DEF Visiting, Typed, WorkerTyped
    <3> QED
      BY <3>1, <3>2
  <2> QED
    BY <2>1, <2>2
<1>3. ASSUME NEW u \in stale' \ abandoned' PROVE Tended(u)'
  <2>1. Pending(ServerOf[u]) \/ Visiting(u)
    BY <1>1, TendedParts DEF StaleIsTended
  <2>2. CASE Pending(ServerOf[u])
    <3>1. Pending(ServerOf[u])'
      BY <1>1, <1>2, <2>2, PendingKept
    <3> QED
      BY <3>1 DEF Pending, Tended
  <2>3. CASE Visiting(u)
    BY <1>2, <2>3 DEF Tended
  <2> QED
    BY <2>1, <2>2, <2>3
<1> QED
  BY <1>3 DEF StaleIsTended

\* The restarter loses no server between the retries and the channel.
LEMMA RestarterTends ==
    ASSUME Typed, StaleIsTended,
           (\E S \in SUBSET Servers : Restart(S)) \/ (\E s \in Servers : Push(s))
    PROVE  StaleIsTended'
<1>1. UNCHANGED <<cons, stream, manual, timers, stale, abandoned, worker>>
  BY DEF Restart, Push, remote, tables, pokers, ghosts
<1>2. Range(chan) \cup retries \cup restarting
         \subseteq Range(chan') \cup retries' \cup restarting'
  <2>1. ASSUME NEW S \in SUBSET Servers, Restart(S)
        PROVE  restarting = {} /\ retries' = retries \ S /\ restarting' = S /\ chan' = chan
    BY <2>1 DEF Restart
  <2>2. ASSUME NEW s \in Servers, Push(s)
        PROVE  /\ retries' = retries /\ restarting' = restarting \ {s}
               /\ Range(chan) \subseteq Range(chan') /\ s \in Range(chan')
    <3>1. retries' = retries /\ restarting' = restarting \ {s} /\ chan' = Append(chan, s)
      BY <2>2 DEF Push
    <3>2. /\ Len(chan') = Len(chan) + 1 /\ Len(chan) \in Nat
          /\ \A i \in 1 .. Len(chan) : chan'[i] = chan[i]
          /\ chan'[Len(chan) + 1] = s
          /\ DOMAIN chan = 1 .. Len(chan) /\ DOMAIN chan' = 1 .. Len(chan')
      BY <3>1, AppendProperties, LenProperties DEF Typed, ChanTyped
    <3> QED
      BY <3>1, <3>2 DEF Range
  <2> QED
    BY <2>1, <2>2
<1>3. \A s : Pending(s) => Pending(s)'
  BY <1>1, <1>2 DEF Pending
<1>4. \A u : Visiting(u) => Visiting(u)'
  BY <1>1 DEF Visiting
<1> QED
  BY <1>1, <1>3, <1>4, TendedFrame

\* After a crash every server with a stale user has a timer.
LEMMA CrashTends ==
    ASSUME Typed, NEW left \in SUBSET Users, NEW first \in SUBSET Users, Crash(left, first)
    PROVE  StaleIsTended'
<1>1. /\ \A s \in Servers : Cardinality({u \in first : ServerOf[u] = s})
                             = IF StaleOn(s) \subseteq left THEN 0 ELSE 1
      /\ stale' = stale \ left /\ timers' = first
  BY DEF Crash
<1>2. ASSUME NEW u \in stale' PROVE \E v \in timers' : ServerOf[v] = ServerOf[u]
  <2>1. ServerOf[u] \in Servers /\ ~ (StaleOn(ServerOf[u]) \subseteq left)
    BY <1>1, <1>2, ServersAssumption DEF Typed, SetsTyped, StaleOn
  <2>2. Cardinality({v \in first : ServerOf[v] = ServerOf[u]}) = 1
    BY <1>1, <2>1
  <2>3. {v \in first : ServerOf[v] = ServerOf[u]} # {}
    BY <2>2, FS_EmptySet
  <2> QED
    BY <1>1, <2>3
<1> QED
  BY <1>2 DEF StaleIsTended, Tended

\* A stale list is never forgotten: in every reachable state somebody will still ask
\* for it, whatever the number of users and servers and the size of the channel,
\* unless notifyWorkers or the worker met the blacklist or ignored the answer.
THEOREM StaleListsAreTended == Spec => []StaleIsTended
<1>1. Init => StaleIsTended
  BY DEF Init, StaleIsTended
<1>2. Typed /\ StaleIsTended /\ [Next]_vars => StaleIsTended'
  <2> SUFFICES ASSUME Typed, StaleIsTended, [Next]_vars PROVE StaleIsTended'
    OBVIOUS
  <2>1. CASE UNCHANGED vars
    BY <2>1 DEF vars, remote, tables, pokers, engine, ghosts, StaleIsTended, Tended
  <2>2. CASE \E u \in Users, d \in Devices, deleted \in BOOLEAN, sent \in BOOLEAN :
                Change(u, d, deleted, sent)
    BY <2>2, ChangeTends
  <2>3. CASE Check \/ Apply \/ MarkStale \/ Poke \/ Ack \/ Redeliver
    BY <2>3, ConsumerTends, MarkStaleTends, PokeTends
  <2>4. CASE \E u \in Users : ManualUpdate(u) \/ Notify(u)
    BY <2>4, ManualUpdateTends, NotifyTends
  <2>5. CASE Take \/ Load \/ StoreList \/ MarkFresh \/ Processed \/ Failed
    BY <2>5, TakeTends, LoadTends, VisitTends, EndTends
  <2>6. CASE \E u \in Users : Answer(u) \/ Swallow(u)
    BY <2>6, VisitTends
  <2>7. CASE \E S \in SUBSET Servers : Restart(S)
    BY <2>7, RestarterTends
  <2>8. CASE \E s \in Servers : Push(s) \/ Blacklist(s)
    <3>1. ASSUME NEW s \in Servers, Blacklist(s) PROVE StaleIsTended'
      BY <3>1 DEF Blacklist, remote, tables, pokers, engine, ghosts, StaleIsTended, Tended
    <3> QED
      BY <2>8, <3>1, RestarterTends
  <2>9. CASE \E left, first \in SUBSET Users : Crash(left, first)
    BY <2>9, CrashTends
  <2> QED
    BY <2>1, <2>2, <2>3, <2>4, <2>5, <2>6, <2>7, <2>8, <2>9 DEF Next
<1> QED
  BY <1>1, <1>2, TypedAlways, PTL DEF Spec

-----------------------------------------------------------------------------
(* A missed change is noticed                                              *)

Gaps == Lists /\ Stored /\ Found

\* A list that nobody wrote still matches the moment it matched.
LEMMA SameList ==
    ASSUME NEW u, NEW n \in Nat, rows'[u] = rows[u],
           \A i \in 1 .. n : history'[u][i] = history[u][i]
    PROVE  Matches(u, n) => Matches(u, n)'
BY KeyKept DEF Matches

\* A list that nobody wrote is still faithful to that moment.
LEMMA SameFaithful ==
    ASSUME NEW u, NEW n \in Nat, rows'[u] = rows[u], seen'[u] = seen[u],
           \A i \in 1 .. n : history'[u][i] = history[u][i], Faithful(u, n)
    PROVE  Faithful(u, n)'
BY SameList DEF Faithful

\* One user's list is left alone.
LEMMA ListKept ==
    ASSUME Typed, Lists, NEW u \in Users \ (stale \cup raced),
           rows'[u] = rows[u], seen'[u] = seen[u], Len(history'[u]) \in Nat,
           Len(history[u]) <= Len(history'[u]),
           \A i \in 1 .. Len(history[u]) : history'[u][i] = history[u][i]
    PROVE  \E n \in seen'[u] .. Len(history'[u]) : Faithful(u, n)'
<1>1. PICK n \in seen[u] .. Len(history[u]) : Faithful(u, n)
  BY DEF Lists
<1>2. Len(history[u]) \in Nat /\ seen[u] \in Nat
  BY LenProperties DEF Typed, RemoteTyped
<1>3. n \in Nat /\ 1 .. n \subseteq 1 .. Len(history[u]) /\ n \in seen'[u] .. Len(history'[u])
  BY <1>2
<1>4. Faithful(u, n)'
  BY <1>1, <1>3, SameFaithful
<1> QED
  BY <1>3, <1>4

\* What the worker stored is left alone.
LEMMA StoredKept ==
    ASSUME Typed, Stored, worker.pc = "stored", worker'.user = worker.user, worker'.id = worker.id,
           rows'[worker.user] = rows[worker.user], seen[worker.user] <= seen'[worker.user],
           seen'[worker.user] \in Nat, worker.user \in raced => worker.user \in raced',
           \A i \in 1 .. Len(history[worker.user]) :
              history'[worker.user][i] = history[worker.user][i]
    PROVE  Stored'
<1> DEFINE u == worker.user
           n == worker.id
<1> SUFFICES ASSUME u \notin raced', seen'[u] <= n
             PROVE  Matches(u, n)' /\ \A d \in DOMAIN rows'[u] : rows'[u][d].stream = n
  BY DEF Stored
<1>1. /\ u \in Users /\ n \in Nat /\ n <= Len(history[u]) /\ Len(history[u]) \in Nat
      /\ seen[u] \in Nat
  BY LenProperties DEF Typed, WorkerTyped, RemoteTyped
<1>2. 1 .. n \subseteq 1 .. Len(history[u])
  BY <1>1
<1>3. Matches(u, n) /\ \A d \in DOMAIN rows[u] : rows[u][d].stream = n
  BY <1>1 DEF Stored
<1>4. Matches(u, n)'
  BY <1>1, <1>2, <1>3, SameList
<1> QED
  BY <1>3, <1>4

\* A step that leaves the lists, the rows and what was handled alone, and takes no
\* list out of the stale and the raced ones.
LEMMA GapsFrame ==
    ASSUME Typed, Gaps, UNCHANGED <<history, rows, seen>>,
           raced \subseteq raced', stale \cup raced \subseteq stale' \cup raced',
           worker'.pc = "stored" =>
              worker.pc = "stored" /\ worker'.user = worker.user /\ worker'.id = worker.id,
           cons'.pc = "checked" => cons' = cons /\ Head(stream') = Head(stream)
    PROVE  Gaps'
<1>1. \A u \in Users : Len(history[u]) \in Nat /\ seen[u] \in Nat
  BY LenProperties DEF Typed, RemoteTyped
<1>2. Lists'
  BY <1>1, ListKept DEF Lists, Gaps
<1>3. Stored'
  <2>1. CASE worker'.pc # "stored"
    BY <2>1 DEF Stored
  <2>2. CASE worker'.pc = "stored"
    <3>1. worker.user \in Users
      BY <2>2 DEF Typed, WorkerTyped
    <3> QED
      BY <1>1, <2>2, <3>1, StoredKept DEF Gaps
  <2> QED
    BY <2>1, <2>2
<1>4. Found'
  BY DEF Found, Gaps
<1> QED
  BY <1>2, <1>3, <1>4 DEF Gaps

\* Initially no list has changed.
LEMMA GapsInit == Init => Gaps
<1> SUFFICES ASSUME Init PROVE Gaps
  OBVIOUS
<1>1. Stored /\ Found
  BY DEF Init, Idle, Stored, Found
<1>2. ASSUME NEW u \in Users PROVE 0 \in seen[u] .. Len(history[u]) /\ Faithful(u, 0)
  <2>1. rows[u] = <<>> /\ history[u] = <<>> /\ seen[u] = 0
    BY DEF Init
  <2>2. \A d : KeyAt(u, 0, d) = 0
    BY KeyInRange
  <2>3. DOMAIN rows[u] = {}
    BY <2>1
  <2> QED
    BY <2>1, <2>2, <2>3 DEF Faithful, Matches
<1> QED
  BY <1>1, <1>2 DEF Gaps, Lists

\* A change at the remote server alters no moment of the past.
LEMMA ChangeNoticed ==
    ASSUME Typed, Gaps, NEW u \in Users, NEW d \in Devices, NEW deleted \in BOOLEAN,
           NEW sent \in BOOLEAN, Change(u, d, deleted, sent)
    PROVE  Gaps'
<1> DEFINE c == [device |-> d, deleted |-> deleted]
           m == [user |-> u, id |-> Len(history[u]) + 1]
<1>1. /\ history' = [history EXCEPT ![u] = Append(@, c)]
      /\ stream' = IF sent THEN Append(stream, m) ELSE stream
      /\ UNCHANGED <<rows, stale, cons, worker, seen, raced>>
  BY DEF Change, tables, pokers, engine, ghosts
<1>2. /\ history[u] \in Seq(Changes) /\ c \in Changes
      /\ \A v \in Users : history[v] \in Seq(Changes) /\ Len(history[v]) \in Nat /\ seen[v] \in Nat
  BY LenProperties DEF Typed, RemoteTyped, Changes
<1>3. \A v \in Users : /\ Len(history'[v]) \in Nat /\ Len(history[v]) <= Len(history'[v])
                       /\ \A i \in 1 .. Len(history[v]) : history'[v][i] = history[v][i]
  <2> SUFFICES ASSUME NEW v \in Users
               PROVE  /\ Len(history'[v]) \in Nat /\ Len(history[v]) <= Len(history'[v])
                      /\ \A i \in 1 .. Len(history[v]) : history'[v][i] = history[v][i]
    OBVIOUS
  <2>1. CASE v # u
    BY <1>1, <1>2, <2>1 DEF Typed, RemoteTyped
  <2>2. CASE v = u
    <3>1. history'[u] = Append(history[u], c)
      BY <1>1 DEF Typed, RemoteTyped
    <3>2. /\ Len(history'[u]) = Len(history[u]) + 1
          /\ \A i \in 1 .. Len(history[u]) : history'[u][i] = history[u][i]
      BY <1>2, <3>1, AppendProperties
    <3> QED
      BY <1>2, <2>2, <3>2
  <2> QED
    BY <2>1, <2>2
<1>4. Lists'
  BY <1>1, <1>3, ListKept DEF Lists, Gaps
<1>5. Stored'
  <2>1. CASE worker.pc # "stored"
    BY <1>1, <2>1 DEF Stored
  <2>2. CASE worker.pc = "stored"
    <3>1. worker.user \in Users
      BY <2>2 DEF Typed, WorkerTyped
    <3> QED
      BY <1>1, <1>2, <1>3, <2>2, <3>1, StoredKept DEF Gaps
  <2> QED
    BY <2>1, <2>2
<1>6. Found'
  <2>1. CASE cons.pc # "checked"
    BY <1>1, <2>1 DEF Found
  <2>2. CASE cons.pc = "checked"
    <3>1. stream # <<>> /\ stream \in Seq(Messages) /\ m \in Messages
      BY <1>2, <2>2 DEF Typed, ConsTyped, RemoteTyped, Messages
    <3>2. Head(stream') = Head(stream)
      BY <1>1, <3>1, AppendProperties
    <3> QED
      BY <1>1, <3>2 DEF Found, Gaps
  <2> QED
    BY <2>1, <2>2
<1> QED
  BY <1>4, <1>5, <1>6 DEF Gaps

\* PrevIDsExists finds a row of the change before.
LEMMA CheckNoticed == ASSUME Typed, Gaps, Check PROVE Gaps'
<1> DEFINE msg == Head(stream)
           prevIDs == {msg.id - 1} \ {0}
<1>1. /\ UNCHANGED <<history, stream, rows, stale, seen, raced, worker>>
      /\ stream # <<>> /\ cons'.pc = "checked"
      /\ cons'.exists = (PrevIDsExists(msg.user, prevIDs) /\ prevIDs # {})
  BY DEF Check, remote, tables, engine, ghosts
<1>2. msg.id \in Nat /\ msg.id >= 1
  <2>1. msg \in Messages /\ msg.id \in 1 .. Len(history[msg.user])
    BY <1>1, HeadTyped
  <2> QED
    BY <2>1 DEF Messages
<1>3. Found'
  <2> SUFFICES ASSUME cons'.exists
               PROVE  /\ msg.id > 1
                      /\ \E d \in DOMAIN rows[msg.user] : rows[msg.user][d].stream = msg.id - 1
    BY <1>1 DEF Found
  <2>1. PrevIDsExists(msg.user, prevIDs) /\ prevIDs # {}
    BY <1>1
  <2>2. msg.id - 1 # 0 /\ prevIDs = {msg.id - 1}
    BY <2>1
  <2>3. Cardinality(prevIDs) = 1
    BY <2>2, FS_Singleton
  <2>4. {d \in DOMAIN rows[msg.user] : rows[msg.user][d].stream \in prevIDs} # {}
    BY <2>1, <2>3, FS_EmptySet DEF PrevIDsExists
  <2> QED
    BY <1>2, <2>2, <2>4
<1>4. Lists'
  <2>1. \A u \in Users : Len(history[u]) \in Nat
    BY LenProperties DEF Typed, RemoteTyped
  <2> QED
    BY <1>1, <2>1, ListKept DEF Lists, Gaps
<1>5. Stored'
  <2>1. CASE worker.pc # "stored"
    BY <1>1, <2>1 DEF Stored
  <2>2. CASE worker.pc = "stored"
    <3>1. worker.user \in Users /\ seen[worker.user] \in Nat
      BY <2>2 DEF Typed, WorkerTyped, RemoteTyped
    <3> QED
      BY <1>1, <2>2, <3>1, StoredKept DEF Gaps
  <2> QED
    BY <2>1, <2>2
<1> QED
  BY <1>3, <1>4, <1>5 DEF Gaps

\* Applying change m to a list that is faithful to a moment, and has a row of change
\* m - 1, makes it faithful to m: the moment was m - 1, or m is handled once more.
LEMMA AppliedFaithful ==
    ASSUME Typed, stream # <<>>, UNCHANGED history,
           NEW u, u = Head(stream).user, NEW m, m = Head(stream).id,
           NEW row, row = [key |-> IF Current.deleted THEN 0 ELSE m, stream |-> m],
           rows'[u] = Upsert(rows[u], Current.device, row), seen'[u] = m,
           NEW n \in seen[u] .. Len(history[u]), Faithful(u, n),
           NEW e \in DOMAIN rows[u], rows[u][e].stream = m - 1
    PROVE  Faithful(u, m)'
<1> DEFINE dev == Current.device
<1>1. /\ u \in Users /\ m \in Nat \ {0} /\ m <= Len(history[u]) /\ Len(history[u]) \in Nat
      /\ seen[u] \in Nat /\ seen[u] <= m /\ dev \in Devices
  <2>1. /\ Head(stream) \in Messages /\ m \in 1 .. Len(history[u]) /\ seen[u] <= m
        /\ Current \in Changes
    BY HeadTyped
  <2>2. u \in Users
    BY <2>1 DEF Messages
  <2>3. Len(history[u]) \in Nat /\ seen[u] \in Nat
    BY <2>2, LenProperties DEF Typed, RemoteTyped
  <2> QED
    BY <2>1, <2>2, <2>3 DEF Changes
<1>2. history[u][m] = Current
  BY DEF Current
<1>3. \A d \in DOMAIN rows[u] : rows[u][d].stream \in Nat
  BY <1>1 DEF Typed, RowsTyped
<1>4. n = m - 1 \/ n = m
  <2>1. n \in Nat /\ n >= seen[u]
    BY <1>1
  <2>2. m - 1 = n \/ (m - 1 < n /\ n = seen[u])
    BY DEF Faithful
  <2> QED
    BY <1>1, <2>1, <2>2
<1>5. \A d \in Devices \ {dev} : KeyAt(u, n, d) = KeyAt(u, m, d)
  <2> TAKE d \in Devices \ {dev}
  <2>1. KeyAt(u, m, d) = KeyAt(u, m - 1, d)
    <3>1. history[u][m].device # d
      BY <1>2
    <3>2. KeyAt(u, m, d) = IF history[u][m].device = d
                           THEN IF history[u][m].deleted THEN 0 ELSE m
                           ELSE KeyAt(u, m - 1, d)
      BY <1>1, KeyStep
    <3> QED
      BY <3>1, <3>2
  <2> QED
    BY <1>4, <2>1
<1>6. KeyAt(u, m, dev) = IF Current.deleted THEN 0 ELSE m
  BY <1>1, <1>2, KeyStep
<1>7. \A d : KeyAt(u, m, d)' = KeyAt(u, m, d)
  BY <1>1, KeyKept
<1>8. rows'[u] = [d \in DOMAIN rows[u] \cup {dev} |-> IF d = dev THEN row ELSE rows[u][d]]
  BY DEF Upsert
<1>9. row.key = (IF Current.deleted THEN 0 ELSE m) /\ row.stream = m
  OBVIOUS
<1>10. Matches(u, n)
  BY DEF Faithful
<1>11. \A d \in DOMAIN rows[u] : rows[u][d].stream <= n
  BY <1>1, <1>3 DEF Faithful
<1> HIDE DEF dev
<1>12. \A d \in Devices :
         (IF d \in DOMAIN rows'[u] THEN rows'[u][d].key ELSE 0) = KeyAt(u, m, d)
  <2> TAKE d \in Devices
  <2>1. CASE d = dev
    BY <1>6, <1>8, <1>9, <2>1
  <2>2. CASE d # dev
    <3>1. (IF d \in DOMAIN rows[u] THEN rows[u][d].key ELSE 0) = KeyAt(u, n, d)
      BY <1>10 DEF Matches
    <3> QED
      BY <1>5, <1>8, <2>2, <3>1
  <2> QED
    BY <2>1, <2>2
<1>13. \A d \in DOMAIN rows'[u] : rows'[u][d].stream = m \/ rows'[u][d].stream < m
  <2> TAKE d \in DOMAIN rows'[u]
  <2>1. CASE d = dev
    BY <1>8, <1>9, <2>1
  <2>2. CASE d # dev
    <3>1. d \in DOMAIN rows[u] /\ rows'[u][d] = rows[u][d]
      BY <1>8, <2>2
    <3>2. rows[u][d].stream \in Nat /\ rows[u][d].stream <= n
      BY <1>3, <1>11, <3>1
    <3> QED
      BY <1>1, <1>4, <3>1, <3>2
  <2> QED
    BY <2>1, <2>2
<1>14. Matches(u, m)'
  BY <1>7, <1>12 DEF Matches
<1> QED
  BY <1>13, <1>14 DEF Faithful

\* The consumer stores a change.
LEMMA ApplyNoticed == ASSUME Typed, Gaps, Apply PROVE Gaps'
<1>1. PICK u, m : u = Head(stream).user /\ m = Head(stream).id
  OBVIOUS
<1>2. PICK row : row = [key |-> IF Current.deleted THEN 0 ELSE m, stream |-> m]
  OBVIOUS
<1>3. /\ UNCHANGED <<history, stream, worker, stale>>
      /\ cons.pc = "checked" /\ cons'.pc = "emit"
      /\ rows' = [rows EXCEPT ![u] = Upsert(rows[u], Current.device, row)]
      /\ seen' = [seen EXCEPT ![u] = m]
      /\ raced' = IF cons.exists THEN raced ELSE raced \cup {u}
  BY <1>1, <1>2 DEF Apply, remote, engine
<1>4. stream # <<>>
  BY <1>3 DEF Typed, ConsTyped
<1>5. u \in Users /\ m \in 1 .. Len(history[u]) /\ seen[u] <= m
  BY <1>1, <1>4, HeadTyped DEF Messages
<1>6. \A v \in Users : Len(history[v]) \in Nat /\ seen[v] \in Nat
  BY LenProperties DEF Typed, RemoteTyped
<1>7. /\ rows'[u] = Upsert(rows[u], Current.device, row) /\ seen'[u] = m
      /\ \A v \in Users : v # u => rows'[v] = rows[v] /\ seen'[v] = seen[v]
  BY <1>3, <1>5 DEF Typed, RemoteTyped
<1>8. ASSUME u \notin raced'
      PROVE  /\ cons.exists /\ u \notin raced
             /\ \E e \in DOMAIN rows[u] : rows[u][e].stream = m - 1
  BY <1>1, <1>3, <1>8 DEF Gaps, Found
<1>9. Lists'
  <2> SUFFICES ASSUME NEW v \in Users \ (stale' \cup raced')
               PROVE  \E n \in seen'[v] .. Len(history'[v]) : Faithful(v, n)'
    BY DEF Lists
  <2>1. CASE v # u
    BY <1>3, <1>6, <1>7, <2>1, ListKept DEF Gaps
  <2>2. CASE v = u
    <3>1. u \notin raced /\ u \notin stale
      BY <1>3, <1>8, <2>2
    <3>2. PICK e \in DOMAIN rows[u] : rows[u][e].stream = m - 1
      BY <1>8, <2>2
    <3>3. PICK n \in seen[u] .. Len(history[u]) : Faithful(u, n)
      BY <1>5, <3>1 DEF Gaps, Lists
    <3>4. Faithful(u, m)'
      <4>1. history' = history
        BY <1>3
      <4> QED
        BY <1>1, <1>2, <1>4, <1>7, <3>2, <3>3, <4>1, AppliedFaithful, Zenon
    <3> QED
      BY <1>3, <1>5, <1>7, <2>2, <3>4
  <2> QED
    BY <2>1, <2>2
<1>10. Stored'
  <2>1. CASE worker.pc # "stored"
    BY <1>3, <2>1 DEF Stored
  <2>2. CASE worker.pc = "stored" /\ worker.user # u
    <3>1. worker.user \in Users
      BY <2>2 DEF Typed, WorkerTyped
    <3> QED
      BY <1>3, <1>6, <1>7, <2>2, <3>1, StoredKept DEF Gaps
  <2>3. CASE worker.pc = "stored" /\ worker.user = u
    <3> SUFFICES ASSUME u \notin raced', m <= worker.id PROVE FALSE
      BY <1>3, <1>7, <2>3 DEF Stored
    <3>1. worker.id \in Nat /\ m \in Nat /\ seen[u] <= worker.id
      <4>1. worker.id \in Nat
        BY <2>3 DEF Typed, WorkerTyped
      <4>2. m \in Nat /\ seen[u] \in Nat
        BY <1>5, <1>6
      <4> QED
        BY <1>5, <4>1, <4>2
    <3>2. PICK e \in DOMAIN rows[u] : rows[u][e].stream = m - 1
      BY <1>8
    <3>3. rows[u][e].stream = worker.id
      BY <1>8, <2>3, <3>1 DEF Gaps, Stored
    <3> QED
      BY <3>1, <3>2, <3>3
  <2> QED
    BY <2>1, <2>2, <2>3
<1>11. Found'
  BY <1>3 DEF Found
<1> QED
  BY <1>9, <1>10, <1>11 DEF Gaps

\* The consumer notices a gap.
LEMMA MarkStaleNoticed == ASSUME Typed, Gaps, MarkStale PROVE Gaps'
<1>1. PICK u, m : u = Head(stream).user /\ m = Head(stream).id
  OBVIOUS
<1>2. /\ UNCHANGED <<history, stream, rows, worker, raced>>
      /\ cons.pc = "checked" /\ cons'.pc = "poke"
      /\ stale' = stale \cup {u} /\ seen' = [seen EXCEPT ![u] = m]
  BY <1>1 DEF MarkStale, remote, engine
<1>3. stream # <<>>
  BY <1>2 DEF Typed, ConsTyped
<1>4. u \in Users /\ m \in 1 .. Len(history[u]) /\ seen[u] <= m
  BY <1>1, <1>3, HeadTyped DEF Messages
<1>5. \A v \in Users : Len(history[v]) \in Nat /\ seen[v] \in Nat
  BY LenProperties DEF Typed, RemoteTyped
<1>6. seen'[u] = m /\ \A v \in Users : v # u => seen'[v] = seen[v]
  BY <1>2, <1>4 DEF Typed, RemoteTyped
<1>7. Lists'
  <2> SUFFICES ASSUME NEW v \in Users \ (stale' \cup raced')
               PROVE  \E n \in seen'[v] .. Len(history'[v]) : Faithful(v, n)'
    BY DEF Lists
  <2> QED
    BY <1>2, <1>5, <1>6, ListKept DEF Gaps
<1>8. Stored'
  <2>1. CASE worker.pc # "stored"
    BY <1>2, <2>1 DEF Stored
  <2>2. CASE worker.pc = "stored"
    <3>1. worker.user \in Users
      BY <2>2 DEF Typed, WorkerTyped
    <3>2. seen[worker.user] <= seen'[worker.user] /\ seen'[worker.user] \in Nat
      BY <1>4, <1>5, <1>6, <3>1
    <3> QED
      BY <1>2, <2>2, <3>2, StoredKept DEF Gaps
  <2> QED
    BY <2>1, <2>2
<1>9. Found'
  BY <1>2 DEF Found
<1> QED
  BY <1>7, <1>8, <1>9 DEF Gaps

\* The worker replaces the rows by the list it was sent.
LEMMA StoreListNoticed == ASSUME Typed, Gaps, StoreList PROVE Gaps'
<1>1. PICK u, n : u = worker.user /\ n = worker.id
  OBVIOUS
<1>2. /\ UNCHANGED <<history, stream, seen, cons, stale>>
      /\ u \in Users /\ n \in Nat /\ worker'.user = u /\ worker'.id = n
      /\ \A v \in Users : v # u => rows'[v] = rows[v]
      /\ rows'[u] = [d \in {d \in Devices : KeyAt(u, n, d) # 0} |->
                       [key |-> KeyAt(u, n, d), stream |-> n]]
      /\ raced' = IF seen[u] > n \/ (cons.pc = "checked" /\ Updating(u))
                  THEN raced \cup {u} ELSE raced \ {u}
  BY <1>1, StoreListEffect
<1>3. \A v \in Users : Len(history[v]) \in Nat /\ seen[v] \in Nat
  BY LenProperties DEF Typed, RemoteTyped
<1>4. n <= Len(history[u])
  BY <1>1, StoreListEffect DEF Typed, WorkerTyped
<1>5. Matches(u, n)' /\ \A d \in DOMAIN rows'[u] : rows'[u][d].stream = n
  <2>1. \A d : KeyAt(u, n, d)' = KeyAt(u, n, d)
    BY <1>2, KeyKept
  <2>2. \A d \in Devices :
           (IF d \in DOMAIN rows'[u] THEN rows'[u][d].key ELSE 0) = KeyAt(u, n, d)
    BY <1>2
  <2>3. Matches(u, n)'
    BY <2>1, <2>2 DEF Matches
  <2> QED
    BY <1>2, <2>3
<1>6. u \notin raced' => seen[u] <= n
  BY <1>2, <1>3
<1>7. Lists'
  <2> SUFFICES ASSUME NEW v \in Users \ (stale' \cup raced')
               PROVE  \E k \in seen'[v] .. Len(history'[v]) : Faithful(v, k)'
    BY DEF Lists
  <2>1. CASE v # u
    BY <1>2, <1>3, <2>1, ListKept DEF Gaps
  <2>2. CASE v = u
    <3>1. n \in seen'[v] .. Len(history'[v])
      BY <1>2, <1>3, <1>4, <1>6, <2>2
    <3>2. Faithful(v, n)'
      BY <1>5, <2>2 DEF Faithful
    <3> QED
      BY <3>1, <3>2
  <2> QED
    BY <2>1, <2>2
<1>8. Stored'
  BY <1>2, <1>5 DEF Stored
<1>9. Found'
  <2>1. CASE cons.pc # "checked"
    BY <1>2, <2>1 DEF Found
  <2>2. CASE cons.pc = "checked" /\ Head(stream).user = u
    BY <1>2, <2>2 DEF Found, Updating
  <2>3. CASE cons.pc = "checked" /\ Head(stream).user # u
    <3>1. Head(stream).user \in Users
      BY <2>3, HeadTyped DEF Typed, ConsTyped, Messages
    <3> QED
      BY <1>2, <2>3, <3>1 DEF Found, Gaps
  <2> QED
    BY <2>1, <2>2, <2>3
<1> QED
  BY <1>7, <1>8, <1>9 DEF Gaps

\* The worker declares the list fresh.
LEMMA MarkFreshNoticed == ASSUME Typed, Gaps, MarkFresh PROVE Gaps'
<1>1. PICK u, n : u = worker.user /\ n = worker.id
  OBVIOUS
<1>2. /\ UNCHANGED <<history, stream, rows, seen, cons>>
      /\ worker.pc = "stored" /\ u \in Users /\ n \in Nat /\ worker'.pc = "next"
      /\ stale' = stale \ {u}
      /\ raced' = IF seen[u] > n THEN raced \cup {u} ELSE raced
  BY <1>1, MarkFreshEffect
<1>3. \A v \in Users : Len(history[v]) \in Nat /\ seen[v] \in Nat
  BY LenProperties DEF Typed, RemoteTyped
<1>4. n <= Len(history[u])
  BY <1>1, <1>2 DEF Typed, WorkerTyped
<1>5. Lists'
  <2> SUFFICES ASSUME NEW v \in Users \ (stale' \cup raced')
               PROVE  \E k \in seen'[v] .. Len(history'[v]) : Faithful(v, k)'
    BY DEF Lists
  <2>1. CASE v # u
    BY <1>2, <1>3, <2>1, ListKept DEF Gaps
  <2>2. CASE v = u
    <3>1. seen[u] <= n /\ u \notin raced
      BY <1>2, <1>3, <2>2
    <3>2. Faithful(u, n)
      BY <1>1, <1>2, <3>1 DEF Gaps, Stored, Faithful
    <3>3. Faithful(u, n)'
      BY <1>2, <3>2, SameFaithful
    <3>4. n \in seen'[v] .. Len(history'[v])
      BY <1>2, <1>3, <1>4, <2>2, <3>1
    <3> QED
      BY <2>2, <3>3, <3>4
  <2> QED
    BY <2>1, <2>2
<1>6. Stored'
  BY <1>2 DEF Stored
<1>7. Found'
  BY <1>2 DEF Found, Gaps
<1> QED
  BY <1>5, <1>6, <1>7 DEF Gaps

\* Every step keeps the lists faithful.
LEMMA GapsStep == ASSUME Typed, Gaps, [Next]_vars PROVE Gaps'
<1>1. CASE UNCHANGED vars
  <2>1. UNCHANGED <<history, rows, seen, raced, stale, worker, cons, stream>>
    BY <1>1 DEF vars, remote, tables, pokers, engine, ghosts
  <2> QED
    BY <2>1, GapsFrame
<1>2. CASE \E u \in Users, d \in Devices, deleted \in BOOLEAN, sent \in BOOLEAN :
              Change(u, d, deleted, sent)
  BY <1>2, ChangeNoticed
<1>3. CASE Check \/ Apply \/ MarkStale
  BY <1>3, CheckNoticed, ApplyNoticed, MarkStaleNoticed
<1>4. CASE Poke \/ Ack \/ Redeliver
  <2>1. UNCHANGED <<history, rows, seen, raced, stale, worker>> /\ cons'.pc # "checked"
    BY <1>4 DEF Poke, Ack, Redeliver, Idle, remote, tables, engine, ghosts
  <2> QED
    BY <2>1, GapsFrame
<1>5. CASE \E u \in Users : ManualUpdate(u) \/ Notify(u)
  <2>1. UNCHANGED <<history, rows, seen, raced, worker, cons, stream>> /\ stale \subseteq stale'
    BY <1>5 DEF ManualUpdate, Notify, remote, tables, engine
  <2> QED
    BY <2>1, GapsFrame
<1>6. CASE Take \/ Load \/ Processed \/ Failed
  <2>1. UNCHANGED <<history, rows, seen, raced, stale, cons, stream>>
    BY <1>6 DEF Take, Load, Processed, Failed, remote, tables, pokers, ghosts
  <2>2. worker'.pc # "stored" \/ worker' = worker
    BY <1>6 DEF Take, Load, Processed, Failed, Idle
  <2> QED
    BY <2>1, <2>2, GapsFrame
<1>7. CASE StoreList \/ MarkFresh
  BY <1>7, StoreListNoticed, MarkFreshNoticed
<1>8. CASE \E u \in Users : Answer(u) \/ Swallow(u)
  <2>1. UNCHANGED <<history, rows, seen, raced, stale, cons, stream>>
    BY <1>8 DEF Answer, Swallow, remote, tables, pokers, ghosts
  <2>2. worker'.pc # "stored"
    BY <1>8 DEF Answer, Swallow, Typed, WorkerTyped
  <2> QED
    BY <2>1, <2>2, GapsFrame
<1>9. CASE (\E S \in SUBSET Servers : Restart(S)) \/ \E s \in Servers : Push(s) \/ Blacklist(s)
  <2>1. UNCHANGED <<history, rows, seen, raced, stale, worker, cons, stream>>
    BY <1>9 DEF Restart, Push, Blacklist, remote, tables, pokers, engine, ghosts
  <2> QED
    BY <2>1, GapsFrame
<1>10. CASE \E left, first \in SUBSET Users : Crash(left, first)
  <2>1. /\ UNCHANGED <<history, rows, seen>> /\ raced \subseteq raced'
        /\ stale \cup raced \subseteq stale' \cup raced'
        /\ worker'.pc = "idle" /\ cons'.pc = "idle"
    BY <1>10 DEF Crash, Idle, remote
  <2> QED
    BY <2>1, GapsFrame
<1> QED
  BY <1>1, <1>2, <1>3, <1>4, <1>5, <1>6, <1>7, <1>8, <1>9, <1>10 DEF Next

\* A missed change is noticed: however updates are lost and handled again, whenever
\* the worker stores a list and the process crashes, a list that is not marked holds
\* the keys of one moment of the remote list, not before the last update handled.
THEOREM MissedChangesAreNoticed == Spec => []GapsAreNoticed
<1>1. Lists => GapsAreNoticed
  BY DEF Lists, Faithful, GapsAreNoticed
<1>2. Spec => []Gaps
  BY GapsInit, GapsStep, TypedAlways, PTL DEF Spec
<1>3. Gaps => GapsAreNoticed
  BY <1>1 DEF Gaps
<1> QED
  BY <1>2, <1>3, PTL

================================================================================
