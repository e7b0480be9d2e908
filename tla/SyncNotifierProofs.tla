------------------------- MODULE SyncNotifierProofs -------------------------
(***************************************************************************)
(* What /sync guarantees for any number of clients, streams and items, and *)
(* any number of crashes and lost responses.                               *)
(***************************************************************************)
EXTENDS SyncNotifier, SequenceTheorems, WellFoundedInduction, TLAPS

-----------------------------------------------------------------------------
(* Types                                                                   *)

Waits == {"listen", "listening", "waiting", "woken"}

\* The positions and the consumers: between two items the notifier has
\* announced everything, otherwise it lags by the last item at most.
Positions ==
    /\ items \in [Kinds -> Seq(SUBSET Clients)]
    /\ consumer \in [Kinds -> {"idle", "written", "advanced"}]
    /\ latest \in Tokens /\ currPos \in Tokens
    /\ \A k \in Kinds :
          /\ currPos[k] <= latest[k] /\ latest[k] <= Len(items[k])
          /\ consumer[k] = "idle" => currPos[k] = Len(items[k])
          /\ consumer[k] # "idle" => Len(items[k]) > 0 /\ currPos[k] >= Len(items[k]) - 1
          /\ consumer[k] = "advanced" => latest[k] = Len(items[k])

\* A request r, by where it is.
ReqTyped(r) ==
    /\ "pc" \in DOMAIN r /\ r.pc \in {"idle", "read", "respond"} \cup Waits
    /\ r.pc # "idle" =>
          /\ {"since", "poll", "held"} \subseteq DOMAIN r
          /\ r.since \in Tokens /\ r.poll \in BOOLEAN /\ r.held \in Nat
          /\ \A k \in Kinds : r.since[k] <= Len(items[k])
    /\ r.pc \in Waits \cup {"respond"} =>
          /\ "cur" \in DOMAIN r /\ r.cur \in Tokens
          /\ \A k \in Kinds : r.cur[k] <= currPos[k]
    /\ r.pc = "respond" =>
          /\ {"batch", "got"} \subseteq DOMAIN r
          /\ DOMAIN r.batch \subseteq Kinds /\ r.batch \in [DOMAIN r.batch -> Nat]
          /\ \A k \in DOMAIN r.batch : r.batch[k] <= Len(items[k])

\* A request that waits holds a listener.
Holds(r) == r.pc \in {"listening", "waiting", "woken"} => r.held > 0

Requests == /\ DOMAIN req = Clients
            /\ \A c \in Clients : ReqTyped(req[c]) /\ Holds(req[c])

Listeners == /\ streams \in [Clients -> Tokens]
             /\ \A c \in Clients, k \in Kinds : streams[c][k] <= currPos[k]

Held == /\ token \in [Clients -> Tokens]
        /\ \A c \in Clients, k \in Kinds : token[c][k] <= Len(items[k])

Typed == Positions /\ Requests /\ Listeners /\ Held

\* The map of the notifier and the counters of its streams, which wrap.
Counts == /\ mapped \subseteq Clients
          /\ numWaiting \in [Clients -> 0 .. UintSize - 1]
          /\ garbage \in [Clients -> 0 .. MaxGarbage]

\* The invariant implies the types.
LEMMA TypedTypes == Typed /\ Counts => TypeOK
<1> SUFFICES ASSUME Typed, Counts PROVE TypeOK
  OBVIOUS
<1>1. \A k \in Kinds : /\ currPos[k] \in 0 .. latest[k]
                       /\ latest[k] \in 0 .. Len(items[k])
                       /\ consumer[k] \in {"idle", "written", "advanced"}
  BY DEF Typed, Positions, Tokens
<1>2. /\ mapped \subseteq Clients
      /\ \A c \in Clients :
            /\ streams[c] \in Tokens /\ ~IsAfter(streams[c], currPos)
            /\ numWaiting[c] \in 0 .. UintSize - 1 /\ garbage[c] \in 0 .. MaxGarbage
  <2>1. mapped \subseteq Clients /\ \A c \in Clients :
           numWaiting[c] \in 0 .. UintSize - 1 /\ garbage[c] \in 0 .. MaxGarbage
    BY DEF Counts
  <2>2. \A c \in Clients : streams[c] \in Tokens /\ ~IsAfter(streams[c], currPos)
    BY DEF Typed, Positions, Listeners, Tokens, IsAfter
  <2> QED BY <2>1, <2>2
<1>3. \A c \in Clients :
        token[c] \in Tokens /\ ~IsAfter(token[c], [k \in Kinds |-> Len(items[k])])
  BY DEF Typed, Positions, Held, Tokens, IsAfter
<1>4. \A c \in Clients :
        /\ req[c].pc \in {"idle", "read", "listen", "listening", "waiting",
                          "woken", "respond"}
        /\ req[c].pc \in {"listening", "waiting", "woken"} => req[c].held > 0
  BY DEF Typed, Requests, ReqTyped, Holds, Waits
<1> QED
  BY <1>1, <1>2, <1>3, <1>4 DEF TypeOK

\* A step of one request.
LEMMA OneRequest ==
    ASSUME Typed, NEW c \in Clients,
           UNCHANGED <<items, consumer, latest, currPos>>,
           DOMAIN req' = Clients, \A d \in Clients \ {c} : req'[d] = req[d],
           ReqTyped(req'[c]), Holds(req'[c]), Listeners', Held'
    PROVE  Typed'
<1>1. Positions'
  BY DEF Typed, Positions, Tokens
<1>2. ASSUME NEW d \in Clients PROVE ReqTyped(req[d])' /\ Holds(req[d])'
  <2>1. CASE d = c
    BY <2>1 DEF ReqTyped, Holds
  <2>2. CASE d # c
    BY <1>2, <2>2 DEF ReqTyped, Holds, Typed, Requests
  <2> QED BY <2>1, <2>2
<1> QED
  BY <1>1, <1>2 DEF Typed, Requests

\* The new request of an unchanged stream and token.
LEMMA OneRequestOnly ==
    ASSUME Typed, NEW c \in Clients,
           UNCHANGED <<db, latest, currPos, streams, token>>,
           DOMAIN req' = Clients, \A d \in Clients \ {c} : req'[d] = req[d],
           ReqTyped(req'[c]), Holds(req'[c])
    PROVE  Typed'
<1>1. Listeners' /\ Held' /\ UNCHANGED <<items, consumer, latest, currPos, streams>>
  BY DEF Typed, Listeners, Held, db
<1> QED
  BY <1>1, OneRequest

\* A finite set of naturals has a greatest element (the last item of a read).
LEMMA Greatest ==
    ASSUME NEW n \in Nat, NEW S \in SUBSET (1 .. n), S # {}
    PROVE  \E x \in S : \A y \in S : y <= x
<1> DEFINE R == {p \in Nat \X Nat : p[1] < p[2]}
           T == {n - x : x \in S}
<1>1. IsWellFoundedOn(R, Nat)
  BY NatLessThanWellFounded, Zenon DEF OpToRel
<1>2. T \subseteq Nat /\ T # {}
  <2>1. \A x \in S : n - x \in Nat
    OBVIOUS
  <2>2. PICK x : x \in S
    OBVIOUS
  <2>3. n - x \in T
    BY <2>2
  <2> QED BY <2>1, <2>3
<1> HIDE DEF R
<1>3. PICK t \in T : \A u \in T : ~ (<<u, t>> \in R)
  BY <1>1, <1>2, WFMin
<1>4. PICK x \in S : t = n - x
  OBVIOUS
<1>5. ASSUME NEW y \in S PROVE y <= x
  <2>1. n - y \in T /\ n - y \in Nat /\ t \in Nat
    BY <1>2
  <2>2. ~ (<<n - y, t>> \in R)
    BY <1>3, <2>1
  <2>3. ~ (n - y < t)
    BY <2>1, <2>2 DEF R
  <2> QED
    BY <1>4, <2>1, <2>3
<1> QED
  BY <1>5

\* What a read returns (Between): the client's items between two positions.
LEMMA BetweenItems ==
    ASSUME NEW c, NEW k, NEW lo \in Nat, NEW hi \in Nat, Len(items[k]) \in Nat
    PROVE  /\ \A n \in Nat : lo < n /\ n <= hi /\ n <= Len(items[k]) /\ c \in items[k][n]
                              => <<k, n>> \in Between(c, k, lo, hi)
           /\ \A i \in Between(c, k, lo, hi) :
                 \E n \in lo + 1 .. hi : i = <<k, n>> /\ n <= Len(items[k])
BY DEF Between

\* A read that found something has a last item.
LEMMA LastItem ==
    ASSUME NEW hi \in Nat, NEW got, got # {}, \A i \in got : i[2] \in 1 .. hi
    PROVE  \E n \in {i[2] : i \in got} : \A i \in got : i[2] <= n
<1> DEFINE S == {i[2] : i \in got}
<1>1. S \in SUBSET (1 .. hi) /\ S # {}
  <2>1. PICK i : i \in got
    OBVIOUS
  <2>2. i[2] \in S
    BY <2>1
  <2> QED BY <2>2
<1>2. PICK x \in S : \A y \in S : y <= x
  BY <1>1, Greatest
<1> QED
  BY <1>2

\* What a read of stream k leaves in the request (Reply).
LEMMA ReplyFields ==
    ASSUME Typed, NEW c \in Clients, NEW k \in Kinds, req[c].pc = "respond",
           NEW got, NEW pos \in Nat, Reply(c, k, got, pos)
    PROVE  LET r == req[c]  s == req'[c] IN
           /\ DOMAIN req' = Clients /\ \A d \in Clients \ {c} : req'[d] = req[d]
           /\ DOMAIN s = DOMAIN r
           /\ s.pc = r.pc /\ s.since = r.since /\ s.poll = r.poll
           /\ s.held = r.held /\ s.cur = r.cur
           /\ s.got = r.got \cup got
           /\ DOMAIN s.batch = DOMAIN r.batch \cup {k}
           /\ s.batch \in [DOMAIN s.batch -> Nat]
           /\ s.batch[k] = pos
           /\ \A l \in DOMAIN r.batch \ {k} : s.batch[l] = r.batch[l]
<1> DEFINE r == req[c]
           b == [l \in DOMAIN r.batch \cup {k} |-> IF l = k THEN pos ELSE r.batch[l]]
<1>1. /\ {"pc", "since", "poll", "held", "cur", "batch", "got"} \subseteq DOMAIN r
      /\ DOMAIN r.batch \subseteq Kinds /\ r.batch \in [DOMAIN r.batch -> Nat]
  BY DEF Typed, Requests, ReqTyped
<1>2. /\ DOMAIN b = DOMAIN r.batch \cup {k} /\ b[k] = pos
      /\ \A l \in DOMAIN r.batch \ {k} : b[l] = r.batch[l]
      /\ b \in [DOMAIN b -> Nat]
  BY <1>1
<1> HIDE DEF b
<1>3. req' = [req EXCEPT ![c].got = r.got \cup got, ![c].batch = b]
  BY DEF Reply, b
<1>4. DOMAIN req = Clients
  BY DEF Typed, Requests
<1>5. /\ DOMAIN req' = Clients /\ \A d \in Clients \ {c} : req'[d] = req[d]
      /\ req'[c] = [[r EXCEPT !.got = r.got \cup got] EXCEPT !.batch = b]
  BY <1>3, <1>4
<1>6. /\ DOMAIN req'[c] = DOMAIN r /\ req'[c].batch = b /\ req'[c].got = r.got \cup got
      /\ req'[c].pc = r.pc /\ req'[c].since = r.since /\ req'[c].poll = r.poll
      /\ req'[c].held = r.held /\ req'[c].cur = r.cur
  BY <1>1, <1>5
<1> QED
  BY <1>2, <1>5, <1>6

\* A read keeps the types if its position is in the stream.
LEMMA ReplyTyped ==
    ASSUME Typed, NEW c \in Clients, NEW k \in Kinds, req[c].pc = "respond",
           NEW got, NEW pos \in Nat, pos <= Len(items[k]), Reply(c, k, got, pos),
           UNCHANGED <<db, latest, currPos, streams, client, faults>>
    PROVE  Typed'
<1>1. ReqTyped(req[c])
  BY DEF Typed, Requests
<1>2. ReqTyped(req'[c]) /\ Holds(req'[c])
  BY <1>1, ReplyFields DEF ReqTyped, Holds
<1> QED
  BY <1>2, ReplyFields, OneRequestOnly DEF client

\* CompleteSync() keeps the types.
LEMMA CompleteTyped ==
    ASSUME Typed, NEW c \in Clients, NEW k \in Kinds, Complete(c, k) PROVE Typed'
<1>1. latest[k] \in Nat /\ latest[k] <= Len(items[k])
  BY DEF Typed, Positions, Tokens
<1>2. /\ req[c].pc = "respond"
      /\ UNCHANGED <<db, latest, currPos, streams, client, faults>>
      /\ \/ Reply(c, k, {}, 0)
         \/ Reply(c, k, Between(c, k, 0, latest[k]), latest[k])
  BY DEF Complete, notifier
<1>3. 0 \in Nat /\ 0 <= Len(items[k])
  BY <1>1 DEF Typed, Positions
<1> QED
  BY <1>1, <1>2, <1>3, ReplyTyped

\* What IncrementalSync() reads: unless it fails, the client's items from its
\* token up to the position of the notifier or beyond, or none where the
\* token is ahead; the position it returns is past nothing it did not read.
LEMMA IncrementalReads ==
    ASSUME Typed, NEW c \in Clients, NEW k \in Kinds, Incremental(c, k)
    PROVE  /\ req[c].pc = "respond" /\ k \notin DOMAIN req[c].batch
           /\ UNCHANGED <<db, latest, currPos, streams, client, faults>>
           /\ \E got, pos :
                 /\ Reply(c, k, got, pos) /\ pos \in Nat /\ pos <= Len(items[k])
                 /\ \/ ReadErrors
                    \/ \A n \in Nat :
                          /\ req[c].since[k] < n /\ n <= Len(items[k])
                          /\ n <= pos \/ n <= currPos[k]
                          /\ c \in items[k][n]
                          => <<k, n>> \in got
<1> DEFINE from == req[c].since[k]
           to   == currPos[k]
           lo   == IF k = "receipt" \/ from < to THEN from ELSE to
           hi   == IF k = "receipt" THEN Len(items[k]) ELSE IF from < to THEN to ELSE from
           got  == Between(c, k, lo, hi)
           last == CHOOSE n \in {i[2] : i \in got} : \A i \in got : i[2] <= n
<1>1. /\ from \in Nat /\ to \in Nat /\ Len(items[k]) \in Nat
      /\ from <= Len(items[k]) /\ to <= Len(items[k])
  <2>1. req[c].pc = "respond" /\ ReqTyped(req[c])
    BY DEF Incremental, Typed, Requests
  <2> QED
    BY <2>1 DEF ReqTyped, Typed, Positions, Tokens
<1>2. /\ req[c].pc = "respond" /\ k \notin DOMAIN req[c].batch
      /\ UNCHANGED <<db, latest, currPos, streams, client, faults>>
      /\ \/ ReadErrors /\ Reply(c, k, {}, from)
         \/ Reply(c, k, got, IF got = {} THEN to ELSE last)
  BY DEF Incremental, notifier
<1>3. lo \in Nat /\ hi \in Nat /\ hi <= Len(items[k])
  BY <1>1
<1>4. got # {} => last \in lo + 1 .. hi /\ last <= Len(items[k])
  <2> SUFFICES ASSUME got # {} PROVE last \in lo + 1 .. hi /\ last <= Len(items[k])
    OBVIOUS
  <2> HIDE DEF lo, hi
  <2>1. \A i \in got : i[2] \in lo + 1 .. hi /\ i[2] <= Len(items[k])
    <3>1. \A i \in got : \E n \in lo + 1 .. hi : i = <<k, n>> /\ n <= Len(items[k])
      BY <1>1, <1>3 DEF Between
    <3> HIDE DEF got
    <3> QED
      BY <3>1
  <2> HIDE DEF got
  <2>2. \A i \in got : i[2] \in 1 .. hi
    BY <1>3, <2>1
  <2>3. \E n \in {i[2] : i \in got} : \A i \in got : i[2] <= n
    BY <1>3, <2>2, LastItem
  <2>4. last \in {i[2] : i \in got}
    BY <2>3
  <2> HIDE DEF last
  <2> QED
    BY <2>1, <2>4
<1>5. \A n \in Nat : lo < n /\ n <= hi /\ n <= Len(items[k]) /\ c \in items[k][n]
                     => <<k, n>> \in got
  BY <1>1, <1>3, BetweenItems
<1>6. ASSUME Reply(c, k, {}, from), ReadErrors
      PROVE  \E g, pos : Reply(c, k, g, pos) /\ pos \in Nat /\ pos <= Len(items[k])
  BY <1>1, <1>6
<1>7. ASSUME NEW n \in Nat, from < n, n <= Len(items[k]), c \in items[k][n],
             n <= (IF got = {} THEN to ELSE last) \/ n <= to
      PROVE  <<k, n>> \in got
  <2> HIDE DEF got, last
  <2>1. CASE k = "receipt"
    BY <1>1, <1>5, <1>7, <2>1
  <2>2. CASE k # "receipt" /\ from < to
    BY <1>1, <1>4, <1>5, <1>7, <2>2
  <2>3. CASE k # "receipt" /\ ~(from < to)
    BY <1>1, <1>4, <1>5, <1>7, <2>3
  <2> QED BY <2>1, <2>2, <2>3
<1>8. ASSUME Reply(c, k, got, IF got = {} THEN to ELSE last)
      PROVE  \E g, pos : /\ Reply(c, k, g, pos) /\ pos \in Nat /\ pos <= Len(items[k])
                         /\ \A n \in Nat : /\ from < n /\ n <= Len(items[k])
                                           /\ n <= pos \/ n <= to
                                           /\ c \in items[k][n]
                                           => <<k, n>> \in g
  <2> DEFINE pos == IF got = {} THEN to ELSE last
  <2>1. pos \in Nat /\ pos <= Len(items[k])
    <3> HIDE DEF got, last
    <3> QED BY <1>1, <1>3, <1>4
  <2>2. \A n \in Nat : /\ from < n /\ n <= Len(items[k])
                       /\ n <= pos \/ n <= to
                       /\ c \in items[k][n]
                       => <<k, n>> \in got
    BY <1>7
  <2> HIDE DEF pos, got
  <2> QED
    BY <1>8, <2>1, <2>2, Zenon DEF pos
<1> HIDE DEF got, last, from, to
<1>9. CASE ReadErrors /\ Reply(c, k, {}, from)
  BY <1>2, <1>6, <1>9, Zenon
<1>10. CASE Reply(c, k, got, IF got = {} THEN to ELSE last)
  BY <1>2, <1>8, <1>10, Zenon DEF from, to
<1> QED
  BY <1>2, <1>9, <1>10, Zenon

\* IncrementalSync() keeps the types.
LEMMA IncrementalTyped ==
    ASSUME Typed, NEW c \in Clients, NEW k \in Kinds, Incremental(c, k) PROVE Typed'
<1>1. /\ req[c].pc = "respond"
      /\ UNCHANGED <<db, latest, currPos, streams, client, faults>>
      /\ \E got, pos : Reply(c, k, got, pos) /\ pos \in Nat /\ pos <= Len(items[k])
  BY IncrementalReads, Zenon
<1>2. PICK got, pos : Reply(c, k, got, pos) /\ pos \in Nat /\ pos <= Len(items[k])
  BY <1>1
<1> QED
  BY <1>1, <1>2, ReplyTyped

\* The streams grow, and nobody's request changes.
LEMMA Grows ==
    ASSUME Typed, Positions', UNCHANGED <<currPos, streams, req, token>>,
           \A k \in Kinds : Len(items[k]) <= Len(items'[k])
    PROVE  Typed'
<1>1. ASSUME NEW k \in Kinds PROVE Len(items[k]) \in Nat /\ Len(items'[k]) \in Nat
  BY DEF Typed, Positions
<1>2. Requests'
  <2>1. ASSUME NEW c \in Clients PROVE ReqTyped(req[c])' /\ Holds(req[c])'
    <3>1. ReqTyped(req[c]) /\ Holds(req[c])
      BY DEF Typed, Requests
    <3>2. Holds(req[c])'
      BY <3>1 DEF Holds
    <3>3. ReqTyped(req[c])'
      BY <1>1, <3>1 DEF ReqTyped, Tokens
    <3> QED BY <3>2, <3>3
  <2> QED BY <2>1 DEF Typed, Requests
<1>3. Listeners' /\ Held'
  BY <1>1 DEF Typed, Listeners, Held, Tokens
<1> QED BY <1>2, <1>3 DEF Typed

\* The length of a stream that an item is appended to.
LEMMA Appended ==
    ASSUME Positions, NEW k \in Kinds, NEW to \in SUBSET Clients,
           items' = [items EXCEPT ![k] = Append(@, to)]
    PROVE  /\ items' \in [Kinds -> Seq(SUBSET Clients)]
           /\ Len(items'[k]) = Len(items[k]) + 1
           /\ \A l \in Kinds \ {k} : items'[l] = items[l]
           /\ \A l \in Kinds : /\ Len(items[l]) <= Len(items'[l])
                               /\ \A n \in 1 .. Len(items[l]) : items'[l][n] = items[l][n]
<1>1. items \in [Kinds -> Seq(SUBSET Clients)]
  BY DEF Positions
<1>2. items'[k] = Append(items[k], to) /\ \A l \in Kinds \ {k} : items'[l] = items[l]
  BY <1>1
<1>3. /\ items[k] \in Seq(SUBSET Clients) /\ Append(items[k], to) \in Seq(SUBSET Clients)
      /\ Len(Append(items[k], to)) = Len(items[k]) + 1
      /\ \A n \in 1 .. Len(items[k]) : Append(items[k], to)[n] = items[k][n]
  BY <1>1
<1>4. items' \in [Kinds -> Seq(SUBSET Clients)]
  BY <1>1, <1>3
<1>5. ASSUME NEW l \in Kinds
      PROVE  /\ Len(items[l]) <= Len(items'[l])
             /\ \A n \in 1 .. Len(items[l]) : items'[l][n] = items[l][n]
  <2>1. Len(items[l]) \in Nat
    BY <1>1
  <2>2. CASE l = k
    BY <1>2, <1>3, <2>1, <2>2
  <2>3. CASE l # k
    BY <1>2, <2>1, <2>3
  <2> QED BY <2>2, <2>3
<1> QED
  BY <1>2, <1>3, <1>4, <1>5

\* A consumer writes an item.
LEMMA WriteTyped ==
    ASSUME Typed, NEW k \in Kinds, NEW to \in SUBSET Clients, Write(k, to) PROVE Typed'
<1>1. /\ Positions /\ consumer[k] = "idle"
      /\ items' = [items EXCEPT ![k] = Append(@, to)]
      /\ consumer' = [consumer EXCEPT ![k] = "written"]
      /\ UNCHANGED <<latest, currPos, streams, req, token>>
  BY DEF Write, Typed, client, notifier
<1>2. Positions'
  BY <1>1, Appended DEF Positions, Tokens
<1> QED
  BY <1>1, <1>2, Appended, Grows

\* A provider advances.
LEMMA AdvanceTyped ==
    ASSUME Typed, NEW k \in Kinds, Advance(k) PROVE Typed'
<1>1. Positions' /\ UNCHANGED <<items, currPos, streams, req, token>>
  BY DEF Advance, Typed, Positions, Tokens, client, notifier
<1>2. \A l \in Kinds : Len(items[l]) <= Len(items'[l])
  BY <1>1 DEF Typed, Positions
<1> QED
  BY <1>1, <1>2, Grows

\* What an announcement does to the positions, the streams and the requests.
LEMMA AnnounceFacts ==
    ASSUME Typed, NEW k \in Kinds, Announce(k)
    PROVE  LET C == items[k][Len(items[k])] IN
           /\ UNCHANGED <<items, latest, client>>
           /\ consumer[k] = "advanced" /\ consumer' = [consumer EXCEPT ![k] = "idle"]
           /\ currPos' \in Tokens /\ currPos'[k] = Len(items[k])
           /\ \A l \in Kinds \ {k} : currPos'[l] = currPos[l]
           /\ \A l \in Kinds : currPos[l] <= currPos'[l]
           /\ mapped' \subseteq mapped /\ UNCHANGED counts
           /\ streams' = [c \in Clients |->
                            IF c \notin C \cap mapped' THEN streams[c]
                            ELSE IF k = "account" THEN [Zero EXCEPT ![k] = Len(items[k])]
                            ELSE currPos']
           /\ DOMAIN req' = Clients
           /\ \A c \in Clients : req'[c] = IF c \in C \cap mapped' /\ req[c].pc = "waiting"
                                          THEN [req[c] EXCEPT !.pc = "woken"] ELSE req[c]
<1> DEFINE n   == Len(items[k])
           upd == [Zero EXCEPT ![k] = n]
           C   == items[k][n]
           pos == IF k = "account" THEN upd ELSE currPos'
<1>1. /\ UNCHANGED <<items, latest, client>>
      /\ consumer[k] = "advanced" /\ consumer' = [consumer EXCEPT ![k] = "idle"]
      /\ currPos' = ApplyUpdates(currPos, upd)
      /\ \E left \in (IF k = "pdu" THEN Kept ELSE {mapped}) : Broadcast(C, pos, left)
  BY DEF Announce
<1>2. PICK left \in (IF k = "pdu" THEN Kept ELSE {mapped}) : Broadcast(C, pos, left)
  BY <1>1
<1>3. left \subseteq mapped
  BY <1>2 DEF Kept
<1>4. /\ currPos \in Tokens /\ n \in Nat /\ currPos[k] <= n
      /\ upd \in Tokens /\ upd[k] = n /\ \A l \in Kinds \ {k} : upd[l] = 0
  BY DEF Typed, Positions, Tokens, Zero
<1> HIDE DEF n, upd
<1>5. /\ currPos' \in Tokens /\ currPos'[k] = n
      /\ \A l \in Kinds \ {k} : currPos'[l] = currPos[l]
      /\ \A l \in Kinds : currPos[l] <= currPos'[l]
  BY <1>1, <1>4 DEF ApplyUpdates, Tokens
<1> HIDE DEF C, pos
<1>6. /\ mapped' = left /\ UNCHANGED counts
      /\ streams' = [c \in Clients |-> IF c \notin C \cap mapped' THEN streams[c] ELSE pos]
      /\ DOMAIN req' = Clients
      /\ \A c \in Clients : req'[c] = IF c \in C \cap mapped' /\ req[c].pc = "waiting"
                                     THEN [req[c] EXCEPT !.pc = "woken"] ELSE req[c]
  BY <1>2 DEF Broadcast
<1> QED
  BY <1>1, <1>3, <1>5, <1>6 DEF n, upd, C, pos

\* The notifier announces an item.
LEMMA AnnounceTyped ==
    ASSUME Typed, NEW k \in Kinds, Announce(k) PROVE Typed'
<1>1. /\ items \in [Kinds -> Seq(SUBSET Clients)] /\ currPos \in Tokens
      /\ \A l \in Kinds : Len(items[l]) \in Nat
  BY DEF Typed, Positions
<1>2. Positions'
  <2>1. /\ UNCHANGED <<items, latest>>
        /\ consumer[k] = "advanced" /\ consumer' = [consumer EXCEPT ![k] = "idle"]
        /\ currPos' \in Tokens /\ currPos'[k] = Len(items[k])
        /\ \A l \in Kinds \ {k} : currPos'[l] = currPos[l]
    BY AnnounceFacts
  <2> QED
    BY <1>1, <2>1 DEF Typed, Positions, Tokens
<1>3. Requests'
  <2>1. ASSUME NEW c \in Clients PROVE ReqTyped(req[c])' /\ Holds(req[c])'
    <3>1. ReqTyped(req[c]) /\ Holds(req[c])
      BY DEF Typed, Requests
    <3>2. /\ items' = items /\ currPos' \in Tokens
          /\ \A l \in Kinds : currPos[l] <= currPos'[l]
          /\ \/ req'[c] = req[c]
             \/ req[c].pc = "waiting" /\ req'[c] = [req[c] EXCEPT !.pc = "woken"]
      BY AnnounceFacts
    <3>3. /\ DOMAIN req'[c] = DOMAIN req[c]
          /\ \/ req'[c].pc = req[c].pc
             \/ req[c].pc = "waiting" /\ req'[c].pc = "woken"
          /\ req[c].pc # "idle" => /\ req'[c].since = req[c].since /\ req'[c].poll = req[c].poll
                                   /\ req'[c].held = req[c].held
                                   /\ req'[c].cur = req[c].cur
          /\ req[c].pc = "respond" => req'[c] = req[c]
      <4>1. CASE req'[c] = req[c]
        BY <4>1
      <4>2. CASE req[c].pc = "waiting" /\ req'[c] = [req[c] EXCEPT !.pc = "woken"]
        <5>1. {"pc", "since", "poll", "held", "cur"} \subseteq DOMAIN req[c]
          BY <3>1, <4>2 DEF ReqTyped, Waits
        <5> QED BY <4>2, <5>1
      <4> QED BY <3>2, <4>1, <4>2
    <3>4. Holds(req[c])'
      BY <3>1, <3>2, <3>3 DEF Holds
    <3>5. ReqTyped(req[c])'
      BY <1>1, <3>1, <3>2, <3>3 DEF ReqTyped, Tokens, Waits
    <3> QED BY <3>4, <3>5
  <2>2. DOMAIN req' = Clients
    BY AnnounceFacts
  <2> QED BY <2>1, <2>2 DEF Requests
<1>4. Listeners'
  <2>1. streams' = [c \in Clients |-> streams'[c]]
    BY AnnounceFacts
  <2>2. ASSUME NEW c \in Clients
        PROVE  streams'[c] \in Tokens /\ \A l \in Kinds : streams'[c][l] <= currPos'[l]
    <3> DEFINE C == items[k][Len(items[k])] \cap mapped'
               upd == [Zero EXCEPT ![k] = Len(items[k])]
    <3>1. /\ currPos' \in Tokens /\ currPos'[k] = Len(items[k])
          /\ \A l \in Kinds : currPos[l] <= currPos'[l]
          /\ streams'[c] = IF c \notin C THEN streams[c]
                           ELSE IF k = "account" THEN upd ELSE currPos'
      BY <2>2, AnnounceFacts
    <3>2. upd \in Tokens /\ upd[k] = Len(items[k]) /\ \A l \in Kinds \ {k} : upd[l] = 0
      BY <1>1 DEF Tokens, Zero
    <3> HIDE DEF C, upd
    <3>3. streams[c] \in Tokens /\ \A l \in Kinds : streams[c][l] <= currPos[l]
      BY <3>1 DEF Typed, Listeners
    <3>4. CASE c \notin C
      <4>1. streams'[c] = streams[c]
        BY <3>1, <3>4
      <4>2. ASSUME NEW l \in Kinds PROVE streams'[c][l] <= currPos'[l]
        BY <1>1, <3>1, <3>3, <4>1 DEF Tokens
      <4> QED BY <3>3, <4>1, <4>2
    <3>5. CASE c \in C /\ k = "account"
      <4>1. streams'[c] = upd
        BY <3>1, <3>5
      <4>2. ASSUME NEW l \in Kinds PROVE streams'[c][l] <= currPos'[l]
        <5>1. CASE l = k
          BY <1>1, <3>1, <3>2, <4>1, <5>1
        <5>2. CASE l # k
          <6>1. streams'[c][l] = 0 /\ currPos'[l] \in Nat
            BY <3>1, <3>2, <4>1, <5>2 DEF Tokens
          <6> QED BY <6>1
        <5> QED BY <5>1, <5>2
      <4> QED BY <3>2, <4>1, <4>2
    <3>6. CASE c \in C /\ k # "account"
      <4>1. streams'[c] = currPos'
        BY <3>1, <3>6
      <4>2. ASSUME NEW l \in Kinds PROVE streams'[c][l] <= currPos'[l]
        BY <3>1, <4>1 DEF Tokens
      <4> QED BY <3>1, <4>1, <4>2
    <3> QED BY <3>4, <3>5, <3>6
  <2> QED BY <2>1, <2>2 DEF Listeners
<1>5. Held'
  BY AnnounceFacts DEF client, Typed, Held
<1> QED BY <1>2, <1>3, <1>4, <1>5 DEF Typed

\* What a request holds, by where it is.
LEMMA RequestFacts ==
    ASSUME Typed, NEW c \in Clients
    PROVE  /\ DOMAIN req = Clients /\ ReqTyped(req[c]) /\ Holds(req[c])
           /\ currPos \in Tokens /\ token[c] \in Tokens
           /\ \A k \in Kinds : /\ Len(items[k]) \in Nat /\ currPos[k] <= Len(items[k])
                               /\ token[c][k] <= Len(items[k])
<1>1. /\ currPos \in Tokens /\ items \in [Kinds -> Seq(SUBSET Clients)]
      /\ \A k \in Kinds : /\ currPos[k] <= latest[k] /\ latest[k] <= Len(items[k])
                          /\ latest[k] \in Nat
  BY DEF Typed, Positions, Tokens
<1>2. \A k \in Kinds : Len(items[k]) \in Nat /\ currPos[k] <= Len(items[k])
  BY <1>1 DEF Tokens
<1>3. DOMAIN req = Clients /\ ReqTyped(req[c]) /\ Holds(req[c])
  BY DEF Typed, Requests
<1>4. token[c] \in Tokens /\ \A k \in Kinds : token[c][k] <= Len(items[k])
  BY DEF Typed, Held
<1> QED BY <1>1, <1>2, <1>3, <1>4

\* A client sends a request.
LEMMA BeginTyped ==
    ASSUME Typed, NEW c \in Clients, NEW poll \in BOOLEAN, Begin(c, poll) PROVE Typed'
<1> DEFINE r == [pc |-> "read", since |-> token[c], poll |-> poll, held |-> 0]
<1>1. req' = [req EXCEPT ![c] = r] /\ UNCHANGED <<db, latest, currPos, streams, token>>
  BY DEF Begin, client, notifier
<1>2. DOMAIN req' = Clients /\ req'[c] = r /\ \A d \in Clients \ {c} : req'[d] = req[d]
  BY <1>1, RequestFacts
<1>3. ReqTyped(req'[c]) /\ Holds(req'[c])
  BY <1>2, RequestFacts DEF ReqTyped, Waits, Holds
<1> QED
  BY <1>1, <1>2, <1>3, OneRequestOnly

\* A request reads the position of the notifier.
LEMMA ReadPositionTyped ==
    ASSUME Typed, NEW c \in Clients, ReadPosition(c) PROVE Typed'
<1> DEFINE r == req[c]
           s == [pc |-> "respond", since |-> r.since, poll |-> r.poll,
                 held |-> r.held, cur |-> currPos, batch |-> <<>>, got |-> {}]
           t == [pc |-> "listen", since |-> r.since, poll |-> FALSE,
                 held |-> r.held, cur |-> currPos]
<1>1. /\ r.pc = "read" /\ UNCHANGED <<db, latest, currPos, streams, token>>
      /\ req' = [req EXCEPT ![c] = s] \/ req' = [req EXCEPT ![c] = t]
  BY DEF ReadPosition, Responding, client, notifier
<1>2. /\ DOMAIN req' = Clients /\ (req'[c] = s \/ req'[c] = t)
      /\ \A d \in Clients \ {c} : req'[d] = req[d]
  BY <1>1, RequestFacts
<1>3. /\ r.since \in Tokens /\ r.poll \in BOOLEAN /\ r.held \in Nat
      /\ \A k \in Kinds : r.since[k] <= Len(items[k])
      /\ currPos \in Tokens /\ \A k \in Kinds : currPos[k] <= currPos[k]
  BY <1>1, RequestFacts DEF ReqTyped, Tokens
<1>4. ReqTyped(s) /\ ReqTyped(t)
  BY <1>3 DEF ReqTyped, Waits
<1>5. ReqTyped(req'[c]) /\ Holds(req'[c])
  <2>1. CASE req'[c] = s
    BY <1>4, <2>1 DEF Holds
  <2>2. CASE req'[c] = t
    BY <1>4, <2>2 DEF Holds
  <2> QED BY <1>2, <2>1, <2>2
<1> QED
  BY <1>1, <1>2, <1>5, OneRequestOnly

\* A request finds that its channel is closed already, or waits.
LEMMA GetNotifyChannelTyped ==
    ASSUME Typed, NEW c \in Clients, GetNotifyChannel(c) PROVE Typed'
<1> DEFINE r == req[c]
<1>1. PICK p \in {"woken", "waiting"} : req' = [req EXCEPT ![c].pc = p]
  BY DEF GetNotifyChannel
<1>2. r.pc = "listening" /\ UNCHANGED <<db, latest, currPos, streams, token>>
  BY DEF GetNotifyChannel, client, notifier
<1>3. ReqTyped(r) /\ r.held > 0 /\ {"pc", "since", "poll", "held", "cur"} \subseteq DOMAIN r
  BY <1>2, RequestFacts DEF ReqTyped, Holds, Waits
<1>4. /\ DOMAIN req' = Clients /\ \A d \in Clients \ {c} : req'[d] = req[d]
      /\ req'[c] = [r EXCEPT !.pc = p]
  BY <1>1, RequestFacts
<1>5. /\ DOMAIN req'[c] = DOMAIN r /\ req'[c].pc = p /\ req'[c].since = r.since
      /\ req'[c].poll = r.poll /\ req'[c].held = r.held /\ req'[c].cur = r.cur
  BY <1>3, <1>4
<1>6. ReqTyped(req'[c]) /\ Holds(req'[c])
  BY <1>2, <1>3, <1>5 DEF ReqTyped, Waits, Holds
<1> QED
  BY <1>2, <1>4, <1>6, OneRequestOnly

\* A request is woken.
LEMMA WakeUpTyped ==
    ASSUME Typed, NEW c \in Clients, WakeUp(c) PROVE Typed'
<1> DEFINE r == req[c]
           p == ApplyUpdates(r.cur, streams[c])
           s == [pc |-> "respond", since |-> r.since, poll |-> r.poll,
                 held |-> r.held, cur |-> p, batch |-> <<>>, got |-> {}]
<1>1. /\ r.pc = "woken" /\ UNCHANGED <<db, latest, currPos, streams, token>>
      /\ req' = [req EXCEPT ![c] = s]
  BY DEF WakeUp, Responding, client, notifier
<1>2. DOMAIN req' = Clients /\ req'[c] = s /\ \A d \in Clients \ {c} : req'[d] = req[d]
  BY <1>1, RequestFacts
<1>3. /\ r.since \in Tokens /\ r.poll \in BOOLEAN /\ r.held \in Nat
      /\ \A k \in Kinds : r.since[k] <= Len(items[k])
      /\ r.cur \in Tokens /\ \A k \in Kinds : r.cur[k] <= currPos[k]
  BY <1>1, RequestFacts DEF ReqTyped, Waits
<1>4. streams[c] \in Tokens /\ \A k \in Kinds : streams[c][k] <= currPos[k]
  BY DEF Typed, Listeners
<1>5. p \in Tokens /\ \A k \in Kinds : p[k] <= currPos[k]
  BY <1>3, <1>4 DEF ApplyUpdates, Tokens
<1> HIDE DEF p
<1>6. ReqTyped(s) /\ Holds(s)
  BY <1>3, <1>5 DEF ReqTyped, Waits, Holds
<1> QED
  BY <1>1, <1>2, <1>6, OneRequestOnly

\* A request that is over.
LEMMA IdleTyped ==
    ASSUME Typed, NEW c \in Clients, req' = [req EXCEPT ![c] = Idle],
           UNCHANGED <<db, latest, currPos, streams>>, Held'
    PROVE  Typed'
<1>1. DOMAIN req' = Clients /\ req'[c] = Idle /\ \A d \in Clients \ {c} : req'[d] = req[d]
  BY RequestFacts
<1>2. ReqTyped(Idle) /\ Holds(Idle)
  BY DEF ReqTyped, Idle, Waits, Holds
<1>3. Listeners' /\ UNCHANGED <<items, consumer, latest, currPos, streams>>
  BY DEF Typed, Listeners, db
<1> QED
  BY <1>1, <1>2, <1>3, OneRequest

\* A request times out.
LEMMA GiveUpTyped ==
    ASSUME Typed, NEW c \in Clients, GiveUp(c) PROVE Typed'
<1>1. /\ req[c].pc \in {"waiting", "woken"} /\ token' = [token EXCEPT ![c] = req[c].since]
      /\ req' = [req EXCEPT ![c] = Idle] /\ UNCHANGED <<db, latest, currPos, streams>>
  BY DEF GiveUp, Close
<1>2. req[c].since \in Tokens /\ \A k \in Kinds : req[c].since[k] <= Len(items[k])
  BY <1>1, RequestFacts DEF ReqTyped
<1>3. Held'
  BY <1>1, <1>2 DEF Typed, Held, db
<1> QED
  BY <1>1, <1>3, IdleTyped

\* A request is answered.
LEMMA RespondTyped ==
    ASSUME Typed, NEW c \in Clients, Respond(c) PROVE Typed'
<1>1. /\ req[c].pc = "respond" /\ DOMAIN req[c].batch = Kinds
      /\ token' = [token EXCEPT ![c] = req[c].batch]
      /\ req' = [req EXCEPT ![c] = Idle] /\ UNCHANGED <<db, latest, currPos, streams>>
  BY DEF Respond, Read, Close
<1>2. req[c].batch \in Tokens /\ \A k \in Kinds : req[c].batch[k] <= Len(items[k])
  BY <1>1, RequestFacts DEF ReqTyped, Tokens
<1>3. Held'
  BY <1>1, <1>2 DEF Typed, Held, db
<1> QED
  BY <1>1, <1>3, IdleTyped

\* A client goes away.
LEMMA GoAwayTyped ==
    ASSUME Typed, NEW c \in Clients, GoAway(c) PROVE Typed'
<1>1. /\ req' = [req EXCEPT ![c] = Idle] /\ UNCHANGED <<db, latest, currPos, streams>>
      /\ Held'
  BY DEF GoAway, Close, client, db, Typed, Held
<1> QED
  BY <1>1, IdleTyped

\* A request that found nothing starts again.
LEMMA AgainTyped ==
    ASSUME Typed, NEW c \in Clients, NEW poll \in BOOLEAN, Again(c, poll) PROVE Typed'
<1> DEFINE r == req[c]
           s == [pc |-> "read", since |-> r.cur, poll |-> poll, held |-> r.held]
<1>1. /\ r.pc = "respond" /\ req' = [req EXCEPT ![c] = s]
      /\ UNCHANGED <<db, latest, currPos, streams, token>>
  BY DEF Again, Read, client, notifier
<1>2. DOMAIN req' = Clients /\ req'[c] = s /\ \A d \in Clients \ {c} : req'[d] = req[d]
  BY <1>1, RequestFacts
<1>3. /\ r.cur \in Tokens /\ r.held \in Nat
      /\ \A k \in Kinds : r.cur[k] <= currPos[k]
  BY <1>1, RequestFacts DEF ReqTyped
<1>4. \A k \in Kinds : r.cur[k] <= Len(items[k])
  BY <1>3, RequestFacts DEF Tokens
<1>5. ReqTyped(s) /\ Holds(s)
  BY <1>3, <1>4 DEF ReqTyped, Waits, Holds
<1> QED
  BY <1>1, <1>2, <1>5, OneRequestOnly

\* What obtaining a listener does: the stream is in the map and, if it is new,
\* starts where the notifier is.
LEMMA GetListenerFacts ==
    ASSUME Typed, NEW c \in Clients, GetListener(c)
    PROVE  /\ UNCHANGED <<db, latest, currPos, client, faults>>
           /\ mapped' \subseteq mapped \cup {c} /\ c \in mapped'
           /\ streams' \in [Clients -> {streams[d] : d \in Clients} \cup {currPos}]
           /\ streams'[c] = currPos \/ (c \in mapped /\ streams'[c] = streams[c])
           /\ \A d \in Clients \ {c} : streams'[d] = streams[d] /\ req'[d] = req[d]
           /\ DOMAIN req' = Clients /\ req[c].pc = "listen"
           /\ DOMAIN req'[c] = DOMAIN req[c] /\ req'[c].pc = "listening"
           /\ req'[c].held \in Nat /\ req'[c].held > 0
           /\ req'[c].since = req[c].since /\ req'[c].poll = req[c].poll
           /\ req'[c].cur = req[c].cur
<1> DEFINE r == req[c]
<1>1. PICK left \in Kept :
         /\ mapped' = left \cup {c}
         /\ streams' = [streams EXCEPT ![c] = IF c \notin left THEN currPos ELSE @]
         /\ req' = [req EXCEPT ![c].pc = "listening",
                               ![c].held = IF c \notin left THEN 1 ELSE @ + 1]
  BY DEF GetListener
<1>2. r.pc = "listen" /\ UNCHANGED <<db, latest, currPos, client, faults>>
  BY DEF GetListener
<1>3. /\ r.held \in Nat /\ {"pc", "since", "poll", "held", "cur"} \subseteq DOMAIN r
      /\ DOMAIN req = Clients /\ streams \in [Clients -> Tokens] /\ left \subseteq mapped
  BY <1>1, <1>2, RequestFacts DEF ReqTyped, Waits, Typed, Listeners, Kept
<1>4. PICK h \in Nat : /\ h > 0
                       /\ req' = [req EXCEPT ![c].pc = "listening", ![c].held = h]
  <2>1. CASE c \in left
    <3>1. /\ req' = [req EXCEPT ![c].pc = "listening", ![c].held = r.held + 1]
          /\ r.held + 1 \in Nat /\ r.held + 1 > 0
      BY <1>1, <1>3, <2>1
    <3> QED BY <3>1
  <2>2. CASE c \notin left
    <3>1. req' = [req EXCEPT ![c].pc = "listening", ![c].held = 1]
      BY <1>1, <2>2
    <3>2. 1 \in Nat /\ 1 > 0
      OBVIOUS
    <3> QED BY <3>1, <3>2, Zenon
  <2> QED BY <2>1, <2>2
<1>5. /\ DOMAIN req' = Clients /\ \A d \in Clients \ {c} : req'[d] = req[d]
      /\ req'[c] = [[r EXCEPT !.pc = "listening"] EXCEPT !.held = h]
  BY <1>3, <1>4
<1>6. /\ DOMAIN req'[c] = DOMAIN r /\ req'[c].pc = "listening" /\ req'[c].held = h
      /\ req'[c].since = r.since /\ req'[c].poll = r.poll /\ req'[c].cur = r.cur
  BY <1>3, <1>5
<1>7. /\ streams' \in [Clients -> {streams[d] : d \in Clients} \cup {currPos}]
      /\ streams'[c] = currPos \/ (c \in mapped /\ streams'[c] = streams[c])
      /\ \A d \in Clients \ {c} : streams'[d] = streams[d]
  BY <1>1, <1>3
<1> QED
  BY <1>1, <1>2, <1>3, <1>4, <1>5, <1>6, <1>7

\* A request obtains its listener.
LEMMA GetListenerTyped ==
    ASSUME Typed, NEW c \in Clients, GetListener(c) PROVE Typed'
<1>1. UNCHANGED <<items, consumer, latest, currPos, token>>
  BY GetListenerFacts DEF db, client
<1>2. ReqTyped(req'[c]) /\ Holds(req'[c])
  BY GetListenerFacts, RequestFacts DEF ReqTyped, Waits, Holds
<1>3. Held'
  BY <1>1 DEF Typed, Held
<1>4. Listeners'
  <2>1. streams \in [Clients -> Tokens] /\ currPos \in Tokens
    BY RequestFacts DEF Typed, Listeners
  <2>2. streams' \in [Clients -> Tokens]
    BY <2>1, GetListenerFacts
  <2>3. ASSUME NEW d \in Clients, NEW k \in Kinds PROVE streams'[d][k] <= currPos'[k]
    <3>1. streams'[d] = streams[d] \/ streams'[d] = currPos
      BY GetListenerFacts
    <3>2. streams[d][k] <= currPos[k] /\ currPos[k] <= currPos[k]
      BY <2>1 DEF Typed, Listeners, Tokens
    <3> QED BY <1>1, <3>1, <3>2
  <2> QED BY <2>2, <2>3 DEF Listeners
<1> QED
  BY <1>1, <1>2, <1>3, <1>4, GetListenerFacts, OneRequest

\* The process restarts.
LEMMA CrashTyped ==
    ASSUME Typed, Crash PROVE Typed'
<1>1. /\ latest' = [k \in Kinds |-> Len(items[k])] /\ currPos' = latest'
      /\ consumer' = [k \in Kinds |-> IF consumer[k] = "idle" THEN "idle" ELSE "written"]
      /\ streams' = [c \in Clients |-> Zero] /\ req' = [c \in Clients |-> Idle]
      /\ UNCHANGED <<items, token>>
  BY DEF Crash, client
<1>2. Positions'
  BY <1>1 DEF Typed, Positions, Tokens
<1>3. ReqTyped(Idle)' /\ Idle.pc = "idle"
  BY DEF ReqTyped, Idle, Waits
<1>4. Requests'
  BY <1>1, <1>3 DEF Requests, Holds
<1>5. Listeners'
  BY <1>1, <1>2 DEF Positions, Listeners, Tokens, Zero
<1>6. Held'
  BY <1>1 DEF Typed, Held
<1> QED
  BY <1>2, <1>4, <1>5, <1>6 DEF Typed

\* A step that changes nothing.
LEMMA StutterTyped ==
    ASSUME Typed, UNCHANGED vars PROVE Typed'
<1>1. UNCHANGED <<items, consumer, latest, currPos, streams, req, token>>
  BY DEF vars, db, client, notifier
<1>2. Positions' /\ \A k \in Kinds : Len(items[k]) <= Len(items'[k])
  BY <1>1 DEF Typed, Positions
<1> QED
  BY <1>1, <1>2, Grows

\* A finalizer touches the counters only.
LEMMA FinalizeTyped ==
    ASSUME Typed, NEW c \in Clients, Finalize(c) PROVE Typed'
<1>1. UNCHANGED <<items, consumer, latest, currPos, streams, req, token>>
  BY DEF Finalize, db, client
<1>2. Positions' /\ \A k \in Kinds : Len(items[k]) <= Len(items'[k])
  BY <1>1 DEF Typed, Positions
<1> QED
  BY <1>1, <1>2, Grows

\* At the start nothing has been written.
LEMMA InitTyped == Init => Typed
<1> SUFFICES ASSUME Init PROVE Typed
  OBVIOUS
<1>1. Positions
  BY DEF Init, Positions, Tokens, Zero
<1>2. ReqTyped(Idle) /\ Idle.pc = "idle"
  BY DEF ReqTyped, Idle, Waits
<1>3. Requests
  BY <1>2 DEF Init, Requests, Holds
<1>4. Listeners /\ Held
  BY <1>1 DEF Init, Listeners, Held, Positions, Tokens, Zero
<1> QED
  BY <1>1, <1>3, <1>4 DEF Typed

\* Every step keeps the types.
LEMMA NextTyped == Typed /\ [Next]_vars => Typed'
<1> SUFFICES ASSUME Typed, [Next]_vars PROVE Typed'
  OBVIOUS
<1>1. ASSUME NEW k \in Kinds,
             (\E to \in SUBSET Clients : Write(k, to)) \/ Advance(k) \/ Announce(k)
      PROVE  Typed'
  BY <1>1, WriteTyped, AdvanceTyped, AnnounceTyped, Zenon
<1>2. ASSUME NEW c \in Clients, NEW poll \in BOOLEAN, Begin(c, poll) \/ Again(c, poll)
      PROVE  Typed'
  BY <1>2, BeginTyped, AgainTyped, Zenon
<1>3. ASSUME NEW c \in Clients, Step(c) \/ GiveUp(c) \/ GoAway(c) \/ Finalize(c)
      PROVE  Typed'
  BY <1>3, ReadPositionTyped, GetListenerTyped, GetNotifyChannelTyped, WakeUpTyped,
     CompleteTyped, IncrementalTyped, RespondTyped, GiveUpTyped, GoAwayTyped, FinalizeTyped,
     Zenon DEF Step
<1> QED
  BY <1>1, <1>2, <1>3, CrashTyped, StutterTyped, Zenon DEF Next

\* A uint after any number of steps up or down.
LEMMA Wraps ==
    ASSUME NEW n \in Int PROVE n % UintSize \in 0 .. UintSize - 1
BY BoundsAssumption

\* Every step keeps the counters.
LEMMA NextCounts == Typed /\ Counts /\ [Next]_vars => Counts'
<1> SUFFICES ASSUME Typed, Counts, [Next]_vars PROVE Counts'
  OBVIOUS
<1>1. ASSUME mapped' \subseteq mapped, UNCHANGED counts PROVE Counts'
  BY <1>1 DEF Counts, counts
<1>2. ASSUME NEW k \in Kinds,
             (\E to \in SUBSET Clients : Write(k, to)) \/ Advance(k) \/ Announce(k)
      PROVE  Counts'
  <2>1. CASE Announce(k)
    BY <1>1, <2>1, AnnounceFacts
  <2>2. CASE (\E to \in SUBSET Clients : Write(k, to)) \/ Advance(k)
    BY <1>1, <2>2 DEF Write, Advance, notifier
  <2> QED BY <1>2, <2>1, <2>2
<1>3. ASSUME NEW c \in Clients, NEW poll \in BOOLEAN, Begin(c, poll) \/ Again(c, poll)
      PROVE  Counts'
  BY <1>1, <1>3 DEF Begin, Again, notifier
<1>4. ASSUME NEW c \in Clients, NEW n \in Int, UNCHANGED <<mapped, garbage>>,
             numWaiting' = [numWaiting EXCEPT ![c] = n % UintSize]
      PROVE  Counts'
  <2>1. n % UintSize \in 0 .. UintSize - 1
    BY Wraps
  <2> QED BY <1>4, <2>1 DEF Counts
<1>5. ASSUME NEW c \in Clients, Close(c), req[c].held \in Nat PROVE Counts'
  <2>1. CASE c \in mapped
    <3>1. numWaiting[c] - req[c].held \in Int
      BY <1>5, BoundsAssumption DEF Counts
    <3> QED BY <1>4, <1>5, <2>1, <3>1 DEF Close
  <2>2. CASE c \notin mapped
    BY <1>1, <1>5, <2>2 DEF Close, counts
  <2> QED BY <2>1, <2>2
<1>6. ASSUME NEW c \in Clients, GiveUp(c) \/ GoAway(c) \/ Respond(c) PROVE Counts'
  <2>1. Close(c) /\ req[c].pc # "idle"
    BY <1>6 DEF GiveUp, GoAway, Respond, Read
  <2>2. req[c].held \in Nat
    BY <2>1, RequestFacts DEF ReqTyped
  <2> QED BY <1>5, <2>1, <2>2
<1>7. ASSUME NEW c \in Clients, Finalize(c) PROVE Counts'
  <2>1. /\ garbage[c] > 0 /\ garbage' = [garbage EXCEPT ![c] = @ - 1] /\ UNCHANGED mapped
        /\ numWaiting' = [numWaiting EXCEPT ![c] = (numWaiting[c] - 1) % UintSize]
    BY <1>7 DEF Finalize
  <2>2. numWaiting[c] - 1 \in Int /\ garbage[c] - 1 \in 0 .. MaxGarbage
    BY <2>1, BoundsAssumption DEF Counts
  <2>3. (numWaiting[c] - 1) % UintSize \in 0 .. UintSize - 1
    BY <2>2, Wraps
  <2> QED BY <2>1, <2>2, <2>3 DEF Counts
<1>8. ASSUME NEW c \in Clients, GetListener(c) PROVE Counts'
  <2>1. PICK n \in {0, numWaiting[c]}, g \in {0, garbage[c]} :
           /\ numWaiting' = [numWaiting EXCEPT ![c] = (n + 1) % UintSize]
           /\ garbage' = [garbage EXCEPT ![c] = IF g < MaxGarbage THEN g + 1 ELSE g]
    BY <1>8 DEF GetListener
  <2>2. n + 1 \in Int /\ (IF g < MaxGarbage THEN g + 1 ELSE g) \in 0 .. MaxGarbage
    BY <2>1, BoundsAssumption DEF Counts
  <2>3. (n + 1) % UintSize \in 0 .. UintSize - 1
    BY <2>2, Wraps
  <2>4. mapped' \subseteq Clients
    BY <1>8, GetListenerFacts DEF Counts
  <2> QED BY <2>1, <2>2, <2>3, <2>4 DEF Counts
<1>9. ASSUME NEW c \in Clients, Step(c) PROVE Counts'
  <2>1. ASSUME NEW k \in Kinds, Complete(c, k) \/ Incremental(c, k) PROVE Counts'
    BY <1>1, <2>1 DEF Complete, Incremental, notifier
  <2>2. CASE ReadPosition(c) \/ GetNotifyChannel(c) \/ WakeUp(c)
    BY <1>1, <2>2 DEF ReadPosition, GetNotifyChannel, WakeUp, notifier
  <2> QED BY <1>6, <1>8, <1>9, <2>1, <2>2, Zenon DEF Step
<1>10. CASE Crash
  BY <1>10, BoundsAssumption DEF Crash, Counts
<1>11. CASE UNCHANGED vars
  BY <1>1, <1>11 DEF vars, notifier
<1> QED
  BY <1>2, <1>3, <1>6, <1>7, <1>9, <1>10, <1>11, Zenon DEF Next

\* The types hold (TypeOK): the notifier is never ahead of the providers, nor
\* they of the database, nor a stream of the notifier, and a request that
\* waits holds a listener.
THEOREM TypeCorrect == Spec => []TypeOK
<1>1. Init => Typed /\ Counts
  <2>1. Init => Counts
    BY BoundsAssumption DEF Init, Counts
  <2> QED BY <2>1, InitTyped
<1>2. Typed /\ Counts /\ [Next]_vars => (Typed /\ Counts)'
  BY NextTyped, NextCounts
<1>3. Typed /\ Counts => TypeOK
  BY TypedTypes
<1> QED
  BY <1>1, <1>2, <1>3, PTL DEF Spec

-----------------------------------------------------------------------------
(* Nothing is skipped                                                      *)

\* Client c has, in D, its items of stream k, whose rows are s, up to p.
Known(s, k, c, p, D) == \A n \in Nat : 0 < n /\ n <= p /\ c \in s[n] => <<k, n>> \in D

\* The client knows what its token and the token of its request are past, and
\* with what has been read what is before the position of the response, and
\* before the one that the request would start again with.
KnownFor(c) ==
    \A k \in Kinds :
       /\ Known(items[k], k, c, token[c][k], delivered[c])
       /\ req[c].pc # "idle" => Known(items[k], k, c, req[c].since[k], delivered[c])
       /\ req[c].pc = "respond" /\ k \in DOMAIN req[c].batch =>
             LET D == delivered[c] \cup req[c].got IN
             /\ Known(items[k], k, c, req[c].batch[k], D)
             /\ req[c].since # Zero => Known(items[k], k, c, req[c].cur[k], D)

AllKnown == DOMAIN delivered = Clients /\ \A c \in Clients : KnownFor(c)

\* What is known stays known: rows do not change.
LEMMA KnownStays ==
    ASSUME NEW s, NEW t, NEW k, NEW c, NEW p \in Nat, NEW D, NEW E,
           Known(s, k, c, p, D), D \subseteq E, \A n \in 1 .. p : t[n] = s[n]
    PROVE  Known(t, k, c, p, E)
BY DEF Known

\* The rows that there are stay.
RowsStay == \A k \in Kinds : \A n \in 1 .. Len(items[k]) : items'[k][n] = items[k][n]

\* A step in which client c is sent nothing and its request reads nothing.
LEMMA KnownKept ==
    ASSUME Typed, NEW c \in Clients, KnownFor(c), RowsStay,
           token'[c] = token[c], delivered'[c] = delivered[c],
           \/ req'[c].pc = "idle"
           \/ req'[c] = req[c]
           \/ /\ req[c].pc # "idle" /\ req'[c].since = req[c].since
              /\ req'[c].pc = "respond" => DOMAIN req'[c].batch = {}
    PROVE  KnownFor(c)'
<1> SUFFICES ASSUME NEW k \in Kinds
             PROVE  /\ Known(items'[k], k, c, token'[c][k], delivered'[c])
                    /\ req'[c].pc # "idle" =>
                          Known(items'[k], k, c, req'[c].since[k], delivered'[c])
                    /\ req'[c].pc = "respond" /\ k \in DOMAIN req'[c].batch =>
                          LET D == delivered'[c] \cup req'[c].got IN
                          /\ Known(items'[k], k, c, req'[c].batch[k], D)
                          /\ req'[c].since # Zero => Known(items'[k], k, c, req'[c].cur[k], D)
  BY DEF KnownFor
<1>1. ASSUME NEW p \in Nat, p <= Len(items[k]), NEW D, Known(items[k], k, c, p, D)
      PROVE  Known(items'[k], k, c, p, D)
  <2>1. \A n \in 1 .. p : items'[k][n] = items[k][n]
    BY <1>1, RequestFacts DEF RowsStay
  <2> QED BY <1>1, <2>1, KnownStays
<1>2. ReqTyped(req[c]) /\ \A l \in Kinds : currPos[l] <= Len(items[l])
  BY RequestFacts
<1>3. Known(items'[k], k, c, token'[c][k], delivered'[c])
  <2>1. token[c][k] \in Nat /\ token[c][k] <= Len(items[k])
    BY RequestFacts DEF Tokens
  <2> QED BY <1>1, <2>1 DEF KnownFor
<1>4. ASSUME req[c].pc # "idle"
      PROVE  Known(items'[k], k, c, req[c].since[k], delivered'[c])
  <2>1. req[c].since[k] \in Nat /\ req[c].since[k] <= Len(items[k])
    BY <1>2, <1>4 DEF ReqTyped, Tokens
  <2> QED BY <1>1, <1>4, <2>1 DEF KnownFor
<1>5. ASSUME req[c].pc = "respond", k \in DOMAIN req[c].batch
      PROVE  LET D == delivered[c] \cup req[c].got IN
             /\ Known(items'[k], k, c, req[c].batch[k], D)
             /\ req[c].since # Zero => Known(items'[k], k, c, req[c].cur[k], D)
  <2>1. req[c].batch[k] \in Nat /\ req[c].batch[k] <= Len(items[k])
    BY <1>2, <1>5 DEF ReqTyped
  <2>2. req[c].cur[k] \in Nat /\ req[c].cur[k] <= Len(items[k])
    BY <1>2, <1>5, RequestFacts DEF ReqTyped, Tokens
  <2> QED BY <1>1, <1>5, <2>1, <2>2 DEF KnownFor
<1>6. CASE req'[c].pc = "idle"
  BY <1>3, <1>6
<1>7. CASE req'[c] = req[c]
  BY <1>3, <1>4, <1>5, <1>7
<1>8. CASE /\ req[c].pc # "idle" /\ req'[c].since = req[c].since
           /\ req'[c].pc = "respond" => DOMAIN req'[c].batch = {}
  BY <1>3, <1>4, <1>8
<1> QED
  BY <1>6, <1>7, <1>8

\* The rows stay in every step.
LEMMA RowsAlwaysStay == Typed /\ [Next]_vars => RowsStay
<1> SUFFICES ASSUME Typed, [Next]_vars PROVE RowsStay
  OBVIOUS
<1>1. CASE UNCHANGED items
  BY <1>1 DEF RowsStay
<1>2. ASSUME NEW k \in Kinds, NEW to \in SUBSET Clients, Write(k, to) PROVE RowsStay
  BY <1>2, Appended DEF Typed, Write, RowsStay
<1>3. ASSUME NEW k \in Kinds, Advance(k) \/ Announce(k) PROVE UNCHANGED items
  BY <1>3 DEF Advance, Announce
<1>4. ASSUME NEW c \in Clients, NEW poll \in BOOLEAN, Begin(c, poll) \/ Again(c, poll)
      PROVE  UNCHANGED items
  BY <1>4 DEF Begin, Again, db
<1>5. ASSUME NEW c \in Clients, Step(c) \/ GiveUp(c) \/ GoAway(c) \/ Finalize(c)
      PROVE  UNCHANGED items
  <2>1. ASSUME NEW k \in Kinds, Complete(c, k) \/ Incremental(c, k) PROVE UNCHANGED items
    BY <2>1 DEF Complete, Incremental, db
  <2>2. CASE \/ ReadPosition(c) \/ GetListener(c) \/ GetNotifyChannel(c) \/ WakeUp(c)
             \/ Respond(c) \/ GiveUp(c) \/ GoAway(c) \/ Finalize(c)
    BY <2>2 DEF ReadPosition, GetListener, GetNotifyChannel, WakeUp, Respond, GiveUp, GoAway,
                Finalize, db
  <2> QED BY <1>5, <2>1, <2>2, Zenon DEF Step
<1>6. ASSUME Crash \/ UNCHANGED vars PROVE UNCHANGED items
  BY <1>6 DEF Crash, vars, db
<1> QED
  BY <1>1, <1>2, <1>3, <1>4, <1>5, <1>6, Zenon DEF Next

\* A step of the request of client c that reads and sends nothing.
LEMMA OneKnown ==
    ASSUME Typed, AllKnown, RowsStay, UNCHANGED <<token, delivered>>, NEW c \in Clients,
           DOMAIN req' = Clients, \A d \in Clients \ {c} : req'[d] = req[d],
           \/ req'[c].pc = "idle"
           \/ /\ req[c].pc # "idle" /\ req'[c].since = req[c].since
              /\ req'[c].pc = "respond" => DOMAIN req'[c].batch = {}
    PROVE  AllKnown'
<1>1. ASSUME NEW d \in Clients PROVE KnownFor(d)'
  <2>1. KnownFor(d) /\ token'[d] = token[d] /\ delivered'[d] = delivered[d]
    BY DEF AllKnown
  <2>2. CASE d = c
    BY <2>1, <2>2, KnownKept
  <2>3. CASE d # c
    BY <2>1, <2>3, KnownKept
  <2> QED BY <2>2, <2>3
<1> QED BY <1>1 DEF AllKnown

\* The consumers, a finalizer and a restart send nothing.
LEMMA ConsumersKnown ==
    ASSUME Typed, AllKnown, RowsStay,
           \/ Crash \/ UNCHANGED vars \/ \E c \in Clients : Finalize(c)
           \/ \E k \in Kinds : (\E to \in SUBSET Clients : Write(k, to)) \/ Advance(k) \/ Announce(k)
    PROVE  AllKnown'
<1>1. /\ UNCHANGED <<token, delivered>>
      /\ \A c \in Clients :
            \/ req'[c].pc = "idle" \/ req'[c] = req[c]
            \/ /\ req[c].pc # "idle" /\ req'[c].since = req[c].since
               /\ req'[c].pc = "respond" => DOMAIN req'[c].batch = {}
  <2>1. CASE Crash \/ UNCHANGED vars \/ \E c \in Clients : Finalize(c)
    BY <2>1 DEF Crash, Finalize, vars, client, Idle
  <2>2. ASSUME NEW k \in Kinds, (\E to \in SUBSET Clients : Write(k, to)) \/ Advance(k)
        PROVE  UNCHANGED <<token, delivered, req>>
    BY <2>2 DEF Write, Advance, client
  <2>3. ASSUME NEW k \in Kinds, Announce(k), NEW c \in Clients
        PROVE  /\ UNCHANGED <<token, delivered>>
               /\ \/ req'[c] = req[c]
                  \/ /\ req[c].pc # "idle" /\ req'[c].since = req[c].since
                     /\ req'[c].pc = "woken"
    <3>1. /\ UNCHANGED client
          /\ \/ req'[c] = req[c]
             \/ req[c].pc = "waiting" /\ req'[c] = [req[c] EXCEPT !.pc = "woken"]
      BY <2>3, AnnounceFacts
    <3>2. req[c].pc = "waiting" => {"pc", "since"} \subseteq DOMAIN req[c]
      BY RequestFacts DEF ReqTyped, Waits
    <3> QED BY <3>1, <3>2 DEF client
  <2>4. ASSUME NEW k \in Kinds, Announce(k) PROVE UNCHANGED <<token, delivered>>
    BY <2>4, AnnounceFacts DEF client
  <2> QED BY <2>1, <2>2, <2>3, <2>4
<1>2. ASSUME NEW c \in Clients PROVE KnownFor(c)'
  BY <1>1, KnownKept DEF AllKnown
<1> QED BY <1>1, <1>2 DEF AllKnown

\* The steps of a request that neither read a stream nor answer.
LEMMA QuietKnown ==
    ASSUME Typed, AllKnown, RowsStay, NEW c \in Clients,
           \/ ReadPosition(c) \/ GetListener(c) \/ GetNotifyChannel(c) \/ WakeUp(c) \/ GoAway(c)
    PROVE  AllKnown'
<1> DEFINE r == req[c]
<1>1. UNCHANGED <<token, delivered>>
  BY DEF ReadPosition, GetListener, GetNotifyChannel, WakeUp, GoAway, client
<1>2. DOMAIN req = Clients /\ ReqTyped(r)
  BY RequestFacts
<1>3. DOMAIN req' = Clients /\ \A d \in Clients \ {c} : req'[d] = req[d]
  BY <1>2, GetListenerFacts DEF ReadPosition, GetNotifyChannel, WakeUp, GoAway, Close
<1>4. CASE GoAway(c)
  <2>1. req'[c].pc = "idle"
    BY <1>2, <1>4 DEF GoAway, Close, Idle
  <2> QED BY <1>1, <1>3, <2>1, OneKnown
<1>5. ASSUME NEW s, req' = [req EXCEPT ![c] = s], r.pc # "idle", s.since = r.since,
             s.pc = "respond" => DOMAIN s.batch = {}
      PROVE  AllKnown'
  <2>1. req'[c] = s
    BY <1>2, <1>5
  <2> QED BY <1>1, <1>3, <1>5, <2>1, OneKnown
<1>6. ASSUME NEW cur, r.pc # "idle", req' = [req EXCEPT ![c] = Responding(r, cur)]
      PROVE  AllKnown'
  <2>1. Responding(r, cur).since = r.since /\ DOMAIN Responding(r, cur).batch = {}
    BY DEF Responding
  <2> QED BY <1>5, <1>6, <2>1
<1>7. CASE WakeUp(c)
  BY <1>6, <1>7 DEF WakeUp
<1>8. CASE ReadPosition(c)
  <2> DEFINE s == [pc |-> "listen", since |-> r.since, poll |-> FALSE,
                   held |-> r.held, cur |-> currPos]
  <2>1. r.pc = "read"
        /\ (req' = [req EXCEPT ![c] = Responding(r, currPos)] \/ req' = [req EXCEPT ![c] = s])
    BY <1>8 DEF ReadPosition
  <2>2. CASE req' = [req EXCEPT ![c] = Responding(r, currPos)]
    BY <1>6, <2>1, <2>2
  <2>3. CASE req' = [req EXCEPT ![c] = s]
    <3>1. s.pc = "listen" /\ s.since = r.since
      OBVIOUS
    <3> HIDE DEF s
    <3> QED BY <1>5, <2>1, <2>3, <3>1
  <2> QED BY <2>1, <2>2, <2>3
<1>9. CASE GetListener(c)
  <2>1. r.pc = "listen" /\ req'[c].pc = "listening" /\ req'[c].since = r.since
    BY <1>9, GetListenerFacts
  <2> QED BY <1>1, <1>3, <2>1, OneKnown
<1>10. CASE GetNotifyChannel(c)
  <2>1. {"pc", "since"} \subseteq DOMAIN r /\ r.pc = "listening"
    BY <1>2, <1>10 DEF GetNotifyChannel, ReqTyped
  <2>2. PICK p \in {"woken", "waiting"} : req'[c] = [r EXCEPT !.pc = p]
    BY <1>2, <1>10 DEF GetNotifyChannel
  <2>3. req'[c].pc # "respond" /\ req'[c].since = r.since
    BY <2>1, <2>2
  <2> QED BY <1>1, <1>3, <2>1, <2>3, OneKnown
<1> QED
  BY <1>4, <1>7, <1>8, <1>9, <1>10

\* A new request, and one that starts again.
LEMMA StartKnown ==
    ASSUME Typed, AllKnown, RowsStay, NEW c \in Clients, NEW t, NEW poll, NEW held,
           UNCHANGED <<items, token, delivered>>,
           req' = [req EXCEPT ![c] = [pc |-> "read", since |-> t, poll |-> poll,
                                      held |-> held]],
           \A k \in Kinds : Known(items[k], k, c, t[k], delivered[c])
    PROVE  AllKnown'
<1> DEFINE s == [pc |-> "read", since |-> t, poll |-> poll, held |-> held]
<1>1. req'[c] = s /\ \A d \in Clients \ {c} : req'[d] = req[d]
  BY RequestFacts
<1>2. ASSUME NEW d \in Clients PROVE KnownFor(d)'
  <2>1. CASE d = c
    <3>1. req'[c].pc = "read" /\ req'[c].since = t
      BY <1>1
    <3>2. \A k \in Kinds : Known(items[k], k, c, token[c][k], delivered[c])
      BY DEF AllKnown, KnownFor
    <3> QED BY <2>1, <3>1, <3>2 DEF KnownFor
  <2>2. CASE d # c
    BY <1>1, <2>2, KnownKept DEF AllKnown
  <2> QED BY <2>1, <2>2
<1> QED BY <1>2 DEF AllKnown

LEMMA BeginKnown ==
    ASSUME Typed, AllKnown, RowsStay, NEW c \in Clients, NEW poll \in BOOLEAN, Begin(c, poll)
    PROVE  AllKnown'
<1>1. /\ UNCHANGED <<items, token, delivered>>
      /\ req' = [req EXCEPT ![c] = [pc |-> "read", since |-> token[c],
                                    poll |-> poll, held |-> 0]]
  BY DEF Begin, db, client
<1>2. \A k \in Kinds : Known(items[k], k, c, token[c][k], delivered[c])
  BY DEF AllKnown, KnownFor
<1> QED BY <1>1, <1>2, StartKnown

LEMMA AgainKnown ==
    ASSUME Typed, AllKnown, RowsStay, NEW c \in Clients, NEW poll \in BOOLEAN, Again(c, poll)
    PROVE  AllKnown'
<1>1. /\ UNCHANGED <<items, token, delivered>>
      /\ req' = [req EXCEPT ![c] = [pc |-> "read", since |-> req[c].cur,
                                    poll |-> poll, held |-> req[c].held]]
      /\ req[c].pc = "respond" /\ DOMAIN req[c].batch = Kinds
      /\ req[c].since # Zero /\ req[c].got = {}
  BY DEF Again, Read, db, client
<1>2. ASSUME NEW k \in Kinds PROVE Known(items[k], k, c, req[c].cur[k], delivered[c])
  <2>1. Known(items[k], k, c, req[c].cur[k], delivered[c] \cup req[c].got)
    BY <1>1 DEF AllKnown, KnownFor
  <2> QED BY <1>1, <2>1 DEF Known
<1> QED BY <1>1, <1>2, StartKnown

\* A request ends with a token of which the client knows everything.
LEMMA EndKnown ==
    ASSUME Typed, AllKnown, RowsStay, NEW c \in Clients, NEW t, NEW D, UNCHANGED items,
           req' = [req EXCEPT ![c] = Idle], token' = [token EXCEPT ![c] = t],
           DOMAIN delivered' = Clients, delivered'[c] = D,
           \A d \in Clients \ {c} : delivered'[d] = delivered[d],
           \A k \in Kinds : Known(items[k], k, c, t[k], D)
    PROVE  AllKnown'
<1>1. req'[c].pc = "idle" /\ \A d \in Clients \ {c} : req'[d] = req[d]
  BY RequestFacts DEF Idle
<1>2. /\ token'[c] = t /\ delivered'[c] = D
      /\ \A d \in Clients \ {c} : token'[d] = token[d] /\ delivered'[d] = delivered[d]
  BY DEF Typed, Held, AllKnown
<1>3. ASSUME NEW d \in Clients PROVE KnownFor(d)'
  <2>1. CASE d = c
    BY <1>1, <1>2, <2>1 DEF KnownFor
  <2>2. CASE d # c
    BY <1>1, <1>2, <2>2, KnownKept DEF AllKnown
  <2> QED BY <2>1, <2>2
<1> QED BY <1>3 DEF AllKnown

LEMMA GiveUpKnown ==
    ASSUME Typed, AllKnown, RowsStay, NEW c \in Clients, GiveUp(c) PROVE AllKnown'
<1>1. /\ req[c].pc \in {"waiting", "woken"} /\ token' = [token EXCEPT ![c] = req[c].since]
      /\ req' = [req EXCEPT ![c] = Idle] /\ UNCHANGED <<items, delivered>>
  BY DEF GiveUp, Close, db
<1>2. \A k \in Kinds : Known(items[k], k, c, req[c].since[k], delivered[c])
  BY <1>1 DEF AllKnown, KnownFor
<1> QED BY <1>1, <1>2, EndKnown DEF AllKnown

LEMMA RespondKnown ==
    ASSUME Typed, AllKnown, RowsStay, NEW c \in Clients, Respond(c) PROVE AllKnown'
<1> DEFINE D == delivered[c] \cup req[c].got
<1>1. /\ req[c].pc = "respond" /\ DOMAIN req[c].batch = Kinds
      /\ token' = [token EXCEPT ![c] = req[c].batch]
      /\ DOMAIN delivered' = Clients /\ delivered'[c] = D
      /\ \A d \in Clients \ {c} : delivered'[d] = delivered[d]
      /\ req' = [req EXCEPT ![c] = Idle] /\ UNCHANGED items
  BY DEF Respond, Read, Close, db, AllKnown
<1>2. \A k \in Kinds : Known(items[k], k, c, req[c].batch[k], D)
  BY <1>1 DEF AllKnown, KnownFor
<1> HIDE DEF D
<1> QED BY <1>1, <1>2, EndKnown

\* A stream is read up to a position of which the client then knows everything.
LEMMA ReplyKnown ==
    ASSUME Typed, AllKnown, RowsStay, NEW c \in Clients, NEW k \in Kinds,
           req[c].pc = "respond", k \notin DOMAIN req[c].batch,
           UNCHANGED <<items, token, delivered>>,
           NEW got, NEW pos \in Nat, Reply(c, k, got, pos),
           Known(items[k], k, c, pos, delivered[c] \cup got),
           req[c].since # Zero => Known(items[k], k, c, req[c].cur[k], delivered[c] \cup got)
    PROVE  AllKnown'
<1> DEFINE r == req[c]
           s == req'[c]
<1>1. /\ DOMAIN req' = Clients /\ \A d \in Clients \ {c} : req'[d] = req[d]
      /\ s.pc = "respond" /\ s.since = r.since /\ s.cur = r.cur
      /\ s.got = r.got \cup got /\ DOMAIN s.batch = DOMAIN r.batch \cup {k}
      /\ s.batch[k] = pos /\ \A l \in DOMAIN r.batch \ {k} : s.batch[l] = r.batch[l]
  BY ReplyFields
<1>2. ASSUME NEW l \in Kinds, NEW p, NEW D, NEW E, Known(items[l], l, c, p, D), D \subseteq E
      PROVE  Known(items'[l], l, c, p, E)
  BY <1>2 DEF Known
<1>3. ASSUME NEW l \in Kinds
      PROVE  /\ Known(items'[l], l, c, token'[c][l], delivered'[c])
             /\ Known(items'[l], l, c, s.since[l], delivered'[c])
             /\ l \in DOMAIN s.batch =>
                   LET D == delivered'[c] \cup s.got IN
                   /\ Known(items'[l], l, c, s.batch[l], D)
                   /\ s.since # Zero => Known(items'[l], l, c, s.cur[l], D)
  <2>1. /\ Known(items[l], l, c, token[c][l], delivered[c])
        /\ Known(items[l], l, c, r.since[l], delivered[c])
        /\ l \in DOMAIN r.batch =>
              /\ Known(items[l], l, c, r.batch[l], delivered[c] \cup r.got)
              /\ r.since # Zero => Known(items[l], l, c, r.cur[l], delivered[c] \cup r.got)
    BY DEF AllKnown, KnownFor
  <2>2. /\ Known(items'[l], l, c, token'[c][l], delivered'[c])
        /\ Known(items'[l], l, c, s.since[l], delivered'[c])
    BY <1>1, <2>1
  <2>3. delivered[c] \cup got \subseteq delivered'[c] \cup s.got
        /\ delivered[c] \cup r.got \subseteq delivered'[c] \cup s.got
    BY <1>1
  <2>4. CASE l = k
    <3>1. /\ Known(items'[l], l, c, pos, delivered'[c] \cup s.got)
          /\ r.since # Zero => Known(items'[l], l, c, r.cur[l], delivered'[c] \cup s.got)
      BY <1>2, <2>3, <2>4
    <3> QED BY <1>1, <2>2, <2>4, <3>1
  <2>5. CASE l # k
    <3>1. ASSUME l \in DOMAIN s.batch
          PROVE  /\ s.batch[l] = r.batch[l]
                 /\ Known(items'[l], l, c, r.batch[l], delivered'[c] \cup s.got)
                 /\ r.since # Zero => Known(items'[l], l, c, r.cur[l], delivered'[c] \cup s.got)
      <4>1. l \in DOMAIN r.batch /\ s.batch[l] = r.batch[l]
        BY <1>1, <2>5, <3>1
      <4> QED BY <1>2, <2>1, <2>3, <4>1
    <3> QED BY <1>1, <2>2, <3>1
  <2> QED BY <2>4, <2>5
<1>4. KnownFor(c)'
  BY <1>1, <1>3 DEF KnownFor
<1>5. ASSUME NEW d \in Clients PROVE KnownFor(d)'
  <2>1. CASE d = c
    BY <1>4, <2>1
  <2>2. CASE d # c
    BY <1>1, <2>2, KnownKept DEF AllKnown
  <2> QED BY <2>1, <2>2
<1> QED BY <1>5 DEF AllKnown

LEMMA CompleteKnown ==
    ASSUME Typed, AllKnown, RowsStay, NEW c \in Clients, NEW k \in Kinds, Complete(c, k)
    PROVE  AllKnown'
<1> DEFINE got == Between(c, k, 0, latest[k])
<1>1. latest[k] \in Nat /\ latest[k] <= Len(items[k]) /\ Len(items[k]) \in Nat
  BY DEF Typed, Positions, Tokens
<1>2. /\ req[c].pc = "respond"
      /\ Reply(c, k, {}, 0) \/ Reply(c, k, got, latest[k])
      /\ req[c].since = Zero /\ k \notin DOMAIN req[c].batch
      /\ UNCHANGED <<items, token, delivered>>
  BY DEF Complete, db, client
<1>3. \A n \in Nat : 0 < n /\ n <= latest[k] /\ c \in items[k][n] => <<k, n>> \in got
  BY <1>1 DEF Between
<1> HIDE DEF got
<1>4. Known(items[k], k, c, latest[k], delivered[c] \cup got)
  BY <1>3 DEF Known
<1>5. 0 \in Nat /\ Known(items[k], k, c, 0, delivered[c] \cup {})
  BY DEF Known
<1>6. CASE Reply(c, k, got, latest[k])
  BY <1>1, <1>2, <1>4, <1>6, ReplyKnown
<1>7. CASE Reply(c, k, {}, 0)
  BY <1>2, <1>5, <1>7, ReplyKnown
<1> QED
  BY <1>2, <1>6, <1>7

LEMMA IncrementalKnown ==
    ASSUME ~ReadErrors, Typed, AllKnown, RowsStay,
           NEW c \in Clients, NEW k \in Kinds, Incremental(c, k)
    PROVE  AllKnown'
<1> DEFINE from == req[c].since[k]
<1>1. /\ req[c].pc = "respond" /\ k \notin DOMAIN req[c].batch
      /\ UNCHANGED <<db, latest, currPos, streams, client, faults>>
      /\ \E got, pos :
            /\ Reply(c, k, got, pos) /\ pos \in Nat /\ pos <= Len(items[k])
            /\ \A n \in Nat : /\ from < n /\ n <= Len(items[k])
                              /\ n <= pos \/ n <= currPos[k]
                              /\ c \in items[k][n]
                              => <<k, n>> \in got
  BY IncrementalReads, Zenon
<1>2. PICK got, pos :
            /\ Reply(c, k, got, pos) /\ pos \in Nat /\ pos <= Len(items[k])
            /\ \A n \in Nat : /\ from < n /\ n <= Len(items[k])
                              /\ n <= pos \/ n <= currPos[k]
                              /\ c \in items[k][n]
                              => <<k, n>> \in got
  BY <1>1
<1>3. /\ from \in Nat /\ req[c].cur[k] \in Nat /\ req[c].cur[k] <= currPos[k]
      /\ currPos[k] \in Nat /\ Len(items[k]) \in Nat /\ currPos[k] <= Len(items[k])
  BY <1>1, RequestFacts DEF ReqTyped, Tokens
<1>4. Known(items[k], k, c, from, delivered[c])
  BY <1>1 DEF AllKnown, KnownFor
<1> HIDE DEF from
<1>5. ASSUME NEW p \in Nat, p <= Len(items[k]), p <= pos \/ p <= currPos[k]
      PROVE  Known(items[k], k, c, p, delivered[c] \cup got)
  <2>1. ASSUME NEW n \in Nat, 0 < n, n <= p, c \in items[k][n]
        PROVE  <<k, n>> \in delivered[c] \cup got
    <3>1. CASE n <= from
      BY <1>4, <2>1, <3>1 DEF Known
    <3>2. CASE from < n
      BY <1>2, <1>3, <1>5, <2>1, <3>2
    <3> QED BY <1>3, <3>1, <3>2
  <2> QED BY <2>1 DEF Known
<1>6. /\ Known(items[k], k, c, pos, delivered[c] \cup got)
      /\ Known(items[k], k, c, req[c].cur[k], delivered[c] \cup got)
  <2>1. /\ pos \in Nat /\ pos <= Len(items[k]) /\ pos <= pos
        /\ req[c].cur[k] \in Nat /\ req[c].cur[k] <= Len(items[k])
        /\ req[c].cur[k] <= currPos[k]
    BY <1>2, <1>3
  <2> QED BY <1>5, <2>1
<1> QED
  BY <1>1, <1>2, <1>6, ReplyKnown DEF db, client

\* Every step keeps what is known.
LEMMA NextKnown ==
    ASSUME ~ReadErrors, Typed, AllKnown, [Next]_vars PROVE AllKnown'
<1>1. RowsStay
  BY RowsAlwaysStay
<1>2. ASSUME NEW c \in Clients, NEW poll \in BOOLEAN, Begin(c, poll) \/ Again(c, poll)
      PROVE  AllKnown'
  BY <1>1, <1>2, BeginKnown, AgainKnown, Zenon
<1>3. ASSUME NEW c \in Clients, Step(c) \/ GiveUp(c) \/ GoAway(c) PROVE AllKnown'
  BY <1>1, <1>3, QuietKnown, CompleteKnown, IncrementalKnown, RespondKnown, GiveUpKnown,
     Zenon DEF Step
<1>4. CASE \/ Crash \/ UNCHANGED vars \/ \E c \in Clients : Finalize(c)
           \/ \E k \in Kinds : (\E to \in SUBSET Clients : Write(k, to)) \/ Advance(k) \/ Announce(k)
  BY <1>1, <1>4, ConsumersKnown, Zenon
<1> QED
  BY <1>2, <1>3, <1>4, Zenon DEF Next

\* Nothing is skipped (NothingSkipped): if the reads of the database succeed,
\* a client's token is past no item that it has not been sent.
THEOREM NothingIsSkipped ==
    ASSUME ~ReadErrors PROVE Spec => []NothingSkipped
<1>1. Init => Typed /\ AllKnown
  <2>1. Init => AllKnown
    BY DEF Init, AllKnown, KnownFor, Known, Zero, Idle
  <2> QED BY <2>1, InitTyped
<1>2. Typed /\ AllKnown /\ [Next]_vars => (Typed /\ AllKnown)'
  BY NextTyped, NextKnown
<1>3. Typed /\ AllKnown => NothingSkipped
  <2> SUFFICES ASSUME Typed, AllKnown, NEW c \in Clients, NEW k \in Kinds,
                      NEW n \in 1 .. token[c][k], c \in items[k][n]
               PROVE  <<k, n>> \in delivered[c]
    BY DEF NothingSkipped
  <2>1. token[c][k] \in Nat
    BY RequestFacts DEF Tokens
  <2>2. Known(items[k], k, c, token[c][k], delivered[c])
    BY DEF AllKnown, KnownFor
  <2> QED BY <2>1, <2>2 DEF Known
<1> QED
  BY <1>1, <1>2, <1>3, PTL DEF Spec

-----------------------------------------------------------------------------
(* No wake-up is lost                                                      *)

\* Among the rows s no item after lo and up to hi is for client c.
Silent(s, c, lo, hi) == \A n \in Nat : lo < n /\ n <= hi => c \notin s[n]

\* As long as its stream is in the map, nothing has been announced to a client
\* since the last broadcast on the stream, nor to one that waits since the
\* token of its request.
Fresh ==
    /\ mapped \subseteq Clients
    /\ \A c \in mapped, k \in Kinds :
          /\ Silent(items[k], c, streams[c][k], currPos[k])
          /\ req[c].pc = "waiting" => Silent(items[k], c, req[c].since[k], currPos[k])

\* A step without announcement, in which no stream and no wait begins.
LEMMA FreshKept ==
    ASSUME Typed, Fresh, RowsStay, UNCHANGED <<currPos, streams>>, mapped' \subseteq mapped,
           \A c \in Clients : req'[c].pc = "waiting" => req'[c] = req[c]
    PROVE  Fresh'
<1>1. ASSUME NEW c, NEW k \in Kinds, NEW lo \in Nat, Silent(items[k], c, lo, currPos[k])
      PROVE  Silent(items'[k], c, lo, currPos[k])
  <2>1. currPos[k] \in Nat /\ currPos[k] <= Len(items[k]) /\ Len(items[k]) \in Nat
    BY DEF Typed, Positions, Tokens
  <2> QED BY <1>1, <2>1 DEF Silent, RowsStay
<1>2. ASSUME NEW c \in mapped', NEW k \in Kinds
      PROVE  Silent(items'[k], c, streams[c][k], currPos[k])
  <2>1. c \in mapped /\ streams[c][k] \in Nat
    BY <1>2 DEF Fresh, Typed, Listeners, Tokens
  <2> QED BY <1>1, <2>1 DEF Fresh
<1>3. ASSUME NEW c \in mapped', NEW k \in Kinds, req'[c].pc = "waiting"
      PROVE  Silent(items'[k], c, req'[c].since[k], currPos[k])
  <2>1. c \in mapped /\ c \in Clients
    BY <1>3 DEF Fresh
  <2>2. req'[c] = req[c] /\ req[c].since[k] \in Nat
    BY <1>3, <2>1, RequestFacts DEF ReqTyped, Tokens
  <2> QED BY <1>1, <1>3, <2>1, <2>2 DEF Fresh
<1> QED BY <1>2, <1>3 DEF Fresh

\* The announcement of an item, which is new to those it is for only.
LEMMA AnnounceFresh ==
    ASSUME Typed, Fresh, "account" \notin Kinds, NEW k \in Kinds, Announce(k)
    PROVE  Fresh'
<1> DEFINE m == Len(items[k])
           C == items[k][m]
<1>1. /\ UNCHANGED items /\ currPos' \in Tokens /\ currPos'[k] = m
      /\ \A l \in Kinds \ {k} : currPos'[l] = currPos[l]
      /\ mapped' \subseteq mapped /\ mapped' \subseteq Clients
      /\ \A c \in mapped' : streams'[c] = IF c \notin C THEN streams[c] ELSE currPos'
      /\ \A c \in mapped' : req'[c] = IF c \in C /\ req[c].pc = "waiting"
                                     THEN [req[c] EXCEPT !.pc = "woken"] ELSE req[c]
  BY AnnounceFacts DEF Fresh
<1>2. currPos[k] \in Nat /\ m \in Nat /\ currPos[k] >= m - 1
  BY AnnounceFacts DEF Typed, Positions, Tokens
<1>3. ASSUME NEW c, c \notin C, NEW l \in Kinds, NEW lo \in Nat,
             Silent(items[l], c, lo, currPos[l])
      PROVE  Silent(items'[l], c, lo, currPos'[l])
  <2>1. CASE l # k
    BY <1>1, <1>3, <2>1
  <2>2. CASE l = k
    <3>1. ASSUME NEW n \in Nat, lo < n, n <= m PROVE c \notin items[k][n]
      <4>1. CASE n = m
        BY <1>3, <4>1
      <4>2. CASE n # m
        BY <1>2, <1>3, <2>2, <3>1, <4>2 DEF Silent
      <4> QED BY <4>1, <4>2
    <3> HIDE DEF m
    <3> QED BY <1>1, <2>2, <3>1 DEF Silent
  <2> QED BY <2>1, <2>2
<1> HIDE DEF C, m
<1>4. ASSUME NEW c \in mapped', NEW l \in Kinds
      PROVE  Silent(items'[l], c, streams'[c][l], currPos'[l])
  <2>1. CASE c \notin C
    <3>1. c \in mapped /\ streams'[c] = streams[c] /\ streams[c][l] \in Nat
      BY <1>1, <1>4, <2>1 DEF Typed, Listeners, Tokens
    <3>2. Silent(items[l], c, streams[c][l], currPos[l])
      BY <3>1 DEF Fresh
    <3> QED BY <1>3, <2>1, <3>1, <3>2
  <2>2. CASE c \in C
    <3>1. streams'[c] = currPos' /\ currPos'[l] \in Nat
      BY <1>1, <1>4, <2>2 DEF Tokens
    <3> QED BY <3>1 DEF Silent
  <2> QED BY <2>1, <2>2
<1>5. ASSUME NEW c \in mapped', NEW l \in Kinds, req'[c].pc = "waiting"
      PROVE  Silent(items'[l], c, req'[c].since[l], currPos'[l])
  <2> c \in Clients /\ c \in mapped
    BY <1>1, <1>5
  <2>1. c \notin C /\ req'[c] = req[c]
    <3>1. "pc" \in DOMAIN req[c]
      BY RequestFacts DEF ReqTyped
    <3> QED BY <1>1, <1>5, <3>1
  <2>2. req[c].since[l] \in Nat
    BY <1>5, <2>1, RequestFacts DEF ReqTyped, Tokens
  <2>3. Silent(items[l], c, req[c].since[l], currPos[l])
    BY <1>5, <2>1 DEF Fresh
  <2> QED BY <1>3, <2>1, <2>2, <2>3
<1> QED
  BY <1>1, <1>4, <1>5 DEF Fresh

\* The request obtains a stream that starts where the notifier is.
LEMMA GetListenerFresh ==
    ASSUME Typed, Fresh, NEW c \in Clients, GetListener(c) PROVE Fresh'
<1>1. /\ UNCHANGED <<items, currPos>> /\ mapped' \subseteq mapped \cup {c}
      /\ streams'[c] = currPos \/ (c \in mapped /\ streams'[c] = streams[c])
      /\ req'[c].pc = "listening"
      /\ \A d \in Clients \ {c} : streams'[d] = streams[d] /\ req'[d] = req[d]
  BY GetListenerFacts DEF db
<1>2. mapped' \subseteq Clients
  BY <1>1 DEF Fresh
<1>3. ASSUME NEW d \in mapped', NEW k \in Kinds
      PROVE  /\ Silent(items'[k], d, streams'[d][k], currPos'[k])
             /\ req'[d].pc = "waiting" => Silent(items'[k], d, req'[d].since[k], currPos'[k])
  <2>1. CASE d # c
    BY <1>1, <1>2, <1>3, <2>1 DEF Fresh
  <2>2. CASE d = c /\ streams'[c] = currPos
    <3>1. currPos[k] \in Nat
      BY RequestFacts DEF Tokens
    <3> QED BY <1>1, <2>2, <3>1 DEF Silent
  <2>3. CASE d = c /\ c \in mapped /\ streams'[c] = streams[c]
    BY <1>1, <2>3 DEF Fresh
  <2> QED BY <1>1, <2>1, <2>2, <2>3
<1> QED BY <1>2, <1>3 DEF Fresh

\* A request waits only if its stream is not past its token.
LEMMA GetNotifyChannelFresh ==
    ASSUME Typed, Fresh, NEW c \in Clients, GetNotifyChannel(c) PROVE Fresh'
<1> DEFINE r == req[c]
           p == IF IsAfter(streams[c], r.since) THEN "woken" ELSE "waiting"
<1>1. /\ r.pc = "listening" /\ UNCHANGED <<items, currPos, streams, mapped>>
      /\ req' = [req EXCEPT ![c].pc = p] /\ mapped \subseteq Clients
  BY DEF GetNotifyChannel, db, notifier, Fresh
<1>2. /\ {"pc", "since"} \subseteq DOMAIN r /\ r.since \in Tokens
      /\ streams[c] \in Tokens /\ currPos \in Tokens
  BY <1>1, RequestFacts DEF ReqTyped, Holds, Typed, Listeners
<1> HIDE DEF p
<1>3. /\ req'[c] = [r EXCEPT !.pc = p] /\ \A d \in Clients \ {c} : req'[d] = req[d]
  BY <1>1, RequestFacts
<1>4. req'[c].pc = p /\ req'[c].since = r.since
  BY <1>2, <1>3
<1>5. ASSUME NEW d \in mapped, NEW k \in Kinds, req'[d].pc = "waiting"
      PROVE  Silent(items'[k], d, req'[d].since[k], currPos'[k])
  <2>1. CASE d # c
    <3>1. req'[d] = req[d]
      BY <1>1, <1>3, <2>1
    <3> QED BY <1>1, <1>5, <3>1 DEF Fresh
  <2>2. CASE d = c
    <3>1. ~IsAfter(streams[c], r.since)
      BY <1>4, <1>5, <2>2 DEF p
    <3>2. streams[c][k] <= r.since[k] /\ streams[c][k] \in Nat /\ r.since[k] \in Nat
      BY <1>2, <3>1 DEF IsAfter, Tokens
    <3>3. Silent(items[k], c, streams[c][k], currPos[k])
      BY <2>2 DEF Fresh
    <3>4. Silent(items[k], c, r.since[k], currPos[k])
      BY <3>2, <3>3 DEF Silent
    <3> QED BY <1>1, <1>4, <2>2, <3>4
  <2> QED BY <2>1, <2>2
<1>6. ASSUME NEW d \in mapped, NEW k \in Kinds
      PROVE  Silent(items'[k], d, streams'[d][k], currPos'[k])
  BY <1>1, <1>6 DEF Fresh
<1> QED BY <1>1, <1>5, <1>6 DEF Fresh

\* The other steps of a request: none begins to wait.
LEMMA RequestFresh ==
    ASSUME Typed, Fresh, RowsStay, NEW c \in Clients,
           UNCHANGED <<currPos, streams, mapped>>, DOMAIN req' = Clients,
           \A d \in Clients \ {c} : req'[d] = req[d], req'[c].pc # "waiting"
    PROVE  Fresh'
BY FreshKept

LEMMA StepFresh ==
    ASSUME Typed, Fresh, RowsStay, NEW c \in Clients,
           \/ Step(c) \/ GiveUp(c) \/ GoAway(c) \/ Finalize(c)
           \/ \E poll \in BOOLEAN : Begin(c, poll) \/ Again(c, poll)
    PROVE  Fresh'
<1>1. DOMAIN req = Clients /\ ReqTyped(req[c])
  BY RequestFacts
<1>2. ASSUME NEW s, req' = [req EXCEPT ![c] = s], s.pc # "waiting", UNCHANGED <<currPos, streams, mapped>>
      PROVE  Fresh'
  BY <1>1, <1>2, RequestFresh
<1>3. ASSUME NEW poll \in BOOLEAN, Begin(c, poll) \/ Again(c, poll) PROVE Fresh'
  <2>1. \E t, l : /\ req' = [req EXCEPT ![c] = [pc |-> "read", since |-> t, poll |-> poll,
                                                 held |-> l]]
                  /\ UNCHANGED <<currPos, streams, mapped>>
    BY <1>3 DEF Begin, Again, notifier
  <2>2. PICK t, l : /\ req' = [req EXCEPT ![c] = [pc |-> "read", since |-> t, poll |-> poll,
                                                   held |-> l]]
                    /\ UNCHANGED <<currPos, streams, mapped>>
    BY <2>1
  <2> DEFINE s == [pc |-> "read", since |-> t, poll |-> poll, held |-> l]
  <2>3. s.pc = "read" /\ req' = [req EXCEPT ![c] = s]
    BY <2>2
  <2> HIDE DEF s
  <2> QED BY <1>2, <2>2, <2>3
<1>4. CASE GiveUp(c) \/ GoAway(c) \/ Respond(c)
  <2>1. req' = [req EXCEPT ![c] = Idle] /\ UNCHANGED <<currPos, streams, mapped>>
    BY <1>4 DEF GiveUp, GoAway, Respond, Close
  <2>2. Idle.pc = "idle"
    BY DEF Idle
  <2> QED BY <1>2, <2>1, <2>2
<1>5. CASE ReadPosition(c)
  <2> DEFINE r == req[c]
             s == [pc |-> "listen", since |-> r.since, poll |-> FALSE,
                   held |-> r.held, cur |-> currPos]
  <2>1. /\ UNCHANGED <<currPos, streams, mapped>>
        /\ req' = [req EXCEPT ![c] = Responding(r, currPos)] \/ req' = [req EXCEPT ![c] = s]
    BY <1>5 DEF ReadPosition, notifier
  <2>2. Responding(r, currPos).pc = "respond" /\ s.pc = "listen"
    BY DEF Responding
  <2> HIDE DEF s
  <2> QED BY <1>2, <2>1, <2>2
<1>6. CASE WakeUp(c)
  <2> DEFINE s == Responding(req[c], ApplyUpdates(req[c].cur, streams[c]))
  <2>1. req' = [req EXCEPT ![c] = s] /\ UNCHANGED <<currPos, streams, mapped>>
    BY <1>6 DEF WakeUp, notifier
  <2>2. s.pc = "respond"
    BY DEF Responding
  <2> HIDE DEF s
  <2> QED BY <1>2, <2>1, <2>2
<1>7. ASSUME NEW k \in Kinds, Complete(c, k) \/ Incremental(c, k) PROVE Fresh'
  <2>1. PICK got, pos : Reply(c, k, got, pos) /\ pos \in Nat
    <3>1. CASE Complete(c, k)
      BY <3>1 DEF Complete, Typed, Positions, Tokens
    <3>2. CASE Incremental(c, k)
      BY <3>2, IncrementalReads, Zenon
    <3> QED BY <1>7, <3>1, <3>2
  <2>2. req[c].pc = "respond" /\ UNCHANGED <<currPos, streams, mapped>>
    BY <1>7 DEF Complete, Incremental, notifier
  <2>3. /\ DOMAIN req' = Clients /\ \A d \in Clients \ {c} : req'[d] = req[d]
        /\ req'[c].pc = "respond"
    BY <2>1, <2>2, ReplyFields
  <2> QED BY <2>2, <2>3, RequestFresh
<1>8. CASE Finalize(c)
  BY <1>8, FreshKept DEF Finalize
<1> QED
  BY <1>3, <1>4, <1>5, <1>6, <1>7, <1>8, GetListenerFresh, GetNotifyChannelFresh, Zenon DEF Step

LEMMA ConsumerFresh ==
    ASSUME Typed, Fresh, RowsStay,
           \/ UNCHANGED vars
           \/ \E k \in Kinds : (\E to \in SUBSET Clients : Write(k, to)) \/ Advance(k)
    PROVE  Fresh'
<1>1. UNCHANGED <<currPos, streams, mapped, req>>
  BY DEF vars, Write, Advance, notifier
<1> QED
  BY <1>1, FreshKept

\* No wake-up is lost (NoLostWakeUp) on a stream that is in the map of the
\* notifier, as long as there is no account data, whose announcements
\* overwrite the position of a stream.
THEOREM NoWakeUpIsLost ==
    ASSUME "account" \notin Kinds PROVE Spec => []NoLostWakeUp
<1>1. Init => Typed /\ Fresh
  <2>1. Init => Fresh
    BY DEF Init, Fresh, Idle
  <2> QED BY <2>1, InitTyped
<1>2. Typed /\ Fresh /\ [Next]_vars => (Typed /\ Fresh)'
  <2> SUFFICES ASSUME Typed, Fresh, [Next]_vars PROVE Fresh'
    BY NextTyped
  <2>1. RowsStay
    BY RowsAlwaysStay
  <2>2. CASE Crash
    BY <2>2 DEF Crash, Fresh, Idle
  <2> QED
    BY <2>1, <2>2, AnnounceFresh, StepFresh, ConsumerFresh, Zenon DEF Next
<1>3. Typed /\ Fresh => NoLostWakeUp
  <2> SUFFICES ASSUME Typed, Fresh, NEW c \in mapped, req[c].pc = "waiting", NEW k \in Kinds,
                      NEW n \in req[c].since[k] + 1 .. currPos[k]
               PROVE  c \notin items[k][n]
    BY DEF NoLostWakeUp
  <2> c \in Clients
    BY DEF Fresh
  <2>1. req[c].since[k] \in Nat /\ currPos[k] \in Nat
    BY RequestFacts DEF ReqTyped, Tokens
  <2>2. Silent(items[k], c, req[c].since[k], currPos[k])
    BY DEF Fresh
  <2> QED BY <2>1, <2>2 DEF Silent
<1> QED
  BY <1>1, <1>2, <1>3, PTL DEF Spec
=============================================================================
