--------------------------- MODULE StateResolution ---------------------------
(***************************************************************************)
(* State resolution: internal/matrixserver/stateresolutionv2.go over a     *)
(* graph G of events, a function from event IDs (numbers) to the records   *)
(* of EventAuth with one more field, auth, the sequence of auth event IDs. *)
(* A room state is a partial function from <<type, state key>> to event    *)
(* IDs.                                                                    *)
(*                                                                         *)
(* An event's origin timestamp and ID only break ties, so both are the     *)
(* number of the event; numbers are given out in any order.  Nothing in    *)
(* the graph is rejected.  The order of a Go list or map that the code     *)
(* iterates over is a parameter, a sequence of event IDs.                  *)
(***************************************************************************)
EXTENDS EventAuth, SequencesExt

CONSTANT UserOrder               \* the users, in the order of their IDs

\* The elements of S in the order Before.
Sorted(S, Before(_, _)) ==
    [n \in 1 .. Cardinality(S) |->
        CHOOSE x \in S : Cardinality({y \in S : Before(y, x)}) = n - 1]

KeyOf(e)  == <<e.type, e.key>>
AuthOf(G, i) == Range(G[i].auth)

\* The events that i refers to, directly or through others, within the IDs in A.
AuthChain(G, A, i) ==
    LET RECURSIVE Chain(_, _)
        Chain(todo, seen) ==
            IF todo = {} THEN seen
            ELSE LET new == (UNION {AuthOf(G, j) : j \in todo} \cap A) \ seen
                 IN  Chain(new, seen \cup new)
    IN  Chain({i}, {})

LookUp(G, s, type, key) == IF <<type, key>> \in DOMAIN s THEN G[s[<<type, key>>]] ELSE NoEvent

\* The AuthEventProvider that a state is.
Provider(G, s) ==
    [create |-> LookUp(G, s, "create", ""),
     rule   |-> LookUp(G, s, "join_rules", ""),
     levels |-> LookUp(G, s, "power_levels", ""),
     member |-> [u \in Users |-> LookUp(G, s, "member", u)],
     invite |-> [t \in Tokens |-> LookUp(G, s, "third_party_invite", t)]]

\* applyEvents
Apply(s, i, e) == [k \in DOMAIN s \cup {KeyOf(e)} |-> IF k = KeyOf(e) THEN i ELSE s[k]]

-----------------------------------------------------------------------------
(* Version 2: what is resolved, and in which order.                        *)

IsControlEvent(e) ==
    \/ e.type \in {"power_levels", "join_rules"} /\ e.key = ""
    \/ e.type = "member" /\ e.sender # e.key /\ e.membership \in {"leave", "ban"}

\* calculateAuthDifference, with C the conflicted events and A the auth events.
AuthDifference(G, C, A) ==
    LET authSet(i) == IF i \in C THEN AuthChain(G, A, i) ELSE {}
    IN  {i \in A : \E k \in authSet(i) : k \notin authSet(k)}

\* fullControlSet: the event and the conflicted events its auth events lead to, each
\* auth event visited once.  Returns the IDs found and the IDs visited.
RECURSIVE FullControlSet(_, _, _, _)
FullControlSet(G, C, i, visited) ==
    LET Visit(acc, j) ==
            IF j \in acc.visited THEN acc
            ELSE LET sub == IF j \in C THEN FullControlSet(G, C, j, acc.visited)
                            ELSE [found |-> <<>>, visited |-> acc.visited]
                 IN  [found |-> acc.found \o sub.found, visited |-> sub.visited \cup {j}]
    IN  FoldLeft(Visit, [found |-> <<i>>, visited |-> visited], G[i].auth)

\* The control events to order, an event as often as the code lists it.
ControlEvents(G, C, U, full) ==
    LET Pull(acc, i) ==
            IF i \in U \/ ~IsControlEvent(G[i]) THEN acc
            ELSE LET sub == FullControlSet(G, C, i, acc.visited)
                 IN  [found |-> acc.found \o sub.found, visited |-> sub.visited]
    IN  FoldLeft(Pull, [found |-> <<>>, visited |-> {}], full).found

\* getPowerLevelFromAuthEvents
EffectiveLevel(G, A, i) ==
    LET found == SelectSeq(G[i].auth, LAMBDA j : j \in A /\ G[j].type = "power_levels")
    IN  IF found = <<>> THEN 0 ELSE UserLevel(G[Head(found)].levels, G[i].sender)

\* sortStateResV2ConflictedPowerLevelHeap: does i come before j?
PowerBefore(G, A, i, j) ==
    LET p == EffectiveLevel(G, A, i)
        q == EffectiveLevel(G, A, j)
    IN  p > q \/ (p = q /\ i < j)

\* Mutant: the control events are taken in the order they came in.
KahnByAuth_Unsorted(G, A, events) == events

\* kahnsAlgorithmUsingAuthEvents on the list events.  The heap's Pop takes the last
\* of the sorted events without incoming references and puts it in front.
KahnByAuth(G, A, events) ==
    LET Before(i, j) == PowerBefore(G, A, i, j)
        inDegree == [i \in Range(events) |->
                        FoldLeft(LAMBDA n, j : IF i \in AuthOf(G, j) THEN n + 1 ELSE n, 0, events)]
        RECURSIVE Loop(_, _, _, _)
        Loop(ready, left, degree, graph) ==
            IF ready = {} THEN Sorted(left, Before) \o graph
            ELSE LET i == CHOOSE x \in ready : \A y \in ready : y = x \/ Before(y, x)
                     d == [k \in DOMAIN degree |->
                              IF k \in AuthOf(G, i) THEN degree[k] - 1 ELSE degree[k]]
                     freed == {k \in left \cap AuthOf(G, i) : d[k] = 0}
                 IN  Loop((ready \ {i}) \cup freed, left \ freed, d, <<i>> \o graph)
        free == {i \in DOMAIN inDegree : inDegree[i] = 0}
    IN  Loop(free, DOMAIN inDegree \ free, inDegree, <<>>)

\* createPowerLevelMainline and getFirstPowerLevelMainlineEvent: the power level events
\* behind event i, nearest first.
PowerLevelParent(G, A, i) == {j \in AuthOf(G, i) \cap A : G[j].type = "power_levels"}
Ancestors(G, A, i) ==
    LET RECURSIVE Walk(_)
        Walk(k) == IF PowerLevelParent(G, A, k) = {} THEN <<>>
                   ELSE LET j == CHOOSE x \in PowerLevelParent(G, A, k) : TRUE
                        IN  <<j>> \o Walk(j)
    IN  Walk(i)

\* The position of i's first ancestor on the mainline and the steps to it; 0 and the
\* length of the walk when there is none.
MainlinePlace(G, A, mainline, i) ==
    LET up   == Ancestors(G, A, i)
        hits == {n \in DOMAIN up : \E p \in DOMAIN mainline : mainline[p] = up[n]}
        n    == CHOOSE x \in hits : \A y \in hits : x <= y
    IN  IF hits = {} THEN [pos |-> 0, steps |-> Len(up)]
        ELSE [pos |-> (CHOOSE p \in DOMAIN mainline : mainline[p] = up[n]) - 1, steps |-> n - 1]

MainlineOrdering(G, A, resolved, others) ==
    LET mainline == IF <<"power_levels", "">> \notin DOMAIN resolved THEN <<>>
                    ELSE LET p == resolved[<<"power_levels", "">>]
                         IN  Reverse(<<p>> \o Ancestors(G, A, p))
        place == [i \in others |-> MainlinePlace(G, A, mainline, i)]
        Before(i, j) == \/ place[i].pos < place[j].pos
                        \/ /\ place[i].pos = place[j].pos
                           /\ \/ place[i].steps < place[j].steps
                              \/ place[i].steps = place[j].steps /\ i < j
    IN  Sorted(others, Before)

-----------------------------------------------------------------------------
(* authAndApplyEvents: each event against the partial state.  For needed   *)
(* state that is not resolved but among the auth events, AddEvent is given *)
(* the event being checked.                                                *)

PartialProvider(G, A, s, e) ==
    LET n == StateNeeded(e)
        Layer(p, type, key) ==
            IF <<type, key>> \in DOMAIN s THEN AddEvent(p, G[s[<<type, key>>]])
            ELSE IF \E j \in Range(e.auth) \cap A : KeyOf(G[j]) = <<type, key>>
                 THEN AddEvent(p, e) ELSE p
        p1 == IF n.create THEN Layer(NoAuthEvents, "create", "") ELSE NoAuthEvents
        p2 == IF n.rule THEN Layer(p1, "join_rules", "") ELSE p1
        p3 == IF n.levels THEN Layer(p2, "power_levels", "") ELSE p2
        p4 == FoldLeft(LAMBDA p, u : Layer(p, "member", u), p3,
                       SelectSeq(UserOrder, LAMBDA u : u \in n.member))
    IN  FoldSet(LAMBDA t, p : Layer(p, "third_party_invite", t), p4, n.invite)

\* Mutant: an event that is not allowed is layered on all the same.
AuthAndApply_Unchecked(G, A, acc, i) ==
    LET context == Update(acc.context, PartialProvider(G, A, acc.state, G[i]))
    IN  [state |-> Apply(acc.state, i, G[i]), context |-> context]

\* acc.state is the partial state, acc.context the allower shared by all events.
AuthAndApply(G, A, acc, i) ==
    LET e == G[i]
        context == Update(acc.context, PartialProvider(G, A, acc.state, e))
    IN  [state   |-> IF AllowedBy(context, e) THEN Apply(acc.state, i, e) ELSE acc.state,
         context |-> [context EXCEPT !.rule = RuleAfter(context, e)]]

\* ResolveStateConflictsV2.  conflicted and difference are in the order the code meets
\* them; the result is the resolved state.
ResolveV2(G, conflicted, unconflicted, A, difference) ==
    LET C == Range(conflicted)
        U == {unconflicted[k] : k \in DOMAIN unconflicted}
        full     == conflicted \o difference
        control  == ControlEvents(G, C, U, full)
        others   == {i \in Range(full) : i \notin U /\ ~IsControlEvent(G[i])
                                         /\ i \notin Range(control)}
        base     == [state |-> unconflicted, context |-> EmptyContext]
        authed   == FoldLeft(LAMBDA acc, i : AuthAndApply(G, A, acc, i), base,
                             KahnByAuth(G, A, control))
        resolved == FoldLeft(LAMBDA acc, i : AuthAndApply(G, A, acc, i), authed,
                             MainlineOrdering(G, A, authed.state, others)).state
    IN  [k \in DOMAIN resolved \cup DOMAIN unconflicted |->
            IF k \in DOMAIN unconflicted THEN unconflicted[k] ELSE resolved[k]]
=============================================================================
