------------------------------ MODULE RoomForks ------------------------------
(***************************************************************************)
(* A room whose event graph forks and is merged again.  Servers send       *)
(* events on two branches that grew from a common history, each accepted   *)
(* by the state of its own branch; an event that has both tips as previous *)
(* events makes roomserver/state/state.go combine the two states, resolve  *)
(* the conflicts and store the result, from which both branches go on.     *)
(***************************************************************************)
EXTENDS StateResolution

CONSTANTS
    Branches,                    \* the tips of the graph
    History,                     \* the events before the fork
    Templates,                   \* the events sent afterwards, without id and auth events
    MaxForked,                   \* bound: events sent after the fork
    MaxMerges                    \* bound: merges

VARIABLES events, branch, merges

vars == <<events, branch, merges>>

\* The auth event IDs of e in state s, in the order of StateNeeded.Tuples.
AuthIDs(e, s) ==
    LET n == StateNeeded(e)
        wanted == (IF n.create THEN <<<<"create", "">>>> ELSE <<>>)
                  \o (IF n.rule THEN <<<<"join_rules", "">>>> ELSE <<>>)
                  \o (IF n.levels THEN <<<<"power_levels", "">>>> ELSE <<>>)
                  \o [k \in DOMAIN SelectSeq(UserOrder, LAMBDA u : u \in n.member) |->
                        <<"member", SelectSeq(UserOrder, LAMBDA u : u \in n.member)[k]>>]
                  \o [k \in DOMAIN SetToSeq(n.invite) |->
                        <<"third_party_invite", SetToSeq(n.invite)[k]>>]
        known == SelectSeq(wanted, LAMBDA k : k \in DOMAIN s)
    IN  [k \in DOMAIN known |-> s[known[k]]]

AcceptedIn(G, s, e) == Allowed(e, AuthEventsOf(e, Provider(G, s)))

Event(e, i, s) == [e EXCEPT !.id = i] @@ [auth |-> AuthIDs(e, s)]

Add(G, i, e) == [j \in DOMAIN G \cup {i} |-> IF j = i THEN e ELSE G[j]]

\* The common history, numbered as it was sent.
Base == FoldLeft(LAMBDA acc, e :
                    LET i == Cardinality(DOMAIN acc.events) + 1
                    IN  [events |-> Add(acc.events, i, Event(e, i, acc.state)),
                         state  |-> Apply(acc.state, i, e),
                         ok     |-> acc.ok /\ AcceptedIn(acc.events, acc.state, e)],
                 [events |-> <<>>, state |-> <<>>, ok |-> TRUE], History)

ASSUME HistoryAssumption == Base.ok
ASSUME BoundsAssumption == MaxForked \in Nat /\ MaxMerges \in Nat

Ids == 1 .. (Len(History) + MaxForked)

-----------------------------------------------------------------------------
(* state.go: calculateStateAfterManyEvents and resolveConflictsV2.         *)

\* The states of the tips: a key for which all have the same event is not conflicted.
Tips         == {branch[b] : b \in Branches}
Keys         == UNION {DOMAIN s : s \in Tips}
Values(k)    == {s[k] : s \in {t \in Tips : k \in DOMAIN t}}
Unconflicted == [k \in {x \in Keys : Cardinality(Values(x)) = 1} |->
                    CHOOSE i \in Values(k) : TRUE]
Conflicted   == UNION {Values(k) : k \in {x \in Keys : Cardinality(Values(x)) > 1}}

\* loadAuthEvents for every conflicted event, and the difference of their auth chains.
AuthEvents == UNION {AuthChain(events, DOMAIN events, i) : i \in Conflicted}
Difference == AuthDifference(events, Conflicted, AuthEvents)

\* The conflicted events and the auth difference reach the algorithm as lists, in an
\* order that Go's maps decide.
Resolve(conflicted, difference) ==
    ResolveV2(events, conflicted, Unconflicted, AuthEvents, difference)

\* Orders of the two lists to try: ascending and descending, each begun at any element.
Rotation(s, n) == [i \in DOMAIN s |-> s[((i + n) % Len(s)) + 1]]
Rotations(c, d) == {<<Rotation(c, n), Rotation(d, n)>> : n \in 1 .. Max({1, Len(c), Len(d)})}
Orders == Rotations(Sorted(Conflicted, <), Sorted(Difference, <))
          \cup Rotations(Sorted(Conflicted, >), Sorted(Difference, >))
Merged == Resolve(Sorted(Conflicted, <), Sorted(Difference, <))

-----------------------------------------------------------------------------

Init == /\ events = Base.events
        /\ branch = [b \in Branches |-> Base.state]
        /\ merges = 0

Send(b, e, i) ==
    /\ e \in {x \in Templates : AcceptedIn(events, branch[b], x)}
    /\ events' = Add(events, i, Event(e, i, branch[b]))
    /\ branch' = [branch EXCEPT ![b] = Apply(@, i, e)]
    /\ UNCHANGED merges

Merge ==
    /\ merges < MaxMerges
    /\ Cardinality(Tips) > 1
    /\ LET merged == Merged IN branch' = [b \in Branches |-> merged]
    /\ merges' = merges + 1
    /\ UNCHANGED events

Next == Merge \/ \E i \in Ids \ DOMAIN events, b \in Branches, e \in Templates : Send(b, e, i)

Spec == Init /\ [][Next]_vars

-----------------------------------------------------------------------------
\* Every server that merges the two branches gets the same state: the order in which
\* events come out of Go's maps does not matter (stateresolutionv2.go 83-175).  Orders
\* names the ones tried: every two events of a list in both orders, every event first and
\* last in its list.
OrderIrrelevant ==
    Cardinality({Resolve(o[1], o[2]) : o \in Orders}) = 1

EventAt(b, k) == events[branch[b][k]]

\* A ban on one branch prevails over what the banned user did on the other, a join that
\* raced it for example, when neither the power levels nor the membership of the one who
\* banned is in conflict.
BanWins ==
    LET Shared(k) == \A s \in Tips : k \in DOMAIN s
        Fixed(k)  == Shared(k) /\ Cardinality(Values(k)) = 1
    IN  Fixed(<<"power_levels", "">>) =>
            \A b, c \in Branches, u \in Users :
                LET k == <<"member", u>>
                IN  /\ Shared(k) /\ EventAt(b, k).membership = "ban"
                    /\ EventAt(c, k).sender = u
                    /\ Fixed(<<"member", EventAt(b, k).sender>>)
                    => Merged[k] = branch[b][k]

=============================================================================
