------------------------------ MODULE RoomAuth -------------------------------
(***************************************************************************)
(* A room as the authorisation rules shape it: any user sends any event,   *)
(* with the auth events AuthEventReferences picks from the current state,  *)
(* and an event that Allowed accepts replaces the state event with its     *)
(* type and state key.  Of a stored event only the fields a later check    *)
(* reads are kept.                                                         *)
(***************************************************************************)
EXTENDS EventAuth

CONSTANTS
    Levels,                      \* the power levels users set
    LevelFields,                 \* the fields of the power levels they change
    Rules                        \* the join rules they set

VARIABLES state,                 \* the auth events in force
          actor                  \* the sender of the last accepted event

vars == <<state, actor>>

ASSUME InputsAssumption ==
    /\ Levels \subseteq Int /\ Rules \subseteq JoinRules
    /\ LevelFields \subseteq DOMAIN Defaults \ {"users", "events"}

-----------------------------------------------------------------------------
(* The events users send.                                                  *)

Creator == state.create.sender
CurrentLevels == LevelsFrom(state.levels, Creator)
Level(u) == UserLevel(CurrentLevels, u)
Membership(u) == MembershipIn(state, u)
Empty == \A u \in Users : ~Given(state.member[u])

\* Membership changes; only a user's own join names who authorised it, only an
\* invite answers a third-party invite.
MemberEvents(first) ==
    {e \in [id : {0}, type : {"member"}, sender : Users, key : Users, membership : Memberships,
            via : Users \cup {NoUser}, token : Tokens \cup {NoToken}, signed : BOOLEAN,
            rule : {"invite"}, levels : {Defaults}, first : {first}, domain : {NoUser}] :
        /\ e.via # NoUser => e.sender = e.key /\ e.membership = "join"
        /\ e.token # NoToken => e.membership = "invite"
        /\ e.signed => e.token # NoToken}

SetUser(c, u, l) == [c EXCEPT !.users = [v \in DOMAIN c.users \cup {u} |->
                                            IF v = u THEN l ELSE c.users[v]]]
DropUser(c, u)   == [c EXCEPT !.users = Restrict(c.users, DOMAIN c.users \ {u})]

\* A power level event states all levels; one or two of them differ from the current.
Contents(c) ==
    {c} \cup {[c EXCEPT ![f] = l] : f \in LevelFields, l \in Levels}
        \cup {SetUser(c, u, l) : u \in Users, l \in Levels}
        \cup {DropUser(c, u) : u \in Users}

\* The content to start from: the first power levels name the creator with level 100.
StartingLevels ==
    IF Given(state.levels) THEN CurrentLevels ELSE SetUser(CurrentLevels, Creator, 100)

LevelEvents ==
    {[BlankEvent EXCEPT !.type = "power_levels", !.sender = x[1], !.key = "", !.levels = x[2]] :
        x \in Users \X Contents(StartingLevels)}

RuleEvents ==
    {[BlankEvent EXCEPT !.type = "join_rules", !.sender = x[1], !.key = "", !.rule = x[2]] :
        x \in Users \X Rules}

InviteEvents ==
    {[BlankEvent EXCEPT !.type = "third_party_invite", !.sender = x[1], !.key = x[2]] :
        x \in Users \X Tokens}

OtherEvents ==
    {[BlankEvent EXCEPT !.type = "redaction", !.sender = x[1], !.domain = Domain[x[2]]] :
        x \in Users \X Users}
    \cup {[BlankEvent EXCEPT !.sender = u] : u \in Users}
    \cup {[BlankEvent EXCEPT !.type = x[1], !.sender = x[2], !.key = x[3]] :
             x \in {"topic", "aliases", "create"} \X Users \X
                     ({""} \cup Users \cup Range(Domain))}

Inputs == MemberEvents(Empty) \cup LevelEvents \cup RuleEvents \cup InviteEvents

\* Accepted with the auth events that go into it.
Accepted(e) == Allowed(e, AuthEventsOf(e, state))

-----------------------------------------------------------------------------
\* A stored event keeps what later checks read of it.
Stored(e) == [e EXCEPT !.sender = NoUser, !.via = NoUser, !.token = NoToken,
                       !.signed = FALSE, !.first = FALSE]

\* The room exists: its create event is in force and nobody has joined.
Init ==
    /\ \E u \in Users :
          LET e == [BlankEvent EXCEPT !.type = "create", !.sender = u, !.key = "",
                                      !.first = TRUE]
          IN  /\ Allowed(e, NoAuthEvents)
              /\ state = [NoAuthEvents EXCEPT !.create = [e EXCEPT !.first = FALSE]]
              /\ actor = u

Send(e) == /\ state' = AddEvent(state, Stored(e))
           /\ actor' = e.sender

Next == \E e \in {i \in Inputs : Accepted(i)} : Send(e)

Spec == Init /\ [][Next]_vars

-----------------------------------------------------------------------------
(* Properties                                                              *)

\* The state of the room holds one well-formed event or none under each key, and its
\* create event is never replaced.
TypeOK ==
    /\ actor \in Users
    /\ DOMAIN state = DOMAIN NoAuthEvents
    /\ DOMAIN state.member = Users /\ DOMAIN state.invite = Tokens
    /\ Given(state.create) /\ Creator \in Users
    /\ state.rule.rule \in JoinRules
    /\ IsLevels(state.levels.levels)
    /\ \A u \in Users : Membership(u) \in Memberships

\* The state that accumulateStateNeeded selects is enough: whatever event is sent in
\* whatever state, the check against the selected auth events decides as the check
\* against the whole state of the room would (eventauth.go 147-218).
NeededSuffices ==
    \A e \in Inputs \cup OtherEvents : Accepted(e) <=> Allowed(e, state)

\* No sequence of accepted events gives anyone a level above the one its sender had:
\* power in a room is only handed down (checkUserLevels, eventauth.go 649-712).
PowerHandedDown ==
    [][\A u \in Users : Level(u)' > Level(u) => Level(u)' <= UserLevel(CurrentLevels, actor')]_vars

\* A banned user comes back only when somebody else with the level to ban lifts the
\* ban, or with a third-party invite that was issued in the room.
BanHolds ==
    [][\A u \in Users : Membership(u) = "ban" /\ Membership(u)' # "ban" =>
          /\ actor' # u \/ \E t \in Tokens : Given(state.invite[t])
          /\ \/ Membership(actor') = "join" /\ Level(actor') >= CurrentLevels.ban
             \/ \E t \in Tokens : Given(state.invite[t])]_vars
=============================================================================
