--------------------------- MODULE RoomAuthProofs ----------------------------
(***************************************************************************)
(* What the authorisation rules guarantee in every room, for any number of *)
(* users, third-party invites and power levels.                            *)
(***************************************************************************)
EXTENDS RoomAuth, TLAPS

-----------------------------------------------------------------------------
(* The shape of the events users send.                                     *)

\* What a membership event looks like.
IsMember(e, f) ==
    /\ e.type = "member" /\ e.sender \in Users /\ e.key \in Users
    /\ e.membership \in Memberships /\ e.first = f
    /\ e.via \in Users \cup {NoUser} /\ e.token \in Tokens \cup {NoToken}

\* A membership event that users send has the shape MemberEvents gives it.
LEMMA MemberInput ==
    ASSUME NEW f \in BOOLEAN, NEW e \in MemberEvents(f)
    PROVE  IsMember(e, f) /\ DOMAIN e = DOMAIN BlankEvent
<1>1. e \in [id : {0}, type : {"member"}, sender : Users, key : Users,
             membership : Memberships, via : Users \cup {NoUser},
             token : Tokens \cup {NoToken}, signed : BOOLEAN, rule : {"invite"},
             levels : {Defaults}, first : {f}, domain : {NoUser}]
  BY Zenon DEF MemberEvents
<1> QED
  BY <1>1 DEF IsMember, BlankEvent

\* Changing or dropping the level of one user keeps contents well-formed and leaves the
\* default level alone.
LEMMA SetUserShape ==
    ASSUME NEW c, IsLevels(c), NEW u \in Users, NEW l \in Int
    PROVE  /\ IsLevels(SetUser(c, u, l))
           /\ SetUser(c, u, l).users_default = c.users_default
BY DEF SetUser, IsLevels, Defaults

\* Removing a user's entry leaves power levels well-formed.
LEMMA DropUserShape ==
    ASSUME NEW c, IsLevels(c), NEW u \in Users
    PROVE  /\ IsLevels(DropUser(c, u))
           /\ DropUser(c, u).users_default = c.users_default
BY DEF DropUser, IsLevels, Restrict, Defaults

\* The default levels (PowerLevelContent.Defaults()) are well-formed.
LEMMA DefaultsShape == IsLevels(Defaults)
BY DEF Defaults, IsLevels

\* The levels in force are well-formed.
LEMMA CurrentShape ==
    ASSUME TypeOK
    PROVE  /\ IsLevels(CurrentLevels) /\ IsLevels(StartingLevels)
           /\ StartingLevels.users_default = CurrentLevels.users_default
<1>1. IsLevels([Defaults EXCEPT !.users = [u \in {Creator} |-> CreatorLevel]])
  BY LevelAssumption DEF Defaults, IsLevels
<1>2. IsLevels(CurrentLevels)
  BY <1>1 DEF TypeOK, CurrentLevels, LevelsFrom
<1> QED
  BY <1>2, SetUserShape DEF StartingLevels, TypeOK

\* The contents of a power level event are well-formed, and keep the default level unless
\* users may change it.
LEMMA ContentsShape ==
    ASSUME NEW c, IsLevels(c), NEW d \in Contents(c)
    PROVE  /\ IsLevels(d)
           /\ "users_default" \notin LevelFields => d.users_default = c.users_default
<1>1. CASE d = c
  BY <1>1
<1>2. ASSUME NEW f \in LevelFields, NEW l \in Levels, d = [c EXCEPT ![f] = l]
      PROVE  IsLevels(d) /\ ("users_default" # f => d.users_default = c.users_default)
  BY <1>2, InputsAssumption DEF IsLevels, Defaults
<1>3. CASE \E u \in Users, l \in Levels : d = SetUser(c, u, l)
  BY <1>3, SetUserShape, InputsAssumption
<1>4. CASE \E u \in Users : d = DropUser(c, u)
  BY <1>4, DropUserShape
<1> QED
  BY <1>1, <1>2, <1>3, <1>4 DEF Contents

\* What the other events look like.
IsLevelEvent(e) ==
    /\ e.type = "power_levels" /\ e.sender \in Users /\ e.key = "" /\ IsLevels(e.levels)
    /\ "users_default" \notin LevelFields =>
          e.levels.users_default = CurrentLevels.users_default

\* A power level event that users send has well-formed levels.
LEMMA LevelInput ==
    ASSUME TypeOK, NEW e \in LevelEvents
    PROVE  IsLevelEvent(e) /\ DOMAIN e = DOMAIN BlankEvent
<1>1. PICK x \in Users \X Contents(StartingLevels) :
            e = [BlankEvent EXCEPT !.type = "power_levels", !.sender = x[1], !.key = "",
                                   !.levels = x[2]]
  BY DEF LevelEvents
<1>2. /\ e.type = "power_levels" /\ e.sender = x[1] /\ e.key = "" /\ e.levels = x[2]
      /\ DOMAIN e = DOMAIN BlankEvent
  BY <1>1 DEF BlankEvent
<1> QED
  BY <1>2, CurrentShape, ContentsShape DEF IsLevelEvent

IsRule(e) ==
    e.type = "join_rules" /\ e.sender \in Users /\ e.key = "" /\ e.rule \in JoinRules

\* A join rule event that users send names a join rule.
LEMMA RuleInput ==
    ASSUME NEW e \in RuleEvents
    PROVE  IsRule(e) /\ DOMAIN e = DOMAIN BlankEvent
BY InputsAssumption DEF RuleEvents, BlankEvent, IsRule

IsInvite(e) == e.type = "third_party_invite" /\ e.sender \in Users /\ e.key \in Tokens

\* A third-party invite that users send is kept under its token.
LEMMA InviteInput ==
    ASSUME NEW e \in InviteEvents
    PROVE  IsInvite(e) /\ DOMAIN e = DOMAIN BlankEvent
BY DEF InviteEvents, BlankEvent, IsInvite

\* An event that users send is of one of the four shapes.
LEMMA InputShape ==
    ASSUME TypeOK, NEW e \in Inputs
    PROVE  /\ IsMember(e, Empty) \/ IsLevelEvent(e) \/ IsRule(e) \/ IsInvite(e)
           /\ DOMAIN e = DOMAIN BlankEvent
<1>1. Empty \in BOOLEAN
  BY DEF Empty
<1> QED
  BY <1>1, MemberInput, LevelInput, RuleInput, InviteInput DEF Inputs

\* Storing an event keeps its type, key and content.
LEMMA StoredFields ==
    ASSUME NEW e, DOMAIN e = DOMAIN BlankEvent
    PROVE  /\ Stored(e).type = e.type /\ Stored(e).key = e.key /\ Stored(e).rule = e.rule
           /\ Stored(e).membership = e.membership /\ Stored(e).levels = e.levels
BY DEF Stored, BlankEvent

-----------------------------------------------------------------------------
(* What one accepted event does to the state.                              *)

\* A membership event changes its user's entry alone (AddEvent()).
LEMMA MemberStep ==
    ASSUME TypeOK, NEW e, IsMember(e, Empty), DOMAIN e = DOMAIN BlankEvent, Send(e)
    PROVE  /\ state'.create = state.create /\ state'.rule = state.rule
           /\ state'.levels = state.levels /\ state'.invite = state.invite
           /\ state'.member = [state.member EXCEPT ![e.key] = Stored(e)]
           /\ DOMAIN state' = DOMAIN state
BY StoredFields DEF TypeOK, Send, AddEvent, IsMember, NoAuthEvents

\* A power level event changes the levels alone (AddEvent()).
LEMMA LevelStep ==
    ASSUME TypeOK, NEW e, IsLevelEvent(e), DOMAIN e = DOMAIN BlankEvent, Send(e)
    PROVE  /\ state'.create = state.create /\ state'.rule = state.rule
           /\ state'.levels = Stored(e) /\ state'.invite = state.invite
           /\ state'.member = state.member /\ DOMAIN state' = DOMAIN state
BY StoredFields DEF TypeOK, Send, AddEvent, IsLevelEvent, NoAuthEvents

\* A join rule event changes the rule alone (AddEvent()).
LEMMA RuleStep ==
    ASSUME TypeOK, NEW e, IsRule(e), DOMAIN e = DOMAIN BlankEvent, Send(e)
    PROVE  /\ state'.create = state.create /\ state'.rule = Stored(e)
           /\ state'.levels = state.levels /\ state'.invite = state.invite
           /\ state'.member = state.member /\ DOMAIN state' = DOMAIN state
BY StoredFields DEF TypeOK, Send, AddEvent, IsRule, NoAuthEvents

\* A third-party invite changes its token's entry alone (AddEvent()).
LEMMA InviteStep ==
    ASSUME TypeOK, NEW e, IsInvite(e), DOMAIN e = DOMAIN BlankEvent, Send(e)
    PROVE  /\ state'.create = state.create /\ state'.rule = state.rule
           /\ state'.levels = state.levels
           /\ state'.invite = [state.invite EXCEPT ![e.key] = Stored(e)]
           /\ state'.member = state.member /\ DOMAIN state' = DOMAIN state
BY StoredFields DEF TypeOK, Send, AddEvent, IsInvite, NoAuthEvents

\* Every accepted event keeps the room well-formed.
LEMMA TypeStep ==
    ASSUME TypeOK, NEW e \in Inputs, Send(e)
    PROVE  TypeOK'
<1> DOMAIN e = DOMAIN BlankEvent
  BY InputShape
<1>0. /\ Stored(e).type = e.type /\ Stored(e).rule = e.rule
      /\ Stored(e).membership = e.membership /\ Stored(e).levels = e.levels
  BY StoredFields
<1>1. actor' = e.sender
  BY DEF Send
<1>2. CASE IsMember(e, Empty)
  <2>1. /\ DOMAIN state' = DOMAIN NoAuthEvents
        /\ DOMAIN state'.member = Users /\ DOMAIN state'.invite = Tokens
        /\ Given(state'.create) /\ state'.create.sender \in Users /\ e.sender \in Users
    BY <1>2, MemberStep DEF TypeOK, Creator, IsMember, IsLevelEvent, IsRule, IsInvite
  <2>2. state'.rule.rule \in JoinRules
    BY <1>2, MemberStep, <1>0 DEF TypeOK, IsRule
  <2>3. IsLevels(state'.levels.levels)
    BY <1>2, MemberStep, <1>0 DEF TypeOK, IsLevelEvent
  <2>4. ASSUME NEW u \in Users PROVE MembershipIn(state', u) \in Memberships
    <3>1. state'.member = [state.member EXCEPT ![e.key] = Stored(e)]
      BY <1>2, MemberStep
    <3>2. state'.member[u] = IF u = e.key THEN Stored(e) ELSE state.member[u]
      BY <3>1 DEF TypeOK
    <3>3. /\ e.membership \in Memberships /\ Given(Stored(e))
          /\ MembershipIn(state, u) \in Memberships
      BY <1>0, <1>2 DEF TypeOK, IsMember, Membership, Given
    <3> QED
      BY <1>0, <3>2, <3>3 DEF MembershipIn
  <2> QED
    BY <1>1, <2>1, <2>2, <2>3, <2>4 DEF TypeOK, Creator, Membership
<1>3. CASE IsLevelEvent(e)
  <2>1. /\ DOMAIN state' = DOMAIN NoAuthEvents
        /\ DOMAIN state'.member = Users /\ DOMAIN state'.invite = Tokens
        /\ Given(state'.create) /\ state'.create.sender \in Users /\ e.sender \in Users
    BY <1>3, LevelStep DEF TypeOK, Creator, IsMember, IsLevelEvent, IsRule, IsInvite
  <2>2. state'.rule.rule \in JoinRules
    BY <1>3, LevelStep, <1>0 DEF TypeOK, IsRule
  <2>3. IsLevels(state'.levels.levels)
    BY <1>3, LevelStep, <1>0 DEF TypeOK, IsLevelEvent
  <2>4. \A u \in Users : MembershipIn(state', u) \in Memberships
    BY <1>3, LevelStep, <1>0 DEF TypeOK, IsMember, Membership, MembershipIn, Given
  <2> QED
    BY <1>1, <2>1, <2>2, <2>3, <2>4 DEF TypeOK, Creator, Membership
<1>4. CASE IsRule(e)
  <2>1. /\ DOMAIN state' = DOMAIN NoAuthEvents
        /\ DOMAIN state'.member = Users /\ DOMAIN state'.invite = Tokens
        /\ Given(state'.create) /\ state'.create.sender \in Users /\ e.sender \in Users
    BY <1>4, RuleStep DEF TypeOK, Creator, IsMember, IsLevelEvent, IsRule, IsInvite
  <2>2. state'.rule.rule \in JoinRules
    BY <1>4, RuleStep, <1>0 DEF TypeOK, IsRule
  <2>3. IsLevels(state'.levels.levels)
    BY <1>4, RuleStep, <1>0 DEF TypeOK, IsLevelEvent
  <2>4. \A u \in Users : MembershipIn(state', u) \in Memberships
    BY <1>4, RuleStep, <1>0 DEF TypeOK, IsMember, Membership, MembershipIn, Given
  <2> QED
    BY <1>1, <2>1, <2>2, <2>3, <2>4 DEF TypeOK, Creator, Membership
<1>5. CASE IsInvite(e)
  <2>1. /\ DOMAIN state' = DOMAIN NoAuthEvents
        /\ DOMAIN state'.member = Users /\ DOMAIN state'.invite = Tokens
        /\ Given(state'.create) /\ state'.create.sender \in Users /\ e.sender \in Users
    BY <1>5, InviteStep DEF TypeOK, Creator, IsMember, IsLevelEvent, IsRule, IsInvite
  <2>2. state'.rule.rule \in JoinRules
    BY <1>5, InviteStep, <1>0 DEF TypeOK, IsRule
  <2>3. IsLevels(state'.levels.levels)
    BY <1>5, InviteStep, <1>0 DEF TypeOK, IsLevelEvent
  <2>4. \A u \in Users : MembershipIn(state', u) \in Memberships
    BY <1>5, InviteStep, <1>0 DEF TypeOK, IsMember, Membership, MembershipIn, Given
  <2> QED
    BY <1>1, <2>1, <2>2, <2>3, <2>4 DEF TypeOK, Creator, Membership
<1> QED
  BY <1>2, <1>3, <1>4, <1>5, InputShape

\* The state of a room that has just been created is well-formed.
LEMMA TypeInit == Init => TypeOK
<1> SUFFICES ASSUME Init PROVE TypeOK
  OBVIOUS
<1> USE DEF NoAuthEvents
<1>1. /\ state.create.sender \in Users /\ Given(state.create) /\ actor \in Users
      /\ DOMAIN state = DOMAIN NoAuthEvents /\ state.rule = NoEvent /\ state.levels = NoEvent
      /\ state.member = [u \in Users |-> NoEvent] /\ state.invite = [t \in Tokens |-> NoEvent]
  BY DEF Init, BlankEvent, Given
<1>2. NoEvent.rule = "invite" /\ NoEvent.levels = Defaults /\ ~Given(NoEvent)
  BY DEF NoEvent, BlankEvent, Given
<1> QED
  BY <1>1, <1>2, DefaultsShape DEF TypeOK, Creator, Membership, MembershipIn, Memberships, JoinRules

\* The room is well-formed in every reachable state.
THEOREM TypeCorrect == Spec => []TypeOK
<1>1. TypeOK /\ [Next]_vars => TypeOK'
  BY TypeStep DEF Next, vars, TypeOK, Creator, Membership, MembershipIn
<1> QED
  BY TypeInit, <1>1, PTL DEF Spec

-----------------------------------------------------------------------------
(* The context an event is checked in.                                     *)

\* What update() of a new allower context takes from a provider.
LEMMA ContextFields ==
    ASSUME NEW s
    PROVE  /\ NewContext(s).provider = s
           /\ NewContext(s).create = (IF Given(s.create) THEN s.create ELSE NoEvent)
           /\ NewContext(s).levels =
                 LevelsFrom(s.levels, IF Given(s.create) THEN s.create.sender ELSE NoUser)
           /\ NewContext(s).rule = (IF Given(s.rule) THEN s.rule.rule ELSE "invite")
<1>1. ~Given(NoEvent)
  BY DEF NoEvent, BlankEvent, Given
<1> QED
  BY <1>1 DEF NewContext, Update, EmptyContext

\* Events of every type that are sent or checked here name known users and invites.
IsInput(e) ==
    /\ e.sender \in Users
    /\ e.type = "member" => /\ e.key \in Users /\ e.via \in Users \cup {NoUser}
                            /\ e.token \in Tokens \cup {NoToken}

\* Every event that is checked has a sender and names known users and tokens.
LEMMA AllInputs ==
    ASSUME TypeOK, NEW e \in Inputs \cup OtherEvents
    PROVE  IsInput(e)
<1>1. CASE e \in Inputs
  BY <1>1, InputShape DEF IsInput, IsMember, IsLevelEvent, IsRule, IsInvite
<1>2. CASE e \in OtherEvents
  BY <1>2 DEF OtherEvents, IsInput, BlankEvent
<1> QED
  BY <1>1, <1>2

\* Against the selected state and against the whole state, an event meets the same
\* context as far as it is read.
LEMMA SameContext ==
    ASSUME TypeOK, NEW e, IsInput(e), e.type # "create"
    PROVE  LET s == AuthEventsOf(e, state)
               a == NewContext(s)
               b == NewContext(state)
           IN  /\ a.provider = s /\ b.provider = state
               /\ a.create = b.create
               /\ e.type # "aliases" => /\ a.levels = b.levels
                                        /\ s.member[e.sender] = state.member[e.sender]
               /\ e.type = "member" =>
                     /\ s.member[e.key] = state.member[e.key]
                     /\ e.via # NoUser => s.member[e.via] = state.member[e.via]
                     /\ e.token # NoToken => s.invite[e.token] = state.invite[e.token]
                     /\ e.membership \in {"join", "knock", "invite"} => a.rule = b.rule
<1> DEFINE s == AuthEventsOf(e, state)
<1>1. /\ s.create = state.create
      /\ e.type # "aliases" => s.levels = state.levels
      /\ e.type # "aliases" => s.member[e.sender] = state.member[e.sender]
  BY DEF AuthEventsOf, StateNeeded, IsInput
<1>2. ASSUME e.type = "member"
      PROVE  s.member[e.key] = state.member[e.key]
  <2>1. e.key \in StateNeeded(e).member /\ e.key \in Users
    BY <1>2, UsersAssumption DEF StateNeeded, IsInput
  <2> QED
    BY <2>1 DEF AuthEventsOf
<1>3. ASSUME e.type = "member", e.via # NoUser
      PROVE  s.member[e.via] = state.member[e.via]
  <2>1. e.via \in StateNeeded(e).member
    BY <1>3 DEF StateNeeded
  <2>2. e.via \in Users
    BY <1>3 DEF IsInput
  <2> QED
    BY <2>1, <2>2 DEF AuthEventsOf
<1>4. e.type = "member" /\ e.token # NoToken => s.invite[e.token] = state.invite[e.token]
  BY DEF AuthEventsOf, StateNeeded, IsInput
<1>5. e.type = "member" /\ e.membership \in {"join", "knock", "invite"} => s.rule = state.rule
  BY DEF AuthEventsOf, StateNeeded, IsInput
<1>6. /\ NewContext(s).provider = s
      /\ NewContext(s).create = (IF Given(s.create) THEN s.create ELSE NoEvent)
      /\ NewContext(s).levels =
            LevelsFrom(s.levels, IF Given(s.create) THEN s.create.sender ELSE NoUser)
      /\ NewContext(s).rule = (IF Given(s.rule) THEN s.rule.rule ELSE "invite")
  BY ContextFields
<1>7. /\ NewContext(state).provider = state
      /\ NewContext(state).create = (IF Given(state.create) THEN state.create ELSE NoEvent)
      /\ NewContext(state).levels =
            LevelsFrom(state.levels, IF Given(state.create) THEN state.create.sender ELSE NoUser)
      /\ NewContext(state).rule = (IF Given(state.rule) THEN state.rule.rule ELSE "invite")
  BY ContextFields
<1> QED
  BY <1>1, <1>2, <1>3, <1>4, <1>5, <1>6, <1>7

\* An event is accepted with the selected state exactly when the whole state allows it.
LEMMA NeededStep ==
    ASSUME TypeOK, NEW e, IsInput(e)
    PROVE  Accepted(e) <=> Allowed(e, state)
<1> DEFINE s == AuthEventsOf(e, state)
           a == NewContext(s)
           b == NewContext(state)
<1>1. CASE e.type = "create"
  BY <1>1 DEF Accepted, Allowed, AllowedBy
<1>2. CASE e.type # "create"
  <2>1. /\ a.provider = s /\ b.provider = state /\ a.create = b.create
        /\ e.type # "aliases" => /\ a.levels = b.levels
                                 /\ s.member[e.sender] = state.member[e.sender]
    BY <1>2, SameContext
  <2> HIDE DEF s, a, b
  <2>2. AliasEventAllowed(a, e) <=> AliasEventAllowed(b, e)
    BY <2>1 DEF AliasEventAllowed, DomainAllowed
  <2>3. e.type # "aliases" => (CommonChecks(a, e) <=> CommonChecks(b, e))
    BY <2>1 DEF CommonChecks, DomainAllowed, MembershipIn
  <2>4. e.type # "aliases" => (RedactEventAllowed(a, e) <=> RedactEventAllowed(b, e))
    BY <2>1, <2>3 DEF RedactEventAllowed
  <2>5. e.type # "aliases" => (PowerLevelsEventAllowed(a, e) <=> PowerLevelsEventAllowed(b, e))
    BY <2>1, <2>3 DEF PowerLevelsEventAllowed
  <2>6. ASSUME e.type = "member"
        PROVE  MembershipAllowed(a, e) <=> MembershipAllowed(b, e)
    <3>1. /\ s.member[e.key] = state.member[e.key]
          /\ e.via # NoUser => s.member[e.via] = state.member[e.via]
          /\ e.token # NoToken => s.invite[e.token] = state.invite[e.token]
          /\ e.membership \in {"join", "knock", "invite"} => a.rule = b.rule
      BY <1>2, <2>6, SameContext DEF s, a, b
    <3>2. a.levels = b.levels /\ s.member[e.sender] = state.member[e.sender]
      BY <2>1, <2>6
    <3>3. RestrictedJoin(a, e) = RestrictedJoin(b, e)
      BY <2>1, <3>1, <3>2 DEF RestrictedJoin, MembershipIn
    <3>4. e.membership = "join" => (JoinAllowed(a, e) <=> JoinAllowed(b, e))
      BY <2>1, <3>1, <3>3 DEF JoinAllowed, MembershipIn
    <3>5. e.membership = "knock" => (KnockAllowed(a, e) <=> KnockAllowed(b, e))
      BY <2>1, <3>1 DEF KnockAllowed, MembershipIn
    <3>6. MembershipAllowedSelf(a, e) <=> MembershipAllowedSelf(b, e)
      BY <2>1, <3>1, <3>4, <3>5 DEF MembershipAllowedSelf, MembershipIn
    <3>7. MembershipAllowedOther(a, e) <=> MembershipAllowedOther(b, e)
      BY <2>1, <3>1, <3>2 DEF MembershipAllowedOther, MembershipIn
    <3>8. FirstJoin(a, e) <=> FirstJoin(b, e)
      BY <2>1 DEF FirstJoin
    <3> QED
      BY <2>1, <3>1, <3>6, <3>7, <3>8 DEF MembershipAllowed, DomainAllowed
  <2>7. AllowedBy(a, e) <=> AllowedBy(b, e)
    BY <1>2, <2>2, <2>3, <2>4, <2>5, <2>6 DEF AllowedBy
  <2> QED
    BY <2>7 DEF Accepted, Allowed, s, a, b
<1> QED
  BY <1>1, <1>2

\* In every reachable state of every room the selection made by accumulateStateNeeded
\* decides as the whole state would.
THEOREM SelectionIsEnough == Spec => []NeededSuffices
<1>1. TypeOK => NeededSuffices
  BY AllInputs, NeededStep DEF NeededSuffices
<1> QED
  BY TypeCorrect, <1>1, PTL

-----------------------------------------------------------------------------
(* Power is handed down.                                                   *)

\* In the room's state the check reads the levels in force and the creator's event.
LEMMA RoomContext ==
    ASSUME TypeOK
    PROVE  /\ NewContext(state).provider = state /\ NewContext(state).create = state.create
           /\ NewContext(state).levels = CurrentLevels
BY ContextFields DEF TypeOK, CurrentLevels, Creator

\* A user's level is a number.
LEMMA LevelIsInt ==
    ASSUME NEW c, IsLevels(c), NEW u
    PROVE  UserLevel(c, u) \in Int
BY DEF UserLevel, IsLevels, Defaults

\* An accepted power level event gives nobody more than its sender has.
LEMMA PowerStep ==
    ASSUME TypeOK, NEW e \in Inputs, Accepted(e), Send(e), NEW u \in Users,
           "users_default" \notin LevelFields
    PROVE  Level(u)' > Level(u) => Level(u)' <= UserLevel(CurrentLevels, actor')
<1> DOMAIN e = DOMAIN BlankEvent
  BY InputShape
<1>1. Level(u) \in Int
  BY LevelIsInt, CurrentShape DEF Level
<1>2. CASE IsLevelEvent(e)
  <2>1. state'.levels = Stored(e) /\ state'.create = state.create
    BY <1>2, LevelStep
  <2>2. Stored(e).levels = e.levels /\ Given(Stored(e))
    BY <1>2, StoredFields DEF IsLevelEvent, Given
  <2>3. Level(u)' = UserLevel(e.levels, u)
    BY <2>1, <2>2 DEF Level, CurrentLevels, LevelsFrom
  <2>4. PowerLevelsEventAllowed(NewContext(state), e)
    <3>1. IsInput(e) /\ e.type = "power_levels"
      BY <1>2 DEF IsInput, IsLevelEvent
    <3> QED
      BY <3>1, NeededStep DEF Allowed, AllowedBy
  <2>5. CheckUserLevels(UserLevel(CurrentLevels, e.sender), e.sender, CurrentLevels, e.levels)
    BY <2>4, RoomContext DEF PowerLevelsEventAllowed
  <2>6. actor' = e.sender
    BY DEF Send
  <2>7. CASE u \in DOMAIN CurrentLevels.users \cup DOMAIN e.levels.users
    <3>1. UserLevel(CurrentLevels, u) = UserLevel(e.levels, u)
          \/ UserLevel(CurrentLevels, e.sender) >= UserLevel(e.levels, u)
      BY <2>5, <2>7 DEF CheckUserLevels
    <3>2. UserLevel(CurrentLevels, e.sender) \in Int /\ UserLevel(e.levels, u) \in Int
      BY <1>2, LevelIsInt, CurrentShape DEF IsLevelEvent
    <3> QED
      BY <1>1, <2>3, <2>6, <3>1, <3>2 DEF Level
  <2>8. CASE u \notin DOMAIN CurrentLevels.users \cup DOMAIN e.levels.users
    <3>1. UserLevel(e.levels, u) = UserLevel(CurrentLevels, u)
      BY <1>2, <2>8 DEF IsLevelEvent, UserLevel
    <3> QED
      BY <1>1, <2>3, <3>1 DEF Level
  <2> QED
    BY <2>7, <2>8
<1>3. CASE ~IsLevelEvent(e)
  <2>1. state'.levels = state.levels /\ state'.create = state.create
    BY <1>3, InputShape, MemberStep, RuleStep, InviteStep
  <2>2. Level(u)' = Level(u)
    BY <2>1 DEF Level, CurrentLevels, Creator
  <2> QED
    BY <1>1, <2>2
<1> QED
  BY <1>2, <1>3

\* However long the sequence of events, a level above the sender's is never given, as long
\* as the default level stays what it is.
THEOREM PowerIsHandedDown ==
    ASSUME "users_default" \notin LevelFields
    PROVE  Spec => PowerHandedDown
<1>1. TypeOK /\ [Next]_vars =>
         [\A u \in Users : Level(u)' > Level(u) =>
                Level(u)' <= UserLevel(CurrentLevels, actor')]_vars
  BY PowerStep DEF Next, vars
<1> QED
  BY TypeCorrect, <1>1, PTL DEF Spec, PowerHandedDown

-----------------------------------------------------------------------------
(* A ban holds.                                                            *)

\* An accepted event that lifts a ban comes from somebody who may lift it.
LEMMA BanStep ==
    ASSUME TypeOK, NEW e \in Inputs, Accepted(e), Send(e), NEW u \in Users,
           Membership(u) = "ban", Membership(u)' # "ban"
    PROVE  /\ actor' # u \/ \E t \in Tokens : Given(state.invite[t])
           /\ \/ Membership(actor') = "join" /\ Level(actor') >= CurrentLevels.ban
              \/ \E t \in Tokens : Given(state.invite[t])
<1> DOMAIN e = DOMAIN BlankEvent
  BY InputShape
<1>1. IsMember(e, Empty)
  <2>1. IsLevelEvent(e) \/ IsRule(e) \/ IsInvite(e) => state'.member = state.member
    BY LevelStep, RuleStep, InviteStep
  <2>2. state'.member # state.member
    BY DEF Membership, MembershipIn
  <2> QED
    BY <2>1, <2>2, InputShape
<1>2. state'.member = [state.member EXCEPT ![e.key] = Stored(e)]
  BY <1>1, MemberStep
<1>3. e.key = u
  BY <1>2 DEF TypeOK, Membership, MembershipIn
<1>4. e.membership # "ban"
  <2>1. Stored(e).membership = e.membership /\ Given(Stored(e))
    BY <1>1, StoredFields DEF IsMember, Given
  <2>2. state'.member[u] = Stored(e)
    BY <1>2, <1>3 DEF TypeOK
  <2> QED
    BY <2>1, <2>2 DEF Membership, MembershipIn
<1>5. ~Empty /\ e.first = FALSE
  <2>1. ~Empty
    BY DEF Empty, Membership, MembershipIn
  <2> QED
    BY <1>1, <2>1 DEF IsMember
<1>6. MembershipAllowed(NewContext(state), e)
  <2>1. IsInput(e) /\ e.type = "member"
    BY <1>1 DEF IsInput, IsMember
  <2> QED
    BY <2>1, NeededStep DEF Allowed, AllowedBy
<1>7. CASE e.token # NoToken
  <2>1. Given(state.invite[e.token]) /\ e.token \in Tokens
    BY <1>1, <1>6, <1>7, RoomContext DEF MembershipAllowed, IsMember
  <2> QED
    BY <2>1
<1>8. CASE e.token = NoToken
  <2>1. MembershipIn(state, e.key) = "ban"
    BY <1>3 DEF Membership
  <2>2. ~MembershipAllowedSelf(NewContext(state), e)
    BY <2>1, RoomContext DEF MembershipAllowedSelf
  <2>3. e.sender # e.key /\ MembershipAllowedOther(NewContext(state), e)
    BY <1>5, <1>6, <1>8, <2>2 DEF MembershipAllowed, FirstJoin
  <2>4. Membership(e.sender) = "join" /\ Level(e.sender) >= CurrentLevels.ban
    BY <1>4, <2>1, <2>3, RoomContext DEF MembershipAllowedOther, Membership, Level
  <2> QED
    BY <1>3, <2>3, <2>4 DEF Send
<1> QED
  BY <1>7, <1>8

\* A ban is lifted only by somebody else in the room with the level to ban, or by an
\* invite that answers a third-party invite of the room.
THEOREM BansHold == Spec => BanHolds
<1>1. TypeOK /\ [Next]_vars =>
         [\A u \in Users : Membership(u) = "ban" /\ Membership(u)' # "ban" =>
             /\ actor' # u \/ \E t \in Tokens : Given(state.invite[t])
             /\ \/ Membership(actor') = "join" /\ Level(actor') >= CurrentLevels.ban
                \/ \E t \in Tokens : Given(state.invite[t])]_vars
  BY BanStep DEF Next, vars
<1> QED
  BY TypeCorrect, <1>1, PTL DEF Spec, BanHolds
=============================================================================
