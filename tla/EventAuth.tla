------------------------------ MODULE EventAuth ------------------------------
(***************************************************************************)
(* The authorisation rules of internal/matrixserver/eventauth.go for the   *)
(* events of one room, with the contents they read (eventcontent.go) and   *)
(* the differences between room versions (eventversion.go).                *)
(*                                                                         *)
(* An event is a record: id, type, sender, key (state key), membership,    *)
(* via (join_authorised_via_users_server), token (the third-party invite   *)
(* it answers), signed (does that invite's signature verify for the key?), *)
(* rule (join rule), levels (power levels), first (has it no previous      *)
(* event but the create event?), domain (of the event it redacts).  Fields *)
(* an event type does not use hold the value of BlankEvent.                *)
(*                                                                         *)
(* An AuthEventProvider is a record of the auth events: create, rule,      *)
(* levels, member (one per user), invite (one per third-party token), each *)
(* an event or NoEvent.  Every event belongs to the one room modelled, so  *)
(* the comparison of room IDs fails only when no create event was given.   *)
(***************************************************************************)
EXTENDS Integers, FiniteSets, Sequences, Functions

CONSTANTS
    Users, NoUser,               \* user IDs; the empty ID
    Tokens, NoToken,             \* tokens of third-party invites
    Domain,                      \* the server of each user
    RoomDomain,                  \* the server in the room ID
    Federate,                    \* m.federate of the create event
    Version,                     \* what the room version switches on
    CreatorLevel                 \* 2^53 - 1, above every level anybody sets

NoKey == "no state key"
Memberships == {"join", "leave", "invite", "ban", "knock"}
JoinRules   == {"public", "invite", "knock", "restricted", "knock_restricted"}
StateTypes  == {"create", "join_rules", "power_levels", "member", "third_party_invite",
                "aliases", "topic"}
MessageTypes == {"message", "redaction"}

ASSUME UsersAssumption == NoUser \notin Users /\ NoToken \notin Tokens
ASSUME DomainAssumption == DOMAIN Domain = Users
ASSUME VersionAssumption ==
    /\ Version \in [knock : BOOLEAN, restricted : BOOLEAN, notifications : BOOLEAN,
                    redaction : BOOLEAN]
    /\ Federate \in BOOLEAN
ASSUME LevelAssumption == CreatorLevel \in Int /\ CreatorLevel >= 100

-----------------------------------------------------------------------------
(* Power level contents.  users and events are partial functions.          *)

Defaults == [invite |-> 0, ban |-> 50, kick |-> 50, redact |-> 50, users_default |-> 0,
             events_default |-> 0, state_default |-> 50, notifications |-> 50,
             users |-> <<>>, events |-> <<>>]

BlankEvent == [id |-> 0, type |-> "message", sender |-> NoUser, key |-> NoKey,
               membership |-> "leave", via |-> NoUser, token |-> NoToken, signed |-> FALSE,
               rule |-> "invite", levels |-> Defaults, first |-> FALSE, domain |-> NoUser]

\* The nil event.
NoEvent == [BlankEvent EXCEPT !.type = "none"]
Given(e) == e.type # "none"

NoAuthEvents == [create |-> NoEvent, rule |-> NoEvent, levels |-> NoEvent,
                 member |-> [u \in Users |-> NoEvent], invite |-> [t \in Tokens |-> NoEvent]]

UserLevel(c, u) == IF u \in DOMAIN c.users THEN c.users[u] ELSE c.users_default

EventLevel(c, type, isState) ==
    IF type = "third_party_invite" THEN c.invite
    ELSE IF type \in DOMAIN c.events THEN c.events[type]
    ELSE IF isState THEN c.state_default ELSE c.events_default

\* NewPowerLevelContentFromAuthEvents: without a power level event the creator has
\* the largest level there is.
LevelsFrom(levelsEvent, creator) ==
    IF Given(levelsEvent) THEN levelsEvent.levels
    ELSE [Defaults EXCEPT !.users = [u \in {creator} |-> CreatorLevel]]

\* Well-formed contents.
IsLevels(c) ==
    /\ DOMAIN c = DOMAIN Defaults
    /\ \A f \in DOMAIN Defaults \ {"users", "events"} : c[f] \in Int
    /\ \A u \in DOMAIN c.users : c.users[u] \in Int
    /\ \A t \in DOMAIN c.events : c.events[t] \in Int

MembershipIn(s, u) == IF Given(s.member[u]) THEN s.member[u].membership ELSE "leave"

-----------------------------------------------------------------------------
(* accumulateStateNeeded: the state an event is authorised against.        *)

\* Mutant: the user who authorises a restricted join is not asked for.
StateNeeded_NoVia(e) ==
    LET member == e.type = "member"
    IN  [create  |-> e.type # "create",
         levels  |-> e.type \notin {"create", "aliases"},
         rule    |-> member /\ e.membership \in {"join", "knock", "invite"},
         member  |-> IF e.type \in {"create", "aliases"} THEN {}
                     ELSE {e.sender} \cup (IF member THEN {e.key} ELSE {}),
         invite  |-> IF member THEN {e.token} \ {NoToken} ELSE {}]

StateNeeded(e) ==
    LET member == e.type = "member"
    IN  [create  |-> e.type # "create",
         levels  |-> e.type \notin {"create", "aliases"},
         rule    |-> member /\ e.membership \in {"join", "knock", "invite"},
         member  |-> IF e.type \in {"create", "aliases"} THEN {}
                     ELSE {e.sender} \cup (IF member THEN {e.key, e.via} \ {NoUser} ELSE {}),
         invite  |-> IF member THEN {e.token} \ {NoToken} ELSE {}]

\* AuthEventReferences: what of the state s goes into the auth events of e.
AuthEventsOf(e, s) ==
    LET n == StateNeeded(e)
    IN  [create |-> IF n.create THEN s.create ELSE NoEvent,
         rule   |-> IF n.rule THEN s.rule ELSE NoEvent,
         levels |-> IF n.levels THEN s.levels ELSE NoEvent,
         member |-> [u \in Users |-> IF u \in n.member THEN s.member[u] ELSE NoEvent],
         invite |-> [t \in Tokens |-> IF t \in n.invite THEN s.invite[t] ELSE NoEvent]]

\* Mutant: the join rules are filed under the key of the create event.
AddEvent_Key(p, e) ==
    CASE e.type \in {"create", "join_rules"} -> [p EXCEPT !.create = e]
      [] e.type = "power_levels"       -> [p EXCEPT !.levels = e]
      [] e.type = "member"             -> [p EXCEPT !.member[e.key] = e]
      [] e.type = "third_party_invite" -> [p EXCEPT !.invite[e.key] = e]
      [] OTHER                         -> p

\* AuthEvents.AddEvent: the event replaces the one with its type and state key; only auth
\* events can be asked for again.
AddEvent(p, e) ==
    CASE e.type = "create"             -> [p EXCEPT !.create = e]
      [] e.type = "join_rules"         -> [p EXCEPT !.rule = e]
      [] e.type = "power_levels"       -> [p EXCEPT !.levels = e]
      [] e.type = "member"             -> [p EXCEPT !.member[e.key] = e]
      [] e.type = "third_party_invite" -> [p EXCEPT !.invite[e.key] = e]
      [] OTHER                         -> p

-----------------------------------------------------------------------------
(* allowerContext: the create event and the parsed power levels and join   *)
(* rule, each read again only when the provider's event has changed.       *)

EmptyContext == [provider |-> NoAuthEvents, create |-> NoEvent,
                 levelsEvent |-> NoEvent, levels |-> Defaults,
                 ruleEvent |-> NoEvent, rule |-> "invite"]

Update(a, s) ==
    LET create == IF Given(s.create) THEN s.create ELSE a.create
        creator == IF Given(create) THEN create.sender ELSE NoUser
    IN  [provider |-> s,
         create |-> create,
         levelsEvent |-> s.levels,
         levels |-> IF ~Given(a.levelsEvent) \/ a.levelsEvent # s.levels
                    THEN LevelsFrom(s.levels, creator) ELSE a.levels,
         ruleEvent |-> s.rule,
         rule |-> IF Given(a.ruleEvent) /\ a.ruleEvent = s.rule THEN a.rule
                  ELSE IF Given(s.rule) THEN s.rule.rule ELSE "invite"]

NewContext(s) == Update(EmptyContext, s)

DomainAllowed(a, domain) == Federate \/ domain = Domain[a.create.sender]

-----------------------------------------------------------------------------
(* Events other than create, aliases and member.                           *)

CommonChecks(a, e) ==
    /\ Given(a.create)
    /\ DomainAllowed(a, Domain[e.sender])
    /\ MembershipIn(a.provider, e.sender) = "join"
    /\ UserLevel(a.levels, e.sender) >= EventLevel(a.levels, e.type, e.key # NoKey)
    /\ e.key \in Users => e.key = e.sender

\* May a sender of this level change a level from old to new?
MayChange(level, old, new) == old = new \/ (level >= new /\ level >= old)

CheckEventLevels(level, old, new) ==
    /\ \A f \in {"ban", "invite", "kick", "redact", "state_default", "events_default"} :
          MayChange(level, old[f], new[f])
    /\ \A t \in DOMAIN old.events \cup DOMAIN new.events :
          MayChange(level, EventLevel(old, t, FALSE), EventLevel(new, t, FALSE))

CheckNotificationLevels(level, old, new) ==
    \/ ~Version.notifications
    \/ old.notifications = new.notifications
    \/ level >= new.notifications /\ level > old.notifications

\* Mutant: only the old level is compared with the sender's.
CheckUserLevels_Old(level, sender, old, new) ==
    \A u \in DOMAIN old.users \cup DOMAIN new.users :
        UserLevel(old, u) = UserLevel(new, u) \/ u = sender \/ level > UserLevel(old, u)

CheckUserLevels(level, sender, old, new) ==
    \A u \in DOMAIN old.users \cup DOMAIN new.users :
        \/ UserLevel(old, u) = UserLevel(new, u)
        \/ /\ level >= UserLevel(new, u)
           /\ u = sender \/ level > UserLevel(old, u)

PowerLevelsEventAllowed(a, e) ==
    LET level == UserLevel(a.levels, e.sender)
    IN  /\ CommonChecks(a, e)
        /\ CheckEventLevels(level, a.levels, e.levels)
        /\ CheckNotificationLevels(level, a.levels, e.levels)
        /\ CheckUserLevels(level, e.sender, a.levels, e.levels)

RedactEventAllowed(a, e) ==
    /\ CommonChecks(a, e)
    /\ \/ Version.redaction
       \/ e.domain = Domain[e.sender]
       \/ UserLevel(a.levels, e.sender) >= a.levels.redact

AliasEventAllowed(a, e) ==
    /\ Given(a.create)
    /\ DomainAllowed(a, Domain[e.sender])
    /\ e.key = Domain[e.sender]

-----------------------------------------------------------------------------
(* Membership events.                                                      *)

\* membershipAllowedSelfForRestrictedJoin: the join rule to go on with, or "error".
RestrictedJoin(a, e) ==
    LET s == a.provider
    IN  IF ~Version.restricted THEN "error"
        ELSE IF MembershipIn(s, e.key) \in {"join", "invite"} \/ e.via = NoUser THEN "invite"
        ELSE IF /\ Given(s.member[e.via])
                /\ MembershipIn(s, e.via) = "join"
                /\ UserLevel(a.levels, e.via) >= a.levels.invite
             THEN "public" ELSE "error"

JoinAllowed(a, e) ==
    LET old  == MembershipIn(a.provider, e.key)
        restricted == a.rule \in {"restricted", "knock_restricted"}
        rule == IF restricted THEN RestrictedJoin(a, e) ELSE a.rule
    IN  /\ rule # "error"
        /\ \/ restricted /\ rule = "public"
           \/ old \in {"invite", "join"}
           \/ old = "leave" /\ rule = "public"

KnockAllowed(a, e) ==
    /\ Version.knock
    /\ a.rule \in {"knock", "knock_restricted"}
    /\ MembershipIn(a.provider, e.key) \notin {"join", "invite", "ban"}

\* Mutant: a ban is not looked at before the join rule.
MembershipAllowedSelf_Banned(a, e) ==
    LET old == MembershipIn(a.provider, e.key)
    IN  \/ e.membership = "knock" /\ KnockAllowed(a, e)
        \/ e.membership = "join" /\ JoinAllowed(a, e)
        \/ e.membership = "leave" /\ old \in {"join", "invite", "knock", "leave"}

MembershipAllowedSelf(a, e) ==
    LET old == MembershipIn(a.provider, e.key)
    IN  \/ old = "leave" /\ e.membership = "leave"
        \/ /\ old # "ban"
           /\ \/ e.membership = "knock" /\ KnockAllowed(a, e)
              \/ e.membership = "join" /\ JoinAllowed(a, e)
              \/ e.membership = "leave" /\ old \in {"join", "invite", "knock"}

MembershipAllowedOther(a, e) ==
    LET old    == MembershipIn(a.provider, e.key)
        sender == UserLevel(a.levels, e.sender)
        target == UserLevel(a.levels, e.key)
    IN  /\ MembershipIn(a.provider, e.sender) = "join"
        /\ \/ e.membership = "ban" /\ sender >= a.levels.ban /\ sender > target
           \/ e.membership = "leave" /\ old = "ban" /\ sender >= a.levels.ban
           \/ /\ e.membership = "leave" /\ old # "ban"
              /\ sender >= a.levels.kick /\ sender > target
           \/ /\ e.membership = "invite" /\ sender >= a.levels.invite
              /\ old \notin {"join", "ban"}

\* The creator's join right after the create event.
FirstJoin(a, e) == /\ e.key = a.create.sender /\ e.sender = e.key
                   /\ e.membership = "join" /\ e.first

MembershipAllowed(a, e) ==
    /\ e.token # NoToken => Given(a.provider.invite[e.token])
    /\ Given(a.create)
    /\ DomainAllowed(a, Domain[e.sender])
    /\ IF FirstJoin(a, e) THEN TRUE
       ELSE IF e.membership = "invite" /\ e.token # NoToken THEN e.signed
       ELSE IF e.key = e.sender THEN MembershipAllowedSelf(a, e)
       ELSE MembershipAllowedOther(a, e)

-----------------------------------------------------------------------------
(* allowerContext.allowed                                                  *)

CreateEventAllowed(e) == e.key = "" /\ e.first /\ Domain[e.sender] = RoomDomain

AllowedBy(a, e) ==
    CASE e.type = "create"       -> CreateEventAllowed(e)
      [] e.type = "aliases"      -> AliasEventAllowed(a, e)
      [] e.type = "member"       -> MembershipAllowed(a, e)
      [] e.type = "power_levels" -> PowerLevelsEventAllowed(a, e)
      [] e.type = "redaction"    -> RedactEventAllowed(a, e)
      [] OTHER                   -> CommonChecks(a, e)

\* The membership allower embeds a pointer to the context: what the check of a
\* restricted join puts in its join rule stays there for the next event.
RuleAfter(a, e) ==
    IF /\ e.type = "member" /\ e.membership = "join" /\ e.key = e.sender
       /\ Given(a.create) /\ DomainAllowed(a, Domain[e.sender])
       /\ e.token # NoToken => Given(a.provider.invite[e.token])
       /\ ~FirstJoin(a, e)
       /\ MembershipIn(a.provider, e.key) # "ban"
       /\ a.rule \in {"restricted", "knock_restricted"}
       /\ RestrictedJoin(a, e) # "error"
    THEN RestrictedJoin(a, e) ELSE a.rule

\* Allowed: with a context of its own.
Allowed(e, s) == AllowedBy(NewContext(s), e)
=============================================================================
