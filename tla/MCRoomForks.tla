----------------------------- MODULE MCRoomForks -----------------------------
EXTENDS RoomForks, TLC
MCSymmetry == Permutations(Branches)
MCUsers == {"a", "b", "c", "d"}
MCDomain == [u \in MCUsers |-> "s1"]
MCVersion == [knock |-> TRUE, restricted |-> TRUE, notifications |-> TRUE, redaction |-> TRUE]
MCOrder == <<"a", "b", "c", "d">>
Ev(type, sender, key) == [BlankEvent EXCEPT !.type = type, !.sender = sender, !.key = key]
Mem(sender, key, m) == [Ev("member", sender, key) EXCEPT !.membership = m]
Via(u, v) == [Mem(u, u, "join") EXCEPT !.via = v]
Lev(sender, users) == [Ev("power_levels", sender, "") EXCEPT !.levels = [Defaults EXCEPT !.users = users]]
Rul(sender, r) == [Ev("join_rules", sender, "") EXCEPT !.rule = r]
MCHistory == <<
   [Ev("create", "a", "") EXCEPT !.first = TRUE],
   [Mem("a", "a", "join") EXCEPT !.first = TRUE],
   Lev("a", [u \in {"a", "b"} |-> IF u = "a" THEN 100 ELSE 50]),
   Rul("a", "restricted"),
   Via("b", "a"),
   Via("c", "a"), Mem("c", "c", "leave"),
   Via("d", "a"), Mem("d", "d", "leave") >>
MCTemplates == {
   Mem("a", "b", "ban"), Via("c", "a"), Via("d", "b"), Mem("b", "c", "ban"),
   Lev("a", [u \in {"a"} |-> 100]), Rul("b", "public") }
=============================================================================
