---------------------------- MODULE MCRoomInput ----------------------------
EXTENDS RoomInput

\* a and b follow the create event on two branches, c follows both.
MCEvents == {"root", "a", "b", "c"}
MCPrev == [e \in MCEvents |-> CASE e = "root" -> {} [] e = "c" -> {"a", "b"}
                                [] OTHER -> {"root"}]

In(e, kind, state, sync) == [ev |-> e, kind |-> kind, hasState |-> state, sync |-> sync]
MCInputs == {In("a", "new", FALSE, TRUE), In("c", "new", FALSE, FALSE),
             In("a", "outlier", FALSE, FALSE), In("a", "new", TRUE, FALSE)}
MCOneInput == {In("a", "new", FALSE, FALSE)}
=============================================================================
