-------------------------- MODULE ReliableDelivery --------------------------
(***************************************************************************)
(* What the outgoing federation queue promises for one destination, with   *)
(* no queue objects, workers, memory, backoff or restarts: an event that   *)
(* was accepted is kept until the destination has received it (at least    *)
(* once), and nothing is sent that was not accepted.                       *)
(***************************************************************************)
CONSTANTS Events, Expirable

VARIABLES accepted,              \* events the queue has taken responsibility for
          stored,                \* events it still remembers
          delivered              \* events the destination has received

vars == <<accepted, stored, delivered>>

Init == accepted = {} /\ stored = {} /\ delivered = {}

\* An event is taken once.
Accept(e) ==
    /\ e \notin accepted
    /\ accepted' = accepted \cup {e}
    /\ stored' = stored \cup {e}
    /\ UNCHANGED delivered

\* A transaction with the events S arrives.
Deliver(S) ==
    /\ S \subseteq accepted
    /\ delivered' = delivered \cup S
    /\ UNCHANGED <<accepted, stored>>

\* Only what has arrived may be forgotten ...
Forget(S) ==
    /\ S \subseteq delivered
    /\ stored' = stored \ S
    /\ UNCHANGED <<accepted, delivered>>

\* ... or what has expired.
Expire(e) ==
    /\ e \in Expirable
    /\ stored' = stored \ {e}
    /\ UNCHANGED <<accepted, delivered>>

Next ==
    \/ \E e \in Events : Accept(e) \/ Expire(e)
    \/ \E S \in SUBSET Events : Deliver(S) \/ Forget(S)

Spec == Init /\ [][Next]_vars

=============================================================================
