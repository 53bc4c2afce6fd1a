-------------------------------- MODULE Link --------------------------------
(***************************************************************************)
(* What a reconnecting WebSocket promises its consumer: a link that comes  *)
(* up and goes down by itself while it is wanted, and takes messages at    *)
(* any time.  Those taken while it is down are buffered; they go out, all  *)
(* of them and first, when it comes up.                                    *)
(***************************************************************************)
EXTENDS Sequences

CONSTANT Messages

VARIABLES
  state,      \* down, trying to come up, or up
  wanted,     \* the consumer has not closed it
  sent,       \* messages taken, in order
  delivered   \* messages handed to the network (or drained), in order

vars == <<state, wanted, sent, delivered>>

Init ==
  /\ state \in {"down", "trying"} /\ wanted = TRUE
  /\ sent = <<>> /\ delivered = <<>>

\* The consumer asks for a new connection, in place of one that is up.
Start ==
  /\ wanted' = TRUE
  /\ state' \in {"down", "trying"}
  /\ UNCHANGED <<sent, delivered>>

\* Only close() makes it unwanted: then it may only come down.
Stop ==
  /\ wanted' = FALSE
  /\ state' \in {state, "down"} \ {"up"}
  /\ UNCHANGED <<sent, delivered>>

\* The network, the timers and the retries.
Try ==
  /\ wanted /\ state = "down" /\ state' = "trying"
  /\ UNCHANGED <<wanted, sent, delivered>>

ComesUp ==
  /\ wanted /\ state = "trying" /\ state' = "up"
  /\ delivered' = sent
  /\ UNCHANGED <<wanted, sent>>

GoesDown ==
  /\ state # "down"
  /\ \/ state' = "down"
     \/ wanted /\ state' = "trying"
  /\ UNCHANGED <<wanted, sent, delivered>>

Take(m) ==
  /\ sent' = Append(sent, m)
  /\ delivered' = IF state = "up" THEN sent' ELSE delivered
  /\ UNCHANGED <<state, wanted>>

Drain ==
  /\ delivered' = sent
  /\ UNCHANGED <<state, wanted, sent>>

Next ==
  \/ Start \/ Stop \/ Try \/ ComesUp \/ GoesDown \/ Drain
  \/ \E m \in Messages : Take(m)

Spec == Init /\ [][Next]_vars
=============================================================================
