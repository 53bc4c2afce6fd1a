----------------------------- MODULE MCUseSocket -----------------------------
(* Three sets of options: one differs from the first in its credentials     *)
(* alone, the other in its destination; the instance of UseSocket.          *)
EXTENDS UseSocket

MCOptions ==
  {[destination |-> "room1", query |-> "a", startClosed |-> FALSE],
   [destination |-> "room1", query |-> "b", startClosed |-> FALSE],
   [destination |-> "room2", query |-> "a", startClosed |-> TRUE]}
=============================================================================
