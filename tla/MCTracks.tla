----------------------------- MODULE MCTracks -----------------------------
(* One push and one pull over a single peer connection: either the push    *)
(* may be made again often enough to fill a batch and go on, or the pull    *)
(* may be retried and more requests may fail.                               *)
EXTENDS Tracks

Entered(forPush, forPull) ==
  [t \in Streams |-> IF t \in Pushes THEN forPush ELSE forPull]

SomeBounds == {[entries |-> Entered(4, 1), faults |-> 2],
               [entries |-> Entered(2, 2), faults |-> 3]}
=============================================================================
