------------------------------ MODULE MCYSync -------------------------------
(***************************************************************************)
(* Model values for checking YSync with TLC: the first client makes two    *)
(* updates, so that one can arrive before the other.                       *)
(***************************************************************************)
EXTENDS YSync, TLC

CONSTANTS c1, c2

MCClients == {c1, c2}
MCMaxEdits == c1 :> 2 @@ c2 :> 1
=============================================================================
