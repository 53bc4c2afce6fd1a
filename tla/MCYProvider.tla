---------------------------- MODULE MCYProvider ----------------------------
(* Two clients of one room, one of which has everything happen to it: the   *)
(* instances of YProvider.                                                  *)
EXTENDS YProvider

CONSTANTS a, b

MCClients == {a, b}
MCMaxEvents == [c \in MCClients |-> IF c = a THEN 2 ELSE 0]
=============================================================================
