---------------------------- MODULE MCConnections ---------------------------
(* The instances of Connections: two sockets and two ids give every reuse  *)
(* of an id and every tag that equals another's id.                        *)
EXTENDS Connections
=============================================================================
