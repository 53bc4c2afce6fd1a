------------------------ MODULE MCReconnectingSocket ------------------------
(* The instances of ReconnectingSocket.  Messages are sent at most once,    *)
(* so three of them overfill a buffer of two.                               *)
EXTENDS ReconnectingSocket
=============================================================================
