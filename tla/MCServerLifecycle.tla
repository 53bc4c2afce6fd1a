------------------------- MODULE MCServerLifecycle --------------------------
(***************************************************************************)
(* Model values for checking ServerLifecycle with TLC.                     *)
(***************************************************************************)
EXTENDS ServerLifecycle
=============================================================================
