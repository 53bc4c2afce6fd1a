---------------------------- MODULE MCPartySync ----------------------------
(* A page and an agent that follow two rows: the instance of PartySync.     *)
EXTENDS PartySync
=============================================================================
