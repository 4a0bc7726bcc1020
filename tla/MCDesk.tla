------------------------------- MODULE MCDesk -------------------------------
(* Instance of Desk for TLC. *)
EXTENDS Desk, MCDeskData
=============================================================================
