------------------------------- MODULE MCCbuf -------------------------------
(***************************************************************************)
(* Cbuf for TLC: its configurations only set the constants.                *)
(***************************************************************************)
EXTENDS Cbuf
=============================================================================
