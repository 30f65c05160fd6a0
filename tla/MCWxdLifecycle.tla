--------------------------- MODULE MCWxdLifecycle ---------------------------
(***************************************************************************)
(* WxdLifecycle for TLC: its configurations only set the constants.        *)
(***************************************************************************)
EXTENDS WxdLifecycle
=============================================================================
