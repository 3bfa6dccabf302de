----------------------------- MODULE MCWsSession -----------------------------
(***************************************************************************)
(* WsSession for TLC: a short conversation.                                *)
(***************************************************************************)
EXTENDS WsSession
=============================================================================
