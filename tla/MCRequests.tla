----------------------------- MODULE MCRequests -----------------------------
(* Requests for TLC: one request of every kind, with runs of two chunks.   *)
EXTENDS Requests
=============================================================================
