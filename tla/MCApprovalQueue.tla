------------------------- MODULE MCApprovalQueue -------------------------
(* One request, two host calls that may be about it at the same time, any   *)
(* number of retries, a time-out and restarts.                              *)
EXTENDS ApprovalQueue
=============================================================================
