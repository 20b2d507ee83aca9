--------------------------- MODULE MCFfiHandle ---------------------------
(* Two requests, one transfer query, one change of the event callback.      *)
EXTENDS FfiHandle
=============================================================================
