----------------------------- MODULE MCStreaming -----------------------------
(* Model-checking instances of Streaming.                                   *)
EXTENDS Streaming
=============================================================================
