--------------------------- MODULE MCResponseStream ---------------------------
(* Streams of every protocol for TLC. *)
EXTENDS ResponseStream
=============================================================================
