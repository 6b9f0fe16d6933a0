----------------------------- MODULE MCExchange -----------------------------
(* Instances of Exchange for TLC.                                           *)
EXTENDS Exchange

AllFramings == {"chunked", "length", "close", "h2"}
Good == {"good"}
=============================================================================
