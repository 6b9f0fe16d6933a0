----------------------------- MODULE MCVerifyProxy -----------------------------
(* Instances of VerifyProxy for TLC.                                          *)
EXTENDS VerifyProxy
=============================================================================
