--------------------------- MODULE MCAliyunHelper ---------------------------
(* Calls of two workers and health checks for TLC. *)
EXTENDS AliyunHelper
=============================================================================
