------------------------------ MODULE MCH2Bridge ------------------------------
(* Small bodies and windows for TLC. *)
EXTENDS H2Bridge
===============================================================================
