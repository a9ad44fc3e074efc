------------------------------- MODULE MCRawPlay -------------------------------
(* The player alone, against what rawplay.c says of its function.          *)
EXTENDS RawPlay
================================================================================
