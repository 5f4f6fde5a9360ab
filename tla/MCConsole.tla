----------------------------- MODULE MCConsole -----------------------------
(* Model values for the console: "status" (a plain command) and "run"      *)
(* (whose reply may be a prompt).                                          *)
EXTENDS Console

CONSTANTS Status, Run, Newline, Period
=============================================================================
