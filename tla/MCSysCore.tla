------------------------------- MODULE MCSysCore -------------------------------
(***************************************************************************)
(* Small instances of SysCore, and the schedule of a prompt processor.     *)
(***************************************************************************)
EXTENDS SysCore

\* The parts of main that take longer than the time between two interrupts:
\* the user interface and the configuration file, the log file, the message.
Slow == cpu # "run" \/ pc \in {"KeyUif", "Permit", "Play"}

\* Everything else takes no time at all: no interrupt comes in between.  What
\* goes wrong under this schedule needs no unlikely timing to go wrong.
PromptNext == Main \/ Playback \/ (Slow /\ Isr) \/ Undefined

PromptSpec == Init /\ [][PromptNext]_vars
================================================================================
