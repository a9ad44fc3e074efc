------------------------------ MODULE CallScreen -------------------------------
(***************************************************************************)
(* What the device promises to do with an incoming call, with no word of   *)
(* queues, timers or interrupts: it listens after the first ring, seizes   *)
(* the line only for a call it rejects, releases it before the call ends,  *)
(* and stops listening before it takes another call.  The states are those *)
(* of SysStat (system.h:38-45).                                            *)
(***************************************************************************)
VARIABLES stage, offHook, listening

vars == <<stage, offHook, listening>>

Stages == {"idle", "ringing", "listening", "passed", "seized"}

Init == stage = "idle" /\ offHook = FALSE /\ listening = FALSE

Ring == stage = "idle" /\ stage' = "ringing" /\ UNCHANGED <<offHook, listening>>

Listen ==
  /\ stage = "ringing" /\ stage' = "listening"
  /\ listening' = TRUE
  /\ UNCHANGED offHook

\* Permitted, or no caller ID: the call is left to ring.  The ADC may go on.
Pass ==
  /\ stage = "listening" /\ stage' = "passed"
  /\ listening' \in {listening, FALSE}
  /\ UNCHANGED offHook

Seize ==
  /\ stage = "listening" /\ stage' = "seized"
  /\ offHook' = TRUE
  /\ listening' = FALSE

Release ==
  /\ stage = "seized" /\ offHook
  /\ offHook' = FALSE
  /\ UNCHANGED <<stage, listening>>

StopListening ==
  /\ stage = "passed" /\ listening
  /\ listening' = FALSE
  /\ UNCHANGED <<stage, offHook>>

Finish ==
  /\ stage \in {"passed", "seized"} /\ ~offHook /\ ~listening
  /\ stage' = "idle"
  /\ UNCHANGED <<offHook, listening>>

Next == Ring \/ Listen \/ Pass \/ Seize \/ Release \/ StopListening \/ Finish

Spec == Init /\ [][Next]_vars
================================================================================
