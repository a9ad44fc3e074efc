----------------------------- MODULE MCPeripherals -----------------------------
(***************************************************************************)
(* The devices of MCDevices and the player of the message (RawPlay), whose *)
(* interrupts come between two steps of main.  They share no state either, *)
(* and run one at a time: the player is one unit more.                     *)
(***************************************************************************)
EXTENDS MCDevices, RawPlay

PeripheralsInit ==
  \/ Init /\ RawPlayInit /\ fileLen = 0
  \/ /\ unit = "player" /\ RawPlayInit
     /\ Clock!Init /\ Card!Init /\ Line!Init /\ Pad!Init /\ Panel!Init

\* RawPlayFile has returned, or is in Idle() and no interrupt asks for data.
PlayerRests ==
  /\ pc = "Done" \/ (pc = "Loop" /\ ~timerOn /\ ~readNext)
  /\ UNCHANGED rawPlayVars

PeripheralsNext ==
  \/ Next /\ UNCHANGED rawPlayVars
  \/ unit = "player" /\ (RawPlayNext \/ PlayerRests) /\ UNCHANGED vars

\* The fairness of RawPlayFairSpec for the player.
PeripheralsSpec ==
  /\ PeripheralsInit /\ [][PeripheralsNext]_<<vars, rawPlayVars>>
  /\ Fairness
  /\ WF_rawPlayVars(unit = "player" /\ Main /\ UNCHANGED vars)
  /\ WF_rawPlayVars(unit = "player" /\ TyInterrupt /\ UNCHANGED vars)

\* rawplay.c:143-176: RawPlayFile returns, unless the SD card was too slow for the PWM.
PlayerReturns == []<>(unit = "player" => pc = "Done" \/ underrun)
================================================================================
