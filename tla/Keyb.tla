----------------------------------- MODULE Keyb -----------------------------------
(***************************************************************************)
(* The keys (keyb.c): a change of a pin raises CNIF, and the CN interrupt  *)
(* finds out which pins have gone down since the last time.  It reads the  *)
(* ports first and clears CNIF last, and the pins move when they like.     *)
(***************************************************************************)
CONSTANT Keys   \* up or left, down or right, enter, esc

VARIABLES
  pins,      \* the keys that are down
  lastP,     \* lastPA, lastPB, lastPD: the keys that were down
  CNIF, CNIE,   \* the interrupt is pending, and enabled
  pc,        \* "run", "enable": in KeybIntsEnable, or "isr"
  curr,      \* what the interrupt has read
  posted,    \* the keys whose SYS_KEY the last interrupt put in the queue
  fresh,     \* history: keys that went down, with no SYS_KEY since
  twice,     \* history: keys in posted that were not fresh
  missed     \* history: keys that moved after the ports were last read, in the
             \* interrupt or in KeybIntsEnable, and before CNIF was cleared

vars == <<pins, lastP, CNIF, CNIE, pc, curr, posted, fresh, twice, missed>>

Init ==
  /\ pins = {} /\ lastP = {}
  /\ CNIF = FALSE /\ CNIE = FALSE
  /\ pc = "run" /\ curr = {}
  /\ posted = {} /\ fresh = {} /\ twice = {} /\ missed = {}

Differ(a, b) == (a \ b) \cup (b \ a)

\* A key goes down or up.
Move(k) ==
  /\ pins' = Differ(pins, {k})
  /\ fresh' = IF k \in pins THEN fresh ELSE fresh \cup {k}
  /\ CNIF' = TRUE
  /\ missed' = IF pc = "run" THEN missed ELSE Differ(missed, {k})
  /\ UNCHANGED <<lastP, CNIE, pc, curr, posted, twice>>

\* The ports are read, then CNIF is cleared and the interrupt enabled.
EnableRead ==
  /\ pc = "run" /\ ~CNIE
  /\ pc' = "enable" /\ lastP' = pins
  /\ fresh' = {} /\ missed' = {}
  /\ UNCHANGED <<pins, CNIF, CNIE, curr, posted, twice>>

EnableDone ==
  /\ pc = "enable" /\ pc' = "run"
  /\ CNIF' = FALSE /\ CNIE' = TRUE
  /\ UNCHANGED <<pins, lastP, curr, posted, fresh, twice, missed>>

CNInterrupt ==
  /\ pc = "run" /\ CNIE /\ CNIF
  /\ pc' = "isr" /\ curr' = pins /\ missed' = {}
  /\ UNCHANGED <<pins, lastP, CNIF, CNIE, posted, fresh, twice>>

\* Fault: the keys of every interrupt count as pressed, also those held down.
Pressed_Held == curr

Pressed == curr \ lastP

\* The callbacks of the keys that were pressed, and the end of the interrupt.
CNReturn ==
  /\ pc = "isr" /\ pc' = "run"
  /\ posted' = Pressed
  /\ fresh' = fresh \ Pressed /\ twice' = Pressed \ fresh
  /\ lastP' = curr /\ curr' = {} /\ CNIF' = FALSE
  /\ UNCHANGED <<pins, CNIE, missed>>

Next == (\E k \in Keys : Move(k)) \/ EnableRead \/ EnableDone \/ CNInterrupt \/ CNReturn

Spec == Init /\ [][Next]_vars

\* A press is never reported twice, whatever the keys do (a key held while others
\* move, a key that bounces), and when no interrupt is pending or running, the only
\* keys the program is wrong about are those that moved in the window between the
\* reading of the ports and the clearing of CNIF (keyb.c:160, 206).
ReportsOnce ==
  /\ twice = {}
  /\ pc = "run" /\ CNIE /\ ~CNIF => Differ(pins, lastP) = missed
===================================================================================
