---------------------------------- MODULE Fsk ----------------------------------
(***************************************************************************)
(* The decisor of the FSK demodulator (fsk_dem.c): it finds the start bit  *)
(* of a character in the filtered samples, samples each bit in its middle, *)
(* and stores the character when it sees the stop bit.                     *)
(*                                                                         *)
(* A sample is above, below or at the threshold d.thr; the adaptation of   *)
(* the threshold, the filter and the dephasor are left out.  The line, not *)
(* part of the program, is noise, or silence, or mark, or a character with *)
(* edges up to Jitter samples early or late.                               *)
(***************************************************************************)
EXTENDS Naturals, Sequences

CONSTANTS
  NS,                     \* samples in a frame (64)
  FSK_SPB,                \* samples in a bit (6)
  FSK_NO_CARRIER_CYCLES,  \* 60
  NBits,                  \* bits of a character (8)
  Jitter                  \* of the edges, in samples

ASSUME FskAssumption ==
  /\ {NS, FSK_SPB, FSK_NO_CARRIER_CYCLES, NBits} \subseteq Nat \ {0}
  /\ FSK_SPB > 4
  /\ Jitter \in Nat

\* Edges that leave four samples of the start bit alone, and the middle of each bit
\* from its fourth sample on (two samples, a third of a bit, in the code).
ASSUME EdgesAssumption == Jitter <= 3 /\ Jitter + 4 <= FSK_SPB

\* The least samples of a character: four of the start bit, its bits, five of the stop
\* bit.  They are fewer than the NBits + 2 bits that recvBuf is sized with (57 and 60
\* in the code), so that it depends on the length of a frame that this is enough.
LeastSamples == NBits * FSK_SPB + 9
ASSUME FrameAssumption == (NS - 1) \div LeastSamples <= (NS \div FSK_SPB) \div (NBits + 2)

VARIABLES
  i,         \* index in the frame
  stat, count, nBit, noCarrier, recvVal,
  tmpChar,   \* the character that is being received
  nChar,     \* characters stored since the frame began
  phase,     \* what the line carries
  p,         \* samples since the character on the line began
  k,         \* the bit it is in: 0 is the start bit, NBits + 1 the stop bit
  sent,      \* its bits
  got,       \* history: the characters stored since it began
  ready      \* history: the decisor was waiting for it

lineVars == <<phase, p, k, sent, ready>>
fskVars == <<i, stat, count, nBit, noCarrier, recvVal, tmpChar, nChar, lineVars, got>>

Bit == {0, 1}
Chars == [0..NBits-1 -> Bit]
Zero == [b \in 0..NBits-1 |-> 0]
RecvBufLen == (NS \div FSK_SPB) \div (NBits + 2) + 1   \* recvBuf in main.c

\* FskDemodInit; recvVal is zero from the start of the program.
FskInit ==
  /\ i = 0 /\ stat = "DEC_WAIT_START" /\ count = 0 /\ nBit = 0
  /\ noCarrier = 3 /\ recvVal = 0 /\ tmpChar = Zero /\ nChar = 0
  /\ phase = "noise" /\ p = 0 /\ k = 0 /\ sent = Zero /\ got = <<>> /\ ready = FALSE

--------------------------------------------------------------------------------
(***************************************************************************)
(* One sample: FskDecisor's loop.                                          *)
(***************************************************************************)
\* nChar begins at zero in every frame.  got is kept for the character on the
\* line only.
Stored(n) ==
  /\ nChar' = (IF i = 0 THEN 0 ELSE nChar) + n
  /\ got' = IF n = 1 /\ phase = "char" THEN Append(got, tmpChar) ELSE got

\* Fault: one sample is enough for a start bit.
WaitStart_OneSample(v) ==
  /\ Stored(0)
  /\ IF v = 1 THEN UNCHANGED <<stat, count, nBit, tmpChar>>
     ELSE stat' = "DEC_DATA_RECV" /\ count' = 0 /\ nBit' = 0 /\ tmpChar' = Zero

\* Four samples of zero are a start bit.
WaitStart(v) ==
  /\ Stored(0)
  /\ IF v = 1 THEN count' = 0 /\ UNCHANGED <<stat, nBit, tmpChar>>
     ELSE IF count + 1 < 4 THEN count' = count + 1 /\ UNCHANGED <<stat, nBit, tmpChar>>
     ELSE stat' = "DEC_DATA_RECV" /\ count' = 0 /\ nBit' = 0 /\ tmpChar' = Zero

\* Every FSK_SPB samples is a bit.
DataRecv(v) ==
  /\ Stored(0)
  /\ IF count + 1 # FSK_SPB THEN count' = count + 1 /\ UNCHANGED <<stat, nBit, tmpChar>>
     ELSE /\ tmpChar' = [tmpChar EXCEPT ![nBit] = v]
          /\ nBit' = nBit + 1
          /\ count' = 0
          /\ stat' = IF nBit' = NBits THEN "DEC_WAIT_STOP" ELSE stat

\* Fault: no stop bit is waited for.
WaitStop_AtOnce(v) ==
  /\ stat' = "DEC_WAIT_START" /\ count' = 0
  /\ Stored(1)
  /\ UNCHANGED <<nBit, tmpChar>>

\* The stop bit is looked for from the fifth sample to the tenth.
WaitStop(v) ==
  /\ UNCHANGED <<nBit, tmpChar>>
  /\ IF count + 1 <= 4 THEN count' = count + 1 /\ UNCHANGED stat /\ Stored(0)
     ELSE IF count + 1 > FSK_SPB + 4
       THEN stat' = "DEC_WAIT_START" /\ count' = 0 /\ Stored(0)
     ELSE IF v = 1
       THEN /\ stat' = "DEC_WAIT_START" /\ count' = 0
            /\ Stored(1)
     ELSE count' = count + 1 /\ UNCHANGED stat /\ Stored(0)

Decide(v) ==
  \/ stat = "DEC_WAIT_START" /\ WaitStart(v)
  \/ stat = "DEC_DATA_RECV" /\ DataRecv(v)
  \/ stat = "DEC_WAIT_STOP" /\ WaitStop(v)

\* A sample at the threshold repeats the value of the last one; too many of them
\* are the loss of the carrier.
Sample(v) ==
  /\ i' = (i + 1) % NS
  /\ IF v # "equal"
       THEN /\ noCarrier' = 0
            /\ recvVal' = IF v = "above" THEN 0 ELSE 1
            /\ Decide(recvVal')
     ELSE IF noCarrier + 1 < FSK_NO_CARRIER_CYCLES
       THEN noCarrier' = noCarrier + 1 /\ UNCHANGED recvVal /\ Decide(recvVal)
     ELSE /\ noCarrier' = FSK_NO_CARRIER_CYCLES
          /\ IF noCarrier = FSK_NO_CARRIER_CYCLES
               THEN stat' = "DEC_WAIT_START" /\ count' = 0
               ELSE UNCHANGED <<stat, count>>
          /\ Stored(0)
          /\ UNCHANGED <<recvVal, nBit, tmpChar>>

--------------------------------------------------------------------------------
(***************************************************************************)
(* The line.                                                               *)
(***************************************************************************)
demVars == <<i, stat, count, nBit, noCarrier, recvVal, tmpChar, nChar>>
CharLen == FSK_SPB * (NBits + 2)

Noise ==
  /\ phase = "noise"
  /\ \E v \in {"above", "below", "equal"} : Sample(v)
  /\ UNCHANGED lineVars

Mark ==
  /\ phase = "mark"
  /\ Sample("below")
  /\ UNCHANGED lineVars

Level(b) == IF b = 0 THEN 0 ELSE IF b = NBits + 1 THEN 1 ELSE sent[b - 1]

\* The next edge may come as soon as, and must come when, it is Jitter away.
CharSample ==
  /\ phase = "char" /\ p < CharLen
  /\ \E b \in {k, k + 1} :
       /\ b = k => (k = NBits + 1 \/ p < FSK_SPB * (k + 1) + Jitter)
       /\ b = k + 1 => k <= NBits /\ p + Jitter >= FSK_SPB * (k + 1)
       /\ k' = b
       /\ Sample(IF Level(b) = 0 THEN "above" ELSE "below")
  /\ p' = p + 1
  /\ UNCHANGED <<phase, sent, ready>>

Between == phase # "char" \/ p = CharLen

\* Characters follow mark, or another character.
Begin ==
  /\ Between /\ phase # "noise"
  /\ phase' = "char" /\ p' = 0 /\ k' = 0 /\ got' = <<>>
  /\ sent' \in Chars
  /\ ready' = (stat = "DEC_WAIT_START" /\ count = 0)
  /\ UNCHANGED demVars

Change ==
  /\ Between
  /\ phase' \in {"noise", "mark"} \ {phase}
  /\ p' = 0 /\ k' = 0 /\ sent' = Zero /\ got' = <<>> /\ ready' = FALSE
  /\ UNCHANGED demVars

\* A new call: FskReset.  recvVal, nBit and tmpChar are not reset.
FskDemodInit ==
  /\ phase = "noise"
  /\ stat' = "DEC_WAIT_START" /\ count' = 0 /\ noCarrier' = 3
  /\ i' = 0
  /\ UNCHANGED <<nBit, recvVal, tmpChar, nChar, lineVars, got>>

FskNext == Noise \/ Mark \/ CharSample \/ Begin \/ Change \/ FskDemodInit

FskSpec == FskInit /\ [][FskNext]_fskVars

--------------------------------------------------------------------------------
\* fsk_dem.c:185-193, main.c:164: whatever the line carries, a frame yields no
\* more characters than recvBuf has room for.
FitsInRecvBuf == nChar <= RecvBufLen

\* fsk_dem.c:228-288: a character that begins when the decisor waits for one is
\* received once and without error, though its edges come up to a third of a bit
\* early or late, whatever came before it, and wherever it lies in the frames.
DecodesWhatIsSent == (phase = "char" /\ p = CharLen /\ ready) => got = <<sent>>
================================================================================
