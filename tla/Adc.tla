----------------------------------- MODULE Adc -----------------------------------
(***************************************************************************)
(* The samples of the line (adc.c) and main, which demodulates them.  The  *)
(* interrupt copies BLOCK samples at a time to one of two frames of data   *)
(* and posts SYS_DATA when a frame is complete.  Main then takes the frame *)
(* with AdcGetBuf and works in it, while the interrupt fills the other.  A *)
(* frame has the last ND samples of the one before in front of it.         *)
(*                                                                         *)
(* A sample is its number since AdcStart.  Main starts the ADC when no     *)
(* SYS_DATA of an earlier call is left.                                    *)
(***************************************************************************)
EXTENDS Naturals

CONSTANTS
  NS, ND,      \* samples of a frame, and of the delay in front of it (64, 3)
  BLOCK,       \* samples of an interrupt (16); divides NS
  MaxSamples   \* bound of the model: samples after AdcStart

NF == 2
Old == 0       \* a sample of before AdcStart, or the zero of AdcInit
NoFrame == NF * NS

VARIABLES
  data, dataPos, framePos,
  on,        \* the ADC is on
  time,      \* samples since AdcStart
  posted,    \* SYS_DATA in the queue
  frame,     \* where the frame is that main works in, or NoFrame
  taken,     \* history: frames main has finished, the one it works in not counted
  late       \* history: main lagged a frame behind since AdcStart

vars == <<data, dataPos, framePos, on, time, posted, frame, taken, late>>

Init ==
  /\ data = [i \in 0 .. NF*NS + ND - 1 |-> Old]
  /\ dataPos = 0 /\ framePos = 0
  /\ on = FALSE /\ time = 0 /\ posted = 0
  /\ frame = NoFrame /\ taken = 0 /\ late = FALSE

\* Nothing is cleared: what data holds is Old now.
AdcStart ==
  /\ ~on /\ posted = 0 /\ frame = NoFrame
  /\ on' = TRUE
  /\ dataPos' = ND /\ framePos' = 0
  /\ data' = [i \in DOMAIN data |-> Old] /\ time' = 0
  /\ taken' = 0 /\ late' = FALSE
  /\ UNCHANGED <<posted, frame>>

\* Main stops the ADC between two events, or after a frame that was the last.
AdcStop ==
  /\ on /\ on' = FALSE
  /\ frame = NoFrame
  /\ UNCHANGED <<data, dataPos, framePos, time, posted, frame, taken, late>>

Copied == [i \in DOMAIN data |-> IF i \in dataPos .. dataPos + BLOCK - 1
                                 THEN time + i - dataPos + 1 ELSE data[i]]

\* Fault: the delay of the first frame is not copied.
Restart_NoDelay(d) == d

\* The last values become the delay of the first frame.
Restart(d) == [i \in DOMAIN d |-> IF i < ND THEN d[NF*NS + i] ELSE d[i]]

\* SYS_DATA is posted for the frame at pos.
Complete(pos) ==
  /\ framePos' = pos /\ posted' = posted + 1
  /\ late' = (late \/ posted > 0 \/ frame # NoFrame)

_ADCInterrupt ==
  /\ on /\ time + BLOCK <= MaxSamples
  /\ time' = time + BLOCK
  /\ LET pos == dataPos + BLOCK IN
     CASE pos = ND + NS   -> data' = Copied /\ dataPos' = pos /\ Complete(0)
       [] pos = ND + 2*NS -> data' = Restart(Copied) /\ dataPos' = ND /\ Complete(NS)
       [] OTHER           -> data' = Copied /\ dataPos' = pos
                             /\ UNCHANGED <<framePos, posted, late>>
  /\ UNCHANGED <<on, frame, taken>>

\* Main takes a SYS_DATA: AdcGetBuf, and FskDemod begins; or drops it when the
\* call no longer wants data.
Take ==
  /\ posted > 0 /\ frame = NoFrame
  /\ posted' = posted - 1
  /\ frame' = IF on THEN framePos ELSE NoFrame
  /\ UNCHANGED <<data, dataPos, framePos, on, time, taken, late>>

\* FskDemod is done with the frame.
Demodulated ==
  /\ frame # NoFrame /\ frame' = NoFrame
  /\ taken' = taken + 1
  /\ UNCHANGED <<data, dataPos, framePos, on, time, posted, late>>

Next == AdcStart \/ AdcStop \/ _ADCInterrupt \/ Take \/ Demodulated

Spec == Init /\ [][Next]_vars

\* What main works in: the delay and the samples of a frame.
Working == [i \in 0 .. ND + NS - 1 |-> data[frame + i]]

\* The samples that follow those of the frames before, with the last ND of them.
NextFrame == [i \in 0 .. ND + NS - 1 |->
                IF taken * NS + i < ND THEN Old ELSE taken * NS + i - ND + 1]

\* As long as main is done with a frame before the next is complete, FskDemod gets
\* every sample once, in order and with the right delay in front, and nothing is
\* overwritten under it, over any number of turns around the buffer (adc.c:118-156).
\* When main is late nothing holds: AdcGetBuf gives the newest frame for any event.
EverySampleOnce == frame # NoFrame /\ ~late => Working = NextFrame
================================================================================
