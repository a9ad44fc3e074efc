-------------------------------- MODULE RawPlay --------------------------------
(***************************************************************************)
(* Playing the message: RawPlayFile (rawplay.c) fills two buffers from the *)
(* SD card in turn while the PWM interrupt (pwmplay.c) plays the other one *)
(* and asks for the next through DataReadCallback.                         *)
(*                                                                         *)
(* A sample is its offset in the file.  One PWM step stands for the four   *)
(* interrupts that output a sample and its interpolations.  Main's code    *)
(* between two reads takes no time: it is woken from Idle() by the very    *)
(* interrupt that asks for data and has a whole buffer of samples (64 ms)  *)
(* to start the read.  f_read itself may take any time.                    *)
(***************************************************************************)
EXTENDS Naturals, Sequences

CONSTANTS
  RAWP_BUF_NS,  \* samples in a buffer
  MaxLen        \* bound of the model: longest file

ASSUME BufAssumption == RAWP_BUF_NS \in Nat \ {0}
ASSUME LenAssumption == MaxLen \in Nat

VARIABLES
  pc,        \* where RawPlayFile is
  result,    \* what it returned
  fileLen,   \* length of the file
  fptr,      \* FatFs file pointer
  buf,       \* the two buffers
  frm,       \* the buffer main filled last, or is filling
  readed,    \* length of the last read
  readNext,  \* a buffer has been asked for
  play,      \* RawPlayFile goes on
  timerOn,   \* the PWM interrupt is running
  pb,        \* [b, bLen, i]: buffer being played, its length, the position
  out,       \* history: the samples output so far
  underrun   \* history: the PWM asked for data before it had been read

fileVars == <<fileLen, fptr, buf, frm, readed>>
playVars == <<timerOn, pb, out, underrun>>
rawPlayVars == <<pc, result, fileVars, readNext, play, playVars>>

Frames == {0, 1}
Offsets == 0..MaxLen
NoSample == MaxLen + 1     \* a byte that f_read has not written
NoResult == 4
Blank == [k \in 0..RAWP_BUF_NS-1 |-> NoSample]

RawPlayInit ==
  /\ pc = "Open" /\ result = NoResult
  /\ fileLen \in Offsets /\ fptr = 0
  /\ buf = [f \in Frames |-> Blank] /\ frm = 0 /\ readed = 0
  /\ readNext = FALSE /\ play = FALSE
  /\ timerOn = FALSE /\ pb = [b |-> 0, bLen |-> 0, i |-> 0]
  /\ out = <<>> /\ underrun = FALSE

--------------------------------------------------------------------------------
Return(code) == pc' = "Done" /\ result' = code

\* What f_read reads from the file pointer on.
ReadLen == IF fileLen - fptr < RAWP_BUF_NS THEN fileLen - fptr ELSE RAWP_BUF_NS
Chunk == [k \in 0..RAWP_BUF_NS-1 |-> IF k < ReadLen THEN fptr + k ELSE buf[frm][k]]

f_read ==
  /\ buf' = [buf EXCEPT ![frm] = Chunk]
  /\ fptr' = fptr + ReadLen
  /\ readed' = ReadLen
  /\ UNCHANGED <<fileLen, frm>>

Open ==
  /\ pc = "Open"
  /\ \/ pc' = "First" /\ UNCHANGED result
     \/ Return(1)
  /\ UNCHANGED <<fileVars, readNext, play, playVars>>

\* The first f_read and PwmPlayStart, which calls DataReadCallback once.
Start ==
  /\ pc = "First"
  /\ f_read
  /\ readNext' = TRUE
  /\ pb' = [b |-> frm, bLen |-> readed', i |-> 0]
  /\ timerOn' = (readed' > 0)
  /\ play' = TRUE
  /\ pc' = "Loop"
  /\ UNCHANGED <<result, out, underrun>>

StartFails ==
  /\ pc = "First"
  /\ Return(2)
  /\ UNCHANGED <<fileVars, readNext, play, playVars>>

\* Fault: the next chunk is read into the buffer that is being played.
BeginRead_SameBuffer ==
  /\ pc = "Loop" /\ play /\ readNext
  /\ readNext' = FALSE
  /\ readed' = 0
  /\ buf' = [buf EXCEPT ![frm] = Blank]
  /\ pc' = "Reading"
  /\ UNCHANGED <<result, fileLen, fptr, frm, play, playVars>>

\* f_read begins: the frame is switched, readed is cleared (FatFs sets *br = 0
\* first) and the buffer holds no valid data until f_read ends.
BeginRead ==
  /\ pc = "Loop" /\ play /\ readNext
  /\ readNext' = FALSE
  /\ frm' = 1 - frm
  /\ readed' = 0
  /\ buf' = [buf EXCEPT ![1 - frm] = Blank]
  /\ pc' = "Reading"
  /\ UNCHANGED <<result, fileLen, fptr, play, playVars>>

\* Fault: a full chunk is taken for the end of the file.
Finished_OffByOne == ReadLen <= RAWP_BUF_NS

Finished == ReadLen < RAWP_BUF_NS

PwmPlayStop == timerOn' = FALSE /\ UNCHANGED <<pb, out, underrun>>

\* f_read ends; a short chunk ends the playback at once.
EndRead ==
  /\ pc = "Reading"
  /\ f_read
  /\ IF Finished THEN Return(0) /\ play' = FALSE /\ PwmPlayStop
                 ELSE pc' = "Loop" /\ UNCHANGED <<result, play, playVars>>
  /\ UNCHANGED readNext

\* Fault: the PWM is left running after a read error.
ReadFails_NoStop ==
  /\ pc = "Reading"
  /\ play' = FALSE
  /\ Return(3)
  /\ UNCHANGED <<fileVars, readNext, playVars>>

\* Fault: play is not cleared, main goes on waiting for a stopped PWM.
ReadFails_KeepsPlaying ==
  /\ pc = "Reading"
  /\ PwmPlayStop
  /\ pc' = "Loop"
  /\ UNCHANGED <<result, fileVars, readNext, play>>

ReadFails ==
  /\ pc = "Reading"
  /\ PwmPlayStop
  /\ play' = FALSE
  /\ Return(3)
  /\ UNCHANGED <<fileVars, readNext>>

--------------------------------------------------------------------------------
\* At the end of its buffer the interrupt calls DataReadCallback, and stops if
\* that returns no data.
DataReadCallback ==
  /\ readNext' = TRUE
  /\ pb' = [pb EXCEPT !.b = frm, !.bLen = readed,
                      !.i = IF readed = 0 THEN @ + 1 ELSE 0]
  /\ timerOn' = (readed > 0)
  /\ underrun' = (underrun \/ readed = 0)

TyInterrupt ==
  /\ timerOn
  /\ ~(pc = "Loop" /\ play /\ readNext)    \* main comes first, see above
  /\ out' = Append(out, buf[pb.b][pb.i])
  /\ IF pb.i + 1 >= pb.bLen
       THEN DataReadCallback
       ELSE pb' = [pb EXCEPT !.i = @ + 1] /\ UNCHANGED <<readNext, timerOn, underrun>>
  /\ UNCHANGED <<pc, result, fileVars, play>>

Main == Open \/ Start \/ StartFails \/ BeginRead \/ EndRead \/ ReadFails

RawPlayNext == Main \/ TyInterrupt

RawPlaySpec == RawPlayInit /\ [][RawPlayNext]_rawPlayVars

\* main runs on whenever it is not in Idle(), and the PWM timer ticks.
RawPlayFairSpec == RawPlaySpec /\ WF_rawPlayVars(Main) /\ WF_rawPlayVars(TyInterrupt)

--------------------------------------------------------------------------------
\* What is played is the beginning of the file: in spite of the two buffers no
\* sample is torn, skipped or repeated (rawplay.c:54-61, 143-163).
OutputIsPrefix == \A k \in 1..Len(out) : out[k] = k - 1

\* However RawPlayFile returns, the PWM is off and nothing more is played into the
\* line (rawplay.c:151-172).  Of "0 if the file has been successfully played"
\* (rawplay.c:116) the code keeps this much: unless the SD card was too slow, less than
\* two chunks are left unplayed.  ReturnMeansPlayed has what it does not keep.
EndsAfterTheFile ==
  pc = "Done" =>
    /\ ~timerOn /\ ~play
    /\ (result = 0 /\ ~underrun) => Len(out) + 2 * RAWP_BUF_NS > fileLen

\* rawplay.c:116-118 returns "0 if the file has been successfully played" and "blocks
\* ... until playback ends".  It does not: when the last chunk has been read the PWM is
\* stopped before that chunk is played, and within the one before it.
ReturnMeansPlayed == pc = "Done" /\ result = 0 /\ ~underrun => Len(out) = fileLen

\* rawplay.c:117-118 blocks "until playback ends or is cancelled".  It may not return:
\* a PWM that finds no data stops itself, and once main has read what it asked for
\* nobody asks for more.  With a card that keeps up it returns (PlayerReturns).
RawPlayReturns == <>(pc = "Done")
================================================================================
