----------------------------- MODULE RawPlayProofs -----------------------------
(***************************************************************************)
(* Theorems about RawPlay, for every size of the buffers and every file.   *)
(***************************************************************************)
EXTENDS RawPlay, Integers, TLAPS

FlagsOK ==
  readNext \in BOOLEAN /\ play \in BOOLEAN /\ timerOn \in BOOLEAN /\ underrun \in BOOLEAN

RawPlayTypeOK ==
  /\ pc \in {"Open", "First", "Loop", "Reading", "Done"}
  /\ fileLen \in Nat /\ fptr \in 0..fileLen
  /\ frm \in Frames /\ readed \in 0..RAWP_BUF_NS
  /\ buf \in [Frames -> [0..RAWP_BUF_NS-1 -> Nat]]
  /\ FlagsOK
  /\ pb \in [b : Frames, bLen : 0..RAWP_BUF_NS, i : Nat]
  /\ out \in Seq(Nat)

\* What is left in the buffer that is being played goes on from the last sample
\* that was output, up to offset n of the file.
PlaysTo(n) ==
  /\ pb.i < pb.bLen /\ Len(out) + pb.bLen = n + pb.i
  /\ \A k \in pb.i..pb.bLen-1 : buf[pb.b][k] = Len(out) + k - pb.i

\* The chunk before the file pointer is in buffer f.
LastChunkIn(f) ==
  /\ readed = RAWP_BUF_NS /\ RAWP_BUF_NS <= fptr
  /\ \A k \in 0..RAWP_BUF_NS-1 : buf[f][k] = fptr - RAWP_BUF_NS + k

\* The two buffers while the interrupt runs: it plays the only one that is full and
\* the other one is to be read, or is being read, or has been read.
BuffersInv ==
  /\ pc = "Loop" /\ timerOn /\ readNext => pb.b = frm /\ PlaysTo(fptr)
  /\ pc = "Loop" /\ timerOn /\ ~readNext =>
       pb.b = 1 - frm /\ LastChunkIn(frm) /\ PlaysTo(fptr - RAWP_BUF_NS)
  /\ pc = "Reading" /\ timerOn => ~readNext /\ pb.b = 1 - frm /\ PlaysTo(fptr)

\* Before the end the interrupt is off only for an empty file or after an underrun.
PhaseInv ==
  /\ pc \in {"Open", "First"} =>
       fptr = 0 /\ frm = 0 /\ out = <<>> /\ ~timerOn /\ ~play /\ ~underrun
  /\ pc \in {"Loop", "Reading"} => play
  /\ pc = "Reading" => readed = 0
  /\ pc \in {"Loop", "Reading"} /\ ~timerOn /\ ~underrun => fileLen = 0

RawPlayInv ==
  RawPlayTypeOK /\ BuffersInv /\ PhaseInv /\ OutputIsPrefix /\ EndsAfterTheFile

--------------------------------------------------------------------------------
(* Lemmas.                                                                 *)

\* f_read reads a whole buffer, or up to the end of the file.
LEMMA ReadLenBounds ==
  ASSUME RawPlayTypeOK
  PROVE  /\ ReadLen \in 0..RAWP_BUF_NS /\ fptr + ReadLen \in 0..fileLen
         /\ Finished => fptr + ReadLen = fileLen
         /\ ~Finished => ReadLen = RAWP_BUF_NS
  BY BufAssumption DEF RawPlayTypeOK, ReadLen, Finished

\* What f_read leaves in the buffers.
LEMMA ReadFills ==
  ASSUME RawPlayTypeOK, f_read
  PROVE  /\ buf' \in [Frames -> [0..RAWP_BUF_NS-1 -> Nat]]
         /\ buf'[1 - frm] = buf[1 - frm]
         /\ \A k \in 0..ReadLen-1 : buf'[frm][k] = fptr + k
         /\ fptr' = fptr + ReadLen /\ readed' = ReadLen /\ UNCHANGED <<fileLen, frm>>
<1>1. /\ frm \in Frames /\ 1 - frm \in Frames /\ 1 - frm # frm
      /\ fptr \in Nat /\ buf \in [Frames -> [0..RAWP_BUF_NS-1 -> Nat]] /\ RAWP_BUF_NS \in Nat
  BY BufAssumption DEF RawPlayTypeOK, Frames
<1>2. buf' = [buf EXCEPT ![frm] = Chunk] /\ ReadLen \in 0..RAWP_BUF_NS
  BY ReadLenBounds DEF f_read
<1>3. Chunk \in [0..RAWP_BUF_NS-1 -> Nat]
  BY <1>1, <1>2 DEF Chunk
<1>4. \A k \in 0..ReadLen-1 : Chunk[k] = fptr + k
  BY <1>1, <1>2 DEF Chunk
<1>5. buf' \in [Frames -> [0..RAWP_BUF_NS-1 -> Nat]]
  BY <1>1, <1>2, <1>3
<1>6. buf'[1 - frm] = buf[1 - frm] /\ buf'[frm] = Chunk
  BY <1>1, <1>2
<1> QED  BY <1>4, <1>5, <1>6 DEF f_read

\* The steps that end the playback, when there is nothing more to be read.
LEMMA DoneKeepsInv ==
  ASSUME RawPlayInv, RawPlayTypeOK', pc' = "Done", ~timerOn', ~play', UNCHANGED out,
         (result' = 0 /\ ~underrun') => Len(out) + 2 * RAWP_BUF_NS > fileLen'
  PROVE  RawPlayInv'
<1>1. BuffersInv' /\ PhaseInv'
  BY DEF BuffersInv, PhaseInv
<1>2. OutputIsPrefix' /\ EndsAfterTheFile'
  BY DEF RawPlayInv, OutputIsPrefix, EndsAfterTheFile
<1> QED  BY <1>1, <1>2 DEF RawPlayInv

--------------------------------------------------------------------------------
(* The steps.                                                              *)

\* Before the first sample.
LEMMA OpenKeepsInv == ASSUME RawPlayInv, Open \/ StartFails PROVE RawPlayInv'
<1>1. /\ pc \in {"Open", "First"}
      /\ pc' = "First" \/ (pc' = "Done" /\ result' \in {1, 2})
      /\ UNCHANGED <<fileLen, fptr, buf, frm, readed, readNext, play, timerOn, pb, out, underrun>>
  BY DEF Open, StartFails, Return, fileVars, playVars
<1>2. RawPlayTypeOK'
  BY <1>1 DEF RawPlayInv, RawPlayTypeOK, FlagsOK
<1>3. ~timerOn /\ ~play /\ PhaseInv
  BY <1>1 DEF RawPlayInv, PhaseInv
<1>4. CASE pc' = "First"
  BY <1>1, <1>2, <1>3, <1>4
     DEF RawPlayInv, BuffersInv, PhaseInv, OutputIsPrefix, EndsAfterTheFile
<1>5. CASE pc' = "Done"
  BY <1>1, <1>2, <1>3, <1>5, DoneKeepsInv
<1> QED  BY <1>1, <1>4, <1>5

\* The first chunk is in the buffer that is played, from offset 0 on.
LEMMA StartKeepsInv == ASSUME RawPlayInv, Start PROVE RawPlayInv'
<1>1. /\ f_read /\ readNext' = TRUE /\ play' = TRUE /\ pc = "First" /\ pc' = "Loop"
      /\ pb' = [b |-> frm, bLen |-> readed', i |-> 0] /\ timerOn' = (readed' > 0)
      /\ UNCHANGED <<out, underrun>>
  BY DEF Start
<1>2. RawPlayTypeOK /\ PhaseInv /\ OutputIsPrefix
  BY DEF RawPlayInv
<1>3. /\ buf' \in [Frames -> [0..RAWP_BUF_NS-1 -> Nat]]
      /\ \A k \in 0..ReadLen-1 : buf'[frm][k] = fptr + k
      /\ fptr' = fptr + ReadLen /\ readed' = ReadLen /\ UNCHANGED <<fileLen, frm>>
  BY <1>1, <1>2, ReadFills
<1>4. ReadLen \in 0..RAWP_BUF_NS /\ fptr + ReadLen \in 0..fileLen
  BY <1>2, ReadLenBounds
<1>5. fptr = 0 /\ out = <<>> /\ fileLen \in Nat
  BY <1>1, <1>2 DEF PhaseInv, RawPlayTypeOK
<1>6. RawPlayTypeOK'
  <2>1. FlagsOK'
    BY <1>1, <1>2 DEF RawPlayTypeOK, FlagsOK
  <2>2. pb' \in [b : Frames, bLen : 0..RAWP_BUF_NS, i : Nat]
    BY <1>1, <1>2, <1>3, <1>4 DEF RawPlayTypeOK
  <2> QED  BY <1>1, <1>2, <1>3, <1>4, <2>1, <2>2, BufAssumption DEF RawPlayTypeOK
<1>7. timerOn' => PlaysTo(fptr)' /\ pb'.b = frm'
  <2>1. timerOn' <=> readed' > 0
    BY <1>1
  <2>2. pb'.b = frm' /\ pb'.bLen = ReadLen /\ pb'.i = 0 /\ fptr' = ReadLen /\ Len(out') = 0
    BY <1>1, <1>3, <1>4, <1>5
  <2>3. \A k \in 0..ReadLen-1 : buf'[frm'][k] = k
    BY <1>3, <1>4, <1>5
  <2> QED  BY <1>3, <1>4, <2>1, <2>2, <2>3 DEF PlaysTo
<1>8. BuffersInv'
  BY <1>1, <1>7 DEF BuffersInv
<1>9. PhaseInv'
  <2>1. ReadLen = 0 => fileLen = 0
    BY <1>5, BufAssumption DEF ReadLen
  <2>2. ~timerOn' => ReadLen = 0
    <3>1. timerOn' <=> readed' > 0
      BY <1>1
    <3> QED  BY <1>3, <1>4, <3>1
  <2> QED  BY <1>1, <1>3, <2>1, <2>2 DEF PhaseInv
<1> QED  BY <1>1, <1>2, <1>6, <1>8, <1>9 DEF RawPlayInv, OutputIsPrefix, EndsAfterTheFile

\* The other buffer is read from now on.
LEMMA BeginReadKeepsInv == ASSUME RawPlayInv, BeginRead PROVE RawPlayInv'
<1>1. /\ pc = "Loop" /\ pc' = "Reading" /\ readNext /\ readNext' = FALSE /\ frm' = 1 - frm /\ readed' = 0
      /\ buf' = [buf EXCEPT ![1 - frm] = Blank]
      /\ UNCHANGED <<fileLen, fptr, play, timerOn, pb, out, underrun>>
  BY DEF BeginRead, playVars
<1>2. RawPlayTypeOK /\ PhaseInv /\ OutputIsPrefix /\ BuffersInv
  BY DEF RawPlayInv
<1>3. /\ frm \in Frames /\ 1 - frm \in Frames /\ 1 - frm # frm /\ 1 - (1 - frm) = frm
      /\ Blank \in [0..RAWP_BUF_NS-1 -> Nat] /\ RAWP_BUF_NS \in Nat
  BY <1>2, BufAssumption, LenAssumption DEF RawPlayTypeOK, Frames, Blank, NoSample
<1>4. RawPlayTypeOK'
  <2>1. FlagsOK'
    BY <1>1, <1>2 DEF RawPlayTypeOK, FlagsOK
  <2>2. buf \in [Frames -> [0..RAWP_BUF_NS-1 -> Nat]]
    BY <1>2 DEF RawPlayTypeOK
  <2>3. buf' \in [Frames -> [0..RAWP_BUF_NS-1 -> Nat]]
    BY <1>1, <1>3, <2>2
  <2>4. readed' \in 0..RAWP_BUF_NS
    BY <1>1, <1>3
  <2> QED  BY <1>1, <1>2, <1>3, <2>1, <2>3, <2>4 DEF RawPlayTypeOK
<1>5. BuffersInv'
  <2>1. timerOn => pb.b = frm /\ PlaysTo(fptr)
    BY <1>1, <1>2 DEF BuffersInv
  <2>2. buf'[frm] = buf[frm]
    BY <1>1, <1>2, <1>3 DEF RawPlayTypeOK
  <2>3. timerOn => PlaysTo(fptr)' /\ pb'.b = 1 - frm'
    BY <1>1, <1>3, <2>1, <2>2 DEF PlaysTo
  <2> QED  BY <1>1, <2>3 DEF BuffersInv
<1>6. PhaseInv'
  BY <1>1, <1>2 DEF PhaseInv
<1> QED  BY <1>1, <1>2, <1>4, <1>5, <1>6 DEF RawPlayInv, OutputIsPrefix, EndsAfterTheFile

\* The buffer has been read: the next chunk of the file is ready, or the last one was
\* short and RawPlayFile returns.
LEMMA EndReadKeepsInv == ASSUME RawPlayInv, EndRead PROVE RawPlayInv'
<1>1. f_read /\ pc = "Reading" /\ UNCHANGED <<readNext, pb, out, underrun>>
  BY DEF EndRead, PwmPlayStop, playVars
<1>2. RawPlayTypeOK /\ PhaseInv /\ OutputIsPrefix /\ BuffersInv
  BY DEF RawPlayInv
<1>3. /\ buf' \in [Frames -> [0..RAWP_BUF_NS-1 -> Nat]]
      /\ buf'[1 - frm] = buf[1 - frm]
      /\ \A k \in 0..ReadLen-1 : buf'[frm][k] = fptr + k
      /\ fptr' = fptr + ReadLen /\ readed' = ReadLen /\ UNCHANGED <<fileLen, frm>>
  BY <1>1, <1>2, ReadFills
<1>4. /\ ReadLen \in 0..RAWP_BUF_NS /\ fptr + ReadLen \in 0..fileLen /\ fptr \in Nat
      /\ fileLen \in Nat /\ RAWP_BUF_NS \in Nat /\ Len(out) \in Nat
      /\ pb.i \in Nat /\ pb.bLen \in 0..RAWP_BUF_NS
      /\ Finished => fptr + ReadLen = fileLen /\ ReadLen < RAWP_BUF_NS
      /\ ~Finished => ReadLen = RAWP_BUF_NS
  BY <1>2, ReadLenBounds, BufAssumption DEF RawPlayTypeOK, Finished
<1>5. CASE Finished
  <2>1. pc' = "Done" /\ result' = 0 /\ play' = FALSE /\ timerOn' = FALSE
    BY <1>5 DEF EndRead, Return, PwmPlayStop
  <2>2. RawPlayTypeOK'
    <3>1. FlagsOK'
      BY <1>1, <1>2, <2>1 DEF RawPlayTypeOK, FlagsOK
    <3> QED  BY <1>1, <1>2, <1>3, <1>4, <2>1, <3>1 DEF RawPlayTypeOK
  <2>3. ~underrun => Len(out) + 2 * RAWP_BUF_NS > fileLen
    <3>1. CASE timerOn
      <4>1. Len(out) + pb.bLen = fptr + pb.i
        BY <1>1, <1>2, <3>1 DEF BuffersInv, PlaysTo
      <4> QED  BY <1>4, <1>5, <4>1
    <3>2. CASE ~timerOn
      BY <1>1, <1>2, <1>4, <3>2, BufAssumption DEF PhaseInv
    <3> QED  BY <3>1, <3>2
  <2> QED  BY <1>1, <1>3, <2>1, <2>2, <2>3, DoneKeepsInv
<1>6. CASE ~Finished
  <2>1. pc' = "Loop" /\ UNCHANGED <<result, play, timerOn>>
    BY <1>6 DEF EndRead, playVars
  <2>2. RawPlayTypeOK'
    <3>1. FlagsOK'
      BY <1>1, <1>2, <2>1 DEF RawPlayTypeOK, FlagsOK
    <3> QED  BY <1>1, <1>2, <1>3, <1>4, <2>1, <3>1 DEF RawPlayTypeOK
  <2>3. timerOn => /\ ~readNext /\ pb.b = 1 - frm /\ PlaysTo(fptr)
    BY <1>1, <1>2 DEF BuffersInv
  <2>4. timerOn => PlaysTo(fptr - RAWP_BUF_NS)'
    <3>1. timerOn => buf'[pb.b] = buf[pb.b]
      BY <1>3, <2>3
    <3>2. fptr' - RAWP_BUF_NS = fptr
      BY <1>3, <1>4, <1>6
    <3> QED  BY <1>1, <2>3, <3>1, <3>2 DEF PlaysTo
  <2>5. LastChunkIn(frm)'
    BY <1>3, <1>4, <1>6 DEF LastChunkIn
  <2>6. BuffersInv'
    BY <1>1, <1>3, <2>1, <2>3, <2>4, <2>5 DEF BuffersInv
  <2>7. PhaseInv'
    <3>1. play
      BY <1>1, <1>2, <2>1 DEF PhaseInv
    <3> QED  BY <1>1, <1>2, <1>3, <2>1, <3>1 DEF PhaseInv
  <2> QED  BY <1>1, <1>2, <2>1, <2>2, <2>6, <2>7 DEF RawPlayInv, OutputIsPrefix, EndsAfterTheFile
<1> QED  BY <1>5, <1>6

\* The card cannot be read: RawPlayFile stops the interrupt and returns.
LEMMA ReadFailsKeepsInv == ASSUME RawPlayInv, ReadFails PROVE RawPlayInv'
<1>1. /\ pc' = "Done" /\ result' = 3 /\ timerOn' = FALSE /\ play' = FALSE
      /\ UNCHANGED <<fileLen, fptr, buf, frm, readed, readNext, pb, out, underrun>>
  BY DEF ReadFails, Return, PwmPlayStop, fileVars
<1>2. RawPlayTypeOK'
  BY <1>1 DEF RawPlayInv, RawPlayTypeOK, FlagsOK
<1> QED  BY <1>1, <1>2, DoneKeepsInv

\* The interrupt outputs the next sample and, at the end of its buffer, goes over to
\* the one that has been read, or stops if there is none.
LEMMA TyInterruptKeepsInv == ASSUME RawPlayInv, TyInterrupt PROVE RawPlayInv'
<1>1. /\ timerOn /\ ~(pc = "Loop" /\ play /\ readNext)
      /\ out' = Append(out, buf[pb.b][pb.i])
      /\ UNCHANGED <<pc, result, fileLen, fptr, buf, frm, readed, play>>
  BY DEF TyInterrupt, fileVars
<1>2. RawPlayTypeOK /\ PhaseInv /\ OutputIsPrefix /\ BuffersInv /\ EndsAfterTheFile
  BY DEF RawPlayInv
<1>3. pc \in {"Loop", "Reading"} /\ (pc = "Loop" => ~readNext)
  BY <1>1, <1>2 DEF RawPlayTypeOK, PhaseInv, EndsAfterTheFile
<1>4. /\ pb.b \in Frames /\ pb.i \in Nat /\ pb.bLen \in 0..RAWP_BUF_NS /\ pb.i < pb.bLen
      /\ buf[pb.b][pb.i] = Len(out) /\ Len(out) \in Nat /\ RAWP_BUF_NS \in Nat
      /\ fptr \in Nat /\ readed \in 0..RAWP_BUF_NS /\ out \in Seq(Nat)
  <2>1. /\ pb.b \in Frames /\ pb.i \in Nat /\ pb.bLen \in 0..RAWP_BUF_NS
        /\ Len(out) \in Nat /\ RAWP_BUF_NS \in Nat
        /\ fptr \in Nat /\ readed \in 0..RAWP_BUF_NS /\ out \in Seq(Nat)
    BY <1>2, BufAssumption DEF RawPlayTypeOK
  <2>2. \E n : PlaysTo(n)
    BY <1>1, <1>2, <1>3 DEF BuffersInv
  <2>3. pb.i < pb.bLen /\ \A k \in pb.i..pb.bLen-1 : buf[pb.b][k] = Len(out) + k - pb.i
    BY <2>2 DEF PlaysTo
  <2>4. pb.i \in pb.i..pb.bLen-1 /\ Len(out) + pb.i - pb.i = Len(out)
    BY <2>1, <2>3
  <2> QED  BY <2>1, <2>3, <2>4
<1>5. out' \in Seq(Nat) /\ Len(out') = Len(out) + 1 /\ OutputIsPrefix'
  BY <1>1, <1>2, <1>4 DEF OutputIsPrefix
<1>6. EndsAfterTheFile'
  BY <1>1, <1>3 DEF EndsAfterTheFile
<1>7. CASE pb.i + 1 >= pb.bLen
  <2>1. /\ readNext' = TRUE
        /\ pb' = [pb EXCEPT !.b = frm, !.bLen = readed, !.i = IF readed = 0 THEN @ + 1 ELSE 0]
        /\ timerOn' = (readed > 0) /\ underrun' = (underrun \/ readed = 0)
    BY <1>7 DEF TyInterrupt, DataReadCallback
  <2>2. pb'.b = frm /\ pb'.bLen = readed /\ (readed # 0 => pb'.i = 0)
    BY <1>2, <2>1 DEF RawPlayTypeOK
  <2>3. RawPlayTypeOK'
    <3>1. FlagsOK'
      BY <1>1, <1>2, <2>1 DEF RawPlayTypeOK, FlagsOK
    <3>2. pb \in [b : Frames, bLen : 0..RAWP_BUF_NS, i : Nat] /\ frm \in Frames
      BY <1>2 DEF RawPlayTypeOK
    <3>3. (IF readed = 0 THEN pb.i + 1 ELSE 0) \in Nat
      BY <3>2
    <3>4. pb' \in [b : Frames, bLen : 0..RAWP_BUF_NS, i : Nat]
      BY <1>4, <2>1, <3>2, <3>3
    <3> QED  BY <1>1, <1>2, <1>5, <3>1, <3>4 DEF RawPlayTypeOK
  <2>4. (timerOn' <=> readed > 0) /\ (underrun' <=> underrun \/ readed = 0)
    BY <2>1
  <2>5. CASE pc = "Loop"
    <3>1. LastChunkIn(frm) /\ PlaysTo(fptr - RAWP_BUF_NS)
      BY <1>1, <1>2, <1>3, <2>5 DEF BuffersInv
    <3>2. Len(out') = fptr - RAWP_BUF_NS
      <4>1. pb.i < pb.bLen /\ Len(out) + pb.bLen = fptr - RAWP_BUF_NS + pb.i
        BY <3>1 DEF PlaysTo
      <4>2. pb.i + 1 = pb.bLen
        BY <1>4, <1>7, <4>1
      <4>3. /\ Len(out) \in Int /\ fptr - RAWP_BUF_NS \in Int /\ pb.i \in Int
            /\ Len(out) + (pb.i + 1) = fptr - RAWP_BUF_NS + pb.i
        BY <1>4, <4>1, <4>2
      <4>4. \A l, n, i \in Int : l + (i + 1) = n + i => l + 1 = n
        OBVIOUS
      <4>5. Len(out) + 1 = fptr - RAWP_BUF_NS
        BY <4>3, <4>4
      <4> QED  BY <1>5, <4>5
    <3>3. readed = RAWP_BUF_NS /\ timerOn'
      BY <2>4, <3>1, BufAssumption DEF LastChunkIn
    <3>4. PlaysTo(fptr)'
      <4>1. /\ pb'.i = 0 /\ pb'.bLen = RAWP_BUF_NS /\ pb'.b = frm
            /\ \A k \in 0..RAWP_BUF_NS-1 : buf'[frm][k] = Len(out') + k
        BY <1>1, <2>2, <3>1, <3>2, <3>3, BufAssumption DEF LastChunkIn
      <4> QED  BY <1>1, <1>4, <3>2, <4>1, BufAssumption DEF PlaysTo
    <3>5. BuffersInv'
      BY <1>1, <2>1, <2>2, <2>5, <3>4 DEF BuffersInv
    <3>6. PhaseInv'
      BY <1>1, <1>2, <2>5, <3>3 DEF PhaseInv
    <3> QED  BY <1>5, <1>6, <2>3, <3>5, <3>6 DEF RawPlayInv
  <2>6. CASE pc = "Reading"
    <3>1. readed = 0
      BY <1>2, <2>6 DEF PhaseInv
    <3>2. ~timerOn' /\ underrun'
      BY <2>4, <3>1
    <3>3. BuffersInv'
      BY <3>2 DEF BuffersInv
    <3>4. PhaseInv'
      BY <1>1, <1>2, <2>6, <3>2 DEF PhaseInv
    <3> QED  BY <1>5, <1>6, <2>3, <3>3, <3>4 DEF RawPlayInv
  <2> QED  BY <1>3, <2>5, <2>6
<1>8. CASE ~(pb.i + 1 >= pb.bLen)
  <2>1. pb' = [pb EXCEPT !.i = @ + 1] /\ UNCHANGED <<readNext, timerOn, underrun>>
    BY <1>8 DEF TyInterrupt
  <2>2. pb'.b = pb.b /\ pb'.bLen = pb.bLen /\ pb'.i = pb.i + 1
    BY <1>2, <2>1 DEF RawPlayTypeOK
  <2>3. RawPlayTypeOK'
    <3>1. pb \in [b : Frames, bLen : 0..RAWP_BUF_NS, i : Nat]
      BY <1>2 DEF RawPlayTypeOK
    <3>2. pb.i + 1 \in Nat
      BY <3>1
    <3>3. pb' \in [b : Frames, bLen : 0..RAWP_BUF_NS, i : Nat]
      BY <2>1, <3>1, <3>2
    <3> QED  BY <1>1, <1>2, <1>5, <2>1, <3>3 DEF RawPlayTypeOK, FlagsOK
  <2>4. ASSUME NEW n \in Int, PlaysTo(n)
        PROVE  /\ pb'.i < pb'.bLen /\ Len(out') + pb'.bLen = n + pb'.i
               /\ \A k \in pb'.i..pb'.bLen-1 : buf'[pb'.b][k] = Len(out') + k - pb'.i
    <3> DEFINE l == Len(out)
    <3>0. l \in Nat /\ Len(out') = l + 1 /\ pb.i \in Nat /\ pb.bLen \in Nat
      BY <1>4, <1>5
    <3> HIDE DEF l
    <3>1. pb'.i < pb'.bLen /\ Len(out') + pb'.bLen = n + pb'.i
      <4>1. pb.i < pb.bLen /\ l + pb.bLen = n + pb.i
        BY <2>4 DEF PlaysTo, l
      <4>2. pb.i + 1 < pb.bLen
        BY <1>8, <3>0
      <4> QED  BY <2>2, <3>0, <4>1, <4>2
    <3>2. ASSUME NEW k \in pb'.i..pb'.bLen-1 PROVE buf'[pb'.b][k] = Len(out') + k - pb'.i
      <4>1. k \in pb.i..pb.bLen-1 /\ Len(out') + k - pb'.i = l + k - pb.i
        <5>1. PICK i \in Nat, n1 \in Nat : i = pb.i /\ n1 = pb.bLen
          BY <3>0
        <5>2. k \in i+1..n1-1
          BY <2>2, <5>1
        <5>3. k \in i..n1-1 /\ (l + 1) + k - (i + 1) = l + k - i
          BY <3>0, <5>2
        <5> QED  BY <2>2, <3>0, <5>1, <5>3
      <4> QED  BY <1>1, <2>2, <2>4, <4>1 DEF PlaysTo, l
    <3> QED  BY <3>1, <3>2
  <2>5. BuffersInv'
    <3>1. CASE pc = "Loop"
      <4>1. pb.b = 1 - frm /\ LastChunkIn(frm) /\ PlaysTo(fptr - RAWP_BUF_NS)
        BY <1>1, <1>2, <1>3, <3>1 DEF BuffersInv
      <4>2. PlaysTo(fptr - RAWP_BUF_NS)' /\ LastChunkIn(frm)'
        BY <1>1, <1>4, <2>4, <4>1 DEF PlaysTo, LastChunkIn
      <4> QED  BY <1>1, <1>3, <2>1, <2>2, <3>1, <4>1, <4>2 DEF BuffersInv
    <3>2. CASE pc = "Reading"
      <4>1. ~readNext /\ pb.b = 1 - frm /\ PlaysTo(fptr)
        BY <1>1, <1>2, <3>2 DEF BuffersInv
      <4>2. PlaysTo(fptr)'
        <5>1. PICK n \in Int : n = fptr /\ fptr' = n
          BY <1>1, <1>4
        <5>2. PlaysTo(n)
          BY <4>1, <5>1
        <5>3. /\ pb'.i < pb'.bLen /\ Len(out') + pb'.bLen = n + pb'.i
              /\ \A k \in pb'.i..pb'.bLen-1 : buf'[pb'.b][k] = Len(out') + k - pb'.i
          BY <2>4, <5>2
        <5> QED  BY <5>1, <5>3 DEF PlaysTo
      <4> QED  BY <1>1, <2>1, <2>2, <3>2, <4>1, <4>2 DEF BuffersInv
    <3> QED  BY <1>3, <3>1, <3>2
  <2>6. PhaseInv'
    BY <1>1, <1>2, <1>3, <2>1 DEF PhaseInv
  <2> QED  BY <1>5, <1>6, <2>3, <2>5, <2>6 DEF RawPlayInv
<1> QED  BY <1>7, <1>8

--------------------------------------------------------------------------------
(* The theorems.                                                           *)

\* rawplay.c, pwmplay.c: the two buffers, the file pointer and the interrupt.
THEOREM RawPlayInvHolds == RawPlaySpec => []RawPlayInv
<1>1. RawPlayInit => RawPlayInv
  <2> SUFFICES ASSUME RawPlayInit PROVE RawPlayInv
    OBVIOUS
  <2>1. RawPlayTypeOK
    <3>1. Blank \in [0..RAWP_BUF_NS-1 -> Nat] /\ MaxLen \in Nat /\ RAWP_BUF_NS \in Nat
      BY BufAssumption, LenAssumption DEF Blank, NoSample
    <3>2. FlagsOK
      BY DEF RawPlayInit, FlagsOK
    <3> QED  BY <3>1, <3>2 DEF RawPlayInit, RawPlayTypeOK, Frames, Offsets
  <2> QED
    BY <2>1 DEF RawPlayInit, RawPlayInv, BuffersInv, PhaseInv, OutputIsPrefix, EndsAfterTheFile
<1>2. RawPlayInv /\ [RawPlayNext]_rawPlayVars => RawPlayInv'
  <2> SUFFICES ASSUME RawPlayInv, [RawPlayNext]_rawPlayVars PROVE RawPlayInv'
    OBVIOUS
  <2>1. CASE UNCHANGED rawPlayVars
    <3>1. /\ RawPlayTypeOK' = RawPlayTypeOK /\ BuffersInv' = BuffersInv /\ PhaseInv' = PhaseInv
          /\ OutputIsPrefix' = OutputIsPrefix /\ EndsAfterTheFile' = EndsAfterTheFile
      BY <2>1 DEF rawPlayVars, fileVars, playVars, RawPlayTypeOK, FlagsOK, BuffersInv, PlaysTo, LastChunkIn,
         PhaseInv, OutputIsPrefix, EndsAfterTheFile
    <3> QED  BY <3>1 DEF RawPlayInv
  <2> QED
    BY <2>1, OpenKeepsInv, StartKeepsInv, BeginReadKeepsInv, EndReadKeepsInv, ReadFailsKeepsInv,
       TyInterruptKeepsInv DEF RawPlayNext, Main
<1> QED  BY <1>1, <1>2, PTL DEF RawPlaySpec

\* rawplay.c:54-61, 143-163: what is played is the beginning of the file, sample by
\* sample, whatever the size of the buffers and the length of the file.
THEOREM PlaysPrefix == RawPlaySpec => []OutputIsPrefix
<1>1. RawPlayInv => OutputIsPrefix
  BY DEF RawPlayInv
<1> QED  BY <1>1, RawPlayInvHolds, PTL

\* rawplay.c:151-172: RawPlayFile returns with the interrupt off, and having played
\* the file up to less than two buffers unless there was an underrun.
THEOREM PlaysWholeFile == RawPlaySpec => []EndsAfterTheFile
<1>1. RawPlayInv => EndsAfterTheFile
  BY DEF RawPlayInv
<1> QED  BY <1>1, RawPlayInvHolds, PTL
================================================================================
