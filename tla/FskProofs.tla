-------------------------------- MODULE FskProofs --------------------------------
(***************************************************************************)
(* Theorems about Fsk, for all lengths of a bit, a character and a frame.  *)
(***************************************************************************)
EXTENDS Fsk, Integers, TLAPS

--------------------------------------------------------------------------------
(* The decisor: where it is in a character.                                *)

DecisorOK ==
  /\ i \in 0..NS-1 /\ nBit \in Nat /\ count \in Nat /\ nChar \in Nat
  /\ recvVal \in Bit /\ noCarrier \in Nat
  /\ stat \in {"DEC_WAIT_START", "DEC_DATA_RECV", "DEC_WAIT_STOP"}
  /\ stat = "DEC_WAIT_START" => count < 4
  /\ stat = "DEC_DATA_RECV" => nBit < NBits /\ count < FSK_SPB
  /\ stat = "DEC_WAIT_STOP" => nBit = NBits

\* The samples that the character being received has had, at least.
Had ==
  IF stat = "DEC_WAIT_START" THEN count
  ELSE IF stat = "DEC_DATA_RECV" THEN 4 + nBit * FSK_SPB + count
  ELSE 4 + NBits * FSK_SPB + count

\* Every character of the frame but the first has had all its samples there.
RoomInv ==
  nChar > 0 =>
    (nChar - 1) * LeastSamples + 1 + (IF i = 0 THEN 0 ELSE Had) <= (IF i = 0 THEN NS ELSE i)

\* The samples of n characters.
LEMMA CharactersTake ==
  ASSUME NEW n \in Nat, n > 0
  PROVE  /\ LeastSamples \in Nat /\ (n - 1) * LeastSamples \in Nat
         /\ n * LeastSamples = (n - 1) * LeastSamples + LeastSamples
<1>1. LeastSamples \in Nat
  <2>1. NBits * FSK_SPB \in Nat
    BY FskAssumption
  <2> QED  BY <2>1 DEF LeastSamples
<1> QED  BY <1>1

\* What a sample does to the decisor: it is one sample farther, or starts again, or has
\* had the least samples and stores the character.
LEMMA DecideCounts ==
  ASSUME DecisorOK, NEW v \in Bit, Decide(v)
  PROVE  /\ count' \in Nat /\ nBit' \in Nat
         /\ stat' \in {"DEC_WAIT_START", "DEC_DATA_RECV", "DEC_WAIT_STOP"}
         /\ stat' = "DEC_WAIT_START" => count' < 4
         /\ stat' = "DEC_DATA_RECV" => nBit' < NBits /\ count' < FSK_SPB
         /\ stat' = "DEC_WAIT_STOP" => nBit' = NBits
         /\ Had' \in Nat
         /\ \/ Stored(0) /\ Had' <= Had + 1
            \/ Stored(1) /\ Had' = 0 /\ Had + 1 >= LeastSamples
<1>1. /\ NBits \in Nat /\ NBits > 0 /\ FSK_SPB \in Nat /\ FSK_SPB > 4
      /\ NBits * FSK_SPB \in Nat /\ nBit * FSK_SPB \in Nat
      /\ (nBit + 1) * FSK_SPB = nBit * FSK_SPB + FSK_SPB
      /\ nBit \in Nat /\ count \in Nat
  BY FskAssumption DEF DecisorOK
<1>2. CASE stat = "DEC_WAIT_START"
  <2>1. WaitStart(v) /\ Had = count /\ count < 4
    BY <1>2 DEF Decide, Had, DecisorOK
  <2>2. \/ stat' = "DEC_WAIT_START" /\ count' = 0 /\ nBit' = nBit
        \/ stat' = "DEC_WAIT_START" /\ count' = count + 1 /\ count + 1 < 4 /\ nBit' = nBit
        \/ stat' = "DEC_DATA_RECV" /\ count' = 0 /\ nBit' = 0 /\ count + 1 >= 4
    BY <1>1, <1>2, <2>1 DEF WaitStart
  <2>3. Stored(0)
    BY <2>1 DEF WaitStart
  <2>4. 0 * FSK_SPB = 0
    BY <1>1
  <2>5. CASE stat' = "DEC_WAIT_START"
    BY <1>1, <2>1, <2>2, <2>3, <2>5 DEF Had
  <2>6. CASE stat' = "DEC_DATA_RECV" /\ count' = 0 /\ nBit' = 0 /\ count + 1 >= 4
    <3>1. Had' = 4 + 0 * FSK_SPB + 0
      BY <2>6 DEF Had
    <3>2. Had' = Had + 1
      BY <1>1, <2>1, <2>4, <2>6, <3>1
    <3> QED  BY <1>1, <2>1, <2>3, <2>6, <3>2
  <2> QED  BY <2>2, <2>5, <2>6
<1>3. CASE stat = "DEC_DATA_RECV"
  <2>1. DataRecv(v) /\ Had = 4 + nBit * FSK_SPB + count /\ nBit < NBits /\ count < FSK_SPB
    BY <1>3 DEF Decide, Had, DecisorOK
  <2>2. \/ stat' = "DEC_DATA_RECV" /\ count' = count + 1 /\ count + 1 # FSK_SPB /\ nBit' = nBit
        \/ /\ count' = 0 /\ count + 1 = FSK_SPB /\ nBit' = nBit + 1
           /\ stat' = IF nBit' = NBits THEN "DEC_WAIT_STOP" ELSE "DEC_DATA_RECV"
    BY <1>1, <1>3, <2>1 DEF DataRecv
  <2>3. Stored(0)
    BY <2>1 DEF DataRecv
  <2>4. CASE stat' = "DEC_DATA_RECV" /\ count' = count + 1 /\ count + 1 # FSK_SPB /\ nBit' = nBit
    <3>1. Had' = 4 + nBit * FSK_SPB + (count + 1)
      BY <2>4 DEF Had
    <3> QED  BY <1>1, <2>1, <2>3, <2>4, <3>1
  <2>5. CASE /\ count' = 0 /\ count + 1 = FSK_SPB /\ nBit' = nBit + 1
             /\ stat' = IF nBit' = NBits THEN "DEC_WAIT_STOP" ELSE "DEC_DATA_RECV"
    <3>1. Had' = 4 + (nBit + 1) * FSK_SPB + 0
      BY <2>5 DEF Had
    <3>2. Had' = Had + 1
      BY <1>1, <2>1, <2>5, <3>1
    <3> QED  BY <1>1, <2>1, <2>3, <2>5, <3>2
  <2> QED  BY <2>2, <2>4, <2>5
<1>4. CASE stat = "DEC_WAIT_STOP"
  <2>1. WaitStop(v) /\ Had = 4 + NBits * FSK_SPB + count /\ nBit = NBits
    BY <1>4 DEF Decide, Had, DecisorOK
  <2>2. /\ nBit' = nBit
        /\ \/ stat' = "DEC_WAIT_STOP" /\ count' = count + 1 /\ Stored(0)
           \/ stat' = "DEC_WAIT_START" /\ count' = 0 /\ Stored(0)
           \/ stat' = "DEC_WAIT_START" /\ count' = 0 /\ Stored(1) /\ count >= 4
    BY <1>1, <1>4, <2>1 DEF WaitStop
  <2>3. CASE stat' = "DEC_WAIT_STOP" /\ count' = count + 1 /\ Stored(0)
    BY <1>1, <2>1, <2>2, <2>3 DEF Had
  <2>4. CASE stat' = "DEC_WAIT_START" /\ count' = 0 /\ Stored(0)
    BY <1>1, <2>1, <2>2, <2>4 DEF Had
  <2>5. CASE stat' = "DEC_WAIT_START" /\ count' = 0 /\ Stored(1) /\ count >= 4
    BY <1>1, <2>1, <2>2, <2>5 DEF Had, LeastSamples
  <2> QED  BY <2>2, <2>3, <2>4, <2>5
<1> QED  BY <1>2, <1>3, <1>4 DEF DecisorOK

\* fsk_dem.c: a sample, also one at the threshold, leaves the frame room.
LEMMA SampleKeepsRoom ==
  ASSUME DecisorOK, RoomInv, NEW v \in {"above", "below", "equal"}, Sample(v)
  PROVE  DecisorOK' /\ RoomInv'
<1>1. /\ NS \in Nat /\ NS > 0 /\ i \in 0..NS-1 /\ LeastSamples \in Nat /\ LeastSamples > 0
      /\ nChar \in Nat
  <2>1. NBits \in Nat /\ FSK_SPB \in Nat /\ NBits * FSK_SPB \in Nat
    BY FskAssumption
  <2> QED  BY <2>1, FskAssumption DEF LeastSamples, DecisorOK
<1>2. i' = (i + 1) % NS
  BY DEF Sample
<1>3. i' = (IF i + 1 = NS THEN 0 ELSE i + 1) /\ i' \in 0..NS-1
  BY <1>1, <1>2
<1>4. Had \in Nat
  <2>1. nBit * FSK_SPB \in Nat /\ NBits * FSK_SPB \in Nat
    BY FskAssumption DEF DecisorOK
  <2> QED  BY <2>1 DEF Had, DecisorOK
<1>5. /\ recvVal' \in Bit /\ noCarrier' \in Nat
      /\ count' \in Nat /\ nBit' \in Nat
      /\ stat' \in {"DEC_WAIT_START", "DEC_DATA_RECV", "DEC_WAIT_STOP"}
      /\ stat' = "DEC_WAIT_START" => count' < 4
      /\ stat' = "DEC_DATA_RECV" => nBit' < NBits /\ count' < FSK_SPB
      /\ stat' = "DEC_WAIT_STOP" => nBit' = NBits
      /\ Had' \in Nat
      /\ \/ Stored(0) /\ Had' <= Had + 1
         \/ Stored(1) /\ Had' = 0 /\ Had + 1 >= LeastSamples
  <2>1. CASE v # "equal"
    <3>1. noCarrier' = 0 /\ recvVal' \in Bit /\ Decide(recvVal')
      BY <2>1 DEF Sample, Bit
    <3> QED  BY <3>1, DecideCounts
  <2>2. CASE v = "equal" /\ noCarrier + 1 < FSK_NO_CARRIER_CYCLES
    <3>1. noCarrier' = noCarrier + 1 /\ recvVal' = recvVal /\ Decide(recvVal)
      BY <2>2 DEF Sample
    <3>2. recvVal \in Bit /\ noCarrier \in Nat
      BY DEF DecisorOK
    <3> QED  BY <3>1, <3>2, DecideCounts
  <2>3. CASE v = "equal" /\ ~(noCarrier + 1 < FSK_NO_CARRIER_CYCLES)
    <3>1. /\ noCarrier' = FSK_NO_CARRIER_CYCLES /\ Stored(0) /\ UNCHANGED <<recvVal, nBit>>
          /\ \/ stat' = "DEC_WAIT_START" /\ count' = 0
             \/ UNCHANGED <<stat, count>>
      BY <2>3 DEF Sample
    <3>2. FSK_NO_CARRIER_CYCLES \in Nat
      BY FskAssumption
    <3>3. CASE stat' = "DEC_WAIT_START" /\ count' = 0
      BY <1>4, <3>1, <3>2, <3>3 DEF DecisorOK, Had
    <3>4. CASE UNCHANGED <<stat, count>>
      <4>1. Had' = Had
        BY <3>1, <3>4 DEF Had
      <4> QED  BY <1>4, <3>1, <3>2, <3>4, <4>1 DEF DecisorOK
    <3> QED  BY <3>1, <3>3, <3>4
  <2> QED  BY <2>1, <2>2, <2>3
<1> DEFINE old == IF i = 0 THEN 0 ELSE nChar
<1>6. /\ old \in Nat
      /\ old > 0 => (old - 1) * LeastSamples + 1 + Had <= i
  <2>1. CASE i = 0
    BY <2>1
  <2>2. CASE i # 0
    BY <1>1, <2>2 DEF RoomInv
  <2> QED  BY <2>1, <2>2
<1>7. nChar' \in Nat /\ (nChar' > 0 => (nChar' - 1) * LeastSamples + 1 + Had' <= i + 1)
  <2> HIDE DEF old
  <2>1. CASE Stored(0) /\ Had' <= Had + 1
    <3>1. nChar' = old
      BY <1>6, <2>1 DEF Stored, old
    <3> DEFINE used == (old - 1) * LeastSamples
    <3>2. old > 0 => used \in Nat /\ used + 1 + Had <= i
      BY <1>6, CharactersTake
    <3> HIDE DEF used
    <3>3. old > 0 => used + 1 + Had' <= i + 1
      BY <1>1, <1>4, <1>5, <2>1, <3>2
    <3> QED  BY <1>6, <3>1, <3>3 DEF used
  <2>2. CASE Stored(1) /\ Had' = 0 /\ Had + 1 >= LeastSamples
    <3>1. nChar' = old + 1 /\ nChar' - 1 = old
      BY <1>6, <2>2 DEF Stored, old
    <3>2. CASE old = 0
      <4>1. 0 * LeastSamples = 0
        BY <1>1
      <4> QED  BY <1>1, <2>2, <3>1, <3>2, <4>1
    <3>3. CASE old > 0
      <4>1. (old - 1) * LeastSamples \in Nat /\ old * LeastSamples = (old - 1) * LeastSamples + LeastSamples
        BY <1>6, <3>3, CharactersTake
      <4> QED  BY <1>1, <1>4, <1>6, <2>2, <3>1, <3>3, <4>1
    <3> QED  BY <1>6, <3>2, <3>3
  <2> QED  BY <1>5, <2>1, <2>2
<1>8. DecisorOK'
  BY <1>3, <1>5, <1>7 DEF DecisorOK
<1>9. RoomInv'
  <2> SUFFICES ASSUME nChar' > 0
               PROVE  (nChar' - 1) * LeastSamples + 1 + (IF i' = 0 THEN 0 ELSE Had') <= (IF i' = 0 THEN NS ELSE i')
    BY DEF RoomInv
  <2>1. PICK used \in Nat : used = (nChar' - 1) * LeastSamples /\ used + 1 + Had' <= i + 1
    BY <1>7, CharactersTake
  <2>2. used + 1 + (IF i' = 0 THEN 0 ELSE Had') <= (IF i' = 0 THEN NS ELSE i')
    <3>1. Had' \in Nat
      BY <1>5
    <3>2. CASE i + 1 = NS
      <4>1. i' = 0
        BY <1>3, <3>2
      <4>2. used + 1 + 0 <= NS
        BY <1>1, <2>1, <3>1, <3>2
      <4> QED  BY <4>1, <4>2
    <3>3. CASE i + 1 # NS
      <4>1. i' = i + 1 /\ i' # 0
        BY <1>1, <1>3, <3>3
      <4> QED  BY <2>1, <4>1
    <3> QED  BY <3>2, <3>3
  <2> QED  BY <2>1, <2>2
<1> QED  BY <1>8, <1>9

\* The steps that leave the decisor alone, and FskReset.
LEMMA OthersKeepRoom ==
  ASSUME DecisorOK, RoomInv, UNCHANGED demVars \/ FskDemodInit
  PROVE  DecisorOK' /\ RoomInv'
<1>1. CASE UNCHANGED demVars
  BY <1>1 DEF demVars, DecisorOK, RoomInv, Had
<1>2. CASE FskDemodInit
  <2>1. /\ stat' = "DEC_WAIT_START" /\ count' = 0 /\ noCarrier' = 3 /\ i' = 0
        /\ UNCHANGED <<nBit, recvVal, nChar>>
    BY <1>2 DEF FskDemodInit
  <2>2. DecisorOK'
    BY <2>1, FskAssumption DEF DecisorOK
  <2>3. nChar > 0 => (nChar - 1) * LeastSamples + 1 <= NS
    <3>1. nChar > 0 => (nChar - 1) * LeastSamples \in Nat
      BY CharactersTake DEF DecisorOK
    <3>2. Had \in Nat
      <4>1. nBit * FSK_SPB \in Nat /\ NBits * FSK_SPB \in Nat
        BY FskAssumption DEF DecisorOK
      <4> QED  BY <4>1 DEF Had, DecisorOK
    <3>3. i \in 0..NS-1 /\ NS \in Nat
      BY FskAssumption DEF DecisorOK
    <3> QED  BY <3>1, <3>2, <3>3 DEF RoomInv
  <2>4. RoomInv'
    <3> SUFFICES ASSUME nChar > 0 PROVE (nChar - 1) * LeastSamples + 1 + 0 <= NS
      BY <2>1 DEF RoomInv
    <3>1. (nChar - 1) * LeastSamples \in Nat
      BY CharactersTake DEF DecisorOK
    <3> QED  BY <2>3, <3>1
  <2> QED  BY <2>2, <2>4
<1> QED  BY <1>1, <1>2

\* fsk_dem.c: the decisor, whatever the line carries.
LEMMA RoomHolds == FskSpec => [](DecisorOK /\ RoomInv)
<1>1. FskInit => DecisorOK /\ RoomInv
  BY FskAssumption DEF FskInit, DecisorOK, RoomInv, Bit
<1>2. DecisorOK /\ RoomInv /\ [FskNext]_fskVars => (DecisorOK /\ RoomInv)'
  <2> SUFFICES ASSUME DecisorOK, RoomInv, [FskNext]_fskVars PROVE (DecisorOK /\ RoomInv)'
    OBVIOUS
  <2>1. CASE \E v \in {"above", "below", "equal"} : Sample(v)
    BY <2>1, SampleKeepsRoom
  <2>2. CASE UNCHANGED demVars \/ FskDemodInit
    BY <2>2, OthersKeepRoom
  <2>3. CASE CharSample
    <3>1. \E b \in {k, k + 1} : Sample(IF Level(b) = 0 THEN "above" ELSE "below")
      BY <2>3 DEF CharSample
    <3> QED  BY <2>1, <3>1
  <2> QED
    BY <2>1, <2>2, <2>3 DEF FskNext, Noise, Mark, Begin, Change, fskVars, demVars
<1> QED  BY <1>1, <1>2, PTL DEF FskSpec

\* fsk_dem.c:185-193: whatever the line carries, recvBuf has room for the characters of
\* a frame.
THEOREM RecvBufIsEnough == FskSpec => []FitsInRecvBuf
<1>1. DecisorOK /\ RoomInv => FitsInRecvBuf
  <2> SUFFICES ASSUME DecisorOK, RoomInv PROVE FitsInRecvBuf
    OBVIOUS
  <2>1. /\ NS \in Nat /\ NS > 0 /\ i \in 0..NS-1 /\ LeastSamples \in Nat /\ LeastSamples > 0
        /\ nChar \in Nat
    <3>1. NBits \in Nat /\ FSK_SPB \in Nat /\ NBits * FSK_SPB \in Nat
      BY FskAssumption
    <3> QED  BY <3>1, FskAssumption DEF LeastSamples, DecisorOK
  <2>2. Had \in Nat
    <3>1. nBit * FSK_SPB \in Nat /\ NBits * FSK_SPB \in Nat
      BY FskAssumption DEF DecisorOK
    <3> QED  BY <3>1 DEF Had, DecisorOK
  <2>3. nChar > 0 => (nChar - 1) * LeastSamples \in Nat /\ (nChar - 1) * LeastSamples <= NS - 1
    BY <2>1, <2>2 DEF RoomInv
  <2>4. nChar > 0 => nChar - 1 <= (NS - 1) \div LeastSamples
    BY <2>1, <2>3
  <2>5. (NS - 1) \div LeastSamples \in Nat /\ (NS \div FSK_SPB) \div (NBits + 2) \in Nat
    BY <2>1, FskAssumption
  <2> QED  BY <2>1, <2>4, <2>5, FrameAssumption DEF FitsInRecvBuf, RecvBufLen
<1> QED  BY <1>1, RoomHolds, PTL

--------------------------------------------------------------------------------
(* A character that begins when the decisor waits for one.                 *)

\* The line is in the bit that it should be in, or Jitter samples off.
LineOK ==
  phase = "char" =>
    /\ p \in 0..CharLen /\ k \in 0..NBits+1 /\ sent \in Chars
    /\ k > 0 => FSK_SPB * k < p + Jitter + 1
    /\ k <= NBits => p <= FSK_SPB * (k + 1) + Jitter

InStart == stat = "DEC_WAIT_START" /\ p < 4 /\ count = p /\ got = <<>>

InData ==
  /\ stat = "DEC_DATA_RECV" /\ nBit \in 0..NBits-1 /\ count \in 0..FSK_SPB-1
  /\ p = 4 + nBit * FSK_SPB + count
  /\ \A j \in 0..nBit-1 : tmpChar[j] = sent[j]
  /\ got = <<>>

\* No sample of the stop bit has been looked at.
InStop ==
  /\ stat = "DEC_WAIT_STOP" /\ count \in Nat /\ p = 4 + NBits * FSK_SPB + count
  /\ count > 4 => k <= NBits
  /\ tmpChar = sent /\ got = <<>>

\* The line stays 1.
IsDone ==
  /\ stat = "DEC_WAIT_START" /\ count = 0
  /\ k >= NBits /\ (k = NBits => sent[NBits - 1] = 1)
  /\ got = <<sent>>

\* The decisor is where the line is.
InStep == phase = "char" /\ ready => InStart \/ InData \/ InStop \/ IsDone

StepInv == LineOK /\ tmpChar \in Chars /\ recvVal \in Bit /\ InStep

\* Bits do not overlap.
LEMMA BitsApart ==
  /\ NBits \in Nat /\ NBits > 0 /\ FSK_SPB \in Nat /\ FSK_SPB > 4 /\ Jitter \in Nat
  /\ Jitter <= 3 /\ Jitter + 4 <= FSK_SPB
  /\ \A a \in Nat : /\ FSK_SPB * a \in Nat /\ a * FSK_SPB = FSK_SPB * a
                    /\ FSK_SPB * (a + 1) = FSK_SPB * a + FSK_SPB
  /\ \A a, b \in Nat : a < b => FSK_SPB * a + FSK_SPB <= FSK_SPB * b
<1>1. /\ NBits \in Nat /\ NBits > 0 /\ FSK_SPB \in Nat /\ FSK_SPB > 4 /\ Jitter \in Nat
      /\ Jitter <= 3 /\ Jitter + 4 <= FSK_SPB
  BY FskAssumption, EdgesAssumption
<1>2. \A a \in Nat : /\ FSK_SPB * a \in Nat /\ a * FSK_SPB = FSK_SPB * a
                    /\ FSK_SPB * (a + 1) = FSK_SPB * a + FSK_SPB
  BY <1>1
<1>3. ASSUME NEW a \in Nat, NEW b \in Nat, a < b PROVE FSK_SPB * a + FSK_SPB <= FSK_SPB * b
  <2>1. a + 1 <= b
    BY <1>3
  <2>2. FSK_SPB * (a + 1) <= FSK_SPB * b
    BY <1>1, <2>1
  <2> QED  BY <1>2, <2>2
<1> QED  BY <1>1, <1>2, <1>3

\* A sample of a character: the bit b it may be of, and what the decisor is told.
LEMMA BitOfSample ==
  ASSUME StepInv, CharSample
  PROVE  \E b \in {k, k + 1} :
           /\ b \in 0..NBits+1 /\ k' = b /\ p' = p + 1 /\ p < CharLen
           /\ b > 0 => FSK_SPB * b <= p + Jitter
           /\ b <= NBits => p < FSK_SPB * (b + 1) + Jitter
           /\ Level(b) \in Bit /\ recvVal' = Level(b) /\ Decide(Level(b))
           /\ UNCHANGED <<phase, sent, ready>>
<1>1. /\ phase = "char" /\ p < CharLen /\ p' = p + 1 /\ UNCHANGED <<phase, sent, ready>>
  BY DEF CharSample
<1>2. PICK b \in {k, k + 1} :
        /\ b = k => (k = NBits + 1 \/ p < FSK_SPB * (k + 1) + Jitter)
        /\ b = k + 1 => k <= NBits /\ p + Jitter >= FSK_SPB * (k + 1)
        /\ k' = b
        /\ Sample(IF Level(b) = 0 THEN "above" ELSE "below")
  BY DEF CharSample
<1>3. /\ p \in Nat /\ k \in 0..NBits+1 /\ sent \in Chars
      /\ k > 0 => FSK_SPB * k < p + Jitter + 1
      /\ k <= NBits => p <= FSK_SPB * (k + 1) + Jitter
  BY <1>1 DEF StepInv, LineOK
<1>4. b \in 0..NBits+1
  BY <1>2, <1>3, BitsApart
<1>5. b > 0 => FSK_SPB * b <= p + Jitter
  <2>1. CASE b = k
    BY <1>3, <2>1, BitsApart
  <2>2. CASE b = k + 1
    BY <1>2, <1>3, <2>2, BitsApart
  <2> QED  BY <1>2, <2>1, <2>2
<1>6. b <= NBits => p < FSK_SPB * (b + 1) + Jitter
  <2>1. CASE b = k
    BY <1>2, <1>3, <2>1, BitsApart
  <2>2. CASE b = k + 1 /\ b <= NBits
    <3>1. k \in Nat /\ b \in Nat /\ k <= NBits
      BY <1>3, <2>2, BitsApart
    <3>2. FSK_SPB * (b + 1) = FSK_SPB * b + FSK_SPB /\ FSK_SPB * b \in Nat
      BY <3>1, BitsApart
    <3>3. p <= FSK_SPB * b + Jitter
      BY <1>3, <2>2, <3>1
    <3> QED  BY <1>3, <3>2, <3>3, BitsApart
  <2> QED  BY <1>2, <2>1, <2>2
<1>7. Level(b) \in Bit
  <2>1. b # 0 /\ b # NBits + 1 => b - 1 \in 0..NBits-1
    BY <1>4, BitsApart
  <2> QED  BY <1>3, <2>1 DEF Level, Bit, Chars
<1>8. recvVal' = Level(b) /\ Decide(Level(b))
  BY <1>2, <1>7 DEF Sample, Bit
<1> QED  BY <1>1, <1>2, <1>4, <1>5, <1>6, <1>7, <1>8

\* The decisor follows a character to its end.
LEMMA SampleKeepsStep == ASSUME StepInv, CharSample PROVE StepInv'
<1>1. PICK b \in {k, k + 1} :
           /\ b \in 0..NBits+1 /\ k' = b /\ p' = p + 1 /\ p < CharLen
           /\ b > 0 => FSK_SPB * b <= p + Jitter
           /\ b <= NBits => p < FSK_SPB * (b + 1) + Jitter
           /\ Level(b) \in Bit /\ recvVal' = Level(b) /\ Decide(Level(b))
           /\ UNCHANGED <<phase, sent, ready>>
  BY BitOfSample
<1>2. phase = "char" /\ p \in Nat /\ sent \in Chars /\ k \in 0..NBits+1
  BY DEF CharSample, StepInv, LineOK
<1>3. LineOK'
  <2>1. CharLen \in Nat
    BY BitsApart DEF CharLen
  <2>2. p + 1 \in 0..CharLen
    BY <1>1, <1>2, <2>1
  <2>3. b > 0 => FSK_SPB * b < p + 1 + Jitter + 1
    BY <1>1, <1>2, BitsApart
  <2>4. b <= NBits => p + 1 <= FSK_SPB * (b + 1) + Jitter
    BY <1>1, <1>2, BitsApart
  <2>5. CharLen' = CharLen /\ Chars' = Chars
    BY DEF CharLen, Chars, Bit
  <2> QED  BY <1>1, <1>2, <2>2, <2>3, <2>4, <2>5 DEF LineOK
<1>4. tmpChar' \in Chars
  <2>1. tmpChar' \in {tmpChar, Zero} \/ tmpChar' = [tmpChar EXCEPT ![nBit] = Level(b)]
    BY <1>1 DEF Decide, WaitStart, DataRecv, WaitStop
  <2>2. Zero \in Chars
    BY DEF Zero, Chars, Bit
  <2> QED  BY <1>1, <2>1, <2>2 DEF StepInv, Chars
<1>5. recvVal' \in Bit
  BY <1>1
<1>6. ASSUME ready PROVE (InStart \/ InData \/ InStop \/ IsDone)'
  <2>1. InStart \/ InData \/ InStop \/ IsDone
    BY <1>2, <1>6 DEF StepInv, InStep
  <2>2. CASE InStart
    <3>1. b = 0
      <4>1. ASSUME b > 0 PROVE FALSE
        <5>1. FSK_SPB * 0 + FSK_SPB <= FSK_SPB * b /\ FSK_SPB * 0 \in Nat /\ FSK_SPB * b \in Nat
          BY <1>1, <4>1, BitsApart
        <5> QED  BY <1>1, <1>2, <2>2, <4>1, <5>1, BitsApart DEF InStart
      <4> QED  BY <1>1, <4>1, BitsApart
    <3>2. Level(b) = 0 /\ WaitStart(0)
      BY <1>1, <2>2, <3>1 DEF Level, Decide, InStart
    <3>3. got' = <<>>
      BY <2>2, <3>2 DEF WaitStart, Stored, InStart
    <3>4. CASE count + 1 < 4
      BY <1>1, <1>2, <2>2, <3>2, <3>3, <3>4 DEF WaitStart, InStart
    <3>5. CASE ~(count + 1 < 4)
      <4>1. stat' = "DEC_DATA_RECV" /\ count' = 0 /\ nBit' = 0 /\ p' = 4
        BY <1>1, <1>2, <2>2, <3>2, <3>5 DEF WaitStart, InStart
      <4>2. 0 * FSK_SPB = 0 /\ 0 \in 0..NBits-1 /\ 0 \in 0..FSK_SPB-1
        BY BitsApart
      <4> QED  BY <3>3, <4>1, <4>2 DEF InData
    <3> QED  BY <3>4, <3>5
  <2>3. CASE InData
    <3>1. /\ nBit \in 0..NBits-1 /\ count \in 0..FSK_SPB-1 /\ p = 4 + nBit * FSK_SPB + count
          /\ DataRecv(Level(b)) /\ got = <<>> /\ nBit \in Nat
      BY <1>1, <2>3 DEF InData, Decide
    <3>2. got' = <<>>
      BY <3>1 DEF DataRecv, Stored
    <3>3. CASE count + 1 # FSK_SPB
      <4>1. count' = count + 1 /\ UNCHANGED <<stat, nBit, tmpChar>>
        BY <3>1, <3>3 DEF DataRecv
      <4>2. count + 1 \in 0..FSK_SPB-1 /\ p + 1 = 4 + nBit * FSK_SPB + (count + 1)
        BY <3>1, <3>3, BitsApart
      <4> QED  BY <1>1, <2>3, <3>2, <4>1, <4>2 DEF InData
    <3>4. CASE count + 1 = FSK_SPB
      <4>1. /\ tmpChar' = [tmpChar EXCEPT ![nBit] = Level(b)] /\ nBit' = nBit + 1 /\ count' = 0
            /\ stat' = IF nBit' = NBits THEN "DEC_WAIT_STOP" ELSE stat
        BY <3>1, <3>4 DEF DataRecv
      <4>2. p = FSK_SPB * (nBit + 1) + 3 /\ p + 1 = 4 + (nBit + 1) * FSK_SPB + 0
        BY <3>1, <3>4, BitsApart
      <4>3. b = nBit + 1
        <5>1. ASSUME b > nBit + 1 PROVE FALSE
          <6>1. FSK_SPB * (nBit + 1) + FSK_SPB <= FSK_SPB * b
            BY <1>1, <3>1, <5>1, BitsApart
          <6>2. FSK_SPB * b \in Nat /\ FSK_SPB * (nBit + 1) \in Nat /\ b > 0
            BY <1>1, <3>1, <5>1, BitsApart
          <6> QED  BY <1>1, <4>2, <6>1, <6>2, BitsApart
        <5>2. ASSUME b < nBit + 1 PROVE FALSE
          <6>1. b + 1 \in Nat /\ b + 1 <= nBit + 1 /\ b <= NBits
            BY <1>1, <3>1, <5>2, BitsApart
          <6>2. FSK_SPB * (b + 1) <= FSK_SPB * (nBit + 1)
            <7>1. CASE b + 1 = nBit + 1
              BY <3>1, <7>1, BitsApart
            <7>2. CASE b + 1 < nBit + 1
              <8>1. FSK_SPB * (b + 1) + FSK_SPB <= FSK_SPB * (nBit + 1)
                BY <3>1, <6>1, <7>2, BitsApart
              <8>2. FSK_SPB * (b + 1) \in Nat /\ FSK_SPB * (nBit + 1) \in Nat
                BY <3>1, <6>1, BitsApart
              <8> QED  BY <8>1, <8>2, BitsApart
            <7> QED  BY <3>1, <6>1, <7>1, <7>2
          <6>3. FSK_SPB * (b + 1) \in Nat /\ FSK_SPB * (nBit + 1) \in Nat
            BY <3>1, <6>1, BitsApart
          <6> QED  BY <1>1, <4>2, <6>1, <6>2, <6>3, BitsApart
        <5> QED  BY <1>1, <3>1, <5>1, <5>2, BitsApart
      <4>4. Level(b) = sent[nBit]
        BY <3>1, <4>3, BitsApart DEF Level
      <4>5. tmpChar \in Chars
        BY DEF StepInv
      <4>6. \A j \in 0..nBit : tmpChar'[j] = sent[j]
        BY <2>3, <3>1, <4>1, <4>4, <4>5 DEF InData, Chars
      <4>7. CASE nBit + 1 = NBits
        <5>1. \A j \in 0..NBits-1 : tmpChar'[j] = sent[j]
          BY <3>1, <4>6, <4>7, BitsApart
        <5>2. tmpChar' = sent
          <6>1. /\ tmpChar' = [j \in 0..NBits-1 |-> tmpChar'[j]]
                /\ sent = [j \in 0..NBits-1 |-> sent[j]]
            BY <1>2, <1>4 DEF Chars
          <6> QED  BY <5>1, <6>1
        <5>3. stat' = "DEC_WAIT_STOP" /\ p' = 4 + NBits * FSK_SPB + 0
          BY <1>1, <4>1, <4>2, <4>7
        <5> QED  BY <1>1, <3>2, <4>1, <5>2, <5>3 DEF InStop
      <4>8. CASE nBit + 1 # NBits
        <5>1. stat' = "DEC_DATA_RECV" /\ nBit + 1 \in 0..NBits-1 /\ 0 \in 0..FSK_SPB-1
          BY <2>3, <3>1, <4>1, <4>8, BitsApart DEF InData
        <5>2. p' = 4 + nBit' * FSK_SPB + count'
          BY <1>1, <4>1, <4>2
        <5>3. \A j \in 0..nBit'-1 : tmpChar'[j] = sent'[j]
          <6>1. nBit' - 1 = nBit /\ sent' = sent
            BY <1>1, <3>1, <4>1
          <6> QED  BY <4>6, <6>1
        <5> QED  BY <3>2, <4>1, <5>1, <5>2, <5>3 DEF InData
      <4> QED  BY <4>7, <4>8
    <3> QED  BY <3>3, <3>4
  <2>4. CASE InStop
    <3>1. /\ WaitStop(Level(b)) /\ count \in Nat /\ got = <<>> /\ tmpChar = sent
          /\ p = 4 + NBits * FSK_SPB + count /\ stat = "DEC_WAIT_STOP"
      BY <1>1, <2>4 DEF InStop, Decide
    <3>2. tmpChar' = tmpChar /\ nBit' = nBit
      BY <3>1 DEF WaitStop
    <3>3. /\ NBits * FSK_SPB = FSK_SPB * NBits /\ FSK_SPB * NBits \in Nat
          /\ FSK_SPB * (NBits + 1) = FSK_SPB * NBits + FSK_SPB
      BY BitsApart
    <3>4. CASE count + 1 <= 4
      <4>1. count' = count + 1 /\ stat' = stat /\ got' = got
        BY <3>1, <3>4 DEF WaitStop, Stored
      <4>2. ~(count + 1 > 4) /\ p + 1 = 4 + NBits * FSK_SPB + (count + 1)
        BY <3>1, <3>3, <3>4
      <4> QED  BY <1>1, <3>1, <3>2, <4>1, <4>2 DEF InStop
    <3>5. ~(count + 1 > FSK_SPB + 4)
      <4> SUFFICES ASSUME count + 1 > FSK_SPB + 4 PROVE FALSE
        OBVIOUS
      <4>1. k <= NBits
        BY <2>4, <3>1, BitsApart DEF InStop
      <4>2. p <= FSK_SPB * (k + 1) + Jitter
        BY <1>2, <4>1 DEF StepInv, LineOK
      <4>3. FSK_SPB * (k + 1) <= FSK_SPB * (NBits + 1)
        <5>1. k = NBits \/ k < NBits
          BY <1>2, <4>1, BitsApart
        <5>2. k < NBits => FSK_SPB * k + FSK_SPB <= FSK_SPB * NBits
          BY <1>2, BitsApart
        <5>3. FSK_SPB * (k + 1) = FSK_SPB * k + FSK_SPB /\ FSK_SPB * k \in Nat
          BY <1>2, BitsApart
        <5> QED  BY <3>3, <5>1, <5>2, <5>3, BitsApart
      <4>4. FSK_SPB * (k + 1) \in Nat
        BY <1>2, BitsApart
      <4> QED  BY <3>1, <3>3, <4>2, <4>3, <4>4, BitsApart
    <3>6. CASE ~(count + 1 <= 4) /\ Level(b) = 1
      <4>1. stat' = "DEC_WAIT_START" /\ count' = 0 /\ Stored(1)
        BY <3>1, <3>5, <3>6 DEF WaitStop
      <4>2. got' = <<sent>>
        BY <1>2, <3>1, <4>1 DEF Stored
      <4>3. b >= NBits
        <5> SUFFICES ASSUME b < NBits PROVE FALSE
          BY <1>1, BitsApart
        <5>1. FSK_SPB * b + FSK_SPB <= FSK_SPB * NBits /\ FSK_SPB * (b + 1) = FSK_SPB * b + FSK_SPB
          BY <1>1, BitsApart
        <5>2. p < FSK_SPB * (b + 1) + Jitter /\ FSK_SPB * b \in Nat
          BY <1>1, BitsApart
        <5> QED  BY <3>1, <3>3, <3>6, <5>1, <5>2, BitsApart
      <4>4. b = NBits => sent[NBits - 1] = 1
        BY <3>6, BitsApart DEF Level
      <4> QED  BY <1>1, <4>1, <4>2, <4>3, <4>4 DEF IsDone
    <3>7. CASE ~(count + 1 <= 4) /\ Level(b) # 1
      <4>1. stat' = stat /\ count' = count + 1 /\ got' = got
        BY <3>1, <3>5, <3>7 DEF WaitStop, Stored
      <4>2. b <= NBits
        BY <1>1, <3>7, BitsApart DEF Level
      <4>3. p + 1 = 4 + NBits * FSK_SPB + (count + 1)
        BY <3>1, <3>3
      <4> QED  BY <1>1, <3>1, <3>2, <4>1, <4>2, <4>3 DEF InStop
    <3> QED  BY <3>4, <3>6, <3>7
  <2>5. CASE IsDone
    <3>1. b >= NBits /\ (b = NBits => k = NBits)
      BY <1>1, <1>2, <2>5, BitsApart DEF IsDone
    <3>2. Level(b) = 1
      BY <1>1, <2>5, <3>1, BitsApart DEF Level, IsDone
    <3>3. WaitStart(1)
      BY <1>1, <2>5, <3>2 DEF Decide, IsDone
    <3> QED  BY <1>1, <2>5, <3>1, <3>3 DEF WaitStart, Stored, IsDone
  <2> QED  BY <2>1, <2>2, <2>3, <2>4, <2>5
<1> QED  BY <1>1, <1>3, <1>4, <1>5, <1>6 DEF StepInv, InStep

\* Other samples find no character on the line.
LEMMA OtherSamplesKeepStep ==
  ASSUME StepInv, phase # "char", phase' = phase, NEW v \in {"above", "below", "equal"}, Sample(v)
  PROVE  StepInv'
<1>1. recvVal' \in Bit
  BY DEF Sample, StepInv, Bit
<1>2. tmpChar' \in Chars
  <2>1. tmpChar' = tmpChar \/ \E w \in Bit : Decide(w)
    BY DEF Sample, StepInv, Bit
  <2>2. ASSUME NEW w \in Bit, Decide(w) PROVE tmpChar' \in Chars
    <3>1. tmpChar' \in {tmpChar, Zero} \/ tmpChar' = [tmpChar EXCEPT ![nBit] = w]
      BY <2>2 DEF Decide, WaitStart, DataRecv, WaitStop
    <3>2. Zero \in Chars
      BY DEF Zero, Chars, Bit
    <3> QED  BY <3>1, <3>2 DEF StepInv, Chars
  <2> QED  BY <2>1, <2>2 DEF StepInv
<1> QED  BY <1>1, <1>2 DEF StepInv, LineOK, InStep

\* fsk_dem.c:228-288: the decisor and the line keep step.
LEMMA StepInvHolds == FskSpec => []StepInv
<1>1. FskInit => StepInv
  BY DEF FskInit, StepInv, LineOK, InStep, Zero, Chars, Bit
<1>2. StepInv /\ [FskNext]_fskVars => StepInv'
  <2> SUFFICES ASSUME StepInv, [FskNext]_fskVars PROVE StepInv'
    OBVIOUS
  <2>1. CASE Noise
    BY <2>1, OtherSamplesKeepStep DEF Noise, lineVars
  <2>2. CASE Mark
    BY <2>2, OtherSamplesKeepStep DEF Mark, lineVars
  <2>3. CASE CharSample
    BY <2>3, SampleKeepsStep
  <2>4. CASE Begin
    <3>1. /\ phase' = "char" /\ p' = 0 /\ k' = 0 /\ got' = <<>> /\ sent' \in Chars
          /\ ready' => stat = "DEC_WAIT_START" /\ count = 0
          /\ UNCHANGED <<stat, count, recvVal, tmpChar>>
      BY <2>4 DEF Begin, demVars
    <3>2. LineOK'
      <4>1. CharLen \in Nat /\ CharLen' = CharLen /\ 0 \in 0..NBits+1
        BY BitsApart DEF CharLen
      <4>2. 0 <= FSK_SPB * (0 + 1) + Jitter
        BY BitsApart
      <4> QED  BY <3>1, <4>1, <4>2 DEF LineOK, Chars, Bit
    <3>3. InStep'
      BY <3>1 DEF InStep, InStart
    <3> QED  BY <3>1, <3>2, <3>3 DEF StepInv, Chars, Bit
  <2>5. CASE Change \/ FskDemodInit
    <3>1. phase' # "char" /\ UNCHANGED <<recvVal, tmpChar>>
      BY <2>5 DEF Change, FskDemodInit, demVars, lineVars
    <3> QED  BY <3>1 DEF StepInv, LineOK, InStep
  <2>6. CASE UNCHANGED fskVars
    BY <2>6 DEF fskVars, lineVars, StepInv, LineOK, InStep, InStart, InData, InStop, IsDone, CharLen
  <2> QED  BY <2>1, <2>2, <2>3, <2>4, <2>5, <2>6 DEF FskNext
<1> QED  BY <1>1, <1>2, PTL DEF FskSpec

\* fsk_dem.c:228-288: a character that begins when the decisor waits for one is received
\* once and without error, if its edges leave four samples of a bit alone.
THEOREM CharactersAreReceived == FskSpec => []DecodesWhatIsSent
<1>1. StepInv => DecodesWhatIsSent
  <2> SUFFICES ASSUME StepInv, phase = "char", p = CharLen, ready PROVE got = <<sent>>
    BY DEF DecodesWhatIsSent
  <2>1. /\ CharLen = FSK_SPB * NBits + FSK_SPB + FSK_SPB /\ FSK_SPB * NBits \in Nat
        /\ FSK_SPB * (NBits + 1) = FSK_SPB * NBits + FSK_SPB /\ NBits * FSK_SPB = FSK_SPB * NBits
    <3>1. FSK_SPB * (NBits + 1 + 1) = FSK_SPB * (NBits + 1) + FSK_SPB /\ NBits + 1 + 1 = NBits + 2
      BY BitsApart
    <3> QED  BY <3>1, BitsApart DEF CharLen
  <2>2. ~InStart
    BY <2>1, BitsApart DEF InStart
  <2>3. ~InData
    <3> SUFFICES ASSUME InData PROVE FALSE
      OBVIOUS
    <3>1. /\ nBit \in Nat /\ nBit < NBits /\ count \in 0..FSK_SPB-1
          /\ p = 4 + nBit * FSK_SPB + count
      BY BitsApart DEF InData
    <3>2. FSK_SPB * nBit + FSK_SPB <= FSK_SPB * NBits /\ nBit * FSK_SPB = FSK_SPB * nBit
          /\ FSK_SPB * nBit \in Nat
      BY <3>1, BitsApart
    <3> QED  BY <2>1, <3>1, <3>2, BitsApart
  <2>4. ~InStop
    <3> SUFFICES ASSUME InStop PROVE FALSE
      OBVIOUS
    <3>1. count > 4 /\ k <= NBits /\ k \in Nat
      <4>1. count \in Nat /\ p = 4 + NBits * FSK_SPB + count /\ (count > 4 => k <= NBits)
        BY DEF InStop
      <4>2. k \in 0..NBits+1
        BY DEF StepInv, LineOK
      <4> QED  BY <2>1, <4>1, <4>2, BitsApart
    <3>2. p <= FSK_SPB * (k + 1) + Jitter /\ FSK_SPB * (k + 1) = FSK_SPB * k + FSK_SPB /\ FSK_SPB * k \in Nat
      BY <3>1, BitsApart DEF StepInv, LineOK
    <3>3. FSK_SPB * k <= FSK_SPB * NBits
      <4>1. k < NBits => FSK_SPB * k + FSK_SPB <= FSK_SPB * NBits
        BY <3>1, BitsApart
      <4> QED  BY <2>1, <3>1, <3>2, <4>1, BitsApart
    <3> QED  BY <2>1, <3>2, <3>3, BitsApart
  <2> QED  BY <2>2, <2>3, <2>4 DEF StepInv, InStep, IsDone
<1> QED  BY <1>1, StepInvHolds, PTL
================================================================================
