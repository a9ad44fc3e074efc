---------------------------------- MODULE Cid ----------------------------------
(***************************************************************************)
(* The link layer of the Caller ID (cid.c): CidParse looks in the stream   *)
(* of demodulated bytes for a frame - channel seizure, some wrong bytes,   *)
(* the message type, a length, that many bytes and a checksum - and copies *)
(* its payload to a buffer.                                                *)
(*                                                                         *)
(* The parser keeps its state from one call to the next, so that bytes are *)
(* taken one by one; what is left of a chunk after CID_END is dropped.     *)
(***************************************************************************)
EXTENDS Naturals, Sequences

CONSTANTS
  ByteSize,                \* values of a byte (256)
  CID_SEIZURE_CHR,         \* 0x55
  CID_CALL_SETUP,          \* 0x80
  CID_SEIZURE_BYTES,       \* 27
  CID_MAX_WRONG_MSG_TYPE,  \* 4
  CID_BUFLEN,              \* 128
  MaxFrame                 \* bound of the model: bytes since a frame began

Bytes == 0..ByteSize-1

ASSUME CidAssumption ==
  /\ ByteSize \in Nat \ {0}
  /\ {CID_SEIZURE_CHR, CID_CALL_SETUP} \subseteq Bytes
  /\ CID_SEIZURE_CHR # CID_CALL_SETUP
  /\ {CID_SEIZURE_BYTES, CID_MAX_WRONG_MSG_TYPE, CID_BUFLEN} \subseteq Nat \ {0}

VARIABLES
  state,    \* cid.state
  idx,      \* cid.idx: counts seizure bytes and wrong bytes, or indexes buf
  dataLen, csum, buf,
  result,   \* what CidParse returned last
  frame     \* history: the bytes of the frame that is being received

vars == <<state, idx, dataLen, csum, buf, result, frame>>

TypeOK ==
  /\ state \in {"SEIZURE_WAIT", "SEIZURE", "MSG_TYPE", "DATALEN", "DATA"}
  /\ idx \in 0..MaxFrame
  /\ dataLen \in 0..CID_BUFLEN
  /\ csum \in Bytes
  /\ buf \in [0..CID_BUFLEN-1 -> Bytes]
  /\ result \in {"CID_OK", "CID_END"}
  /\ Len(frame) <= MaxFrame

Init ==
  /\ state = "SEIZURE_WAIT" /\ idx = 0 /\ dataLen = 0 /\ csum = 0
  /\ buf = [i \in 0..CID_BUFLEN-1 |-> 0]
  /\ result = "CID_OK" /\ frame = <<>>

--------------------------------------------------------------------------------
(***************************************************************************)
(* What a frame is, apart from the parser.  A frame begins with n seizure  *)
(* bytes, then m wrong bytes, then r message types.                        *)
(***************************************************************************)
Header(f, n, m, r) ==
  /\ n >= CID_SEIZURE_BYTES /\ m <= CID_MAX_WRONG_MSG_TYPE /\ r >= 1
  /\ n + m + r <= Len(f)
  /\ \A i \in 1..n : f[i] = CID_SEIZURE_CHR
  /\ f[n + 1] # CID_SEIZURE_CHR
  /\ \A i \in n+1..n+m : f[i] # CID_CALL_SETUP
  /\ \A i \in n+m+1..n+m+r : f[i] = CID_CALL_SETUP
  /\ Len(f) > n + m + r => f[n + m + r + 1] # CID_CALL_SETUP

\* The header of f is its first h bytes.
Headed(f, h) == \E n, m \in 0..h : Header(f, n, m, h - n - m)

\* f is seizure bytes only.
Seizes(f) == \A i \in DOMAIN f : f[i] = CID_SEIZURE_CHR

\* f is n seizure bytes and m wrong bytes.
IsWrong(f, n, m) ==
  /\ n >= CID_SEIZURE_BYTES /\ m \in 1..CID_MAX_WRONG_MSG_TYPE
  /\ n + m = Len(f)
  /\ \A i \in 1..n : f[i] = CID_SEIZURE_CHR
  /\ f[n + 1] # CID_SEIZURE_CHR
  /\ \A i \in n+1..n+m : f[i] # CID_CALL_SETUP

\* f may still become a frame, or is one.
Viable(f) ==
  \/ Seizes(f)
  \/ \E n, m \in 0..Len(f) : IsWrong(f, n, m)
  \/ \E h \in 0..Len(f) :
       /\ Headed(f, h)
       /\ Len(f) > h => f[h + 1] <= CID_BUFLEN /\ Len(f) <= h + 2 + f[h + 1]

\* The payload of f with its length and checksum, when f is complete.
Tails(f) ==
  {SubSeq(f, h + 1, Len(f)) :
     h \in {g \in 0..Len(f)-1 : Headed(f, g) /\ Len(f) = g + 2 + f[g + 1]}}

BytesSum(t) ==
  LET upTo[j \in 0..Len(t)] == IF j = 0 THEN 0 ELSE upTo[j - 1] + t[j]
  IN  upTo[Len(t)]

IsFrame(f) == \E t \in Tails(f) : (CID_CALL_SETUP + BytesSum(t)) % ByteSize = 0

--------------------------------------------------------------------------------
(***************************************************************************)
(* CidParse                                                                *)
(***************************************************************************)
\* The byte changes nothing but these.
Go(st, i) == state' = st /\ idx' = i /\ UNCHANGED <<dataLen, csum, buf>>
CallSetup(i) ==
  state' = "DATALEN" /\ idx' = i /\ csum' = CID_CALL_SETUP /\ UNCHANGED <<dataLen, buf>>

SeizureWait(b) ==
  /\ state = "SEIZURE_WAIT"
  /\ IF b = CID_SEIZURE_CHR THEN Go("SEIZURE", 1) ELSE Go("SEIZURE_WAIT", idx)

Seizure(b) ==
  /\ state = "SEIZURE"
  /\ IF b = CID_SEIZURE_CHR THEN Go("SEIZURE", idx + 1)
     ELSE IF idx < CID_SEIZURE_BYTES THEN Go("SEIZURE_WAIT", idx)
     ELSE IF b = CID_CALL_SETUP THEN CallSetup(0) ELSE Go("MSG_TYPE", 0)

\* Fault: idx, which has counted the wrong bytes, is not cleared.
MsgType_KeepsIdx(b) ==
  /\ state = "MSG_TYPE"
  /\ IF b = CID_CALL_SETUP THEN CallSetup(idx)
     ELSE Go(IF idx + 1 >= CID_MAX_WRONG_MSG_TYPE THEN "SEIZURE_WAIT" ELSE "MSG_TYPE",
             idx + 1)

MsgType(b) ==
  /\ state = "MSG_TYPE"
  /\ IF b = CID_CALL_SETUP THEN CallSetup(0)
     ELSE Go(IF idx + 1 >= CID_MAX_WRONG_MSG_TYPE THEN "SEIZURE_WAIT" ELSE "MSG_TYPE",
             idx + 1)

\* Fault: a payload one byte too long for the buffer is accepted.
TooLong_OffByOne(b) == b > CID_BUFLEN + 1

TooLong(b) == b > CID_BUFLEN

\* Another message type is skipped.
DataLen(b) ==
  /\ state = "DATALEN"
  /\ IF b = CID_CALL_SETUP THEN Go("DATALEN", idx)
     ELSE IF TooLong(b) THEN Go("SEIZURE_WAIT", idx)
     ELSE /\ dataLen' = b /\ csum' = (csum + b) % ByteSize
          /\ state' = "DATA"
          /\ UNCHANGED <<idx, buf>>

DataByte(b) ==
  /\ state = "DATA" /\ idx < dataLen
  /\ buf' = [buf EXCEPT ![idx] = b]
  /\ idx' = idx + 1
  /\ csum' = (csum + b) % ByteSize
  /\ UNCHANGED <<state, dataLen>>

Checksum(b) ==
  /\ state = "DATA" /\ idx >= dataLen
  /\ state' = "SEIZURE_WAIT"
  /\ idx' = IF (csum + b) % ByteSize = 0 THEN 0 ELSE idx
  /\ UNCHANGED <<dataLen, csum, buf>>

\* Fault: a frame is reported whatever its checksum.
Ends_NoChecksum(b) == state = "DATA" /\ idx >= dataLen

Ends(b) == state = "DATA" /\ idx >= dataLen /\ (csum + b) % ByteSize = 0

\* One byte.  After CID_END main.c reads the messages and hands CidParse nothing
\* more before the next call.
Byte(b) ==
  /\ result = "CID_OK"
  /\ \/ SeizureWait(b) \/ Seizure(b) \/ MsgType(b) \/ DataLen(b)
     \/ DataByte(b) \/ Checksum(b)
  /\ result' = IF Ends(b) THEN "CID_END" ELSE "CID_OK"
  /\ LET f == Append(frame, b)
     IN frame' = IF Viable(f) /\ (IsFrame(f) \/ Tails(f) = {}) THEN f ELSE <<>>

\* Fault: the state is not reset for the next call.
CidReset_KeepsState ==
  /\ result' = "CID_OK" /\ frame' = <<>>
  /\ UNCHANGED <<state, idx, dataLen, csum, buf>>

\* The end of a call (CallProcEnd), whatever had been received.
CidReset ==
  /\ state' = "SEIZURE_WAIT"
  /\ result' = "CID_OK" /\ frame' = <<>>
  /\ UNCHANGED <<idx, dataLen, csum, buf>>

Next ==
  \/ \E b \in Bytes : Len(frame) < MaxFrame /\ Byte(b)
  \/ CidReset

Spec == Init /\ [][Next]_vars

--------------------------------------------------------------------------------
\* cid.c:109-209: CID_END is returned for the last byte of a frame with a valid
\* checksum, and never for anything else, whatever came before it: noise, half
\* a frame, another call.  Until then the parser searches for a seizure exactly
\* when what it has received can no longer become a frame.
AcceptsFrames ==
  /\ (result = "CID_END") = (frame # <<>> /\ IsFrame(frame))
  /\ result = "CID_OK" => (state = "SEIZURE_WAIT") = (frame = <<>>)

\* cid.c:168-202: the payload of the frame is what the buffer holds, and never
\* what an earlier frame left in it; nothing is written past the buffer.
PayloadIsReceived ==
  /\ state = "DATA" => idx <= dataLen /\ dataLen <= CID_BUFLEN
  /\ result = "CID_END" =>
       \E t \in Tails(frame) :
         /\ t[1] = dataLen
         /\ \A i \in 1..dataLen : buf[i - 1] = t[i + 1]
================================================================================
