---------------------------------- MODULE CidMsg ----------------------------------
(***************************************************************************)
(* The presentation layer of the Caller ID: ParseMessages (main.c) goes    *)
(* through the messages in the buffer that CidParse has filled (Cid), with *)
(* CidPlMsgParse (cid.c), and finds the number and the verdict on it.  A   *)
(* step is a turn of its loop.                                             *)
(***************************************************************************)
EXTENDS Integers, Sequences

CONSTANTS
  Bytes,             \* values of a byte
  SignBit,           \* from here on a byte is negative as a char (0x80)
  BUFLEN,            \* CID_BUFLEN (128)
  DATE_TIME, CLI_A, CLI_B, ABS_REASON,    \* CID_MSG_... (1, 2, 3, 4)
  DATE_LEN, TELNUM_MAX, SHOWN,            \* lengths of a date, a number, telNum (8, 20, 16)
  TfNumCheck(_), TfFilterHidden           \* verdicts of TelFilt

VARIABLES
  buf, dataLen, idx,   \* as CidParse left them
  retVal, telNum,      \* of ParseMessages
  clock,               \* what RtcSetTime was called with last
  pc                   \* "parsing", "done", or "astray": idx went back

vars == <<buf, dataLen, idx, retVal, telNum, clock, pc>>

\* Stands for the characters of the texts the program writes itself; no byte of a number.
Text == -1

Blanks == <<Text>>
NumOk == "TF_NUM_OK"

\* CidParse has set idx to 0 and stored any dataLen bytes; an earlier frame the rest.
Init ==
  /\ buf \in [0..BUFLEN-1 -> Bytes] /\ dataLen \in 0..BUFLEN
  /\ idx = 0
  /\ retVal = NumOk /\ telNum = Blanks /\ clock = <<>>
  /\ pc = "parsing"

\* A message may begin, or go on, behind the buffer: anything may be there.
At(i) == IF i < BUFLEN THEN {buf[i]} ELSE Bytes

\* The n bytes that msg points to when it points to buf[i].
Read(i, n) == {d \in [1..n -> Bytes] : \A k \in 1..n : d[k] \in At(i + k - 1)}

Shown(len) == IF len < SHOWN THEN len ELSE SHOWN

\* The name shown for a number that is absent.
AbsentName(reason) == <<Text, reason>>

\* Fault: a reason leaves the verdict on an earlier number.
Absent_NoVerdict(reason) == telNum' = AbsentName(reason) /\ UNCHANGED retVal

Absent(reason) == telNum' = AbsentName(reason) /\ retVal' = TfFilterHidden

\* A message that is too long, or that is not known, changes nothing.
Message(code, len) ==
  IF code = DATE_TIME /\ len = DATE_LEN
  THEN (\E d \in Read(idx + 2, len) : clock' = d) /\ UNCHANGED <<retVal, telNum>>
  ELSE IF code \in {CLI_A, CLI_B} /\ len <= TELNUM_MAX
  THEN \E d \in Read(idx + 2, Shown(len)) :
         telNum' = d /\ retVal' = TfNumCheck(d) /\ UNCHANGED clock
  ELSE IF code = ABS_REASON /\ len = 1
  THEN (\E d \in Read(idx + 2, 1) : Absent(d[1])) /\ UNCHANGED clock
  ELSE UNCHANGED <<retVal, telNum, clock>>

\* A length of 0x80 or more is negative: idx goes back, where nothing was meant to
\* be a message, and the loop may not end.
ParseMessage ==
  /\ pc = "parsing" /\ idx < dataLen /\ buf[idx] # 0
  /\ \E len \in At(idx + 1) :
       IF len >= SignBit
       THEN pc' = "astray" /\ UNCHANGED <<idx, retVal, telNum, clock>>
       ELSE Message(buf[idx], len) /\ idx' = idx + 2 + len /\ pc' = pc
  /\ UNCHANGED <<buf, dataLen>>

\* No message is left, or its code is 0.  idx is not used again before CidParse
\* sets it.
ParseDone ==
  /\ pc = "parsing"
  /\ idx < dataLen => buf[idx] = 0
  /\ pc' = "done"
  /\ UNCHANGED <<buf, dataLen, idx, retVal, telNum, clock>>

Next == ParseMessage \/ ParseDone

Spec == Init /\ [][Next]_vars

--------------------------------------------------------------------------------
\* The message at byte i, and those of the payload from there on.  A message is in the
\* payload if all its bytes are: what lies behind dataLen is of an earlier frame.
MessageAt(i) == [code |-> buf[i], data |-> [k \in 1..buf[i + 1] |-> buf[i + 1 + k]]]

Messages[i \in Nat] ==
  IF i + 1 >= dataLen \/ buf[i] = 0 \/ i + 2 + buf[i + 1] > dataLen THEN <<>>
  ELSE <<MessageAt(i)>> \o Messages[i + 2 + buf[i + 1]]

\* A message that says who calls.
Tells(m) ==
  \/ m.code \in {CLI_A, CLI_B} /\ Len(m.data) <= TELNUM_MAX
  \/ m.code = ABS_REASON /\ Len(m.data) = 1

\* When ParseMessages returns from a payload of whole messages, the number on the
\* display and in the log, and the verdict, are those of the last message of this
\* payload that says who calls: never the number of one and the verdict of another,
\* and nothing of a frame before; a number is judged as it is shown, cut to the size
\* of telNum (main.c:382-452).
VerdictIsOfTheNumber ==
  pc = "done" /\ idx <= dataLen =>
    LET who == {k \in DOMAIN Messages[0] : Tells(Messages[0][k])}
        m == Messages[0][CHOOSE k \in who : \A j \in who : j <= k]
        num == SubSeq(m.data, 1, Shown(Len(m.data)))
    IN  IF who = {} THEN telNum = Blanks /\ retVal = NumOk
        ELSE IF m.code = ABS_REASON
        THEN telNum = AbsentName(m.data[1]) /\ retVal = TfFilterHidden
        ELSE telNum = num /\ retVal = TfNumCheck(num)

\* cid.c:75-77: CidPlMsgParse parses "a message from the Presentation Layer (if
\* available)", so that what is shown of a caller is in a message of this payload.
\* It is not: no length is compared with dataLen, and a last message that is longer
\* than what is left of the payload goes on in the bytes of an earlier frame.
ShowsWhatIsReceived ==
  pc = "done" /\ telNum \notin {Blanks, <<>>} =>
    \E k \in DOMAIN Messages[0] :
      LET m == Messages[0][k]
      IN  /\ Tells(m)
          /\ telNum = IF m.code = ABS_REASON THEN AbsentName(m.data[1])
                      ELSE SubSeq(m.data, 1, Shown(Len(m.data)))
===================================================================================
