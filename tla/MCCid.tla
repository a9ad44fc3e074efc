--------------------------------- MODULE MCCid ---------------------------------
\* The two layers of the Caller ID.  The link layer: bytes of five values, of
\* which one is the seizure, one the message type and one a length too long for the
\* buffer.  The presentation layer: any buffer that the link layer may have left,
\* with messages of every kind, too long, cut short, and with a negative length.
EXTENDS Cid

CONSTANTS
  MsgBytes, SignBit, MSG_BUFLEN, DATE_TIME, CLI_A, CLI_B, ABS_REASON, DATE_LEN, TELNUM_MAX, SHOWN,
  NumCheck(_)        \* the verdict of the phone book

\* The kinds of messages have codes of their own, and a byte is a number.
ASSUME MsgAssumption ==
  /\ MsgBytes \subseteq Nat /\ MSG_BUFLEN \in Nat /\ SHOWN \in Nat
  /\ ABS_REASON \notin {DATE_TIME, CLI_A, CLI_B} /\ DATE_TIME \notin {CLI_A, CLI_B}

VARIABLES layer, msgBuf, msgDataLen, msgIdx, retVal, telNum, clock, pc

McCheck(num) == IF num \in {<<>>, <<4>>} THEN "TF_NUM_REJECT" ELSE "TF_NUM_OK"

Msg == INSTANCE CidMsg WITH
  Bytes <- MsgBytes, BUFLEN <- MSG_BUFLEN, TfNumCheck <- NumCheck, TfFilterHidden <- "TF_HID_REJECT",
  buf <- msgBuf, dataLen <- msgDataLen, idx <- msgIdx

link == <<state, idx, dataLen, csum, buf, result, frame>>
msg == <<msgBuf, msgDataLen, msgIdx, retVal, telNum, clock, pc>>

McInit ==
  \/ layer = "link" /\ Init
     /\ msgBuf = <<>> /\ msgDataLen = 0 /\ msgIdx = 0 /\ retVal = "none" /\ telNum = <<>>
     /\ clock = <<>> /\ pc = "none"
  \/ layer = "messages" /\ Init /\ Msg!Init

McNext ==
  /\ UNCHANGED layer
  /\ \/ layer = "link" /\ Next /\ UNCHANGED msg
     \/ layer = "messages" /\ Msg!Next /\ UNCHANGED link
     \/ layer = "messages" /\ pc # "parsing" /\ UNCHANGED <<link, msg>>   \* it has returned

McSpec == McInit /\ [][McNext]_<<layer, link, msg>>

VerdictIsOfTheNumber == layer = "messages" => Msg!VerdictIsOfTheNumber
ShowsWhatIsReceived == layer = "messages" => Msg!ShowsWhatIsReceived
================================================================================
