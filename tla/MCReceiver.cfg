\* Samples: bits of six samples as in the code, characters of two bits, edges two
\* samples early or late, and frames in which recvBuf is just large enough.  Bytes:
\* every stream with frames of up to eight; every payload of up to six.  Numbers:
\* books of up to seven bytes, cursors that count to eight, every failure of a save,
\* and power cuts.
SPECIFICATION ReceiverSpec
CONSTANTS
  NS = 36
  FSK_SPB = 6
  FSK_NO_CARRIER_CYCLES = 7
  NBits = 2
  Jitter = 2
  ByteSize = 5
  CID_SEIZURE_CHR = 3
  CID_CALL_SETUP = 4
  CID_SEIZURE_BYTES = 2
  CID_MAX_WRONG_MSG_TYPE = 2
  CID_BUFLEN = 2
  MaxFrame = 8
  MsgBytes = {0, 1, 2, 4, 5}
  SignBit = 5
  MSG_BUFLEN = 6
  DATE_TIME = 1
  CLI_A = 2
  CLI_B = 5
  ABS_REASON = 4
  DATE_LEN = 2
  TELNUM_MAX = 3
  SHOWN = 1
  NumCheck <- McCheck
  TF_BUFLEN = 16
  CursorSize = 8
  Numbers <- McNumbers
  MaxBook = 7
INVARIANTS
  FitsInRecvBuf
  DecodesWhatIsSent
  AcceptsFrames
  PayloadIsReceived
  VerdictIsOfTheNumber
  ShowsTheCursor
  FiltersTheList
PROPERTIES
  ImplementsPhoneBook
  BootRestoresBook
