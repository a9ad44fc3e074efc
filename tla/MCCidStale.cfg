\* Every payload of up to six bytes; a number is shown whole.
SPECIFICATION McSpec
CONSTANTS
  ByteSize = 5
  CID_SEIZURE_CHR = 3
  CID_CALL_SETUP = 4
  CID_SEIZURE_BYTES = 2
  CID_MAX_WRONG_MSG_TYPE = 2
  CID_BUFLEN = 2
  MaxFrame = 8
  MsgBytes = {0, 1, 2, 4, 5}
  SignBit = 5
  MSG_BUFLEN = 6
  DATE_TIME = 1
  CLI_A = 2
  CLI_B = 5
  ABS_REASON = 4
  DATE_LEN = 2
  TELNUM_MAX = 3
  SHOWN = 3
  NumCheck <- McCheck
INVARIANT ShowsWhatIsReceived
