\* Buffers of three samples, files of up to eleven: a card that is too slow.
SPECIFICATION RawPlayFairSpec
CONSTANTS
  RAWP_BUF_NS = 3
  MaxLen = 11
PROPERTY RawPlayReturns
CHECK_DEADLOCK FALSE
