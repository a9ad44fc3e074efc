\* Buffers of three samples, files of up to four: what is played of a file.
SPECIFICATION RawPlaySpec
CONSTANTS
  RAWP_BUF_NS = 3
  MaxLen = 4
INVARIANT ReturnMeansPlayed
CHECK_DEADLOCK FALSE
