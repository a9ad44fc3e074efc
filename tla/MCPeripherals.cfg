\* The clock: every day of four years, set at any time to a day at the end of
\* a month.  The card: every byte, sectors one and two at a time.  The line: three
\* turns around the buffer.  The keys: two that move at any time.  The
\* display: two cells in each line, one character, every order of the calls.  The
\* player: buffers of three samples, files of up to eleven.
SPECIFICATION PeripheralsSpec
CONSTANTS
  Secs = 2
  Mins = 1
  Hours = 2
  Years = 4
  DefYear = 2
  SetDays = {29}
  InitTime = 3
  ReadyTime = 1
  TokenTime = 1
  Attempts = 2
  MaxCount = 2
  NS = 4
  ND = 1
  BLOCK = 2
  MaxSamples = 24
  Keys = {k1, k2, k3}
  COLS = 2
  ROW2 = 8
  CELLS = 1
  Strings <- McStrings
  Positions = {1}
  RAWP_BUF_NS = 3
  MaxLen = 11
INVARIANTS
  OkMeansDone
  EverySampleOnce
  ReportsOnce
  ShowsWhatIsWritten
  NoBusFight
  OutputIsPrefix
  EndsAfterTheFile
PROPERTIES
  CountsEverySecond
  DateBecomesValid
  Returns
  LcdReturns
  PlayerReturns
