\* Three recent calls from two numbers, phone books of up to two numbers; entries of
\* three characters, years of two, from two digits.
SPECIFICATION McSpec
CONSTANTS
  UIF_NUM_RECENT_NUMS = 3
  Callers = {n1, n2}
  NULL = NULL
  MaxBook = 2
  FirstChr = 48
  LastChr = 49
  NUM_LEN = 3
  YEAR_LEN = 2
INVARIANTS
  RecentCallsInOrder
  ShowsRecentCalls
  OffBlocksNothing
  EntryIsShown
PROPERTY
  AddsWhatIsShown
