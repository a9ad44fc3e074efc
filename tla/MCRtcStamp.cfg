\* The same clock: a second passes between the date and the time of a stamp.
SPECIFICATION Spec
CONSTANTS
  Secs = 2
  Mins = 2
  Hours = 2
  Years = 4
  DefYear = 2
  SetDays = {29, 31}
INVARIANT
  StampIsOfOneMoment
