---------------------------------- MODULE Rtc ----------------------------------
(***************************************************************************)
(* The clock (rtc.c): the TIMER1 interrupt counts seconds, minutes, hours  *)
(* and days, the Caller ID sets everything but the year, the user sets the *)
(* year, and main.c stamps the log with a date and a time.                 *)
(*                                                                         *)
(* Each function of the module disables interrupts while it copies the     *)
(* variables, so that each is one step.  Log() disables them too before it *)
(* calls two of them, but the first one enables them again.                *)
(***************************************************************************)
EXTENDS Integers

CONSTANTS
  Secs, Mins, Hours,   \* length of a minute, an hour and a day (60, 60, 24)
  Years,               \* values of rtcYear (256)
  DefYear,             \* RTC_DEF_YEAR_NUM - 1980
  SetDays              \* bound of the model: days of the month that are set

VARIABLES
  date,   \* rtcYear, rtcMon, rtcMday
  time,   \* rtcHour, rtcMin, rtcSec
  pc,     \* where Log() is
  stamp,  \* the date and the time it has read
  lo      \* history: the clock when it read the date

vars == <<date, time, pc, stamp, lo>>

samurai == <<31, 28, 31, 30, 31, 30, 31, 31, 30, 31, 30, 31>>
Midnight == <<0, 0, 0>>
Clock == <<date, time>>

Default == <<<<DefYear, 1, 1>>, Midnight>>

Init ==
  /\ date = Default[1] /\ time = Default[2]
  /\ pc = "idle" /\ stamp = Default /\ lo = Default

--------------------------------------------------------------------------------
\* Fault: February always has 28 days.
MaxDay_NoLeap(y, m) == samurai[m]

MaxDay(y, m) == IF samurai[m] = 28 /\ y % 4 = 0 THEN 29 ELSE samurai[m]

\* Fault: the day is not reset at the end of a month.
NextDay_NoReset(d) ==
  IF d[3] + 1 <= MaxDay(d[1], d[2]) THEN <<d[1], d[2], d[3] + 1>>
  ELSE IF d[2] < 12 THEN <<d[1], d[2] + 1, d[3]>>
  ELSE <<(d[1] + 1) % Years, 1, d[3]>>

NextDay(d) ==
  IF d[3] + 1 <= MaxDay(d[1], d[2]) THEN <<d[1], d[2], d[3] + 1>>
  ELSE IF d[2] < 12 THEN <<d[1], d[2] + 1, 1>>
  ELSE <<(d[1] + 1) % Years, 1, 1>>

\* Carries over from the seconds to the day.  Log() takes less than a second.
_T1Interrupt ==
  /\ pc # "idle" => Clock = lo
  /\ LET s == time[3] + 1
         m == IF s >= Secs THEN time[2] + 1 ELSE time[2]
         h == IF m >= Mins THEN time[1] + 1 ELSE time[1]
     IN /\ time' = <<h % Hours, m % Mins, s % Secs>>
        /\ date' = IF h >= Hours THEN NextDay(date) ELSE date
  /\ UNCHANGED <<pc, stamp, lo>>

\* What a Caller ID frame carries is a date of some year, and no seconds.
RtcSetTime(mon, day, hour, min) ==
  /\ date' = <<date[1], mon, day>>
  /\ time' = <<hour, min, 0>>
  /\ UNCHANGED <<pc, stamp, lo>>

\* Four digits are accepted, and no other check is made.
RtcSetYear(year) ==
  /\ date' = <<(year - 1980) % Years, date[2], date[3]>>
  /\ UNCHANGED <<time, pc, stamp, lo>>

\* Log(): RtcGetDate, RtcGetTime, and the line is written.
LogDate ==
  /\ pc = "idle"
  /\ pc' = "dated"
  /\ stamp' = <<date, stamp[2]>> /\ lo' = Clock
  /\ UNCHANGED <<date, time>>

LogTime ==
  /\ pc = "dated"
  /\ pc' = "done"
  /\ stamp' = <<stamp[1], time>>
  /\ UNCHANGED <<date, time, lo>>

LogWrite ==
  /\ pc = "done"
  /\ pc' = "idle"
  /\ stamp' = Default /\ lo' = Default    \* they are local
  /\ UNCHANGED <<date, time>>

\* main.c sets the clock when it is not logging.
Set ==
  /\ pc = "idle"
  /\ \/ \E m \in 1..12 : \E d \in SetDays \cap 1..MaxDay(0, m), h \in 0..Hours-1, n \in 0..Mins-1 :
          RtcSetTime(m, d, h, n)
     \/ \E y \in 1980-Years..1980+Years-1 : RtcSetYear(y)

Log == LogDate \/ LogTime \/ LogWrite

Next == _T1Interrupt \/ Set \/ Log

Spec == Init /\ [][Next]_vars

\* TIMER1 runs on its own crystal, whatever the CPU does, and Log() returns.
FairSpec == Spec /\ WF_vars(_T1Interrupt) /\ WF_vars(LogTime \/ LogWrite)

--------------------------------------------------------------------------------
(***************************************************************************)
(* A calendar with a leap year every fourth year: the number of the day    *)
(* since January 1st of year 0, and of the second.                         *)
(***************************************************************************)
DaysBefore == <<0, 31, 59, 90, 120, 151, 181, 212, 243, 273, 304, 334>>
LeapDay(y, m) == IF y % 4 = 0 /\ m > 2 THEN 1 ELSE 0
Day(d) == 365 * d[1] + (d[1] + 3) \div 4 + DaysBefore[d[2]] + LeapDay(d[1], d[2]) + d[3] - 1
Now == ((Day(date) * Hours + time[1]) * Mins + time[2]) * Secs + time[3]
Period == (365 * Years + Years \div 4) * Hours * Mins * Secs

Exists(d) == d[3] <= MaxDay(d[1], d[2])

\* rtc.c:42-75: across every end of a minute, an hour, a day, a month (in leap
\* years and others), a year and the range of rtcYear, a tick is one second.
CountsEverySecond == [][_T1Interrupt /\ Exists(date) => Now' = (Now + 1) % Period]_vars

\* A Caller ID or a year set by the user can leave the clock at February 29th of
\* another year (user_if.c:1035-1041, main.c:398-402).  Once the clock is no
\* longer set it is soon, and stays, at a date that exists.
DateBecomesValid == (<>[][~Set]_vars) => <>[]Exists(date)

\* main.c:593, 602-604: "Logs a string to log file, preceded by the date and
\* time", with interrupts disabled first: the stamp is that of one moment.
StampIsOfOneMoment == pc = "done" => stamp \in {lo, Clock}
================================================================================
