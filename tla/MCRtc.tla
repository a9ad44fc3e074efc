--------------------------------- MODULE MCRtc ---------------------------------
\* Days of a few seconds in full years, four of which are a cycle of leap years.
EXTENDS Rtc
================================================================================
