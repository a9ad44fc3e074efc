------------------------------- MODULE MCUserIf --------------------------------
\* The menu, in which the entry of a string is one step, and that entry on its own.
EXTENDS UserIf

CONSTANTS FirstChr, LastChr, NUM_LEN, YEAR_LEN

\* A year is no longer than a number, and no digit is '\0'.
ASSUME EntryAssumption ==
  /\ FirstChr \in Nat \ {0} /\ LastChr \in Nat /\ FirstChr <= LastChr
  /\ NUM_LEN \in Nat /\ YEAR_LEN \in 1..NUM_LEN

VARIABLES part, scr, sNum, chr, idx, lcd, blink, entered

McYear == [k \in 1..YEAR_LEN |-> IF k = YEAR_LEN THEN FirstChr ELSE LastChr]

Entry == INSTANCE StrInput WITH RTC_DEF_YEAR_STR <- McYear

entry == <<scr, sNum, chr, idx, lcd, blink, entered>>

McInit == part \in {"menu", "entry"} /\ Init /\ Entry!Init

McNext ==
  /\ UNCHANGED part
  /\ \/ part = "menu" /\ Next /\ UNCHANGED entry
     \/ part = "entry" /\ Entry!Next /\ UNCHANGED vars

McSpec == McInit /\ [][McNext]_<<part, vars, entry>>

EntryIsShown == Entry!EntryIsShown
================================================================================
