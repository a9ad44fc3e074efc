-------------------------------- MODULE StrInput --------------------------------
(***************************************************************************)
(* The entry of a number or of a year, character by character (user_if.c): *)
(* UP and DOWN change the character under the cursor, ENTER takes it, and  *)
(* goes on, back or to the end.  The program keeps the string in sNum and  *)
(* the display keeps its own line and cursor, which only commands move.    *)
(***************************************************************************)
EXTENDS Integers, Sequences

CONSTANTS
  FirstChr, LastChr,     \* the codes of the digits
  NUM_LEN, YEAR_LEN,     \* maxLen of a number and of a year (13, 4)
  RTC_DEF_YEAR_STR       \* the year that is shown first, of YEAR_LEN digits

UIF_CHR_BACK == 127
UIF_CHR_END == 46
UIF_CHR_BLANK == 32
Back == LastChr + 1         \* the characters after the digits
End == LastChr + 2

VARIABLES
  scr,        \* ud.s: "ADD_NUM", "YEAR_SET" or "OTHER"
  sNum,       \* ud.str.buf
  chr, idx,   \* ud.str
  lcd,        \* the second line of the display, and the cursor's column
  blink,      \* the cursor is on and blinks
  entered     \* history: the last string that was taken, and what was shown of it

vars == <<scr, sNum, chr, idx, lcd, blink, entered>>

MaxLen == IF scr = "YEAR_SET" THEN YEAR_LEN ELSE NUM_LEN

--------------------------------------------------------------------------------
(* The display: a character moves the cursor to the right (utils.h).       *)

Blank == [row |-> [c \in 0..NUM_LEN |-> UIF_CHR_BLANK], col |-> 0]   \* cleared, on line 2
Putc(l, c) == [row |-> [l.row EXCEPT ![l.col] = c], col |-> l.col + 1]
ShiftLeft(l) == [l EXCEPT !.col = @ - 1]
ShiftRight(l) == [l EXCEPT !.col = @ + 1]
Puts(l, str) ==
  [row |-> [c \in 0..NUM_LEN |-> IF c - l.col \in 0..Len(str)-1 THEN str[c - l.col + 1] ELSE l.row[c]],
   col |-> l.col + Len(str)]

Glyph(c) == IF c = Back THEN UIF_CHR_BACK ELSE IF c = End THEN UIF_CHR_END ELSE c

\* The C string in buf.
strlen(buf) == CHOOSE k \in DOMAIN buf : buf[k] = 0 /\ \A j \in 0..k-1 : buf[j] # 0
String(buf) == [k \in 1..strlen(buf) |-> buf[k - 1]]

--------------------------------------------------------------------------------
(* UifStrInputStart and UifStrInputEdit, after the screen was cleared.     *)

Start ==
  /\ scr' = "ADD_NUM" /\ blink' = TRUE
  /\ sNum' = [i \in DOMAIN sNum |-> IF i < NUM_LEN THEN FirstChr ELSE sNum[i]]
  /\ chr' = FirstChr /\ idx' = 0
  /\ lcd' = ShiftLeft(Putc(Blank, FirstChr))
  /\ UNCHANGED entered

\* strncpy writes no '\0' after the year; UifStrInputEdit does.
YearStr(buf) ==
  LET copied == [i \in DOMAIN buf |-> IF i < YEAR_LEN THEN RTC_DEF_YEAR_STR[i + 1] ELSE buf[i]]
  IN [i \in DOMAIN buf |-> IF i = YEAR_LEN THEN 0
                           ELSE IF i \in strlen(copied)..YEAR_LEN-1 THEN FirstChr ELSE copied[i]]

\* The cursor goes back from the end of str to its position.
Edit(buf) ==
  /\ scr' = "YEAR_SET" /\ blink' = TRUE
  /\ sNum' = YearStr(buf)
  /\ idx' = YEAR_LEN - 1 /\ chr' = sNum'[idx']
  /\ lcd' = LET l == Puts(Blank, String(sNum')) IN [l EXCEPT !.col = @ - (strlen(sNum') - idx')]
  /\ UNCHANGED entered

EnterAddNum == scr = "OTHER" /\ Start
EnterYearSet == scr = "OTHER" /\ Edit(sNum)

\* ENTER, ESC and a ring all lead to a screen that begins with a cleared display.
Leave == scr' = "OTHER" /\ lcd' = Blank /\ UNCHANGED <<sNum, chr, idx>>

--------------------------------------------------------------------------------
\* The character under the cursor becomes c.
Turn(c) ==
  /\ scr # "OTHER"
  /\ chr' = c /\ lcd' = ShiftLeft(Putc(lcd, Glyph(c)))
  /\ UNCHANGED <<scr, sNum, idx, blink, entered>>

UifStrInputForward == Turn(IF chr + 1 > End THEN FirstChr ELSE chr + 1)
UifStrInputBackward == Turn(IF chr = FirstChr THEN End ELSE chr - 1)

\* The end: an empty string is not taken, and a year needs all its digits.
EnterEnd ==
  /\ scr # "OTHER" /\ chr = End
  /\ LET str == [sNum EXCEPT ![idx] = 0] IN
     IF idx = 0 THEN sNum' = str /\ UNCHANGED <<scr, chr, idx, lcd, blink, entered>>
     ELSE IF scr = "YEAR_SET" /\ idx # YEAR_LEN THEN Edit(str)
     ELSE /\ scr' = "OTHER" /\ lcd' = Blank /\ blink' = FALSE
          /\ sNum' = str
          /\ entered' = [str |-> String(str), seen |-> [k \in 1..lcd.col |-> lcd.row[k - 1]]]
          /\ UNCHANGED <<chr, idx>>

\* Fault: the display goes back one column too few.
EnterBack_StaysRight ==
  /\ scr # "OTHER" /\ chr = Back /\ idx > 0
  /\ idx' = idx - 1 /\ chr' = sNum[idx']
  /\ lcd' = ShiftLeft(Putc(lcd, UIF_CHR_BLANK))
  /\ UNCHANGED <<scr, sNum, blink, entered>>

EnterBack ==
  /\ scr # "OTHER" /\ chr = Back /\ idx > 0
  /\ idx' = idx - 1 /\ chr' = sNum[idx']
  /\ lcd' = ShiftLeft(ShiftLeft(Putc(lcd, UIF_CHR_BLANK)))
  /\ UNCHANGED <<scr, sNum, blink, entered>>

\* A digit of a string that is not full; the next is what was typed there before.
EnterDigit ==
  /\ scr # "OTHER" /\ chr \in FirstChr..LastChr /\ idx < MaxLen
  /\ sNum' = [sNum EXCEPT ![idx] = chr]
  /\ idx' = idx + 1
  /\ chr' = IF idx' = MaxLen THEN End ELSE sNum'[idx']
  /\ lcd' = ShiftLeft(Putc(ShiftRight(lcd), Glyph(chr')))
  /\ UNCHANGED <<scr, blink, entered>>

Esc == scr # "OTHER" /\ Leave /\ blink' = FALSE /\ UNCHANGED entered

\* A ring does not switch the cursor off.
Ring == scr # "OTHER" /\ Leave /\ UNCHANGED <<blink, entered>>

Init ==
  /\ scr = "YEAR_SET" /\ blink = TRUE
  /\ sNum = YearStr([i \in 0..NUM_LEN |-> 0])
  /\ idx = YEAR_LEN - 1 /\ chr = sNum[idx]
  /\ lcd = ShiftLeft(Puts(Blank, RTC_DEF_YEAR_STR))
  /\ entered = [str |-> <<>>, seen |-> <<>>]

Next ==
  \/ EnterAddNum \/ EnterYearSet \/ UifStrInputForward \/ UifStrInputBackward
  \/ EnterEnd \/ EnterBack \/ EnterDigit \/ Esc \/ Ring

Spec == Init /\ [][Next]_vars

--------------------------------------------------------------------------------
\* The display and sNum, which are written apart from each other, never differ:
\* the digits before the cursor are those of the string, the cursor is on the
\* character that can be chosen, nothing is behind it, and the string that is taken
\* is the one that was on the display, with its '\0' in the right place, after any
\* way back and forth, and whatever an earlier entry left in sNum
\* (user_if.c:282-382, 446-483, 583-584, 1036-1037).
EntryIsShown ==
  /\ entered.str = entered.seen
  /\ scr # "OTHER" =>
       /\ blink /\ lcd.col = idx
       /\ lcd.row = [c \in 0..NUM_LEN |-> IF c < idx THEN sNum[c]
                                          ELSE IF c = idx THEN Glyph(chr) ELSE UIF_CHR_BLANK]
================================================================================
