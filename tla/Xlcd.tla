---------------------------------- MODULE Xlcd ----------------------------------
(***************************************************************************)
(* The LCD driver: the functions of xlcd/ and the macros of utils.h over   *)
(* them, the eight-bit bus, and the controller at its other end (an        *)
(* SPLC780D, from its use here).                                           *)
(*                                                                         *)
(* A byte is the set of its bits that are 1, so that & is an intersection  *)
(* and the pins DATA_PIN_7..0 take it as it is.  Each function is the      *)
(* sequence of what it does to the pins; the controller works in between.  *)
(* It is busy for some time after each command, and does not see what it   *)
(* is told then.                                                           *)
(***************************************************************************)
EXTENDS Naturals, SequencesExt

CONSTANTS
  COLS,       \* cells of a line of the controller (40)
  ROW2,       \* address of the second line (0x40)
  CELLS,      \* bytes of the character generator (64)
  Strings,    \* what is displayed
  Positions   \* where the cursor is set

VARIABLES
  todo,       \* what is left of the function that is running
  bus,        \* the pins: direction, latches, RW, RS, E
  flag,       \* what BusyXLCD returned
  data,       \* what ReadDataXLCD or ReadAddrXLCD returned, if one did
  lcd,        \* the controller: its memory, address, modes, and whether it is busy
  want        \* history: what the calls so far ask the display to be

vars == <<todo, bus, flag, data, lcd, want>>

Weight == <<1, 2, 4, 8, 16, 32, 64, 128>>
Byte(n) == {i \in 0..7 : (n \div Weight[i + 1]) % 2 = 1}
Value(b) ==
  LET Bit(i) == IF i \in b THEN Weight[i + 1] ELSE 0
  IN  Bit(0) + Bit(1) + Bit(2) + Bit(3) + Bit(4) + Bit(5) + Bit(6) + Bit(7)

\* xlcd.h.
DON == Byte(15)
CURSOR_ON == Byte(15)
CURSOR_OFF == Byte(13)
BLINK_ON == Byte(15)
BLINK_OFF == Byte(14)
CLEAR_XLCD == Byte(1)
INCR_MODE == Byte(7)
ENTIRE_SHIFT_OFF == Byte(6)
SHIFT_CUR_LEFT == Byte(19)
SHIFT_CUR_RIGHT == Byte(23)
EIGHT_BIT == Byte(63)
TWO_LINE == Byte(63)
SEG1_50_SEG51_100 == Byte(57)
COM1_COM16 == Byte(62)

Blank == Byte(32)

--------------------------------------------------------------------------------
(* What a function does to the pins, a step at a time.                     *)

Out(rs, b) == [do |-> "out", rs |-> rs, b |-> b]   \* RW = 0, RS, the latches as outputs
In(rs) == [do |-> "in", rs |-> rs, dir |-> "in"]   \* the pins as inputs, RW = 1, RS
Do(what) == [do |-> what]                          \* "raise", "lower" E; "release" the pins ...
Delay(ends) == [do |-> "delay", ends |-> ends]     \* longer than what the controller does

Write(rs, b) == <<Out(rs, b), Do("raise"), Do("lower")>>

\* Fault: the data pins stay outputs.
BusyXLCD_Outputs == <<[In(0) EXCEPT !.dir = "out"], Do("raise"), Do("flag"), Do("lower")>>

BusyXLCD == <<In(0), Do("raise"), Do("flag"), Do("lower")>>

XLCD_BUSY_WAIT == BusyXLCD \o <<Do("while")>>

DelayPORXLCD == <<Delay({"reset", "long", "short"})>>
Delay200usXLCD == <<Delay({"short"})>>

WriteCmdXLCD(cmd) == Write(0, cmd) \o XLCD_BUSY_WAIT

\* Fault: no wait for the controller.
WriteDataXLCD_NoWait(c) == Write(1, c) \o <<Do("release")>>

WriteDataXLCD(c) == Write(1, c) \o <<Do("release")>> \o XLCD_BUSY_WAIT

PutsXLCD(buffer) == FlattenSeq([i \in DOMAIN buffer |-> WriteDataXLCD(buffer[i])])

SetDDRamAddr(address) ==
  Write(0, Byte(address) \cup {7}) \o <<Do("release")>> \o Delay200usXLCD

SetCGRamAddr(address) ==
  Write(0, (Byte(address) \ {7}) \cup {6}) \o <<Do("release")>> \o XLCD_BUSY_WAIT

ReadDataXLCD == <<In(1), Do("raise"), Do("data"), Do("lower")>>
ReadAddrXLCD == <<In(0), Do("raise"), Do("address"), Do("lower")>>

OpenXLCD(lcdType) ==
  DelayPORXLCD \o <<Out(0, {})>>
  \o WriteCmdXLCD(lcdType)
  \o WriteCmdXLCD(DON \cap BLINK_OFF \cap CURSOR_ON)
  \o WriteCmdXLCD(CLEAR_XLCD)
  \o WriteCmdXLCD(ENTIRE_SHIFT_OFF \cap INCR_MODE)

--------------------------------------------------------------------------------
(* The controller.                                                         *)

Cells == [mem : {"dd"}, a : 0..COLS-1 \cup ROW2..ROW2+COLS-1] \cup [mem : {"cg"}, a : 0..CELLS-1]
Dd(a) == [mem |-> "dd", a |-> a]
Cg(a) == [mem |-> "cg", a |-> a]

\* The lines follow one another, and so do the bytes of the generator.
After(at) ==
  IF at.mem = "cg" THEN Cg((at.a + 1) % CELLS)
  ELSE IF at.a = COLS - 1 THEN Dd(ROW2)
  ELSE IF at.a = ROW2 + COLS - 1 THEN Dd(0)
  ELSE Dd(at.a + 1)
Before(at) == CHOOSE b \in Cells : After(b) = at

Erased(mem) == [c \in Cells |-> IF c.mem = "dd" THEN Blank ELSE mem[c]]

Moved(l) == [l EXCEPT !.at = IF l.incr THEN After(@) ELSE Before(@), !.busy = "short"]

\* A command is known by its highest bit.  Only the shifts of the cursor are used.
Obey(l, b) ==
  LET top == Max(b)
      s == [l EXCEPT !.busy = "short"]
  IN  CASE b = {} -> l
        [] top = 7 -> [s EXCEPT !.at = Dd(Value(b \ {7}))]
        [] top = 6 -> [s EXCEPT !.at = Cg(Value(b \ {6}))]
        [] top = 5 -> [s EXCEPT !.eight = 4 \in b, !.two = 3 \in b]
        [] top = 4 -> [s EXCEPT !.at = IF 2 \in b THEN After(@) ELSE Before(@)]
        [] top = 3 -> [s EXCEPT !.on = 2 \in b, !.cursor = 1 \in b, !.blink = 0 \in b]
        [] top = 2 -> [s EXCEPT !.incr = 1 \in b]
        [] top = 1 -> [s EXCEPT !.at = Dd(0), !.busy = "long"]
        [] top = 0 -> [s EXCEPT !.at = Dd(0), !.mem = Erased(@), !.incr = TRUE, !.busy = "long"]

Store(l, b) == Moved([l EXCEPT !.mem[l.at] = b])

\* What it does when E falls.
Latch(l) ==
  IF l.busy # "no" THEN l
  ELSE IF bus.rw = 0 THEN IF bus.rs = 0 THEN Obey(l, bus.lat) ELSE Store(l, bus.lat)
  ELSE IF bus.rs = 1 THEN Moved(l) ELSE l

\* What it puts on the bus while E is high and RW is 1.
Drives ==
  IF bus.rs = 1 THEN lcd.mem[lcd.at]
  ELSE Byte(lcd.at.a) \cup (IF lcd.busy = "no" THEN {} ELSE {7})

Ready == lcd.busy # "no" /\ lcd' = [lcd EXCEPT !.busy = "no"] /\ UNCHANGED <<todo, bus, flag, data, want>>

--------------------------------------------------------------------------------
(* The steps of the driver.                                                *)

Doing(what) == todo # <<>> /\ Head(todo).do = what
PortB == IF bus.dir = "in" THEN Drives ELSE bus.lat

SetOut ==
  /\ Doing("out")
  /\ bus' = [dir |-> "out", lat |-> Head(todo).b, rw |-> 0, rs |-> Head(todo).rs, e |-> 0]
  /\ todo' = Tail(todo) /\ UNCHANGED <<flag, data, lcd, want>>

SetIn ==
  /\ Doing("in")
  /\ bus' = [bus EXCEPT !.dir = Head(todo).dir, !.lat = {}, !.rw = 1, !.rs = Head(todo).rs]
  /\ todo' = Tail(todo) /\ UNCHANGED <<flag, data, lcd, want>>

Release ==
  /\ Doing("release")
  /\ bus' = [bus EXCEPT !.dir = "in", !.lat = {}, !.rs = 0]
  /\ todo' = Tail(todo) /\ UNCHANGED <<flag, data, lcd, want>>

Raise ==
  /\ Doing("raise")
  /\ bus' = [bus EXCEPT !.e = 1]
  /\ todo' = Tail(todo) /\ UNCHANGED <<flag, data, lcd, want>>

Lower ==
  /\ Doing("lower")
  /\ bus' = [bus EXCEPT !.e = 0] /\ lcd' = Latch(lcd)
  /\ todo' = Tail(todo) /\ UNCHANGED <<flag, data, want>>

ReadFlag ==
  /\ Doing("flag")
  /\ flag' = (7 \in PortB)
  /\ todo' = Tail(todo) /\ UNCHANGED <<bus, data, lcd, want>>

ReadData ==
  /\ Doing("data")
  /\ data' = {PortB}
  /\ todo' = Tail(todo) /\ UNCHANGED <<bus, flag, lcd, want>>

\* The result is put together in a loop over eight bytes of an array of seven: the
\* eighth is whatever follows it.
ReadAddress ==
  /\ Doing("address")
  /\ \E beyond \in {{}, Byte(255)} : data' = {(PortB \ {7}) \cup beyond}
  /\ todo' = Tail(todo) /\ UNCHANGED <<bus, flag, lcd, want>>

\* Fault: the flag is read once, before the loop.
While_Once ==
  /\ Doing("while")
  /\ todo' = IF flag THEN todo ELSE Tail(todo)
  /\ UNCHANGED <<bus, flag, data, lcd, want>>

While ==
  /\ Doing("while")
  /\ todo' = IF flag THEN BusyXLCD \o todo ELSE Tail(todo)
  /\ UNCHANGED <<bus, flag, data, lcd, want>>

\* A delay ends after what the controller does in less time.
Wait ==
  /\ Doing("delay") /\ lcd.busy \notin Head(todo).ends
  /\ todo' = Tail(todo) /\ UNCHANGED <<bus, flag, data, lcd, want>>

Drive == SetOut \/ SetIn \/ Release \/ Raise \/ Lower \/ ReadFlag \/ ReadData \/ ReadAddress \/ While \/ Wait

--------------------------------------------------------------------------------
(* What main calls, and what it wants.                                     *)

Ask(steps, w) ==
  /\ todo = <<>> /\ todo' = XLCD_BUSY_WAIT \o steps /\ want' = w /\ data' = {}
  /\ UNCHANGED <<bus, flag, lcd>>

Call(steps, w) == Ask(steps, [w EXCEPT !.read = {}])

\* want after the characters of str are written.
Written(w, str) ==
  LET after[i \in 0..Len(str)] ==
        IF i = 0 THEN w
        ELSE [after[i - 1] EXCEPT !.mem[after[i - 1].at] = str[i], !.at = After(@)]
  IN  after[Len(str)]

XLCD_PUTS == \E str \in Strings : Call(PutsXLCD(str), Written(want, str))
XLCD_PUTC == \E str \in Strings : Call(WriteDataXLCD(str[1]), Written(want, <<str[1]>>))
XLCD_LINE1 == Call(SetDDRamAddr(0), [want EXCEPT !.at = Dd(0)])
XLCD_LINE2 == Call(SetDDRamAddr(ROW2), [want EXCEPT !.at = Dd(ROW2)])
XLCD_SETPOS == \E pos \in Positions : Call(SetDDRamAddr(pos), [want EXCEPT !.at = Dd(pos)])
XLCD_SHIFT_LEFT == Call(WriteCmdXLCD(SHIFT_CUR_LEFT), [want EXCEPT !.at = Before(@)])
XLCD_SHIFT_RIGHT == Call(WriteCmdXLCD(SHIFT_CUR_RIGHT), [want EXCEPT !.at = After(@)])

XLCD_CLEAR ==
  Call(WriteCmdXLCD(CLEAR_XLCD) \o <<Delay({"long", "short"})>>,
       [want EXCEPT !.mem = Erased(@), !.at = Dd(0)])

CursorOn == Call(WriteCmdXLCD(DON \cap CURSOR_ON \cap BLINK_ON), [want EXCEPT !.cursor = TRUE])
CursorOff == Call(WriteCmdXLCD(DON \cap CURSOR_OFF \cap BLINK_OFF), [want EXCEPT !.cursor = FALSE])

\* In the header, and not called.
SetGenerator == Call(SetCGRamAddr(0), [want EXCEPT !.at = Cg(0)])
GetData == Ask(ReadDataXLCD, [want EXCEPT !.at = After(@), !.read = {want.mem[want.at]}])
GetAddr == Call(ReadAddrXLCD, want)

\* SysInit, as far as it is about the display.
Init ==
  /\ todo = OpenXLCD(EIGHT_BIT \cap TWO_LINE \cap SEG1_50_SEG51_100 \cap COM1_COM16)
             \o XLCD_BUSY_WAIT \o WriteCmdXLCD(DON \cap CURSOR_OFF \cap BLINK_OFF)
  /\ bus = [dir |-> "in", lat |-> {}, rw |-> 0, rs |-> 0, e |-> 0]
  /\ flag = FALSE /\ data = {}
  /\ lcd = [mem |-> [c \in Cells |-> {}], at |-> Dd(0), incr |-> FALSE, eight |-> FALSE, two |-> FALSE,
            on |-> FALSE, cursor |-> FALSE, blink |-> FALSE, busy |-> "reset"]
  /\ want = [mem |-> Erased([c \in Cells |-> {}]), at |-> Dd(0), cursor |-> FALSE, read |-> {}]

Next ==
  \/ Drive \/ Ready
  \/ XLCD_PUTS \/ XLCD_PUTC \/ XLCD_LINE1 \/ XLCD_LINE2 \/ XLCD_SETPOS
  \/ XLCD_SHIFT_LEFT \/ XLCD_SHIFT_RIGHT \/ XLCD_CLEAR
  \/ CursorOn \/ CursorOff \/ SetGenerator \/ GetData \/ GetAddr

Spec == Init /\ [][Next]_vars

\* Main goes on; the controller finishes what it does.
FairSpec == Spec /\ WF_vars(Drive) /\ WF_vars(Ready)

--------------------------------------------------------------------------------
(* Properties.                                                             *)

\* Whenever no function is running, the display holds the text, the cursor and the
\* modes that the calls so far ask for: no command came while the controller was
\* busy, and every one reached it bit by bit (WriteCmdXLCD, WriteDataXLCD,
\* SetDDRamAddr, which waits for a time and not for the busy flag).
ShowsWhatIsWritten ==
  todo = <<>> =>
    /\ lcd.mem = want.mem /\ lcd.at = want.at
    /\ lcd.on /\ lcd.two /\ lcd.eight /\ lcd.incr
    /\ lcd.cursor = want.cursor /\ lcd.blink = want.cursor
    /\ want.read # {} => data = want.read

\* The port and the controller never drive the bus at the same time: the pins of an
\* earlier write are inputs again before E rises for a read (BusyXLCD).
NoBusFight == ~(bus.e = 1 /\ bus.rw = 1 /\ bus.dir = "out")

\* Every function of the driver returns, although it waits for the busy flag
\* without a limit (while (BusyXLCD())).
LcdReturns == []<>(todo = <<>>)

================================================================================
