------------------------------- MODULE MCDevices -------------------------------
(***************************************************************************)
(* Five devices whose interrupts, or answers, come between two steps of    *)
(* main.  They share no state, so that it is enough to let one run at a    *)
(* time: unit says which.                                                  *)
(***************************************************************************)
EXTENDS Naturals, Sequences

CONSTANTS
  Secs, Mins, Hours, Years, DefYear, SetDays,
  InitTime, ReadyTime, TokenTime, Attempts, MaxCount,
  NS, ND, BLOCK, MaxSamples,
  Keys,
  COLS, ROW2, CELLS, Strings, Positions

\* The calendar of rtc.c has a leap year in four, and its years are whole cycles of four.
ASSUME ClockAssumption ==
  /\ Secs \in Nat \ {0} /\ Mins \in Nat \ {0} /\ Hours \in Nat \ {0}
  /\ Years \in Nat \ {0} /\ Years % 4 = 0 /\ DefYear \in 0..Years-1

ASSUME CardAssumption == MaxCount \in Nat

\* A frame is a number of whole blocks.  The last block but one of a first frame must
\* leave the delay of the second one alone, in which main may still work.
ASSUME LineAssumption ==
  /\ NS \in Nat \ {0} /\ BLOCK \in Nat \ {0} /\ NS % BLOCK = 0
  /\ ND \in 0..BLOCK

\* A text is a sequence of bytes, each the set of its bits.
ASSUME StringsAssumption == Strings \subseteq Seq(SUBSET (0..7)) \ {<<>>}

\* Addresses have seven bits.
ASSUME PanelAssumption == ROW2 \in 0..127 /\ Positions \subseteq 0..127

VARIABLES
  unit,
  date, time, rtcPc, stamp, lo,
  op, asked, left, res, phase, app, mmcPc, n, Timer1, Timer2, NOINIT, ty, cs, spi, got, woken,
  data, dataPos, framePos, on, samples, posted, frame, taken, late,
  pins, lastP, CNIF, CNIE, keybPc, curr, keyEvents, fresh, twice, missed,
  todo, bus, flag, lcdData, lcd, want

Clock == INSTANCE Rtc WITH pc <- rtcPc
Card  == INSTANCE Mmc WITH pc <- mmcPc
Line  == INSTANCE Adc WITH time <- samples
Pad   == INSTANCE Keyb WITH pc <- keybPc, posted <- keyEvents
Panel == INSTANCE Xlcd WITH data <- lcdData

clock == <<date, time, rtcPc, stamp, lo>>
card == <<op, asked, left, res, phase, app, mmcPc, n, Timer1, Timer2, NOINIT, ty, cs, spi, got, woken>>
line == <<data, dataPos, framePos, on, samples, posted, frame, taken, late>>
pad == <<pins, lastP, CNIF, CNIE, keybPc, curr, keyEvents, fresh, twice, missed>>
panel == <<todo, bus, flag, lcdData, lcd, want>>
vars == <<unit, clock, card, line, pad, panel>>

Init ==
  /\ unit \in {"rtc", "mmc", "adc", "keyb", "lcd"}
  /\ Clock!Init /\ Card!Init /\ Line!Init /\ Pad!Init /\ Panel!Init

\* A step A of device u.
Step(u, A) ==
  /\ unit = u /\ A
  /\ UNCHANGED unit
  /\ u # "rtc"  => UNCHANGED clock
  /\ u # "mmc"  => UNCHANGED card
  /\ u # "adc"  => UNCHANGED line
  /\ u # "keyb" => UNCHANGED pad
  /\ u # "lcd"  => UNCHANGED panel

Next ==
  \/ Step("rtc", Clock!Next)
  \/ Step("mmc", Card!Next)
  \/ Step("adc", Line!Next)
  \/ Step("keyb", Pad!Next)
  \/ Step("lcd", Panel!Next)

\* The fairness of the clock, the card and the display (FairSpec of Rtc, Mmc, Xlcd).
Fairness ==
  /\ WF_clock(Step("rtc", Clock!_T1Interrupt))
  /\ WF_clock(Step("rtc", Clock!LogTime \/ Clock!LogWrite))
  /\ WF_card(Step("mmc", Card!disk_timerproc))
  /\ WF_card(Step("mmc", Card!ReadyTimeout))
  /\ WF_card(Step("mmc", Card!TokenTimeout))
  /\ WF_card(Step("mmc", Card!WaitResponse))
  /\ WF_card(Step("mmc", Card!Accept))
  /\ WF_panel(Step("lcd", Panel!Drive))
  /\ WF_panel(Step("lcd", Panel!Ready))

Spec == Init /\ [][Next]_vars /\ Fairness

McStrings == {<<{0, 6}, {5}>>}   \* "A "

\* The properties of the devices, stated where the devices are.
CountsEverySecond == Clock!CountsEverySecond
DateBecomesValid == Clock!DateBecomesValid
OkMeansDone == Card!OkMeansDone
Returns == Card!Returns
EverySampleOnce == Line!EverySampleOnce
ReportsOnce == Pad!ReportsOnce
ShowsWhatIsWritten == Panel!ShowsWhatIsWritten
NoBusFight == Panel!NoBusFight
LcdReturns == []<>(unit = "lcd" => todo = <<>>)
================================================================================
