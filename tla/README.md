# Balsamo: a verification project

Balsamo is the firmware of a telephone call blocker on a dsPIC30F: it waits for
a ring, decodes the caller ID, and lets the call ring or answers it with a
message from an SD card. These modules model the program, its drivers and its
file system in TLA+, check them with TLC on small instances, and prove the central
invariants with TLAPS. Paths below are relative to `src/src/Balsamo/`.

## 1. The system

One thread, `main()`, and interrupt handlers that all run at priority 4. A
handler is therefore atomic for the other handlers, and for main unless it reads
what the hardware changes meanwhile. They share an event queue, two timers, the
ADC frames, the state of the player, the timeouts of the card, and the clock.

| component | state | operations | interacts with |
|---|---|---|---|
| main loop and call state machine (`main.c`) | `sysStat`, `sysEvent`, `sleep` | `SysFsm`, `CallProcEnd`, `TimEvtWait`, Sleep/Idle | everything |
| event queue (`system.c`) | `q.ev`, `q.idx`, a LIFO of ten | `SysIQueuePut` (interrupts), `SysQueueGet` (main) | filled by five interrupts |
| timers (`tim_evt.c`) | `countMs[2]` | `TimEvtRun`, `TimEvtStop`, `_T4Interrupt` | post `SYS_TIM_EVT`, `SYS_SLEEP_TIM` |
| line (`line_if.c`) | relay, ring input | `LinePickUp`, `LineHang`, `_INT0Interrupt` | posts `SYS_RING` |
| ADC (`adc.c`) | two frames with their delay, `framePos` | `AdcStart`, `AdcStop`, `_ADCInterrupt`, `AdcGetBuf` | posts `SYS_DATA`; main works in a frame |
| FSK demodulator (`fsk_dem.c`, `*.s`) | filters, decisor state | `FskDemod`, `FskDemodInit` | samples to bytes |
| caller ID, link layer (`cid.c`) | parser state, buffer | `CidParse`, `CidReset` | bytes to a payload |
| caller ID, presentation layer (`main.c`, `cid.c`) | `telNum`, the buffer | `ParseMessages`, `CidPlMsgParse` | asks the filter, sets the clock |
| call filter (`tel_filt.c`) | phone book array, three cursors, mode, switch | add, check, browse, delete, load, save | called by `user_if.c` and `ParseMessages` |
| user interface (`user_if.c`) | screen, recent calls, string entry | `UifEventParse` | calls the filter and the clock, draws |
| clock (`rtc.c`) | date and time | `_T1Interrupt`, set and get | posts `SYS_RTC_MINUTE` |
| player (`rawplay/`) | two buffers, PWM position | `RawPlayFile`, `DataReadCallback`, `_TyInterrupt` | reads the SD card |
| keypad (`keyb.c`) | last pin values, CNIF | `_CNInterrupt`, `KeybIntsEnable` | posts `SYS_KEY_*` |
| FAT file system (`fatfs/ff.c`) | `FATFS` with one window, `FIL`, the card | `f_mount` ... `f_printf` | calls the card driver for each sector |
| card driver (`fatfs/mmc.c`) | `Stat`, `CardType`, two timeouts | `disk_*`, `disk_timerproc` | bytes over SPI2, TIMER4 |
| display driver (`xlcd/`, `utils.h`) | the pins | `OpenXLCD`, `WriteCmdXLCD` ... `XLCD_SETPOS` | an SPLC780D controller |
| UART, LEDs, delays, traps | | output, register accesses | |

What is hard in it, and what makes it correct:

- *Events*. The queue is a LIFO, does not check its bound, and is never flushed.
  Events are late, out of order, or belong to a timer that was restarted since.
  Nevertheless a call must not be lost half way, the line must not stay off-hook,
  and the device must go back to sleep.
- *Low power*. `Sleep()` stops the timers, `Idle()` does not; either may begin
  just after an interrupt has posted an event.
- *Slow work*. A log line, a save, a message take longer than the time between
  interrupts, with nobody to take events from the queue.
- *Frames and pins that move on*: main works in one ADC frame while the next is
  filled; keys move inside the interrupt that reads them.
- *Hand-kept cursors* in the phone book, the list of recent calls, the entry of a
  string and the caller ID, over long sequences of legal calls.
- *Failures and power cuts*: an SD card that is too slow, fails at any access,
  or is taken out; power that goes between two sectors of the FAT, the directory
  and the data; noise on the line; a payload that is not what it says.
- *Peripherals that need not answer*: the card and the display are waited for in
  loops, with timeouts that another interrupt counts down, or with none.
- *Boundaries*: eight bit cursors, ends of months and years, the last chunk of
  a file, the last byte of a buffer, the sizes in a boot record.

`PROJECT.json` lists each of these hazards at its line, with the properties that
would catch it.

## 2. The modules

| module | code | abstract specification |
|---|---|---|
| `SysCore` | `main.c`, `system.c`, `tim_evt.c`, and the interrupts of `line_if.c`, `adc.c`, `keyb.c`, `rtc.c` | `CallScreen` |
| `SysCoreProofs`, `RawPlayProofs`, `TelFiltProofs`, `UserIfProofs`, `CidProofs`, `FskProofs` | the theorems about the module of that name; `UserIfProofs` also those about `StrInput`, `CidProofs` those about `CidMsg` | |
| `DevicesProofs` | the theorems about `Rtc`, `Adc`, `Keyb`, `Mmc`, `Xlcd`, as `MCDevices` has them | |
| `Induction` | lemmas about the natural numbers and about functions defined by recursion that the proofs use | |
| `RawPlay` | `rawplay/rawplay.c`, `rawplay/pwmplay.c` | |
| `TelFilt` | `tel_filt.c` and its callers in `user_if.c` | `PhoneBook` |
| `UserIf` | `user_if.c`, over the list that `PhoneBook` promises | |
| `StrInput` | `UifStrInput*`, `UifAddNum`, `UifYearSet` of `user_if.c` | |
| `Cid` | `CidParse` | the grammar of a frame (`IsFrame`), in the module |
| `CidMsg` | `ParseMessages`, `CidPlMsgParse` | the list of messages (`Messages`), in the module |
| `Fsk` | `FskDecisor` | |
| `Rtc` | `rtc.c` and `Log()` | a calendar (`Now`), in the module |
| `Adc` | `adc.c` | the sequence of samples (`NextFrame`), in the module |
| `Keyb` | `keyb.c` | |
| `Mmc` | `fatfs/mmc.c` | |
| `Xlcd` | `xlcd/`, the macros of `utils.h` | what the calls ask for (`want`), in the module |
| `FatVolume` | `ff.c`: window, FAT, directory | |
| `FatFiles` | `ff.c`: `f_mount` to `f_printf`, over `FatVolume` | |
| `FatFs` | the file operations of `main.c`, `tel_filt.c`, `rawplay.c`, over `FatFiles` | `FileStore` |
| `FatNames` | `ff.c`: long names | the set of names (`names`), in the module |

`MC*` modules instantiate them for TLC. Definitions have the names of the C
functions they model; a definition named `X_Fault` before `X` is a plausible bug
in `X` that a property must detect, and is used nowhere else.

The composition is by interface. `SysCore` leaves open what `CidParse` and the
filter answer, and when `RawPlayFile` returns; `Cid`, `CidMsg`, `Fsk`, `Adc` and
`RawPlay` are what is behind those choices. `TelFilt` shows that the array
implements the list of `PhoneBook`, and `UserIf` uses only the list. `FatFs` is
composed with everything below it as operators, down to a sector of the card;
`Mmc` shows what a sector access promises. What shares no state is checked side by
side, one at a time: `MCDevices` has `Rtc`, `Mmc`, `Adc`, `Keyb` and `Xlcd` (`unit`
says which runs), `MCPeripherals` these and `RawPlay`, `MCCid` both layers of the caller
ID, `MCReceiver` these with `Fsk` and `TelFilt` (`part` says which), `MCUserIf` the menu and
the entry of a string, `MCFatFs` the files and the long names.

**SysCore.** `pc` names the place of main; a step ends where an interrupt makes
a difference: before an access to the queue or to a timer that follows slow
work. `q` is a sequence with its top at the end. A put into a full queue is
undefined in C; the model stops there with `overrun`, and the run
`core_overrun` shows that it is reached. `cpu` is `run`, `idle` or `sleep`;
interrupts of stopped peripherals do not come. Timer values are ticks, the
delays constants. `uifCall` stands for the screen `UIF_INCOMING_CALL`.

**RawPlay.** A sample is its offset in the file, so that tearing, skipping and repeating
show in `out`. `f_read` is two steps, and the buffer has no valid data in between. `frm`,
`readed`, `readNext`, `play` and `pb` are those of the code; `underrun` records that the PWM
has found no data.

**TelFilt.** The functions are operators on the record `tf` of the module's
static variables; the actions are the key handlers that call them. A save
succeeds, fails at once, or stops at any line; a restart may follow at any time.

**UserIf, StrInput.** All the screens; a key that leads to a screen without a number
is a row of `Menu`. `calls` is a history of the last callers, against which the ring
buffer is compared. `StrInput` has the string `sNum`, the index and the character
that can be chosen next to the line and the cursor of the display, which the code
changes by separate commands.

**Cid, CidMsg, Fsk, Rtc.** One byte, one message, one sample, one tick a step. `Cid` keeps
as history the bytes that may still become a frame. `CidMsg` starts from any buffer of which
`dataLen` bytes are the payload and the rest is of an earlier frame, which the code reads
when a message is longer than the payload; the walk ends (`astray`) where a length byte that
is negative as a `char` leads it before the buffer. `Fsk` has a line that carries noise,
silence, mark or characters with jitter. `Rtc` splits `Log()` where its interrupts are
enabled.

**Adc, Keyb.** A sample is its number since `AdcStart`. Main takes a frame and is done
with it at any time later; `late` records that a frame was completed meanwhile,
after which nothing is promised. The keys move at any time, also between the reading
of the ports and the clearing of CNIF, and `missed` records those that do.

**Mmc.** Any byte may come from the card at any time: the card is not modelled. A
step is one turn of a loop that waits for a byte, with what follows up to the next
such loop. TIMER4 counts the timeouts down between any two steps. In a write SPI2 may be
overrun at any exchange of a byte (`Overrun`): the wait for SPIRBF then does not end, of
which the comment at `fatfs/mmc.c:107-108` tells, and the model stops there (`hung`).

**Xlcd.** Each function is the sequence of what it does to the pins, and the
controller works between any two of them: it latches on the falling edge of E, is
busy for as long as it likes after a command, and ignores what comes then. A fixed
delay lasts longer than the command it is for, as the data sheet's times do.

**FatVolume, FatFiles, FatFs.** Each function of FatFs is an operator on a record
with the card, the `FATFS` object, the directory and file objects, and the accesses
made so far. The card fails one access (`error`), writes a sector and reports a failure
(`late`), or answers nothing from an access on (`gone`), which for what is on the card
is also a power cut there. Every access of every operation is such a place. A sector is
written whole or not at all. FAT copies, FSInfo, the free count and the window with its
dirty flag are all there. `stored` and `cached` are what a reader finds on the card,
and what the program sees.

**FatNames.** The entries of a directory with the parts of long names in front of the
short one: order, checksum, the number that a short name gets. The power goes after
any of the entries of an operation. `f_unlink`, `f_rename` and `f_readdir` are compiled
in, but Balsamo does not call them; they are modelled because what they and a cut
leave behind is what the search of `f_open` has to cope with on a card that was also
written elsewhere. Limits: no extensions and no `~` in names, fewer files
than would make the number a hash, and a part behind the end of the name looked for, which
the code compares with an earlier name in its buffer, fails at once.

## 3. The runs

| run | instance | shows |
|---|---|---|
| `core` | queue of 3, every source, delays 1 or 2 | five invariants, the refinement of `CallScreen`, four liveness properties |
| `core_sleep` | the same, a prompt main | the CPU sleeps in a call (finding) |
| `core_overrun` | queue of 10, a prompt main | the queue overruns (finding) |
| `rawplay_short` | the player alone, buffers of 3, files of 0 to 4 | the end of a file is not played (finding) |
| `rawplay_stuck` | the same, files of 0 to 11 | a card that is too slow leaves main in Idle() (finding) |
| `receiver` | frames of 36 samples, characters of 2 bits, jitter 2; frames of up to 8 bytes of five values; payloads of up to 6 bytes; books of up to 7 bytes, two numbers, one a prefix of the other | `recvBuf` suffices, characters are decoded, exactly the valid frames are accepted, the verdict is on the number shown; display, filter, refinement of `PhoneBook`, restart |
| `cid_stale` | payloads of up to 6 bytes | a number is taken from behind the payload (finding) |
| `devices` | six devices, see below | no sample lost or torn, no key twice, OK means done, every second counts, the display shows what is written; four devices return or recover |
| `rtc_stamp` | the clock, with minutes | a torn time stamp (finding) |
| `userif` | 3 recent calls, 2 callers, books of 2; strings of 3 | recent calls, switch, what is added, what is entered |
| `fat` | a FAT16 and a FAT32 card, five cards to be refused; five long names | refinement of `FileStore`, a sound volume, what is read is what is there, names find their files |
| `fat_stretch` | the same, with errors while the program starts | a start cuts the log (finding) |

*Bounds.* A queue of three holds the events whose order matters (a stale
timer event under a ring, under a key); longer ones only postpone the overrun,
and the theorems hold for every length. Delays of one and two ticks give every
order of expiry.

*Bounds of `receiver`.* A phone book of seven bytes holds up to three numbers and three of
different lengths must move in a deletion; its cursors count to eight as the code's to 256.
Two seizure bytes, two wrong bytes and two bytes of payload take every branch of `CidParse`;
six bytes of payload hold two messages and a bit, of every kind, each too long, cut short
and empty. A bit has the six samples of the code, and a frame has room for 1.5 characters as
the code's has for 1.07, so that characters straddle frames at every offset.

*Bounds of `devices`.* The clock: four years are a cycle of leap years, two
seconds, one minute and two hours change nothing in the carries of the days
(`rtc_stamp` has minutes, too), and it is set to the 29th of any month. The card: one
and two sectors are the two forms of a transfer, timeouts of one to three ticks let them
end before, at and after an answer. The ADC: frames of two interrupts, 24 samples go three
times around the buffer. The keys: three, of which one may move while one is
held and one is read. The display: two cells in a line, with the gap in the addresses
between the lines, and one cell of the generator; a character more than a line goes on in
the other. The player: eleven samples fill three buffers and leave every remainder. In
`rawplay_short` and `rawplay_stuck` deadlock is not checked, because `RawPlayFile` returns;
in `devices` it rests then (`PlayerRests`).

*Bounds of `fat`.* A sector of four bytes holds two entries of a FAT16, one of a FAT32,
and two directory entries, so that the FAT, the directory and a file all take several
sectors, and clusters of one and of two sectors occur; the FAT types begin at 3 and 8
clusters instead of 4085 and 65525. The log ends just before a cluster does, the directory
of the FAT32 card is full and must be extended, the files have holes between their
clusters. Two operations write and one has a fault, at any of its accesses and of any
kind, with any number of power cuts: what the fault leaves is then worked on. Names
have short parts of three letters, segments of two, and a directory of five entries: five
names of one to five letters, equal but for case, or equal in their first letters.

*Prompt main.* `MCSysCore` also has a schedule in which everything but slow work
(SD card, user interface, message) takes no time. The two core findings need no
unlikely timing: they are found under that schedule.

*Fairness.* `SysCore`: main takes its next step, TIMER1 ticks (it has its own
crystal and runs in Sleep), TIMER4 ticks when the CPU does not sleep. Nothing is
assumed of the line, the keypad, the ADC or the player. What the liveness
properties need of the environment is in the properties: rings end, keys end,
the player returns, and main again and again empties the queue, which a LIFO
does not give by itself: under a stream of events the oldest is never handled.
The exceptions `sleep` and `overrun` are the two findings. `RawPlay`:
main and the PWM go on; a slow card is excluded by `underrun` in `PlayerReturns`, and
`RawPlayReturns`, without it, is a finding. `Rtc`: TIMER1
ticks and `Log()` goes on. `Mmc`: TIMER4 ticks, and main leaves a loop whose timeout is
over or whose attempts are counted; nothing is assumed of the loops that only a byte
of the card would end, so that a card that never answers is covered. An exchange of a byte
is assumed to return while SPI2 is enabled and not overrun; that it hangs after an overrun
(`fatfs/mmc.c:107-108`) is the exception `hung` of `Returns`. `Xlcd`: main goes on,
and the controller ends what it does, which the code depends on: `while (BusyXLCD())`
has no limit. The other modules are checked for safety only.

*Findings* are listed with their lines in `PROJECT.json`:

- `core_sleep`: a queued `SYS_SLEEP_TIM` puts the CPU to sleep in a call.
- `core_overrun`: the event queue is written past its end.
- `rawplay_short`: `RawPlayFile` returns 0, "successfully played" (`rawplay/rawplay.c:116`),
  when the last chunk is read. That chunk is never played, and the one before it is cut off:
  `EndsAfterTheFile` has that it is less than two buffers.
- `rawplay_stuck`: after an underrun `RawPlayFile` may not return, although it "blocks ...
  until playback ends" (`rawplay/rawplay.c:117-118`).
- `cid_stale`: `CidPlMsgParse` compares no length with `dataLen`. The last message of a
  payload may go on in bytes of an earlier frame, and these are shown and judged as the
  number. `VerdictIsOfTheNumber` is about the payloads that end with their last message.
- `rtc_stamp`: the date of a day with the time of the next in a line of the log.
- `fat_stretch`: a read that fails at the start cuts the log off.

One more peculiarity is stated by a property as it is: an event of `SYS_DATA` is not tied to
a frame, so that a late main may read one twice (`adc.c:175`, `EverySampleOnce`).

## 4. The proofs

`SysCoreProofs` proves for every queue length, set of keys, set of connected
interrupts and all delays other than zero (`QueueAssumption`, `KeyAssumption`,
`SourceAssumption`, `DelayAssumption`) that `SysCore` keeps its types
(`TypeCorrect`), its safety invariants (`CallsHaveTimers`,
`LineIsDisciplined`, `CallsEndClean`, `AwakeDevicesSleepLater`; and
`BacklightFollowsSleep`, which no run needs to check as well), and that it
implements `CallScreen` (`CallsAreScreened`).

The argument: interrupts change nothing of main's variables, only add events,
and never stop a running timer without posting its event (`IsrStep`, from the
lemma `InterruptStep` about one interrupt with any events). Main's steps are
then taken one by one. The properties are not inductive as they stand, because
they speak of the places where an event has been handled: the invariant adds
what holds in the middle of a handler, that is which event main is
holding, in which state of the call the places `Permit`, `Play`, `WaitIdle`,
`WaitGet` and `CallEnd` are reached, and whether the ADC and the line are off
there.

`RawPlayProofs` proves `OutputIsPrefix` and `EndsAfterTheFile` for all sizes of the
buffers and lengths of the file (`BufAssumption`, `LenAssumption`). Neither says
which buffer is where: `BuffersInv` says, for each place of main and each value of
`readNext`, which of the two the interrupt plays, up to which offset of the file, and
that the other holds the chunk that follows, or none. `PhaseInv` says when the interrupt
may be off before the end: for an empty file and after an underrun only.

`TelFiltProofs` proves all that the run `receiver` checks of the phone book, for every
length of the array, range of the cursors and set of numbers (`BookAssumption`):
`ImplementsPhoneBook`, `ShowsTheCursor`, `FiltersTheList` and `BootRestoresBook`. `IsBook(b,
L, at)` says that the array holds the numbers of the list `L`, number `k` at `at[k]` and its
`'\0'` before `at[k + 1]`, up to `end`. The proof goes in three layers. The first is about
the loops: what `strlen`, the walk of `TfNumGetNext`, the search of `TfNumCheck`, the way
back of `TfNumGetPrev` and the loop of `TfParseConfig` compute of an array that is a book;
all are recursive, `Induction` has that such functions exist, and the values follow by
induction over the list. The second is what each function makes of the book: `AddAppends`,
`DeleteRemoves`, `NextIs`, `PrevIs`, `ParseRestores`. The third is the invariant `BookInv`:
there is such a list, while it is on the display `pos` and `readPos` are the places of one
of its numbers and of the next, an empty book has `pos = 0` (a deletion from an empty list
sets `end` to `pos`), and the file has numbers that fit. All of it is about books of fewer
bytes than an `unsigned char` counts (`BoundAssumption`, for the bound `InBounds` in the
guard of `Add`): beyond 255 bytes `end` wraps (`tel_filt.c:82`), and what is behind it is
lost.

`UserIfProofs` proves `RecentCallsInOrder`, `ShowsRecentCalls`, `OffBlocksNothing` and
`AddsWhatIsShown` for every size of the ring buffer and all numbers (`UifAssumption`).
`RingInv` states the first call by call, on the cursors: the k-th of the last calls is
in the k-th slot from `numFirst`. `ListInv` is what makes browsing right: while a list is
on the display its cursor is on a slot with a call or just behind the last, and
`shown` is what `numLastReturned` points to, so that what is added is what is shown.
`FilterInv` ties the switch of the menu to the filter's. For `StrInput` it proves
`EntryIsShown`, for all lengths of a number and of a year and all codes of the digits
(`EntryAssumption`; the year that is shown first is `McYear`, which has the first and the
last digit). `EntryInv` says of the string what the display does not show: there are
digits before the cursor, and the `'\0'` behind the longest string is never overwritten, so
`strlen` always ends in the buffer. A buffer that holds the end of an earlier entry
becomes a whole year (`YearStrIs`), and each key is a chain of commands whose effect on
the line is computed one after the other (`CommandsAre`).

`CidProofs` proves `AcceptsFrames` and `PayloadIsReceived` for all lengths of the
seizure, of the wrong bytes and of the buffer, and all bytes (`CidAssumption`).
`SearchInv` says for each state of the parser what the bytes since the frame began look
like (so many seizure bytes, so many wrong ones, a header, a part of the payload), with
the index, the checksum and the buffer of that part; `EndInv` says what `CID_END` says.
Both directions need that a sequence of bytes is a header in one way only, and
that the checksum of a frame is the sum of its bytes modulo `ByteSize`, whose terms
`BytesSum` adds (by induction).

For `CidMsg` it proves `VerdictIsOfTheNumber`, for all payloads, lengths of the buffer,
codes of the messages and answers of the phone book (`MsgAssumption`). `MessagesInv` says
that the list of messages in the payload is a first part, of which `telNum` and the
verdict are what the last message that says who calls made them, followed by the list
from the parser's index on, `Messages[0] = ms \o Messages[idx]`; or that a message
went on behind the payload, and what is read from there is not known. Each turn of the
loop takes one message from the second part to the first. That there is such a list is
the recursion upwards of `Induction`.

`FskProofs` proves `FitsInRecvBuf` for whatever the line carries, from `RoomInv`: each
character of a frame but the first had at least `LeastSamples` of its samples there.
That is less than the bits that `recvBuf` is sized by, so the theorem
needs `FrameAssumption`: it holds in the code (one character, 63 div 57 and 10 div 10)
but not for every length of a frame; a frame of 115 samples would overrun.
`DecodesWhatIsSent` is proved for all lengths of bits and characters and all
edges that leave the samples alone that the decisor votes with (`EdgesAssumption`;
`Jitter + 4 <= FSK_SPB` is two samples in the code). `InStep` says where the decisor is when
the line is at a sample `p` of a character, and what it has taken from the line so far.

`DevicesProofs` is about the modules as `MCDevices` runs them, each with the others idle:

- `ReportsOnce` for every set of keys. While the interrupt runs, what it has read stands
  between the pins and `lastP`: `KeysInv` says at each place which two sets
  differ in `missed`, and that a key that is down in one and not in the other is `fresh`.
- `OkMeansDone` for every card, all timeouts, attempts and numbers of sectors
  (`CardAssumption`). `MmcInv` follows the call: the loops main may be in at each
  phase of each function (`WhereMainIs`), that what was transferred and what is left make
  what was asked for (`Sectors`), and that a card in the last phase of its
  initialisation has left the idle state (`CardState`). There is one lemma for each thing
  main does with a byte, whatever the byte is.
- `EverySampleOnce` for every frame of whole blocks (`LineAssumption`). `PositionInv`
  says where `dataPos` is after so many samples, `DataInv` what each place of the two
  frames holds, including the delay copied in front of each, and `LagInv` that
  main is at most one frame behind. The assumption `ND <= BLOCK` was found with the proof:
  with a longer delay the last block but one of a first frame writes over the delay
  of the second, which is the end of the first, while main may still work there (TLC shows it with
  `NS = 6, ND = 3, BLOCK = 2`). It is 3 and 16 in the code.
- `CountsEverySecond` for all lengths of minutes, hours and days and all ranges of
  years that are whole cycles of leap years (`ClockAssumption`). It holds step by step
  once the date exists (`ClockTypeOK`); the work is arithmetic, that each carry (minute,
  hour, day, month, year, and the wrap of `rtcYear`) adds one second to `Now`.
- `NoBusFight` for all texts and positions (`StringsAssumption`). Every function
  of the driver is a script of accesses to the pins (`FunctionsAreScripts`), and in every
  script the pins are inputs before RW rises and RW falls before they are outputs
  again; what is still to do stays such a script.
- `ShowsWhatIsWritten` for all texts, positions and addresses of seven bits
  (`StringsAssumption`, `PanelAssumption`), however slow the controller is. `DisplayInv`
  says it of what is still to do: from what is known of the display now, these steps lead
  to one that shows `want` (`Takes`). What is known (`Agrees`) is the controller's memory
  and address, that it is at most as busy as that, the pins, and whether the flag
  read last is still the controller's; a step of the controller only leaves it less busy.
  Each function of the driver makes what main wants of any display (`Makes`): the
  wait for the flag comes back with the display as it was and not busy (`BusyTakes`), a
  byte arrives bit by bit (`Commands`, `AddressArrives`), a text character by
  character (`TextMakes`, by induction).

`Induction` derives induction over the natural numbers, stated with sets, from the
well-foundedness of `<`; the library states it with operators, which no prover
here can instantiate. From it follow the existence of a function that is defined by its
value for the number before (`PrimitiveRecursion`) or for a number further on
(`UpwardRecursion`).

Only model-checked:

- the liveness properties (fairness and ENABLED are beyond the prover);
- `DiskIsSound`, `ReadsBack` and `ImplementsFileStore` of `FatFs`, whose operators are
  RECURSIVE as the code's loops over chains of clusters, sectors and directory entries
  are: the prover does not accept modules with such operators;
- `FindsItsOwn` of `FatNames`, which is not true of all names: a long name that was not
  finished is taken for the next file's when the checksums of their short names agree. It
  is checked for the names of the run, whose checksums differ.

## 5. What is not modelled

- Of `ff.c`: FAT12 (refused here: the cards are larger), subdirectories, extensions of
  long names, and the functions that nobody calls (`f_chdir`, `f_getcwd`, `f_getfree`,
  `f_truncate`, `f_mkdir`, `f_chmod`, `f_utime`, labels, and `f_forward`, `f_mkfs` and
  `f_fdisk`, which `ffconf.h` leaves out of the build). The times of files
  (`get_fattime`). The non-ASCII letters of `ccsbcs.c`, which are tables.
- Of `mmc.c`: the commands of `disk_ioctl` other than `CTRL_SYNC`, which nobody calls.
- Of `xlcd/`: the four-bit interface, which `xlcd.h` does not select.
- The digital filters (assembly, numerical), and the adaptation of the threshold
  in `FskDecisor`.
- `p30f6014.h`, a fifth of the repository's lines: the names of the CPU's registers.
- The UART, the LEDs, the traps, the oscillator, the texts of the log and the display,
  the off-line converter `wav2raw`.
- In the run `fat`, a single access that fails while the program starts, of which the log
  does not come out whole: `fat_stretch` has one that cuts it, and where a failure only stops
  `f_lseek` short of the end (its result reaches `evLog`, which nobody reads,
  `main.c:530-531`) the next lines overwrite what follows. A card that goes away at the start
  is covered. And what a deleted file has left in its
  clusters: free ones are empty here (`MCFatFs.Card`).
- Configuration files that do not follow the format `TfCfgSave` writes.
- What C leaves undefined: the array behind an overrun queue, the memory before the
  caller ID's buffer, `samurai[]` for a month past 12. The models stop there.

## 6. Plan

1. Done: the models of section 2, their runs, and the proofs of section 4.
2. `FileStore` as the card of `TelFilt`, in place of its own model of a save.
3. `FatVolume` with recursive functions in place of its RECURSIVE operators, so that first
   what `chk_mounted` derives from a boot record, and then the chains of the FAT, can be
   proved about.
