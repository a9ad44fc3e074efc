-------------------------------- MODULE SysCore --------------------------------
(***************************************************************************)
(* The core of the Balsamo firmware: the event queue (system.c), the two   *)
(* millisecond timers (tim_evt.c), the main loop and the call state        *)
(* machine (main.c), and the interrupts that feed them (line_if.c, adc.c,  *)
(* keyb.c, rtc.c, tim_evt.c).                                              *)
(*                                                                         *)
(* There is one thread, main(), and a set of interrupt handlers that all   *)
(* run at the same priority: a handler is atomic with respect to main and  *)
(* to the other handlers, so each is one action.  main is a sequence of    *)
(* steps named by pc; a step ends wherever an interrupt that arrives makes *)
(* a difference, that is before every access to the queue and to a timer   *)
(* that follows slow work (SD card, LCD).  Slow work that ends a handler   *)
(* needs no step: main is then at "Get", where interrupts fire as well.    *)
(***************************************************************************)
EXTENDS Naturals, Sequences

CONSTANTS
  SYS_MAX_EV,   \* system.h: maximum number of queued system events
  KeyEvents,    \* the SYS_KEY_* events the keypad produces
  Sources,      \* the interrupt sources that are connected, see Interrupts
  RingDelay,    \* timer ticks from the RING to listening       (500 ms)
  CidTimeout,   \* timer ticks to wait for the caller ID        (TIM_TOUT)
  RingWait,     \* timer ticks of silence that end the ringing  (RING_WAIT_TIM)
  HangDelay,    \* timer ticks from pick up to the message      (3 s)
  EndWait,      \* timer ticks the result stays on the LCD      (5 s)
  SleepTimeout  \* timer ticks of inactivity before Sleep       (SLEEP_TOUT)

Timers == {"SYS_EVT_TIM", "SLEEP_EVT_TIM"}
Interrupts == {"INT0", "CN", "ADC", "T1", "T4"}
Events == {"SYS_RING", "SYS_TIM_EVT", "SYS_DATA", "SYS_SLEEP_TIM",
           "SYS_RTC_MINUTE"} \cup KeyEvents
SysStats == {"SYS_SLEEP", "SYS_RING_TIM", "SYS_DATA_RECV",
             "SYS_LINE_HANG_WAIT", "SYS_RING_END_WAIT"}
NoEvent == "SYS_NONE"

ASSUME QueueAssumption == SYS_MAX_EV \in Nat \ {0}
ASSUME KeyAssumption ==
  KeyEvents \cap {NoEvent, "SYS_RING", "SYS_TIM_EVT", "SYS_DATA",
                  "SYS_SLEEP_TIM", "SYS_RTC_MINUTE"} = {}
ASSUME SourceAssumption == Sources \subseteq Interrupts
\* TimEvtRun(t, 0) would start nothing; main.c never passes 0.
ASSUME DelayAssumption ==
  {RingDelay, CidTimeout, RingWait, HangDelay, EndWait, SleepTimeout}
    \subseteq Nat \ {0}

VARIABLES
  pc,         \* where main is, see PCs
  sysEvent,   \* the event main is handling
  sysStat,    \* state of the call state machine
  sleep,      \* TRUE: main sleeps when it has nothing to do, FALSE: it idles
  cpu,        \* "run", "idle" (timers clocked) or "sleep" (timers stopped)
  q,          \* the event queue, top at the end
  overrun,    \* an event has been written past the end of q.ev
  countMs,    \* the two timers
  adcOn,      \* ADC and TIMER3 are converting
  offHook,    \* the line has been picked up
  backlight,  \* LCD backlight
  uifCall     \* the user interface is in UIF_INCOMING_CALL

mainVars == <<pc, sysEvent, sysStat, sleep, adcOn, offHook, backlight, uifCall>>
vars == <<mainVars, cpu, q, overrun, countMs>>

PCs == {"Get",       \* main loop: before SysQueueGet
        "LowPower",  \* the queue was empty: before Sleep() or Idle()
        "SleepTim",  \* SYS_SLEEP_TIM was taken: before BacklightOff
        "Fsm",       \* before SysFsm handles sysEvent
        "KeyUif",    \* the user interface handles a key
        "Permit",    \* a permitted call is being logged and shown
        "Play",      \* RawPlayFile is playing the message
        "WaitIdle",  \* TimEvtWait: before Idle()
        "WaitGet",   \* TimEvtWait: before SysQueueGet
        "CallEnd"}   \* CallProcEnd: after TimEvtWait

TypeOK ==
  /\ pc \in PCs
  /\ sysEvent \in Events \cup {NoEvent}
  /\ sysStat \in SysStats
  /\ cpu \in {"run", "idle", "sleep"}
  /\ q \in Seq(Events)
  /\ Len(q) <= SYS_MAX_EV
  /\ countMs \in [Timers -> Nat]
  /\ sleep \in BOOLEAN /\ overrun \in BOOLEAN /\ adcOn \in BOOLEAN
  /\ offHook \in BOOLEAN /\ backlight \in BOOLEAN /\ uifCall \in BOOLEAN

\* The state in which SysInit leaves the system to the main loop.
Init ==
  /\ pc = "Get" /\ sysEvent = NoEvent /\ sysStat = "SYS_SLEEP"
  /\ sleep = TRUE /\ cpu = "run"
  /\ q = <<>> /\ overrun = FALSE
  /\ countMs = [t \in Timers |-> 0]
  /\ adcOn = FALSE /\ offHook = FALSE /\ backlight = FALSE /\ uifCall = FALSE

--------------------------------------------------------------------------------
(* Interrupts.  SysIQueuePut does not check the queue: a put beyond the    *)
(* end of q.ev is undefined in C.  The step that would do it sets overrun  *)
(* and changes nothing else, and no step is defined after it.              *)

\* Fault: one event too many is accepted.
Fits_OffByOne(evs) == Len(q) + Len(evs) <= SYS_MAX_EV + 1

Fits(evs) == Len(q) + Len(evs) <= SYS_MAX_EV

SysIQueuePut(evs) ==
  IF Fits(evs) THEN q' = q \o evs /\ UNCHANGED overrun
               ELSE overrun' = TRUE /\ UNCHANGED q

\* An interrupt that posts evs, leaves the timers at counts and wakes the CPU.
Interrupt(source, evs, counts) ==
  /\ ~overrun
  /\ source \in Sources
  /\ SysIQueuePut(evs)
  /\ IF Fits(evs) THEN cpu' = "run" /\ countMs' = counts
                  ELSE UNCHANGED <<cpu, countMs>>
  /\ UNCHANGED mainVars

INT0Interrupt == Interrupt("INT0", <<"SYS_RING">>, countMs)

\* A key goes down, or up, which posts nothing.  Keys that change together are
\* interrupts that follow one another.
CNInterrupt ==
  \E evs \in {<<>>} \cup {<<key>> : key \in KeyEvents} : Interrupt("CN", evs, countMs)

\* Fault: TIMER1 is clocked from the CPU clock, which Sleep() stops.
T1Interrupt_Stopped ==
  /\ cpu # "sleep"
  /\ \E evs \in {<<>>, <<"SYS_RTC_MINUTE">>} : Interrupt("T1", evs, countMs)

\* Once a second; every 60th time it posts SYS_RTC_MINUTE.
T1Interrupt ==
  \E evs \in {<<>>, <<"SYS_RTC_MINUTE">>} : Interrupt("T1", evs, countMs)

\* A complete frame of NS samples.
ADCInterrupt ==
  /\ adcOn /\ cpu # "sleep"
  /\ Interrupt("ADC", <<"SYS_DATA">>, countMs)

Expired(t, event) == IF countMs[t] = 1 THEN <<event>> ELSE <<>>

T4Interrupt ==
  /\ cpu # "sleep"
  /\ Interrupt("T4",
       Expired("SYS_EVT_TIM", "SYS_TIM_EVT") \o Expired("SLEEP_EVT_TIM", "SYS_SLEEP_TIM"),
       [t \in Timers |-> IF countMs[t] = 0 THEN 0 ELSE countMs[t] - 1])

Isr == INT0Interrupt \/ CNInterrupt \/ T1Interrupt \/ ADCInterrupt \/ T4Interrupt

--------------------------------------------------------------------------------
(* The main loop.                                                          *)

Queued(event) == \E i \in 1..Len(q) : q[i] = event
Top == q[Len(q)]
Pop == q' = SubSeq(q, 1, Len(q) - 1)

TimEvtRun(t, ticks) == countMs' = [countMs EXCEPT ![t] = ticks]
TimEvtStop(t) == TimEvtRun(t, 0)

\* SysQueueGet, and the switch of the main loop on what it returns.
GetEvent ==
  /\ pc = "Get" /\ q # <<>>
  /\ Pop
  /\ sysEvent' = Top
  /\ pc' = IF Top = "SYS_SLEEP_TIM" THEN "SleepTim" ELSE "Fsm"
  /\ UNCHANGED <<sysStat, sleep, cpu, overrun, countMs, adcOn, offHook,
                 backlight, uifCall>>

GetNone ==
  /\ pc = "Get" /\ q = <<>>
  /\ sysEvent' = NoEvent
  /\ pc' = "LowPower"
  /\ UNCHANGED <<sysStat, sleep, cpu, q, overrun, countMs, adcOn, offHook,
                 backlight, uifCall>>

LowPower ==
  /\ pc = "LowPower"
  /\ cpu' = IF sleep THEN "sleep" ELSE "idle"
  /\ pc' = "Get"
  /\ UNCHANGED <<sysEvent, sysStat, sleep, q, overrun, countMs, adcOn, offHook,
                 backlight, uifCall>>

\* SYS_SLEEP_TIM is handled by the main loop whatever sysStat is.
GoToSleep ==
  /\ pc = "SleepTim"
  /\ backlight' = FALSE
  /\ sleep' = TRUE
  /\ cpu' = "sleep"
  /\ pc' = "Get"
  /\ UNCHANGED <<sysEvent, sysStat, q, overrun, countMs, adcOn, offHook, uifCall>>

--------------------------------------------------------------------------------
(* SysFsm, one action per (sysStat, sysEvent) that it handles.             *)

Handles(stat, events) == pc = "Fsm" /\ sysStat = stat /\ sysEvent \in events

FsmRing ==
  /\ Handles("SYS_SLEEP", {"SYS_RING"})
  /\ countMs' = [countMs EXCEPT !["SLEEP_EVT_TIM"] = 0,
                                !["SYS_EVT_TIM"] = RingDelay]
  /\ sleep' = FALSE
  /\ backlight' = TRUE
  /\ sysStat' = "SYS_RING_TIM"
  /\ uifCall' = TRUE
  /\ pc' = "Get"
  /\ UNCHANGED <<sysEvent, cpu, q, overrun, adcOn, offHook>>

\* The user interface may save the configuration before the sleep timer is
\* restarted, hence two steps.
FsmKey ==
  /\ Handles("SYS_SLEEP", KeyEvents)
  /\ backlight' = TRUE
  /\ pc' = "KeyUif"
  /\ UNCHANGED <<sysEvent, sysStat, sleep, cpu, q, overrun, countMs, adcOn,
                 offHook, uifCall>>

\* Fault: the sleep timer is not restarted.
FsmKeyDone_NoTimer ==
  /\ pc = "KeyUif"
  /\ sleep' = FALSE
  /\ pc' = "Get"
  /\ UNCHANGED <<sysEvent, sysStat, cpu, q, overrun, countMs, adcOn, offHook,
                 backlight, uifCall>>

FsmKeyDone ==
  /\ pc = "KeyUif"
  /\ sleep' = FALSE
  /\ TimEvtRun("SLEEP_EVT_TIM", SleepTimeout)
  /\ pc' = "Get"
  /\ UNCHANGED <<sysEvent, sysStat, cpu, q, overrun, adcOn, offHook, backlight,
                 uifCall>>

\* Fault: the caller ID timeout is not started.
FsmListen_NoTimeout ==
  /\ Handles("SYS_RING_TIM", {"SYS_TIM_EVT"})
  /\ adcOn' = TRUE
  /\ sysStat' = "SYS_DATA_RECV"
  /\ pc' = "Get"
  /\ UNCHANGED <<sysEvent, sleep, cpu, q, overrun, countMs, offHook, backlight,
                 uifCall>>

FsmListen ==
  /\ Handles("SYS_RING_TIM", {"SYS_TIM_EVT"})
  /\ TimEvtRun("SYS_EVT_TIM", CidTimeout)
  /\ adcOn' = TRUE
  /\ sysStat' = "SYS_DATA_RECV"
  /\ pc' = "Get"
  /\ UNCHANGED <<sysEvent, sleep, cpu, q, overrun, offHook, backlight, uifCall>>

\* A frame in which CidParse does not find the end of the caller ID (CID_OK,
\* or no byte demodulated).  CidParse never returns CID_ERROR.
FsmDataMore ==
  /\ Handles("SYS_DATA_RECV", {"SYS_DATA"})
  /\ pc' = "Get"
  /\ UNCHANGED <<sysEvent, sysStat, sleep, cpu, q, overrun, countMs, adcOn,
                 offHook, backlight, uifCall>>

\* CID_END and a verdict that lets the call ring: logged and shown first,
\* with the ADC and the caller ID timeout still running.
FsmDataPermit ==
  /\ Handles("SYS_DATA_RECV", {"SYS_DATA"})
  /\ pc' = "Permit"
  /\ UNCHANGED <<sysEvent, sysStat, sleep, cpu, q, overrun, countMs, adcOn,
                 offHook, backlight, uifCall>>

FsmPermitDone ==
  /\ pc = "Permit"
  /\ sysStat' = "SYS_RING_END_WAIT"
  /\ TimEvtRun("SYS_EVT_TIM", RingWait)
  /\ pc' = "Get"
  /\ UNCHANGED <<sysEvent, sleep, cpu, q, overrun, adcOn, offHook, backlight,
                 uifCall>>

\* Fault: the timer is stopped instead of restarted.
FsmDataReject_Stop ==
  /\ Handles("SYS_DATA_RECV", {"SYS_DATA"})
  /\ offHook' = TRUE
  /\ sysStat' = "SYS_LINE_HANG_WAIT"
  /\ adcOn' = FALSE
  /\ TimEvtStop("SYS_EVT_TIM")
  /\ pc' = "Get"
  /\ UNCHANGED <<sysEvent, sleep, cpu, q, overrun, backlight, uifCall>>

\* CID_END and a verdict that rejects the call.
FsmDataReject ==
  /\ Handles("SYS_DATA_RECV", {"SYS_DATA"})
  /\ offHook' = TRUE
  /\ sysStat' = "SYS_LINE_HANG_WAIT"
  /\ adcOn' = FALSE
  /\ TimEvtRun("SYS_EVT_TIM", HangDelay)
  /\ pc' = "Get"
  /\ UNCHANGED <<sysEvent, sleep, cpu, q, overrun, backlight, uifCall>>

\* The caller ID timed out, or the phone rings again before it came.
FsmNotSent ==
  /\ Handles("SYS_DATA_RECV", {"SYS_TIM_EVT", "SYS_RING"})
  /\ TimEvtRun("SYS_EVT_TIM", RingWait)
  /\ sysStat' = "SYS_RING_END_WAIT"
  /\ adcOn' = FALSE
  /\ pc' = "Get"
  /\ UNCHANGED <<sysEvent, sleep, cpu, q, overrun, offHook, backlight, uifCall>>

FsmRingAgain ==
  /\ Handles("SYS_RING_END_WAIT", {"SYS_RING"})
  /\ TimEvtRun("SYS_EVT_TIM", RingWait)
  /\ pc' = "Get"
  /\ UNCHANGED <<sysEvent, sysStat, sleep, cpu, q, overrun, adcOn, offHook,
                 backlight, uifCall>>

\* Fault: the ADC is not stopped.
CallProcEnd_AdcOn ==
  /\ TimEvtRun("SYS_EVT_TIM", EndWait)
  /\ pc' = "WaitIdle"
  /\ UNCHANGED <<sysEvent, sysStat, sleep, cpu, q, overrun, adcOn, backlight,
                 uifCall>>

\* Fault: the wait is entered without its timer.
CallProcEnd_NoTimer ==
  /\ TimEvtStop("SYS_EVT_TIM")
  /\ adcOn' = FALSE
  /\ pc' = "WaitIdle"
  /\ UNCHANGED <<sysEvent, sysStat, sleep, cpu, q, overrun, backlight, uifCall>>

\* CallProcEnd up to and including the TimEvtRun of its TimEvtWait.
CallProcEnd ==
  /\ TimEvtRun("SYS_EVT_TIM", EndWait)
  /\ adcOn' = FALSE
  /\ pc' = "WaitIdle"
  /\ UNCHANGED <<sysEvent, sysStat, sleep, cpu, q, overrun, backlight, uifCall>>

FsmQuiet ==
  /\ Handles("SYS_RING_END_WAIT", {"SYS_TIM_EVT"})
  /\ CallProcEnd
  /\ UNCHANGED offHook

FsmPlay ==
  /\ Handles("SYS_LINE_HANG_WAIT", {"SYS_TIM_EVT"})
  /\ pc' = "Play"
  /\ UNCHANGED <<sysEvent, sysStat, sleep, cpu, q, overrun, countMs, adcOn,
                 offHook, backlight, uifCall>>

\* Fault: the line is not hung up.
PlayDone_OffHook == pc = "Play" /\ CallProcEnd /\ UNCHANGED offHook

\* RawPlayFile returns; whether it does is the subject of module RawPlay.
PlayDone ==
  /\ pc = "Play"
  /\ offHook' = FALSE
  /\ CallProcEnd

\* Every other pair changes nothing (SYS_RTC_MINUTE only redraws the LCD).
Handled ==
  \/ sysStat = "SYS_SLEEP" /\ sysEvent \in {"SYS_RING"} \cup KeyEvents
  \/ sysStat = "SYS_RING_TIM" /\ sysEvent = "SYS_TIM_EVT"
  \/ sysStat = "SYS_DATA_RECV" /\ sysEvent \in {"SYS_DATA", "SYS_TIM_EVT", "SYS_RING"}
  \/ sysStat = "SYS_RING_END_WAIT" /\ sysEvent \in {"SYS_RING", "SYS_TIM_EVT"}
  \/ sysStat = "SYS_LINE_HANG_WAIT" /\ sysEvent = "SYS_TIM_EVT"

FsmIgnore ==
  /\ pc = "Fsm" /\ ~Handled
  /\ pc' = "Get"
  /\ UNCHANGED <<sysEvent, sysStat, sleep, cpu, q, overrun, countMs, adcOn,
                 offHook, backlight, uifCall>>

--------------------------------------------------------------------------------
(* TimEvtWait inside CallProcEnd: one event per wake-up, all but           *)
(* SYS_TIM_EVT are dropped.                                                *)

WaitIdle ==
  /\ pc = "WaitIdle"
  /\ cpu' = "idle"
  /\ pc' = "WaitGet"
  /\ UNCHANGED <<sysEvent, sysStat, sleep, q, overrun, countMs, adcOn, offHook,
                 backlight, uifCall>>

WaitGet ==
  /\ pc = "WaitGet"
  /\ IF q = <<>> THEN UNCHANGED q ELSE Pop
  /\ pc' = IF q # <<>> /\ Top = "SYS_TIM_EVT" THEN "CallEnd" ELSE "WaitIdle"
  /\ UNCHANGED <<sysEvent, sysStat, sleep, cpu, overrun, countMs, adcOn,
                 offHook, backlight, uifCall>>

\* Fault: the sleep timer is not started.
CallEnd_NoTimer ==
  /\ pc = "CallEnd"
  /\ uifCall' = FALSE
  /\ sysStat' = "SYS_SLEEP"
  /\ pc' = "Get"
  /\ UNCHANGED <<sysEvent, sleep, cpu, q, overrun, countMs, adcOn, offHook,
                 backlight>>

CallEnd ==
  /\ pc = "CallEnd"
  /\ uifCall' = FALSE
  /\ sysStat' = "SYS_SLEEP"
  /\ TimEvtRun("SLEEP_EVT_TIM", SleepTimeout)
  /\ pc' = "Get"
  /\ UNCHANGED <<sysEvent, sleep, cpu, q, overrun, adcOn, offHook, backlight>>

--------------------------------------------------------------------------------
MainLoop == GetEvent \/ GetNone \/ LowPower \/ GoToSleep

SysFsm == \/ FsmRing \/ FsmKey \/ FsmKeyDone \/ FsmListen
          \/ FsmDataMore \/ FsmDataPermit \/ FsmPermitDone \/ FsmDataReject
          \/ FsmNotSent \/ FsmRingAgain \/ FsmQuiet \/ FsmPlay \/ FsmIgnore

EndOfCall == WaitIdle \/ WaitGet \/ CallEnd

\* main runs unless it waits for an interrupt.
Running == cpu = "run" /\ ~overrun
Main == Running /\ (MainLoop \/ SysFsm \/ EndOfCall)
Playback == Running /\ PlayDone

\* After an out of bounds write the program has no defined behaviour.
Undefined == overrun /\ UNCHANGED vars

Next == Main \/ Playback \/ Isr \/ Undefined

Spec == Init /\ [][Next]_vars

(* main always takes its next step, TIMER1 runs from its own crystal and   *)
(* never stops, TIMER4 runs whenever the CPU does not sleep.  Nothing is   *)
(* assumed of the line, the keypad, the ADC or the end of RawPlayFile.     *)
FairSpec == Spec /\ WF_vars(Main) /\ WF_vars(T1Interrupt) /\ WF_vars(T4Interrupt)

--------------------------------------------------------------------------------
(* Safety.                                                                 *)

CallInProgress == sysStat # "SYS_SLEEP"

\* A call in progress is never orphaned: whenever main has finished handling
\* an event, the timer that moves the call on is running or its event waits in
\* the queue, whatever interrupts came in between (main.c restarts SYS_EVT_TIM
\* in every state of the call, and nothing but SysFsm may take its event).
CallHasTimer ==
  (CallInProgress /\ pc \in {"Get", "LowPower", "SleepTim", "KeyUif", "WaitIdle", "WaitGet"})
    => (countMs["SYS_EVT_TIM"] > 0 \/ Queued("SYS_TIM_EVT"))

\* The line is off-hook only between the rejection and the end of the message,
\* and never while the ADC still listens to it (main.c:285-299, 355-363).
LineDiscipline ==
  offHook => /\ sysStat = "SYS_LINE_HANG_WAIT"
             /\ ~adcOn
             /\ pc \notin {"WaitIdle", "WaitGet", "CallEnd"}

\* Between calls nothing of the last call is left: the line is hung, the ADC is
\* off and the user interface has left UIF_INCOMING_CALL; during a call it
\* shows the call, so keys cannot reach the menus (main.c:554-568).
CallStateIsClean ==
  /\ CallInProgress <=> uifCall
  /\ ~CallInProgress => ~offHook /\ ~adcOn

\* The device never stays awake for good between calls: awake at rest, the sleep
\* timer is running or its event is queued (main.c:208, 567).
AwakeHasSleepTimer ==
  (~CallInProgress /\ ~sleep /\ pc \in {"Get", "LowPower", "Fsm", "KeyUif"})
    => \/ countMs["SLEEP_EVT_TIM"] > 0
       \/ Queued("SYS_SLEEP_TIM")
       \/ pc = "KeyUif"
       \/ pc = "Fsm" /\ sysEvent \in {"SYS_RING"} \cup KeyEvents

\* The backlight is lit exactly while the device is kept awake, except while a
\* key is being handled: no order of keys, rings and timeouts leaves a sleeping
\* device lit or an awake one dark.
LitIffAwake == pc # "KeyUif" => (backlight <=> ~sleep)

--------------------------------------------------------------------------------
(* Refinement: SysCore does with a call what CallScreen promises.          *)

stageOf == [SYS_SLEEP |-> "idle", SYS_RING_TIM |-> "ringing",
            SYS_DATA_RECV |-> "listening", SYS_RING_END_WAIT |-> "passed",
            SYS_LINE_HANG_WAIT |-> "seized"]

Call == INSTANCE CallScreen
          WITH stage <- stageOf[sysStat], offHook <- offHook, listening <- adcOn

\* Whatever the interleaving, the call state machine takes a call through the
\* stages of CallScreen, in particular seizes and releases the line in pairs.
ImplementsCallScreen == Call!Spec

--------------------------------------------------------------------------------
(* Liveness, under FairSpec.                                               *)

\* The environment from some time on: no ring; no key; main again and again
\* runs out of events, which the LIFO queue does not give by itself;
\* RawPlayFile returns.
RingsEnd == <>[][~INT0Interrupt]_vars
KeysEnd == <>[][~CNInterrupt]_vars
KeepsUp == []<>(q = <<>> /\ pc \in {"LowPower", "WaitIdle"})
PlaybackReturns == []<>(pc # "Play")

\* An interrupt that comes between SysQueueGet and Sleep() or Idle() leaves an
\* event in the queue of a halted CPU: it is woken for it (main.c:128-136).
WokenForEvent == (q # <<>> /\ cpu # "run") ~> (cpu = "run" \/ overrun)

\* A rejected call is always answered with the message (main.c:285-299,
\* 355-359), unless the CPU was put to sleep in the call or the queue overran.
MessageIsPlayed ==
  KeepsUp => (offHook ~> (pc = "Play" \/ sleep \/ overrun))

\* When the phone stops ringing the call ends (main.c:336-353, 554-568), with
\* the same two exceptions.
CallEnds ==
  (RingsEnd /\ KeepsUp /\ PlaybackReturns)
    => (CallInProgress ~> (~CallInProgress \/ sleep \/ overrun))

\* Left alone, the device goes to sleep (main.c:139-146).
GoesToSleep ==
  (RingsEnd /\ KeysEnd /\ KeepsUp /\ PlaybackReturns)
    => []<>(cpu = "sleep" \/ overrun)

--------------------------------------------------------------------------------
(* What the comments of the code say and the code does not do.             *)

\* main.c:181-182: "Disable sleep. We will idle instead because we need the
\* timer clock to be enabled".
NoSleepInCall == CallInProgress => ~sleep

\* system.h:34: SYS_MAX_EV is the "Maximum number of queued system events".
QueueIsNeverOverrun == ~overrun
================================================================================
