----------------------------- MODULE SysCoreProofs -----------------------------
(***************************************************************************)
(* Proofs about SysCore, for every size of the queue, every set of keys    *)
(* and interrupt sources and every length of the timeouts.                 *)
(***************************************************************************)
EXTENDS SysCore, SequenceTheorems, TLAPS

--------------------------------------------------------------------------------
(* What the queue operations do to what is queued.                         *)

\* SysIQueuePut loses nothing: what was queued stays, and what fits is queued.
LEMMA PutKeeps ==
  ASSUME TypeOK, NEW evs \in Seq(Events), SysIQueuePut(evs)
  PROVE  /\ q' \in Seq(Events) /\ Len(q') <= SYS_MAX_EV
         /\ overrun' \in BOOLEAN
         /\ \A e : Queued(e) => Queued(e)'
         /\ Fits(evs) => \A i \in 1..Len(evs) : Queued(evs[i])'
<1>1. q \in Seq(Events) /\ Len(q) \in Nat /\ Len(evs) \in Nat /\ Len(q) <= SYS_MAX_EV
      /\ SYS_MAX_EV \in Nat
  BY LenProperties, QueueAssumption DEF TypeOK
<1>2. CASE Fits(evs)
  <2>1. q' = q \o evs /\ overrun' = overrun
    BY <1>2 DEF SysIQueuePut
  <2>2. /\ q' \in Seq(Events)
        /\ Len(q') = Len(q) + Len(evs)
        /\ \A i \in 1 .. Len(q) + Len(evs) :
             q'[i] = IF i <= Len(q) THEN q[i] ELSE evs[i - Len(q)]
    BY <2>1, <1>1, ConcatProperties
  <2>3. Len(q') <= SYS_MAX_EV
    BY <2>2, <1>2 DEF Fits
  <2>4. \A e : Queued(e) => Queued(e)'
    BY <2>2, <1>1 DEF Queued
  <2>5. ASSUME NEW i \in 1..Len(evs) PROVE Queued(evs[i])'
    <3>1. /\ Len(q) + i \in 1 .. Len(q')
          /\ Len(q) + i \in 1 .. Len(q) + Len(evs)
          /\ ~(Len(q) + i <= Len(q)) /\ Len(q) + i - Len(q) = i
      BY <2>2, <1>1
    <3>2. q'[Len(q) + i] = evs[i]
      BY <3>1, <2>2
    <3> QED BY <3>1, <3>2 DEF Queued
  <2> QED BY <2>1, <2>2, <2>3, <2>4, <2>5 DEF TypeOK
<1>3. CASE ~Fits(evs)
  <2>1. q' = q /\ overrun' = TRUE
    BY <1>3 DEF SysIQueuePut
  <2> QED BY <2>1, <1>1, <1>3 DEF Queued
<1> QED BY <1>2, <1>3

\* SysQueueGet takes the newest event and loses no other.
LEMMA PopKeeps ==
  ASSUME TypeOK, q # <<>>, Pop
  PROVE  /\ q' \in Seq(Events) /\ Len(q') <= SYS_MAX_EV
         /\ Top \in Events
         /\ \A e : Queued(e) => e = Top \/ Queued(e)'
<1>1. q \in Seq(Events) /\ Len(q) \in Nat \ {0} /\ Len(q) <= SYS_MAX_EV
      /\ SYS_MAX_EV \in Nat
  BY EmptySeq, QueueAssumption DEF TypeOK
<1>2. \A i \in 1..Len(q) : q[i] \in Events
  BY <1>1, ElementOfSeq
<1>3. /\ q' \in Seq(Events)
      /\ Len(q') = Len(q) - 1
      /\ \A i \in 1 .. Len(q) - 1 : q'[i] = q[i]
  <2> DEFINE n == Len(q) - 1
  <2>1. n \in Nat /\ n \in Int /\ 1 \in Int /\ n-1+1 = n /\ \A i \in 1 .. n : q[i] \in Events
    BY <1>1, <1>2
  <2>2. q' = SubSeq(q, 1, n)
    BY DEF Pop
  <2> HIDE DEF n
  <2>3. /\ SubSeq(q, 1, n) \in Seq(Events)
        /\ Len(SubSeq(q, 1, n)) = IF 1 <= n THEN n - 1 + 1 ELSE 0
        /\ \A i \in 1 .. n - 1 + 1 : SubSeq(q, 1, n)[i] = q[1 + i - 1]
    BY <2>1, SubSeqProperties
  <2>4. /\ q' \in Seq(Events)
        /\ Len(q') = n
        /\ \A i \in 1 .. n : q'[i] = q[i]
    BY <2>1, <2>2, <2>3
  <2> QED BY <2>4 DEF n
<1>4. Top \in Events
  BY <1>1, <1>2 DEF Top
<1>5. ASSUME NEW e, Queued(e), e # Top PROVE Queued(e)'
  <2>1. PICK i \in 1..Len(q) : q[i] = e
    BY <1>5 DEF Queued
  <2>2. i # Len(q)
    BY <2>1, <1>5 DEF Top
  <2>3. i \in 1 .. Len(q) - 1 /\ i \in 1 .. Len(q')
    BY <2>1, <2>2, <1>1, <1>3
  <2> QED BY <2>1, <2>3, <1>3 DEF Queued
<1> QED BY <1>1, <1>3, <1>4, <1>5

LEMMA SameQueue == q' = q => \A e : Queued(e)' <=> Queued(e)
BY DEF Queued

LEMMA EmptyQueue == q = <<>> => \A e : ~Queued(e)
BY DEF Queued

LEMMA Delays ==
  /\ RingDelay \in Nat /\ RingDelay > 0 /\ CidTimeout \in Nat /\ CidTimeout > 0
  /\ RingWait \in Nat /\ RingWait > 0 /\ HangDelay \in Nat /\ HangDelay > 0
  /\ EndWait \in Nat /\ EndWait > 0 /\ SleepTimeout \in Nat /\ SleepTimeout > 0
BY DelayAssumption

--------------------------------------------------------------------------------
(* Type correctness.                                                       *)

\* What an interrupt leaves, in the terms the invariants need.
LEMMA InterruptStep ==
  ASSUME TypeOK, NEW source, NEW evs \in Seq(Events),
         NEW counts \in [Timers -> Nat], Interrupt(source, evs, counts)
  PROVE  /\ TypeOK'
         /\ UNCHANGED mainVars
         /\ cpu' \in {"run", cpu}
         /\ \A e : Queued(e) => Queued(e)'
         /\ \/ countMs' = countMs
            \/ countMs' = counts /\ \A i \in 1..Len(evs) : Queued(evs[i])'
<1>1. SysIQueuePut(evs)
  BY DEF Interrupt
<1>2. /\ q' \in Seq(Events) /\ Len(q') <= SYS_MAX_EV /\ overrun' \in BOOLEAN
      /\ \A e : Queued(e) => Queued(e)'
      /\ Fits(evs) => \A i \in 1..Len(evs) : Queued(evs[i])'
  BY <1>1, PutKeeps
<1>3. /\ UNCHANGED mainVars
      /\ cpu' \in {"run", cpu} /\ cpu' \in {"run", "idle", "sleep"}
      /\ countMs' \in [Timers -> Nat]
      /\ Fits(evs) => countMs' = counts
      /\ ~Fits(evs) => countMs' = countMs
  BY DEF Interrupt, TypeOK
<1>4. TypeOK'
  BY <1>2, <1>3 DEF TypeOK, mainVars
<1> QED BY <1>2, <1>3, <1>4

LEMMA Singleton ==
  ASSUME NEW e \in Events
  PROVE  <<e>> \in Seq(Events) /\ Len(<<e>>) = 1 /\ <<e>>[1] = e
OBVIOUS

\* The interrupts, each as an instance of InterruptStep.
LEMMA IsrStep ==
  ASSUME TypeOK, Isr
  PROVE  /\ TypeOK'
         /\ UNCHANGED mainVars
         /\ cpu' \in {"run", cpu}
         /\ \A e : Queued(e) => Queued(e)'
         /\ countMs["SYS_EVT_TIM"] > 0
              => countMs'["SYS_EVT_TIM"] > 0 \/ Queued("SYS_TIM_EVT")'
         /\ countMs["SLEEP_EVT_TIM"] > 0
              => countMs'["SLEEP_EVT_TIM"] > 0 \/ Queued("SYS_SLEEP_TIM")'
<1>1. countMs \in [Timers -> Nat]
  BY DEF TypeOK
<1>2. ASSUME NEW source, NEW evs \in Seq(Events), Interrupt(source, evs, countMs)
      PROVE  /\ TypeOK' /\ UNCHANGED mainVars /\ cpu' \in {"run", cpu}
             /\ \A e : Queued(e) => Queued(e)'
             /\ countMs' = countMs
  BY <1>1, <1>2, InterruptStep
<1>3. CASE INT0Interrupt
  <2>1. <<"SYS_RING">> \in Seq(Events)
    BY Singleton DEF Events
  <2> QED BY <1>2, <1>3, <2>1 DEF INT0Interrupt
<1>4. CASE CNInterrupt
  <2>1. PICK evs \in {<<>>} \cup {<<key>> : key \in KeyEvents} :
          Interrupt("CN", evs, countMs)
    BY <1>4 DEF CNInterrupt
  <2>2. KeyEvents \subseteq Events
    BY DEF Events
  <2>3. evs \in Seq(Events)
    BY <2>1, <2>2, Singleton, EmptySeq
  <2> QED BY <1>2, <2>1, <2>3
<1>5. CASE T1Interrupt
  <2>1. PICK evs \in {<<>>, <<"SYS_RTC_MINUTE">>} : Interrupt("T1", evs, countMs)
    BY <1>5 DEF T1Interrupt
  <2>2. "SYS_RTC_MINUTE" \in Events
    BY DEF Events
  <2>3. evs \in Seq(Events)
    BY <2>1, <2>2, Singleton, EmptySeq
  <2> QED BY <1>2, <2>1, <2>3
<1>6. CASE ADCInterrupt
  <2>1. <<"SYS_DATA">> \in Seq(Events)
    BY Singleton DEF Events
  <2> QED BY <1>2, <1>6, <2>1 DEF ADCInterrupt
<1>7. CASE T4Interrupt
  <2>1. PICK a, b, counts :
          /\ a = Expired("SYS_EVT_TIM", "SYS_TIM_EVT")
          /\ b = Expired("SLEEP_EVT_TIM", "SYS_SLEEP_TIM")
          /\ counts = [t \in Timers |-> IF countMs[t] = 0 THEN 0 ELSE countMs[t] - 1]
    OBVIOUS
  <2>2. PICK evs : evs = a \o b
    OBVIOUS
  <2>3. Interrupt("T4", evs, counts)
    BY <1>7, <2>1, <2>2 DEF T4Interrupt
  <2>4. /\ counts \in [Timers -> Nat]
        /\ counts["SYS_EVT_TIM"] \in Nat /\ counts["SLEEP_EVT_TIM"] \in Nat
        /\ counts["SYS_EVT_TIM"] > 0 \/ ~(countMs["SYS_EVT_TIM"] > 0)
             \/ countMs["SYS_EVT_TIM"] = 1
        /\ counts["SLEEP_EVT_TIM"] > 0 \/ ~(countMs["SLEEP_EVT_TIM"] > 0)
             \/ countMs["SLEEP_EVT_TIM"] = 1
    BY <1>1, <2>1 DEF Timers
  <2>5. /\ a \in Seq(Events) /\ b \in Seq(Events)
        /\ countMs["SYS_EVT_TIM"] = 1 => Len(a) = 1 /\ a[1] = "SYS_TIM_EVT"
        /\ countMs["SLEEP_EVT_TIM"] = 1 => Len(b) = 1 /\ b[1] = "SYS_SLEEP_TIM"
    <3>1. "SYS_TIM_EVT" \in Events /\ "SYS_SLEEP_TIM" \in Events
      BY DEF Events
    <3> QED BY <2>1, <3>1, Singleton, EmptySeq DEF Expired
  <2>6. Len(a) \in Nat /\ Len(b) \in Nat
    BY <2>5, LenProperties
  <2>7. /\ evs \in Seq(Events)
        /\ Len(evs) = Len(a) + Len(b)
        /\ \A i \in 1 .. Len(a) + Len(b) :
             evs[i] = IF i <= Len(a) THEN a[i] ELSE b[i - Len(a)]
    BY <2>2, <2>5, ConcatProperties
  <2>8. countMs["SYS_EVT_TIM"] = 1 => 1 \in 1 .. Len(evs) /\ evs[1] = "SYS_TIM_EVT"
    <3>1. ASSUME countMs["SYS_EVT_TIM"] = 1
          PROVE  1 \in 1 .. Len(a) + Len(b) /\ 1 <= Len(a) /\ a[1] = "SYS_TIM_EVT"
      <4>1. Len(a) = 1 /\ a[1] = "SYS_TIM_EVT"
        BY <3>1, <2>5
      <4> QED BY <4>1, <2>6
    <3> QED BY <3>1, <2>7
  <2>9. countMs["SLEEP_EVT_TIM"] = 1
          => Len(a) + 1 \in 1 .. Len(evs) /\ evs[Len(a) + 1] = "SYS_SLEEP_TIM"
    <3>1. ASSUME countMs["SLEEP_EVT_TIM"] = 1
          PROVE  /\ Len(a) + 1 \in 1 .. Len(a) + Len(b)
                 /\ ~(Len(a) + 1 <= Len(a)) /\ (Len(a) + 1) - Len(a) = 1
      <4>1. Len(b) = 1 /\ Len(a) \in Nat
        BY <3>1, <2>5, <2>6
      <4> QED BY <4>1
    <3>2. countMs["SLEEP_EVT_TIM"] = 1 => b[1] = "SYS_SLEEP_TIM"
      BY <2>5
    <3> QED BY <3>1, <3>2, <2>7
  <2>10. /\ TypeOK' /\ UNCHANGED mainVars /\ cpu' \in {"run", cpu}
         /\ \A e : Queued(e) => Queued(e)'
         /\ \/ countMs' = countMs
            \/ countMs' = counts /\ \A i \in 1..Len(evs) : Queued(evs[i])'
    BY <2>3, <2>4, <2>7, InterruptStep
  <2>11. countMs["SYS_EVT_TIM"] > 0
           => countMs'["SYS_EVT_TIM"] > 0 \/ Queued("SYS_TIM_EVT")'
    BY <2>4, <2>8, <2>10
  <2>12. countMs["SLEEP_EVT_TIM"] > 0
           => countMs'["SLEEP_EVT_TIM"] > 0 \/ Queued("SYS_SLEEP_TIM")'
    BY <2>4, <2>9, <2>10
  <2> QED BY <2>10, <2>11, <2>12
<1> QED BY <1>3, <1>4, <1>5, <1>6, <1>7 DEF Isr

LEMMA TypeInit == Init => TypeOK
<1> SUFFICES ASSUME Init PROVE TypeOK
  OBVIOUS
<1>1. q \in Seq(Events) /\ Len(q) = 0 /\ Len(q) <= SYS_MAX_EV
  BY QueueAssumption, EmptySeq DEF Init
<1>2. countMs \in [Timers -> Nat]
  BY DEF Init
<1> QED BY <1>1, <1>2 DEF Init, TypeOK, PCs, SysStats

\* main's steps, one by one; the interrupts are InterruptStep's.
LEMMA TypeNext == TypeOK /\ [Next]_vars => TypeOK'
<1> SUFFICES ASSUME TypeOK, [Next]_vars PROVE TypeOK'
  OBVIOUS
<1> USE DEF PCs, SysStats, Timers
<1>1. ASSUME NEW t \in Timers, NEW n \in Nat, TimEvtRun(t, n)
      PROVE  countMs' \in [Timers -> Nat]
  BY <1>1 DEF TypeOK, TimEvtRun
<1>2. CASE MainLoop
  <2>1. CASE GetEvent
    BY <2>1, PopKeeps DEF GetEvent, TypeOK
  <2>2. CASE GetNone
    BY <2>2 DEF GetNone, TypeOK
  <2>3. CASE LowPower
    BY <2>3 DEF LowPower, TypeOK
  <2>4. CASE GoToSleep
    BY <2>4 DEF GoToSleep, TypeOK
  <2> QED BY <1>2, <2>1, <2>2, <2>3, <2>4 DEF MainLoop
<1>3. CASE SysFsm
  <2>1. CASE FsmRing
    <3>1. countMs' \in [Timers -> Nat]
      BY <2>1, Delays DEF FsmRing, TypeOK
    <3> QED BY <2>1, <3>1 DEF FsmRing, TypeOK
  <2>2. CASE FsmKey
    BY <2>2 DEF FsmKey, TypeOK
  <2>10. CASE FsmDataMore \/ FsmDataPermit \/ FsmPlay \/ FsmIgnore
    BY <2>10 DEF FsmDataMore, FsmDataPermit, FsmPlay, FsmIgnore, TypeOK
  <2>3. CASE FsmKeyDone
    BY <2>3, <1>1, Delays DEF FsmKeyDone, TypeOK
  <2>4. CASE FsmListen
    BY <2>4, <1>1, Delays DEF FsmListen, TypeOK
  <2>5. CASE FsmPermitDone
    BY <2>5, <1>1, Delays DEF FsmPermitDone, TypeOK
  <2>6. CASE FsmDataReject
    BY <2>6, <1>1, Delays DEF FsmDataReject, TypeOK
  <2>7. CASE FsmNotSent
    BY <2>7, <1>1, Delays DEF FsmNotSent, TypeOK
  <2>8. CASE FsmRingAgain
    BY <2>8, <1>1, Delays DEF FsmRingAgain, TypeOK
  <2>9. CASE FsmQuiet
    BY <2>9, <1>1, Delays DEF FsmQuiet, CallProcEnd, TypeOK
  <2> QED BY <1>3, <2>1, <2>2, <2>3, <2>4, <2>5, <2>6, <2>7, <2>8, <2>9, <2>10
          DEF SysFsm
<1>4. CASE EndOfCall
  <2>1. CASE WaitIdle
    BY <2>1 DEF WaitIdle, TypeOK
  <2>2. CASE WaitGet
    BY <2>2, PopKeeps DEF WaitGet, TypeOK
  <2>3. CASE CallEnd
    BY <2>3, <1>1, Delays DEF CallEnd, TypeOK
  <2> QED BY <1>4, <2>1, <2>2, <2>3 DEF EndOfCall
<1>5. CASE PlayDone
  BY <1>5, <1>1, Delays DEF PlayDone, CallProcEnd, TypeOK
<1>6. CASE Isr
  BY <1>6, IsrStep
<1>7. CASE UNCHANGED vars
  BY <1>7 DEF vars, mainVars, TypeOK
<1> QED BY <1>2, <1>3, <1>4, <1>5, <1>6, <1>7 DEF Next, Main, Playback, Undefined

\* Every variable keeps its type; the queue never holds more than SYS_MAX_EV
\* events while the program is defined (system.c:56-97).
THEOREM TypeCorrect == Spec => []TypeOK
BY TypeInit, TypeNext, PTL DEF Spec

--------------------------------------------------------------------------------
(* The inductive invariant.  What the states between two events add to the *)
(* properties: which call states each step of main belongs to, and that an *)
(* event already taken from the queue stands for its timer until it has    *)
(* been handled.                                                           *)

Ending == {"WaitIdle", "WaitGet", "CallEnd"}

PcInv ==
  /\ pc = "KeyUif" => sysStat = "SYS_SLEEP" /\ backlight
  /\ pc = "Permit" => sysStat = "SYS_DATA_RECV"
  /\ pc = "Play" => sysStat = "SYS_LINE_HANG_WAIT"
  /\ pc \in Ending => sysStat \in {"SYS_LINE_HANG_WAIT", "SYS_RING_END_WAIT"} /\ ~adcOn
  /\ adcOn => sysStat \in {"SYS_DATA_RECV", "SYS_RING_END_WAIT"}
  /\ pc = "Fsm" => sysEvent # "SYS_SLEEP_TIM"

StateInv == PcInv /\ LineDiscipline /\ CallStateIsClean /\ LitIffAwake

SysTimer == countMs["SYS_EVT_TIM"] > 0 \/ Queued("SYS_TIM_EVT")

TimerInv ==
  CallInProgress =>
    /\ pc \in {"Get", "LowPower", "SleepTim", "WaitIdle", "WaitGet"} => SysTimer
    /\ pc = "Fsm" => SysTimer \/ sysEvent = "SYS_TIM_EVT"

IInv == TypeOK /\ StateInv /\ TimerInv /\ AwakeHasSleepTimer

LEMMA IInvInit == Init => IInv
<1> SUFFICES ASSUME Init PROVE IInv
  OBVIOUS
<1>1. TypeOK
  BY TypeInit
<1>2. StateInv
  BY DEF Init, StateInv, PcInv, LineDiscipline, CallStateIsClean, LitIffAwake,
     Ending,
       CallInProgress
<1>3. TimerInv /\ AwakeHasSleepTimer
  BY DEF Init, TimerInv, AwakeHasSleepTimer, CallInProgress
<1> QED BY <1>1, <1>2, <1>3 DEF IInv

\* The state of the call, the line, the ADC, the backlight and the display:
\* no interrupt touches them.
LEMMA StateNext == TypeOK /\ StateInv /\ [Next]_vars => StateInv'
<1> SUFFICES ASSUME TypeOK, StateInv, [Next]_vars PROVE StateInv'
  OBVIOUS
<1>1. CASE MainLoop
  <2>1. CASE GetEvent
    BY <2>1
    DEF GetEvent, StateInv, PcInv, LineDiscipline, CallStateIsClean,
        LitIffAwake, Ending, CallInProgress
  <2>2. CASE GetNone
    BY <2>2
    DEF GetNone, StateInv, PcInv, LineDiscipline, CallStateIsClean,
        LitIffAwake, Ending, CallInProgress
  <2>3. CASE LowPower
    BY <2>3
    DEF LowPower, StateInv, PcInv, LineDiscipline, CallStateIsClean,
        LitIffAwake, Ending, CallInProgress
  <2>4. CASE GoToSleep
    BY <2>4
    DEF GoToSleep, StateInv, PcInv, LineDiscipline, CallStateIsClean,
        LitIffAwake, Ending, CallInProgress
  <2> QED BY <1>1, <2>1, <2>2, <2>3, <2>4 DEF MainLoop
<1>2. CASE SysFsm
  <2>1. CASE FsmRing
    BY <2>1
    DEF FsmRing, StateInv, PcInv, LineDiscipline, CallStateIsClean,
        LitIffAwake, Ending, CallInProgress, Handles
  <2>2. CASE FsmKey
    BY <2>2
    DEF FsmKey, StateInv, PcInv, LineDiscipline, CallStateIsClean, LitIffAwake,
        Ending, CallInProgress, Handles
  <2>3. CASE FsmKeyDone
    BY <2>3
    DEF FsmKeyDone, StateInv, PcInv, LineDiscipline, CallStateIsClean,
        LitIffAwake, Ending, CallInProgress
  <2>4. CASE FsmListen
    BY <2>4
    DEF FsmListen, StateInv, PcInv, LineDiscipline, CallStateIsClean,
        LitIffAwake, Ending, CallInProgress, Handles
  <2>5. CASE FsmDataMore
    BY <2>5
    DEF FsmDataMore, StateInv, PcInv, LineDiscipline, CallStateIsClean,
        LitIffAwake, Ending, CallInProgress, Handles
  <2>6. CASE FsmDataPermit
    BY <2>6
    DEF FsmDataPermit, StateInv, PcInv, LineDiscipline, CallStateIsClean,
        LitIffAwake, Ending, CallInProgress, Handles
  <2>7. CASE FsmPermitDone
    BY <2>7
    DEF FsmPermitDone, StateInv, PcInv, LineDiscipline, CallStateIsClean,
        LitIffAwake, Ending, CallInProgress
  <2>8. CASE FsmDataReject
    BY <2>8
    DEF FsmDataReject, StateInv, PcInv, LineDiscipline, CallStateIsClean,
        LitIffAwake, Ending, CallInProgress, Handles
  <2>9. CASE FsmNotSent
    BY <2>9
    DEF FsmNotSent, StateInv, PcInv, LineDiscipline, CallStateIsClean,
        LitIffAwake, Ending, CallInProgress, Handles
  <2>10. CASE FsmRingAgain
    BY <2>10
    DEF FsmRingAgain, StateInv, PcInv, LineDiscipline, CallStateIsClean,
        LitIffAwake, Ending, CallInProgress, Handles
  <2>11. CASE FsmQuiet
    BY <2>11
    DEF FsmQuiet, CallProcEnd, StateInv, PcInv, LineDiscipline,
        CallStateIsClean, LitIffAwake, Ending, CallInProgress, Handles
  <2>12. CASE FsmPlay
    BY <2>12
    DEF FsmPlay, StateInv, PcInv, LineDiscipline, CallStateIsClean,
        LitIffAwake, Ending, CallInProgress, Handles
  <2>13. CASE FsmIgnore
    BY <2>13
    DEF FsmIgnore, StateInv, PcInv, LineDiscipline, CallStateIsClean,
        LitIffAwake, Ending, CallInProgress
  <2> QED BY <1>2, <2>1, <2>2, <2>3, <2>4, <2>5, <2>6, <2>7, <2>8, <2>9, <2>10,
             <2>11, <2>12, <2>13
          DEF SysFsm
<1>3. CASE EndOfCall
  <2>1. CASE WaitIdle
    BY <2>1
    DEF WaitIdle, StateInv, PcInv, LineDiscipline, CallStateIsClean,
        LitIffAwake, Ending, CallInProgress
  <2>2. CASE WaitGet
    BY <2>2
    DEF WaitGet, StateInv, PcInv, LineDiscipline, CallStateIsClean,
        LitIffAwake, Ending, CallInProgress
  <2>3. CASE CallEnd
    BY <2>3
    DEF CallEnd, StateInv, PcInv, LineDiscipline, CallStateIsClean,
        LitIffAwake, Ending, CallInProgress
  <2> QED BY <1>3, <2>1, <2>2, <2>3 DEF EndOfCall
<1>4. CASE PlayDone
  BY <1>4
  DEF PlayDone, CallProcEnd, StateInv, PcInv, LineDiscipline, CallStateIsClean,
      LitIffAwake, Ending, CallInProgress
<1>5. CASE Isr
  <2>1. UNCHANGED mainVars
    BY <1>5, IsrStep
  <2> QED BY <2>1
          DEF mainVars, StateInv, PcInv, LineDiscipline, CallStateIsClean,
              LitIffAwake, Ending,
       CallInProgress
<1>6. CASE UNCHANGED vars
  BY <1>6
  DEF vars, mainVars, StateInv, PcInv, LineDiscipline, CallStateIsClean,
      LitIffAwake, Ending,
       CallInProgress
<1> QED BY <1>1, <1>2, <1>3, <1>4, <1>5, <1>6 DEF Next, Main, Playback, Undefined

\* The timer of a call in progress: each handler that takes its event restarts
\* it, each interrupt and each other event leaves it running or queued.
LEMMA TimerNext == TypeOK /\ StateInv /\ TimerInv /\ [Next]_vars => TimerInv'
<1> SUFFICES ASSUME TypeOK, StateInv, TimerInv, [Next]_vars PROVE TimerInv'
  OBVIOUS
<1>a. /\ countMs["SYS_EVT_TIM"] \in Nat /\ countMs["SLEEP_EVT_TIM"] \in Nat
      /\ DOMAIN countMs = Timers /\ "SYS_EVT_TIM" \in Timers /\ "SLEEP_EVT_TIM" \in Timers
      /\ countMs \in [Timers -> Nat]
  BY DEF TypeOK, Timers
<1>1. CASE MainLoop
  <2>1. CASE GetEvent
    BY <2>1, <1>a, PopKeeps DEF GetEvent, TimerInv, SysTimer, CallInProgress
  <2>2. CASE GetNone
    BY <2>2, <1>a, SameQueue, EmptyQueue
    DEF GetNone, TimerInv, SysTimer, CallInProgress
  <2>3. CASE LowPower
    BY <2>3, <1>a, SameQueue DEF LowPower, TimerInv, SysTimer, CallInProgress
  <2>4. CASE GoToSleep
    BY <2>4, <1>a, SameQueue DEF GoToSleep, TimerInv, SysTimer, CallInProgress
  <2> QED BY <1>1, <2>1, <2>2, <2>3, <2>4 DEF MainLoop
<1>2. CASE SysFsm
  <2>1. CASE FsmRing
    BY <2>1, <1>a, SameQueue, Delays
    DEF FsmRing, Handles, TimerInv, SysTimer, CallInProgress
  <2>2. CASE FsmKey
    BY <2>2, <1>a, SameQueue
    DEF FsmKey, Handles, TimerInv, SysTimer, CallInProgress, StateInv, PcInv
  <2>3. CASE FsmKeyDone
    BY <2>3, <1>a, SameQueue, Delays
    DEF FsmKeyDone, TimEvtRun, TimerInv, SysTimer, CallInProgress, StateInv,
        PcInv
  <2>4. CASE FsmListen
    BY <2>4, <1>a, SameQueue, Delays
    DEF FsmListen, TimEvtRun, Handles, TimerInv, SysTimer, CallInProgress
  <2>5. CASE FsmDataMore
    BY <2>5, <1>a, SameQueue
    DEF FsmDataMore, Handles, TimerInv, SysTimer, CallInProgress
  <2>6. CASE FsmDataPermit
    BY <2>6, <1>a, SameQueue
    DEF FsmDataPermit, Handles, TimerInv, SysTimer, CallInProgress, StateInv,
        PcInv
  <2>7. CASE FsmPermitDone
    BY <2>7, <1>a, SameQueue, Delays
    DEF FsmPermitDone, TimEvtRun, TimerInv, SysTimer, CallInProgress, StateInv,
        PcInv
  <2>8. CASE FsmDataReject
    BY <2>8, <1>a, SameQueue, Delays
    DEF FsmDataReject, TimEvtRun, Handles, TimerInv, SysTimer, CallInProgress
  <2>9. CASE FsmNotSent
    BY <2>9, <1>a, SameQueue, Delays
    DEF FsmNotSent, TimEvtRun, Handles, TimerInv, SysTimer, CallInProgress
  <2>10. CASE FsmRingAgain
    BY <2>10, <1>a, SameQueue, Delays
    DEF FsmRingAgain, TimEvtRun, Handles, TimerInv, SysTimer, CallInProgress
  <2>11. CASE FsmQuiet
    BY <2>11, <1>a, SameQueue, Delays
    DEF FsmQuiet, CallProcEnd, TimEvtRun, Handles, TimerInv, SysTimer,
        CallInProgress
  <2>12. CASE FsmPlay
    BY <2>12, <1>a, SameQueue
    DEF FsmPlay, Handles, TimerInv, SysTimer, CallInProgress
  <2>13. CASE FsmIgnore
    BY <2>13, <1>a, SameQueue
    DEF FsmIgnore, Handled, TypeOK, SysStats, TimerInv, SysTimer,
        CallInProgress
  <2> QED BY <1>2, <2>1, <2>2, <2>3, <2>4, <2>5, <2>6, <2>7, <2>8, <2>9, <2>10,
             <2>11, <2>12, <2>13
          DEF SysFsm
<1>3. CASE EndOfCall
  <2>1. CASE WaitIdle
    BY <2>1, <1>a, SameQueue DEF WaitIdle, TimerInv, SysTimer, CallInProgress
  <2>2. CASE WaitGet
    BY <2>2, <1>a, PopKeeps, EmptyQueue, SameQueue
    DEF WaitGet, TimerInv, SysTimer, CallInProgress
  <2>3. CASE CallEnd
    BY <2>3, <1>a, SameQueue, Delays
    DEF CallEnd, TimEvtRun, TimerInv, SysTimer, CallInProgress
  <2> QED BY <1>3, <2>1, <2>2, <2>3 DEF EndOfCall
<1>4. CASE PlayDone
  BY <1>4, <1>a, SameQueue, Delays
  DEF PlayDone, CallProcEnd, TimEvtRun, TimerInv, SysTimer, CallInProgress
<1>5. CASE Isr
  BY <1>5, <1>a, IsrStep DEF mainVars, TimerInv, SysTimer, CallInProgress
<1>6. CASE UNCHANGED vars
  BY <1>6, SameQueue DEF vars, mainVars, TimerInv, SysTimer, CallInProgress
<1> QED BY <1>1, <1>2, <1>3, <1>4, <1>5, <1>6 DEF Next, Main, Playback, Undefined

\* The sleep timer of a device that is awake between calls.
LEMMA AwakeNext ==
  TypeOK /\ StateInv /\ AwakeHasSleepTimer /\ [Next]_vars => AwakeHasSleepTimer'
<1> SUFFICES ASSUME TypeOK, StateInv, AwakeHasSleepTimer, [Next]_vars
             PROVE  AwakeHasSleepTimer'
  OBVIOUS
<1>a. /\ countMs["SYS_EVT_TIM"] \in Nat /\ countMs["SLEEP_EVT_TIM"] \in Nat
      /\ DOMAIN countMs = Timers /\ "SYS_EVT_TIM" \in Timers /\ "SLEEP_EVT_TIM" \in Timers
      /\ countMs \in [Timers -> Nat]
  BY DEF TypeOK, Timers
<1>1. CASE MainLoop
  <2>1. CASE GetEvent
    BY <2>1, <1>a, PopKeeps
    DEF GetEvent, AwakeHasSleepTimer, CallInProgress, StateInv, PcInv
  <2>2. CASE GetNone
    BY <2>2, <1>a, SameQueue, EmptyQueue
    DEF GetNone, AwakeHasSleepTimer, CallInProgress
  <2>3. CASE LowPower
    BY <2>3, <1>a, SameQueue DEF LowPower, AwakeHasSleepTimer, CallInProgress
  <2>4. CASE GoToSleep
    BY <2>4, <1>a, SameQueue DEF GoToSleep, AwakeHasSleepTimer, CallInProgress
  <2> QED BY <1>1, <2>1, <2>2, <2>3, <2>4 DEF MainLoop
<1>2. CASE SysFsm
  <2>1. CASE FsmRing
    BY <2>1, <1>a, SameQueue, Delays
    DEF FsmRing, Handles, AwakeHasSleepTimer, CallInProgress
  <2>2. CASE FsmKey
    BY <2>2, <1>a, SameQueue DEF FsmKey, Handles, AwakeHasSleepTimer, CallInProgress
  <2>3. CASE FsmKeyDone
    BY <2>3, <1>a, SameQueue, Delays
    DEF FsmKeyDone, TimEvtRun, AwakeHasSleepTimer, CallInProgress
  <2>4. CASE FsmListen
    BY <2>4, <1>a, SameQueue, Delays
    DEF FsmListen, TimEvtRun, Handles, AwakeHasSleepTimer, CallInProgress
  <2>5. CASE FsmDataMore
    BY <2>5, <1>a, SameQueue
    DEF FsmDataMore, Handles, AwakeHasSleepTimer, CallInProgress
  <2>6. CASE FsmDataPermit
    BY <2>6, <1>a, SameQueue
    DEF FsmDataPermit, Handles, AwakeHasSleepTimer, CallInProgress
  <2>7. CASE FsmPermitDone
    BY <2>7, <1>a, SameQueue, Delays
    DEF FsmPermitDone, TimEvtRun, AwakeHasSleepTimer, CallInProgress, StateInv,
        PcInv
  <2>8. CASE FsmDataReject
    BY <2>8, <1>a, SameQueue, Delays
    DEF FsmDataReject, TimEvtRun, Handles, AwakeHasSleepTimer, CallInProgress
  <2>9. CASE FsmNotSent
    BY <2>9, <1>a, SameQueue, Delays
    DEF FsmNotSent, TimEvtRun, Handles, AwakeHasSleepTimer, CallInProgress
  <2>10. CASE FsmRingAgain
    BY <2>10, <1>a, SameQueue, Delays
    DEF FsmRingAgain, TimEvtRun, Handles, AwakeHasSleepTimer, CallInProgress
  <2>11. CASE FsmQuiet
    BY <2>11, <1>a, SameQueue, Delays
    DEF FsmQuiet, CallProcEnd, TimEvtRun, Handles, AwakeHasSleepTimer,
        CallInProgress
  <2>12. CASE FsmPlay
    BY <2>12, <1>a, SameQueue
    DEF FsmPlay, Handles, AwakeHasSleepTimer, CallInProgress
  <2>13. CASE FsmIgnore
    BY <2>13, <1>a, SameQueue
    DEF FsmIgnore, Handled, AwakeHasSleepTimer, CallInProgress, StateInv, PcInv
  <2> QED BY <1>2, <2>1, <2>2, <2>3, <2>4, <2>5, <2>6, <2>7, <2>8, <2>9, <2>10,
             <2>11, <2>12, <2>13
          DEF SysFsm
<1>3. CASE EndOfCall
  <2>1. CASE WaitIdle
    BY <2>1, <1>a, SameQueue
    DEF WaitIdle, AwakeHasSleepTimer, CallInProgress, StateInv, PcInv
  <2>2. CASE WaitGet
    BY <2>2, <1>a, PopKeeps, EmptyQueue, SameQueue
    DEF WaitGet, AwakeHasSleepTimer, CallInProgress, StateInv, PcInv
  <2>3. CASE CallEnd
    BY <2>3, <1>a, SameQueue, Delays
    DEF CallEnd, TimEvtRun, AwakeHasSleepTimer, CallInProgress
  <2> QED BY <1>3, <2>1, <2>2, <2>3 DEF EndOfCall
<1>4. CASE PlayDone
  BY <1>4, <1>a, SameQueue, Delays
  DEF PlayDone, CallProcEnd, TimEvtRun, AwakeHasSleepTimer, CallInProgress
<1>5. CASE Isr
  BY <1>5, <1>a, IsrStep DEF mainVars, AwakeHasSleepTimer, CallInProgress
<1>6. CASE UNCHANGED vars
  BY <1>6, SameQueue DEF vars, mainVars, AwakeHasSleepTimer, CallInProgress
<1> QED BY <1>1, <1>2, <1>3, <1>4, <1>5, <1>6 DEF Next, Main, Playback, Undefined

LEMMA IInvNext == IInv /\ [Next]_vars => IInv'
BY TypeNext, StateNext, TimerNext, AwakeNext DEF IInv

LEMMA Inductive == Spec => []IInv
BY IInvInit, IInvNext, PTL DEF Spec

--------------------------------------------------------------------------------
(* The properties.                                                         *)

\* A call in progress always has its timer running or its event queued, for
\* every interleaving of main.c with the interrupts: no call is orphaned.
THEOREM CallsHaveTimers == Spec => []CallHasTimer
<1>1. IInv => CallHasTimer
  BY DEF IInv, TimerInv, SysTimer, CallHasTimer, StateInv, PcInv, CallInProgress
<1> QED BY <1>1, Inductive, PTL

\* The line is seized only for a rejected call, with the ADC off, and released
\* before the end of the call (main.c:285-299, 355-363).
THEOREM LineIsDisciplined == Spec => []LineDiscipline
<1>1. IInv => LineDiscipline
  BY DEF IInv, StateInv
<1> QED BY <1>1, Inductive, PTL

\* Between calls the line, the ADC and the display are back in their rest state
\* (main.c:554-568).
THEOREM CallsEndClean == Spec => []CallStateIsClean
<1>1. IInv => CallStateIsClean
  BY DEF IInv, StateInv
<1> QED BY <1>1, Inductive, PTL

\* A device awake between calls always has its sleep timer (main.c:139-146, 208,
\* 567).
THEOREM AwakeDevicesSleepLater == Spec => []AwakeHasSleepTimer
<1>1. IInv => AwakeHasSleepTimer
  BY DEF IInv
<1> QED BY <1>1, Inductive, PTL

\* The backlight follows sleep (main.c:141-144, 183-188, 205-207).
THEOREM BacklightFollowsSleep == Spec => []LitIffAwake
<1>1. IInv => LitIffAwake
  BY DEF IInv, StateInv
<1> QED BY <1>1, Inductive, PTL

--------------------------------------------------------------------------------
(* The refinement of CallScreen.                                           *)

LEMMA CallInit == Init => Call!Init
BY DEF Init, Call!Init, stageOf

\* Every step is a step of CallScreen or leaves its variables alone.
LEMMA CallNext == IInv /\ [Next]_vars => [Call!Next]_Call!vars
<1> SUFFICES ASSUME IInv, [Next]_vars PROVE [Call!Next]_Call!vars
  OBVIOUS
<1> USE DEF stageOf, Call!vars
<1>1. TypeOK /\ PcInv /\ LineDiscipline /\ CallStateIsClean
  BY DEF IInv, StateInv
<1>2. CASE UNCHANGED <<sysStat, offHook, adcOn>>
  BY <1>2
<1>3. CASE FsmRing
  BY <1>3 DEF FsmRing, Handles, Call!Next, Call!Ring
<1>4. CASE FsmListen
  BY <1>4 DEF FsmListen, Handles, Call!Next, Call!Listen
<1>5. CASE FsmPermitDone
  BY <1>5, <1>1 DEF FsmPermitDone, PcInv, Call!Next, Call!Pass
<1>6. CASE FsmNotSent
  BY <1>6 DEF FsmNotSent, Handles, Call!Next, Call!Pass
<1>7. CASE FsmDataReject
  BY <1>7 DEF FsmDataReject, Handles, Call!Next, Call!Seize
<1>8. CASE FsmQuiet
  BY <1>8, <1>1
  DEF FsmQuiet, CallProcEnd, Handles, TypeOK, Call!Next, Call!StopListening
<1>9. CASE PlayDone
  <2>1. sysStat = "SYS_LINE_HANG_WAIT" /\ sysStat' = sysStat /\ ~adcOn /\ ~offHook' /\ ~adcOn'
    BY <1>9, <1>1 DEF PlayDone, CallProcEnd, PcInv
  <2>2. CASE offHook
    BY <2>1, <2>2, <1>9, <1>1
    DEF PlayDone, CallProcEnd, TypeOK, Call!Next, Call!Release
  <2>3. CASE ~offHook
    BY <2>1, <2>3, <1>2, <1>9, <1>1 DEF PlayDone, CallProcEnd, TypeOK
  <2> QED BY <2>2, <2>3
<1>10. CASE CallEnd
  BY <1>10, <1>1 DEF CallEnd, PcInv, LineDiscipline, Ending, Call!Next, Call!Finish
<1>11. CASE MainLoop \/ WaitIdle \/ WaitGet
  BY <1>2, <1>11
  DEF MainLoop, GetEvent, GetNone, LowPower, GoToSleep, WaitIdle, WaitGet
<1>12. CASE FsmKey \/ FsmKeyDone \/ FsmDataMore \/ FsmDataPermit \/ FsmRingAgain
              \/ FsmPlay \/ FsmIgnore
  BY <1>2, <1>12 DEF FsmKey, FsmKeyDone, FsmDataMore, FsmDataPermit, FsmRingAgain,
                     FsmPlay, FsmIgnore
<1>13. CASE Isr
  BY <1>2, <1>1, <1>13, IsrStep DEF mainVars
<1>14. CASE UNCHANGED vars
  BY <1>2, <1>14 DEF vars, mainVars
<1> QED BY <1>3, <1>4, <1>5, <1>6, <1>7, <1>8, <1>9, <1>10, <1>11, <1>12,
           <1>13, <1>14
        DEF Next, Main, Playback, Undefined, SysFsm, EndOfCall

\* SysCore takes every call through the stages of CallScreen.
THEOREM CallsAreScreened == Spec => ImplementsCallScreen
<1>1. Spec => Call!Init /\ [][Call!Next]_Call!vars
  BY CallInit, CallNext, Inductive, PTL DEF Spec
<1> QED BY <1>1 DEF ImplementsCallScreen, Call!Spec
================================================================================
