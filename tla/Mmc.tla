----------------------------------- MODULE Mmc -----------------------------------
(***************************************************************************)
(* The driver of the SD card (fatfs/mmc.c): main exchanges bytes with the  *)
(* card over SPI while the TIMER4 interrupt counts two timeouts down.      *)
(*                                                                         *)
(* The card is not modelled: any byte may come, at any time.  A step of    *)
(* main is one turn of a loop that waits for a byte, and what follows it   *)
(* up to the next such loop.  SPI2 may be overrun in a write, as the        *)
(* comment of xchg_spi says; nothing in the code tells when, or why.       *)
(***************************************************************************)
EXTENDS Naturals

CONSTANTS
  InitTime, ReadyTime, TokenTime,   \* timeouts in ticks (1000, 500, 100)
  Attempts,                         \* turns of the loop for a response (10)
  MaxCount                          \* bound of the model: sectors of a call

VARIABLES
  op,       \* the function main is in: "init", "read", "write", "sync" or "none"
  asked,    \* the sectors it is for
  left,     \* count: those still to be transferred
  res,      \* what the last call returned
  phase,    \* the step of the call; those that send a command are named for it
  app,      \* CMD55 is being sent, before the command of the phase
  pc,       \* the loop main is in: "ready", "response", "token", "accept"; "idle" if none;
            \* "hung": it waits for SPIRBF, with SPIROV set
  n,        \* attempts left
  Timer1, Timer2,
  NOINIT, ty,    \* STA_NOINIT of Stat; ty, then CardType
  cs, spi,       \* the card is selected; SPI2 is enabled
  got, woken     \* history: sectors the card gave or took; it answered 0 to "leave"

vars == <<op, asked, left, res, phase, app, pc, n, Timer1, Timer2, NOINIT, ty, cs, spi, got, woken>>

Init ==
  /\ op = "none" /\ asked = 0 /\ left = 0 /\ res = "none"
  /\ phase = "none" /\ app = FALSE /\ pc = "idle" /\ n = 0
  /\ Timer1 = 0 /\ Timer2 = 0
  /\ NOINIT = TRUE /\ ty = "none" /\ cs = FALSE /\ spi = FALSE
  /\ got = 0 /\ woken = FALSE

--------------------------------------------------------------------------------
(* Parts of a step.  Each says what pc, the timers and the wires become.   *)

Dec(t) == IF t = 0 THEN 0 ELSE t - 1

\* ACMD41 (but CMD1 to leave the idle state of an MMC) and ACMD23.
IsApp(ph, type) == ph \in {"probe", "erase"} \/ (ph = "leave" /\ type # "MMC")

\* select(), which waits until the card is ready.
Select ==
  /\ pc' = "ready" /\ Timer2' = ReadyTime /\ cs' = TRUE

\* send_cmd() of the command of phase ph, to a card of some type.
Send(ph, type) ==
  /\ Select
  /\ phase' = ph /\ app' = IsApp(ph, type) /\ n' = Attempts

\* rcvr_datablock() waits for a token.
AwaitToken ==
  /\ pc' = "token" /\ Timer1' = TokenTime /\ phase' = "data"
  /\ UNCHANGED <<app, n, Timer2, cs>>

\* xmit_datablock() waits until the card is ready for a sector or the stop token.
AwaitReady(ph) ==
  /\ pc' = "ready" /\ Timer2' = ReadyTime /\ phase' = ph
  /\ UNCHANGED <<app, n, Timer1, cs>>

\* The last deselect(), and the result.
Return(result) ==
  /\ op' = "none" /\ res' = result
  /\ pc' = "idle" /\ phase' = "none" /\ app' = FALSE /\ n' = 0 /\ cs' = FALSE
  /\ UNCHANGED <<asked, Timer1, Timer2>>

Goes == UNCHANGED <<op, asked, res>>     \* the call goes on
InCall == UNCHANGED <<NOINIT, ty, spi>>  \* no part of disk_initialize

\* The end of disk_initialize: the card is known, or SPI2 is disabled.
Initialized(type) ==
  /\ NOINIT' = FALSE /\ ty' = type /\ Return("READY")
  /\ UNCHANGED <<left, spi>>

NotInitialized ==
  /\ NOINIT' = TRUE /\ ty' = "none" /\ spi' = FALSE /\ Return("NOINIT")
  /\ UNCHANGED left

--------------------------------------------------------------------------------
(* What main does with the response r to a command: "0", "1" (idle), "err",*)
(* or "none", which is 0xFF.                                               *)

InitSends(ph, type) == Send(ph, type) /\ ty' = type /\ Goes /\ UNCHANGED <<left, NOINIT, spi>>

\* Fault: the timeout is not looked at after the loop.
LeaveIdle_NoTimeout(r) ==
  IF r # "0" /\ Timer1 > 0
  THEN InitSends("leave", ty) /\ UNCHANGED Timer1
  ELSE InitSends("last", ty) /\ UNCHANGED Timer1

\* while (Timer1 && send_cmd(..)), and the test of Timer1 that follows.
LeaveIdle(r) ==
  IF r # "0" /\ Timer1 > 0
  THEN InitSends("leave", ty) /\ UNCHANGED Timer1
  ELSE IF Timer1 > 0 THEN InitSends("last", ty) /\ UNCHANGED Timer1
  ELSE NotInitialized

\* The first turn of that loop, with the type that is tried.
TryLeave(type) ==
  IF Timer1 > 0 THEN InitSends("leave", type) /\ UNCHANGED Timer1
  ELSE NotInitialized

InitReply(r) ==
  CASE phase = "CMD0" ->
         IF r = "1" THEN Timer1' = InitTime /\ InitSends("CMD8", ty) ELSE NotInitialized
    [] phase = "CMD8" ->
         IF r = "1" THEN TryLeave("SD2") \/ NotInitialized   \* by the voltages it reports
         ELSE InitSends("probe", ty) /\ UNCHANGED Timer1
    [] phase = "probe" -> TryLeave(IF r \in {"0", "1"} THEN "SD1" ELSE "MMC")
    [] phase = "leave" -> LeaveIdle(r)
    [] phase = "last" ->                                     \* CMD58 or CMD16
         IF r # "0" THEN NotInitialized
         ELSE \E type \in IF ty = "SD2" THEN {"SD2", "SD2 BLOCK"} ELSE {ty} : Initialized(type)

\* CMD17, 18, 24 or 25, ACMD23 and CMD12: the responses to the last two are ignored.
TransferReply(r) ==
  /\ InCall
  /\ CASE phase = "erase" -> Send("cmd", ty) /\ Goes /\ UNCHANGED <<left, Timer1>>
       [] phase = "stop" ->
            Return(IF left = 0 THEN "OK" ELSE "ERROR") /\ UNCHANGED left
       [] phase = "cmd" /\ r # "0" -> Return("ERROR") /\ UNCHANGED left
       [] phase = "cmd" /\ r = "0" ->
            /\ IF op = "read" THEN AwaitToken ELSE AwaitReady("data")
            /\ Goes /\ UNCHANGED left

\* The response to CMD55 decides whether its command is sent.
Reply(r) ==
  /\ UNCHANGED got
  /\ IF app /\ r \in {"0", "1"}
     THEN /\ Select /\ app' = FALSE /\ n' = Attempts
          /\ Goes /\ InCall /\ UNCHANGED <<left, phase, Timer1, woken>>
     ELSE /\ woken' = (woken \/ (phase = "leave" /\ r = "0"))
          /\ IF op = "init" THEN InitReply(r) ELSE TransferReply(r)

--------------------------------------------------------------------------------
(* The loops.  Nothing is exchanged while SPI2 is disabled: xchg_spi()     *)
(* would not return.                                                       *)

\* wait_ready() ends with a 0xFF; what was to be sent is sent.
Ready ==
  /\ InCall
  /\ CASE phase \in {"data", "stop token"} /\ op = "write" -> pc' = "accept" /\ Goes
            /\ UNCHANGED <<left, phase, app, n, Timer1, Timer2, cs, got, woken>>
       [] op = "sync" -> Return("OK") /\ UNCHANGED <<left, got, woken>>
       [] OTHER -> pc' = "response" /\ Goes
            /\ UNCHANGED <<left, phase, app, n, Timer1, Timer2, cs, got, woken>>

\* After the timeout send_cmd() returns 0xFF, also for CMD55.
NotReady ==
  IF op = "sync" \/ phase = "stop token"
  THEN InCall /\ Return("ERROR") /\ UNCHANGED <<left, got, woken>>
  ELSE IF phase = "data"
  THEN /\ InCall /\ UNCHANGED <<left, got, woken>>
       /\ IF asked = 1 THEN Return("ERROR") ELSE AwaitReady("stop token") /\ Goes
  ELSE Reply("none")

\* Fault: the loop does not look at the timer.
GivesUp_Never == FALSE

GivesUp == Timer2 = 0

WaitReady == pc = "ready" /\ spi /\ Ready

ReadyTimeout == pc = "ready" /\ spi /\ GivesUp /\ NotReady

\* A byte with bit 7 set is no response.
WaitResponse ==
  /\ pc = "response" /\ spi
  /\ \/ \E r \in {"0", "1", "err"} : Reply(r)
     \/ IF n > 1
        THEN /\ n' = n - 1
             /\ UNCHANGED <<op, asked, left, res, phase, app, pc, Timer1, Timer2, NOINIT, ty, cs,
                            spi, got, woken>>
        ELSE Reply("none")

\* A sector came, or none: the next, CMD12, or the end.
Received(ok) ==
  /\ InCall /\ UNCHANGED woken
  /\ left' = IF ok THEN left - 1 ELSE left
  /\ got' = IF ok THEN got + 1 ELSE got
  /\ IF ok /\ left' > 0 THEN AwaitToken /\ Goes
     ELSE IF asked = 1 THEN Return(IF ok THEN "OK" ELSE "ERROR")
     ELSE Send("stop", ty) /\ Goes /\ UNCHANGED Timer1

\* 0xFE, or any other byte but 0xFF.
WaitToken == pc = "token" /\ spi /\ \E ok \in BOOLEAN : Received(ok)

TokenTimeout == pc = "token" /\ spi /\ Timer1 = 0 /\ Received(FALSE)

\* A sector was sent and its data response is read, or the stop token was sent,
\* which has none.
Accept ==
  /\ pc = "accept" /\ spi /\ InCall /\ UNCHANGED woken
  /\ IF phase = "stop token"
     THEN Return(IF left = 0 THEN "OK" ELSE "ERROR") /\ UNCHANGED <<left, got>>
     ELSE \E ok \in BOOLEAN :
            /\ got' = IF ok THEN got + 1 ELSE got
            /\ left' = IF ok THEN left - 1 ELSE left
            /\ IF asked = 1 THEN Return(IF left' = 0 THEN "OK" ELSE "ERROR")
               ELSE AwaitReady(IF ok /\ left' > 0 THEN "data" ELSE "stop token") /\ Goes

\* mmc.c:107-108 says of xchg_spi that it "hangs when writing", with SPIROV set: then no
\* byte is received, and it waits for SPIRBF without a timeout.  Only power_on clears
\* SPIROV, which is not called in there.
Overrun ==
  /\ op = "write" /\ pc \in {"ready", "response", "accept"} /\ spi
  /\ pc' = "hung"
  /\ UNCHANGED <<op, asked, left, res, phase, app, n, Timer1, Timer2, NOINIT, ty, cs, spi, got, woken>>

--------------------------------------------------------------------------------
(* Calls.  FatFs calls disk_initialize at any time.                        *)

disk_initialize ==
  /\ op = "none"
  /\ op' = "init" /\ asked' = 0 /\ left' = 0 /\ res' = "none"
  /\ spi' = TRUE /\ ty' = "none" /\ got' = 0 /\ woken' = FALSE
  /\ Send("CMD0", "none")
  /\ UNCHANGED <<Timer1, NOINIT>>

\* The sectors of a read or a write; 0 for CTRL_SYNC, which sends no command.
Begin(o, count) ==
  /\ op = "none"
  /\ InCall /\ got' = 0 /\ UNCHANGED woken
  /\ asked' = count /\ left' = count /\ UNCHANGED Timer1
  /\ IF NOINIT
     THEN op' = op /\ res' = "NOTRDY" /\ UNCHANGED <<phase, app, pc, n, Timer2, cs>>
     ELSE /\ op' = o /\ res' = "none"
          /\ IF o = "sync" THEN Select /\ UNCHANGED <<phase, app, n>>
             ELSE Send(IF o = "write" /\ count > 1 /\ ty # "MMC" THEN "erase" ELSE "cmd", ty)

disk_read == \E count \in 1..MaxCount : Begin("read", count)
disk_write == \E count \in 1..MaxCount : Begin("write", count)
disk_ioctl == Begin("sync", 0)

Call == disk_initialize \/ disk_read \/ disk_write \/ disk_ioctl
Exchange == WaitReady \/ ReadyTimeout \/ WaitResponse \/ WaitToken \/ TokenTimeout \/ Accept

\* The card is always inserted and never protected, so that Stat does not change.
disk_timerproc ==
  /\ Timer1' = Dec(Timer1) /\ Timer2' = Dec(Timer2)
  /\ UNCHANGED <<op, asked, left, res, phase, app, pc, n, NOINIT, ty, cs, spi, got, woken>>

Next == Call \/ Exchange \/ Overrun \/ disk_timerproc

Spec == Init /\ [][Next]_vars

\* TIMER4 runs on.  An exchange of a byte returns as long as SPI2 is enabled and not
\* overrun, so that main does not stay in a loop that any byte, or a timeout, ends; but
\* the card need never send a byte that ends one of the others.
FairSpec ==
  /\ Spec
  /\ WF_vars(disk_timerproc)
  /\ WF_vars(ReadyTimeout) /\ WF_vars(TokenTimeout)
  /\ WF_vars(WaitResponse) /\ WF_vars(Accept)

--------------------------------------------------------------------------------
\* Whatever the card answers, and when the last byte comes after the timeout: a
\* call that returns OK has transferred every sector it was asked for (disk_read,
\* disk_write), Stat says initialised only of a card that has left its idle state
\* (disk_initialize), and after any call the card is released, and refused as
\* long as SPI2 is disabled.
OkMeansDone ==
  pc = "idle" =>
    /\ res = "OK" => got = asked
    /\ ~NOINIT => woken
    /\ ~cs /\ (NOINIT <=> ~spi)

\* Every call returns, also with a card that answers nothing or nonsense, unless SPI2
\* is overrun (mmc.c:107-108): the loops end with the timers, and no byte is waited
\* for while SPI2 is disabled.
Returns == op # "none" ~> (op = "none" \/ pc = "hung")
================================================================================
