----------------------------- MODULE DevicesProofs -----------------------------
(***************************************************************************)
(* Theorems about the devices of MCDevices: the keypad, the card, the      *)
(* line, the clock and the display; for every size, timeout, set of keys   *)
(* and text.                                                               *)
(***************************************************************************)
EXTENDS MCDevices, Induction, SequenceTheorems

--------------------------------------------------------------------------------
(* The keypad: the interrupt, and a key that moves meanwhile.             *)

\* While the interrupt runs, what it has read stands between the pins and lastP.
\* A key that is down and was not is fresh; the pins and what was read of them
\* differ in what was missed.
KeysInv ==
  /\ keybPc \in {"run", "enable", "isr"}
  /\ twice = {}
  /\ keybPc = "run" /\ CNIE => pins \ lastP \subseteq fresh
  /\ keybPc = "run" /\ CNIE /\ ~CNIF => Pad!Differ(pins, lastP) = missed
  /\ keybPc = "enable" => pins \ lastP \subseteq fresh /\ Pad!Differ(pins, lastP) = missed
  /\ keybPc = "isr" =>
       /\ curr \ lastP \subseteq fresh /\ pins \ curr \subseteq fresh
       /\ Pad!Differ(pins, curr) = missed

\* A key that goes down becomes fresh, one that goes up cannot be missing there.
LEMMA MoveIsFresh ==
  ASSUME NEW STATE q, NEW k, pins \ q \subseteq fresh, Pad!Move(k)
  PROVE  pins' \ q \subseteq fresh'
  BY DEF Pad!Move, Pad!Differ

\* What Move does while a key may be missed keeps the difference from q.
LEMMA MoveIsMissed ==
  ASSUME NEW STATE q, NEW k, keybPc # "run", Pad!Differ(pins, q) = missed, Pad!Move(k)
  PROVE  Pad!Differ(pins', q) = missed'
<1>1. pins' = Pad!Differ(pins, {k}) /\ missed' = Pad!Differ(missed, {k})
  BY DEF Pad!Move
<1>2. Pad!Differ(Pad!Differ(pins, {k}), q) = Pad!Differ(Pad!Differ(pins, q), {k})
  BY DEF Pad!Differ
<1> QED  BY <1>1, <1>2

\* Keyb.c: what the interrupt and KeybIntsEnable know of the pins.
LEMMA KeysInvHolds == Spec => []KeysInv
<1>1. Init => KeysInv
  BY DEF Init, Pad!Init, KeysInv
<1>2. KeysInv /\ [Next]_vars => KeysInv'
  <2> SUFFICES ASSUME KeysInv, [Next]_vars PROVE KeysInv'
    OBVIOUS
  <2>1. ASSUME NEW k \in Keys, Pad!Move(k) PROVE KeysInv'
    <3>1. /\ UNCHANGED <<lastP, CNIE, keybPc, curr, keyEvents, twice>>
          /\ CNIF' = TRUE
      BY <2>1 DEF Pad!Move
    <3>2. CASE keybPc = "run"
      BY <2>1, <3>1, <3>2, MoveIsFresh DEF KeysInv
    <3>3. CASE keybPc = "enable"
      <4>1. pins' \ lastP \subseteq fresh' /\ Pad!Differ(pins', lastP) = missed'
        BY <2>1, <3>3, MoveIsFresh, MoveIsMissed DEF KeysInv
      <4> QED  BY <3>1, <3>3, <4>1 DEF KeysInv
    <3>4. CASE keybPc = "isr"
      <4>1. pins' \ curr \subseteq fresh' /\ Pad!Differ(pins', curr) = missed'
        BY <2>1, <3>4, MoveIsFresh, MoveIsMissed DEF KeysInv
      <4>2. curr \ lastP \subseteq fresh'
        BY <2>1, <3>4 DEF KeysInv, Pad!Move
      <4> QED  BY <3>1, <3>4, <4>1, <4>2 DEF KeysInv
    <3> QED  BY <3>2, <3>3, <3>4 DEF KeysInv
  <2>2. CASE Pad!EnableRead
    BY <2>2 DEF Pad!EnableRead, KeysInv, Pad!Differ
  <2>3. CASE Pad!EnableDone
    BY <2>3 DEF Pad!EnableDone, KeysInv
  <2>4. CASE Pad!CNInterrupt
    BY <2>4 DEF Pad!CNInterrupt, KeysInv, Pad!Differ
  <2>5. CASE Pad!CNReturn
    <3>1. pins \ curr \subseteq fresh \ (curr \ lastP) /\ (curr \ lastP) \ fresh = {}
      BY <2>5 DEF Pad!CNReturn, KeysInv
    <3> QED  BY <2>5, <3>1 DEF Pad!CNReturn, KeysInv, Pad!Pressed
  <2>6. CASE UNCHANGED pad
    BY <2>6 DEF KeysInv, pad
  <2>7. Pad!Next => KeysInv'
    BY <2>1, <2>2, <2>3, <2>4, <2>5 DEF Pad!Next
  <2> QED  BY <2>6, <2>7 DEF Next, Step, vars
<1> QED  BY <1>1, <1>2, PTL DEF Spec

\* keyb.c: for every set of keys, _CNInterrupt reports no press twice, and is wrong about
\* no key but those that moved between the reading of the ports and the clearing of CNIF.
THEOREM PadReportsOnce == Spec => []ReportsOnce
<1>1. KeysInv => ReportsOnce
  BY DEF KeysInv, ReportsOnce, Pad!ReportsOnce
<1> QED  BY <1>1, KeysInvHolds, PTL

--------------------------------------------------------------------------------
(* The card: a call of the driver, whatever the card answers.              *)

InitPhases == {"CMD0", "CMD8", "probe", "leave", "last"}

\* Where main is in a call: the loops it may wait in, at each phase of each function.
WhereMainIs ==
  \/ op = "none" /\ mmcPc = "idle"
  \/ op = "init" /\ mmcPc \in {"ready", "response"} /\ phase \in InitPhases
  \/ op = "sync" /\ mmcPc = "ready" /\ phase = "none"
  \/ /\ op \in {"read", "write"} /\ mmcPc \in {"ready", "response"}
     /\ phase \in {"erase", "cmd", "stop"}
  \/ op = "read" /\ mmcPc = "token" /\ phase = "data"
  \/ op = "write" /\ mmcPc \in {"ready", "accept"} /\ phase \in {"data", "stop token"}
  \/ op = "write" /\ mmcPc = "hung" /\ phase \in {"erase", "cmd", "stop", "data", "stop token"}

\* The sectors of a call are transferred or left; there are some left where another
\* is waited for.
Sectors ==
  /\ got \in Nat /\ left \in Nat /\ asked \in Nat /\ got + left = asked
  /\ phase \in {"erase", "cmd", "data"} => left > 0
  /\ op \in {"none", "sync"} /\ res = "OK" => left = 0
  /\ op \in {"init", "sync"} => left = 0

\* What Stat says of the card, and SPI2.
CardState ==
  /\ op \in {"read", "write", "sync"} => ~NOINIT
  /\ op # "init" /\ ~NOINIT => woken
  /\ op = "init" => spi
  /\ op # "init" => NOINIT = ~spi
  /\ phase = "last" => woken
  /\ mmcPc = "idle" => ~cs /\ phase = "none"

CardTypes == NOINIT \in BOOLEAN /\ spi \in BOOLEAN /\ cs \in BOOLEAN /\ woken \in BOOLEAN

MmcInv == CardTypes /\ WhereMainIs /\ Sectors /\ CardState

\* A command is answered, or not: the call goes on with the next, or returns.
LEMMA ReplyKeepsInv ==
  ASSUME MmcInv, NEW r, Card!Reply(r),
         op # "none", mmcPc \in {"ready", "response"},
         phase \in InitPhases \cup {"erase", "cmd", "stop"}
  PROVE  MmcInv'
<1> USE DEF MmcInv
<1>1. CASE app /\ r \in {"0", "1"}
  <2>1. /\ mmcPc' = "ready" /\ cs' = TRUE
        /\ UNCHANGED <<op, asked, res, NOINIT, ty, spi, left, phase, woken, got>>
    BY <1>1 DEF Card!Reply, Card!Select, Card!Goes, Card!InCall
  <2>2. CardTypes' /\ Sectors'
    BY <2>1 DEF CardTypes, Sectors
  <2>3. WhereMainIs'
    BY <2>1 DEF WhereMainIs, InitPhases
  <2>4. CardState'
    BY <2>1 DEF CardState
  <2> QED  BY <2>2, <2>3, <2>4
<1>2. CASE ~(app /\ r \in {"0", "1"}) /\ op = "init"
  <2>1. phase \in InitPhases /\ spi /\ left = 0
    BY <1>2 DEF WhereMainIs, Sectors, CardState, InitPhases
  <2>2. got' = got /\ woken' = (woken \/ (phase = "leave" /\ r = "0")) /\ Card!InitReply(r)
    BY <1>2 DEF Card!Reply
  <2>3. \/ \E ph \in InitPhases : \E type :
             Card!InitSends(ph, type) /\ (ph = "last" => phase = "leave" /\ r = "0")
        \/ Card!NotInitialized
        \/ phase = "last" /\ \E type : Card!Initialized(type)
    BY <2>1, <2>2 DEF Card!InitReply, Card!TryLeave, Card!LeaveIdle, InitPhases
  <2>4. ASSUME NEW ph \in InitPhases, NEW type, Card!InitSends(ph, type),
               ph = "last" => phase = "leave" /\ r = "0"
        PROVE  MmcInv'
    <3>1. /\ mmcPc' = "ready" /\ cs' = TRUE /\ phase' = ph
          /\ UNCHANGED <<op, asked, res, left, NOINIT, spi>>
      BY <2>4 DEF Card!InitSends, Card!Send, Card!Select, Card!Goes
    <3>2. CardTypes' /\ Sectors'
      BY <1>2, <2>2, <3>1 DEF CardTypes, Sectors, InitPhases
    <3>3. WhereMainIs'
      BY <1>2, <3>1 DEF WhereMainIs
    <3>4. CardState'
      BY <1>2, <2>2, <2>4, <3>1 DEF CardState, CardTypes
    <3> QED  BY <3>2, <3>3, <3>4
  <2>5. CASE Card!NotInitialized
    <3>1. /\ mmcPc' = "idle" /\ op' = "none" /\ cs' = FALSE /\ phase' = "none" /\ NOINIT' = TRUE
          /\ spi' = FALSE /\ UNCHANGED <<asked, left>> /\ res' = "NOINIT"
      BY <2>5 DEF Card!NotInitialized, Card!Return
    <3> QED  BY <2>1, <2>2, <3>1 DEF CardTypes, Sectors, WhereMainIs, CardState
  <2>6. ASSUME phase = "last", NEW type, Card!Initialized(type) PROVE MmcInv'
    <3>1. /\ mmcPc' = "idle" /\ op' = "none" /\ cs' = FALSE /\ phase' = "none" /\ NOINIT' = FALSE
          /\ UNCHANGED <<asked, left, spi>> /\ res' = "READY"
      BY <2>6 DEF Card!Initialized, Card!Return
    <3> QED  BY <2>1, <2>2, <2>6, <3>1 DEF CardTypes, Sectors, WhereMainIs, CardState
  <2> QED  BY <2>3, <2>4, <2>5, <2>6
<1>3. CASE ~(app /\ r \in {"0", "1"}) /\ op # "init"
  <2>1. op \in {"read", "write"} /\ phase \in {"erase", "cmd", "stop"}
    BY <1>3 DEF WhereMainIs, InitPhases
  <2>2. /\ got' = got /\ Card!TransferReply(r) /\ woken' = woken
    BY <1>3, <2>1 DEF Card!Reply, CardTypes
  <2>3. UNCHANGED <<NOINIT, spi, left, asked>>
    BY <2>1, <2>2 DEF Card!TransferReply, Card!InCall, Card!Goes, Card!Return
  <2>4. \/ /\ mmcPc' = "idle" /\ op' = "none" /\ cs' = FALSE /\ phase' = "none"
           /\ res' = "OK" => left = 0
        \/ /\ mmcPc' = "ready" /\ cs' = TRUE /\ phase' = "cmd" /\ left > 0
           /\ UNCHANGED <<op, res>>
        \/ /\ mmcPc' = "token" /\ op = "read" /\ phase' = "data" /\ cs' = cs /\ left > 0
           /\ UNCHANGED <<op, res>>
        \/ /\ mmcPc' = "ready" /\ op = "write" /\ phase' = "data" /\ cs' = cs /\ left > 0
           /\ UNCHANGED <<op, res>>
    BY <2>1, <2>2 DEF Card!TransferReply, Card!Return, Card!Send, Card!Select,
       Card!AwaitToken, Card!AwaitReady, Card!Goes, Sectors
  <2>5. CardTypes' /\ Sectors'
    BY <2>1, <2>2, <2>3, <2>4 DEF CardTypes, Sectors
  <2>6. WhereMainIs'
    BY <2>1, <2>4 DEF WhereMainIs
  <2>7. CardState'
    BY <2>1, <2>2, <2>3, <2>4 DEF CardState
  <2> QED  BY <2>5, <2>6, <2>7
<1> QED  BY <1>1, <1>2, <1>3

\* A sector came, or did not.
LEMMA ReceivedKeepsInv ==
  ASSUME MmcInv, NEW ok \in BOOLEAN, Card!Received(ok), mmcPc = "token"
  PROVE  MmcInv'
<1> USE DEF MmcInv
<1>1. op = "read" /\ phase = "data" /\ left > 0
  BY DEF WhereMainIs, Sectors
<1>2. /\ UNCHANGED <<NOINIT, spi, woken, asked>>
      /\ left' = IF ok THEN left - 1 ELSE left
      /\ got' = IF ok THEN got + 1 ELSE got
  BY DEF Card!Received, Card!InCall, Card!AwaitToken, Card!Goes, Card!Return
<1>3. \/ /\ mmcPc' = "idle" /\ op' = "none" /\ cs' = FALSE /\ phase' = "none"
         /\ res' = "OK" => left' = 0
      \/ /\ mmcPc' = "ready" /\ cs' = TRUE /\ phase' = "stop" /\ UNCHANGED <<op, res>>
      \/ /\ mmcPc' = "token" /\ cs' = cs /\ phase' = "data" /\ left' > 0 /\ UNCHANGED <<op, res>>
  BY <1>1 DEF Card!Received, Card!Return, Card!Send, Card!Select, Card!AwaitToken,
     Card!Goes, Sectors
<1>4. CardTypes' /\ Sectors'
  <2>1. got' \in Nat /\ left' \in Nat /\ asked' \in Nat /\ got' + left' = asked'
    BY <1>1, <1>2 DEF Sectors
  <2>2. cs' \in BOOLEAN
    BY <1>3 DEF CardTypes
  <2>3. CardTypes'
    BY <1>2, <2>2 DEF CardTypes
  <2> QED  BY <1>1, <1>3, <2>1, <2>3 DEF Sectors
<1>5. WhereMainIs'
  BY <1>1, <1>3 DEF WhereMainIs
<1>6. CardState'
  BY <1>1, <1>2, <1>3 DEF CardState
<1> QED  BY <1>4, <1>5, <1>6

\* A sector, or the stop token, was sent.
LEMMA AcceptKeepsInv ==
  ASSUME MmcInv, Card!Accept
  PROVE  MmcInv'
<1> USE DEF MmcInv
<1>1. op = "write" /\ phase \in {"data", "stop token"} /\ UNCHANGED <<NOINIT, spi, woken>>
  BY DEF Card!Accept, WhereMainIs, Card!InCall
<1>2. CASE phase = "stop token"
  <2>1. /\ mmcPc' = "idle" /\ op' = "none" /\ cs' = FALSE /\ phase' = "none"
        /\ res' = "OK" => left = 0
        /\ UNCHANGED <<left, got, asked>>
    BY <1>2 DEF Card!Accept, Card!Return
  <2> QED  BY <1>1, <2>1 DEF CardTypes, Sectors, WhereMainIs, CardState
<1>3. CASE phase = "data"
  <2>1. PICK ok \in BOOLEAN :
          /\ got' = IF ok THEN got + 1 ELSE got
          /\ left' = IF ok THEN left - 1 ELSE left
          /\ IF asked = 1 THEN Card!Return(IF left' = 0 THEN "OK" ELSE "ERROR")
             ELSE Card!AwaitReady(IF ok /\ left' > 0 THEN "data" ELSE "stop token") /\ Card!Goes
    BY <1>3 DEF Card!Accept
  <2>2. \/ /\ mmcPc' = "idle" /\ op' = "none" /\ cs' = FALSE /\ phase' = "none" /\ asked' = asked
           /\ res' = "OK" => left' = 0
        \/ /\ mmcPc' = "ready" /\ cs' = cs /\ UNCHANGED <<op, res, asked>>
           /\ phase' = "stop token" \/ (phase' = "data" /\ left' > 0)
    BY <2>1 DEF Card!Return, Card!AwaitReady, Card!Goes
  <2>3. got' \in Nat /\ left' \in Nat /\ asked' \in Nat /\ got' + left' = asked'
    <3>1. asked' = asked
      BY <2>2
    <3>2. left > 0
      BY <1>3 DEF Sectors
    <3>3. CASE ok
      <4>1. got' = got + 1 /\ left' = left - 1
        BY <2>1, <3>3
      <4> QED  BY <3>1, <3>2, <4>1 DEF Sectors
    <3>4. CASE ~ok
      <4>1. got' = got /\ left' = left
        BY <2>1, <3>4
      <4> QED  BY <3>1, <4>1 DEF Sectors
    <3> QED  BY <3>3, <3>4
  <2>4. CardTypes'
    BY <1>1, <2>2 DEF CardTypes
  <2>5. Sectors'
    BY <1>1, <2>2, <2>3 DEF Sectors
  <2>6. WhereMainIs'
    BY <1>1, <2>2 DEF WhereMainIs
  <2>7. CardState'
    BY <1>1, <2>2 DEF CardState
  <2> QED  BY <2>4, <2>5, <2>6, <2>7
<1> QED  BY <1>1, <1>2, <1>3

\* The card is ready: main goes on to what it was to send.
LEMMA ReadyKeepsInv ==
  ASSUME MmcInv, Card!Ready, mmcPc = "ready"
  PROVE  MmcInv'
<1> USE DEF MmcInv
<1>1. UNCHANGED <<NOINIT, spi, woken, left, got, asked>>
  BY DEF Card!Ready, Card!InCall, Card!Goes, Card!Return
<1>2. CASE op = "sync"
  <2>1. mmcPc' = "idle" /\ op' = "none" /\ cs' = FALSE /\ phase' = "none"
    BY <1>2 DEF Card!Ready, Card!Return
  <2> QED  BY <1>1, <1>2, <2>1 DEF CardTypes, Sectors, WhereMainIs, CardState
<1>3. CASE op = "write" /\ phase \in {"data", "stop token"}
  <2>1. mmcPc' = "accept" /\ UNCHANGED <<op, res, phase, cs>>
    BY <1>3 DEF Card!Ready, Card!Goes
  <2> QED  BY <1>1, <1>3, <2>1 DEF CardTypes, Sectors, WhereMainIs, CardState
<1>4. CASE op # "sync" /\ ~(op = "write" /\ phase \in {"data", "stop token"})
  <2>1. mmcPc' = "response" /\ UNCHANGED <<op, res, phase, cs>>
    BY <1>4 DEF Card!Ready, Card!Goes
  <2>2. WhereMainIs'
    BY <1>4, <2>1 DEF WhereMainIs
  <2>3. CardTypes' /\ Sectors' /\ CardState'
    BY <1>1, <2>1 DEF CardTypes, Sectors, CardState
  <2> QED  BY <2>2, <2>3
<1> QED  BY <1>2, <1>3, <1>4

\* The card was not ready in time.
LEMMA NotReadyKeepsInv ==
  ASSUME MmcInv, Card!NotReady, mmcPc = "ready"
  PROVE  MmcInv'
<1> USE DEF MmcInv
<1>1. CASE op = "sync" \/ phase = "stop token"
  <2>1. /\ mmcPc' = "idle" /\ op' = "none" /\ cs' = FALSE /\ phase' = "none" /\ res' = "ERROR"
        /\ UNCHANGED <<NOINIT, spi, woken, left, got, asked>>
    BY <1>1 DEF Card!NotReady, Card!Return, Card!InCall
  <2>2. op \in {"sync", "write"}
    BY <1>1 DEF WhereMainIs, InitPhases
  <2> QED  BY <2>1, <2>2 DEF CardTypes, Sectors, WhereMainIs, CardState
<1>2. CASE op # "sync" /\ phase = "data"
  <2>1. op = "write"
    BY <1>2 DEF WhereMainIs, InitPhases
  <2>2. /\ UNCHANGED <<NOINIT, spi, woken, left, got, asked>>
        /\ \/ mmcPc' = "idle" /\ op' = "none" /\ cs' = FALSE /\ phase' = "none" /\ res' = "ERROR"
           \/ mmcPc' = "ready" /\ phase' = "stop token" /\ UNCHANGED <<op, res, cs>>
    BY <1>2 DEF Card!NotReady, Card!Return, Card!InCall, Card!AwaitReady, Card!Goes
  <2> QED  BY <2>1, <2>2 DEF CardTypes, Sectors, WhereMainIs, CardState
<1>3. CASE op # "sync" /\ phase \notin {"data", "stop token"}
  <2>1. op # "none" /\ phase \in InitPhases \cup {"erase", "cmd", "stop"}
    BY <1>3 DEF WhereMainIs, InitPhases
  <2>2. Card!Reply("none")
    BY <1>3 DEF Card!NotReady
  <2> QED  BY <2>1, <2>2, ReplyKeepsInv
<1> QED  BY <1>1, <1>2, <1>3

\* FatFs calls the driver.
LEMMA BeginKeepsInv ==
  ASSUME MmcInv, NEW o \in {"read", "write", "sync"}, NEW count \in Nat,
         o = "sync" <=> count = 0, Card!Begin(o, count)
  PROVE  MmcInv'
<1> USE DEF MmcInv
<1>1. /\ op = "none" /\ UNCHANGED <<NOINIT, spi, woken>>
      /\ got' = 0 /\ asked' = count /\ left' = count
  BY DEF Card!Begin, Card!InCall
<1>2. CASE NOINIT
  <2>1. res' = "NOTRDY" /\ UNCHANGED <<op, mmcPc, phase, cs>>
    BY <1>2 DEF Card!Begin
  <2> QED  BY <1>1, <2>1 DEF CardTypes, Sectors, WhereMainIs, CardState
<1>3. CASE ~NOINIT
  <2>1. /\ op' = o /\ res' = "none" /\ mmcPc' = "ready" /\ cs' = TRUE
        /\ IF o = "sync" THEN phase' = phase ELSE phase' \in {"cmd", "erase"}
    BY <1>3 DEF Card!Begin, Card!Send, Card!Select
  <2>2. phase = "none" /\ (o # "sync" => count > 0)
    BY <1>1 DEF WhereMainIs, CardState
  <2>3. CardTypes' /\ Sectors'
    BY <1>1, <2>1, <2>2 DEF CardTypes, Sectors
  <2>4. WhereMainIs'
    BY <2>1, <2>2 DEF WhereMainIs
  <2>5. CardState'
    BY <1>1, <1>3, <2>1, <2>2 DEF CardState, CardTypes, WhereMainIs
  <2> QED  BY <2>3, <2>4, <2>5
<1> QED  BY <1>2, <1>3

\* FatFs initialises the card, whatever is known of it.
LEMMA InitializeKeepsInv == MmcInv /\ Card!disk_initialize => MmcInv'
<1> SUFFICES ASSUME MmcInv, Card!disk_initialize PROVE MmcInv'
  OBVIOUS
<1>1. /\ op' = "init" /\ asked' = 0 /\ left' = 0 /\ got' = 0 /\ res' = "none" /\ spi' = TRUE
      /\ woken' = FALSE /\ NOINIT' = NOINIT /\ mmcPc' = "ready" /\ phase' = "CMD0" /\ cs' = TRUE
  BY DEF Card!disk_initialize, Card!Send, Card!Select
<1>2. CardTypes'
  BY <1>1 DEF MmcInv, CardTypes
<1>3. Sectors'
  BY <1>1 DEF Sectors
<1>4. WhereMainIs'
  BY <1>1 DEF WhereMainIs, InitPhases
<1>5. CardState'
  BY <1>1 DEF CardState
<1> QED  BY <1>2, <1>3, <1>4, <1>5 DEF MmcInv

\* Whatever the card does, and wherever the interrupt comes.
LEMMA MmcInvHolds == Spec => []MmcInv
<1>1. Init => MmcInv
  <2> SUFFICES ASSUME Card!Init PROVE MmcInv
    BY DEF Init
  <2>1. CardTypes /\ WhereMainIs
    BY DEF Card!Init, CardTypes, WhereMainIs
  <2>2. Sectors
    BY DEF Card!Init, Sectors
  <2>3. CardState
    BY DEF Card!Init, CardState
  <2> QED  BY <2>1, <2>2, <2>3 DEF MmcInv
<1>2. MmcInv /\ [Next]_vars => MmcInv'
  <2> SUFFICES ASSUME MmcInv, [Next]_vars PROVE MmcInv'
    OBVIOUS
  <2>1. CASE Card!Call
    <3>1. ASSUME NEW count \in 1..MaxCount, Card!Begin("read", count) \/ Card!Begin("write", count)
          PROVE  MmcInv'
      <4>1. count \in Nat /\ count # 0
        BY CardAssumption
      <4> QED  BY <3>1, <4>1, BeginKeepsInv
    <3>2. CASE Card!disk_ioctl
      BY <3>2, BeginKeepsInv DEF Card!disk_ioctl
    <3> QED  BY <2>1, <3>1, <3>2, InitializeKeepsInv DEF Card!Call, Card!disk_read, Card!disk_write
  <2>2. CASE Card!Exchange
    <3>1. CASE Card!WaitReady \/ Card!ReadyTimeout
      BY <3>1, ReadyKeepsInv, NotReadyKeepsInv DEF Card!WaitReady, Card!ReadyTimeout
    <3>2. CASE Card!WaitResponse
      <4>1. CASE \E r \in {"0", "1", "err", "none"} : Card!Reply(r)
        <5>1. /\ op # "none" /\ mmcPc = "response"
              /\ phase \in InitPhases \cup {"erase", "cmd", "stop"}
          BY <3>2 DEF Card!WaitResponse, MmcInv, WhereMainIs
        <5> QED  BY <4>1, <5>1, ReplyKeepsInv
      <4>2. CASE UNCHANGED <<op, asked, left, res, phase, mmcPc, NOINIT, cs, spi, got, woken>>
        BY <4>2 DEF MmcInv, CardTypes, WhereMainIs, Sectors, CardState
      <4> QED  BY <3>2, <4>1, <4>2 DEF Card!WaitResponse
    <3>3. CASE Card!WaitToken \/ Card!TokenTimeout
      BY <3>3, ReceivedKeepsInv DEF Card!WaitToken, Card!TokenTimeout
    <3> QED  BY <2>2, <3>1, <3>2, <3>3, AcceptKeepsInv DEF Card!Exchange
  <2>3. CASE Card!disk_timerproc \/ UNCHANGED card
    <3>1. UNCHANGED <<op, asked, left, res, phase, mmcPc, NOINIT, cs, spi, got, woken>>
      BY <2>3 DEF Card!disk_timerproc, card
    <3>2. CardTypes' /\ WhereMainIs'
      BY <3>1 DEF MmcInv, CardTypes, WhereMainIs
    <3>3. Sectors' /\ CardState'
      BY <3>1 DEF MmcInv, Sectors, CardState
    <3> QED  BY <3>2, <3>3 DEF MmcInv
  <2>4. CASE Card!Overrun
    <3>1. /\ op = "write" /\ mmcPc' = "hung" /\ mmcPc # "idle" /\ mmcPc # "hung"
          /\ UNCHANGED <<op, asked, left, res, phase, NOINIT, cs, spi, got, woken>>
      BY <2>4 DEF Card!Overrun
    <3>2. CardTypes' /\ WhereMainIs'
      BY <3>1 DEF MmcInv, CardTypes, WhereMainIs
    <3>3. Sectors' /\ CardState'
      BY <3>1 DEF MmcInv, Sectors, CardState
    <3> QED  BY <3>2, <3>3 DEF MmcInv
  <2>5. Card!Next => MmcInv'
    BY <2>1, <2>2, <2>3, <2>4 DEF Card!Next
  <2> QED  BY <2>3, <2>5 DEF Next, Step, vars
<1> QED  BY <1>1, <1>2, PTL DEF Spec

\* mmc.c: a call of the driver that returns OK has transferred what it was asked for, and
\* Stat tells whether the card can be used: for every card, and all timeouts.
THEOREM CardOkMeansDone == Spec => []OkMeansDone
<1>1. MmcInv => OkMeansDone
  BY DEF MmcInv, CardTypes, WhereMainIs, Sectors, CardState, OkMeansDone, Card!OkMeansDone
<1> QED  BY <1>1, MmcInvHolds, PTL

--------------------------------------------------------------------------------
(* The line: _ADCInterrupt fills one half of data while main works in the  *)
(* frame of the other.                                                     *)

\* The half that is being filled, what it has of its frame, the frames before it.
Half == IF dataPos < ND + NS THEN 0 ELSE NS
Filled == dataPos - ND - Half
Completed == taken + posted + (IF frame = Line!NoFrame THEN 0 ELSE 1)

\* The sample at place x of the stream, which begins with the delay of the first frame.
Stream(x) == IF x < ND THEN Line!Old ELSE x - ND + 1

LineTypeOK ==
  /\ data \in [0 .. 2*NS + ND - 1 -> Nat]
  /\ framePos \in {0, NS} /\ frame \in {0, NS, Line!NoFrame}
  /\ samples \in Nat /\ posted \in Nat /\ taken \in Nat

\* dataPos is in one of the halves, after a number of whole blocks, and time and
\* framePos agree with it.
PositionInv ==
  /\ dataPos \in ND .. ND + 2*NS - 1
  /\ \E q \in 0..NS : Filled = q * BLOCK
  /\ samples = Completed * NS + Filled
  /\ IF Completed = 0 THEN Half = 0 ELSE framePos = NS - Half

\* The frame that is being filled holds its delay and its first samples; the one
\* before it, which main works in, is not overwritten.
DataInv ==
  /\ \A i \in 0 .. ND + Filled - 1 : data[Half + i] = Stream(samples - Filled + i)
  /\ Completed > 0 =>
       \A i \in 0 .. ND + NS - 1 : data[NS - Half + i] = Stream(samples - Filled - NS + i)

\* Main is at most one frame behind.
LagInv == ~late => IF frame = Line!NoFrame THEN posted <= 1 ELSE posted = 0 /\ frame = framePos

LineInv ==
  /\ LineTypeOK
  /\ frame # Line!NoFrame => on
  /\ on => PositionInv /\ DataInv /\ LagInv

\* A block of the frame is missing, and more than one unless it is the last.
LEMMA BlockFits ==
  ASSUME PositionInv
  PROVE  /\ Filled \in 0..NS-BLOCK /\ BLOCK <= NS /\ Half \in {0, NS} /\ dataPos = ND + Half + Filled
         /\ Filled + BLOCK # NS => Filled + 2 * BLOCK <= NS
<1>1. /\ NS \in Nat /\ BLOCK \in Nat /\ ND \in Nat /\ NS > 0 /\ BLOCK > 0 /\ dataPos \in ND .. ND + 2*NS - 1
  BY LineAssumption DEF PositionInv
<1>2. /\ Filled \in 0..NS-1 /\ Half \in {0, NS} /\ dataPos = ND + Half + Filled
  BY <1>1 DEF Filled, Half
<1>3. PICK q \in Nat : Filled = q * BLOCK
  BY <1>1 DEF PositionInv
<1>4. PICK m \in Nat : NS = m * BLOCK
  <2>1. NS = (NS \div BLOCK) * BLOCK /\ NS \div BLOCK \in Nat
    BY <1>1, LineAssumption
  <2> QED  BY <2>1
<1>5. q < m
  BY <1>1, <1>2, <1>3, <1>4
<1>6. (q + 1) * BLOCK <= m * BLOCK
  BY <1>1, <1>5
<1>7. (q + 1) * BLOCK = q * BLOCK + BLOCK
  BY <1>1
<1>8. q + 1 # m => (q + 2) * BLOCK <= m * BLOCK /\ (q + 2) * BLOCK = q * BLOCK + 2 * BLOCK
  BY <1>1, <1>5
<1> QED  BY <1>1, <1>2, <1>3, <1>4, <1>6, <1>7, <1>8

\* The block that is copied goes on with the stream.
LEMMA CopiedGoesOn ==
  ASSUME LineTypeOK, PositionInv, DataInv
  PROVE  /\ Line!Copied \in [0 .. 2*NS + ND - 1 -> Nat]
         /\ \A j \in 0 .. ND + Filled + BLOCK - 1 : Line!Copied[Half + j] = Stream(samples - Filled + j)
         /\ \A i \in 0 .. 2*NS + ND - 1 \ (dataPos .. dataPos + BLOCK - 1) : Line!Copied[i] = data[i]
<1>1. /\ NS \in Nat /\ BLOCK \in Nat /\ ND \in Nat /\ NS > 0 /\ BLOCK > 0 /\ samples \in Nat
      /\ data \in [0 .. 2*NS + ND - 1 -> Nat]
  BY LineAssumption DEF LineTypeOK
<1>2. /\ Filled \in 0..NS-BLOCK /\ Half \in {0, NS} /\ dataPos = ND + Half + Filled
  BY BlockFits
<1>3. Line!Copied = [i \in 0 .. 2*NS + ND - 1 |-> IF i \in dataPos .. dataPos + BLOCK - 1
                                                  THEN samples + i - dataPos + 1 ELSE data[i]]
  BY <1>1 DEF Line!Copied
<1>4. Line!Copied \in [0 .. 2*NS + ND - 1 -> Nat]
  BY <1>1, <1>2, <1>3
<1>5. samples - Filled \in Nat
  <2>1. Completed * NS \in Nat
    BY <1>1, LineAssumption DEF LineTypeOK, Completed
  <2> QED  BY <1>1, <1>2, <2>1 DEF PositionInv
<1>6. ASSUME NEW j \in 0 .. ND + Filled + BLOCK - 1
      PROVE  Line!Copied[Half + j] = Stream(samples - Filled + j)
  <2>1. Half + j \in 0 .. 2*NS + ND - 1
    BY <1>1, <1>2
  <2>2. CASE j < ND + Filled
    <3>1. Half + j \notin dataPos .. dataPos + BLOCK - 1 /\ j \in 0 .. ND + Filled - 1
      BY <1>1, <1>2, <2>2
    <3>2. Line!Copied[Half + j] = data[Half + j]
      BY <1>3, <2>1, <3>1
    <3> QED  BY <3>1, <3>2 DEF DataInv
  <2>3. CASE j >= ND + Filled
    <3>1. Half + j \in dataPos .. dataPos + BLOCK - 1
      BY <1>1, <1>2, <2>3
    <3>2. Line!Copied[Half + j] = samples + (Half + j) - dataPos + 1
      BY <1>3, <2>1, <3>1
    <3>3. ~(samples - Filled + j < ND)
      BY <1>1, <1>2, <1>5, <2>3
    <3> QED  BY <1>1, <1>2, <1>5, <3>2, <3>3 DEF Stream
  <2> QED  BY <1>1, <1>2, <2>2, <2>3
<1> QED  BY <1>3, <1>4, <1>6

\* AdcStart begins a stream.
LEMMA StartKeepsLine == ASSUME LineInv, Line!AdcStart PROVE LineInv'
<1>1. /\ on' = TRUE /\ dataPos' = ND /\ framePos' = 0 /\ samples' = 0 /\ taken' = 0 /\ late' = FALSE
      /\ data' = [i \in DOMAIN data |-> Line!Old] /\ posted = 0 /\ frame = Line!NoFrame
      /\ UNCHANGED <<posted, frame>>
  BY DEF Line!AdcStart
<1>2. NS \in Nat /\ NS > 0 /\ BLOCK \in Nat /\ ND \in Nat
  BY LineAssumption
<1>3. data' = [i \in 0 .. 2*NS + ND - 1 |-> 0]
  BY <1>1 DEF LineInv, LineTypeOK, Line!Old
<1>4. LineTypeOK'
  <2>1. data' \in [0 .. 2*NS + ND - 1 -> Nat]
    BY <1>2, <1>3
  <2> QED  BY <1>1, <2>1 DEF LineInv, LineTypeOK
<1>5. Half' = 0 /\ Filled' = 0 /\ Completed' = 0
  <2>1. Half' = 0
    BY <1>1, <1>2 DEF Half
  <2> QED  BY <1>1, <1>2, <2>1 DEF Filled, Completed, Line!NoFrame, Line!NF
<1>6. PositionInv'
  BY <1>1, <1>2, <1>5 DEF PositionInv
<1>7. DataInv'
  BY <1>1, <1>2, <1>3, <1>5 DEF DataInv, Stream, Line!Old
<1>8. LagInv'
  BY <1>1 DEF LagInv
<1> QED  BY <1>1, <1>4, <1>6, <1>7, <1>8 DEF LineInv

\* Main takes a frame, is done with it, or stops the ADC: data stays.
LEMMA MainKeepsLine ==
  ASSUME LineInv, Line!AdcStop \/ Line!Take \/ Line!Demodulated
  PROVE  LineInv'
<1>1. UNCHANGED <<data, dataPos, framePos, samples, late>>
  BY DEF Line!AdcStop, Line!Take, Line!Demodulated
<1>2. LineTypeOK /\ NS \in Nat /\ NS > 0
  BY LineAssumption DEF LineInv
<1>3. CASE Line!AdcStop
  <2>1. on' = FALSE /\ frame' = Line!NoFrame /\ UNCHANGED <<posted, taken, frame>>
    BY <1>3 DEF Line!AdcStop
  <2> QED  BY <1>1, <1>2, <2>1 DEF LineInv, LineTypeOK
<1>4. CASE ~Line!AdcStop
  <2>1. on' = on /\ LineTypeOK' /\ (frame' # Line!NoFrame => on')
    <3>1. CASE Line!Take
      BY <1>1, <1>2, <3>1 DEF Line!Take, LineTypeOK
    <3>2. CASE Line!Demodulated
      BY <1>1, <1>2, <3>2 DEF Line!Demodulated, LineTypeOK
    <3> QED  BY <1>4, <3>1, <3>2
  <2>2. on => Completed' = Completed /\ LagInv'
    <3>1. CASE Line!Take
      BY <1>1, <1>2, <3>1 DEF Line!Take, LineInv, LineTypeOK, Completed, LagInv, Line!NoFrame, Line!NF
    <3>2. CASE Line!Demodulated
      BY <1>1, <1>2, <3>2 DEF Line!Demodulated, LineInv, LineTypeOK, Completed, LagInv
    <3> QED  BY <1>4, <3>1, <3>2
  <2>3. Half' = Half /\ Filled' = Filled
    BY <1>1 DEF Half, Filled
  <2>4. on => PositionInv' /\ DataInv'
    BY <1>1, <2>2, <2>3 DEF LineInv, PositionInv, DataInv
  <2> QED  BY <2>1, <2>2, <2>4 DEF LineInv
<1> QED  BY <1>3, <1>4

\* The interrupt: a block in the middle of a frame, the last one of the first half, or
\* the last one of the buffer.
LEMMA InterruptKeepsLine == ASSUME LineInv, Line!_ADCInterrupt PROVE LineInv'
<1>1. /\ on /\ on' = on /\ samples' = samples + BLOCK /\ UNCHANGED <<frame, taken>>
      /\ LineTypeOK /\ PositionInv /\ DataInv /\ LagInv
  BY DEF Line!_ADCInterrupt, LineInv
<1>2. /\ NS \in Nat /\ BLOCK \in Nat /\ ND \in Nat /\ NS > 0 /\ BLOCK > 0 /\ ND <= BLOCK
      /\ samples \in Nat /\ posted \in Nat /\ taken \in Nat
      /\ data \in [0 .. 2*NS + ND - 1 -> Nat]
  BY <1>1, LineAssumption DEF LineTypeOK
<1>3. /\ Filled \in 0..NS-BLOCK /\ Half \in {0, NS} /\ dataPos = ND + Half + Filled /\ BLOCK <= NS
      /\ Filled + BLOCK # NS => Filled + 2 * BLOCK <= NS
  BY <1>1, BlockFits
<1> DEFINE copied == Line!Copied
           base == samples - Filled
<1>4. /\ copied \in [0 .. 2*NS + ND - 1 -> Nat]
      /\ \A j \in 0 .. ND + Filled + BLOCK - 1 : copied[Half + j] = Stream(base + j)
      /\ \A i \in 0 .. 2*NS + ND - 1 \ (dataPos .. dataPos + BLOCK - 1) : copied[i] = data[i]
  BY <1>1, CopiedGoesOn
<1>5. base = Completed * NS /\ base \in Nat /\ Completed \in Nat
  <2>1. Completed \in Nat
    BY <1>2 DEF Completed
  <2>2. samples = Completed * NS + Filled /\ Completed * NS \in Nat
    BY <1>1, <1>2, <2>1 DEF PositionInv
  <2> QED  BY <1>2, <1>3, <2>1, <2>2
<1> HIDE DEF copied, base
<1>6. CASE Filled + BLOCK # NS
  <2>1. data' = copied /\ dataPos' = dataPos + BLOCK /\ UNCHANGED <<framePos, posted, late>>
    <3>1. dataPos + BLOCK # ND + NS /\ dataPos + BLOCK # ND + 2*NS
      BY <1>2, <1>3, <1>6
    <3> QED  BY <3>1 DEF Line!_ADCInterrupt, copied
  <2>2. Half' = Half /\ Filled' = Filled + BLOCK /\ Completed' = Completed /\ Filled + 2 * BLOCK <= NS
    <3>1. Half' = Half
      BY <1>2, <1>3, <1>6, <2>1 DEF Half
    <3>2. Completed' = Completed
      BY <1>1, <2>1 DEF Completed, Line!NoFrame, Line!NF
    <3>3. Filled' = Filled + BLOCK
      <4>1. dataPos \in Nat
        BY <1>2, <1>3
      <4>2. Filled' = dataPos + BLOCK - ND - Half
        BY <1>2, <1>3, <2>1, <3>1, <4>1 DEF Filled
      <4> QED  BY <1>2, <1>3, <4>1, <4>2 DEF Filled
    <3> QED  BY <1>3, <1>6, <3>1, <3>2, <3>3
  <2>3. LineTypeOK'
    BY <1>1, <1>2, <1>4, <2>1 DEF LineTypeOK
  <2>4. PositionInv'
    <3>1. \E q \in 0..NS : Filled' = q * BLOCK
      <4>1. PICK q \in 0..NS : Filled = q * BLOCK
        BY <1>1 DEF PositionInv
      <4>2. Filled' = (q + 1) * BLOCK
        BY <1>2, <2>2, <4>1
      <4>3. q + 1 <= (q + 1) * BLOCK
        BY <1>2, <4>1
      <4>4. q + 1 \in 0..NS
        BY <1>2, <1>3, <2>2, <4>1, <4>2, <4>3
      <4> QED  BY <4>2, <4>4
    <3>2. samples' = Completed' * NS + Filled'
      BY <1>1, <1>2, <1>3, <1>5, <2>2 DEF base
    <3>3. dataPos' \in ND .. ND + 2*NS - 1
      BY <1>2, <1>3, <2>1, <2>2
    <3> QED  BY <1>1, <2>1, <2>2, <3>1, <3>2, <3>3 DEF PositionInv
  <2>5. DataInv'
    <3>1. samples' - Filled' = base
      BY <1>1, <1>2, <1>3, <2>2 DEF base
    <3>2. \A i \in 0 .. ND + Filled' - 1 : data'[Half' + i] = Stream(samples' - Filled' + i)
      BY <1>2, <1>3, <1>4, <2>1, <2>2, <3>1
    <3>3. ASSUME Completed > 0, NEW i \in 0 .. ND + NS - 1
          PROVE  data'[NS - Half' + i] = Stream(samples' - Filled' - NS + i)
      <4>1. NS - Half + i \in 0 .. 2*NS + ND - 1 \ (dataPos .. dataPos + BLOCK - 1)
        BY <1>2, <1>3, <2>2
      <4>2. data[NS - Half + i] = Stream(base - NS + i)
        BY <1>1, <3>3 DEF DataInv, base
      <4> QED  BY <1>4, <2>1, <2>2, <3>1, <4>1, <4>2
    <3> QED  BY <2>2, <3>2, <3>3 DEF DataInv
  <2>6. LagInv'
    BY <1>1, <2>1 DEF LagInv
  <2> QED  BY <1>1, <2>1, <2>3, <2>4, <2>5, <2>6 DEF LineInv
<1>7. ASSUME Filled + BLOCK = NS, dataPos' = ND + NS - Half, Half' = NS - Half, Line!Complete(Half),
             data' \in [0 .. 2*NS + ND - 1 -> Nat],
             \A i \in 0 .. ND - 1 : data'[NS - Half + i] = Stream(base + NS + i),
             \A i \in 0 .. ND + NS - 1 : data'[Half + i] = Stream(base + i)
      PROVE  LineInv'
  <2>1. /\ framePos' = Half /\ posted' = posted + 1
        /\ late' = (late \/ posted > 0 \/ frame # Line!NoFrame)
    BY <1>7 DEF Line!Complete
  <2>2. Filled' = 0 /\ Completed' = Completed + 1 /\ samples' = base + NS
    <3>1. Filled' = 0
      BY <1>2, <1>3, <1>7 DEF Filled
    <3>2. Completed' = Completed + 1
      BY <1>1, <1>2, <2>1 DEF Completed
    <3> QED  BY <1>1, <1>2, <1>3, <1>7, <3>1, <3>2 DEF base
  <2>3. LineTypeOK'
    BY <1>1, <1>2, <1>3, <1>7, <2>1 DEF LineTypeOK
  <2>4. PositionInv'
    <3>1. samples' = Completed' * NS + Filled'
      BY <1>2, <1>5, <2>2
    <3>2. \E q \in 0..NS : Filled' = q * BLOCK
      BY <1>2, <2>2
    <3>3. dataPos' \in ND .. ND + 2*NS - 1 /\ framePos' = NS - Half' /\ Completed' # 0
      BY <1>2, <1>3, <1>5, <1>7, <2>1, <2>2
    <3> QED  BY <3>1, <3>2, <3>3 DEF PositionInv
  <2>5. DataInv'
    <3>1. samples' - Filled' = base + NS /\ samples' - Filled' - NS = base
      BY <1>2, <1>5, <2>2
    <3>2. NS - Half' = Half /\ ND + Filled' - 1 = ND - 1
      BY <1>2, <1>3, <1>7, <2>2
    <3> QED  BY <1>7, <3>1, <3>2 DEF DataInv
  <2>6. LagInv'
    <3>1. late' <=> late \/ posted > 0 \/ frame # Line!NoFrame
      BY <2>1
    <3>2. ~(posted > 0) => posted = 0
      BY <1>2
    <3> QED  BY <1>1, <2>1, <3>1, <3>2 DEF LagInv, Line!NoFrame, Line!NF
  <2> QED  BY <1>1, <2>3, <2>4, <2>5, <2>6 DEF LineInv
<1>8. CASE Filled + BLOCK = NS /\ Half = 0
  <2>1. data' = copied /\ dataPos' = ND + NS /\ Line!Complete(0)
    <3>1. dataPos + BLOCK = ND + NS /\ dataPos + BLOCK # ND + 2*NS
      BY <1>2, <1>3, <1>8
    <3> QED  BY <3>1 DEF Line!_ADCInterrupt, copied
  <2>2. Half' = NS
    BY <1>2, <2>1 DEF Half
  <2>3. ASSUME NEW i \in 0 .. ND - 1 PROVE data'[NS - Half + i] = Stream(base + NS + i)
    <3>1. NS + i \in 0 .. ND + Filled + BLOCK - 1
      BY <1>2, <1>3, <1>8
    <3>2. copied[Half + (NS + i)] = Stream(base + (NS + i))
      BY <1>4, <3>1
    <3> QED  BY <1>2, <1>5, <1>8, <2>1, <3>2
  <2>4. \A i \in 0 .. ND + NS - 1 : data'[Half + i] = Stream(base + i)
    <3>1. ND + Filled + BLOCK - 1 = ND + NS - 1
      BY <1>2, <1>3, <1>8
    <3> QED  BY <1>4, <2>1, <3>1
  <2> QED  BY <1>2, <1>4, <1>7, <1>8, <2>1, <2>2, <2>3, <2>4
<1>9. CASE Filled + BLOCK = NS /\ Half = NS
  <2>1. data' = Line!Restart(copied) /\ dataPos' = ND /\ Line!Complete(NS)
    <3>1. dataPos + BLOCK = ND + 2*NS /\ dataPos + BLOCK # ND + NS
      BY <1>2, <1>3, <1>9
    <3> QED  BY <3>1 DEF Line!_ADCInterrupt, copied
  <2>2. data' = [i \in 0 .. 2*NS + ND - 1 |-> IF i < ND THEN copied[2*NS + i] ELSE copied[i]]
    BY <1>4, <2>1 DEF Line!Restart, Line!NF
  <2>3. Half' = 0
    BY <1>2, <2>1 DEF Half
  <2>4. data' \in [0 .. 2*NS + ND - 1 -> Nat]
    BY <1>2, <1>4, <2>2
  <2>5. ASSUME NEW i \in 0 .. ND - 1 PROVE data'[NS - Half + i] = Stream(base + NS + i)
    <3>0. NS + i \in 0 .. ND + Filled + BLOCK - 1
      BY <1>2, <1>3, <1>9
    <3>1. copied[Half + (NS + i)] = Stream(base + (NS + i))
      BY <1>4, <3>0
    <3>2. data'[i] = copied[2*NS + i]
      BY <1>2, <2>2
    <3>3. Half + (NS + i) = 2*NS + i /\ base + (NS + i) = base + NS + i /\ NS - Half + i = i
      BY <1>2, <1>5, <1>9
    <3> QED  BY <3>1, <3>2, <3>3
  <2>6. ASSUME NEW i \in 0 .. ND + NS - 1 PROVE data'[Half + i] = Stream(base + i)
    <3>1. data'[Half + i] = copied[Half + i]
      BY <1>2, <1>3, <1>9, <2>2
    <3>2. i \in 0 .. ND + Filled + BLOCK - 1
      BY <1>2, <1>3, <1>9
    <3> QED  BY <1>4, <3>1, <3>2
  <2> QED  BY <1>2, <1>7, <1>9, <2>1, <2>3, <2>4, <2>5, <2>6
<1> QED  BY <1>3, <1>6, <1>8, <1>9

\* adc.c:118-156: the two frames and the delay in front of each.
LEMMA LineInvHolds == Spec => []LineInv
<1>1. Init => LineInv
  BY LineAssumption DEF Init, Line!Init, LineInv, LineTypeOK, Line!Old, Line!NoFrame, Line!NF
<1>2. LineInv /\ [Next]_vars => LineInv'
  <2> SUFFICES ASSUME LineInv, [Next]_vars PROVE LineInv'
    OBVIOUS
  <2>1. CASE Line!Next
    BY <2>1, StartKeepsLine, MainKeepsLine, InterruptKeepsLine DEF Line!Next
  <2>2. CASE UNCHANGED line
    BY <2>2 DEF line, LineInv, LineTypeOK, PositionInv, DataInv, LagInv, Half, Filled, Completed
  <2> QED  BY <2>1, <2>2 DEF Next, Step, vars
<1> QED  BY <1>1, <1>2, PTL DEF Spec

\* adc.c:118-156: for every size of the frames, FskDemod gets every sample once and in
\* order, with the delay in front of each frame, unless main is a frame late.
THEOREM LineKeepsEverySample == Spec => []EverySampleOnce
<1>1. LineInv => EverySampleOnce
  <2> SUFFICES ASSUME LineInv, frame # Line!NoFrame, ~late PROVE Line!Working = Line!NextFrame
    BY DEF EverySampleOnce, Line!EverySampleOnce
  <2>1. /\ on /\ posted = 0 /\ frame = framePos /\ LineTypeOK /\ PositionInv /\ DataInv
        /\ NS \in Nat /\ ND \in Nat /\ taken \in Nat
    BY LineAssumption DEF LineInv, LagInv, LineTypeOK
  <2>2. Completed = taken + 1 /\ (taken + 1) * NS = taken * NS + NS /\ taken * NS \in Nat
    BY <2>1 DEF Completed
  <2>3. frame = NS - Half /\ samples - Filled - NS = taken * NS
    <3>1. Filled \in Nat
      BY <2>1, BlockFits, LineAssumption
    <3> QED  BY <2>1, <2>2, <3>1 DEF PositionInv
  <2>4. ASSUME NEW i \in 0 .. ND + NS - 1
        PROVE  data[frame + i] = IF taken * NS + i < ND THEN Line!Old ELSE taken * NS + i - ND + 1
    BY <2>1, <2>2, <2>3 DEF DataInv, Stream
  <2> QED  BY <2>1, <2>4 DEF Line!Working, Line!NextFrame
<1> QED  BY <1>1, LineInvHolds, PTL

--------------------------------------------------------------------------------
(* The clock: the calendar, and a tick of the interrupt.                   *)

Dates == (0..Years-1) \X (1..12) \X (1..31)
Times == (0..Hours-1) \X (0..Mins-1) \X (0..Secs-1)

ClockTypeOK == date \in Dates /\ time \in Times

\* The days of all the years.
Days == 365 * Years + Years \div 4

LeapDays(year) == IF year % 4 = 0 THEN 1 ELSE 0

\* The first day of a month is the one after the last day of the month before.
MonthAdjoins(year, mon) ==
  /\ Clock!MaxDay(year, mon) \in 28..31
  /\ Clock!DaysBefore[mon] \in Nat /\ Clock!LeapDay(year, mon) \in {0, 1}
  /\ LET end == Clock!DaysBefore[mon] + Clock!LeapDay(year, mon) + Clock!MaxDay(year, mon) IN
     /\ mon < 12 => end = Clock!DaysBefore[mon + 1] + Clock!LeapDay(year, mon + 1)
     /\ end <= 365 + LeapDays(year)
     /\ mon = 12 => end = 365 + LeapDays(year)

\* The months of rtc.c are those of the calendar.
LEMMA MonthsAdjoin ==
  ASSUME NEW year \in Nat, NEW mon \in 1..12
  PROVE  MonthAdjoins(year, mon)
<1>1. mon \in {1, 2, 3, 4, 5, 6, 7, 8, 9, 10, 11, 12}
  OBVIOUS
<1> QED  BY <1>1 DEF MonthAdjoins, LeapDays, Clock!MaxDay, Clock!samurai, Clock!DaysBefore, Clock!LeapDay

\* The first day of a year is the one after the last day of the year before, and the
\* last year ends with a whole cycle.
LEMMA YearsAdjoin ==
  ASSUME NEW year \in 0..Years-1
  PROVE  LET start == 365 * year + (year + 3) \div 4
             end == 365 * (year + 1) + (year + 4) \div 4
         IN /\ start \in Nat /\ end = start + 365 + LeapDays(year)
            /\ IF year + 1 = Years THEN end = Days ELSE end < Days
<1>1. Years \in Nat /\ Years % 4 = 0 /\ year \in Nat /\ year + 1 <= Years
  BY ClockAssumption
<1>2. (year + 3) \div 4 \in Nat /\ (year + 4) \div 4 = (year + 3) \div 4 + LeapDays(year)
  BY <1>1 DEF LeapDays
<1>3. LeapDays(year) \in {0, 1}
  BY DEF LeapDays
<1>4. 365 * year \in Nat /\ 365 * (year + 1) = 365 * year + 365
  BY <1>1
<1>5. /\ (year + 4) \div 4 \in Nat /\ Years \div 4 \in Nat /\ (year + 4) \div 4 <= Years \div 4
      /\ year + 1 = Years => (year + 4) \div 4 = Years \div 4
  BY <1>1
<1>6. 365 * Years \in Nat /\ (year + 1 # Years => 365 * (year + 1) < 365 * Years)
  BY <1>1
<1>7. 365 * (year + 1) \in Nat
  BY <1>1
<1>8. 365 * (year + 1) + (year + 4) \div 4 = 365 * year + (year + 3) \div 4 + 365 + LeapDays(year)
  <2> HIDE DEF LeapDays
  <2> QED  BY <1>2, <1>3, <1>4
<1> QED
  BY <1>2, <1>4, <1>5, <1>6, <1>7, <1>8 DEF Days

\* The days are numbered from 0, and the day after the last one is the first.
LEMMA NextDayIsNext ==
  ASSUME NEW year \in 0..Years-1, NEW mon \in 1..12, NEW day \in 1..31,
         day <= Clock!MaxDay(year, mon)
  PROVE  LET d == <<year, mon, day>> IN
         /\ Clock!Day(d) \in 0..Days-1
         /\ Clock!NextDay(d) \in Dates
         /\ Clock!Day(Clock!NextDay(d)) = IF Clock!Day(d) + 1 = Days THEN 0 ELSE Clock!Day(d) + 1
<1> DEFINE d == <<year, mon, day>>
           start == 365 * year + (year + 3) \div 4
           end == 365 * (year + 1) + (year + 4) \div 4
           before == Clock!DaysBefore[mon] + Clock!LeapDay(year, mon)
           length == Clock!MaxDay(year, mon)
           leap == LeapDays(year)
<1>1. /\ Years \in Nat /\ Years > 0 /\ year \in Nat /\ year + 1 <= Years /\ Days \in Nat
  BY ClockAssumption DEF Days
<1>2. leap \in {0, 1}
  BY DEF LeapDays
<1>3. start \in Nat /\ end = start + 365 + leap /\ (IF year + 1 = Years THEN end = Days ELSE end < Days)
  BY YearsAdjoin
<1>4. MonthAdjoins(year, mon)
  BY <1>1, MonthsAdjoin
<1>5. /\ before \in Nat /\ length \in 28..31 /\ before + length <= 365 + leap
      /\ mon = 12 => before + length = 365 + leap
  BY <1>2, <1>4 DEF MonthAdjoins
<1>6. ASSUME NEW m2 \in 1..12, NEW d2 \in Nat
      PROVE  Clock!Day(<<year, m2, d2>>) = start + (Clock!DaysBefore[m2] + Clock!LeapDay(year, m2)) + d2 - 1
  <2>1. MonthAdjoins(year, m2)
    BY <1>1, MonthsAdjoin
  <2>2. Clock!DaysBefore[m2] \in Nat /\ Clock!LeapDay(year, m2) \in Nat
    BY <2>1 DEF MonthAdjoins
  <2>3. Clock!Day(<<year, m2, d2>>) = start + Clock!DaysBefore[m2] + Clock!LeapDay(year, m2) + d2 - 1
    BY DEF Clock!Day
  <2> HIDE DEF start
  <2> QED  BY <1>3, <2>2, <2>3
<1>7. Clock!Day(d) = start + before + day - 1
  BY <1>6
<1>8. day <= length
  OBVIOUS
<1>9. /\ d[1] = year /\ d[2] = mon /\ d[3] = day
  OBVIOUS
<1>10. Clock!NextDay(d) = IF day + 1 <= length THEN <<year, mon, day + 1>>
                          ELSE IF mon < 12 THEN <<year, mon + 1, 1>>
                          ELSE <<(year + 1) % Years, 1, 1>>
  BY DEF Clock!NextDay
<1> HIDE DEF d, start, end, before, length, leap
<1>11. Clock!Day(d) \in 0..Days-1
  BY <1>1, <1>2, <1>3, <1>5, <1>7, <1>8
<1>12. CASE day + 1 <= length
  <2>1. Clock!Day(<<year, mon, day + 1>>) = Clock!Day(d) + 1
    <3>1. Clock!Day(<<year, mon, day + 1>>) = start + before + (day + 1) - 1
      BY <1>6 DEF before
    <3> QED  BY <1>3, <1>5, <1>7, <3>1
  <2>2. <<year, mon, day + 1>> \in Dates
    BY <1>5, <1>12 DEF Dates
  <2>3. Clock!Day(d) + 1 # Days
    BY <1>1, <1>2, <1>3, <1>5, <1>7, <1>12
  <2>4. Clock!NextDay(d) = <<year, mon, day + 1>>
    BY <1>10, <1>12
  <2> QED  BY <1>11, <2>1, <2>2, <2>3, <2>4 DEF d
<1>13. CASE ~(day + 1 <= length) /\ mon < 12
  <2>1. day = length /\ mon + 1 \in 1..12
    BY <1>5, <1>8, <1>13
  <2>2. MonthAdjoins(year, mon + 1)
    BY <1>1, <2>1, MonthsAdjoin
  <2>3. before + length = Clock!DaysBefore[mon + 1] + Clock!LeapDay(year, mon + 1)
    BY <1>4, <1>13 DEF MonthAdjoins, before, length
  <2>4. before + length < 365 + leap
    <3>1. /\ Clock!DaysBefore[mon + 1] \in Nat /\ Clock!LeapDay(year, mon + 1) \in {0, 1}
          /\ Clock!MaxDay(year, mon + 1) \in 28..31
          /\ Clock!DaysBefore[mon + 1] + Clock!LeapDay(year, mon + 1) + Clock!MaxDay(year, mon + 1) <= 365 + leap
      BY <1>2, <2>2 DEF MonthAdjoins, leap
    <3> QED  BY <1>2, <2>3, <3>1
  <2>5. Clock!Day(<<year, mon + 1, 1>>) = Clock!Day(d) + 1
    <3>1. Clock!Day(<<year, mon + 1, 1>>) = start + (before + length) + 1 - 1
      BY <1>6, <2>1, <2>3
    <3> QED  BY <1>3, <1>5, <1>7, <2>1, <3>1
  <2>6. <<year, mon + 1, 1>> \in Dates
    BY <2>1 DEF Dates
  <2>7. Clock!Day(d) + 1 # Days
    BY <1>1, <1>2, <1>3, <1>5, <1>7, <2>1, <2>4
  <2>8. Clock!NextDay(d) = <<year, mon + 1, 1>>
    BY <1>10, <1>13
  <2> QED  BY <1>11, <2>5, <2>6, <2>7, <2>8 DEF d
<1>14. CASE ~(day + 1 <= length) /\ ~(mon < 12)
  <2>1. day = length /\ mon = 12
    BY <1>5, <1>8, <1>14
  <2>2. Clock!Day(d) + 1 = end
    BY <1>2, <1>3, <1>5, <1>7, <2>1
  <2>3. ASSUME NEW next \in 0..Years-1
        PROVE  /\ <<next, 1, 1>> \in Dates
               /\ Clock!Day(<<next, 1, 1>>) = 365 * next + (next + 3) \div 4
    <3>1. Clock!DaysBefore[1] = 0 /\ Clock!LeapDay(next, 1) = 0
      BY DEF Clock!DaysBefore, Clock!LeapDay
    <3>2. 365 * next + (next + 3) \div 4 \in Nat
      BY YearsAdjoin
    <3> QED  BY <3>1, <3>2 DEF Dates, Clock!Day
  <2>4. Clock!NextDay(d) = <<(year + 1) % Years, 1, 1>>
    BY <1>10, <1>14
  <2>5. CASE year + 1 = Years
    <3>1. (year + 1) % Years = 0 /\ 0 \in 0..Years-1
      BY <1>1, <2>5
    <3>2. <<0, 1, 1>> \in Dates /\ Clock!Day(<<0, 1, 1>>) = 0
      BY <2>3, <3>1
    <3>3. Clock!Day(d) + 1 = Days
      BY <1>3, <2>2, <2>5
    <3> QED  BY <1>11, <2>4, <3>1, <3>2, <3>3 DEF d
  <2>6. CASE year + 1 # Years
    <3>1. (year + 1) % Years = year + 1 /\ year + 1 \in 0..Years-1
      BY <1>1, <2>6
    <3>2. /\ <<year + 1, 1, 1>> \in Dates
          /\ Clock!Day(<<year + 1, 1, 1>>) = 365 * (year + 1) + (year + 1 + 3) \div 4
      BY <2>3, <3>1
    <3>3. Clock!Day(<<year + 1, 1, 1>>) = end
      <4>1. year + 1 + 3 = year + 4
        BY <1>1
      <4> QED  BY <3>2, <4>1 DEF end
    <3>4. Clock!Day(d) + 1 # Days
      <4>1. end < Days /\ end \in Nat
        BY <1>2, <1>3, <2>6
      <4> QED  BY <1>1, <2>2, <4>1
    <3> QED  BY <1>11, <2>2, <2>4, <3>1, <3>2, <3>3, <3>4 DEF d
  <2> QED  BY <2>5, <2>6
<1> QED  BY <1>12, <1>13, <1>14

\* The number after x, of those below p.
Succ(x, p) == IF x + 1 = p THEN 0 ELSE x + 1

\* A number of two digits, of which the last one counts to s, and the first one to p:
\* the first one counts when the last one starts again.
Carries(p, s, x, y) ==
  /\ p * s \in Nat \ {0} /\ x * s + y \in 0..(p * s)-1
  /\ Succ(x * s + y, p * s) = (IF y + 1 = s THEN Succ(x, p) ELSE x) * s + Succ(y, s)

\* All numbers of two digits count so.
LEMMA Carry ==
  ASSUME NEW p \in Nat \ {0}, NEW s \in Nat \ {0}, NEW x \in 0..p-1, NEW y \in 0..s-1
  PROVE  Carries(p, s, x, y)
<1>1. x * s \in Nat /\ p * s \in Nat /\ (x + 1) * s = x * s + s
  OBVIOUS
<1>2. (x + 1) * s <= p * s /\ (x + 1 # p => (x + 1) * s < p * s)
  OBVIOUS
<1>3. p * s # 0 /\ 0 * s = 0
  OBVIOUS
<1>4. x * s + y \in 0..(p * s)-1
  BY <1>1, <1>2
<1>5. Succ(x * s + y, p * s) = (IF y + 1 = s THEN Succ(x, p) ELSE x) * s + Succ(y, s)
  <2>1. CASE y + 1 # s
    BY <1>1, <1>2, <2>1 DEF Succ
  <2>2. CASE y + 1 = s /\ x + 1 # p
    BY <1>1, <1>2, <2>2 DEF Succ
  <2>3. CASE y + 1 = s /\ x + 1 = p
    BY <1>1, <1>3, <2>3 DEF Succ
  <2> QED  BY <2>1, <2>2, <2>3
<1> QED  BY <1>1, <1>3, <1>4, <1>5 DEF Carries

\* Counting goes on modulo the number of values.
LEMMA SuccIsModulo ==
  ASSUME NEW p \in Nat \ {0}, NEW x \in 0..p-1
  PROVE  Succ(x, p) = (x + 1) % p /\ Succ(x, p) \in 0..p-1
BY DEF Succ

\* A tick of a clock whose date exists.
LEMMA TickCounts ==
  ASSUME ClockTypeOK, Clock!_T1Interrupt, Clock!Exists(date)
  PROVE  Clock!Now' = (Clock!Now + 1) % Clock!Period
<1> DEFINE year == date[1]
           mon == date[2]
           day == date[3]
           hour == time[1]
           min == time[2]
           sec == time[3]
           d == Clock!Day(date)
<1>1. /\ Secs \in Nat \ {0} /\ Mins \in Nat \ {0} /\ Hours \in Nat \ {0}
      /\ Years \in Nat \ {0} /\ Days \in Nat \ {0}
  BY ClockAssumption DEF Days
<1>2. /\ date = <<year, mon, day>> /\ year \in 0..Years-1 /\ mon \in 1..12 /\ day \in 1..31
      /\ hour \in 0..Hours-1 /\ min \in 0..Mins-1 /\ sec \in 0..Secs-1
  BY DEF ClockTypeOK, Dates, Times
<1>3. d \in 0..Days-1 /\ Clock!Day(Clock!NextDay(date)) = Succ(d, Days)
  BY <1>2, NextDayIsNext DEF Clock!Exists, Succ
<1>4. LET s == sec + 1
          m == IF s >= Secs THEN min + 1 ELSE min
          h == IF m >= Mins THEN hour + 1 ELSE hour
      IN /\ time' = <<h % Hours, m % Mins, s % Secs>>
         /\ date' = IF h >= Hours THEN Clock!NextDay(date) ELSE date
  BY DEF Clock!_T1Interrupt
<1>5. Clock!Now = ((d * Hours + hour) * Mins + min) * Secs + sec
  BY DEF Clock!Now
<1>6. Clock!Now' = ((Clock!Day(date)' * Hours + time[1]') * Mins + time[2]') * Secs + time[3]'
  BY DEF Clock!Now
<1>7. Clock!Period = ((Days * Hours) * Mins) * Secs
  BY DEF Clock!Period, Days
<1>8. Clock!Day(date)' = Clock!Day(date')
  BY DEF Clock!Day, Clock!DaysBefore, Clock!LeapDay
<1> DEFINE carryM == sec + 1 = Secs
           carryH == carryM /\ min + 1 = Mins
           carryD == carryH /\ hour + 1 = Hours
<1> HIDE DEF year, mon, day, hour, min, sec, d
<1>9. /\ time[3]' = Succ(sec, Secs)
      /\ time[2]' = IF carryM THEN Succ(min, Mins) ELSE min
      /\ time[1]' = IF carryH THEN Succ(hour, Hours) ELSE hour
      /\ date' = IF carryD THEN Clock!NextDay(date) ELSE date
  <2>1. sec + 1 >= Secs <=> carryM
    BY <1>1, <1>2
  <2>2. (IF carryM THEN min + 1 ELSE min) >= Mins <=> carryH
    BY <1>1, <1>2
  <2>3. (IF carryH THEN hour + 1 ELSE hour) >= Hours <=> carryD
    BY <1>1, <1>2
  <2>4. /\ time' = << (IF carryH THEN hour + 1 ELSE hour) % Hours,
                      (IF carryM THEN min + 1 ELSE min) % Mins, (sec + 1) % Secs>>
        /\ date' = IF carryD THEN Clock!NextDay(date) ELSE date
    <3> HIDE DEF carryM, carryH, carryD
    <3> QED  BY <1>4, <2>1, <2>2, <2>3
  <2>5. /\ (sec + 1) % Secs = Succ(sec, Secs) /\ (min + 1) % Mins = Succ(min, Mins)
        /\ (hour + 1) % Hours = Succ(hour, Hours)
    BY <1>1, <1>2, SuccIsModulo
  <2>6. min % Mins = min /\ hour % Hours = hour
    BY <1>1, <1>2
  <2> HIDE DEF carryM, carryH, carryD
  <2> QED  BY <2>4, <2>5, <2>6
<1>10. Clock!Day(date)' = IF carryD THEN Succ(d, Days) ELSE d
  <2> HIDE DEF carryD
  <2> QED  BY <1>3, <1>8, <1>9 DEF d
<1> DEFINE x == d * Hours + hour
           y == x * Mins + min
<1>11. /\ Days * Hours \in Nat \ {0} /\ x \in 0..(Days * Hours)-1
       /\ Succ(x, Days * Hours) = (IF hour + 1 = Hours THEN Succ(d, Days) ELSE d) * Hours + Succ(hour, Hours)
  <2>1. Carries(Days, Hours, d, hour)
    BY <1>1, <1>2, <1>3, Carry
  <2> QED  BY <2>1 DEF Carries
<1>12. /\ (Days * Hours) * Mins \in Nat \ {0} /\ y \in 0..((Days * Hours) * Mins)-1
       /\ Succ(y, (Days * Hours) * Mins) =
          (IF min + 1 = Mins THEN Succ(x, Days * Hours) ELSE x) * Mins + Succ(min, Mins)
  <2> HIDE DEF x
  <2>1. Carries(Days * Hours, Mins, x, min)
    BY <1>1, <1>2, <1>11, Carry
  <2> QED  BY <2>1 DEF Carries, y
<1>13. /\ Clock!Period \in Nat \ {0} /\ Clock!Now \in 0..Clock!Period-1
       /\ Succ(Clock!Now, Clock!Period) =
          (IF sec + 1 = Secs THEN Succ(y, (Days * Hours) * Mins) ELSE y) * Secs + Succ(sec, Secs)
  <2>1. Clock!Now = y * Secs + sec
    BY <1>5
  <2> HIDE DEF y
  <2>2. Carries((Days * Hours) * Mins, Secs, y, sec)
    BY <1>1, <1>2, <1>12, Carry
  <2> QED  BY <1>7, <2>1, <2>2 DEF Carries
<1>14. Clock!Now' = Succ(Clock!Now, Clock!Period)
  <2>1. CASE ~carryM
    BY <1>6, <1>9, <1>10, <1>13, <2>1
  <2>2. CASE carryM /\ ~carryH
    BY <1>6, <1>9, <1>10, <1>12, <1>13, <2>2
  <2>3. CASE carryH
    BY <1>6, <1>9, <1>10, <1>11, <1>12, <1>13, <2>3
  <2> QED  BY <2>1, <2>2, <2>3
<1> QED  BY <1>13, <1>14, SuccIsModulo

\* The clock is at a date, or a date of another year, and at a time.
LEMMA ClockTypeHolds == Spec => []ClockTypeOK
<1>1. Init => ClockTypeOK
  BY ClockAssumption DEF Init, Clock!Init, Clock!Default, Clock!Midnight, ClockTypeOK, Dates, Times
<1>2. ClockTypeOK /\ [Next]_vars => ClockTypeOK'
  <2> SUFFICES ASSUME ClockTypeOK, [Next]_vars PROVE ClockTypeOK'
    OBVIOUS
  <2>1. CASE UNCHANGED <<date, time>>
    BY <2>1 DEF ClockTypeOK
  <2>2. CASE Clock!_T1Interrupt
    <3> DEFINE year == date[1]
               mon == date[2]
               day == date[3]
               s == time[3] + 1
               m == IF s >= Secs THEN time[2] + 1 ELSE time[2]
               h == IF m >= Mins THEN time[1] + 1 ELSE time[1]
    <3>1. /\ time' = <<h % Hours, m % Mins, s % Secs>>
          /\ date' = IF h >= Hours THEN Clock!NextDay(date) ELSE date
      BY <2>2 DEF Clock!_T1Interrupt
    <3>2. time' \in Times
      <4>1. s \in Nat /\ m \in Nat /\ h \in Nat
        BY DEF ClockTypeOK, Times
      <4> HIDE DEF s, m, h
      <4> QED  BY <3>1, <4>1, ClockAssumption DEF Times
    <3>3. Clock!NextDay(date) \in Dates
      <4>1. /\ date = <<year, mon, day>> /\ year \in 0..Years-1 /\ mon \in 1..12 /\ day \in 1..31
        BY DEF ClockTypeOK, Dates
      <4>2. MonthAdjoins(year, mon)
        BY <4>1, MonthsAdjoin
      <4>3. Clock!MaxDay(year, mon) \in 28..31
        BY <4>2 DEF MonthAdjoins
      <4>4. (year + 1) % Years \in 0..Years-1
        BY <4>1, ClockAssumption
      <4> HIDE DEF year, mon, day
      <4>5. Clock!NextDay(date) = IF day + 1 <= Clock!MaxDay(year, mon) THEN <<year, mon, day + 1>>
                                  ELSE IF mon < 12 THEN <<year, mon + 1, 1>>
                                  ELSE <<(year + 1) % Years, 1, 1>>
        BY DEF Clock!NextDay, year, mon, day
      <4> QED  BY <4>1, <4>3, <4>4, <4>5 DEF Dates
    <3> QED  BY <3>1, <3>2, <3>3 DEF ClockTypeOK
  <2>3. CASE Clock!Set
    <3>1. ASSUME NEW m \in 1..12, NEW e \in SetDays \cap 1..Clock!MaxDay(0, m), NEW h \in 0..Hours-1,
                 NEW k \in 0..Mins-1, Clock!RtcSetTime(m, e, h, k)
          PROVE  ClockTypeOK'
      <4>1. MonthAdjoins(0, m)
        BY MonthsAdjoin
      <4>2. e \in 1..31 /\ 0 \in 0..Secs-1 /\ date[1] \in 0..Years-1
        BY <4>1, ClockAssumption DEF MonthAdjoins, ClockTypeOK, Dates
      <4>3. date' = <<date[1], m, e>> /\ time' = <<h, k, 0>>
        BY <3>1 DEF Clock!RtcSetTime
      <4> QED  BY <4>2, <4>3 DEF ClockTypeOK, Dates, Times
    <3>2. ASSUME NEW y \in 1980-Years..1980+Years-1, Clock!RtcSetYear(y)
          PROVE  ClockTypeOK'
      <4>1. (y - 1980) % Years \in 0..Years-1
        BY ClockAssumption
      <4>2. date' = <<(y - 1980) % Years, date[2], date[3]>> /\ time' = time
        BY <3>2 DEF Clock!RtcSetYear
      <4> QED  BY <4>1, <4>2 DEF ClockTypeOK, Dates
    <3> QED  BY <2>3, <3>1, <3>2 DEF Clock!Set
  <2>4. CASE Clock!Log
    BY <2>1, <2>4 DEF Clock!Log, Clock!LogDate, Clock!LogTime, Clock!LogWrite
  <2> QED
    BY <2>1, <2>2, <2>3, <2>4 DEF Next, Step, vars, clock, Clock!Next
<1> QED  BY <1>1, <1>2, PTL DEF Spec

\* rtc.c:42-75: whatever the lengths, a tick at a date that exists is one second, across
\* every end of a minute, an hour, a day, a month, a year and the range of rtcYear.
THEOREM ClockCountsEverySecond == Spec => CountsEverySecond
<1>1. ClockTypeOK /\ [Next]_vars =>
        [Clock!_T1Interrupt /\ Clock!Exists(date) => Clock!Now' = (Clock!Now + 1) % Clock!Period]_Clock!vars
  BY TickCounts
<1> QED  BY <1>1, ClockTypeHolds, PTL DEF Spec, CountsEverySecond, Clock!CountsEverySecond
--------------------------------------------------------------------------------
(* The display: the pins.                                                  *)

PinBytes == SUBSET (0..7)

\* What the functions of the driver are made of.
PinSteps ==
  [do : {"out"}, rs : {0, 1}, b : PinBytes]
    \cup [do : {"in"}, rs : {0, 1}, dir : {"in"}]
    \cup [do : {"raise", "lower", "release", "flag", "data", "address", "while"}]
    \cup [do : {"delay"}, ends : SUBSET {"reset", "long", "short"}]

Scripts == Seq(PinSteps)

\* f[i] is the first i scripts put together.
Joins(f, scripts, k) ==
  f = [i \in 1..k |-> IF i = 1 THEN scripts[i] ELSE f[i - 1] \o scripts[i]]

\* The function that FlattenSeq is written with exists.
LEMMA JoinsExist ==
  ASSUME NEW scripts, NEW k \in Nat
  PROVE  \E f : Joins(f, scripts, k)
<1> DEFINE S == {m \in Nat : \E f : Joins(f, scripts, m)}
<1>1. 0 \in S
  <2> DEFINE f == [i \in 1..0 |-> scripts[i]]
  <2>1. f = [i \in 1..0 |-> IF i = 1 THEN scripts[i] ELSE f[i - 1] \o scripts[i]]
    OBVIOUS
  <2> QED  BY <2>1 DEF Joins
<1>2. ASSUME NEW m \in Nat, m \in S PROVE m + 1 \in S
  <2>1. PICK f : Joins(f, scripts, m)
    BY <1>2
  <2> DEFINE last == IF m + 1 = 1 THEN scripts[m + 1] ELSE f[m] \o scripts[m + 1]
             g == [i \in 1..m+1 |-> IF i = m + 1 THEN last ELSE f[i]]
  <2>2. (\A i \in 1..m : g[i] = f[i]) /\ g[m + 1] = last
    <3> HIDE DEF last
    <3> QED  OBVIOUS
  <2>3. \A i \in 1..m : f[i] = IF i = 1 THEN scripts[i] ELSE f[i - 1] \o scripts[i]
    BY <2>1 DEF Joins
  <2>4. g = [i \in 1..m+1 |-> g[i]]
    <3> HIDE DEF last
    <3> QED  OBVIOUS
  <2> HIDE DEF g
  <2>5. ASSUME NEW i \in 1..m+1
        PROVE  g[i] = IF i = 1 THEN scripts[i] ELSE g[i - 1] \o scripts[i]
    <3>1. CASE i = m + 1
      <4>1. i # 1 => i - 1 = m /\ m \in 1..m
        BY <3>1
      <4> QED  BY <2>2, <3>1, <4>1
    <3>2. CASE i # m + 1
      <4>1. i \in 1..m /\ (i # 1 => i - 1 \in 1..m)
        BY <3>2
      <4> QED  BY <2>2, <2>3, <4>1
    <3> QED  BY <3>1, <3>2
  <2>6. Joins(g, scripts, m + 1)
    BY <2>4, <2>5 DEF Joins
  <2> QED  BY <2>6
<1>3. Nat \subseteq S
  <2> HIDE DEF S
  <2> QED  BY <1>1, <1>2, SetInduction
<1> QED  BY <1>3

\* Scripts put together are a script.
LEMMA ScriptsFlatten ==
  ASSUME NEW scripts \in Seq(Scripts)
  PROVE  Panel!FlattenSeq(scripts) \in Scripts
<1>1. PICK k \in Nat : k = Len(scripts)
  OBVIOUS
<1>2. \A i \in 1..k : scripts[i] \in Scripts
  BY <1>1
<1>3. CASE k = 0
  <2>1. scripts = <<>> /\ <<>> \in Scripts
    BY <1>1, <1>3, EmptySeq DEF Scripts
  <2> QED  BY <1>1, <1>3, <2>1 DEF Panel!FlattenSeq
<1>4. CASE k # 0
  <2> DEFINE flatten == CHOOSE f : Joins(f, scripts, k)
  <2>1. Joins(flatten, scripts, k)
    BY JoinsExist
  <2>2. Panel!FlattenSeq(scripts) = flatten[k]
    BY <1>1, <1>4 DEF Panel!FlattenSeq, Joins
  <2> HIDE DEF flatten
  <2>3. \A i \in 1..k : flatten[i] = IF i = 1 THEN scripts[i] ELSE flatten[i - 1] \o scripts[i]
    BY <2>1 DEF Joins
  <2> DEFINE S == {m \in Nat : m + 1 <= k => flatten[m + 1] \in Scripts}
  <2>4. 0 \in S
    BY <1>2, <2>3
  <2>5. ASSUME NEW m \in Nat, m \in S PROVE m + 1 \in S
    <3> SUFFICES ASSUME m + 1 + 1 <= k PROVE flatten[m + 1 + 1] \in Scripts
      OBVIOUS
    <3>1. m + 1 + 1 \in 1..k /\ m + 1 + 1 # 1 /\ m + 1 + 1 - 1 = m + 1
      OBVIOUS
    <3>2. flatten[m + 1 + 1] = flatten[m + 1] \o scripts[m + 1 + 1]
      <4> DEFINE i == m + 1 + 1
      <4>1. i \in 1..k /\ i # 1 /\ i - 1 = m + 1
        BY <3>1
      <4> HIDE DEF i
      <4>2. flatten[i] = flatten[m + 1] \o scripts[i]
        BY <2>3, <4>1
      <4> QED  BY <4>2 DEF i
    <3>3. flatten[m + 1] \in Scripts /\ scripts[m + 1 + 1] \in Scripts
      BY <1>2, <2>5, <3>1
    <3> QED  BY <3>2, <3>3 DEF Scripts
  <2>6. Nat \subseteq S
    <3> HIDE DEF S
    <3> QED  BY <2>4, <2>5, SetInduction
  <2>7. k - 1 \in Nat /\ k - 1 + 1 = k /\ k <= k
    BY <1>4
  <2>8. k - 1 \in S
    <3> HIDE DEF S
    <3> QED  BY <2>6, <2>7
  <2>9. flatten[k] \in Scripts
    BY <2>7, <2>8
  <2> QED  BY <2>2, <2>9
<1> QED  BY <1>3, <1>4

\* What the functions do to the pins.
LEMMA FunctionsAreScripts ==
  /\ Panel!BusyXLCD \in Scripts /\ Panel!XLCD_BUSY_WAIT \in Scripts
  /\ \A cmd \in PinBytes : Panel!WriteCmdXLCD(cmd) \in Scripts
  /\ \A c \in PinBytes : Panel!WriteDataXLCD(c) \in Scripts
  /\ \A a : Panel!SetDDRamAddr(a) \in Scripts /\ Panel!SetCGRamAddr(a) \in Scripts
  /\ Panel!ReadDataXLCD \in Scripts /\ Panel!ReadAddrXLCD \in Scripts
  /\ \A t \in PinBytes : Panel!OpenXLCD(t) \in Scripts
<1>1. \A s, t \in Scripts : s \o t \in Scripts
  BY DEF Scripts
<1>2. /\ \A rs \in {0, 1} : \A b \in PinBytes : Panel!Out(rs, b) \in PinSteps
      /\ \A rs \in {0, 1} : Panel!In(rs) \in PinSteps
      /\ \A what \in {"raise", "lower", "release", "flag", "data", "address", "while"} :
           Panel!Do(what) \in PinSteps
      /\ \A ends \in SUBSET {"reset", "long", "short"} : Panel!Delay(ends) \in PinSteps
  BY DEF PinSteps, Panel!Out, Panel!In, Panel!Do, Panel!Delay
<1>3. \A s \in PinSteps : <<s>> \in Scripts
  BY DEF Scripts
<1>4. \A s, t, u \in PinSteps : <<s, t, u>> \in Scripts
  BY DEF Scripts
<1>5. \A s, t, u, v \in PinSteps : <<s, t, u, v>> \in Scripts
  BY DEF Scripts
<1>6. Panel!BusyXLCD \in Scripts /\ Panel!ReadDataXLCD \in Scripts /\ Panel!ReadAddrXLCD \in Scripts
  BY <1>2, <1>5 DEF Panel!BusyXLCD, Panel!ReadDataXLCD, Panel!ReadAddrXLCD
<1>7. Panel!XLCD_BUSY_WAIT \in Scripts
  BY <1>1, <1>2, <1>3, <1>6 DEF Panel!XLCD_BUSY_WAIT
<1>8. \A rs \in {0, 1} : \A b \in PinBytes : Panel!Write(rs, b) \in Scripts
  BY <1>2, <1>4 DEF Panel!Write
<1>9. ASSUME NEW cmd \in PinBytes PROVE Panel!WriteCmdXLCD(cmd) \in Scripts
  BY <1>1, <1>7, <1>8 DEF Panel!WriteCmdXLCD
<1>10. ASSUME NEW c \in PinBytes PROVE Panel!WriteDataXLCD(c) \in Scripts
  BY <1>1, <1>2, <1>3, <1>7, <1>8 DEF Panel!WriteDataXLCD
<1>11. ASSUME NEW a PROVE Panel!SetDDRamAddr(a) \in Scripts /\ Panel!SetCGRamAddr(a) \in Scripts
  <2>1. Panel!Byte(a) \cup {7} \in PinBytes /\ (Panel!Byte(a) \ {7}) \cup {6} \in PinBytes
    BY DEF Panel!Byte, PinBytes
  <2>2. Panel!Delay200usXLCD \in Scripts /\ <<Panel!Do("release")>> \in Scripts
    BY <1>2, <1>3 DEF Panel!Delay200usXLCD
  <2> QED  BY <1>1, <1>7, <1>8, <2>1, <2>2 DEF Panel!SetDDRamAddr, Panel!SetCGRamAddr
<1>12. ASSUME NEW t \in PinBytes PROVE Panel!OpenXLCD(t) \in Scripts
  <2>1. /\ Panel!DON \cap Panel!BLINK_OFF \cap Panel!CURSOR_ON \in PinBytes
        /\ Panel!CLEAR_XLCD \in PinBytes
        /\ Panel!ENTIRE_SHIFT_OFF \cap Panel!INCR_MODE \in PinBytes
        /\ {} \in PinBytes
    BY DEF PinBytes, Panel!DON, Panel!BLINK_OFF, Panel!CURSOR_ON, Panel!CLEAR_XLCD,
           Panel!ENTIRE_SHIFT_OFF, Panel!INCR_MODE, Panel!Byte
  <2>2. Panel!DelayPORXLCD \in Scripts /\ <<Panel!Out(0, {})>> \in Scripts
    BY <1>2, <1>3, <2>1 DEF Panel!DelayPORXLCD
  <2> QED  BY <1>1, <1>9, <2>1, <2>2 DEF Panel!OpenXLCD
<1> QED  BY <1>6, <1>7, <1>9, <1>10, <1>11, <1>12

PanelTypeOK ==
  /\ todo \in Scripts
  /\ bus \in [dir : {"in", "out"}, lat : PinBytes, rw : {0, 1}, rs : {0, 1}, e : {0, 1}]

\* Whenever RW is 1 the pins are inputs.
PanelInv == PanelTypeOK /\ (bus.rw = 1 => bus.dir = "in")

\* SysInit opens the display.
LEMMA PanelStarts == Panel!Init => PanelInv
<1> SUFFICES ASSUME Panel!Init PROVE PanelInv
  OBVIOUS
<1>1. /\ Panel!EIGHT_BIT \cap Panel!TWO_LINE \cap Panel!SEG1_50_SEG51_100 \cap Panel!COM1_COM16
           \in PinBytes
      /\ Panel!DON \cap Panel!CURSOR_OFF \cap Panel!BLINK_OFF \in PinBytes
  BY DEF PinBytes, Panel!EIGHT_BIT, Panel!DON, Panel!Byte
<1>2. todo \in Scripts
  <2> DEFINE type == Panel!EIGHT_BIT \cap Panel!TWO_LINE \cap Panel!SEG1_50_SEG51_100
                       \cap Panel!COM1_COM16
             off == Panel!DON \cap Panel!CURSOR_OFF \cap Panel!BLINK_OFF
  <2>1. todo = Panel!OpenXLCD(type) \o Panel!XLCD_BUSY_WAIT \o Panel!WriteCmdXLCD(off)
    BY DEF Panel!Init
  <2>2. type \in PinBytes /\ off \in PinBytes
    BY <1>1
  <2> HIDE DEF type, off
  <2>3. /\ Panel!OpenXLCD(type) \in Scripts /\ Panel!XLCD_BUSY_WAIT \in Scripts
        /\ Panel!WriteCmdXLCD(off) \in Scripts
    BY <2>2, FunctionsAreScripts
  <2> QED  BY <2>1, <2>3 DEF Scripts
<1>3. /\ bus \in [dir : {"in", "out"}, lat : PinBytes, rw : {0, 1}, rs : {0, 1}, e : {0, 1}]
      /\ bus.rw = 0
  BY DEF Panel!Init, PinBytes
<1> QED  BY <1>2, <1>3 DEF PanelInv, PanelTypeOK

\* main calls a function of the driver.
LEMMA AskKeepsPanel ==
  ASSUME PanelInv, NEW steps \in Scripts, NEW w, Panel!Ask(steps, w)
  PROVE  PanelInv'
<1>1. Panel!XLCD_BUSY_WAIT \o steps \in Scripts
  BY FunctionsAreScripts DEF Scripts
<1>2. todo' \in Scripts /\ bus' = bus
  BY <1>1 DEF Panel!Ask
<1> QED  BY <1>2 DEF PanelInv, PanelTypeOK

\* A text is a script.
LEMMA TextIsScript ==
  ASSUME NEW str \in Seq(PinBytes)
  PROVE  Panel!PutsXLCD(str) \in Scripts
<1> DEFINE scripts == [i \in DOMAIN str |-> Panel!WriteDataXLCD(str[i])]
<1>1. scripts \in Seq(Scripts)
  <2>1. \A i \in 1..Len(str) : Panel!WriteDataXLCD(str[i]) \in Scripts
    BY FunctionsAreScripts
  <2>2. scripts \in [1..Len(str) -> Scripts] /\ Len(str) \in Nat
    BY <2>1
  <2> HIDE DEF scripts
  <2> QED  BY <2>2
<1> HIDE DEF scripts
<1>2. Panel!FlattenSeq(scripts) \in Scripts
  BY <1>1, ScriptsFlatten
<1> QED  BY <1>2 DEF Panel!PutsXLCD, scripts

\* So does each of the calls.
LEMMA CallsKeepPanel ==
  ASSUME PanelInv,
         \/ Panel!XLCD_PUTS \/ Panel!XLCD_PUTC \/ Panel!XLCD_LINE1 \/ Panel!XLCD_LINE2
         \/ Panel!XLCD_SETPOS \/ Panel!XLCD_SHIFT_LEFT \/ Panel!XLCD_SHIFT_RIGHT
         \/ Panel!XLCD_CLEAR \/ Panel!CursorOn \/ Panel!CursorOff \/ Panel!SetGenerator
         \/ Panel!GetData \/ Panel!GetAddr
  PROVE  PanelInv'
<1>1. ASSUME NEW steps \in Scripts, NEW w, Panel!Call(steps, w) PROVE PanelInv'
  BY <1>1, AskKeepsPanel DEF Panel!Call
<1>2. ASSUME NEW str \in Strings PROVE Panel!PutsXLCD(str) \in Scripts /\ str[1] \in PinBytes
  <2>1. str \in Seq(PinBytes) /\ str # <<>>
    BY StringsAssumption DEF PinBytes
  <2>2. str[1] \in PinBytes
    BY <2>1
  <2> QED  BY <2>1, <2>2, TextIsScript
<1>3. CASE Panel!XLCD_PUTS
  BY <1>1, <1>2, <1>3 DEF Panel!XLCD_PUTS
<1>4. CASE Panel!XLCD_PUTC
  BY <1>1, <1>2, <1>4, FunctionsAreScripts DEF Panel!XLCD_PUTC
<1>5. CASE Panel!XLCD_LINE1 \/ Panel!XLCD_LINE2 \/ Panel!XLCD_SETPOS \/ Panel!SetGenerator
  BY <1>1, <1>5, FunctionsAreScripts
     DEF Panel!XLCD_LINE1, Panel!XLCD_LINE2, Panel!XLCD_SETPOS, Panel!SetGenerator
<1>6. CASE Panel!XLCD_SHIFT_LEFT \/ Panel!XLCD_SHIFT_RIGHT \/ Panel!CursorOn \/ Panel!CursorOff
  <2>1. /\ Panel!SHIFT_CUR_LEFT \in PinBytes /\ Panel!SHIFT_CUR_RIGHT \in PinBytes
        /\ Panel!DON \cap Panel!CURSOR_ON \cap Panel!BLINK_ON \in PinBytes
        /\ Panel!DON \cap Panel!CURSOR_OFF \cap Panel!BLINK_OFF \in PinBytes
    BY DEF PinBytes, Panel!SHIFT_CUR_LEFT, Panel!SHIFT_CUR_RIGHT, Panel!DON, Panel!Byte
  <2> QED  BY <1>1, <1>6, <2>1, FunctionsAreScripts
              DEF Panel!XLCD_SHIFT_LEFT, Panel!XLCD_SHIFT_RIGHT, Panel!CursorOn, Panel!CursorOff
<1>7. CASE Panel!XLCD_CLEAR
  <2>1. Panel!CLEAR_XLCD \in PinBytes /\ Panel!Delay({"long", "short"}) \in PinSteps
    BY DEF PinBytes, Panel!CLEAR_XLCD, Panel!Byte, PinSteps, Panel!Delay
  <2>2. Panel!WriteCmdXLCD(Panel!CLEAR_XLCD) \o <<Panel!Delay({"long", "short"})>> \in Scripts
    BY <2>1, FunctionsAreScripts DEF Scripts
  <2> QED  BY <1>1, <1>7, <2>2 DEF Panel!XLCD_CLEAR
<1>8. CASE Panel!GetData
  BY <1>8, AskKeepsPanel, FunctionsAreScripts DEF Panel!GetData
<1>9. CASE Panel!GetAddr
  BY <1>1, <1>9, FunctionsAreScripts DEF Panel!GetAddr
<1> QED  BY <1>3, <1>4, <1>5, <1>6, <1>7, <1>8, <1>9

\* A step of a function.
LEMMA DriveKeepsPanel == PanelInv /\ Panel!Drive => PanelInv'
<1> SUFFICES ASSUME PanelInv, Panel!Drive PROVE PanelInv'
  OBVIOUS
<1>1. /\ todo \in Scripts
      /\ bus \in [dir : {"in", "out"}, lat : PinBytes, rw : {0, 1}, rs : {0, 1}, e : {0, 1}]
      /\ bus.rw = 1 => bus.dir = "in"
  BY DEF PanelInv, PanelTypeOK
<1>2. todo # <<>> => Head(todo) \in PinSteps /\ Tail(todo) \in Scripts
  BY <1>1 DEF Scripts
<1>3. CASE Panel!SetOut
  <2>1. Head(todo).rs \in {0, 1} /\ Head(todo).b \in PinBytes
    BY <1>2, <1>3 DEF Panel!SetOut, Panel!Doing, PinSteps
  <2> QED  BY <1>2, <1>3, <2>1 DEF Panel!SetOut, Panel!Doing, PanelInv, PanelTypeOK
<1>4. CASE Panel!SetIn
  <2>1. Head(todo).rs \in {0, 1} /\ Head(todo).dir = "in" /\ {} \in PinBytes
    BY <1>2, <1>4 DEF Panel!SetIn, Panel!Doing, PinSteps, PinBytes
  <2> QED  BY <1>1, <1>2, <1>4, <2>1 DEF Panel!SetIn, Panel!Doing, PanelInv, PanelTypeOK
<1>5. CASE Panel!Release
  <2>1. {} \in PinBytes
    BY DEF PinBytes
  <2> QED  BY <1>1, <1>2, <1>5, <2>1 DEF Panel!Release, Panel!Doing, PanelInv, PanelTypeOK
<1>6. CASE Panel!Raise \/ Panel!Lower
  BY <1>1, <1>2, <1>6 DEF Panel!Raise, Panel!Lower, Panel!Doing, PanelInv, PanelTypeOK
<1>7. CASE Panel!ReadFlag \/ Panel!ReadData \/ Panel!ReadAddress \/ Panel!Wait
  BY <1>1, <1>2, <1>7 DEF Panel!ReadFlag, Panel!ReadData, Panel!ReadAddress, Panel!Wait,
     Panel!Doing, PanelInv, PanelTypeOK
<1>8. CASE Panel!While
  <2>1. Panel!BusyXLCD \o todo \in Scripts
    BY <1>1, FunctionsAreScripts DEF Scripts
  <2>2. todo' \in Scripts /\ bus' = bus
    BY <1>2, <1>8, <2>1 DEF Panel!While, Panel!Doing
  <2> QED  BY <1>1, <2>2 DEF PanelInv, PanelTypeOK
<1> QED  BY <1>3, <1>4, <1>5, <1>6, <1>7, <1>8 DEF Panel!Drive

\* Whatever is displayed.
LEMMA PanelInvHolds == Spec => []PanelInv
<1>1. Init => PanelInv
  BY PanelStarts DEF Init
<1>2. PanelInv /\ [Next]_vars => PanelInv'
  <2> SUFFICES ASSUME PanelInv, [Next]_vars PROVE PanelInv'
    OBVIOUS
  <2>1. CASE Panel!Ready \/ UNCHANGED panel
    BY <2>1 DEF Panel!Ready, panel, PanelInv, PanelTypeOK
  <2>2. Panel!Next => PanelInv'
    BY <2>1, DriveKeepsPanel, CallsKeepPanel DEF Panel!Next
  <2> QED  BY <2>1, <2>2 DEF Next, Step, vars
<1> QED  BY <1>1, <1>2, PTL DEF Spec

\* xlcd/: for every text and every position, the port and the controller never drive the
\* bus at the same time: BusyXLCD and the reads make the pins inputs before E rises.
THEOREM PanelNeverFights == Spec => []NoBusFight
<1>1. PanelInv => NoBusFight
  BY DEF PanelInv, NoBusFight, Panel!NoBusFight
<1> QED  BY <1>1, PanelInvHolds, PTL
--------------------------------------------------------------------------------
(* The display: what is still to be done to the pins is what is missing.   *)

\* The pins of the port.
Pins(dir, lat, rw, rs, e) == [dir |-> dir, lat |-> lat, rw |-> rw, rs |-> rs, e |-> e]

\* What BusyXLCD leaves there.
Asked == Pins("in", {}, 1, 0, 0)

\* What is known of the display: the controller, which is as busy as that or not at
\* all; the pins; whether the flag that was read last is still that of the
\* controller; and what was read, or nothing.
Known(l, pb, answer, byte) == [lcd |-> l, bus |-> pb, answer |-> answer, data |-> byte]

IsLcd(l) ==
  l = [mem |-> l.mem, at |-> l.at, incr |-> l.incr, eight |-> l.eight, two |-> l.two,
       on |-> l.on, cursor |-> l.cursor, blink |-> l.blink, busy |-> l.busy]

Settled(l) == [l EXCEPT !.busy = "no"]

Agrees(a) ==
  /\ a = Known(a.lcd, a.bus, a.answer, a.data)
  /\ IsLcd(a.lcd) /\ IsLcd(lcd)
  /\ Settled(lcd) = Settled(a.lcd) /\ lcd.busy \in {a.lcd.busy, "no"}
  /\ bus = a.bus
  /\ a.answer = "known" => flag \/ lcd.busy = "no"
  /\ a.data # {} => lcdData = a.data

\* A step of a function takes a to b: what it may rely on, and what it does.
Does(s, a, b) ==
  \/ /\ s.do = "out"
     /\ b = Known(a.lcd, Pins("out", s.b, 0, s.rs, 0), a.answer, a.data)
  \/ /\ s.do = "in"
     /\ b = Known(a.lcd, Pins(s.dir, {}, 1, s.rs, a.bus.e), a.answer, a.data)
  \/ /\ s.do = "release"
     /\ b = Known(a.lcd, Pins("in", {}, a.bus.rw, 0, a.bus.e), a.answer, a.data)
  \/ /\ s.do = "raise"
     /\ b = Known(a.lcd, Pins(a.bus.dir, a.bus.lat, a.bus.rw, a.bus.rs, 1), a.answer, a.data)
  \/ /\ s.do = "lower"
     /\ \E l : /\ IF a.bus.rw = 1 /\ a.bus.rs = 0 THEN l = a.lcd
                  ELSE /\ a.lcd.busy = "no" /\ a.answer = "old"
                       /\ l = IF a.bus.rw = 1 THEN Panel!Moved(a.lcd)
                              ELSE IF a.bus.rs = 0 THEN Panel!Obey(a.lcd, a.bus.lat)
                              ELSE Panel!Store(a.lcd, a.bus.lat)
               /\ IsLcd(l)
               /\ b = Known(l, Pins(a.bus.dir, a.bus.lat, a.bus.rw, a.bus.rs, 0), a.answer, a.data)
  \/ /\ s.do = "flag" /\ a.bus.dir = "in" /\ a.bus.rs = 0
     /\ b = Known(a.lcd, a.bus, "known", a.data)
  \/ /\ s.do = "while" /\ a.bus = Asked /\ a.answer = "known"
     /\ b = Known(Settled(a.lcd), a.bus, "old", a.data)
  \/ /\ s.do = "delay"
     /\ b = Known(IF a.lcd.busy \in s.ends THEN Settled(a.lcd) ELSE a.lcd, a.bus, a.answer, a.data)
  \/ /\ s.do = "data" /\ a.bus.dir = "in" /\ a.bus.rs = 1
     /\ b = Known(a.lcd, a.bus, a.answer, {a.lcd.mem[a.lcd.at]})
  \/ /\ s.do = "address"
     /\ b = Known(a.lcd, a.bus, a.answer, {})

\* The steps, one after the other, take a to c.
Path(tr, steps, a, c) ==
  /\ tr[1] = a /\ tr[Len(steps) + 1] = c
  /\ \A k \in 1..Len(steps) : Does(steps[k], tr[k], tr[k + 1])

Takes(steps, a, c) == \E tr : Path(tr, steps, a, c)

\* No step is a path.
LEMMA TakesNothing == \A a : Takes(<<>>, a, a)
<1> SUFFICES ASSUME NEW a PROVE Takes(<<>>, a, a)
  OBVIOUS
<1> DEFINE tr == [k \in {1} |-> a]
<1>1. Len(<<>>) = 0 /\ 1..0 = {} /\ tr[1] = a
  OBVIOUS
<1> HIDE DEF tr
<1>2. Path(tr, <<>>, a, a)
  BY <1>1 DEF Path
<1> QED  BY <1>2 DEF Takes

\* One step is a path.
LEMMA TakesOne ==
  ASSUME NEW s, NEW a, NEW b, Does(s, a, b)
  PROVE  Takes(<<s>>, a, b)
<1> DEFINE tr == [k \in {1, 2} |-> IF k = 1 THEN a ELSE b]
<1>1. tr[1] = a /\ tr[2] = b /\ <<s>>[1] = s /\ Len(<<s>>) = 1 /\ 1..1 = {1}
  OBVIOUS
<1> HIDE DEF tr
<1>2. Path(tr, <<s>>, a, b)
  BY <1>1 DEF Path
<1> QED  BY <1>2 DEF Takes

\* After no step nothing has changed.
LEMMA NothingTaken == \A a, c : Takes(<<>>, a, c) => a = c
<1> SUFFICES ASSUME NEW a, NEW c, NEW tr, Path(tr, <<>>, a, c) PROVE a = c
  BY DEF Takes
<1>1. Len(<<>>) + 1 = 1
  OBVIOUS
<1> QED  BY <1>1 DEF Path

\* The first step, and the rest.
LEMMA FirstOfPath ==
  ASSUME NEW steps \in Scripts, steps # <<>>, NEW a, NEW c, Takes(steps, a, c)
  PROVE  \E b : Does(Head(steps), a, b) /\ Takes(Tail(steps), b, c)
<1>1. PICK tr : Path(tr, steps, a, c)
  BY DEF Takes
<1>2. PICK j \in Nat : Len(steps) = j + 1
  <2>1. Len(steps) \in Nat /\ Len(steps) # 0
    BY EmptySeq DEF Scripts
  <2>2. Len(steps) - 1 \in Nat /\ Len(steps) = (Len(steps) - 1) + 1
    BY <2>1
  <2> QED  BY <2>2
<1>3. Len(Tail(steps)) = j /\ \A k \in 1..j : Tail(steps)[k] = steps[k + 1]
  BY <1>2 DEF Scripts
<1>4. Head(steps) = steps[1]
  BY DEF Scripts
<1> DEFINE rest == [k \in 1..j+1 |-> tr[k + 1]]
<1>5. \A k \in 1..j+1 : rest[k] = tr[k + 1]
  OBVIOUS
<1> HIDE DEF rest
<1>6. \A k \in 1..j+1 : Does(steps[k], tr[k], tr[k + 1])
  BY <1>1, <1>2 DEF Path
<1>7. tr[1] = a /\ tr[j + 2] = c
  <2>1. j + 1 + 1 = j + 2
    OBVIOUS
  <2> QED  BY <1>1, <1>2, <2>1 DEF Path
<1>8. Does(Head(steps), a, tr[2])
  <2>1. 1 \in 1..j+1 /\ 1 + 1 = 2
    OBVIOUS
  <2>2. Does(steps[1], tr[1], tr[2])
    BY <1>6, <2>1
  <2> QED  BY <1>4, <1>7, <2>2
<1>9. Path(rest, Tail(steps), tr[2], c)
  <2>1. rest[1] = tr[2] /\ rest[j + 1] = c
    <3>1. 1 \in 1..j+1 /\ j + 1 \in 1..j+1 /\ 1 + 1 = 2 /\ j + 1 + 1 = j + 2
      OBVIOUS
    <3> QED  BY <1>5, <1>7, <3>1
  <2>2. ASSUME NEW k \in 1..j PROVE Does(Tail(steps)[k], rest[k], rest[k + 1])
    <3>1. k \in 1..j+1 /\ k + 1 \in 1..j+1
      OBVIOUS
    <3>2. Does(steps[k + 1], tr[k + 1], tr[k + 1 + 1])
      BY <1>6, <3>1
    <3> QED  BY <1>3, <1>5, <3>1, <3>2
  <2> QED  BY <1>3, <2>1, <2>2 DEF Path
<1> QED  BY <1>8, <1>9 DEF Takes

\* One script after the other.
LEMMA TakesBoth ==
  ASSUME NEW s \in Scripts, NEW t \in Scripts, NEW a, NEW b, NEW c, Takes(s, a, b), Takes(t, b, c)
  PROVE  Takes(s \o t, a, c)
<1>1. PICK f : Path(f, s, a, b)
  BY DEF Takes
<1>2. PICK g : Path(g, t, b, c)
  BY DEF Takes
<1>3. PICK m \in Nat : m = Len(s)
  BY DEF Scripts
<1>4. PICK j \in Nat : j = Len(t)
  BY DEF Scripts
<1>5. /\ Len(s \o t) = m + j
      /\ \A k \in 1..m : (s \o t)[k] = s[k]
      /\ \A k \in 1..j : (s \o t)[m + k] = t[k]
  BY <1>3, <1>4 DEF Scripts
<1> DEFINE tr == [k \in 1..m+j+1 |-> IF k <= m THEN f[k] ELSE g[k - m]]
<1>6. \A k \in 1..m+j+1 : tr[k] = IF k <= m THEN f[k] ELSE g[k - m]
  OBVIOUS
<1> HIDE DEF tr
<1>7. f[1] = a /\ f[m + 1] = b /\ \A k \in 1..m : Does(s[k], f[k], f[k + 1])
  BY <1>1, <1>3 DEF Path
<1>8. g[1] = b /\ g[j + 1] = c /\ \A k \in 1..j : Does(t[k], g[k], g[k + 1])
  BY <1>2, <1>4 DEF Path
<1>9. \A k \in 1..m+1 : tr[k] = f[k]
  <2> SUFFICES ASSUME NEW k \in 1..m+1 PROVE tr[k] = f[k]
    OBVIOUS
  <2>1. CASE k <= m
    BY <1>6, <2>1
  <2>2. CASE k = m + 1
    <3>1. k \in 1..m+j+1 /\ ~(k <= m) /\ k - m = 1
      BY <2>2
    <3> QED  BY <1>6, <1>7, <1>8, <2>2, <3>1
  <2> QED  BY <2>1, <2>2
<1>10. \A k \in 1..j+1 : tr[m + k] = g[k]
  <2> SUFFICES ASSUME NEW k \in 1..j+1 PROVE tr[m + k] = g[k]
    OBVIOUS
  <2>1. m + k \in 1..m+j+1 /\ ~(m + k <= m) /\ (m + k) - m = k
    OBVIOUS
  <2> QED  BY <1>6, <2>1
<1>11. tr[1] = a /\ tr[m + j + 1] = c
  <2>1. 1 \in 1..m+1 /\ j + 1 \in 1..j+1 /\ m + (j + 1) = m + j + 1
    OBVIOUS
  <2> QED  BY <1>7, <1>8, <1>9, <1>10, <2>1
<1>12. ASSUME NEW k \in 1..m+j PROVE Does((s \o t)[k], tr[k], tr[k + 1])
  <2>1. CASE k <= m
    <3>1. k \in 1..m /\ k \in 1..m+1 /\ k + 1 \in 1..m+1
      BY <2>1
    <3> QED  BY <1>5, <1>7, <1>9, <3>1
  <2>2. CASE ~(k <= m)
    <3>1. PICK i \in 1..j : k = m + i
      <4>1. k - m \in 1..j /\ k = m + (k - m)
        BY <2>2
      <4> QED  BY <4>1
    <3>2. i \in 1..j+1 /\ i + 1 \in 1..j+1 /\ k + 1 = m + (i + 1)
      BY <3>1
    <3>3. tr[k] = g[i] /\ tr[k + 1] = g[i + 1]
      BY <1>10, <3>1, <3>2
    <3>4. (s \o t)[k] = t[i] /\ Does(t[i], g[i], g[i + 1])
      BY <1>5, <1>8, <3>1
    <3>5. tr[k + 1] = g[i + 1] /\ tr[k] = g[i]
      BY <3>3
    <3> QED  BY <3>4, <3>5
  <2> QED  BY <2>1, <2>2
<1>13. Path(tr, s \o t, a, c)
  BY <1>5, <1>11, <1>12 DEF Path
<1> QED  BY <1>13 DEF Takes

\* The controller that is not busy.
LEMMA SettledIsLcd ==
  ASSUME NEW l, IsLcd(l)
  PROVE  /\ IsLcd(Settled(l)) /\ Settled(l).busy = "no" /\ Settled(Settled(l)) = Settled(l)
         /\ l.busy = "no" => Settled(l) = l
         /\ Settled(l) = [mem |-> l.mem, at |-> l.at, incr |-> l.incr, eight |-> l.eight,
                          two |-> l.two, on |-> l.on, cursor |-> l.cursor, blink |-> l.blink,
                          busy |-> "no"]
<1>1. Settled(l) = [mem |-> l.mem, at |-> l.at, incr |-> l.incr, eight |-> l.eight,
                    two |-> l.two, on |-> l.on, cursor |-> l.cursor, blink |-> l.blink,
                    busy |-> "no"]
  BY DEF IsLcd, Settled
<1>2. l.busy = "no" => Settled(l) = l
  BY <1>1 DEF IsLcd
<1>3. IsLcd(Settled(l)) /\ Settled(l).busy = "no"
  BY <1>1 DEF IsLcd
<1>4. Settled(Settled(l)) = Settled(l)
  BY <1>1 DEF Settled
<1> QED  BY <1>1, <1>2, <1>3, <1>4

\* The controller may finish at any time.
LEMMA ReadyAgrees ==
  ASSUME NEW a, Agrees(a), Panel!Ready
  PROVE  Agrees(a)'
<1>1. lcd' = Settled(lcd) /\ UNCHANGED <<bus, flag, lcdData>>
  BY DEF Panel!Ready, Settled
<1>2. IsLcd(lcd)' /\ Settled(lcd)' = Settled(lcd) /\ lcd'.busy = "no"
  BY <1>1, SettledIsLcd DEF Agrees
<1> QED  BY <1>1, <1>2 DEF Agrees

\* A step does what it is known to do.
LEMMA StepAgrees ==
  ASSUME PanelInv, NEW a, NEW b, Agrees(a), Panel!Drive, Does(Head(todo), a, b),
         Panel!While => ~flag
  PROVE  Agrees(b)' /\ todo' = Tail(todo)
<1>1. bus \in [dir : {"in", "out"}, lat : PinBytes, rw : {0, 1}, rs : {0, 1}, e : {0, 1}]
  BY DEF PanelInv, PanelTypeOK
<1>2. /\ a = Known(a.lcd, a.bus, a.answer, a.data)
      /\ IsLcd(a.lcd) /\ IsLcd(lcd)
      /\ Settled(lcd) = Settled(a.lcd) /\ lcd.busy \in {a.lcd.busy, "no"}
      /\ bus = a.bus
      /\ a.answer = "known" => flag \/ lcd.busy = "no"
      /\ a.data # {} => lcdData = a.data
  BY DEF Agrees
<1>3. ASSUME NEW pb, b = Known(a.lcd, pb, a.answer, a.data), bus' = pb, UNCHANGED <<flag, lcdData, lcd>>
      PROVE  Agrees(b)'
  <2>1. b.lcd = a.lcd /\ b.bus = pb /\ b.answer = a.answer /\ b.data = a.data
    BY <1>3 DEF Known
  <2> QED  BY <1>2, <1>3, <2>1 DEF Agrees
<1>4. CASE Panel!SetOut
  <2>1. b = Known(a.lcd, Pins("out", Head(todo).b, 0, Head(todo).rs, 0), a.answer, a.data)
    BY <1>4 DEF Panel!SetOut, Panel!Doing, Does
  <2>2. bus' = Pins("out", Head(todo).b, 0, Head(todo).rs, 0) /\ UNCHANGED <<flag, lcdData, lcd>>
    BY <1>4 DEF Panel!SetOut, Pins
  <2> QED  BY <1>3, <1>4, <2>1, <2>2 DEF Panel!SetOut
<1>5. CASE Panel!SetIn
  <2>1. b = Known(a.lcd, Pins(Head(todo).dir, {}, 1, Head(todo).rs, a.bus.e), a.answer, a.data)
    BY <1>5 DEF Panel!SetIn, Panel!Doing, Does
  <2>2. bus' = Pins(Head(todo).dir, {}, 1, Head(todo).rs, a.bus.e) /\ UNCHANGED <<flag, lcdData, lcd>>
    BY <1>1, <1>2, <1>5 DEF Panel!SetIn, Pins
  <2> QED  BY <1>3, <1>5, <2>1, <2>2 DEF Panel!SetIn
<1>6. CASE Panel!Release
  <2>1. b = Known(a.lcd, Pins("in", {}, a.bus.rw, 0, a.bus.e), a.answer, a.data)
    BY <1>6 DEF Panel!Release, Panel!Doing, Does
  <2>2. bus' = Pins("in", {}, a.bus.rw, 0, a.bus.e) /\ UNCHANGED <<flag, lcdData, lcd>>
    BY <1>1, <1>2, <1>6 DEF Panel!Release, Pins
  <2> QED  BY <1>3, <1>6, <2>1, <2>2 DEF Panel!Release
<1>7. CASE Panel!Raise
  <2>1. b = Known(a.lcd, Pins(a.bus.dir, a.bus.lat, a.bus.rw, a.bus.rs, 1), a.answer, a.data)
    BY <1>7 DEF Panel!Raise, Panel!Doing, Does
  <2>2. bus' = Pins(a.bus.dir, a.bus.lat, a.bus.rw, a.bus.rs, 1) /\ UNCHANGED <<flag, lcdData, lcd>>
    BY <1>1, <1>2, <1>7 DEF Panel!Raise, Pins
  <2> QED  BY <1>3, <1>7, <2>1, <2>2 DEF Panel!Raise
<1>8. CASE Panel!Lower
  <2>1. PICK l : /\ IF a.bus.rw = 1 /\ a.bus.rs = 0 THEN l = a.lcd
                    ELSE /\ a.lcd.busy = "no" /\ a.answer = "old"
                         /\ l = IF a.bus.rw = 1 THEN Panel!Moved(a.lcd)
                                ELSE IF a.bus.rs = 0 THEN Panel!Obey(a.lcd, a.bus.lat)
                                ELSE Panel!Store(a.lcd, a.bus.lat)
                 /\ IsLcd(l)
                 /\ b = Known(l, Pins(a.bus.dir, a.bus.lat, a.bus.rw, a.bus.rs, 0), a.answer, a.data)
    BY <1>8 DEF Panel!Lower, Panel!Doing, Does
  <2>2. bus' = Pins(a.bus.dir, a.bus.lat, a.bus.rw, a.bus.rs, 0) /\ UNCHANGED <<flag, lcdData>>
    BY <1>1, <1>2, <1>8 DEF Panel!Lower, Pins
  <2>3. lcd' = Panel!Latch(lcd) /\ todo' = Tail(todo)
    BY <1>8 DEF Panel!Lower
  <2>4. b.lcd = l /\ b.bus = bus' /\ b.answer = a.answer /\ b.data = a.data
    BY <2>1, <2>2 DEF Known
  <2>5. CASE a.bus.rw = 1 /\ a.bus.rs = 0
    <3>1. l = a.lcd
      BY <2>1, <2>5
    <3>2. lcd' = lcd
      BY <1>2, <2>3, <2>5 DEF Panel!Latch
    <3> QED  BY <1>2, <2>1, <2>2, <2>3, <2>4, <3>1, <3>2 DEF Agrees
  <2>6. CASE ~(a.bus.rw = 1 /\ a.bus.rs = 0)
    <3>1. a.lcd.busy = "no" /\ a.answer = "old"
      BY <2>1, <2>6
    <3>2. lcd = a.lcd
      BY <1>2, <3>1, SettledIsLcd
    <3>3. Panel!Latch(lcd) = l
      <4>1. a.bus.rw \in {0, 1} /\ a.bus.rs \in {0, 1}
        BY <1>1, <1>2
      <4>2. CASE a.bus.rw = 0 /\ a.bus.rs = 0
        <5>1. l = Panel!Obey(a.lcd, a.bus.lat)
          BY <2>1, <4>2
        <5> QED  BY <1>2, <3>1, <3>2, <4>2, <5>1 DEF Panel!Latch
      <4>3. CASE a.bus.rw = 0 /\ a.bus.rs = 1
        <5>1. l = Panel!Store(a.lcd, a.bus.lat)
          BY <2>1, <4>3
        <5> QED  BY <1>2, <3>1, <3>2, <4>3, <5>1 DEF Panel!Latch
      <4>4. CASE a.bus.rw = 1 /\ a.bus.rs = 1
        <5>1. l = Panel!Moved(a.lcd)
          BY <2>1, <4>4
        <5> QED  BY <1>2, <3>1, <3>2, <4>4, <5>1 DEF Panel!Latch
      <4> QED  BY <2>6, <4>1, <4>2, <4>3, <4>4
    <3>4. lcd' = l
      BY <2>3, <3>3
    <3> QED  BY <1>2, <2>1, <2>2, <2>3, <2>4, <3>1, <3>4 DEF Agrees
  <2> QED  BY <2>5, <2>6
<1>9. CASE Panel!ReadFlag
  <2>1. a.bus.dir = "in" /\ a.bus.rs = 0 /\ b = Known(a.lcd, a.bus, "known", a.data)
    BY <1>9 DEF Panel!ReadFlag, Panel!Doing, Does
  <2>2. lcd.busy # "no" => flag'
    <3>1. flag' = (7 \in Panel!PortB)
      BY <1>9 DEF Panel!ReadFlag
    <3>2. lcd.busy # "no" => 7 \in Panel!Drives
      BY <1>2, <2>1 DEF Panel!Drives
    <3>3. Panel!PortB = Panel!Drives
      BY <1>2, <2>1 DEF Panel!PortB
    <3> QED  BY <3>1, <3>2, <3>3, Zenon
  <2>3. UNCHANGED <<bus, lcdData, lcd>> /\ todo' = Tail(todo)
    BY <1>9 DEF Panel!ReadFlag
  <2>4. b.lcd = a.lcd /\ b.bus = a.bus /\ b.answer = "known" /\ b.data = a.data
    BY <2>1 DEF Known
  <2> QED  BY <1>2, <2>1, <2>2, <2>3, <2>4 DEF Agrees
<1>10. CASE Panel!While
  <2>1. a.answer = "known" /\ b = Known(Settled(a.lcd), a.bus, "old", a.data)
    BY <1>10 DEF Panel!While, Panel!Doing, Does
  <2>2. UNCHANGED <<bus, lcdData, lcd, flag>> /\ todo' = Tail(todo)
    BY <1>10 DEF Panel!While
  <2>3. lcd.busy = "no"
    BY <1>2, <1>10, <2>1
  <2>4. b.lcd = Settled(a.lcd) /\ b.bus = a.bus /\ b.answer = "old" /\ b.data = a.data
    BY <2>1 DEF Known
  <2>5. IsLcd(b.lcd) /\ Settled(b.lcd) = Settled(a.lcd) /\ b.lcd.busy = "no"
    BY <1>2, <2>4, SettledIsLcd
  <2> QED  BY <1>2, <2>1, <2>2, <2>3, <2>4, <2>5 DEF Agrees
<1>11. CASE Panel!Wait
  <2> DEFINE l == IF a.lcd.busy \in Head(todo).ends THEN Settled(a.lcd) ELSE a.lcd
  <2>1. b = Known(l, a.bus, a.answer, a.data)
    BY <1>11 DEF Panel!Wait, Panel!Doing, Does
  <2>2. UNCHANGED <<bus, lcdData, lcd, flag>> /\ todo' = Tail(todo) /\ lcd.busy \notin Head(todo).ends
    BY <1>11 DEF Panel!Wait
  <2>3. IsLcd(l) /\ Settled(l) = Settled(a.lcd)
    BY <1>2, SettledIsLcd
  <2>4. lcd.busy \in {l.busy, "no"}
    BY <1>2, <2>2, SettledIsLcd
  <2> HIDE DEF l
  <2>5. b.lcd = l /\ b.bus = a.bus /\ b.answer = a.answer /\ b.data = a.data
    BY <2>1 DEF Known
  <2> QED  BY <1>2, <2>1, <2>2, <2>3, <2>4, <2>5 DEF Agrees
<1>12. CASE Panel!ReadData
  <2>1. /\ a.bus.dir = "in" /\ a.bus.rs = 1
        /\ b = Known(a.lcd, a.bus, a.answer, {a.lcd.mem[a.lcd.at]})
    BY <1>12 DEF Panel!ReadData, Panel!Doing, Does
  <2>2. UNCHANGED <<bus, lcd, flag>> /\ todo' = Tail(todo) /\ lcdData' = {lcd.mem[lcd.at]}
    BY <1>2, <1>12, <2>1 DEF Panel!ReadData, Panel!PortB, Panel!Drives
  <2>3. lcd.mem = a.lcd.mem /\ lcd.at = a.lcd.at
    BY <1>2, SettledIsLcd
  <2>4. b.lcd = a.lcd /\ b.bus = a.bus /\ b.answer = a.answer /\ b.data = lcdData'
    BY <2>1, <2>2, <2>3 DEF Known
  <2>5. b = Known(a.lcd, a.bus, a.answer, lcdData')
    BY <2>1, <2>2, <2>3
  <2> QED  BY <1>2, <2>2, <2>4, <2>5 DEF Agrees
<1>13. CASE Panel!ReadAddress
  <2>1. b = Known(a.lcd, a.bus, a.answer, {})
    BY <1>13 DEF Panel!ReadAddress, Panel!Doing, Does
  <2>2. UNCHANGED <<bus, lcd, flag>> /\ todo' = Tail(todo)
    BY <1>13 DEF Panel!ReadAddress
  <2>3. b.lcd = a.lcd /\ b.bus = a.bus /\ b.answer = a.answer /\ b.data = {}
    BY <2>1 DEF Known
  <2> QED  BY <1>2, <2>1, <2>2, <2>3 DEF Agrees
<1> QED  BY <1>4, <1>5, <1>6, <1>7, <1>8, <1>9, <1>10, <1>11, <1>12, <1>13 DEF Panel!Drive

\* The bits of a number.
LEMMA BitsOfByte ==
  ASSUME NEW k \in Nat
  PROVE  /\ Panel!Byte(k) \subseteq 0..7
         /\ (0 \in Panel!Byte(k)) <=> (k % 2 = 1)
         /\ (1 \in Panel!Byte(k)) <=> ((k \div 2) % 2 = 1)
         /\ (2 \in Panel!Byte(k)) <=> ((k \div 4) % 2 = 1)
         /\ (3 \in Panel!Byte(k)) <=> ((k \div 8) % 2 = 1)
         /\ (4 \in Panel!Byte(k)) <=> ((k \div 16) % 2 = 1)
         /\ (5 \in Panel!Byte(k)) <=> ((k \div 32) % 2 = 1)
         /\ (6 \in Panel!Byte(k)) <=> ((k \div 64) % 2 = 1)
         /\ (7 \in Panel!Byte(k)) <=> ((k \div 128) % 2 = 1)
<1>1. /\ Panel!Weight[0 + 1] = 1 /\ Panel!Weight[1 + 1] = 2 /\ Panel!Weight[2 + 1] = 4
      /\ Panel!Weight[3 + 1] = 8 /\ Panel!Weight[4 + 1] = 16 /\ Panel!Weight[5 + 1] = 32
      /\ Panel!Weight[6 + 1] = 64 /\ Panel!Weight[7 + 1] = 128
  BY DEF Panel!Weight
<1>2. k \div 1 = k
  OBVIOUS
<1>3. \A i \in 0..7 : i \in Panel!Byte(k) <=> (k \div Panel!Weight[i + 1]) % 2 = 1
  BY DEF Panel!Byte
<1>4. Panel!Byte(k) \subseteq 0..7
  BY DEF Panel!Byte
<1>5. /\ 0 \in 0..7 /\ 1 \in 0..7 /\ 2 \in 0..7 /\ 3 \in 0..7
      /\ 4 \in 0..7 /\ 5 \in 0..7 /\ 6 \in 0..7 /\ 7 \in 0..7
  OBVIOUS
<1> QED  BY <1>1, <1>2, <1>3, <1>4, <1>5

\* A byte by its bits.
LEMMA ByteByItsBits ==
  ASSUME NEW b, NEW c, b \subseteq 0..7, c \subseteq 0..7,
         0 \in b <=> 0 \in c, 1 \in b <=> 1 \in c, 2 \in b <=> 2 \in c, 3 \in b <=> 3 \in c,
         4 \in b <=> 4 \in c, 5 \in b <=> 5 \in c, 6 \in b <=> 6 \in c, 7 \in b <=> 7 \in c
  PROVE  b = c
<1>1. \A i \in 0..7 : i = 0 \/ i = 1 \/ i = 2 \/ i = 3 \/ i = 4 \/ i = 5 \/ i = 6 \/ i = 7
  OBVIOUS
<1>2. \A i \in 0..7 : i \in b <=> i \in c
  BY <1>1
<1> QED  BY <1>2

\* The commands of xlcd.h, and what the conditions make of them.
LEMMA Commands ==
  /\ Panel!EIGHT_BIT \cap Panel!TWO_LINE \cap Panel!SEG1_50_SEG51_100 \cap Panel!COM1_COM16
       = {3, 4, 5}
  /\ Panel!DON \cap Panel!BLINK_OFF \cap Panel!CURSOR_ON = {1, 2, 3}
  /\ Panel!CLEAR_XLCD = {0}
  /\ Panel!ENTIRE_SHIFT_OFF \cap Panel!INCR_MODE = {1, 2}
  /\ Panel!DON \cap Panel!CURSOR_ON \cap Panel!BLINK_ON = {0, 1, 2, 3}
  /\ Panel!DON \cap Panel!CURSOR_OFF \cap Panel!BLINK_OFF = {2, 3}
  /\ Panel!SHIFT_CUR_LEFT = {0, 1, 4}
  /\ Panel!SHIFT_CUR_RIGHT = {0, 1, 2, 4}
  /\ Panel!Byte(0) = {}
<1>1. Panel!Byte(15) = {0, 1, 2, 3}
  BY BitsOfByte, ByteByItsBits
<1>2. Panel!Byte(14) = {1, 2, 3}
  BY BitsOfByte, ByteByItsBits
<1>3. Panel!Byte(13) = {0, 2, 3}
  BY BitsOfByte, ByteByItsBits
<1>4. Panel!Byte(1) = {0}
  BY BitsOfByte, ByteByItsBits
<1>5. Panel!Byte(6) = {1, 2}
  BY BitsOfByte, ByteByItsBits
<1>6. Panel!Byte(7) = {0, 1, 2}
  BY BitsOfByte, ByteByItsBits
<1>7. Panel!Byte(19) = {0, 1, 4}
  BY BitsOfByte, ByteByItsBits
<1>8. Panel!Byte(23) = {0, 1, 2, 4}
  BY BitsOfByte, ByteByItsBits
<1>9. Panel!Byte(63) = {0, 1, 2, 3, 4, 5}
  BY BitsOfByte, ByteByItsBits
<1>10. Panel!Byte(57) = {0, 3, 4, 5}
  BY BitsOfByte, ByteByItsBits
<1>11. Panel!Byte(62) = {1, 2, 3, 4, 5}
  BY BitsOfByte, ByteByItsBits
<1>12. Panel!Byte(0) = {}
  BY BitsOfByte, ByteByItsBits
<1>13. /\ Panel!EIGHT_BIT \cap Panel!TWO_LINE \cap Panel!SEG1_50_SEG51_100 \cap Panel!COM1_COM16
            = {3, 4, 5}
  BY <1>9, <1>10, <1>11
     DEF Panel!EIGHT_BIT, Panel!TWO_LINE, Panel!SEG1_50_SEG51_100, Panel!COM1_COM16
<1>14. /\ Panel!DON \cap Panel!BLINK_OFF \cap Panel!CURSOR_ON = {1, 2, 3}
       /\ Panel!DON \cap Panel!CURSOR_ON \cap Panel!BLINK_ON = {0, 1, 2, 3}
       /\ Panel!DON \cap Panel!CURSOR_OFF \cap Panel!BLINK_OFF = {2, 3}
  BY <1>1, <1>2, <1>3
     DEF Panel!DON, Panel!BLINK_OFF, Panel!BLINK_ON, Panel!CURSOR_ON, Panel!CURSOR_OFF
<1>15. /\ Panel!CLEAR_XLCD = {0} /\ Panel!SHIFT_CUR_LEFT = {0, 1, 4}
       /\ Panel!SHIFT_CUR_RIGHT = {0, 1, 2, 4}
  BY <1>4, <1>7, <1>8 DEF Panel!CLEAR_XLCD, Panel!SHIFT_CUR_LEFT, Panel!SHIFT_CUR_RIGHT
<1>16. Panel!ENTIRE_SHIFT_OFF \cap Panel!INCR_MODE = {1, 2}
  BY <1>5, <1>6 DEF Panel!ENTIRE_SHIFT_OFF, Panel!INCR_MODE
<1> QED  BY <1>12, <1>13, <1>14, <1>15, <1>16

\* An address of seven bits is put together again from the bits of the command.
LEMMA AddressArrives ==
  ASSUME NEW k \in 0..127
  PROVE  Panel!Value((Panel!Byte(k) \cup {7}) \ {7}) = k
<1> DEFINE b == (Panel!Byte(k) \cup {7}) \ {7}
           Bit(i) == IF i \in b THEN Panel!Weight[i + 1] ELSE 0
<1>1. /\ Panel!Weight[0 + 1] = 1 /\ Panel!Weight[1 + 1] = 2 /\ Panel!Weight[2 + 1] = 4
      /\ Panel!Weight[3 + 1] = 8 /\ Panel!Weight[4 + 1] = 16 /\ Panel!Weight[5 + 1] = 32
      /\ Panel!Weight[6 + 1] = 64 /\ Panel!Weight[7 + 1] = 128
  BY DEF Panel!Weight
<1>2. /\ Bit(0) = k % 2 /\ Bit(1) = 2 * ((k \div 2) % 2) /\ Bit(2) = 4 * ((k \div 4) % 2)
      /\ Bit(3) = 8 * ((k \div 8) % 2) /\ Bit(4) = 16 * ((k \div 16) % 2)
      /\ Bit(5) = 32 * ((k \div 32) % 2) /\ Bit(6) = 64 * ((k \div 64) % 2) /\ Bit(7) = 0
  <2>1. /\ (0 \in b <=> k % 2 = 1) /\ (1 \in b <=> (k \div 2) % 2 = 1)
        /\ (2 \in b <=> (k \div 4) % 2 = 1) /\ (3 \in b <=> (k \div 8) % 2 = 1)
        /\ (4 \in b <=> (k \div 16) % 2 = 1) /\ (5 \in b <=> (k \div 32) % 2 = 1)
        /\ (6 \in b <=> (k \div 64) % 2 = 1) /\ 7 \notin b
    BY BitsOfByte
  <2> HIDE DEF b
  <2>2. Bit(0) = k % 2
    BY <1>1, <2>1
  <2>3. Bit(1) = 2 * ((k \div 2) % 2)
    BY <1>1, <2>1
  <2>4. Bit(2) = 4 * ((k \div 4) % 2)
    BY <1>1, <2>1
  <2>5. Bit(3) = 8 * ((k \div 8) % 2)
    BY <1>1, <2>1
  <2>6. Bit(4) = 16 * ((k \div 16) % 2)
    BY <1>1, <2>1
  <2>7. Bit(5) = 32 * ((k \div 32) % 2)
    BY <1>1, <2>1
  <2>8. Bit(6) = 64 * ((k \div 64) % 2)
    BY <1>1, <2>1
  <2>9. Bit(7) = 0
    BY <2>1
  <2> QED  BY <2>2, <2>3, <2>4, <2>5, <2>6, <2>7, <2>8, <2>9
<1>3. Panel!Value(b) = Bit(0) + Bit(1) + Bit(2) + Bit(3) + Bit(4) + Bit(5) + Bit(6) + Bit(7)
  BY DEF Panel!Value
<1> HIDE DEF b, Bit
<1>4. k = (k % 2) + 2 * (k \div 2) /\ k \div 2 \in 0..63
  OBVIOUS
<1>5. k \div 2 = ((k \div 2) % 2) + 2 * (k \div 4) /\ k \div 4 \in 0..31
  OBVIOUS
<1>6. k \div 4 = ((k \div 4) % 2) + 2 * (k \div 8) /\ k \div 8 \in 0..15
  OBVIOUS
<1>7. k \div 8 = ((k \div 8) % 2) + 2 * (k \div 16) /\ k \div 16 \in 0..7
  OBVIOUS
<1>8. k \div 16 = ((k \div 16) % 2) + 2 * (k \div 32) /\ k \div 32 \in 0..3
  OBVIOUS
<1>9. k \div 32 = ((k \div 32) % 2) + 2 * (k \div 64) /\ k \div 64 \in 0..1
  OBVIOUS
<1>10. (k \div 64) % 2 = k \div 64
  BY <1>9
<1>11. Bit(0) + Bit(1) + Bit(2) + Bit(3) + Bit(4) + Bit(5) + Bit(6) + Bit(7) = k
  BY <1>2, <1>4, <1>5, <1>6, <1>7, <1>8, <1>9, <1>10
<1> QED  BY <1>3, <1>11 DEF b

\* Three steps.
LEMMA TakesThree ==
  ASSUME NEW s, NEW t, NEW u, NEW a, NEW b, NEW c, NEW d,
         Does(s, a, b), Does(t, b, c), Does(u, c, d)
  PROVE  Takes(<<s, t, u>>, a, d)
<1> DEFINE tr == [k \in 1..4 |-> IF k = 1 THEN a ELSE IF k = 2 THEN b ELSE IF k = 3 THEN c ELSE d]
           seq == <<s, t, u>>
<1>1. tr[1] = a /\ tr[2] = b /\ tr[3] = c /\ tr[4] = d
  OBVIOUS
<1>2. seq[1] = s /\ seq[2] = t /\ seq[3] = u /\ Len(seq) = 3
  OBVIOUS
<1> HIDE DEF tr, seq
<1>3. ASSUME NEW k \in 1..3 PROVE Does(seq[k], tr[k], tr[k + 1])
  <2>1. k = 1 \/ k = 2 \/ k = 3
    OBVIOUS
  <2>2. 1 + 1 = 2 /\ 2 + 1 = 3 /\ 3 + 1 = 4
    OBVIOUS
  <2> QED  BY <1>1, <1>2, <2>1, <2>2
<1>4. Path(tr, seq, a, d)
  <2>1. 3 + 1 = 4
    OBVIOUS
  <2> QED  BY <1>1, <1>2, <1>3, <2>1 DEF Path
<1> QED  BY <1>4 DEF Takes, seq

\* Four steps.
LEMMA TakesFour ==
  ASSUME NEW s, NEW t, NEW u, NEW v, NEW a, NEW b, NEW c, NEW d, NEW f,
         Does(s, a, b), Does(t, b, c), Does(u, c, d), Does(v, d, f)
  PROVE  Takes(<<s, t, u, v>>, a, f)
<1> DEFINE tr == [k \in 1..5 |-> IF k = 1 THEN a ELSE IF k = 2 THEN b ELSE IF k = 3 THEN c
                                 ELSE IF k = 4 THEN d ELSE f]
           seq == <<s, t, u, v>>
<1>1. tr[1] = a /\ tr[2] = b /\ tr[3] = c /\ tr[4] = d /\ tr[5] = f
  OBVIOUS
<1>2. seq[1] = s /\ seq[2] = t /\ seq[3] = u /\ seq[4] = v /\ Len(seq) = 4
  OBVIOUS
<1> HIDE DEF tr, seq
<1>3. ASSUME NEW k \in 1..4 PROVE Does(seq[k], tr[k], tr[k + 1])
  <2>1. k = 1 \/ k = 2 \/ k = 3 \/ k = 4
    OBVIOUS
  <2>2. 1 + 1 = 2 /\ 2 + 1 = 3 /\ 3 + 1 = 4 /\ 4 + 1 = 5
    OBVIOUS
  <2> QED  BY <1>1, <1>2, <2>1, <2>2
<1>4. Path(tr, seq, a, f)
  <2>1. 4 + 1 = 5
    OBVIOUS
  <2> QED  BY <1>1, <1>2, <1>3, <2>1 DEF Path
<1> QED  BY <1>4 DEF Takes, seq

\* BusyXLCD reads the flag, and leaves the controller alone.
LEMMA BusyTakes ==
  ASSUME NEW a, IsLcd(a.lcd)
  PROVE  Takes(Panel!BusyXLCD, a, Known(a.lcd, Asked, "known", a.data))
<1> DEFINE s1 == Known(a.lcd, Pins("in", {}, 1, 0, a.bus.e), a.answer, a.data)
           s2 == Known(a.lcd, Pins("in", {}, 1, 0, 1), a.answer, a.data)
           s3 == Known(a.lcd, Pins("in", {}, 1, 0, 1), "known", a.data)
           s4 == Known(a.lcd, Asked, "known", a.data)
<1>1. Does(Panel!In(0), a, s1)
  BY DEF Does, Panel!In
<1>2. Does(Panel!Do("raise"), s1, s2)
  BY DEF Does, Panel!Do, Known, Pins
<1>3. Does(Panel!Do("flag"), s2, s3)
  BY DEF Does, Panel!Do, Known, Pins
<1>4. Does(Panel!Do("lower"), s3, s4)
  BY DEF Does, Panel!Do, Known, Pins, Asked
<1> HIDE DEF s1, s2, s3, s4
<1>5. Takes(Panel!BusyXLCD, a, s4)
  BY <1>1, <1>2, <1>3, <1>4, TakesFour DEF Panel!BusyXLCD
<1> QED  BY <1>5 DEF s4

\* After XLCD_BUSY_WAIT the controller is not busy.
LEMMA WaitTakes ==
  ASSUME NEW a, IsLcd(a.lcd)
  PROVE  Takes(Panel!XLCD_BUSY_WAIT, a, Known(Settled(a.lcd), Asked, "old", a.data))
<1> DEFINE s1 == Known(a.lcd, Asked, "known", a.data)
           s2 == Known(Settled(a.lcd), Asked, "old", a.data)
<1>1. Takes(Panel!BusyXLCD, a, s1)
  BY BusyTakes
<1>2. Does(Panel!Do("while"), s1, s2)
  BY DEF Does, Panel!Do, Known
<1> HIDE DEF s1, s2
<1>3. Takes(<<Panel!Do("while")>>, s1, s2)
  BY <1>2, TakesOne
<1>4. <<Panel!Do("while")>> \in Scripts /\ Panel!BusyXLCD \in Scripts
  BY FunctionsAreScripts DEF Scripts, PinSteps, Panel!Do
<1>5. Takes(Panel!XLCD_BUSY_WAIT, a, s2)
  BY <1>1, <1>3, <1>4, TakesBoth DEF Panel!XLCD_BUSY_WAIT
<1> QED  BY <1>5 DEF s2

\* A write reaches a controller that is not busy.
LEMMA WriteTakes ==
  ASSUME NEW a, NEW rs \in {0, 1}, NEW b, NEW l, IsLcd(l), a.lcd.busy = "no", a.answer = "old",
         l = IF rs = 0 THEN Panel!Obey(a.lcd, b) ELSE Panel!Store(a.lcd, b)
  PROVE  Takes(Panel!Write(rs, b), a, Known(l, Pins("out", b, 0, rs, 0), "old", a.data))
<1> DEFINE s1 == Known(a.lcd, Pins("out", b, 0, rs, 0), a.answer, a.data)
           s2 == Known(a.lcd, Pins("out", b, 0, rs, 1), a.answer, a.data)
           s3 == Known(l, Pins("out", b, 0, rs, 0), "old", a.data)
<1>1. Does(Panel!Out(rs, b), a, s1)
  BY DEF Does, Panel!Out
<1>2. Does(Panel!Do("raise"), s1, s2)
  BY DEF Does, Panel!Do, Known, Pins
<1>3. Does(Panel!Do("lower"), s2, s3)
  <2>1. /\ s2.lcd = a.lcd /\ s2.answer = "old" /\ s2.data = a.data
        /\ s2.bus.dir = "out" /\ s2.bus.lat = b /\ s2.bus.rw = 0 /\ s2.bus.rs = rs
    BY DEF Known, Pins
  <2>2. l = IF s2.bus.rw = 1 THEN Panel!Moved(s2.lcd)
            ELSE IF s2.bus.rs = 0 THEN Panel!Obey(s2.lcd, s2.bus.lat)
            ELSE Panel!Store(s2.lcd, s2.bus.lat)
    BY <2>1
  <2>3. s3 = Known(l, Pins(s2.bus.dir, s2.bus.lat, s2.bus.rw, s2.bus.rs, 0), s2.answer, s2.data)
    BY <2>1
  <2>4. Panel!Do("lower").do = "lower"
    BY DEF Panel!Do
  <2> HIDE DEF s1, s2, s3
  <2> QED  BY <2>1, <2>2, <2>3, <2>4 DEF Does
<1> HIDE DEF s1, s2, s3
<1>4. Takes(Panel!Write(rs, b), a, s3)
  BY <1>1, <1>2, <1>3, TakesThree DEF Panel!Write
<1> QED  BY <1>4 DEF s3

\* WriteCmdXLCD and SetCGRamAddr give a command and wait until it is done.
LEMMA CommandTakes ==
  ASSUME NEW a, NEW b \in PinBytes, IsLcd(Panel!Obey(a.lcd, b)), a.lcd.busy = "no", a.answer = "old"
  PROVE  /\ Takes(Panel!WriteCmdXLCD(b), a, Known(Settled(Panel!Obey(a.lcd, b)), Asked, "old", a.data))
         /\ Takes(Panel!Write(0, b) \o <<Panel!Do("release")>> \o Panel!XLCD_BUSY_WAIT, a,
                  Known(Settled(Panel!Obey(a.lcd, b)), Asked, "old", a.data))
<1> DEFINE o == Panel!Obey(a.lcd, b)
           s1 == Known(o, Pins("out", b, 0, 0, 0), "old", a.data)
           s2 == Known(o, Pins("in", {}, 0, 0, 0), "old", a.data)
           s3 == Known(Settled(o), Asked, "old", a.data)
<1>1. Takes(Panel!Write(0, b), a, s1)
  BY WriteTakes
<1>2. Does(Panel!Do("release"), s1, s2)
  BY DEF Does, Panel!Do, Known, Pins
<1>3. s1.lcd = o /\ s1.data = a.data /\ s2.lcd = o /\ s2.data = a.data
  BY DEF Known
<1>4. Takes(Panel!XLCD_BUSY_WAIT, s1, s3) /\ Takes(Panel!XLCD_BUSY_WAIT, s2, s3)
  <2> HIDE DEF s1, s2
  <2> QED  BY <1>3, WaitTakes
<1> HIDE DEF o, s1, s2, s3
<1>5. Takes(<<Panel!Do("release")>>, s1, s2)
  BY <1>2, TakesOne
<1>6. /\ Panel!Write(0, b) \in Scripts /\ <<Panel!Do("release")>> \in Scripts
      /\ Panel!XLCD_BUSY_WAIT \in Scripts /\ Panel!Write(0, b) \o <<Panel!Do("release")>> \in Scripts
  BY FunctionsAreScripts DEF Scripts, PinSteps, Panel!Do, Panel!Write, Panel!Out
<1>7. Takes(Panel!WriteCmdXLCD(b), a, s3)
  BY <1>1, <1>4, <1>6, TakesBoth DEF Panel!WriteCmdXLCD
<1>8. Takes(Panel!Write(0, b) \o <<Panel!Do("release")>>, a, s2)
  BY <1>1, <1>5, <1>6, TakesBoth
<1>9. Takes(Panel!Write(0, b) \o <<Panel!Do("release")>> \o Panel!XLCD_BUSY_WAIT, a, s3)
  BY <1>4, <1>6, <1>8, TakesBoth
<1> QED  BY <1>7, <1>9 DEF o, s3

\* WriteDataXLCD gives a byte and waits until it is stored.
LEMMA DataTakes ==
  ASSUME NEW a, NEW b \in PinBytes, IsLcd(Panel!Store(a.lcd, b)), a.lcd.busy = "no", a.answer = "old"
  PROVE  Takes(Panel!WriteDataXLCD(b), a, Known(Settled(Panel!Store(a.lcd, b)), Asked, "old", a.data))
<1> DEFINE o == Panel!Store(a.lcd, b)
           s1 == Known(o, Pins("out", b, 0, 1, 0), "old", a.data)
           s2 == Known(o, Pins("in", {}, 0, 0, 0), "old", a.data)
           s3 == Known(Settled(o), Asked, "old", a.data)
<1>1. Takes(Panel!Write(1, b), a, s1)
  BY WriteTakes
<1>2. Does(Panel!Do("release"), s1, s2)
  BY DEF Does, Panel!Do, Known, Pins
<1>3. s2.lcd = o /\ s2.data = a.data
  BY DEF Known
<1>4. Takes(Panel!XLCD_BUSY_WAIT, s2, s3)
  <2> HIDE DEF s1, s2
  <2> QED  BY <1>3, WaitTakes
<1> HIDE DEF o, s1, s2, s3
<1>5. Takes(<<Panel!Do("release")>>, s1, s2)
  BY <1>2, TakesOne
<1>6. /\ Panel!Write(1, b) \in Scripts /\ <<Panel!Do("release")>> \in Scripts
      /\ Panel!XLCD_BUSY_WAIT \in Scripts /\ Panel!Write(1, b) \o <<Panel!Do("release")>> \in Scripts
  BY FunctionsAreScripts DEF Scripts, PinSteps, Panel!Do, Panel!Write, Panel!Out
<1>7. Takes(Panel!Write(1, b) \o <<Panel!Do("release")>>, a, s2)
  BY <1>1, <1>5, <1>6, TakesBoth
<1>8. Takes(Panel!WriteDataXLCD(b), a, s3)
  BY <1>4, <1>6, <1>7, TakesBoth DEF Panel!WriteDataXLCD
<1> QED  BY <1>8 DEF o, s3

\* The highest bit.
LEMMA TopBit ==
  ASSUME NEW b, b \subseteq 0..7, NEW top \in b, \A i \in b : i <= top
  PROVE  Panel!Max(b) = top
<1>1. \A i \in b : i \in Int
  OBVIOUS
<1>2. \E x \in b : \A y \in b : x >= y
  BY <1>1
<1>3. Panel!Max(b) \in b /\ \A y \in b : Panel!Max(b) >= y
  BY <1>2 DEF Panel!Max
<1>4. Panel!Max(b) <= top /\ Panel!Max(b) >= top /\ Panel!Max(b) \in Int /\ top \in Int
  BY <1>1, <1>3
<1> QED  BY <1>4

\* A command, and its highest bit.
Command(b, top) == b \subseteq 0..7 /\ top \in b /\ \A i \in b : i <= top

\* What the controller makes of it.
Obeys(o, l, b, top) ==
  /\ IsLcd(o)
  /\ top # 0 => o.mem = l.mem
  /\ top = 0 => o.mem = Panel!Erased(l.mem)
  /\ top = 7 => o.at = Panel!Dd(Panel!Value(b \ {7})) /\ o.busy = "short"
  /\ top = 6 => o.at = Panel!Cg(Panel!Value(b \ {6}))
  /\ top \in {2, 3, 5} => o.at = l.at
  /\ top = 4 => o.at = IF 2 \in b THEN Panel!After(l.at) ELSE Panel!Before(l.at)
  /\ top \in {0, 1} => o.at = Panel!Dd(0)
  /\ top = 5 => o.eight = (4 \in b) /\ o.two = (3 \in b)
  /\ top # 5 => o.eight = l.eight /\ o.two = l.two
  /\ top = 3 => o.on = (2 \in b) /\ o.cursor = (1 \in b) /\ o.blink = (0 \in b)
  /\ top # 3 => o.on = l.on /\ o.cursor = l.cursor /\ o.blink = l.blink
  /\ top = 2 => o.incr = (1 \in b)
  /\ top = 0 => o.incr = TRUE
  /\ top \notin {0, 2} => o.incr = l.incr

\* The controller obeys every command.
LEMMA Obeyed ==
  ASSUME NEW l, IsLcd(l), NEW b, NEW top, Command(b, top)
  PROVE  Obeys(Panel!Obey(l, b), l, b, top)
<1> USE DEF Obeys
<1>0. b \subseteq 0..7 /\ top \in b /\ \A i \in b : i <= top
  BY DEF Command
<1>1. Panel!Max(b) = top /\ b # {}
  BY <1>0, TopBit
<1> DEFINE s == [l EXCEPT !.busy = "short"]
<1>2. s = [mem |-> l.mem, at |-> l.at, incr |-> l.incr, eight |-> l.eight,
           two |-> l.two, on |-> l.on, cursor |-> l.cursor, blink |-> l.blink, busy |-> "short"]
  BY DEF IsLcd
<1>3. top \in {0, 1, 2, 3, 4, 5, 6, 7}
  BY <1>0
<1>4. Panel!Obey(l, b) =
        CASE top = 7 -> [s EXCEPT !.at = Panel!Dd(Panel!Value(b \ {7}))]
          [] top = 6 -> [s EXCEPT !.at = Panel!Cg(Panel!Value(b \ {6}))]
          [] top = 5 -> [s EXCEPT !.eight = 4 \in b, !.two = 3 \in b]
          [] top = 4 -> [s EXCEPT !.at = IF 2 \in b THEN Panel!After(@) ELSE Panel!Before(@)]
          [] top = 3 -> [s EXCEPT !.on = 2 \in b, !.cursor = 1 \in b, !.blink = 0 \in b]
          [] top = 2 -> [s EXCEPT !.incr = 1 \in b]
          [] top = 1 -> [s EXCEPT !.at = Panel!Dd(0), !.busy = "long"]
          [] top = 0 -> [s EXCEPT !.at = Panel!Dd(0), !.mem = Panel!Erased(@), !.incr = TRUE,
                                  !.busy = "long"]
  BY <1>1, <1>3 DEF Panel!Obey
<1> HIDE DEF s
<1>5. CASE top = 7
  <2>1. Panel!Obey(l, b) = [s EXCEPT !.at = Panel!Dd(Panel!Value(b \ {7}))]
    BY <1>4, <1>5
  <2> QED  BY <1>2, <1>5, <2>1 DEF IsLcd
<1>6. CASE top = 6
  <2>1. Panel!Obey(l, b) = [s EXCEPT !.at = Panel!Cg(Panel!Value(b \ {6}))]
    BY <1>4, <1>6
  <2> QED  BY <1>2, <1>6, <2>1 DEF IsLcd
<1>7. CASE top = 5
  <2>1. Panel!Obey(l, b) = [s EXCEPT !.eight = 4 \in b, !.two = 3 \in b]
    BY <1>4, <1>7
  <2> DEFINE wide == (4 \in b)
             both == (3 \in b)
             o == Panel!Obey(l, b)
  <2>2. o = [mem |-> l.mem, at |-> l.at, incr |-> l.incr, eight |-> wide, two |-> both,
             on |-> l.on, cursor |-> l.cursor, blink |-> l.blink, busy |-> "short"]
    BY <1>2, <2>1
  <2> HIDE DEF wide, both, o
  <2>3. /\ IsLcd(o) /\ o.busy = "short" /\ o.mem = l.mem /\ o.at = l.at
        /\ o.eight = wide /\ o.two = both
        /\ o.on = l.on /\ o.cursor = l.cursor /\ o.blink = l.blink
        /\ o.incr = l.incr
    BY <2>2 DEF IsLcd
  <2> QED  BY <1>7, <2>3 DEF wide, both, o
<1>8. CASE top = 4
  <2>1. Panel!Obey(l, b) = [s EXCEPT !.at = IF 2 \in b THEN Panel!After(l.at) ELSE Panel!Before(l.at)]
    BY <1>2, <1>4, <1>8
  <2> DEFINE next == IF 2 \in b THEN Panel!After(l.at) ELSE Panel!Before(l.at)
             o == Panel!Obey(l, b)
  <2>2. o = [mem |-> l.mem, at |-> next, incr |-> l.incr, eight |-> l.eight, two |-> l.two,
             on |-> l.on, cursor |-> l.cursor, blink |-> l.blink, busy |-> "short"]
    BY <1>2, <2>1
  <2> HIDE DEF next, o
  <2>3. /\ IsLcd(o) /\ o.busy = "short" /\ o.mem = l.mem /\ o.at = next
        /\ o.eight = l.eight /\ o.two = l.two
        /\ o.on = l.on /\ o.cursor = l.cursor /\ o.blink = l.blink
        /\ o.incr = l.incr
    BY <2>2 DEF IsLcd
  <2> QED  BY <1>8, <2>3 DEF next, o
<1>9. CASE top = 3
  <2>1. Panel!Obey(l, b) = [s EXCEPT !.on = 2 \in b, !.cursor = 1 \in b, !.blink = 0 \in b]
    BY <1>4, <1>9
  <2> DEFINE shown == (2 \in b)
             mark == (1 \in b)
             blinks == (0 \in b)
             o == Panel!Obey(l, b)
  <2>2. o = [mem |-> l.mem, at |-> l.at, incr |-> l.incr, eight |-> l.eight, two |-> l.two,
             on |-> shown, cursor |-> mark, blink |-> blinks, busy |-> "short"]
    BY <1>2, <2>1
  <2> HIDE DEF shown, mark, blinks, o
  <2>3. /\ IsLcd(o) /\ o.busy = "short" /\ o.mem = l.mem /\ o.at = l.at
        /\ o.eight = l.eight /\ o.two = l.two
        /\ o.on = shown /\ o.cursor = mark /\ o.blink = blinks
        /\ o.incr = l.incr
    BY <2>2 DEF IsLcd
  <2> QED  BY <1>9, <2>3 DEF shown, mark, blinks, o
<1>10. CASE top = 2
  <2>1. Panel!Obey(l, b) = [s EXCEPT !.incr = 1 \in b]
    BY <1>4, <1>10
  <2> DEFINE up == (1 \in b)
             o == Panel!Obey(l, b)
  <2>2. o = [mem |-> l.mem, at |-> l.at, incr |-> up, eight |-> l.eight, two |-> l.two,
             on |-> l.on, cursor |-> l.cursor, blink |-> l.blink, busy |-> "short"]
    BY <1>2, <2>1
  <2> HIDE DEF up, o
  <2>3. /\ IsLcd(o) /\ o.busy = "short" /\ o.mem = l.mem /\ o.at = l.at
        /\ o.eight = l.eight /\ o.two = l.two
        /\ o.on = l.on /\ o.cursor = l.cursor /\ o.blink = l.blink
        /\ o.incr = up
    BY <2>2 DEF IsLcd
  <2> QED  BY <1>10, <2>3 DEF up, o
<1>11. CASE top = 1
  <2>1. Panel!Obey(l, b) = [s EXCEPT !.at = Panel!Dd(0), !.busy = "long"]
    BY <1>4, <1>11
  <2>2. Panel!Obey(l, b) = [mem |-> l.mem, at |-> Panel!Dd(0), incr |-> l.incr, eight |-> l.eight,
                            two |-> l.two, on |-> l.on, cursor |-> l.cursor, blink |-> l.blink, busy |-> "long"]
    BY <1>2, <2>1
  <2> QED  BY <1>11, <2>2 DEF IsLcd
<1>12. CASE top = 0
  <2>1. Panel!Obey(l, b) = [s EXCEPT !.at = Panel!Dd(0), !.mem = Panel!Erased(l.mem), !.incr = TRUE,
                                     !.busy = "long"]
    BY <1>2, <1>4, <1>12
  <2>2. Panel!Obey(l, b) = [mem |-> Panel!Erased(l.mem), at |-> Panel!Dd(0), incr |-> TRUE, eight |-> l.eight,
                            two |-> l.two, on |-> l.on, cursor |-> l.cursor, blink |-> l.blink, busy |-> "long"]
    BY <1>2, <2>1
  <2> QED  BY <1>12, <2>2 DEF IsLcd
<1> QED  BY <1>3, <1>5, <1>6, <1>7, <1>8, <1>9, <1>10, <1>11, <1>12

\* What main asks for is a record with these fields.
IsWant(w) == w = [mem |-> w.mem, at |-> w.at, cursor |-> w.cursor, read |-> w.read]

\* The controller shows what w asks for.
Shows(l, w) ==
  /\ IsLcd(l)
  /\ l.mem = w.mem /\ l.at = w.at
  /\ l.on = TRUE /\ l.two = TRUE /\ l.eight = TRUE /\ l.incr = TRUE
  /\ l.cursor = w.cursor /\ l.blink = w.cursor

Meets(c, w) == Shows(c.lcd, w) /\ (w.read # {} => c.data = w.read)

\* A function that is called when the display shows what was wanted makes it w.
Makes(steps, w) ==
  \A a : Shows(a.lcd, want) /\ a.lcd.busy = "no" /\ a.answer = "old" =>
           \E c : Takes(steps, a, c) /\ Meets(c, w)

\* A byte is stored, or read, and the address moves on.
LEMMA Stored ==
  ASSUME NEW l, NEW w, Shows(l, w), NEW b
  PROVE  LET o == Panel!Store(l, b)
             p == Panel!Moved(l)
         IN  /\ IsLcd(o) /\ Shows(Settled(o), [mem |-> [w.mem EXCEPT ![w.at] = b],
                                               at |-> Panel!After(w.at), cursor |-> w.cursor])
             /\ IsLcd(p) /\ Shows(p, [mem |-> w.mem, at |-> Panel!After(w.at), cursor |-> w.cursor])
<1>1. ASSUME NEW k, IsLcd(k), k.incr = TRUE
      PROVE  Panel!Moved(k) = [mem |-> k.mem, at |-> Panel!After(k.at), incr |-> k.incr,
                               eight |-> k.eight, two |-> k.two, on |-> k.on, cursor |-> k.cursor,
                               blink |-> k.blink, busy |-> "short"]
  <2>1. Panel!Moved(k) = [k EXCEPT !.at = Panel!After(k.at), !.busy = "short"]
    BY <1>1 DEF Panel!Moved, IsLcd
  <2> QED  BY <1>1, <2>1 DEF IsLcd
<1>2. IsLcd(l) /\ l.incr = TRUE
  BY DEF Shows
<1> DEFINE k == [l EXCEPT !.mem[l.at] = b]
           m == [l.mem EXCEPT ![l.at] = b]
<1>3. k = [mem |-> m, at |-> l.at, incr |-> l.incr, eight |-> l.eight, two |-> l.two,
           on |-> l.on, cursor |-> l.cursor, blink |-> l.blink, busy |-> l.busy]
  BY <1>2 DEF IsLcd
<1>4. Panel!Store(l, b) = Panel!Moved(k)
  BY DEF Panel!Store
<1>5. m = [w.mem EXCEPT ![w.at] = b]
  BY DEF Shows
<1> HIDE DEF k, m
<1>6. /\ IsLcd(k) /\ k.mem = m /\ k.at = l.at /\ k.incr = l.incr /\ k.eight = l.eight
      /\ k.two = l.two /\ k.on = l.on /\ k.cursor = l.cursor /\ k.blink = l.blink
  BY <1>3 DEF IsLcd
<1>7. Panel!Store(l, b) = [mem |-> m, at |-> Panel!After(l.at), incr |-> l.incr,
                           eight |-> l.eight, two |-> l.two, on |-> l.on, cursor |-> l.cursor,
                           blink |-> l.blink, busy |-> "short"]
  BY <1>1, <1>2, <1>4, <1>6
<1> DEFINE o == Panel!Store(l, b)
           p == Panel!Moved(l)
           v == [mem |-> [w.mem EXCEPT ![w.at] = b], at |-> Panel!After(w.at), cursor |-> w.cursor]
<1>8. p = [mem |-> l.mem, at |-> Panel!After(l.at), incr |-> l.incr, eight |-> l.eight,
           two |-> l.two, on |-> l.on, cursor |-> l.cursor, blink |-> l.blink, busy |-> "short"]
  BY <1>1, <1>2
<1>9. v.mem = m /\ v.at = Panel!After(w.at) /\ v.cursor = w.cursor
  BY <1>5
<1> HIDE DEF o, p, v
<1>10. /\ IsLcd(o) /\ o.mem = m /\ o.at = Panel!After(l.at) /\ o.incr = l.incr /\ o.eight = l.eight
       /\ o.two = l.two /\ o.on = l.on /\ o.cursor = l.cursor /\ o.blink = l.blink
  BY <1>7 DEF o, IsLcd
<1>11. /\ IsLcd(Settled(o)) /\ Settled(o).mem = m /\ Settled(o).at = Panel!After(l.at)
       /\ Settled(o).incr = l.incr /\ Settled(o).eight = l.eight
       /\ Settled(o).two = l.two /\ Settled(o).on = l.on /\ Settled(o).cursor = l.cursor
       /\ Settled(o).blink = l.blink
  BY <1>10, SettledIsLcd
<1>12. Shows(Settled(o), v)
  BY <1>9, <1>11 DEF Shows
<1>13. IsLcd(p) /\ Shows(p, [mem |-> w.mem, at |-> Panel!After(w.at), cursor |-> w.cursor])
  BY <1>8 DEF Shows, IsLcd
<1> QED  BY <1>10, <1>12, <1>13 DEF o, p, v

\* After a command that leaves the modes alone the display shows what it did.
LEMMA CommandShows ==
  ASSUME NEW l, NEW w, Shows(l, w), NEW b, NEW top, Command(b, top),
         top \notin {2, 5}, top = 3 => 2 \in b /\ (0 \in b <=> 1 \in b), NEW v,
         v.mem = Panel!Obey(l, b).mem, v.at = Panel!Obey(l, b).at,
         v.cursor = IF top = 3 THEN 1 \in b ELSE w.cursor
  PROVE  IsLcd(Panel!Obey(l, b)) /\ Shows(Settled(Panel!Obey(l, b)), v)
<1> DEFINE o == Panel!Obey(l, b)
           s == Settled(o)
<1>1. /\ IsLcd(o)
      /\ o.eight = l.eight /\ o.two = l.two
      /\ top = 3 => o.on = (2 \in b) /\ o.cursor = (1 \in b) /\ o.blink = (0 \in b)
      /\ top # 3 => o.on = l.on /\ o.cursor = l.cursor /\ o.blink = l.blink
      /\ o.incr = TRUE
  <2>1. Obeys(o, l, b, top) /\ l.incr = TRUE
    BY Obeyed DEF Shows
  <2> HIDE DEF o
  <2> QED  BY <2>1 DEF Obeys
<1>2. o.on = TRUE /\ o.cursor = v.cursor /\ o.blink = v.cursor
  <2> HIDE DEF o
  <2>1. l.on = TRUE /\ l.cursor = w.cursor /\ l.blink = w.cursor
    BY DEF Shows
  <2>2. CASE top = 3
    <3>1. o.on = (2 \in b) /\ o.cursor = (1 \in b) /\ o.blink = (0 \in b) /\ v.cursor = (1 \in b)
      BY <1>1, <2>2
    <3>2. 2 \in b /\ (0 \in b <=> 1 \in b)
      BY <2>2
    <3>3. (2 \in b) = TRUE /\ (0 \in b) = (1 \in b)
      BY <3>2
    <3> QED  BY <3>1, <3>3
  <2>3. CASE top # 3
    BY <1>1, <2>1, <2>3
  <2> QED  BY <2>2, <2>3
<1> HIDE DEF o
<1>3. /\ IsLcd(s) /\ s.mem = o.mem /\ s.at = o.at /\ s.incr = o.incr /\ s.eight = o.eight
      /\ s.two = o.two /\ s.on = o.on /\ s.cursor = o.cursor /\ s.blink = o.blink
  BY <1>1, SettledIsLcd
<1>4. v.mem = o.mem /\ v.at = o.at
  BY DEF o
<1> HIDE DEF s
<1>5. Shows(s, v)
  BY <1>1, <1>2, <1>3, <1>4 DEF Shows
<1> QED  BY <1>1, <1>5 DEF o, s

\* b makes of a display that shows want one that shows w.
Turns(b, w) ==
  \A l : Shows(l, want) => IsLcd(Panel!Obey(l, b)) /\ Shows(Settled(Panel!Obey(l, b)), w)

\* A command that is waited for.
LEMMA CommandMakes ==
  ASSUME NEW b \in PinBytes, NEW w, w.read = {}, Turns(b, w)
  PROVE  /\ Makes(Panel!WriteCmdXLCD(b), w)
         /\ Makes(Panel!Write(0, b) \o <<Panel!Do("release")>> \o Panel!XLCD_BUSY_WAIT, w)
         /\ Makes(Panel!WriteCmdXLCD(b) \o <<Panel!Delay({"long", "short"})>>, w)
<1> SUFFICES ASSUME NEW a, Shows(a.lcd, want), a.lcd.busy = "no", a.answer = "old"
             PROVE  \E c : /\ Takes(Panel!WriteCmdXLCD(b), a, c)
                           /\ Takes(Panel!Write(0, b) \o <<Panel!Do("release")>> \o Panel!XLCD_BUSY_WAIT, a, c)
                           /\ Takes(Panel!WriteCmdXLCD(b) \o <<Panel!Delay({"long", "short"})>>, a, c)
                           /\ Meets(c, w)
  BY DEF Makes
<1> DEFINE l == Settled(Panel!Obey(a.lcd, b))
           c == Known(l, Asked, "old", a.data)
           after == Panel!Delay({"long", "short"})
<1>1. IsLcd(Panel!Obey(a.lcd, b)) /\ Shows(l, w)
  BY DEF Turns
<1>2. /\ Takes(Panel!WriteCmdXLCD(b), a, c)
      /\ Takes(Panel!Write(0, b) \o <<Panel!Do("release")>> \o Panel!XLCD_BUSY_WAIT, a, c)
  BY <1>1, CommandTakes
<1>3. l.busy = "no"
  BY <1>1, SettledIsLcd
<1> HIDE DEF l
<1>4. c.lcd = l /\ c.bus = Asked /\ c.answer = "old" /\ c.data = a.data
  BY DEF Known
<1>5. Meets(c, w)
  BY <1>1, <1>4 DEF Meets
<1>6. after.do = "delay" /\ after.ends = {"long", "short"}
  BY DEF Panel!Delay
<1> HIDE DEF after
<1>7. c = Known(IF c.lcd.busy \in after.ends THEN Settled(c.lcd) ELSE c.lcd, c.bus, c.answer, c.data)
  BY <1>3, <1>4, <1>6
<1> HIDE DEF c
<1>8. Does(after, c, c)
  BY <1>6, <1>7 DEF Does
<1>9. Takes(<<after>>, c, c)
  BY <1>8, TakesOne
<1>10. Panel!WriteCmdXLCD(b) \in Scripts /\ <<after>> \in Scripts
  BY FunctionsAreScripts DEF Scripts, PinSteps, Panel!Delay, after
<1>11. Takes(Panel!WriteCmdXLCD(b) \o <<after>>, a, c)
  BY <1>2, <1>9, <1>10, TakesBoth
<1> QED  BY <1>2, <1>5, <1>11 DEF after

\* An address, which is waited for by the clock.
LEMMA AddressMakes ==
  ASSUME NEW k \in 0..127, NEW w, w.read = {}, Turns(Panel!Byte(k) \cup {7}, w)
  PROVE  Makes(Panel!SetDDRamAddr(k), w)
<1> SUFFICES ASSUME NEW a, Shows(a.lcd, want), a.lcd.busy = "no", a.answer = "old"
             PROVE  \E c : Takes(Panel!SetDDRamAddr(k), a, c) /\ Meets(c, w)
  BY DEF Makes
<1> DEFINE b == Panel!Byte(k) \cup {7}
           o == Panel!Obey(a.lcd, b)
           s1 == Known(o, Pins("out", b, 0, 0, 0), "old", a.data)
           s2 == Known(o, Pins("in", {}, 0, 0, 0), "old", a.data)
           c == Known(Settled(o), Pins("in", {}, 0, 0, 0), "old", a.data)
           short == Panel!Delay({"short"})
<1>1. IsLcd(o) /\ Shows(Settled(o), w)
  BY DEF Turns
<1>2. o.busy = "short"
  <2>1. Command(b, 7) /\ IsLcd(a.lcd)
    BY DEF Panel!Byte, Command, Shows
  <2> HIDE DEF b
  <2>2. Obeys(o, a.lcd, b, 7)
    BY <2>1, Obeyed
  <2> HIDE DEF o
  <2> QED  BY <2>2 DEF Obeys
<1>3. b \in PinBytes
  BY DEF Panel!Byte, PinBytes
<1> HIDE DEF b, o
<1>4. Takes(Panel!Write(0, b), a, s1)
  BY <1>1, WriteTakes DEF o
<1>5. Does(Panel!Do("release"), s1, s2)
  BY DEF Does, Panel!Do, Known, Pins
<1>6. Does(short, s2, c)
  BY <1>2 DEF Does, Panel!Delay, Known
<1>7. Meets(c, w)
  BY <1>1 DEF Meets, Known
<1> HIDE DEF s1, s2, c
<1>8. Takes(<<Panel!Do("release")>>, s1, s2) /\ Takes(<<short>>, s2, c)
  BY <1>5, <1>6, TakesOne
<1>9. /\ Panel!Write(0, b) \in Scripts /\ <<Panel!Do("release")>> \in Scripts
      /\ <<short>> \in Scripts /\ Panel!Write(0, b) \o <<Panel!Do("release")>> \in Scripts
  BY <1>3 DEF Scripts, PinSteps, Panel!Do, Panel!Write, Panel!Out, Panel!Delay
<1>10. Takes(Panel!Write(0, b) \o <<Panel!Do("release")>>, a, s2)
  BY <1>4, <1>8, <1>9, TakesBoth
<1>11. Takes(Panel!Write(0, b) \o <<Panel!Do("release")>> \o <<short>>, a, c)
  BY <1>8, <1>9, <1>10, TakesBoth
<1> QED  BY <1>7, <1>11 DEF Panel!SetDDRamAddr, Panel!Delay200usXLCD, b

\* A byte that is read.
LEMMA ReadMakes ==
  ASSUME NEW w, w = [want EXCEPT !.at = Panel!After(want.at), !.read = {want.mem[want.at]}], IsWant(want)
  PROVE  Makes(Panel!ReadDataXLCD, w)
<1> SUFFICES ASSUME NEW a, Shows(a.lcd, want), a.lcd.busy = "no", a.answer = "old"
             PROVE  \E c : Takes(Panel!ReadDataXLCD, a, c) /\ Meets(c, w)
  BY DEF Makes
<1> DEFINE byte == {a.lcd.mem[a.lcd.at]}
           o == Panel!Moved(a.lcd)
           s1 == Known(a.lcd, Pins("in", {}, 1, 1, a.bus.e), "old", a.data)
           s2 == Known(a.lcd, Pins("in", {}, 1, 1, 1), "old", a.data)
           s3 == Known(a.lcd, Pins("in", {}, 1, 1, 1), "old", byte)
           c == Known(o, Pins("in", {}, 1, 1, 0), "old", byte)
<1>1. /\ w = [mem |-> want.mem, at |-> Panel!After(want.at), cursor |-> want.cursor,
              read |-> {want.mem[want.at]}]
  BY DEF IsWant
<1>2. byte = w.read
  BY <1>1 DEF Shows
<1>3. IsLcd(o) /\ Shows(o, [mem |-> want.mem, at |-> Panel!After(want.at), cursor |-> want.cursor])
  BY Stored
<1>4. Shows(o, w)
  BY <1>1, <1>3 DEF Shows
<1>5. Does(Panel!In(1), a, s1)
  BY DEF Does, Panel!In
<1>6. Does(Panel!Do("raise"), s1, s2)
  BY DEF Does, Panel!Do, Known, Pins
<1>7. Does(Panel!Do("data"), s2, s3)
  BY DEF Does, Panel!Do, Known, Pins
<1>8. Does(Panel!Do("lower"), s3, c)
  <2>1. /\ s3.lcd = a.lcd /\ s3.answer = "old" /\ s3.data = byte
        /\ s3.bus.dir = "in" /\ s3.bus.lat = {} /\ s3.bus.rw = 1 /\ s3.bus.rs = 1
    BY DEF Known, Pins
  <2>2. c = Known(o, Pins(s3.bus.dir, s3.bus.lat, s3.bus.rw, s3.bus.rs, 0), s3.answer, s3.data)
    BY <2>1
  <2>3. Panel!Do("lower").do = "lower" /\ o = Panel!Moved(s3.lcd)
    BY <2>1 DEF Panel!Do
  <2> HIDE DEF s3, c, o
  <2> QED  BY <1>3, <2>1, <2>2, <2>3 DEF Does
<1>9. Meets(c, w)
  <2>1. c.lcd = o /\ c.data = byte
    BY DEF Known
  <2> HIDE DEF c, o
  <2> QED  BY <1>2, <1>4, <2>1 DEF Meets
<1> HIDE DEF s1, s2, s3, c
<1>10. Takes(Panel!ReadDataXLCD, a, c)
  BY <1>5, <1>6, <1>7, <1>8, TakesFour DEF Panel!ReadDataXLCD
<1> QED  BY <1>9, <1>10

\* The address that is read leaves everything alone.
LEMMA AddrMakes ==
  ASSUME NEW w, w.read = {}, w.mem = want.mem, w.at = want.at, w.cursor = want.cursor
  PROVE  Makes(Panel!ReadAddrXLCD, w)
<1> SUFFICES ASSUME NEW a, Shows(a.lcd, want), a.lcd.busy = "no", a.answer = "old"
             PROVE  \E c : Takes(Panel!ReadAddrXLCD, a, c) /\ Meets(c, w)
  BY DEF Makes
<1> DEFINE s1 == Known(a.lcd, Pins("in", {}, 1, 0, a.bus.e), "old", a.data)
           s2 == Known(a.lcd, Pins("in", {}, 1, 0, 1), "old", a.data)
           s3 == Known(a.lcd, Pins("in", {}, 1, 0, 1), "old", {})
           c == Known(a.lcd, Pins("in", {}, 1, 0, 0), "old", {})
<1>1. IsLcd(a.lcd)
  BY DEF Shows
<1>2. Does(Panel!In(0), a, s1)
  BY DEF Does, Panel!In
<1>3. Does(Panel!Do("raise"), s1, s2)
  BY DEF Does, Panel!Do, Known, Pins
<1>4. Does(Panel!Do("address"), s2, s3)
  BY DEF Does, Panel!Do, Known, Pins
<1>5. Does(Panel!Do("lower"), s3, c)
  BY <1>1 DEF Does, Panel!Do, Known, Pins
<1>6. Meets(c, w)
  BY DEF Meets, Shows, Known
<1> HIDE DEF s1, s2, s3, c
<1>7. Takes(Panel!ReadAddrXLCD, a, c)
  BY <1>2, <1>3, <1>4, <1>5, TakesFour DEF Panel!ReadAddrXLCD
<1> QED  BY <1>6, <1>7

\* A character that is written.
Wrote(w, c) == [w EXCEPT !.mem[w.at] = c, !.at = Panel!After(@)]

\* Its fields.
LEMMA OneWritten ==
  ASSUME NEW w, IsWant(w), NEW c
  PROVE  Wrote(w, c) = [mem |-> [w.mem EXCEPT ![w.at] = c], at |-> Panel!After(w.at),
                        cursor |-> w.cursor, read |-> w.read]
<1> DEFINE v == [w EXCEPT !.mem[w.at] = c]
           m == [w.mem EXCEPT ![w.at] = c]
<1>1. v = [mem |-> m, at |-> w.at, cursor |-> w.cursor, read |-> w.read]
  BY DEF IsWant
<1>2. Wrote(w, c) = [v EXCEPT !.at = Panel!After(v.at)]
  BY DEF Wrote
<1> HIDE DEF m, v
<1>3. [v EXCEPT !.at = Panel!After(v.at)]
        = [mem |-> m, at |-> Panel!After(w.at), cursor |-> w.cursor, read |-> w.read]
  BY <1>1
<1> QED  BY <1>2, <1>3 DEF m

\* after[i] is what w becomes with the first i characters of str.
Writes(after, w, str, k) ==
  after = [i \in 0..k |-> IF i = 0 THEN w ELSE Wrote(after[i - 1], str[i])]

\* The function that Written is written with exists.
LEMMA WritesExist ==
  ASSUME NEW w, NEW str, NEW k \in Nat
  PROVE  \E f : Writes(f, w, str, k)
<1> DEFINE S == {m \in Nat : \E f : Writes(f, w, str, m)}
<1>1. 0 \in S
  <2> DEFINE f == [i \in 0..0 |-> w]
  <2>1. f = [i \in 0..0 |-> IF i = 0 THEN w ELSE Wrote(f[i - 1], str[i])]
    OBVIOUS
  <2> QED  BY <2>1 DEF Writes
<1>2. ASSUME NEW m \in Nat, m \in S PROVE m + 1 \in S
  <2>1. PICK f : Writes(f, w, str, m)
    BY <1>2
  <2> DEFINE last == Wrote(f[m], str[m + 1])
             g == [i \in 0..m+1 |-> IF i = m + 1 THEN last ELSE f[i]]
  <2>2. (\A i \in 0..m : g[i] = f[i]) /\ g[m + 1] = last
    <3> HIDE DEF last
    <3> QED  OBVIOUS
  <2>3. \A i \in 0..m : f[i] = IF i = 0 THEN w ELSE Wrote(f[i - 1], str[i])
    BY <2>1 DEF Writes
  <2>4. g = [i \in 0..m+1 |-> g[i]]
    <3> HIDE DEF last
    <3> QED  OBVIOUS
  <2> HIDE DEF g
  <2>5. ASSUME NEW i \in 0..m+1
        PROVE  g[i] = IF i = 0 THEN w ELSE Wrote(g[i - 1], str[i])
    <3>1. CASE i = m + 1
      <4>1. i # 0 /\ i - 1 = m /\ m \in 0..m
        BY <3>1
      <4> QED  BY <2>2, <3>1, <4>1
    <3>2. CASE i # m + 1
      <4>1. i \in 0..m /\ (i # 0 => i - 1 \in 0..m)
        BY <3>2
      <4> QED  BY <2>2, <2>3, <4>1
    <3> QED  BY <3>1, <3>2
  <2>6. Writes(g, w, str, m + 1)
    BY <2>4, <2>5 DEF Writes
  <2> QED  BY <2>6
<1>3. Nat \subseteq S
  <2> HIDE DEF S
  <2> QED  BY <1>1, <1>2, SetInduction
<1> QED  BY <1>3

\* What is wanted after a text.
LEMMA WrittenSteps ==
  ASSUME NEW w, NEW str, NEW k \in Nat, k = Len(str)
  PROVE  \E after : /\ after[0] = w /\ after[k] = Panel!Written(w, str)
                    /\ \A i \in 1..k : after[i] = Wrote(after[i - 1], str[i])
<1> DEFINE after == CHOOSE f : Writes(f, w, str, k)
<1>2. Writes(after, w, str, k)
  BY WritesExist
<1>3. Panel!Written(w, str) = after[k]
  BY DEF Panel!Written, Writes, Wrote
<1> HIDE DEF after
<1>4. \A i \in 0..k : after[i] = IF i = 0 THEN w ELSE Wrote(after[i - 1], str[i])
  BY <1>2 DEF Writes
<1> QED  BY <1>3, <1>4

\* One character of a text.
LEMMA CharacterTakes ==
  ASSUME NEW a, NEW w, IsWant(w), Shows(a.lcd, w), a.lcd.busy = "no", a.answer = "old",
         NEW b \in PinBytes
  PROVE  \E c : /\ Takes(Panel!WriteDataXLCD(b), a, c)
                /\ Shows(c.lcd, Wrote(w, b)) /\ c.lcd.busy = "no" /\ c.answer = "old"
<1> DEFINE o == Panel!Store(a.lcd, b)
           v == [mem |-> [w.mem EXCEPT ![w.at] = b], at |-> Panel!After(w.at), cursor |-> w.cursor]
           c == Known(Settled(o), Asked, "old", a.data)
<1>1. IsLcd(o) /\ Shows(Settled(o), v)
  BY Stored
<1>2. Takes(Panel!WriteDataXLCD(b), a, c)
  BY <1>1, DataTakes
<1>3. c.lcd = Settled(o) /\ c.answer = "old"
  BY DEF Known
<1>4. Settled(o).busy = "no"
  BY <1>1, SettledIsLcd
<1>5. /\ Wrote(w, b).mem = v.mem /\ Wrote(w, b).at = v.at /\ Wrote(w, b).cursor = v.cursor
  BY OneWritten
<1> HIDE DEF o, v, c
<1>6. Shows(c.lcd, Wrote(w, b))
  BY <1>1, <1>3, <1>5 DEF Shows
<1> QED  BY <1>2, <1>3, <1>4, <1>6

\* What was read is forgotten.
LEMMA Forgotten ==
  ASSUME NEW w, IsWant(w), NEW r
  PROVE  [w EXCEPT !.read = r] = [mem |-> w.mem, at |-> w.at, cursor |-> w.cursor, read |-> r]
BY DEF IsWant

\* A text.
LEMMA TextMakes ==
  ASSUME NEW str \in Seq(PinBytes), str # <<>>, IsWant(want)
  PROVE  LET v == [Panel!Written(want, str) EXCEPT !.read = {}]
         IN  Makes(Panel!PutsXLCD(str), v) /\ IsWant(v)
<1>1. PICK k \in Nat : k = Len(str) /\ k # 0
  BY EmptySeq
<1>2. PICK after : /\ after[0] = want /\ after[k] = Panel!Written(want, str)
                   /\ \A i \in 1..k : after[i] = Wrote(after[i - 1], str[i])
  BY <1>1, WrittenSteps
<1>3. \A i \in 1..k : str[i] \in PinBytes
  BY <1>1
<1>4. \A i \in 0..k : IsWant(after[i])
  <2> DEFINE S == {i \in Nat : i <= k => IsWant(after[i])}
  <2>1. 0 \in S
    BY <1>2
  <2>2. ASSUME NEW i \in Nat, i \in S PROVE i + 1 \in S
    <3> SUFFICES ASSUME i + 1 <= k PROVE IsWant(after[i + 1])
      OBVIOUS
    <3>1. IsWant(after[i])
      BY <2>2
    <3>2. i + 1 \in 1..k /\ (i + 1) - 1 = i
      OBVIOUS
    <3>3. after[i + 1] = Wrote(after[i], str[i + 1])
      BY <1>2, <3>2
    <3>4. IsWant(Wrote(after[i], str[i + 1]))
      <4> DEFINE v == after[i]
      <4>1. IsWant(v)
        BY <3>1
      <4> HIDE DEF v
      <4>2. IsWant(Wrote(v, str[i + 1]))
        BY <4>1, OneWritten DEF IsWant
      <4> QED  BY <4>2 DEF v
    <3> QED  BY <3>3, <3>4
  <2>3. Nat \subseteq S
    <3> HIDE DEF S
    <3> QED  BY <2>1, <2>2, SetInduction
  <2> QED  BY <2>3
<1> DEFINE scripts == [i \in DOMAIN str |-> Panel!WriteDataXLCD(str[i])]
           joined == CHOOSE f : Joins(f, scripts, k)
<1>5. Len(scripts) = k /\ \A i \in 1..k : scripts[i] = Panel!WriteDataXLCD(str[i])
  BY <1>1
<1>6. \A i \in 1..k : scripts[i] \in Scripts
  BY <1>3, <1>5, FunctionsAreScripts
<1> HIDE DEF scripts
<1>7. Joins(joined, scripts, k)
  BY JoinsExist
<1>8. Panel!PutsXLCD(str) = joined[k]
  <2>1. scripts # <<>>
    BY <1>1, <1>5
  <2>2. Panel!FlattenSeq(scripts) = joined[k]
    BY <1>1, <1>5, <2>1 DEF Panel!FlattenSeq, Joins
  <2> QED  BY <2>2 DEF Panel!PutsXLCD, scripts
<1> HIDE DEF joined
<1>9. \A i \in 1..k : joined[i] = IF i = 1 THEN scripts[i] ELSE joined[i - 1] \o scripts[i]
  BY <1>7 DEF Joins
<1>10. ASSUME NEW a, Shows(a.lcd, want), a.lcd.busy = "no", a.answer = "old"
       PROVE  \E c : Takes(joined[k], a, c) /\ Shows(c.lcd, after[k])
  <2> DEFINE Reaches(i) == \E c : /\ Takes(joined[i], a, c) /\ joined[i] \in Scripts
                                  /\ Shows(c.lcd, after[i]) /\ c.lcd.busy = "no" /\ c.answer = "old"
             S == {i \in Nat : i + 1 <= k => Reaches(i + 1)}
  <2>1. 0 \in S
    <3>1. 0 + 1 = 1 /\ 1 \in 1..k /\ 1 - 1 = 0 /\ 0 \in 0..k
      BY <1>1
    <3>2. Shows(a.lcd, after[0]) /\ IsWant(after[0])
      BY <1>2, <1>10 DEF Shows
    <3>3. joined[1] = Panel!WriteDataXLCD(str[1]) /\ joined[1] \in Scripts
      BY <1>5, <1>6, <1>9, <3>1
    <3>4. after[1] = Wrote(after[0], str[1]) /\ str[1] \in PinBytes
      BY <1>2, <1>3, <3>1
    <3>5. PICK d : /\ Takes(Panel!WriteDataXLCD(str[1]), a, d)
                   /\ Shows(d.lcd, after[1]) /\ d.lcd.busy = "no" /\ d.answer = "old"
      <4>1. a.lcd.busy = "no" /\ a.answer = "old"
        BY <1>10
      <4> QED  BY <3>2, <3>4, <4>1, CharacterTakes
    <3>6. Reaches(1)
      BY <3>3, <3>5
    <3> HIDE DEF Reaches
    <3> QED  BY <3>1, <3>6
  <2>2. ASSUME NEW i \in Nat, i \in S PROVE i + 1 \in S
    <3> SUFFICES ASSUME i + 1 + 1 <= k PROVE Reaches(i + 1 + 1)
      OBVIOUS
    <3>1. PICK j \in 1..k : j = i + 1 + 1 /\ j # 1 /\ j - 1 = i + 1 /\ i + 1 <= k /\ i + 1 \in 0..k
      <4>1. i + 1 + 1 \in 1..k /\ i + 1 + 1 # 1 /\ (i + 1 + 1) - 1 = i + 1 /\ i + 1 <= k /\ i + 1 \in 0..k
        OBVIOUS
      <4> QED  BY <4>1
    <3>2. Reaches(i + 1)
      <4> HIDE DEF Reaches
      <4> QED  BY <2>2, <3>1
    <3>3. PICK c : /\ Takes(joined[i + 1], a, c) /\ joined[i + 1] \in Scripts
                   /\ Shows(c.lcd, after[i + 1]) /\ c.lcd.busy = "no" /\ c.answer = "old"
      BY <3>2
    <3>4. /\ joined[j] = joined[i + 1] \o Panel!WriteDataXLCD(str[j])
          /\ Panel!WriteDataXLCD(str[j]) \in Scripts /\ str[j] \in PinBytes
      BY <1>3, <1>5, <1>6, <1>9, <3>1
    <3>5. after[j] = Wrote(after[i + 1], str[j]) /\ IsWant(after[i + 1])
      BY <1>2, <1>4, <3>1
    <3>6. PICK d : /\ Takes(Panel!WriteDataXLCD(str[j]), c, d)
                   /\ Shows(d.lcd, after[j]) /\ d.lcd.busy = "no" /\ d.answer = "old"
      <4> DEFINE x == after[i + 1]
                 y == str[j]
      <4>1. IsWant(x) /\ y \in PinBytes /\ after[j] = Wrote(x, y) /\ Shows(c.lcd, x)
        BY <3>3, <3>4, <3>5
      <4> HIDE DEF x, y
      <4>2. \E d : /\ Takes(Panel!WriteDataXLCD(y), c, d)
                   /\ Shows(d.lcd, Wrote(x, y)) /\ d.lcd.busy = "no" /\ d.answer = "old"
        BY <3>3, <4>1, CharacterTakes
      <4> QED  BY <4>1, <4>2 DEF y
    <3>7. Takes(joined[j], a, d)
      BY <3>3, <3>4, <3>6, TakesBoth
    <3>8. joined[j] \in Scripts
      BY <3>3, <3>4 DEF Scripts
    <3>9. Reaches(j)
      BY <3>6, <3>7, <3>8
    <3> HIDE DEF Reaches
    <3> QED  BY <3>1, <3>9
  <2>3. Nat \subseteq S
    <3> HIDE DEF S
    <3> QED  BY <2>1, <2>2, SetInduction
  <2>4. k - 1 \in Nat /\ (k - 1) + 1 = k /\ k <= k
    BY <1>1
  <2>5. Reaches(k)
    <3>1. k - 1 \in S
      <4> HIDE DEF S
      <4> QED  BY <2>3, <2>4
    <3> HIDE DEF Reaches
    <3> QED  BY <2>4, <3>1
  <2> QED  BY <2>5
<1> DEFINE u == after[k]
           v == [u EXCEPT !.read = {}]
<1>11. IsWant(v) /\ v.mem = u.mem /\ v.at = u.at /\ v.cursor = u.cursor /\ v.read = {}
  <2>1. IsWant(u)
    BY <1>1, <1>4
  <2> HIDE DEF u
  <2>2. v = [mem |-> u.mem, at |-> u.at, cursor |-> u.cursor, read |-> {}]
    BY <2>1, Forgotten
  <2> HIDE DEF v
  <2> QED  BY <2>2 DEF IsWant
<1>12. Makes(joined[k], v)
  <2> HIDE DEF u, v
  <2>1. \A c : Shows(c.lcd, u) => Meets(c, v)
    BY <1>11 DEF Meets, Shows
  <2>2. ASSUME NEW a, Shows(a.lcd, want), a.lcd.busy = "no", a.answer = "old"
        PROVE  \E c : Takes(joined[k], a, c) /\ Shows(c.lcd, u)
    BY <1>10, <2>2 DEF u
  <2> QED  BY <2>1, <2>2 DEF Makes
<1> QED  BY <1>2, <1>8, <1>11, <1>12

DisplayInv ==
  IsWant(want) /\ \E a, c : Agrees(a) /\ Takes(todo, a, c) /\ Meets(c, want)

\* When no function is running the display shows what is wanted.
LEMMA DoneShows == DisplayInv => ShowsWhatIsWritten
<1> SUFFICES ASSUME DisplayInv, todo = <<>> PROVE ShowsWhatIsWritten
  BY DEF ShowsWhatIsWritten, Panel!ShowsWhatIsWritten
<1>1. PICK a, c : Agrees(a) /\ Takes(<<>>, a, c) /\ Meets(c, want)
  BY DEF DisplayInv
<1>2. a = c
  BY <1>1, NothingTaken
<1>3. Shows(a.lcd, want) /\ (want.read # {} => a.data = want.read)
  BY <1>1, <1>2 DEF Meets
<1>4. IsLcd(a.lcd) /\ IsLcd(lcd) /\ Settled(lcd) = Settled(a.lcd) /\ (a.data # {} => lcdData = a.data)
  BY <1>1 DEF Agrees
<1>5. /\ lcd.mem = a.lcd.mem /\ lcd.at = a.lcd.at /\ lcd.on = a.lcd.on /\ lcd.two = a.lcd.two
      /\ lcd.eight = a.lcd.eight /\ lcd.incr = a.lcd.incr
      /\ lcd.cursor = a.lcd.cursor /\ lcd.blink = a.lcd.blink
  <2> DEFINE s == Settled(lcd)
             t == Settled(a.lcd)
  <2>1. /\ s = [mem |-> lcd.mem, at |-> lcd.at, incr |-> lcd.incr, eight |-> lcd.eight,
                two |-> lcd.two, on |-> lcd.on, cursor |-> lcd.cursor, blink |-> lcd.blink,
                busy |-> "no"]
        /\ t = [mem |-> a.lcd.mem, at |-> a.lcd.at, incr |-> a.lcd.incr, eight |-> a.lcd.eight,
                two |-> a.lcd.two, on |-> a.lcd.on, cursor |-> a.lcd.cursor,
                blink |-> a.lcd.blink, busy |-> "no"]
    BY <1>4, SettledIsLcd
  <2>2. s = t
    BY <1>4
  <2> HIDE DEF s, t
  <2> QED  BY <2>1, <2>2
<1>6. lcd.on = TRUE /\ lcd.two = TRUE /\ lcd.eight = TRUE /\ lcd.incr = TRUE
  BY <1>3, <1>5 DEF Shows
<1>7. /\ lcd.mem = want.mem /\ lcd.at = want.at
      /\ lcd.cursor = want.cursor /\ lcd.blink = want.cursor
  BY <1>3, <1>5 DEF Shows
<1>8. want.read # {} => lcdData = want.read
  BY <1>3, <1>4
<1>9. lcd.on /\ lcd.two /\ lcd.eight /\ lcd.incr
  BY <1>6, Zenon
<1> QED  BY <1>7, <1>8, <1>9, Zenon DEF ShowsWhatIsWritten, Panel!ShowsWhatIsWritten

\* A call of a function, which waits for the one before.
LEMMA AskKeepsDisplay ==
  ASSUME PanelInv, DisplayInv, NEW steps \in Scripts, NEW w, IsWant(w), Makes(steps, w),
         Panel!Ask(steps, w)
  PROVE  DisplayInv'
<1>1. /\ todo = <<>> /\ todo' = Panel!XLCD_BUSY_WAIT \o steps /\ want' = w /\ lcdData' = {}
      /\ bus' = bus /\ flag' = flag /\ lcd' = lcd
  BY DEF Panel!Ask
<1>2. PICK a, c : Agrees(a) /\ Takes(<<>>, a, c) /\ Meets(c, want)
  BY <1>1 DEF DisplayInv
<1>3. a = c
  BY <1>2, NothingTaken
<1>4. Shows(a.lcd, want)
  BY <1>2, <1>3 DEF Meets
<1> DEFINE b == Known(a.lcd, a.bus, a.answer, {})
           d == Known(Settled(a.lcd), Asked, "old", {})
<1>5. b.lcd = a.lcd /\ b.bus = a.bus /\ b.answer = a.answer /\ b.data = {}
  BY DEF Known
<1>6. Agrees(b)'
  <2>1. b = Known(b.lcd, b.bus, b.answer, b.data)
    BY <1>5
  <2> HIDE DEF b
  <2> QED  BY <1>1, <1>2, <1>5, <2>1 DEF Agrees
<1>7. Takes(Panel!XLCD_BUSY_WAIT, b, d)
  <2>1. IsLcd(b.lcd)
    BY <1>4, <1>5 DEF Shows
  <2>2. d = Known(Settled(b.lcd), Asked, "old", b.data)
    BY <1>5
  <2> HIDE DEF b, d
  <2> QED  BY <2>1, <2>2, WaitTakes
<1>8. d.lcd.busy = "no" /\ d.answer = "old" /\ Shows(d.lcd, want)
  <2>1. IsLcd(a.lcd)
    BY <1>4 DEF Shows
  <2> DEFINE s == Settled(a.lcd)
  <2>2. /\ s = [mem |-> a.lcd.mem, at |-> a.lcd.at, incr |-> a.lcd.incr, eight |-> a.lcd.eight,
                two |-> a.lcd.two, on |-> a.lcd.on, cursor |-> a.lcd.cursor,
                blink |-> a.lcd.blink, busy |-> "no"]
        /\ IsLcd(s)
    BY <2>1, SettledIsLcd
  <2>3. d.lcd = s /\ d.answer = "old"
    BY DEF Known
  <2> HIDE DEF s, d
  <2>4. Shows(s, want)
    BY <1>4, <2>2 DEF Shows
  <2> QED  BY <2>2, <2>3, <2>4
<1> HIDE DEF b, d
<1>9. PICK e : Takes(steps, d, e) /\ Meets(e, w)
  BY <1>8 DEF Makes
<1>10. Takes(Panel!XLCD_BUSY_WAIT \o steps, b, e)
  <2>1. Panel!XLCD_BUSY_WAIT \in Scripts
    BY FunctionsAreScripts
  <2> QED  BY <1>7, <1>9, <2>1, TakesBoth
<1>11. Takes(todo', b, e) /\ Meets(e, want') /\ IsWant(want')
  BY <1>1, <1>9, <1>10
<1> QED  BY <1>6, <1>11 DEF DisplayInv, Takes, Path, Meets, Shows, IsWant

\* A step of a function.
LEMMA DriveKeepsDisplay ==
  ASSUME PanelInv, DisplayInv, Panel!Drive
  PROVE  DisplayInv'
<1>1. PICK a, c : Agrees(a) /\ Takes(todo, a, c) /\ Meets(c, want)
  BY DEF DisplayInv
<1>2. todo \in Scripts /\ todo # <<>> /\ want' = want
  BY DEF PanelInv, PanelTypeOK, Panel!Drive, Panel!SetOut, Panel!SetIn, Panel!Release, Panel!Raise,
     Panel!Lower, Panel!ReadFlag, Panel!ReadData, Panel!ReadAddress, Panel!While, Panel!Wait,
     Panel!Doing
<1>3. PICK b : Does(Head(todo), a, b) /\ Takes(Tail(todo), b, c)
  BY <1>1, <1>2, FirstOfPath
<1>4. Meets(c, want)' /\ IsWant(want)'
  BY <1>1, <1>2 DEF DisplayInv, Meets, Shows, IsWant
<1>5. CASE Panel!While /\ flag
  <2>1. todo' = Panel!BusyXLCD \o todo /\ UNCHANGED <<bus, flag, lcdData, lcd>>
    BY <1>5 DEF Panel!While
  <2>2. a.bus = Asked /\ a.answer = "known"
    BY <1>3, <1>5 DEF Panel!While, Panel!Doing, Does
  <2>3. IsLcd(a.lcd) /\ a = Known(a.lcd, Asked, "known", a.data)
    BY <1>1, <2>2 DEF Agrees
  <2>4. Takes(Panel!BusyXLCD, a, a)
    BY <2>3, BusyTakes
  <2>5. Takes(Panel!BusyXLCD \o todo, a, c)
    BY <1>1, <1>2, <2>4, FunctionsAreScripts, TakesBoth
  <2>6. Agrees(a)'
    BY <1>1, <2>1 DEF Agrees
  <2>7. Takes(todo, a, c)'
    BY <2>1, <2>5 DEF Takes, Path
  <2> QED  BY <1>4, <2>6, <2>7 DEF DisplayInv
<1>6. CASE ~(Panel!While /\ flag)
  <2>1. Agrees(b)' /\ todo' = Tail(todo)
    BY <1>1, <1>3, <1>6, StepAgrees
  <2>2. Takes(todo, b, c)'
    BY <1>3, <2>1 DEF Takes, Path
  <2> QED  BY <1>4, <2>1, <2>2 DEF DisplayInv
<1> QED  BY <1>5, <1>6

\* A function that reads nothing.
LEMMA CallKeepsDisplay ==
  ASSUME PanelInv, DisplayInv, NEW steps \in Scripts, NEW w,
         IsWant([w EXCEPT !.read = {}]), Makes(steps, [w EXCEPT !.read = {}]),
         Panel!Call(steps, w)
  PROVE  DisplayInv'
BY AskKeepsDisplay DEF Panel!Call

\* What is wanted after a call that changes one field.
LEMMA WantFields ==
  ASSUME IsWant(want)
  PROVE  /\ \A p : [[want EXCEPT !.at = p] EXCEPT !.read = {}]
                     = [mem |-> want.mem, at |-> p, cursor |-> want.cursor, read |-> {}]
         /\ \A t : [[want EXCEPT !.cursor = t] EXCEPT !.read = {}]
                     = [mem |-> want.mem, at |-> want.at, cursor |-> t, read |-> {}]
         /\ \A m, p : [[want EXCEPT !.mem = m, !.at = p] EXCEPT !.read = {}]
                     = [mem |-> m, at |-> p, cursor |-> want.cursor, read |-> {}]
         /\ [want EXCEPT !.read = {}]
              = [mem |-> want.mem, at |-> want.at, cursor |-> want.cursor, read |-> {}]
<1>1. ASSUME NEW m, NEW p, NEW t, NEW w, w = [mem |-> m, at |-> p, cursor |-> t, read |-> want.read]
      PROVE  [w EXCEPT !.read = {}] = [mem |-> m, at |-> p, cursor |-> t, read |-> {}]
  <2>1. IsWant(w) /\ w.mem = m /\ w.at = p /\ w.cursor = t
    BY <1>1 DEF IsWant
  <2> QED  BY <2>1, Forgotten
<1>2. want = [mem |-> want.mem, at |-> want.at, cursor |-> want.cursor, read |-> want.read]
  BY DEF IsWant
<1>3. ASSUME NEW p
      PROVE  [[want EXCEPT !.at = p] EXCEPT !.read = {}]
               = [mem |-> want.mem, at |-> p, cursor |-> want.cursor, read |-> {}]
  <2> DEFINE w == [want EXCEPT !.at = p]
  <2>1. w = [mem |-> want.mem, at |-> p, cursor |-> want.cursor, read |-> want.read]
    BY <1>2
  <2> HIDE DEF w
  <2>2. [w EXCEPT !.read = {}] = [mem |-> want.mem, at |-> p, cursor |-> want.cursor, read |-> {}]
    BY <1>1, <2>1
  <2> QED  BY <2>2 DEF w
<1>4. ASSUME NEW t
      PROVE  [[want EXCEPT !.cursor = t] EXCEPT !.read = {}]
               = [mem |-> want.mem, at |-> want.at, cursor |-> t, read |-> {}]
  <2> DEFINE w == [want EXCEPT !.cursor = t]
  <2>1. w = [mem |-> want.mem, at |-> want.at, cursor |-> t, read |-> want.read]
    BY <1>2
  <2> HIDE DEF w
  <2>2. [w EXCEPT !.read = {}] = [mem |-> want.mem, at |-> want.at, cursor |-> t, read |-> {}]
    BY <1>1, <2>1
  <2> QED  BY <2>2 DEF w
<1>5. ASSUME NEW m, NEW p
      PROVE  [[want EXCEPT !.mem = m, !.at = p] EXCEPT !.read = {}]
               = [mem |-> m, at |-> p, cursor |-> want.cursor, read |-> {}]
  <2> DEFINE x == [want EXCEPT !.mem = m]
             w == [x EXCEPT !.at = p]
  <2>1. x = [mem |-> m, at |-> want.at, cursor |-> want.cursor, read |-> want.read]
    BY <1>2
  <2> HIDE DEF x
  <2>2. w = [mem |-> m, at |-> p, cursor |-> want.cursor, read |-> want.read]
    BY <2>1
  <2> HIDE DEF w
  <2>3. [w EXCEPT !.read = {}] = [mem |-> m, at |-> p, cursor |-> want.cursor, read |-> {}]
    BY <1>1, <2>2
  <2> QED  BY <2>3 DEF w, x
<1>6. [want EXCEPT !.read = {}]
        = [mem |-> want.mem, at |-> want.at, cursor |-> want.cursor, read |-> {}]
  BY Forgotten
<1> QED  BY <1>3, <1>4, <1>5, <1>6

\* What a command that leaves the modes alone asks for.
AsksFor(b, top, v) ==
  /\ Command(b, top) /\ top \in {0, 3, 4, 6, 7}
  /\ top = 3 => 2 \in b /\ (0 \in b <=> 1 \in b)
  /\ top # 0 => v.mem = want.mem
  /\ top = 0 => v.mem = Panel!Erased(want.mem)
  /\ top = 7 => v.at = Panel!Dd(Panel!Value(b \ {7}))
  /\ top = 6 => v.at = Panel!Cg(Panel!Value(b \ {6}))
  /\ top = 4 => v.at = IF 2 \in b THEN Panel!After(want.at) ELSE Panel!Before(want.at)
  /\ top = 3 => v.at = want.at
  /\ top = 0 => v.at = Panel!Dd(0)
  /\ v.cursor = IF top = 3 THEN 1 \in b ELSE want.cursor

\* The display shows it once the command is done.
LEMMA CommandTurns ==
  ASSUME NEW b, NEW top, NEW v, AsksFor(b, top, v)
  PROVE  Turns(b, v)
<1> USE DEF AsksFor
<1> SUFFICES ASSUME NEW l, Shows(l, want)
             PROVE  IsLcd(Panel!Obey(l, b)) /\ Shows(Settled(Panel!Obey(l, b)), v)
  BY DEF Turns
<1>1. IsLcd(l) /\ l.mem = want.mem /\ l.at = want.at
  BY DEF Shows
<1> DEFINE o == Panel!Obey(l, b)
<1>2. Obeys(o, l, b, top)
  BY <1>1, Obeyed
<1> HIDE DEF o
<1>3. v.mem = o.mem /\ v.at = o.at
  BY <1>1, <1>2 DEF Obeys
<1>4. top \notin {2, 5}
  OBVIOUS
<1> QED  BY <1>3, <1>4, CommandShows DEF o

\* The commands that are waited for, and what they make of the display.
LEMMA CommandsTurn ==
  /\ Turns({0, 1, 4}, [mem |-> want.mem, at |-> Panel!Before(want.at), cursor |-> want.cursor, read |-> {}])
  /\ Turns({0, 1, 2, 4}, [mem |-> want.mem, at |-> Panel!After(want.at), cursor |-> want.cursor, read |-> {}])
  /\ Turns({0}, [mem |-> Panel!Erased(want.mem), at |-> Panel!Dd(0), cursor |-> want.cursor, read |-> {}])
  /\ Turns({0, 1, 2, 3}, [mem |-> want.mem, at |-> want.at, cursor |-> TRUE, read |-> {}])
  /\ Turns({2, 3}, [mem |-> want.mem, at |-> want.at, cursor |-> FALSE, read |-> {}])
  /\ Turns({6}, [mem |-> want.mem, at |-> Panel!Cg(0), cursor |-> want.cursor, read |-> {}])
  /\ \A k \in 0..127 :
       Turns(Panel!Byte(k) \cup {7}, [mem |-> want.mem, at |-> Panel!Dd(k), cursor |-> want.cursor, read |-> {}])
<1> DEFINE V(m, p, c) == [mem |-> m, at |-> p, cursor |-> c, read |-> {}]
<1>2. ASSUME NEW m, NEW p, NEW c PROVE V(m, p, c).mem = m /\ V(m, p, c).at = p /\ V(m, p, c).cursor = c
  OBVIOUS
<1>3. Turns({0, 1, 4}, V(want.mem, Panel!Before(want.at), want.cursor))
  <2> DEFINE b == {0, 1, 4}
             v == V(want.mem, Panel!Before(want.at), want.cursor)
  <2>1. Command(b, 4) /\ 2 \notin b
    BY DEF Command
  <2>2. v.mem = want.mem /\ v.at = Panel!Before(want.at) /\ v.cursor = want.cursor
    OBVIOUS
  <2> HIDE DEF b, v
  <2>3. AsksFor(b, 4, v)
    BY <2>1, <2>2 DEF AsksFor
  <2>4. Turns(b, v)
    BY <2>3, CommandTurns
  <2> QED  BY <2>4 DEF b, v
<1>4. Turns({0, 1, 2, 4}, V(want.mem, Panel!After(want.at), want.cursor))
  <2> DEFINE b == {0, 1, 2, 4}
             v == V(want.mem, Panel!After(want.at), want.cursor)
  <2>1. Command(b, 4) /\ 2 \in b
    BY DEF Command
  <2>2. v.mem = want.mem /\ v.at = Panel!After(want.at) /\ v.cursor = want.cursor
    OBVIOUS
  <2> HIDE DEF b, v
  <2>3. AsksFor(b, 4, v)
    BY <2>1, <2>2 DEF AsksFor
  <2>4. Turns(b, v)
    BY <2>3, CommandTurns
  <2> QED  BY <2>4 DEF b, v
<1>5. Turns({0}, V(Panel!Erased(want.mem), Panel!Dd(0), want.cursor))
  <2> DEFINE b == {0}
             v == V(Panel!Erased(want.mem), Panel!Dd(0), want.cursor)
  <2>1. Command(b, 0)
    BY DEF Command
  <2>2. v.mem = Panel!Erased(want.mem) /\ v.at = Panel!Dd(0) /\ v.cursor = want.cursor
    OBVIOUS
  <2> HIDE DEF b, v
  <2>3. AsksFor(b, 0, v)
    BY <2>1, <2>2 DEF AsksFor
  <2>4. Turns(b, v)
    BY <2>3, CommandTurns
  <2> QED  BY <2>4 DEF b, v
<1>6. Turns({0, 1, 2, 3}, V(want.mem, want.at, TRUE))
  <2> DEFINE b == {0, 1, 2, 3}
             v == V(want.mem, want.at, TRUE)
  <2>1. Command(b, 3) /\ 0 \in b /\ 2 \in b /\ (1 \in b) = TRUE
    BY DEF Command
  <2>2. v.mem = want.mem /\ v.at = want.at /\ v.cursor = TRUE
    OBVIOUS
  <2> HIDE DEF b, v
  <2>3. v.cursor = (1 \in b)
    BY <2>1, <2>2
  <2>4. AsksFor(b, 3, v)
    BY <2>1, <2>2, <2>3 DEF AsksFor
  <2>5. Turns(b, v)
    BY <2>4, CommandTurns
  <2> QED  BY <2>5 DEF b, v
<1>7. Turns({2, 3}, V(want.mem, want.at, FALSE))
  <2> DEFINE b == {2, 3}
             v == V(want.mem, want.at, FALSE)
  <2>1. Command(b, 3) /\ 0 \notin b /\ 2 \in b /\ (1 \in b) = FALSE
    BY DEF Command
  <2>2. v.mem = want.mem /\ v.at = want.at /\ v.cursor = FALSE
    OBVIOUS
  <2> HIDE DEF b, v
  <2>3. v.cursor = (1 \in b)
    BY <2>1, <2>2
  <2>4. AsksFor(b, 3, v)
    BY <2>1, <2>2, <2>3 DEF AsksFor
  <2>5. Turns(b, v)
    BY <2>4, CommandTurns
  <2> QED  BY <2>5 DEF b, v
<1>8. Turns({6}, V(want.mem, Panel!Cg(0), want.cursor))
  <2> DEFINE b == {6}
             v == V(want.mem, Panel!Cg(0), want.cursor)
  <2>1. Command(b, 6)
    BY DEF Command
  <2>2. b \ {6} = {} /\ Panel!Value({}) = 0
    BY DEF Panel!Value
  <2>3. v.mem = want.mem /\ v.at = Panel!Cg(0) /\ v.cursor = want.cursor
    OBVIOUS
  <2> HIDE DEF b, v
  <2>4. AsksFor(b, 6, v)
    BY <2>1, <2>2, <2>3 DEF AsksFor
  <2>5. Turns(b, v)
    BY <2>4, CommandTurns
  <2> QED  BY <2>5 DEF b, v
<1>9. ASSUME NEW k \in 0..127
      PROVE  Turns(Panel!Byte(k) \cup {7}, V(want.mem, Panel!Dd(k), want.cursor))
  <2> DEFINE b == Panel!Byte(k) \cup {7}
             v == V(want.mem, Panel!Dd(k), want.cursor)
  <2>1. Command(b, 7)
    BY DEF Command, Panel!Byte
  <2>2. Panel!Value(b \ {7}) = k
    BY AddressArrives
  <2>3. v.mem = want.mem /\ v.at = Panel!Dd(k) /\ v.cursor = want.cursor
    OBVIOUS
  <2> HIDE DEF b, v
  <2>4. AsksFor(b, 7, v)
    BY <2>1, <2>2, <2>3 DEF AsksFor
  <2>5. Turns(b, v)
    BY <2>4, CommandTurns
  <2> QED  BY <2>5 DEF b, v
<1> QED  BY <1>3, <1>4, <1>5, <1>6, <1>7, <1>8, <1>9

\* One character.
LEMMA CharacterMakes ==
  ASSUME IsWant(want), NEW b \in PinBytes
  PROVE  LET v == [Panel!Written(want, <<b>>) EXCEPT !.read = {}]
         IN  Makes(Panel!WriteDataXLCD(b), v) /\ IsWant(v)
<1> DEFINE u == Panel!Written(want, <<b>>)
           v == [u EXCEPT !.read = {}]
<1>1. u = Wrote(want, b)
  <2>1. ASSUME NEW str, Len(str) = 1
        PROVE  Panel!Written(want, str) = Wrote(want, str[1])
    <3>1. PICK k \in Nat : k = Len(str)
      BY <2>1
    <3>2. PICK after : /\ after[0] = want /\ after[k] = Panel!Written(want, str)
                       /\ \A i \in 1..k : after[i] = Wrote(after[i - 1], str[i])
      BY <3>1, WrittenSteps
    <3>3. k = 1
      BY <2>1, <3>1
    <3>4. after[1] = Wrote(after[1 - 1], str[1]) /\ 1 - 1 = 0
      BY <3>2, <3>3
    <3> QED  BY <3>2, <3>3, <3>4
  <2>2. Len(<<b>>) = 1 /\ <<b>>[1] = b
    OBVIOUS
  <2> QED  BY <2>1, <2>2
<1>2. IsWant(u)
  BY <1>1, OneWritten DEF IsWant
<1> HIDE DEF u
<1>3. v = [mem |-> u.mem, at |-> u.at, cursor |-> u.cursor, read |-> {}]
  BY <1>2, Forgotten
<1> HIDE DEF v
<1>4. IsWant(v) /\ v.mem = u.mem /\ v.at = u.at /\ v.cursor = u.cursor /\ v.read = {}
  BY <1>3 DEF IsWant
<1>5. Makes(Panel!WriteDataXLCD(b), v)
  <2> SUFFICES ASSUME NEW a, Shows(a.lcd, want), a.lcd.busy = "no", a.answer = "old"
               PROVE  \E c : Takes(Panel!WriteDataXLCD(b), a, c) /\ Meets(c, v)
    BY DEF Makes
  <2>1. PICK c : Takes(Panel!WriteDataXLCD(b), a, c) /\ Shows(c.lcd, Wrote(want, b))
    BY CharacterTakes
  <2>2. Shows(c.lcd, u)
    BY <1>1, <2>1
  <2>3. Meets(c, v)
    BY <1>4, <2>2 DEF Meets, Shows
  <2> QED  BY <2>1, <2>3
<1> QED  BY <1>4, <1>5 DEF u, v

\* Every call.
LEMMA CallsKeepDisplay ==
  ASSUME PanelInv, DisplayInv,
         \/ Panel!XLCD_PUTS \/ Panel!XLCD_PUTC \/ Panel!XLCD_LINE1 \/ Panel!XLCD_LINE2
         \/ Panel!XLCD_SETPOS \/ Panel!XLCD_SHIFT_LEFT \/ Panel!XLCD_SHIFT_RIGHT
         \/ Panel!XLCD_CLEAR \/ Panel!CursorOn \/ Panel!CursorOff \/ Panel!SetGenerator
         \/ Panel!GetData \/ Panel!GetAddr
  PROVE  DisplayInv'
<1> DEFINE V(m, p, c) == [mem |-> m, at |-> p, cursor |-> c, read |-> {}]
<1>1. IsWant(want)
  BY DEF DisplayInv
<1>2. ASSUME NEW m, NEW p, NEW c PROVE IsWant(V(m, p, c)) /\ V(m, p, c).read = {}
  BY DEF IsWant
<1>3. ASSUME NEW steps \in Scripts, NEW m, NEW p, NEW c, Makes(steps, V(m, p, c)),
             Panel!Ask(steps, V(m, p, c))
      PROVE  DisplayInv'
  <2> DEFINE v == V(m, p, c)
  <2>1. IsWant(v) /\ Makes(steps, v) /\ Panel!Ask(steps, v)
    BY <1>2, <1>3
  <2> HIDE DEF v
  <2> QED  BY <2>1, AskKeepsDisplay
<1>4. ASSUME NEW b, b \in PinBytes, NEW m, NEW p, NEW c, Turns(b, V(m, p, c))
      PROVE  /\ Makes(Panel!WriteCmdXLCD(b), V(m, p, c))
             /\ Makes(Panel!Write(0, b) \o <<Panel!Do("release")>> \o Panel!XLCD_BUSY_WAIT, V(m, p, c))
             /\ Makes(Panel!WriteCmdXLCD(b) \o <<Panel!Delay({"long", "short"})>>, V(m, p, c))
  <2> DEFINE v == V(m, p, c)
  <2>1. v.read = {} /\ Turns(b, v)
    BY <1>2, <1>4
  <2> HIDE DEF v
  <2>2. /\ Makes(Panel!WriteCmdXLCD(b), v)
        /\ Makes(Panel!Write(0, b) \o <<Panel!Do("release")>> \o Panel!XLCD_BUSY_WAIT, v)
        /\ Makes(Panel!WriteCmdXLCD(b) \o <<Panel!Delay({"long", "short"})>>, v)
    BY <1>4, <2>1, CommandMakes
  <2> QED  BY <2>2 DEF v
<1>5. ASSUME NEW k \in 0..127, Panel!Call(Panel!SetDDRamAddr(k), [want EXCEPT !.at = Panel!Dd(k)])
      PROVE  DisplayInv'
  <2> DEFINE v == V(want.mem, Panel!Dd(k), want.cursor)
  <2>1. Turns(Panel!Byte(k) \cup {7}, v)
    BY CommandsTurn
  <2>2. [[want EXCEPT !.at = Panel!Dd(k)] EXCEPT !.read = {}] = v
    BY <1>1, WantFields
  <2>3. v.read = {}
    OBVIOUS
  <2>4. Panel!Ask(Panel!SetDDRamAddr(k), v)
    BY <1>5, <2>2 DEF Panel!Call
  <2>5. Makes(Panel!SetDDRamAddr(k), v)
    <3> HIDE DEF v
    <3> QED  BY <2>1, <2>3, AddressMakes
  <2> QED  BY <1>3, <2>4, <2>5, FunctionsAreScripts
<1>6. CASE Panel!XLCD_PUTS
  <2>1. PICK str \in Strings : Panel!Call(Panel!PutsXLCD(str), Panel!Written(want, str))
    BY <1>6 DEF Panel!XLCD_PUTS
  <2>2. str \in Seq(PinBytes) /\ str # <<>>
    BY StringsAssumption DEF PinBytes
  <2>3. Panel!PutsXLCD(str) \in Scripts
    BY <2>2, TextIsScript
  <2> DEFINE v == [Panel!Written(want, str) EXCEPT !.read = {}]
  <2>4. Makes(Panel!PutsXLCD(str), v) /\ IsWant(v)
    BY <1>1, <2>2, TextMakes
  <2>5. Panel!Ask(Panel!PutsXLCD(str), v)
    BY <2>1 DEF Panel!Call
  <2> HIDE DEF v
  <2> QED  BY <2>3, <2>4, <2>5, AskKeepsDisplay
<1>7. CASE Panel!XLCD_PUTC
  <2>1. PICK str \in Strings : Panel!Call(Panel!WriteDataXLCD(str[1]), Panel!Written(want, <<str[1]>>))
    BY <1>7 DEF Panel!XLCD_PUTC
  <2>2. str[1] \in PinBytes
    <3>1. str \in Seq(PinBytes) /\ str # <<>>
      BY StringsAssumption DEF PinBytes
    <3> QED  BY <3>1
  <2> DEFINE b == str[1]
             v == [Panel!Written(want, <<b>>) EXCEPT !.read = {}]
  <2>3. Panel!WriteDataXLCD(b) \in Scripts
    BY <2>2, FunctionsAreScripts
  <2>4. Makes(Panel!WriteDataXLCD(b), v) /\ IsWant(v)
    BY <1>1, <2>2, CharacterMakes
  <2>5. Panel!Ask(Panel!WriteDataXLCD(b), v)
    BY <2>1 DEF Panel!Call
  <2> HIDE DEF v
  <2> QED  BY <2>3, <2>4, <2>5, AskKeepsDisplay
<1>8. CASE Panel!XLCD_LINE1 \/ Panel!XLCD_LINE2 \/ Panel!XLCD_SETPOS
  <2>1. 0 \in 0..127 /\ ROW2 \in 0..127 /\ \A pos \in Positions : pos \in 0..127
    BY PanelAssumption
  <2> QED  BY <1>5, <1>8, <2>1 DEF Panel!XLCD_LINE1, Panel!XLCD_LINE2, Panel!XLCD_SETPOS
<1>9. CASE Panel!XLCD_SHIFT_LEFT
  <2> DEFINE v == V(want.mem, Panel!Before(want.at), want.cursor)
  <2>1. {0, 1, 4} \in PinBytes /\ Panel!SHIFT_CUR_LEFT = {0, 1, 4}
    BY Commands DEF PinBytes
  <2>2. [[want EXCEPT !.at = Panel!Before(want.at)] EXCEPT !.read = {}] = v
    BY <1>1, WantFields
  <2>3. [want EXCEPT !.at = Panel!Before(@)] = [want EXCEPT !.at = Panel!Before(want.at)]
    OBVIOUS
  <2>4. Panel!Ask(Panel!WriteCmdXLCD({0, 1, 4}), v)
    BY <1>9, <2>1, <2>2, <2>3 DEF Panel!XLCD_SHIFT_LEFT, Panel!Call
  <2>5. Makes(Panel!WriteCmdXLCD({0, 1, 4}), v)
    BY <1>4, <2>1, CommandsTurn
  <2>6. Panel!WriteCmdXLCD({0, 1, 4}) \in Scripts
    BY <2>1, FunctionsAreScripts
  <2> QED  BY <1>3, <2>4, <2>5, <2>6
<1>10. CASE Panel!XLCD_SHIFT_RIGHT
  <2> DEFINE v == V(want.mem, Panel!After(want.at), want.cursor)
  <2>1. {0, 1, 2, 4} \in PinBytes /\ Panel!SHIFT_CUR_RIGHT = {0, 1, 2, 4}
    BY Commands DEF PinBytes
  <2>2. [[want EXCEPT !.at = Panel!After(want.at)] EXCEPT !.read = {}] = v
    BY <1>1, WantFields
  <2>3. [want EXCEPT !.at = Panel!After(@)] = [want EXCEPT !.at = Panel!After(want.at)]
    OBVIOUS
  <2>4. Panel!Ask(Panel!WriteCmdXLCD({0, 1, 2, 4}), v)
    BY <1>10, <2>1, <2>2, <2>3 DEF Panel!XLCD_SHIFT_RIGHT, Panel!Call
  <2>5. Makes(Panel!WriteCmdXLCD({0, 1, 2, 4}), v)
    BY <1>4, <2>1, CommandsTurn
  <2>6. Panel!WriteCmdXLCD({0, 1, 2, 4}) \in Scripts
    BY <2>1, FunctionsAreScripts
  <2> QED  BY <1>3, <2>4, <2>5, <2>6
<1>11. CASE Panel!XLCD_CLEAR
  <2> DEFINE v == V(Panel!Erased(want.mem), Panel!Dd(0), want.cursor)
             steps == Panel!WriteCmdXLCD({0}) \o <<Panel!Delay({"long", "short"})>>
  <2>1. {0} \in PinBytes /\ Panel!CLEAR_XLCD = {0}
    BY Commands DEF PinBytes
  <2>2. [[want EXCEPT !.mem = Panel!Erased(want.mem), !.at = Panel!Dd(0)] EXCEPT !.read = {}] = v
    BY <1>1, WantFields
  <2>3. [want EXCEPT !.mem = Panel!Erased(@), !.at = Panel!Dd(0)]
          = [want EXCEPT !.mem = Panel!Erased(want.mem), !.at = Panel!Dd(0)]
    OBVIOUS
  <2>4. Panel!Ask(steps, v)
    BY <1>11, <2>1, <2>2, <2>3 DEF Panel!XLCD_CLEAR, Panel!Call
  <2>5. Makes(steps, v)
    BY <1>4, <2>1, CommandsTurn
  <2>6. steps \in Scripts
    <3>1. Panel!WriteCmdXLCD({0}) \in Scripts /\ <<Panel!Delay({"long", "short"})>> \in Scripts
      BY <2>1, FunctionsAreScripts DEF Scripts, PinSteps, Panel!Delay
    <3> QED  BY <3>1 DEF Scripts
  <2> HIDE DEF steps
  <2> QED  BY <1>3, <2>4, <2>5, <2>6
<1>12. CASE Panel!CursorOn
  <2> DEFINE v == V(want.mem, want.at, TRUE)
  <2>1. {0, 1, 2, 3} \in PinBytes /\ Panel!DON \cap Panel!CURSOR_ON \cap Panel!BLINK_ON = {0, 1, 2, 3}
    BY Commands DEF PinBytes
  <2>2. [[want EXCEPT !.cursor = TRUE] EXCEPT !.read = {}] = v
    BY <1>1, WantFields
  <2>3. Panel!Ask(Panel!WriteCmdXLCD({0, 1, 2, 3}), v)
    BY <1>12, <2>1, <2>2 DEF Panel!CursorOn, Panel!Call
  <2>4. Makes(Panel!WriteCmdXLCD({0, 1, 2, 3}), v)
    BY <1>4, <2>1, CommandsTurn
  <2>5. Panel!WriteCmdXLCD({0, 1, 2, 3}) \in Scripts
    BY <2>1, FunctionsAreScripts
  <2> QED  BY <1>3, <2>3, <2>4, <2>5
<1>13. CASE Panel!CursorOff
  <2> DEFINE v == V(want.mem, want.at, FALSE)
  <2>1. {2, 3} \in PinBytes /\ Panel!DON \cap Panel!CURSOR_OFF \cap Panel!BLINK_OFF = {2, 3}
    BY Commands DEF PinBytes
  <2>2. [[want EXCEPT !.cursor = FALSE] EXCEPT !.read = {}] = v
    BY <1>1, WantFields
  <2>3. Panel!Ask(Panel!WriteCmdXLCD({2, 3}), v)
    BY <1>13, <2>1, <2>2 DEF Panel!CursorOff, Panel!Call
  <2>4. Makes(Panel!WriteCmdXLCD({2, 3}), v)
    BY <1>4, <2>1, CommandsTurn
  <2>5. Panel!WriteCmdXLCD({2, 3}) \in Scripts
    BY <2>1, FunctionsAreScripts
  <2> QED  BY <1>3, <2>3, <2>4, <2>5
<1>14. CASE Panel!SetGenerator
  <2> DEFINE v == V(want.mem, Panel!Cg(0), want.cursor)
  <2>1. {6} \in PinBytes /\ (Panel!Byte(0) \ {7}) \cup {6} = {6}
    BY Commands DEF PinBytes
  <2>2. [[want EXCEPT !.at = Panel!Cg(0)] EXCEPT !.read = {}] = v
    BY <1>1, WantFields
  <2>3. Panel!Ask(Panel!SetCGRamAddr(0), v)
    BY <1>14, <2>2 DEF Panel!SetGenerator, Panel!Call
  <2>4. Panel!SetCGRamAddr(0) = Panel!Write(0, {6}) \o <<Panel!Do("release")>> \o Panel!XLCD_BUSY_WAIT
    BY <2>1 DEF Panel!SetCGRamAddr
  <2>5. Makes(Panel!Write(0, {6}) \o <<Panel!Do("release")>> \o Panel!XLCD_BUSY_WAIT, v)
    BY <1>4, <2>1, CommandsTurn
  <2>6. Makes(Panel!SetCGRamAddr(0), v)
    BY <2>4, <2>5
  <2> QED  BY <1>3, <2>3, <2>6, FunctionsAreScripts
<1>15. CASE Panel!GetData
  <2> DEFINE v == [want EXCEPT !.at = Panel!After(want.at), !.read = {want.mem[want.at]}]
  <2>1. v = [mem |-> want.mem, at |-> Panel!After(want.at), cursor |-> want.cursor,
             read |-> {want.mem[want.at]}]
    <3> DEFINE byte == {want.mem[want.at]}
               w == [want EXCEPT !.at = Panel!After(want.at)]
    <3>1. w = [mem |-> want.mem, at |-> Panel!After(want.at), cursor |-> want.cursor, read |-> want.read]
      BY <1>1 DEF IsWant
    <3> HIDE DEF byte, w
    <3>2. IsWant(w) /\ w.mem = want.mem /\ w.at = Panel!After(want.at) /\ w.cursor = want.cursor
      BY <3>1 DEF IsWant
    <3>3. [w EXCEPT !.read = byte]
            = [mem |-> want.mem, at |-> Panel!After(want.at), cursor |-> want.cursor, read |-> byte]
      BY <3>2, Forgotten
    <3> QED  BY <3>3 DEF byte, w
  <2>2. Panel!Ask(Panel!ReadDataXLCD, v)
    BY <1>15 DEF Panel!GetData
  <2>3. Makes(Panel!ReadDataXLCD, v)
    BY <1>1, ReadMakes
  <2> HIDE DEF v
  <2>4. IsWant(v)
    BY <2>1 DEF IsWant
  <2> QED  BY <2>2, <2>3, <2>4, AskKeepsDisplay, FunctionsAreScripts
<1>16. CASE Panel!GetAddr
  <2> DEFINE v == V(want.mem, want.at, want.cursor)
  <2>1. [want EXCEPT !.read = {}] = v
    BY <1>1, WantFields
  <2>2. Panel!Ask(Panel!ReadAddrXLCD, v)
    BY <1>16, <2>1 DEF Panel!GetAddr, Panel!Call
  <2>3. Makes(Panel!ReadAddrXLCD, v)
    <3>1. v.read = {} /\ v.mem = want.mem /\ v.at = want.at /\ v.cursor = want.cursor
      OBVIOUS
    <3> HIDE DEF v
    <3> QED  BY <3>1, AddrMakes
  <2> QED  BY <1>3, <2>2, <2>3, FunctionsAreScripts
<1> QED  BY <1>6, <1>7, <1>8, <1>9, <1>10, <1>11, <1>12, <1>13, <1>14, <1>15, <1>16

\* A command of the opening.
LEMMA CommandReaches ==
  ASSUME NEW a, IsLcd(a.lcd), a.lcd.busy = "no", a.answer = "old", NEW b, NEW top,
         Command(b, top), top # 7
  PROVE  \E c : /\ Takes(Panel!WriteCmdXLCD(b), a, c) /\ Obeys(c.lcd, a.lcd, b, top)
                /\ c.lcd.busy = "no" /\ c.answer = "old" /\ c.data = a.data
<1> DEFINE o == Panel!Obey(a.lcd, b)
           s == Settled(o)
           c == Known(s, Asked, "old", a.data)
<1>1. Obeys(o, a.lcd, b, top) /\ b \in PinBytes
  BY Obeyed DEF Command, PinBytes
<1>2. IsLcd(o)
  BY <1>1 DEF Obeys
<1>3. Takes(Panel!WriteCmdXLCD(b), a, c)
  BY <1>1, <1>2, CommandTakes
<1> HIDE DEF o
<1>4. /\ IsLcd(s) /\ s.busy = "no" /\ s.mem = o.mem /\ s.at = o.at /\ s.incr = o.incr
      /\ s.eight = o.eight /\ s.two = o.two /\ s.on = o.on /\ s.cursor = o.cursor
      /\ s.blink = o.blink
  BY <1>2, SettledIsLcd
<1> HIDE DEF s
<1>5. Obeys(s, a.lcd, b, top)
  BY <1>1, <1>4 DEF Obeys
<1>6. c.lcd = s /\ c.answer = "old" /\ c.data = a.data
  BY DEF Known
<1> HIDE DEF c
<1> QED  BY <1>3, <1>4, <1>5, <1>6

\* SysInit opens the display, which then has the modes and is blank.
LEMMA DisplayStarts == Panel!Init => DisplayInv
<1> SUFFICES ASSUME Panel!Init PROVE DisplayInv
  OBVIOUS
<1> DEFINE none == [cell \in Panel!Cells |-> {}]
           por == Panel!Delay({"reset", "long", "short"})
           low == Panel!Out(0, {})
           a0 == Known(lcd, bus, "old", {})
           a1 == Known(Settled(lcd), bus, "old", {})
           a2 == Known(Settled(lcd), Pins("out", {}, 0, 0, 0), "old", {})
           W(b) == Panel!WriteCmdXLCD(b)
<1>1. /\ IsLcd(lcd) /\ lcd.mem = none /\ lcd.busy = "reset" /\ lcdData = {}
      /\ want = [mem |-> Panel!Erased(none), at |-> Panel!Dd(0), cursor |-> FALSE, read |-> {}]
  BY DEF Panel!Init, IsLcd
<1> HIDE DEF none
<1>2. IsLcd(Settled(lcd)) /\ Settled(lcd).mem = none /\ Settled(lcd).busy = "no"
  BY <1>1, SettledIsLcd
<1>3. IsWant(want) /\ want.mem = Panel!Erased(none) /\ want.at = Panel!Dd(0) /\ want.cursor = FALSE
      /\ want.read = {}
  BY <1>1 DEF IsWant
<1>4. Agrees(a0)
  <2>1. a0.lcd = lcd /\ a0.bus = bus /\ a0.answer = "old" /\ a0.data = {}
    BY DEF Known
  <2>2. a0 = Known(a0.lcd, a0.bus, a0.answer, a0.data)
    BY <2>1
  <2> HIDE DEF a0
  <2> QED  BY <1>1, <2>1, <2>2 DEF Agrees
<1>5. Takes(<<por>>, a0, a1)
  <2>1. por.do = "delay" /\ por.ends = {"reset", "long", "short"}
    BY DEF Panel!Delay
  <2>2. a0.lcd = lcd /\ a0.bus = bus /\ a0.answer = "old" /\ a0.data = {}
    BY DEF Known
  <2> HIDE DEF por, a0
  <2>3. a1 = Known(IF a0.lcd.busy \in por.ends THEN Settled(a0.lcd) ELSE a0.lcd, a0.bus, a0.answer, a0.data)
    BY <1>1, <2>1, <2>2
  <2> HIDE DEF a1
  <2>4. Does(por, a0, a1)
    BY <2>1, <2>3 DEF Does
  <2> QED  BY <2>4, TakesOne
<1>6. Takes(<<low>>, a1, a2)
  <2>1. Does(low, a1, a2)
    BY DEF Does, Panel!Out, Known
  <2> HIDE DEF low, a1, a2
  <2> QED  BY <2>1, TakesOne
<1>7. a2.lcd = Settled(lcd) /\ a2.answer = "old" /\ a2.data = {}
  BY DEF Known
<1> HIDE DEF a0, a1, a2
<1>8. PICK a3 : /\ Takes(W({3, 4, 5}), a2, a3) /\ Obeys(a3.lcd, a2.lcd, {3, 4, 5}, 5)
                /\ a3.lcd.busy = "no" /\ a3.answer = "old" /\ a3.data = {}
  <2>1. Command({3, 4, 5}, 5) /\ 5 # 7
    BY DEF Command
  <2> QED  BY <1>2, <1>7, <2>1, CommandReaches
<1>9. IsLcd(a3.lcd) /\ a3.lcd.mem = none /\ a3.lcd.eight = TRUE /\ a3.lcd.two = TRUE
  <2> DEFINE b == {3, 4, 5}
  <2>1. (4 \in b) = TRUE /\ (3 \in b) = TRUE
    OBVIOUS
  <2>2. Obeys(a3.lcd, a2.lcd, b, 5)
    BY <1>8
  <2> HIDE DEF b
  <2>3. IsLcd(a3.lcd) /\ a3.lcd.mem = a2.lcd.mem
    BY <2>2 DEF Obeys
  <2>4. a3.lcd.eight = (4 \in b) /\ a3.lcd.two = (3 \in b)
    BY <2>2 DEF Obeys
  <2> QED  BY <1>2, <1>7, <2>1, <2>3, <2>4
<1>10. PICK a4 : /\ Takes(W({1, 2, 3}), a3, a4) /\ Obeys(a4.lcd, a3.lcd, {1, 2, 3}, 3)
                 /\ a4.lcd.busy = "no" /\ a4.answer = "old" /\ a4.data = {}
  <2>1. Command({1, 2, 3}, 3) /\ 3 # 7
    BY DEF Command
  <2> QED  BY <1>8, <1>9, <2>1, CommandReaches
<1>11. IsLcd(a4.lcd) /\ a4.lcd.mem = none /\ a4.lcd.eight = TRUE /\ a4.lcd.two = TRUE
  BY <1>9, <1>10 DEF Obeys
<1>12. PICK a5 : /\ Takes(W({0}), a4, a5) /\ Obeys(a5.lcd, a4.lcd, {0}, 0)
                 /\ a5.lcd.busy = "no" /\ a5.answer = "old" /\ a5.data = {}
  <2>1. Command({0}, 0) /\ 0 # 7
    BY DEF Command
  <2> QED  BY <1>10, <1>11, <2>1, CommandReaches
<1>13. /\ IsLcd(a5.lcd) /\ a5.lcd.mem = Panel!Erased(none) /\ a5.lcd.at = Panel!Dd(0)
       /\ a5.lcd.eight = TRUE /\ a5.lcd.two = TRUE /\ a5.lcd.incr = TRUE
  BY <1>11, <1>12 DEF Obeys
<1>14. PICK a6 : /\ Takes(W({1, 2}), a5, a6) /\ Obeys(a6.lcd, a5.lcd, {1, 2}, 2)
                 /\ a6.lcd.busy = "no" /\ a6.answer = "old" /\ a6.data = {}
  <2>1. Command({1, 2}, 2) /\ 2 # 7
    BY DEF Command
  <2> QED  BY <1>12, <1>13, <2>1, CommandReaches
<1>15. /\ IsLcd(a6.lcd) /\ a6.lcd.mem = Panel!Erased(none) /\ a6.lcd.at = Panel!Dd(0)
       /\ a6.lcd.eight = TRUE /\ a6.lcd.two = TRUE /\ a6.lcd.incr = TRUE
  <2> DEFINE b == {1, 2}
  <2>1. (1 \in b) = TRUE
    OBVIOUS
  <2>2. Obeys(a6.lcd, a5.lcd, b, 2)
    BY <1>14
  <2> HIDE DEF b
  <2>3. /\ IsLcd(a6.lcd) /\ a6.lcd.mem = a5.lcd.mem /\ a6.lcd.at = a5.lcd.at
        /\ a6.lcd.eight = a5.lcd.eight /\ a6.lcd.two = a5.lcd.two
    BY <2>2 DEF Obeys
  <2>4. a6.lcd.incr = (1 \in b)
    BY <2>2 DEF Obeys
  <2> QED  BY <1>13, <2>1, <2>3, <2>4
<1>16. PICK a7 : /\ Takes(Panel!XLCD_BUSY_WAIT, a6, a7)
                 /\ a7.lcd = a6.lcd /\ a7.answer = "old" /\ a7.data = {}
  <2> DEFINE a7 == Known(Settled(a6.lcd), Asked, "old", a6.data)
  <2>1. Takes(Panel!XLCD_BUSY_WAIT, a6, a7)
    BY <1>15, WaitTakes
  <2>2. Settled(a6.lcd) = a6.lcd
    BY <1>14, <1>15, SettledIsLcd
  <2>3. a7.lcd = a6.lcd /\ a7.answer = "old" /\ a7.data = {}
    BY <1>14, <2>2 DEF Known
  <2> HIDE DEF a7
  <2> QED  BY <2>1, <2>3
<1>17. PICK a8 : /\ Takes(W({2, 3}), a7, a8) /\ Obeys(a8.lcd, a7.lcd, {2, 3}, 3)
                 /\ a8.data = {}
  <2>1. Command({2, 3}, 3) /\ 3 # 7
    BY DEF Command
  <2>2. IsLcd(a7.lcd) /\ a7.lcd.busy = "no"
    BY <1>14, <1>15, <1>16
  <2> QED  BY <1>16, <2>1, <2>2, CommandReaches
<1>18. Meets(a8, want)
  <2>1. (2 \in {2, 3}) = TRUE /\ (1 \in {2, 3}) = FALSE /\ (0 \in {2, 3}) = FALSE
    OBVIOUS
  <2>2. /\ IsLcd(a8.lcd) /\ a8.lcd.mem = Panel!Erased(none) /\ a8.lcd.at = Panel!Dd(0)
        /\ a8.lcd.eight = TRUE /\ a8.lcd.two = TRUE /\ a8.lcd.incr = TRUE
    BY <1>15, <1>16, <1>17 DEF Obeys
  <2>3. a8.lcd.on = TRUE /\ a8.lcd.cursor = FALSE /\ a8.lcd.blink = FALSE
    BY <1>17, <2>1 DEF Obeys
  <2> QED  BY <1>3, <2>2, <2>3 DEF Meets, Shows
\* The script, and what it takes the display to.
<1>19. /\ <<por>> \in Scripts /\ <<low>> \in Scripts /\ Panel!XLCD_BUSY_WAIT \in Scripts
       /\ W({3, 4, 5}) \in Scripts /\ W({1, 2, 3}) \in Scripts /\ W({0}) \in Scripts
       /\ W({1, 2}) \in Scripts /\ W({2, 3}) \in Scripts
  <2>1. /\ {3, 4, 5} \in PinBytes /\ {1, 2, 3} \in PinBytes /\ {0} \in PinBytes
        /\ {1, 2} \in PinBytes /\ {2, 3} \in PinBytes /\ {} \in PinBytes
    BY DEF PinBytes
  <2>2. <<por>> \in Scripts /\ <<low>> \in Scripts
    BY <2>1 DEF Scripts, PinSteps, Panel!Delay, Panel!Out
  <2> QED  BY <2>1, <2>2, FunctionsAreScripts
<1>20. todo = <<por>> \o <<low>> \o W({3, 4, 5}) \o W({1, 2, 3}) \o W({0}) \o W({1, 2})
              \o Panel!XLCD_BUSY_WAIT \o W({2, 3})
  <2>1. todo = Panel!OpenXLCD({3, 4, 5}) \o Panel!XLCD_BUSY_WAIT \o W({2, 3})
    BY Commands DEF Panel!Init
  <2>2. Panel!OpenXLCD({3, 4, 5})
          = <<por>> \o <<low>> \o W({3, 4, 5}) \o W({1, 2, 3}) \o W({0}) \o W({1, 2})
    BY Commands DEF Panel!OpenXLCD, Panel!DelayPORXLCD
  <2> QED  BY <2>1, <2>2
<1> HIDE DEF por, low, W
<1>21. \A s, t \in Scripts : s \o t \in Scripts
  BY DEF Scripts
<1>22. Takes(todo, a0, a8)
  <2> DEFINE s1 == <<por>> \o <<low>>
             s2 == s1 \o W({3, 4, 5})
             s3 == s2 \o W({1, 2, 3})
             s4 == s3 \o W({0})
             s5 == s4 \o W({1, 2})
             s6 == s5 \o Panel!XLCD_BUSY_WAIT
  <2>1. s1 \in Scripts /\ Takes(s1, a0, a2)
    BY <1>5, <1>6, <1>19, <1>21, TakesBoth
  <2> HIDE DEF s1
  <2>2. s2 \in Scripts /\ Takes(s2, a0, a3)
    BY <1>8, <1>19, <1>21, <2>1, TakesBoth
  <2> HIDE DEF s2
  <2>3. s3 \in Scripts /\ Takes(s3, a0, a4)
    BY <1>10, <1>19, <1>21, <2>2, TakesBoth
  <2> HIDE DEF s3
  <2>4. s4 \in Scripts /\ Takes(s4, a0, a5)
    BY <1>12, <1>19, <1>21, <2>3, TakesBoth
  <2> HIDE DEF s4
  <2>5. s5 \in Scripts /\ Takes(s5, a0, a6)
    BY <1>14, <1>19, <1>21, <2>4, TakesBoth
  <2> HIDE DEF s5
  <2>6. s6 \in Scripts /\ Takes(s6, a0, a7)
    BY <1>16, <1>19, <1>21, <2>5, TakesBoth
  <2> HIDE DEF s6
  <2>7. Takes(s6 \o W({2, 3}), a0, a8)
    BY <1>17, <1>19, <2>6, TakesBoth
  <2> QED  BY <1>20, <2>7 DEF s1, s2, s3, s4, s5, s6
<1> QED  BY <1>3, <1>4, <1>18, <1>22 DEF DisplayInv

\* xlcd/: for every text and every position, and however slow the controller is, the
\* display holds what the calls so far ask for whenever no function is running: no
\* command comes while it is busy, and every bit of each arrives.
THEOREM DisplayShowsWhatIsWritten == Spec => []ShowsWhatIsWritten
<1>1. Init => DisplayInv
  BY DisplayStarts DEF Init
<1>2. PanelInv /\ DisplayInv /\ [Next]_vars => DisplayInv'
  <2> SUFFICES ASSUME PanelInv, DisplayInv, [Next]_vars PROVE DisplayInv'
    OBVIOUS
  <2>1. CASE UNCHANGED panel
    BY <2>1 DEF panel, DisplayInv, Agrees, Takes, Path, Meets, Shows, IsWant
  <2>2. CASE Panel!Ready
    <3>1. PICK a, c : Agrees(a) /\ Takes(todo, a, c) /\ Meets(c, want)
      BY DEF DisplayInv
    <3>2. Agrees(a)'
      BY <2>2, <3>1, ReadyAgrees
    <3>3. todo' = todo /\ want' = want
      BY <2>2 DEF Panel!Ready
    <3> QED  BY <3>1, <3>2, <3>3 DEF DisplayInv, Takes, Path, Meets, Shows, IsWant
  <2>3. Panel!Next => DisplayInv'
    BY <2>2, DriveKeepsDisplay, CallsKeepDisplay DEF Panel!Next
  <2> QED  BY <2>1, <2>3 DEF Next, Step, vars
<1>3. DisplayInv => ShowsWhatIsWritten
  BY DoneShows
<1> QED  BY <1>1, <1>2, <1>3, PanelInvHolds, PTL DEF Spec
=============================================================================
