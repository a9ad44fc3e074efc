--------------------------------- MODULE FatFs ---------------------------------
(***************************************************************************)
(* Balsamo on its SD card: what main.c, tel_filt.c and rawplay.c do with   *)
(* the files, down to each sector that reaches the card.  An action is one *)
(* operation of main; the card may fail at any of its accesses, or be gone *)
(* from then on, and the power may be cut.  Interrupts do not touch files. *)
(***************************************************************************)
EXTENDS FatFiles, SequencesExt

CONSTANTS
  Cards,          \* the cards, as functions from sectors to what is in them
  Lines,          \* lines of the log
  Settings,       \* settings to save: mode, unknown callers, numbers
  RAWP_BUF_NS,    \* bytes of a buffer of the player
  TMP_BUFLEN,     \* size of the buffer for a line of the configuration
  BootFaults, RunFaults,   \* how an access may fail in SysInit, and after it
  MaxFaults, MaxWrites     \* bounds of the model: operations with a fault, and that write

VARIABLES
  disk,     \* the sectors on the card
  fs,       \* the FATFS object vol
  fLog,     \* the FIL object of the log
  up,       \* "off", "on", or "panic": stopped with a message
  gone,     \* the card answers nothing any more
  done,     \* history: the last operation wrote, and FatFs reported no failure
  read,     \* history: what the last operation read of which file
  stored, cached,   \* history: the files on the card, and as the program sees them
  faults, writes

vars == <<disk, fs, fLog, up, gone, done, read, stored, cached, faults, writes>>

Unmounted == [Geometry(disk[0], 0) EXCEPT !.fs_type = "none"]
NothingRead == [file |-> "none", data |-> <<>>, whole |-> FALSE]

--------------------------------------------------------------------------------
(* The operations, on the record of FatVolume.                             *)

RECURSIVE GetLines(_, _)
GetLines(v, lines) ==
  With(f_gets(v, TMP_BUFLEN), LAMBDA g :
    IF g.val = 0 THEN [g EXCEPT !.buf = lines] ELSE GetLines(g, lines \o g.buf))

\* v.buf is what was read.  The first two lines must be what TfCfgSave writes;
\* TelFilt has the numbers.
TfParseConfig(v) ==
  Then(f_open(v, "cfg", {"R"}), LAMBDA o :
    With(f_gets(o, TMP_BUFLEN), LAMBDA a :
      IF a.buf \notin {<<"BLACK", LF>>, <<"WHITE", LF>>} THEN Err(a, "BAD_LINE")
      ELSE With(f_gets(a, TMP_BUFLEN), LAMBDA b :
             IF b.buf \notin {<<"REJECT", LF>>, <<"ALLOW", LF>>} THEN Err(b, "BAD_LINE")
             ELSE With(GetLines(b, a.buf \o b.buf), LAMBDA c :
                    [f_close(c) EXCEPT !.res = "OK", !.buf = c.buf]))))

OpenLog(v) ==
  Then(f_open(v, "log", {"R", "W", "ALWAYS"}), LAMBDA o : f_lseek(o, o.fp.fsize))

\* disk_initialize, f_mount, the configuration, the log.  Only a failure of the
\* log goes unnoticed: evLog is not read by anybody.
SysInit(v) ==
  Then(Access([v EXCEPT !.fp = Closed]), LAMBDA d :
    Then(TfParseConfig(f_mount(d)), LAMBDA c :
      [OpenLog(c) EXCEPT !.res = "OK", !.buf = c.buf]))

\* res is OK when FatFs reported no failure; Log itself returns nothing.
Log(v, line) ==
  With(f_printf(v, line), LAMBDA p :
    With(f_sync(p), LAMBDA s : IF p.val = EOF THEN Err(s, "EOF") ELSE s))

\* A number is one character here.  Both results are looked at after both calls.
RECURSIVE PutNumbers(_, _)
PutNumbers(v, nums) ==
  IF nums = <<>> THEN v
  ELSE With(f_putc(v, Head(nums)), LAMBDA n :
         With(f_putc(n, LF), LAMBDA e :
           IF EOF \in {n.val, e.val} THEN [e EXCEPT !.val = EOF] ELSE PutNumbers(e, Tail(nums))))

PutSettings(v, set) ==
  With(f_puts(v, <<set.mode, LF>>), LAMBDA a :
    IF a.val = EOF THEN a
    ELSE With(f_puts(a, <<set.hidden, LF>>), LAMBDA b :
           IF b.val = EOF THEN b ELSE PutNumbers(b, set.nums)))

\* TfCfgSave closes the file whatever fails before, and ignores what f_close
\* returns; res here is what FatFs reported.
TfCfgSave(v, set) ==
  Then(f_open(v, "cfg", {"W", "CREATE"}), LAMBDA o :
    With(PutSettings(o, set), LAMBDA n :
      With(f_close(n), LAMBDA c : IF n.val = EOF THEN Err(c, "EOF") ELSE c)))

RECURSIVE Play(_, _)
Play(v, played) ==
  With(f_read(v, RAWP_BUF_NS), LAMBDA r :
    LET data == played \o r.buf
    IN  IF r.res = "OK" /\ Len(r.buf) = RAWP_BUF_NS THEN Play(r, data)
        ELSE [f_close(r) EXCEPT !.res = r.res, !.buf = data])

\* The reads of RawPlayFile; RawPlay has what happens between them.
RawPlayFile(v) ==
  With(f_open([v EXCEPT !.buf = <<>>], "wav", {"R"}), LAMBDA o :
    IF o.res = "OK" THEN Play(o, <<>>) ELSE [o EXCEPT !.buf = <<>>])

--------------------------------------------------------------------------------
(* What is on a card d, found as a program that reads it would.            *)

Vol(d) == LET p == d[0].part IN
  IF d[0].fat THEN Geometry(d[0], 0) ELSE IF p # 0 THEN Geometry(d[p], p)
  ELSE [Geometry(d[0], 0) EXCEPT !.fs_type = "none"]

Link(d, g, c) == d[FatSector(g, c)][c % Eps(g.fs_type)]
InRange(g, c) == c \in 2 .. g.n_fatent - 1

\* The chain from cluster c, of at most n clusters.
RECURSIVE Chain(_, _, _, _)
Chain(d, g, c, n) ==
  IF n = 0 \/ ~InRange(g, c) THEN <<>> ELSE <<c>> \o Chain(d, g, Link(d, g, c), n - 1)

WholeChain(d, g, c) == Chain(d, g, c, g.n_fatent)

\* The sectors of a chain, and of the root directory.
SectorsOf(g, chain) ==
  [i \in 1 .. Len(chain) * g.csize |->
     clust2sect(g, chain[(i - 1) \div g.csize + 1]) + ((i - 1) % g.csize)]

DirSectors(d, g) ==
  IF g.fs_type = "FAT32" THEN SectorsOf(g, WholeChain(d, g, g.dirbase))
  ELSE [i \in 1 .. g.n_rootdir \div Dps |-> g.dirbase + i - 1]

Entries(d, g) ==
  LET secs == DirSectors(d, g) IN
  [i \in 1 .. Len(secs) * Dps |-> d[secs[(i - 1) \div Dps + 1]][(i - 1) % Dps]]

EntryOf(d, g, name) ==
  LET all == Entries(d, g)
      at == {i \in DOMAIN all : all[i].name = name /\ \A j \in 1..i : all[j].name # "free"}
  IN  IF at = {} THEN NoEntry ELSE all[CHOOSE i \in at : \A j \in at : i <= j]

\* A sector that nothing was written to holds zeros.
Bytes(d, g, c, size) ==
  LET secs == SectorsOf(g, Chain(d, g, c, (size + Bcs([fs |-> g]) - 1) \div Bcs([fs |-> g])))
      at(i) == (i - 1) \div SS + 1
      byte(sec, k) == IF DOMAIN sec = 0..SS-1 THEN sec[k] ELSE "zero"
  IN  [i \in 1..size |-> IF at(i) \in DOMAIN secs THEN byte(d[secs[at(i)]], (i - 1) % SS) ELSE "lost"]

Content(d, name) ==
  LET g == Vol(d)
      e == EntryOf(d, g, name)
  IN  IF g.fs_type = "none" THEN <<>> ELSE Bytes(d, g, e.clust, e.size)

\* What a program that runs with the FATFS object f sees of card d: through the window.
Seen(d, f) == IF f.wflag THEN [d EXCEPT ![f.winsect] = f.win] ELSE d

\* The two files as a power cut would leave them, and as the program sees them,
\* which holds the size of the log in the FIL object l.
StoredFiles(d) == [log |-> Content(d, "log"), cfg |-> Content(d, "cfg")]

SeenFiles(d, f, l) ==
  LET now == Seen(d, f) IN
  [log |-> IF l.fs THEN Bytes(now, f, l.sclust, l.fsize) ELSE Content(now, "log"),
   cfg |-> Content(now, "cfg")]

--------------------------------------------------------------------------------
(* Steps.                                                                  *)

\* The record on which an operation begins, with the FIL object f.
Begin(f, io) ==
  [disk |-> disk, fs |-> fs, fp |-> f, io |-> io, res |-> "OK", val |-> 0, buf |-> <<>>,
   dj |-> [index |-> 0, clust |-> 0, sect |-> 0, dir |-> 0]]

NoFault == [n |-> 0, at |-> 0, kind |-> "none"]

\* The ways Op, begun with f, may go: undisturbed, or with a fault at any access.
Runs(Op(_), f, kinds) ==
  IF gone THEN {Op(Begin(f, [NoFault EXCEPT !.kind = "gone"]))}
  ELSE LET clean == Op(Begin(f, NoFault)) IN
       {clean} \cup
       IF faults = MaxFaults THEN {}
       ELSE {Op(Begin(f, [n |-> 0, at |-> k, kind |-> kind])) :
               k \in 0 .. clean.io.n - 1, kind \in kinds}

\* The step that ends with v, with the log in log and the program on or not.
End(v, log, state) ==
  /\ disk' = v.disk /\ fs' = v.fs /\ fLog' = log /\ up' = state
  /\ stored' = StoredFiles(v.disk)
  /\ cached' = IF state = "on" THEN SeenFiles(v.disk, v.fs, log) ELSE stored'
  /\ gone' = (v.io.kind = "gone")
  /\ faults' = IF gone \/ v.io.kind = "none" THEN faults ELSE faults + 1

Boot ==
  /\ up = "off"
  /\ \E v \in Runs(SysInit, Closed, BootFaults) :
       /\ End(v, v.fp, IF v.res = "OK" THEN "on" ELSE "panic")
       /\ read' = IF v.res = "OK" THEN [file |-> "cfg", data |-> v.buf, whole |-> v.io.kind = "none"]
                  ELSE NothingRead
  /\ done' = FALSE
  /\ UNCHANGED writes

LogLine ==
  /\ up = "on" /\ writes < MaxWrites
  /\ \E line \in Lines : \E v \in Runs(LAMBDA w : Log(w, line), fLog, RunFaults) :
       End(v, v.fp, "on") /\ done' = (v.res = "OK")
  /\ writes' = writes + 1
  /\ read' = NothingRead

SaveCfg ==
  /\ up = "on" /\ writes < MaxWrites
  /\ \E set \in Settings : \E v \in Runs(LAMBDA w : TfCfgSave(w, set), Closed, RunFaults) :
       End(v, fLog, "on") /\ done' = (v.res = "OK")
  /\ writes' = writes + 1
  /\ read' = NothingRead

PlayMessage ==
  /\ up = "on"
  /\ \E v \in Runs(RawPlayFile, Closed, RunFaults) :
       /\ End(v, fLog, "on")
       /\ read' = [file |-> "wav", data |-> v.buf, whole |-> v.res = "OK"]
  /\ done' = FALSE
  /\ UNCHANGED writes

PowerCut ==
  /\ up # "off"
  /\ up' = "off" /\ fs' = Unmounted /\ fLog' = Closed /\ gone' = FALSE
  /\ done' = FALSE /\ read' = NothingRead
  /\ cached' = stored
  /\ UNCHANGED <<disk, stored, faults, writes>>

Init ==
  /\ disk \in Cards
  /\ fs = Unmounted /\ fLog = Closed /\ up = "off" /\ gone = FALSE
  /\ done = FALSE /\ read = NothingRead /\ faults = 0 /\ writes = 0
  /\ stored = StoredFiles(disk) /\ cached = stored

Next == Boot \/ LogLine \/ SaveCfg \/ PlayMessage \/ PowerCut

Spec == Init /\ [][Next]_vars

--------------------------------------------------------------------------------
(* Properties.                                                             *)

\* A line, or a configuration, as it is in its file.
InFile(str) == FlattenSeq([i \in DOMAIN str |-> IF str[i] = LF THEN <<CR, LF>> ELSE <<str[i]>>])
CfgFile(set) ==
  InFile(<<set.mode, LF, set.hidden, LF>> \o FlattenSeq([i \in DOMAIN set.nums |-> <<set.nums[i], LF>>]))

Store == INSTANCE FileStore WITH
  Lines <- {InFile(line) : line \in Lines}, Books <- {CfgFile(set) : set \in Settings}

\* Through every access that fails (of the kinds in BootFaults while the program starts,
\* in RunFaults later) and every power cut between two sectors, the log only grows by
\* the lines that were logged, the configuration is the old one, the new one or the
\* beginning of it, neither operation touches the other's file, and what FatFs says is
\* written is on the card (f_sync, f_close).
\* It does not hold of a single access that fails while SysInit seeks to the end of the
\* log: the log is cut then (BootKeepsLog), or the next lines overwrite its end, because
\* what f_lseek returns reaches only evLog, which nobody reads (main.c:530-531).
ImplementsFileStore == Store!Spec

\* "Open log file and place cursor at its end" (main.c): a start does not change
\* the log.  A link that create_chain cannot read counts as the end of the chain,
\* although it should give "0xFFFFFFFF:Disk error": f_lseek then goes on in a new
\* cluster, and the rest of the log is cut off.
BootKeepsLog ==
  [][up = "off" => /\ stored'.log = stored.log
                   /\ up' = "on" => cached'.log = stored.log]_vars

\* In a volume that was mounted, the FAT has an entry for every cluster, and the
\* FATs, the root directory and the clusters do not overlap and are within the
\* volume (chk_mounted).
Fits(g) ==
  LET volbase == g.fatbase - disk[IF disk[0].fat THEN 0 ELSE disk[0].part].rsvd
      total == disk[volbase].totSec
      last == clust2sect(g, g.n_fatent - 1) + g.csize - 1
  IN  /\ FatSector(g, g.n_fatent - 1) < g.fatbase + g.fsize
      /\ g.fatbase + g.n_fats * g.fsize <= g.database
      /\ last < volbase + total
      /\ g.fs_type = "FAT16" =>
           /\ g.dirbase >= g.fatbase + g.n_fats * g.fsize
           /\ g.dirbase + g.n_rootdir \div Dps <= g.database

\* On the card, at any time, the files and the directory have chains of allocated
\* clusters that end, are long enough, and share no cluster: a cluster is
\* allocated before it is linked, linked before it counts, and freed last
\* (create_chain, remove_chain, f_open).  What was mounted fits.
Files == {"log", "cfg", "wav"}
ChainOf(d, g, name) == WholeChain(d, g, EntryOf(d, g, name).clust)
Ends(d, g, chain) == chain = <<>> \/ Link(d, g, chain[Len(chain)]) = EOC
DiskIsSound ==
  LET g == Vol(disk)
      dir == IF g.fs_type = "FAT32" THEN WholeChain(disk, g, g.dirbase) ELSE <<>>
      all == [f \in Files |-> ChainOf(disk, g, f)]
  IN  /\ up = "on" => Fits(fs)
      /\ g.fs_type # "none" =>
           /\ Ends(disk, g, dir)
           /\ \A f \in Files :
                /\ Ends(disk, g, all[f])
                /\ EntryOf(disk, g, f).size <= Len(all[f]) * Bcs([fs |-> g])
                /\ ToSet(all[f]) \cap ToSet(dir) = {}
                /\ \A h \in Files \ {f} : ToSet(all[f]) \cap ToSet(all[h]) = {}

\* What the player and the parser get from f_read and f_gets is what is in the
\* file, from its beginning, and all of it when nothing failed (f_read).
ReadsBack ==
  read.file # "none" =>
    LET file == Content(Seen(disk, fs), read.file)
        want == IF read.file = "cfg" THEN SelectSeq(file, LAMBDA c : c # CR) ELSE file
    IN  IsPrefix(read.data, want) /\ (read.whole => read.data = want)

================================================================================
