------------------------------- MODULE FatFiles --------------------------------
(***************************************************************************)
(* The functions of FatFs (ff.c) that Balsamo calls, over the volume of    *)
(* FatVolume.  They work on the FIL object v.fp:                           *)
(*   fs      it is open                                                    *)
(*   flag    "R", "W", and FA__WRITTEN and FA__ERROR                       *)
(*   sclust, fsize, fptr, clust, dsect   as in the code                    *)
(*   dir_sect, dir_ptr                   its directory entry               *)
(* f_write writes one byte: f_putc is its only caller.                     *)
(***************************************************************************)
EXTENDS FatVolume

EOF == 102
CR == "\r"
LF == "\n"

Closed == [fs |-> FALSE, flag |-> {}, sclust |-> 0, fsize |-> 0, fptr |-> 0,
           clust |-> 0, dsect |-> 0, dir_sect |-> 0, dir_ptr |-> 0]

Least(a, b) == IF a <= b THEN a ELSE b

\* An error that makes the FIL object unusable.
ABORT(v, code) == [v EXCEPT !.res = code, !.fp.flag = @ \cup {"ERROR"}]

--------------------------------------------------------------------------------
(* Mounting.                                                               *)

\* 0: a FAT boot record, 1: another boot record, 2: none, 3: disk error.
check_fs(v, sect) ==
  With(disk_read(v), LAMBDA r :
    LET b == r.disk[sect]
    IN  Gives(r, IF r.res # "OK" THEN 3 ELSE IF ~b.sig THEN 2 ELSE IF b.fat THEN 0 ELSE 1))

\* The first partition when sector 0 is not the boot record of a volume; v.buf has
\* the sector of its boot record.
FindVolume(v) ==
  With(check_fs(v, 0), LAMBDA c :
    LET p == v.disk[0].part
    IN  IF c.val = 1 /\ p # 0 THEN [check_fs(c, p) EXCEPT !.buf = <<p>>] ELSE [c EXCEPT !.buf = <<0>>])

\* Fault: the size of the FAT is not compared with the number of clusters.
FatTooSmall_Unchecked(b, n_fatent, type) == FALSE

FatTooSmall(b, n_fatent, type) == b.fatSz * Eps(type) < n_fatent

\* The geometry of a boot record b at sector bsect; fs_type "none" if it is refused.
\* FAT12 is refused here: Balsamo's cards are larger.
Geometry(b, bsect) ==
  LET sysect   == b.rsvd + b.fatSz * b.numFats + b.rootEntCnt \div Dps
      nclst    == (b.totSec - sysect) \div b.secPerClus
      type     == IF nclst >= MIN_FAT32 THEN "FAT32" ELSE "FAT16"
      fatbase  == bsect + b.rsvd
      dirbase  == IF type = "FAT32" THEN b.rootClus ELSE fatbase + b.fatSz * b.numFats
      valid    == /\ b.bytsPerSec = SS
                  /\ b.numFats \in {1, 2}
                  /\ b.secPerClus \in {1, 2, 4, 8, 16, 32, 64, 128}
                  /\ b.rootEntCnt % Dps = 0
                  /\ b.rsvd # 0
                  /\ b.totSec >= sysect
                  /\ nclst >= MIN_FAT16
                  /\ type = "FAT32" <=> b.rootEntCnt = 0
                  /\ ~FatTooSmall(b, nclst + 2, type)
  IN  [fs_type |-> IF valid THEN type ELSE "none",
       fsize |-> b.fatSz, n_fats |-> b.numFats, csize |-> b.secPerClus,
       n_rootdir |-> b.rootEntCnt, n_fatent |-> nclst + 2,
       fatbase |-> fatbase, database |-> bsect + sysect, dirbase |-> dirbase,
       fsi_sector |-> bsect + b.fsInfo, fsi_flag |-> FALSE, last_clust |-> 0, free_clust |-> BAD,
       win |-> b, winsect |-> 0, wflag |-> FALSE]

\* FSInfo gives where to look for free clusters, and how many there are.
ReadFsInfo(v) ==
  IF v.fs.fs_type # "FAT32" THEN v
  ELSE With(disk_read(v), LAMBDA r :
         LET i == r.disk[v.fs.fsi_sector]
         IN  IF r.res = "OK" /\ i.sig
             THEN [r EXCEPT !.fs.last_clust = i.nxt, !.fs.free_clust = i.free]
             ELSE Ok(r))

\* fs is the volume; win holds the boot record.
Mounted(v, fs) ==
  IF fs.fs_type = "none" THEN Err(v, "NO_FILESYSTEM") ELSE ReadFsInfo([v EXCEPT !.fs = fs])

\* The card stays initialised once it is: STA_NOINIT comes back only with a
\* socket switch, which this board does not have.  Until then mounting
\* initialises it, which is the first access here.
chk_mounted(v) ==
  IF v.fs.fs_type # "none" THEN Ok(v)
  ELSE With(Access(v), LAMBDA i :
         IF i.res # "OK" THEN Err(i, "NOT_READY")
         ELSE With(FindVolume(i), LAMBDA f :
                CASE f.val = 3 -> Err(f, "DISK_ERR")
                  [] f.val \in {1, 2} -> Err(f, "NO_FILESYSTEM")
                  [] f.val = 0 -> Mounted(f, Geometry(f.disk[f.buf[1]], f.buf[1]))))

f_mount(v) == Ok([v EXCEPT !.fs.fs_type = "none"])

\* disk_status never reports the loss of an initialised card.
validate(v) == IF v.fp.fs /\ v.fs.fs_type # "none" THEN Ok(v) ELSE Err(v, "INVALID_OBJECT")

\* A FIL object that is open, has had no error and allows the access.
Usable(v, mode) ==
  Then(validate(v), LAMBDA w :
    IF "ERROR" \in w.fp.flag THEN Err(w, "INT_ERR")
    ELSE IF mode \in w.fp.flag THEN w ELSE Err(w, "DENIED"))

--------------------------------------------------------------------------------
(* Opening.                                                                *)

\* Fault: the chain is freed while the directory entry still points to it.
Truncate_ChainFirst(v) ==
  LET cl == Entry(v).clust
      t(w) == [w EXCEPT !.fs.win[w.dj.dir] = [@ EXCEPT !.size = 0, !.clust = 0], !.fs.wflag = TRUE]
  IN  IF cl = 0 THEN t(v)
      ELSE Then(remove_chain(v, cl), LAMBDA w :
             Then(move_window([w EXCEPT !.fs.last_clust = cl - 1], v.fs.winsect), t))

\* The entry is cleared in the window, and reaches the card when the window
\* moves to the FAT: before any link of the chain does.
Truncate(v) ==
  LET cl == Entry(v).clust
      t == [v EXCEPT !.fs.win[v.dj.dir] = [@ EXCEPT !.size = 0, !.clust = 0], !.fs.wflag = TRUE]
  IN  IF cl = 0 THEN t
      ELSE Then(remove_chain(t, cl), LAMBDA w :
             move_window([w EXCEPT !.fs.last_clust = cl - 1], v.fs.winsect))

\* The FIL object of the directory entry in the window.
Opened(v, flag) ==
  [v EXCEPT !.fp = [Closed EXCEPT !.fs = TRUE, !.flag = flag,
                      !.sclust = Entry(v).clust, !.fsize = Entry(v).size,
                      !.dir_sect = v.fs.winsect, !.dir_ptr = v.dj.dir]]

\* mode holds "R", "W", and "ALWAYS" or "CREATE" for FA_OPEN_ALWAYS and
\* FA_CREATE_ALWAYS.
f_open(v, name, mode) ==
  LET rw == mode \cap {"R", "W"}
      creates == mode \cap {"ALWAYS", "CREATE"} # {}
  IN  Then(chk_mounted([v EXCEPT !.fp = Closed]), LAMBDA c :
        With(follow_path(c, name), LAMBDA f :
          LET isNew == f.res # "OK"
              cut == creates /\ (isNew \/ "CREATE" \in mode)
          IN  Then(IF creates /\ f.res = "NO_FILE" THEN dir_register(f, name) ELSE f, LAMBDA e :
                Then(IF cut THEN Truncate(e) ELSE e, LAMBDA w :
                  Opened(w, rw \cup (IF cut THEN {"WRITTEN"} ELSE {}))))))

--------------------------------------------------------------------------------
(* Reading and writing.                                                    *)

csect(v) == (v.fp.fptr \div SS) % v.fs.csize

\* A cluster number as f_read and f_write take it; the sector of fptr in v.val.
SectorIn(v, clst) ==
  LET s == clust2sect(v.fs, clst)
      w == [v EXCEPT !.fp.clust = clst]
  IN  IF clst = 1 THEN ABORT(v, "INT_ERR")
      ELSE IF clst = BAD THEN ABORT(v, "DISK_ERR")
      ELSE IF s = 0 THEN ABORT(w, "INT_ERR")
      ELSE Gives(w, s + csect(v))

\* The sector that fptr, at its beginning, is in.
ReadSector(v) ==
  IF csect(v) # 0 THEN SectorIn(v, v.fp.clust)
  ELSE IF v.fp.fptr = 0
       THEN IF v.fp.sclust < 2 THEN ABORT(v, "INT_ERR") ELSE SectorIn(v, v.fp.sclust)
       ELSE With(get_fat(v, v.fp.clust), LAMBDA g :
              IF g.val < 2 THEN ABORT(g, "INT_ERR") ELSE SectorIn(g, g.val))

Flat(secs) == [i \in 1..SS * Len(secs) |-> secs[(i - 1) \div SS + 1][(i - 1) % SS]]

\* cc whole sectors, past the window, which may hold a later version of one.
Direct(v, sect, cc) ==
  LET at(r, k) == IF v.fs.wflag /\ v.fs.winsect = sect + k - 1 THEN v.fs.win ELSE r.disk[sect + k - 1]
  IN  With(disk_read(v), LAMBDA r :
        IF r.res # "OK" THEN ABORT(r, "DISK_ERR")
        ELSE [r EXCEPT !.buf = @ \o Flat([k \in 1..cc |-> at(r, k)]), !.fp.fptr = @ + SS * cc])

\* Up to n bytes of the sector of fptr, through the window.
Partial(v, n) ==
  LET ofs == v.fp.fptr % SS
      cnt == Least(SS - ofs, n)
  IN  With(move_window(v, v.fp.dsect), LAMBDA m :
        IF m.res # "OK" THEN ABORT(m, "DISK_ERR")
        ELSE [m EXCEPT !.buf = @ \o [i \in 1..cnt |-> m.fs.win[ofs + i - 1]], !.fp.fptr = @ + cnt])

\* Fault: whole sectors are read past the end of the cluster.
Clip_Cluster(v, cc) == cc

\* Sectors of the cluster from the sector of fptr on.
Clip(v, cc) == Least(cc, v.fs.csize - csect(v))

\* The next part of what is read, from where v stands.
ReadPart(v, btr) ==
  LET cc == btr \div SS
      next(s) == [s EXCEPT !.fp.dsect = s.val]
  IN  IF v.fp.fptr % SS # 0 THEN Partial(v, btr)
      ELSE Then(ReadSector(v), LAMBDA s :
             IF cc > 0 THEN Direct(s, s.val, Clip(s, cc)) ELSE Partial(next(s), btr))

RECURSIVE ReadOn(_, _)
ReadOn(v, btr) ==
  IF btr = 0 THEN Ok(v)
  ELSE Then(ReadPart(v, btr), LAMBDA y : ReadOn(y, btr - (y.fp.fptr - v.fp.fptr)))

f_read(v, btr) ==
  Then(Usable([v EXCEPT !.buf = <<>>], "R"), LAMBDA w :
    ReadOn(w, Least(btr, w.fp.fsize - w.fp.fptr)))

\* The cluster for a byte at the beginning of a cluster.
WriteCluster(v) ==
  IF v.fp.fptr # 0 THEN create_chain(v, v.fp.clust)
  ELSE IF v.fp.sclust # 0 THEN Gives(v, v.fp.sclust)
  ELSE With(create_chain(v, 0), LAMBDA new : [new EXCEPT !.fp.sclust = new.val])

\* The window of the sector before goes to the card.
LeaveSector(v) ==
  IF v.fs.winsect # v.fp.dsect THEN Ok(v)
  ELSE With(sync_window(v), LAMBDA y : IF y.res = "OK" THEN y ELSE ABORT(y, "DISK_ERR"))

\* At the end of the file the window takes the sector over unread.
EnterSector(v) ==
  IF v.fp.fptr < v.fp.fsize THEN v
  ELSE With(sync_window(v), LAMBDA e :
         IF e.res = "OK" THEN [e EXCEPT !.fs.winsect = v.val, !.fs.win = Junk] ELSE ABORT(e, "DISK_ERR"))

\* The sector for a byte at its beginning.  v.val is 0 when the disk is full.
WriteSector(v) ==
  With(IF csect(v) = 0 THEN WriteCluster(v) ELSE Gives(v, v.fp.clust), LAMBDA c :
    CASE c.val = 0   -> c
      [] c.val = 1   -> ABORT(c, "INT_ERR")
      [] c.val = BAD -> ABORT(c, "DISK_ERR")
      [] c.val \notin {0, 1, BAD} ->
           Then(LeaveSector(c), LAMBDA y :
             Then(SectorIn(y, c.val), LAMBDA s :
               Then(EnterSector(s), LAMBDA z : [z EXCEPT !.fp.dsect = s.val]))))

PutByte(v, c) ==
  With(move_window(v, v.fp.dsect), LAMBDA m :
    IF m.res # "OK" THEN ABORT(m, "DISK_ERR")
    ELSE [m EXCEPT !.fs.win[m.fp.fptr % SS] = c, !.fs.wflag = TRUE, !.fp.fptr = @ + 1, !.val = 1])

\* v.val is the number of bytes written.
f_write(v, c) ==
  LET grown(b) == IF b.fp.fptr > b.fp.fsize THEN b.fp.fptr ELSE b.fp.fsize
  IN  Then(Usable([v EXCEPT !.val = 0], "W"), LAMBDA u :
        With(Then(IF u.fp.fptr % SS = 0 THEN WriteSector(u) ELSE Gives(u, 1), LAMBDA s :
               IF s.val = 0 THEN s ELSE PutByte(s, c)), LAMBDA b :
          IF b.res # "OK" THEN [b EXCEPT !.val = 0]
          ELSE [b EXCEPT !.fp.fsize = grown(b), !.fp.flag = @ \cup {"WRITTEN"}]))

\* Fault: the size is not written.
f_sync_NoSize(v) ==
  Then(validate(v), LAMBDA w :
    IF "WRITTEN" \notin w.fp.flag THEN w
    ELSE sync_fs([w EXCEPT !.fp.flag = @ \ {"WRITTEN"}]))

f_sync(v) ==
  Then(validate(v), LAMBDA w :
    IF "WRITTEN" \notin w.fp.flag THEN w
    ELSE Then(move_window(w, w.fp.dir_sect), LAMBDA m :
           sync_fs([m EXCEPT !.fs.win[m.fp.dir_ptr] =
                                [@ EXCEPT !.size = m.fp.fsize, !.clust = m.fp.sclust],
                             !.fs.wflag = TRUE,
                             !.fp.flag = @ \ {"WRITTEN"}])))

f_close(v) == Then(f_sync(v), LAMBDA w : [w EXCEPT !.fp.fs = FALSE])

--------------------------------------------------------------------------------
(* Seeking.                                                                *)

Bcs(v) == v.fs.csize * SS

\* From cluster clst, ofs bytes on; a file open for writing is made longer.  v.val
\* is the cluster reached and v.buf what is left of ofs in it.
RECURSIVE Follow(_, _, _)
Follow(v, clst, ofs) ==
  LET writes == "W" \in v.fp.flag IN
  IF ofs <= Bcs(v) THEN [Gives(v, clst) EXCEPT !.fp.fptr = @ + ofs, !.buf = ofs]
  ELSE With(IF writes THEN create_chain(v, clst) ELSE get_fat(v, clst), LAMBDA n :
         IF writes /\ n.val = 0 THEN [Gives(n, 0) EXCEPT !.fp.fptr = @ + Bcs(v), !.buf = Bcs(v)]
         ELSE IF n.val = BAD THEN ABORT(n, "DISK_ERR")
         ELSE IF n.val \notin 2 .. v.fs.n_fatent - 1 THEN ABORT(n, "INT_ERR")
         ELSE Follow([n EXCEPT !.fp.clust = n.val, !.fp.fptr = @ + Bcs(v)], n.val, ofs - Bcs(v)))

\* Where the seek begins: the current cluster if it is not after the target, the
\* first one otherwise, allocated if there is none.
SeekStart(v, ofs) ==
  LET ifptr == v.fp.fptr
      here == ifptr > 0 /\ (ofs - 1) \div Bcs(v) >= (ifptr - 1) \div Bcs(v)
      base == ((ifptr - 1) \div Bcs(v)) * Bcs(v)
      z == [v EXCEPT !.fp.fptr = 0]
  IN  IF here THEN [Gives(v, v.fp.clust) EXCEPT !.fp.fptr = base, !.buf = ofs - base]
      ELSE IF v.fp.sclust # 0 THEN [Gives(z, v.fp.sclust) EXCEPT !.fp.clust = v.fp.sclust, !.buf = ofs]
      ELSE With(create_chain(z, 0), LAMBDA new :
             IF new.val = 1 THEN ABORT(new, "INT_ERR")
             ELSE IF new.val = BAD THEN ABORT(new, "DISK_ERR")
             ELSE [new EXCEPT !.fp.sclust = new.val, !.fp.clust = new.val, !.buf = ofs])

\* The window of the sector that fptr is in the middle of will be dsect.
SeekSector(v) ==
  LET s == clust2sect(v.fs, v.val) IN
  IF v.buf % SS = 0 THEN v
  ELSE IF s = 0 THEN ABORT(v, "INT_ERR")
  ELSE [v EXCEPT !.fp.dsect = s + v.buf \div SS]

Seek(v, ofs) ==
  Then(SeekStart(v, ofs), LAMBDA w :
    IF w.val = 0 THEN w ELSE Then(Follow(w, w.val, w.buf), SeekSector))

Grow(v) ==
  IF v.fp.fptr <= v.fp.fsize THEN v
  ELSE [v EXCEPT !.fp.fsize = v.fp.fptr, !.fp.flag = @ \cup {"WRITTEN"}]

f_lseek(v, ofs) ==
  LET to == IF "W" \in v.fp.flag THEN ofs ELSE Least(ofs, v.fp.fsize)
  IN  Then(validate(v), LAMBDA w :
        IF "ERROR" \in w.fp.flag THEN Err(w, "INT_ERR")
        ELSE IF to = 0 THEN [w EXCEPT !.fp.fptr = 0]
        ELSE Then(Seek(w, to), Grow))

--------------------------------------------------------------------------------
(* Strings.                                                                *)

\* A line of less than len characters, without its carriage return, in v.buf, and
\* its length in v.val.
RECURSIVE GetChars(_, _, _)
GetChars(v, len, line) ==
  LET done(r, l) == [Gives(r, Len(l)) EXCEPT !.buf = l] IN
  IF Len(line) >= len - 1 THEN done(v, line)
  ELSE With(f_read(v, 1), LAMBDA r :
         IF r.buf = <<>> THEN done(r, line)
         ELSE IF r.buf = <<LF>> THEN done(r, line \o r.buf)
         ELSE GetChars(r, len, IF r.buf = <<CR>> THEN line ELSE line \o r.buf))

f_gets(v, len) == GetChars(v, len, <<>>)

\* v.val is 1, or EOF when the byte was not written.
PutChar(v, c) ==
  With(f_write(v, c), LAMBDA w : [Ok(w) EXCEPT !.val = IF w.val = 1 THEN 1 ELSE EOF])

f_putc(v, c) == PutChar(IF c = LF THEN PutChar(v, CR) ELSE v, c)

RECURSIVE f_puts(_, _)
f_puts(v, str) ==
  IF str = <<>> THEN Gives(v, 0)
  ELSE With(f_putc(v, Head(str)), LAMBDA p : IF p.val = EOF THEN p ELSE f_puts(p, Tail(str)))

\* The formats of Balsamo make a string of characters; once one cannot be
\* written, none of the rest can.
f_printf(v, str) == f_puts(v, str)

================================================================================
