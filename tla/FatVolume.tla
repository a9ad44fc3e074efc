------------------------------ MODULE FatVolume --------------------------------
(***************************************************************************)
(* The volume layer of FatFs (ff.c), as Balsamo configures it (ffconf.h):  *)
(* one volume, one window of a sector shared by the FAT, the directory and *)
(* the data of every file (_FS_TINY), FAT16 and FAT32.                     *)
(*                                                                         *)
(* Each function is an operator on a record v of what it can change:       *)
(*   disk   the sectors on the card                                        *)
(*   fs     the FATFS object: the geometry and the window                  *)
(*   dj     the directory object: where it stands                          *)
(*   fp     the FIL object the caller works on                             *)
(*   io     the accesses to the card so far, and which of them fail        *)
(*   res    the FRESULT, val the number a function returns, buf bytes read *)
(* The card may fail an access ("error"), write a sector and then report a *)
(* failure ("late"), or answer nothing from an access on ("gone"), which   *)
(* for the card is also a power cut there.  A sector is written whole or   *)
(* not at all.  A failed read leaves the buffer as it was (mmc.c).         *)
(*                                                                         *)
(* A sector of the FAT is a function to entries, one of the directory to   *)
(* directory entries, one of data to bytes.  Names are in 8.3 form, which  *)
(* needs one directory entry.                                              *)
(***************************************************************************)
EXTENDS Naturals, Sequences

CONSTANTS
  SS,         \* bytes of a sector; an entry of FAT16 has 2, of FAT32 4
  SZ_DIR,     \* bytes of a directory entry
  MIN_FAT16, MIN_FAT32   \* clusters from which a volume has that type

EOC == 100    \* 0x0FFFFFFF (0xFFFF of FAT16): the last link of a chain
BAD == 101    \* 0xFFFFFFFF: disk error, or an unknown number of clusters

Eps(type) == SS \div (IF type = "FAT16" THEN 2 ELSE 4)   \* FAT entries of a sector
Dps == SS \div SZ_DIR                        \* directory entries of a sector

NoEntry == [name |-> "free", size |-> 0, clust |-> 0]
Deleted == [NoEntry EXCEPT !.name = "DDE"]
Clear == [i \in 0..Dps-1 |-> NoEntry]
Junk == [i \in 0..SS-1 |-> "?"]              \* what a window held before

Ok(v) == [v EXCEPT !.res = "OK"]
Err(v, code) == [v EXCEPT !.res = code]
Gives(v, n) == [v EXCEPT !.res = "OK", !.val = n]

\* What follows v: whatever its result is, or only if that is OK.
With(v, Op(_)) == Op(v)
Then(v, Op(_)) == IF v.res = "OK" THEN Op(v) ELSE v

--------------------------------------------------------------------------------
(* Accesses to the card.                                                   *)

Fails(v) ==
  \/ v.io.kind = "gone" /\ v.io.n >= v.io.at
  \/ v.io.kind \in {"error", "late"} /\ v.io.n = v.io.at

Access(v) == [v EXCEPT !.io.n = @ + 1, !.res = IF Fails(v) THEN "DISK_ERR" ELSE "OK"]

\* The caller takes the sectors from v.disk when res is OK.
disk_read(v) == Access(v)

disk_write(v, sect, data) ==
  IF Fails(v) /\ v.io.kind # "late" THEN Access(v)
  ELSE [Access(v) EXCEPT !.disk[sect] = data]

--------------------------------------------------------------------------------
(* The window.                                                             *)

InFat(fs, sect) == sect \in fs.fatbase .. fs.fatbase + fs.fsize - 1

\* The first copy of the FAT decides; a failure to write the second is ignored.
Mirror(v) ==
  IF v.fs.n_fats = 2 /\ InFat(v.fs, v.fs.winsect)
  THEN Ok(disk_write(v, v.fs.winsect + v.fs.fsize, v.fs.win))
  ELSE v

sync_window(v) ==
  IF ~v.fs.wflag THEN Ok(v)
  ELSE Then(disk_write(v, v.fs.winsect, v.fs.win),
            LAMBDA w : Mirror([w EXCEPT !.fs.wflag = FALSE]))

move_window(v, sector) ==
  IF sector = v.fs.winsect THEN Ok(v)
  ELSE Then(sync_window(v), LAMBDA w :
         Then(disk_read(w), LAMBDA r :
           [r EXCEPT !.fs.win = r.disk[sector], !.fs.winsect = sector]))

FsInfo(fs) == [sig |-> TRUE, free |-> fs.free_clust, nxt |-> fs.last_clust]

\* The FSInfo sector is built in the window, which then holds no sector, and
\* a failure to write it is ignored.  CTRL_SYNC waits for the card.
sync_fs(v) ==
  Then(sync_window(v), LAMBDA w :
    IF w.fs.fs_type = "FAT32" /\ w.fs.fsi_flag
    THEN LET i == [w EXCEPT !.fs.winsect = 0, !.fs.win = FsInfo(w.fs)]
         IN  Access([disk_write(i, w.fs.fsi_sector, i.fs.win) EXCEPT !.fs.fsi_flag = FALSE])
    ELSE Access(w))

--------------------------------------------------------------------------------
(* The FAT.                                                                *)

\* 0 when there is no such cluster.
clust2sect(fs, clst) ==
  IF clst \in 2 .. fs.n_fatent - 1 THEN (clst - 2) * fs.csize + fs.database ELSE 0

FatSector(fs, clst) == fs.fatbase + clst \div Eps(fs.fs_type)

get_fat(v, clst) ==
  IF clst \notin 2 .. v.fs.n_fatent - 1 THEN Gives(v, 1)
  ELSE With(move_window(v, FatSector(v.fs, clst)), LAMBDA w :
         Gives(w, IF w.res = "OK" THEN w.fs.win[clst % Eps(w.fs.fs_type)] ELSE BAD))

\* wflag is set even when the window could not be moved: its old sector is
\* then written again.
put_fat(v, clst, link) ==
  IF clst \notin 2 .. v.fs.n_fatent - 1 THEN Err(v, "INT_ERR")
  ELSE With([move_window(v, FatSector(v.fs, clst)) EXCEPT !.fs.wflag = TRUE], LAMBDA w :
         IF w.res = "OK" THEN [w EXCEPT !.fs.win[clst % Eps(w.fs.fs_type)] = link] ELSE w)

\* free_clust is a DWORD: below 0 comes 0xFFFFFFFF, which is "unknown".
CountFree(v, up) ==
  LET f == v.fs.free_clust IN
  IF f = BAD THEN v
  ELSE [v EXCEPT !.fs.fsi_flag = TRUE,
                 !.fs.free_clust = IF up THEN f + 1 ELSE IF f = 0 THEN BAD ELSE f - 1]

RECURSIVE Unlink(_, _)
Unlink(v, clst) ==
  IF clst >= v.fs.n_fatent THEN Ok(v)
  ELSE With(get_fat(v, clst), LAMBDA g :
         CASE g.val = 0   -> g
           [] g.val = 1   -> Err(g, "INT_ERR")
           [] g.val = BAD -> Err(g, "DISK_ERR")
           [] g.val \notin {0, 1, BAD} ->
                Then(put_fat(g, clst, 0), LAMBDA p : Unlink(CountFree(p, TRUE), g.val)))

remove_chain(v, clst) ==
  IF clst \notin 2 .. v.fs.n_fatent - 1 THEN Err(v, "INT_ERR") ELSE Unlink(v, clst)

\* The next free cluster after ncl, going round to scl; 0, 1 or BAD if none.
RECURSIVE FindFree(_, _, _)
FindFree(v, ncl, scl) ==
  LET wraps == ncl + 1 >= v.fs.n_fatent
      n     == IF wraps THEN 2 ELSE ncl + 1
  IN  IF wraps /\ scl < 2 THEN Gives(v, 0)
      ELSE With(get_fat(v, n), LAMBDA g :
             IF g.val = 0 THEN Gives(g, n)
             ELSE IF g.val \in {1, BAD} THEN g
             ELSE IF n = scl THEN Gives(g, 0)
             ELSE FindFree(g, n, scl))

\* v after the links to cluster n were written.
Linked(v, n) ==
  IF v.res = "OK" THEN Gives(CountFree([v EXCEPT !.fs.last_clust = n], FALSE), n)
  ELSE Gives(v, IF v.res = "DISK_ERR" THEN BAD ELSE 1)

\* The new cluster is the last link before another one points to it.
Allocate(v, clst, scl) ==
  With(FindFree(v, scl, scl), LAMBDA f :
    IF f.val \in {0, 1, BAD} THEN f
    ELSE Linked(Then(put_fat(f, f.val, EOC), LAMBDA p :
                  IF clst # 0 THEN put_fat(p, clst, f.val) ELSE p), f.val))

\* Where the search for the first cluster of a chain begins.
Suggested(fs) == IF fs.last_clust = 0 \/ fs.last_clust >= fs.n_fatent THEN 1 ELSE fs.last_clust

\* A new chain (clst = 0), or the cluster after clst, allocated at the end of the
\* chain.  An error in reading the link of clst counts as the end: BAD is not
\* below n_fatent.
create_chain(v, clst) ==
  IF clst = 0 THEN Allocate(v, 0, Suggested(v.fs))
  ELSE With(get_fat(v, clst), LAMBDA g :
         IF g.val < 2 THEN Gives(g, 1)
         ELSE IF g.val < v.fs.n_fatent THEN g
         ELSE Allocate(g, clst, clst))

--------------------------------------------------------------------------------
(* The directory: the root, which is the only one Balsamo uses.            *)

dir_sdi(v) ==
  LET root == IF v.fs.fs_type = "FAT32" THEN v.fs.dirbase ELSE 0
      sect == IF root = 0 THEN v.fs.dirbase ELSE clust2sect(v.fs, root)
  IN  Ok([v EXCEPT !.dj = [index |-> 0, clust |-> root, sect |-> sect, dir |-> 0]])

\* A new cluster of the directory is cleared on the card, from sector c on.
RECURSIVE ZeroFill(_, _, _)
ZeroFill(v, clst, c) ==
  IF c = v.fs.csize THEN [v EXCEPT !.fs.winsect = clust2sect(v.fs, clst)]
  ELSE Then(sync_window([v EXCEPT !.fs.win = Clear, !.fs.wflag = TRUE,
                                  !.fs.winsect = clust2sect(v.fs, clst) + c]),
            LAMBDA w : ZeroFill(w, clst, c + 1))

\* The directory is as long as it gets; it may be made longer.
Stretch(v) ==
  With(create_chain(v, v.dj.clust), LAMBDA c :
    CASE c.val = 0   -> Err(c, "DENIED")
      [] c.val = 1   -> Err(c, "INT_ERR")
      [] c.val = BAD -> Err(c, "DISK_ERR")
      [] c.val \notin {0, 1, BAD} -> Then(sync_window(c), LAMBDA w : ZeroFill(w, c.val, 0)))

\* The cluster of the directory after dj.clust, into v.val.
NextDirCluster(v, stretch) ==
  With(get_fat(v, v.dj.clust), LAMBDA g :
    IF g.val < 2 THEN Err(g, "INT_ERR")
    ELSE IF g.val = BAD THEN Err(g, "DISK_ERR")
    ELSE IF g.val < v.fs.n_fatent THEN g
    ELSE IF stretch THEN Stretch(g)
    ELSE Err(g, "NO_FILE"))

dir_next(v, stretch) ==
  LET i == v.dj.index + 1
      At(w) == [w EXCEPT !.dj.index = i, !.dj.dir = i % Dps]
      s == [v EXCEPT !.dj.sect = @ + 1]
  IN  IF i % Dps # 0 THEN Ok(At(v))
      ELSE IF v.dj.clust = 0 THEN IF i >= v.fs.n_rootdir THEN Err(s, "NO_FILE") ELSE Ok(At(s))
      ELSE IF (i \div Dps) % v.fs.csize # 0 THEN Ok(At(s))
      ELSE Then(NextDirCluster(s, stretch), LAMBDA c :
             At([c EXCEPT !.dj.clust = c.val, !.dj.sect = clust2sect(c.fs, c.val)]))

Entry(v) == v.fs.win[v.dj.dir]

RECURSIVE FindFrom(_, _)
FindFrom(v, name) ==
  Then(move_window(v, v.dj.sect), LAMBDA w :
    IF Entry(w).name = "free" THEN Err(w, "NO_FILE")
    ELSE IF Entry(w).name = name THEN w
    ELSE Then(dir_next(w, FALSE), LAMBDA n : FindFrom(n, name)))

dir_find(v, name) == FindFrom(dir_sdi(v), name)

RECURSIVE BlankFrom(_)
BlankFrom(v) ==
  Then(move_window(v, v.dj.sect), LAMBDA w :
    IF Entry(w).name \in {"free", "DDE"} THEN w
    ELSE Then(dir_next(w, TRUE), BlankFrom))

dir_alloc(v) == BlankFrom(dir_sdi(v))

dir_register(v, name) ==
  Then(dir_alloc(v), LAMBDA a :
    Then(move_window(a, a.dj.sect), LAMBDA w :
      [w EXCEPT !.fs.win[w.dj.dir] = [NoEntry EXCEPT !.name = name], !.fs.wflag = TRUE]))

\* A path of Balsamo is one name in the root.
follow_path(v, name) == dir_find(v, name)

================================================================================
