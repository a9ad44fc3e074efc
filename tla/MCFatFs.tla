-------------------------------- MODULE MCFatFs --------------------------------
\* Cards with a partition of FAT16 and with a volume of FAT32, and cards whose
\* boot records must be refused; and, apart from them, a directory of long names.
EXTENDS FatFs

CONSTANTS
  Layers,     \* what is checked: "files" (FatFs), "names" (FatNames)
  Names, NB, SEG, N

VARIABLES layer, entries, names

Dir == INSTANCE FatNames WITH dir <- entries

Boot16 == [sig |-> TRUE, fat |-> TRUE, part |-> 0, bytsPerSec |-> SS, fatSz |-> 4,
           numFats |-> 2, secPerClus |-> 2, rootEntCnt |-> 4, totSec |-> 21, rsvd |-> 1,
           rootClus |-> 0, fsInfo |-> 0]
Boot32 == [Boot16 EXCEPT !.fatSz = 12, !.numFats = 1, !.secPerClus = 1, !.rootEntCnt = 0,
                         !.totSec = 24, !.rsvd = 2, !.rootClus = 2, !.fsInfo = 1]

McSettings == {[mode |-> "BLACK", hidden |-> "ALLOW", nums |-> <<>>],
               [mode |-> "WHITE", hidden |-> "ALLOW", nums |-> <<"7">>]}
McLines == {<<"x", LF>>, <<"y", "z", LF>>}
OldCfg == CfgFile([mode |-> "BLACK", hidden |-> "REJECT", nums |-> <<>>])
Wav == <<"0", "1", "2", "3", "4", "5", "6", "7", "8">>

\* Sectors that were never written hold zeros, which is also an empty directory.
\* A card with boot record b at sector base, and the files of dir in the chains
\* of their clusters; the free clusters hold nothing, which leaves out what a deleted
\* file would leave in one that a directory gets.
Card(b, base, dir, root) ==
  LET g == Geometry(b, base)
      chains == {root} \cup {dir[i].chain : i \in DOMAIN dir}
      next(c) == IF \E ch \in chains : c \in ToSet(ch)
                 THEN LET ch == CHOOSE ch \in chains : c \in ToSet(ch)
                          i == CHOOSE i \in DOMAIN ch : ch[i] = c
                      IN  IF i = Len(ch) THEN EOC ELSE ch[i + 1]
                 ELSE 0
      fat(i) == [k \in 0 .. Eps(g.fs_type)-1 |-> next(i * Eps(g.fs_type) + k)]
      entry(i) == IF i \notin DOMAIN dir THEN NoEntry
                  ELSE [name |-> dir[i].name, size |-> Len(dir[i].data),
                        clust |-> IF dir[i].chain = <<>> THEN 0 ELSE dir[i].chain[1]]
      dirs == IF root = <<>> THEN [i \in 1 .. b.rootEntCnt \div Dps |-> g.dirbase + i - 1]
              ELSE SectorsOf(g, root)
      byte(s, k) == LET held == {<<i, j>> \in (DOMAIN dir) \X (1..20) :
                                   /\ j <= Len(dir[i].data)
                                   /\ SectorsOf(g, dir[i].chain)[(j - 1) \div SS + 1] = s
                                   /\ (j - 1) % SS = k}
                    IN  IF held = {} THEN "?"
                        ELSE LET h == CHOOSE h \in held : TRUE IN dir[h[1]].data[h[2]]
  IN  [s \in 0 .. base + b.totSec - 1 |->
         IF s = base THEN b
         ELSE IF s = 0 THEN [b EXCEPT !.fat = FALSE, !.part = base]
         ELSE IF s \in g.fatbase .. g.fatbase + g.n_fats * g.fsize - 1
              THEN fat((s - g.fatbase) % g.fsize)
         ELSE IF s \in ToSet(dirs)
              THEN LET n == CHOOSE n \in DOMAIN dirs : dirs[n] = s
                   IN  [k \in 0..Dps-1 |-> entry((n - 1) * Dps + k + 1)]
         ELSE IF s = g.fsi_sector /\ b.fsInfo # 0 THEN [sig |-> TRUE, free |-> 4, nxt |-> 7]
         ELSE IF \E i \in DOMAIN dir : s \in ToSet(SectorsOf(g, dir[i].chain))
              THEN [k \in 0..SS-1 |-> byte(s, k)]
         ELSE Clear]

File(name, data, chain) == [name |-> name, data |-> data, chain |-> chain]

\* A log that ends just before a cluster does, and a deleted entry in between.
Card16(b) == Card(b, 1, <<File("wav", Wav, <<2, 4>>), File("DDE", <<>>, <<>>),
                          File("cfg", OldCfg, <<5>>), File("log", <<"a", "b", "c", "d", "e", "f", "g">>, <<3>>)>>, <<>>)

\* No log yet, and a full directory of one cluster.
Card32(b) == Card(b, 0, <<File("wav", Wav, <<5, 3, 6>>), File("cfg", OldCfg, <<4, 7>>)>>, <<2>>)

McCards ==
  {Card16(Boot16), Card32(Boot32)}
    \cup {Card16(b) : b \in {[Boot16 EXCEPT !.fatSz = 3], [Boot16 EXCEPT !.sig = FALSE],
                             [Boot16 EXCEPT !.fat = FALSE], [Boot16 EXCEPT !.bytsPerSec = 2 * SS]}}
    \cup {Card32([Boot32 EXCEPT !.fatSz = 11])}

\* Long names that collide, a short one in large and in mixed letters.
McNames == {<<"A">>, <<"a", "b">>, <<"A", "b">>, <<"A", "b", "c", "d">>, <<"a", "b", "c", "d", "a">>}

McInit ==
  /\ layer \in Layers /\ Init /\ Dir!Init
  /\ layer = "names" => disk = Card16(Boot16)
  /\ layer = "files" => Head(entries) = Dir!End

McNext ==
  /\ UNCHANGED layer
  /\ \/ layer = "files" /\ Next /\ UNCHANGED <<entries, names>>
     \/ layer = "names" /\ Dir!Next /\ UNCHANGED vars

McSpec == McInit /\ [][McNext]_<<layer, vars, entries, names>>

FindsItsOwn == layer = "names" => Dir!FindsItsOwn
================================================================================
