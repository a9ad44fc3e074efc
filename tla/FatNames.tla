-------------------------------- MODULE FatNames --------------------------------
(***************************************************************************)
(* The names in a directory of FatFs: long names (_USE_LFN = 1) in entries *)
(* of their own before the short name, which is a numbered one if the long *)
(* name does not fit in it.  Files are created, removed and renamed by     *)
(* those names, and power goes between any two entries that are written.   *)
(*                                                                         *)
(* A name is a sequence of letters, without an extension.  FatFiles has    *)
(* the directory in its sectors, for the names that need one entry.        *)
(***************************************************************************)
EXTENDS Naturals, FiniteSets, SequencesExt

CONSTANTS
  Names,      \* the names in use, without "~"
  NB,         \* letters of a short name (8)
  SEG,        \* letters in an entry of a long name (13)
  N           \* entries of the directory

VARIABLES
  dir,        \* the directory: a sequence of N entries
  names       \* history: the names of the files, in capitals

Capital == [c \in {"a", "b", "c", "d"} |-> CASE c = "a" -> "A" [] c = "b" -> "B" [] c = "c" -> "C" [] c = "d" -> "D"]
IsLower(c) == c \in DOMAIN Capital
IsUpper(c) == \E l \in DOMAIN Capital : Capital[l] = c
Lower(c) == IF IsUpper(c) THEN CHOOSE l \in DOMAIN Capital : Capital[l] = c ELSE c
ff_wtoupper(c) == IF IsLower(c) THEN Capital[c] ELSE c
Upper(str) == [i \in DOMAIN str |-> ff_wtoupper(str[i])]
Digits == <<"1", "2", "3", "4", "5">>
Code == [c \in {"A", "B", "C", "D", "~"} |-> CASE c = "A" -> 65 [] c = "B" -> 66 [] c = "C" -> 67 [] c = "D" -> 68 [] c = "~" -> 126]

\* The entries.  Those of a long name are numbered from the end, and the first of
\* them in the directory, the last of the name, is marked (LLE).
End == [kind |-> "end"]
DDE == [kind |-> "deleted"]
Volume == [kind |-> "volume"]
Short(fn, nt) == [kind |-> "sfn", fn |-> fn, nt |-> nt]

Blank(e) == e \in {End, DDE}

NoOrd == 255

--------------------------------------------------------------------------------
(* A name in directory form, and its parts.                                *)

\* LOSS: the short name is not the name; LFN: the long name is needed; nt: all its
\* letters are small (NS_BODY).
create_name(name) ==
  LET small == \E i \in DOMAIN name : IsLower(name[i])
      mixed == small /\ \E i \in 1 .. (IF Len(name) < NB THEN Len(name) ELSE NB) : IsUpper(name[i])
      loss  == Len(name) > NB
  IN  [lfn |-> name, fn |-> SubSeq(Upper(name), 1, IF loss THEN NB ELSE Len(name)),
       LOSS |-> loss, LFN |-> loss \/ mixed, nt |-> small /\ ~loss /\ ~mixed]

\* The number replaces the end of the short name.  From the sixth on it would be a
\* hash of the long name: there are fewer files here.
gen_numname(fn, seq) == SubSeq(fn, 1, IF Len(fn) < NB - 2 THEN Len(fn) ELSE NB - 2) \o <<"~", Digits[seq]>>

CodeOf(c) == IF c \in DOMAIN Code THEN Code[c] ELSE 48 + CHOOSE n \in DOMAIN Digits : Digits[n] = c
sum_sfn(fn) ==
  FoldLeft(LAMBDA sum, x : (sum \div 2 + (sum % 2) * 128 + x) % 256, 0,
           [i \in 1..11 |-> IF i <= Len(fn) THEN CodeOf(fn[i]) ELSE 32])

Parts(lfn) == (Len(lfn) + SEG - 1) \div SEG

fit_lfn(lfn, ord, sum) ==
  [kind |-> "lfn", ord |-> ord, last |-> ord = Parts(lfn), sum |-> sum,
   chars |-> SubSeq(lfn, (ord - 1) * SEG + 1, IF ord = Parts(lfn) THEN Len(lfn) ELSE ord * SEG)]

\* Fault: a longer name matches, too.
cmp_lfn_AnyLength(lfn, e) ==
  LET at == (e.ord - 1) * SEG
  IN  \A s \in DOMAIN e.chars : at + s <= Len(lfn) /\ ff_wtoupper(lfn[at + s]) = ff_wtoupper(e.chars[s])

\* A part behind the end of lfn, which the code compares with what an earlier name
\* left in the buffer, belongs to a name that fails with another of its parts.
cmp_lfn(lfn, e) ==
  LET at == (e.ord - 1) * SEG
  IN  /\ \A s \in DOMAIN e.chars : at + s <= Len(lfn) /\ ff_wtoupper(lfn[at + s]) = ff_wtoupper(e.chars[s])
      /\ e.last \/ Len(e.chars) < SEG => at + Len(e.chars) = Len(lfn)

--------------------------------------------------------------------------------
(* Search.                                                                 *)

\* The next entry of a long name, which has to follow the one before it.
NextPart(s, e, i) == IF e.last THEN [s EXCEPT !.sum = e.sum, !.ord = e.ord, !.lfn_idx = i] ELSE s
Follows(s, e) == e.ord = s.ord /\ e.sum = s.sum

Compare(s, lfn, e) == [s EXCEPT !.ord = IF Follows(s, e) /\ cmp_lfn(lfn, e) THEN @ - 1 ELSE NoOrd]

FindStep(s, e, i, c) ==
  IF s.found # 0 \/ s.end THEN s
  ELSE CASE e.kind = "end" -> [s EXCEPT !.end = TRUE]
         [] e.kind \in {"deleted", "volume"} -> [s EXCEPT !.ord = NoOrd]
         [] e.kind = "lfn" -> IF c.lfn = <<>> THEN s ELSE Compare(NextPart(s, e, i), c.lfn, e)
         [] e.kind = "sfn" ->
              IF s.ord = 0 /\ s.sum = sum_sfn(e.fn) THEN [s EXCEPT !.found = i]
              ELSE [s EXCEPT !.ord = NoOrd, !.lfn_idx = 0,
                             !.found = IF ~c.LOSS /\ e.fn = c.fn THEN i ELSE 0]

\* found: the short name's entry, 0 for FR_NO_FILE; lfn_idx: the first of its long
\* name, 0 if there is none.
dir_find(d, c) ==
  FoldLeft(LAMBDA s, i : FindStep(s, d[i], i, c),
           [found |-> 0, end |-> FALSE, ord |-> NoOrd, sum |-> NoOrd, lfn_idx |-> 0], [i \in 1..N |-> i])

Find(d, name) == dir_find(d, create_name(name))

\* What a program that lists the directory gets (f_readdir, get_fileinfo).
pick_lfn(s, e) == [s EXCEPT !.lfn = IF e.last THEN e.chars ELSE e.chars \o @]

ReadStep(s, e, i) ==
  IF s.end THEN s
  ELSE CASE e.kind = "end" -> [s EXCEPT !.end = TRUE]
         [] e.kind \in {"deleted", "volume"} -> [s EXCEPT !.ord = NoOrd]
         [] e.kind = "lfn" ->
              LET t == NextPart(s, e, i)
              IN  IF Follows(t, e) THEN [pick_lfn(t, e) EXCEPT !.ord = @ - 1] ELSE [t EXCEPT !.ord = NoOrd]
         [] e.kind = "sfn" ->
              [s EXCEPT !.ord = NoOrd,
                        !.list = Append(@, [at |-> i, name |->
                           IF s.ord = 0 /\ s.sum = sum_sfn(e.fn) THEN s.lfn
                           ELSE IF e.nt THEN [k \in DOMAIN e.fn |-> Lower(e.fn[k])] ELSE e.fn])]

dir_read(d) ==
  FoldLeft(LAMBDA s, i : ReadStep(s, d[i], i),
           [end |-> FALSE, ord |-> NoOrd, sum |-> NoOrd, lfn_idx |-> 0, lfn |-> <<>>, list |-> <<>>],
           [i \in 1..N |-> i]).list

--------------------------------------------------------------------------------
(* Changes: sequences of entries that are written.                         *)

\* The first of the entries for a name, 0 if there are not enough of them.
dir_alloc(d, nent) ==
  LET free == {i \in 1 .. N - nent + 1 : \A k \in i .. i + nent - 1 : Blank(d[k])}
  IN  IF free = {} THEN 0 ELSE CHOOSE i \in free : \A k \in free : i <= k

\* The short name under which c is registered: the first number that is free.
NumName(d, c) ==
  IF ~c.LOSS THEN c.fn
  ELSE LET taken(n) == dir_find(d, [c EXCEPT !.lfn = <<>>, !.fn = gen_numname(c.fn, n), !.LOSS = FALSE]).found # 0
           n == CHOOSE n \in DOMAIN Digits : ~taken(n) /\ \A m \in 1 .. n - 1 : taken(m)
       IN  gen_numname(c.fn, n)

Put(i, e) == [at |-> i, e |-> e]

\* <<>>: FR_DENIED.
dir_register(d, c) ==
  LET ne == IF c.LFN THEN Parts(c.lfn) ELSE 0
      fn == NumName(d, c)
      at == dir_alloc(d, ne + 1)
  IN  IF at = 0 THEN <<>>
      ELSE [j \in 1..ne |-> Put(at + j - 1, fit_lfn(c.lfn, ne - j + 1, sum_sfn(fn)))]
             \o <<Put(at + ne, Short(fn, c.nt))>>

dir_remove(f) ==
  LET top == IF f.lfn_idx = 0 THEN f.found ELSE f.lfn_idx
  IN  [j \in 1 .. f.found - top + 1 |-> Put(top + j - 1, DDE)]

\* The directory when the first k of writes are on the card.
After(d, writes, k) ==
  FoldLeft(LAMBDA x, w : [x EXCEPT ![w.at] = w.e], d, SubSeq(writes, 1, k))

--------------------------------------------------------------------------------
(* Operations.  The power may go after k of their writes.                  *)

\* The names that are left when k of the entries f of name are deleted.
Without(left, name, f, writes, k) ==
  IF k = 0 THEN left
  ELSE (left \ {Upper(name)}) \cup (IF k = Len(writes) THEN {} ELSE {dir[f.found].fn})

\* With FA_OPEN_ALWAYS or FA_CREATE_ALWAYS.  A directory that is full denies it.
f_open(name) ==
  LET writes == dir_register(dir, create_name(name))
  IN  \/ /\ Find(dir, name).found = 0 /\ writes # <<>>
         /\ \E k \in 0..Len(writes) :
              /\ dir' = After(dir, writes, k)
              /\ names' = IF k = Len(writes) THEN names \cup {Upper(name)} ELSE names
      \/ /\ Find(dir, name).found # 0 \/ writes = <<>>
         /\ UNCHANGED <<dir, names>>

f_unlink(name) ==
  LET f == Find(dir, name)
      writes == dir_remove(f)
  IN  /\ f.found # 0
      /\ \E k \in 0..Len(writes) :
           /\ dir' = After(dir, writes, k)
           /\ names' = Without(names, name, f, writes, k)

\* The new name is written before the old one is removed.  Power that goes while it
\* is written leaves what it leaves in f_open.
f_rename(old, new) ==
  LET f == Find(dir, old)
      writes == dir_register(dir, create_name(new))
      removes == dir_remove(f)
  IN  /\ f.found # 0 /\ Find(dir, new).found = 0 /\ writes # <<>>
      /\ \E k \in Len(writes) .. Len(writes) + Len(removes) :
           /\ dir' = After(dir, writes \o removes, k)
           /\ names' = Without(names \cup {Upper(new)}, old, f, removes, k - Len(writes))

Init ==
  /\ dir \in {[i \in 1..N |-> End], [i \in 1..N |-> IF i = 1 THEN Volume ELSE End]}
  /\ names = {}

Next ==
  \/ \E name \in Names : f_open(name) \/ f_unlink(name)
  \/ \E old, new \in Names : f_rename(old, new)

Spec == Init /\ [][Next]_<<dir, names>>

--------------------------------------------------------------------------------
\* Through every power cut, the directory lists the names of the files, each once,
\* and each name, in capitals or not, finds its own file and no other: what a cut
\* leaves of a long name is not taken for the name of the file behind it, but that
\* "ab" may be listed as the "Ab" that was not finished.  A file whose removal was
\* cut short keeps its short name.
FindsItsOwn ==
  LET list == dir_read(dir)
  IN  /\ {Upper(f.name) : f \in ToSet(list)} = names /\ Len(list) = Cardinality(names)
      /\ \A f \in ToSet(list) : Find(dir, f.name).found = f.at
      /\ \A name \in Names : (Find(dir, name).found # 0) = (Upper(name) \in names)

================================================================================
