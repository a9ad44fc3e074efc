-------------------------------- MODULE TelFilt --------------------------------
(***************************************************************************)
(* The call filter (tel_filt.c): the black or white list ("phone book"),   *)
(* kept as '\0'-terminated strings in one array that three cursors of type *)
(* unsigned char walk, and the lines of BALSAMO.CFG it is saved to.        *)
(*                                                                         *)
(* The functions of the module are operators on a record, because their    *)
(* callers in user_if.c call two or three of them in a row; the actions    *)
(* are those callers.  A character is a number, 0 is '\0'.                 *)
(*                                                                         *)
(* The card may refuse any line of a file, and the power may fail between  *)
(* two events or while a file is being written.                            *)
(***************************************************************************)
EXTENDS Naturals, Sequences, SequencesExt

CONSTANTS
  TF_BUFLEN,   \* length of the array (1024)
  CursorSize,    \* values of the type of the cursors (256)
  Numbers,     \* the numbers that are added and that call
  MaxBook      \* bound of the model: bytes of the phone book

ASSUME BookAssumption ==
  /\ CursorSize \in Nat \ {0}
  /\ TF_BUFLEN \in Nat \ {0}
  /\ \A n \in Numbers : n \in Seq(Nat \ {0}) /\ n # <<>>

\* With more bytes the cursors wrap, and nothing below would hold (255 in the code).
ASSUME BoundAssumption == MaxBook \in Nat /\ MaxBook < CursorSize

VARIABLES
  tf,      \* the static variables of tel_filt.c
  card,    \* BALSAMO.CFG
  scr,     \* the screen, as far as the phone book is concerned, or PANIC()
  shown,   \* the number on the second line of the display
  no,      \* the answer selected in TEL_DELETE is NO
  saved    \* history: the last TfCfgSave succeeded

telFiltVars == <<tf, card, scr, shown, no, saved>>

TF_MODE_BLACKLIST == 0
TF_MODE_WHITELIST == 1
TF_NUM_OK == 0
TF_NUM_REJECT == 1
TF_FILTER_DISABLED == 2

NULL == <<>>     \* no number is the empty string
Cells == 0..TF_BUFLEN-1

\* The static variables of the module after TfInit.
EmptyBook(mode, filtHidden) ==
  [nums |-> [i \in Cells |-> 0], mode |-> mode, end |-> 0, readPos |-> 0,
   pos |-> 0, filtHidden |-> filtHidden, filtDisabled |-> FALSE]

strlen(nums, i) ==
  (CHOOSE k \in i..TF_BUFLEN :
     (k = TF_BUFLEN \/ nums[k] = 0) /\ \A j \in i..k-1 : nums[j] # 0) - i

String(nums, i) == [k \in 1..strlen(nums, i) |-> nums[i + k - 1]]

--------------------------------------------------------------------------------
Fits(b, number) == b.end + Len(number) + 1 <= TF_BUFLEN

\* The number and its '\0' are copied to the end, if they fit.
TfNumAdd(b, number) ==
  IF ~Fits(b, number) THEN b
  ELSE [b EXCEPT !.nums = [i \in Cells |->
                              IF i - b.end \in 0..Len(number)-1
                                THEN number[i - b.end + 1]
                                ELSE IF i = b.end + Len(number) THEN 0 ELSE @[i]],
                  !.end = (@ + Len(number) + 1) % CursorSize]

\* Whether the loop of TfNumCheck stops at the number before the end.
Found(b, number) ==
  LET at[i \in Nat] == IF i >= b.end THEN FALSE
                       ELSE \/ String(b.nums, i) = number
                            \/ at[i + strlen(b.nums, i) + 1]
  IN at[0]

\* Fault: a number that is not in the white list is rejected though the filter
\* is disabled.
TfNumCheck_IgnoresSwitch(b, number) ==
  IF Found(b, number) = (b.mode = TF_MODE_WHITELIST) THEN TF_NUM_OK
  ELSE IF b.filtDisabled /\ b.mode = TF_MODE_BLACKLIST THEN TF_FILTER_DISABLED
  ELSE TF_NUM_REJECT

TfNumCheck(b, number) ==
  IF Found(b, number) = (b.mode = TF_MODE_WHITELIST) THEN TF_NUM_OK
  ELSE IF b.filtDisabled THEN TF_FILTER_DISABLED ELSE TF_NUM_REJECT

--------------------------------------------------------------------------------
\* Browsing: the cursors after a call, and what the call returned.

\* Fault: pos stays at the number shown before.
Next1_KeepsPos(b) ==
  [b EXCEPT !.readPos = (@ + strlen(b.nums, b.readPos) + 1) % CursorSize]

Next1(b) ==
  [b EXCEPT !.pos = b.readPos,
             !.readPos = (@ + strlen(b.nums, b.readPos) + 1) % CursorSize]

TfNumGetNext(b) == IF b.readPos >= b.end THEN b ELSE Next1(b)
NextNum(b) == IF b.readPos >= b.end THEN NULL ELSE String(b.nums, b.readPos)

TfNumGetFirst(b) == TfNumGetNext([b EXCEPT !.readPos = 0])
FirstNum(b) == NextNum([b EXCEPT !.readPos = 0])

\* Where the loop of TfNumGetPrev stops: after the '\0' before the last one.
PrevPos(b) ==
  LET back[p \in 0..CursorSize-1] == IF p = 0 THEN 0
                                     ELSE IF b.nums[p - 1] = 0 THEN p ELSE back[p - 1]
  IN back[(b.pos + CursorSize - 2) % CursorSize]

\* Fault: readPos keeps its place, past the number shown before.
TfNumGetPrev_NoReadPos(b) ==
  IF b.pos = 0 THEN b ELSE [b EXCEPT !.pos = PrevPos(b)]

TfNumGetPrev(b) ==
  IF b.pos = 0 THEN b ELSE [b EXCEPT !.readPos = b.pos, !.pos = PrevPos(b)]
PrevNum(b) == IF b.pos = 0 THEN NULL ELSE String(b.nums, PrevPos(b))

\* What follows readPos is moved down to pos.
TfNumDelete(b) ==
  LET n == IF b.readPos < b.end THEN b.end - b.readPos ELSE 0
  IN [b EXCEPT !.nums = [i \in Cells |-> IF i - b.pos \in 0..n-1
                                            THEN @[b.readPos + i - b.pos] ELSE @[i]],
                !.readPos = (@ + n) % CursorSize,
                !.end = (b.pos + n) % CursorSize]

TfDisable(b) == [b EXCEPT !.filtDisabled = TRUE]
TfEnable(b) == [b EXCEPT !.filtDisabled = FALSE]

--------------------------------------------------------------------------------
(***************************************************************************)
(* BALSAMO.CFG.  A file is what has been written before it was closed: how *)
(* many of the two header lines (mode and hidden callers), and numbers.    *)
(***************************************************************************)
\* The positions that TfNumGetFirst and the TfNumGetNext after it pass through
\* until one returns NULL, and the numbers they return.
Starts(b) ==
  LET walk[p \in Nat] ==
        IF p >= b.end THEN <<>>
        ELSE <<p>> \o walk[(p + strlen(b.nums, p) + 1) % CursorSize]
  IN walk[0]
Book(b) == LET at == Starts(b) IN [k \in 1..Len(at) |-> String(b.nums, at[k])]

\* The cursors when the walk is at its k-th number, or has found none.
Walked(b, k) == IF k = 0 THEN [b EXCEPT !.readPos = 0]
                ELSE TfNumGetNext([b EXCEPT !.readPos = Starts(b)[k]])

\* Fault: the first line is always that of a blacklist.
Written_AlwaysBlack(b) ==
  [hdr |-> 2, mode |-> TF_MODE_BLACKLIST, filtHidden |-> b.filtHidden, list |-> Book(b)]

\* What TfCfgSave writes, and the cursors it leaves at the last number.
Written(b) == [hdr |-> 2, mode |-> b.mode, filtHidden |-> b.filtHidden,
                list |-> Book(b)]
TfCfgSave(b) == Walked(b, Len(Starts(b)))

\* The file when writing stops after k lines.
Cut(file, k) == [file EXCEPT !.hdr = IF k < 2 THEN k ELSE 2,
                             !.list = IF k < 2 THEN <<>> ELSE SubSeq(@, 1, k - 2)]

Parses(file) == file.hdr = 2

\* TfInit, and a TfNumAdd for each line after the header.
TfParseConfig(file) ==
  LET f[n \in 0..Len(file.list)] ==
        IF n = 0 THEN EmptyBook(file.mode, file.filtHidden)
                 ELSE TfNumAdd(f[n - 1], file.list[n])
  IN f[Len(file.list)]

--------------------------------------------------------------------------------
TelFiltInit ==
  /\ card \in [hdr : {2}, mode : {TF_MODE_BLACKLIST, TF_MODE_WHITELIST},
               filtHidden : {TRUE}, list : {<<>>}]
  /\ tf = TfParseConfig(card)
  /\ scr = "MENU" /\ shown = NULL /\ no = TRUE /\ saved = TRUE

InBounds(num) == tf.end + Len(num) + 1 <= MaxBook   \* bound of the model

\* TfCfgSave for the changed phone book b: the file is written in full, or not
\* at all because it cannot be opened, or up to a line the card refuses or at
\* which the power fails.  The callers ignore the result.
SaveAndIdle(b) ==
  /\ \/ tf' = TfCfgSave(b) /\ card' = Written(b) /\ saved' = TRUE
     \/ tf' = b /\ UNCHANGED card /\ saved' = FALSE
     \/ \E k \in 0..Len(Book(b)) + 1 :
          /\ tf' = IF k < 2 THEN b ELSE Walked(b, k - 1)
          /\ card' = Cut(Written(b), k)
          /\ saved' = FALSE
  /\ scr' = "MENU" /\ shown' = NULL
  /\ UNCHANGED no

\* A typed number, the last one or a recent one: user_if.c adds it and saves.
Add(num) ==
  /\ scr = "MENU" /\ InBounds(num)
  /\ SaveAndIdle(TfNumAdd(tf, num))

\* UifStateEnter(UIF_TEL_LIST)
OpenList ==
  /\ scr = "MENU"
  /\ scr' = "TEL_LIST"
  /\ tf' = TfNumGetFirst(tf) /\ shown' = FirstNum(tf)
  /\ UNCHANGED <<card, no, saved>>

\* The display is left alone when there is no number to show.
Show(t, num) ==
  /\ scr = "TEL_LIST"
  /\ tf' = t
  /\ shown' = IF num = NULL THEN shown ELSE num
  /\ UNCHANGED <<card, scr, no, saved>>

BrowseUp == Show(TfNumGetPrev(tf), PrevNum(tf))
BrowseDown == Show(TfNumGetNext(tf), NextNum(tf))

\* The second line stays as it is.
AskDelete ==
  /\ scr = "TEL_LIST"
  /\ scr' = "TEL_DELETE" /\ no' = TRUE
  /\ UNCHANGED <<tf, card, shown, saved>>

Toggle ==
  /\ scr = "TEL_DELETE"
  /\ no' = ~no
  /\ UNCHANGED <<tf, card, scr, shown, saved>>

Delete == scr = "TEL_DELETE" /\ ~no /\ SaveAndIdle(TfNumDelete(tf))

\* ESC, the answer NO, or a call.
Leave ==
  /\ scr \in {"TEL_LIST", "TEL_DELETE"}
  /\ scr' = "MENU" /\ shown' = NULL
  /\ UNCHANGED <<tf, card, no, saved>>

\* The enable/disable screen.
Switch ==
  /\ scr = "MENU"
  /\ tf' = IF tf.filtDisabled THEN TfEnable(tf) ELSE TfDisable(tf)
  /\ UNCHANGED <<card, scr, shown, no, saved>>

\* The device is switched off and on; main.c stops if the file does not parse.
Boot ==
  /\ scr' = IF Parses(card) THEN "MENU" ELSE "PANIC"
  /\ tf' = IF Parses(card) THEN TfParseConfig(card)
                           ELSE EmptyBook(TF_MODE_BLACKLIST, FALSE)
  /\ shown' = NULL /\ no' = TRUE
  /\ saved' = Parses(card)
  /\ UNCHANGED card

TelFiltNext ==
  \/ \E num \in Numbers : Add(num)
  \/ OpenList \/ BrowseUp \/ BrowseDown \/ AskDelete \/ Toggle \/ Delete \/ Leave
  \/ Switch \/ Boot

TelFiltSpec == TelFiltInit /\ [][TelFiltNext]_telFiltVars

--------------------------------------------------------------------------------
Browsing == scr \in {"TEL_LIST", "TEL_DELETE"}

\* The place of the current number in the book.
CursorIndex(b) ==
  LET at == Starts(b) IN CHOOSE k \in DOMAIN at : at[k] = b.pos

P == INSTANCE PhoneBook WITH
       list <- Book(tf), stored <- card.list,
       cur <- IF Browsing /\ Book(tf) # <<>> THEN CursorIndex(tf) ELSE 0

\* tel_filt.h: through add, delete, browse, save and restart the array and its
\* cursors behave as the list of PhoneBook, and a deletion removes the number
\* under the cursor.
ImplementsPhoneBook == P!Spec

\* user_if.c:545-549, 925-930: the display shows the number under the cursor,
\* which a deletion would remove, and none if and only if the book is empty.
ShowsTheCursor ==
  Browsing => shown = IF Book(tf) = <<>> THEN NULL ELSE Book(tf)[CursorIndex(tf)]

\* tel_filt.c:96-115, README.md:12: a call is let through exactly when its
\* number is, in a white list, or is not, in a black list, among the numbers the
\* user can browse; while the filter is disabled no call is rejected.
FiltersTheList ==
  LET list == Book(tf)
      Listed(n) == \E k \in DOMAIN list : list[k] = n
  IN \A n \in Numbers :
       /\ TfNumCheck(tf, n) = TF_NUM_OK <=> (Listed(n) <=> tf.mode = TF_MODE_WHITELIST)
       /\ TfNumCheck(tf, n) = TF_NUM_REJECT => ~tf.filtDisabled

\* tel_filt.c:184-266: when the last save succeeded, switching the device off
\* and on loses no number, no duplicate and neither setting.
BootRestoresBook ==
  [][Boot /\ saved => /\ Book(tf') = Book(tf)
                      /\ tf'.mode = tf.mode /\ tf'.filtHidden = tf.filtHidden]_telFiltVars
================================================================================
