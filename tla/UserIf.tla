--------------------------------- MODULE UserIf --------------------------------
(***************************************************************************)
(* The user interface (user_if.c): the menu, the ring buffer of recent     *)
(* calls, the switch of the call filter, and what the menu does to the     *)
(* phone book, which is here the list and the cursor of PhoneBook.         *)
(*                                                                         *)
(* main.c hands on one event at a time: keys between calls only, and of a  *)
(* call its ring, its outcome and its end.                                 *)
(***************************************************************************)
EXTENDS Naturals, Sequences, SequencesExt

CONSTANTS
  UIF_NUM_RECENT_NUMS,  \* size of the ring buffer (10)
  Callers,              \* numbers, and what is shown for hidden callers
  NULL,                 \* no number
  MaxBook               \* bound of the model: numbers in the phone book

ASSUME UifAssumption ==
  /\ UIF_NUM_RECENT_NUMS \in Nat \ {0}
  /\ NULL \notin Callers

VARIABLES
  s,         \* ud.s
  book,      \* the phone book: its numbers
  cur,       \* and the one that is on the display, or 0
  rec,       \* ud.recNum, numFirst, numLast, numPos, numLastReturned, full
  filter_enabled,   \* what the menu says of the filter
  filtDisabled,     \* what the filter does (tel_filt.c)
  no,        \* the answer selected in a yes/no screen is NO
  shown,     \* the number on the display
  verdict,   \* what the display says of a call
  calls      \* history: the last callers, oldest first

phoneBook == <<book, cur>>
vars == <<s, phoneBook, rec, filter_enabled, filtDisabled, no, shown, verdict, calls>>

Slots == 0..UIF_NUM_RECENT_NUMS-1
--------------------------------------------------------------------------------
(***************************************************************************)
(* The recent calls.                                                       *)
(***************************************************************************)
NoCalls == [recNum |-> [i \in Slots |-> NULL], numFirst |-> 0, numLast |-> 0,
            numPos |-> 0, numLastReturned |-> 0, full |-> FALSE]

UifAdvance(cursor) == IF cursor + 1 = UIF_NUM_RECENT_NUMS THEN 0 ELSE cursor + 1
UifBack(cursor) == IF cursor # 0 THEN cursor - 1 ELSE UIF_NUM_RECENT_NUMS - 1

\* Fault: the oldest number stays the first one when it is overwritten.
UifInsert_KeepsFirst(num) ==
  LET last == UifAdvance(rec.numLast)
  IN [rec EXCEPT !.recNum[rec.numLast] = num, !.numLast = last,
                 !.full = @ \/ rec.numFirst = last]

UifInsert(num) ==
  LET last == UifAdvance(rec.numLast)
  IN [rec EXCEPT !.recNum[rec.numLast] = num, !.numLast = last,
                 !.numFirst = IF rec.full THEN last ELSE @,
                 !.full = @ \/ rec.numFirst = last]

NoneReceived == ~rec.full /\ rec.numFirst = rec.numLast

\* Each returns the cursors; the number is the one at numLastReturned, unless
\* there is none.
UifNumGetFirst ==
  IF NoneReceived THEN [rec EXCEPT !.numPos = rec.numFirst]
  ELSE [rec EXCEPT !.numLastReturned = rec.numFirst, !.numPos = UifAdvance(rec.numFirst)]

UifNumGetNext ==
  IF rec.numPos = rec.numLast THEN UifNumGetFirst
  ELSE [rec EXCEPT !.numLastReturned = rec.numPos, !.numPos = UifAdvance(@)]

UifNumGetLast ==
  IF NoneReceived THEN [rec EXCEPT !.numPos = rec.numLast]
  ELSE [rec EXCEPT !.numPos = UifBack(rec.numLast), !.numLastReturned = UifBack(rec.numLast)]

\* Fault: the way back does not stop at the oldest number.
UifNumGetPrev_NoWrap ==
  [rec EXCEPT !.numPos = UifBack(@), !.numLastReturned = UifBack(rec.numPos)]

UifNumGetPrev ==
  IF rec.numPos = rec.numFirst THEN UifNumGetLast
  ELSE [rec EXCEPT !.numPos = UifBack(@), !.numLastReturned = UifBack(rec.numPos)]

Returned(r) == r.recNum[r.numLastReturned]

--------------------------------------------------------------------------------
(***************************************************************************)
(* Changes of screen.                                                      *)
(***************************************************************************)
filter == <<filter_enabled, filtDisabled>>

\* UifStateEnter for the screens that show no number.
Enter(ns) ==
  /\ s' = ns
  /\ shown' = NULL /\ verdict' = "none" /\ cur' = 0
  /\ UNCHANGED <<book, rec, filter, no, calls>>

EnterAddLastNum ==
  /\ s' = "OPT_ADD_LAST_NUM"
  /\ rec' = UifNumGetLast
  /\ shown' = IF NoneReceived THEN NULL ELSE Returned(rec')
  /\ verdict' = "none"
  /\ UNCHANGED <<phoneBook, filter, no, calls>>

\* CALL_LIST_ADD and TEL_DELETE keep the number on the second line.
EnterYesNo(ns) ==
  /\ s' = ns /\ no' = TRUE
  /\ UNCHANGED <<phoneBook, rec, filter, shown, verdict, calls>>

EnterCallList(r) ==
  /\ s' = "CALL_LIST"
  /\ rec' = r
  /\ shown' = Returned(r)
  /\ verdict' = "none"
  /\ UNCHANGED <<phoneBook, filter, no, calls>>

Number(k) == IF k = 0 THEN NULL ELSE book[k]

EnterTelList ==
  /\ s' = "TEL_LIST"
  /\ cur' = IF book = <<>> THEN 0 ELSE 1
  /\ shown' = Number(cur')
  /\ verdict' = "none"
  /\ UNCHANGED <<book, rec, filter, no, calls>>

\* TfNumAdd or TfNumDelete, and TfCfgSave.
ChangeAndIdle(b) ==
  /\ s' = "IDLE" /\ shown' = NULL /\ verdict' = "none"
  /\ book' = b /\ cur' = 0
  /\ UNCHANGED <<rec, filter, no, calls>>

InBounds == Len(book) < MaxBook   \* bound of the model

--------------------------------------------------------------------------------
(***************************************************************************)
(* Keys.                                                                   *)
(***************************************************************************)
\* The keys that lead to a screen that shows no number.
Menu ==
  {<<"IDLE", "UP", "OPT_YEAR_SET">>, <<"IDLE", "DOWN", "OPT_ENABLE_DISABLE">>,
   <<"OPT_ENABLE_DISABLE", "UP", "IDLE">>, <<"OPT_ENABLE_DISABLE", "ESC", "IDLE">>,
   <<"OPT_ADD_LAST_NUM", "UP", "OPT_ENABLE_DISABLE">>,
   <<"OPT_ADD_LAST_NUM", "DOWN", "OPT_ADD_NUM">>, <<"OPT_ADD_LAST_NUM", "ESC", "IDLE">>,
   <<"OPT_ADD_NUM", "DOWN", "OPT_CALL_LIST">>, <<"OPT_ADD_NUM", "ENTER", "ADD_NUM">>,
   <<"OPT_ADD_NUM", "ESC", "IDLE">>, <<"ADD_NUM", "ESC", "OPT_ADD_NUM">>,
   <<"OPT_CALL_LIST", "UP", "OPT_ADD_NUM">>, <<"OPT_CALL_LIST", "DOWN", "OPT_TEL_LIST">>,
   <<"OPT_CALL_LIST", "ESC", "IDLE">>, <<"CALL_LIST", "ESC", "OPT_CALL_LIST">>,
   <<"OPT_TEL_LIST", "UP", "OPT_CALL_LIST">>, <<"OPT_TEL_LIST", "DOWN", "OPT_YEAR_SET">>,
   <<"OPT_TEL_LIST", "ESC", "IDLE">>, <<"TEL_LIST", "ESC", "OPT_TEL_LIST">>,
   <<"TEL_DELETE", "ESC", "IDLE">>, <<"OPT_YEAR_SET", "UP", "OPT_TEL_LIST">>,
   <<"OPT_YEAR_SET", "DOWN", "IDLE">>, <<"OPT_YEAR_SET", "ENTER", "YEAR_SET">>,
   <<"OPT_YEAR_SET", "ESC", "IDLE">>, <<"YEAR_SET", "ESC", "OPT_YEAR_SET">>,
   <<"YEAR_SET", "ENTER", "IDLE">>}

MenuKey == \E m \in Menu : s = m[1] /\ Enter(m[3])

AddLastNumScreen ==
  /\ s \in {"OPT_ENABLE_DISABLE", "OPT_ADD_NUM"}   \* DOWN, UP
  /\ EnterAddLastNum

TelListScreen == s = "OPT_TEL_LIST" /\ EnterTelList

\* ENTER in the call filter screen.
ToggleFilter ==
  /\ s = "OPT_ENABLE_DISABLE"
  /\ filter_enabled' = ~filter_enabled
  /\ filtDisabled' = filter_enabled      \* TfDisable, TfEnable
  /\ UNCHANGED <<s, phoneBook, rec, no, shown, verdict, calls>>

\* ENTER in the recent calls option, which looks for a call first.
OpenCallList ==
  /\ s = "OPT_CALL_LIST"
  /\ IF NoneReceived
       THEN /\ rec' = UifNumGetLast
            /\ UNCHANGED <<s, phoneBook, filter, no, shown, verdict, calls>>
       ELSE EnterCallList(UifNumGetLast)

BrowseCalls ==
  /\ s = "CALL_LIST"
  /\ rec' \in {UifNumGetPrev, UifNumGetNext}
  /\ shown' = Returned(rec')
  /\ UNCHANGED <<s, phoneBook, filter, no, verdict, calls>>

BrowseNumbers ==
  /\ s = "TEL_LIST"
  /\ cur' \in {cur - 1, cur + 1} \cap 1..Len(book)
  /\ shown' = Number(cur')
  /\ UNCHANGED <<s, book, rec, filter, no, verdict, calls>>

\* ENTER in a list asks for a confirmation; UP and DOWN change the answer.
AskAdd == s = "CALL_LIST" /\ EnterYesNo("CALL_LIST_ADD")
AskDelete == s = "TEL_LIST" /\ EnterYesNo("TEL_DELETE")

Toggle ==
  /\ s \in {"CALL_LIST_ADD", "TEL_DELETE"}
  /\ no' = ~no
  /\ UNCHANGED <<s, phoneBook, rec, filter, shown, verdict, calls>>

RefuseAdd ==
  \/ s = "CALL_LIST_ADD" /\ no /\ Enter("IDLE")         \* ENTER
  \/ s = "CALL_LIST_ADD" /\ EnterCallList(rec)          \* ESC

RefuseDelete == s = "TEL_DELETE" /\ no /\ Enter("IDLE")

\* The number typed, once UifStrInputEnter returns its length.
AddTyped ==
  /\ s = "ADD_NUM" /\ InBounds
  /\ \E num \in Callers : ChangeAndIdle(Append(book, num))

\* ENTER in the last number screen looks for the last number again.
AddLast ==
  /\ s = "OPT_ADD_LAST_NUM" /\ ~NoneReceived /\ InBounds
  /\ s' = "IDLE" /\ shown' = NULL /\ verdict' = "none"
  /\ rec' = UifNumGetLast
  /\ book' = Append(book, Returned(rec')) /\ cur' = 0
  /\ UNCHANGED <<filter, no, calls>>

\* Fault: the last call is added instead of the one displayed.
AddFromCalls_Last ==
  /\ s = "CALL_LIST_ADD" /\ ~no /\ InBounds
  /\ ChangeAndIdle(Append(book, Returned(UifNumGetLast)))

AddFromCalls ==
  /\ s = "CALL_LIST_ADD" /\ ~no /\ InBounds
  /\ ChangeAndIdle(Append(book, Returned(rec)))

Delete ==
  /\ s = "TEL_DELETE" /\ ~no
  /\ ChangeAndIdle(IF cur = 0 THEN book ELSE RemoveAt(book, cur))

--------------------------------------------------------------------------------
(***************************************************************************)
(* Calls                                                                   *)
(***************************************************************************)
\* SYS_RING goes before any screen.
Ring == s # "INCOMING_CALL" /\ Enter("INCOMING_CALL")

\* Fault: the filter is not asked whether it is disabled.
Verdicts_IgnoresSwitch == {"ALLOWED", "BLOCKED"}

\* TfNumCheck and TfFilterHidden, for the lists and modes of TelFilt, and what
\* main.c makes of them (main.c:271-313).
Verdicts == IF filtDisabled THEN {"ALLOWED"} ELSE {"ALLOWED", "BLOCKED"}

Outcome ==
  /\ s = "INCOMING_CALL" /\ verdict = "none"
  /\ \E num \in Callers :
       /\ shown' = num
       /\ verdict' \in Verdicts
       /\ rec' = UifInsert(num)
       /\ calls' = LET all == Append(calls, num)
                   IN IF Len(all) > UIF_NUM_RECENT_NUMS THEN Tail(all) ELSE all
  /\ UNCHANGED <<s, phoneBook, filter, no>>

NotSent ==
  /\ s = "INCOMING_CALL" /\ verdict = "none"
  /\ verdict' = "NO CALLER ID"
  /\ UNCHANGED <<s, phoneBook, rec, filter, no, shown, calls>>

CallEnd == s = "INCOMING_CALL" /\ verdict # "none" /\ Enter("IDLE")

\* UifInit starts with the year.
Init ==
  /\ s = "YEAR_SET"
  /\ book = <<>> /\ cur = 0
  /\ rec = NoCalls
  /\ filter_enabled = TRUE /\ filtDisabled = FALSE /\ no = FALSE
  /\ shown = NULL /\ verdict = "none"
  /\ calls = <<>>

Change == AddTyped \/ AddLast \/ AddFromCalls \/ Delete

Key ==
  \/ MenuKey \/ AddLastNumScreen \/ TelListScreen \/ ToggleFilter \/ OpenCallList
  \/ BrowseCalls \/ BrowseNumbers \/ AskAdd \/ AskDelete \/ Toggle
  \/ RefuseAdd \/ RefuseDelete \/ Change

Next == Key \/ Ring \/ Outcome \/ NotSent \/ CallEnd

Spec == Init /\ [][Next]_vars

--------------------------------------------------------------------------------
\* user_if.c:732-739, 862-887: a recent call is added as it is displayed, however
\* the list was browsed and whatever calls came in between.
AddsWhatIsShown ==
  [][AddLast \/ AddFromCalls => book' = Append(book, shown)]_vars

\* user_if.c:176-182: the ring buffer holds the last calls in their order.
RecentCallsInOrder ==
  LET n == IF rec.full THEN UIF_NUM_RECENT_NUMS
           ELSE (rec.numLast + UIF_NUM_RECENT_NUMS - rec.numFirst) % UIF_NUM_RECENT_NUMS
  IN calls = [k \in 1..n |-> rec.recNum[(rec.numFirst + k - 1) % UIF_NUM_RECENT_NUMS]]

\* user_if.c:213-260: browsing the recent calls never shows a slot of the ring
\* buffer that no call has filled, nor a number that has been overwritten.
ShowsRecentCalls ==
  s \in {"CALL_LIST", "CALL_LIST_ADD"} => shown \in Range(calls)

\* user_if.c:685-702, tel_filt.c:284-295: while the menu says that the filter is
\* off, no call is blocked.
OffBlocksNothing == verdict = "BLOCKED" => filter_enabled
================================================================================
