------------------------------ MODULE UserIfProofs ------------------------------
(***************************************************************************)
(* Theorems about UserIf, for every size of the ring buffer of recent      *)
(* calls, and any numbers; and about StrInput, for every length of a       *)
(* number and of a year.                                                   *)
(***************************************************************************)
EXTENDS MCUserIf, Induction

--------------------------------------------------------------------------------
(* The ring buffer.                                                        *)

RecentCalls == [recNum : [Slots -> Callers \cup {NULL}], numFirst : Slots, numLast : Slots,
                numPos : Slots, numLastReturned : Slots, full : BOOLEAN]

Size(r) == IF r.full THEN UIF_NUM_RECENT_NUMS
           ELSE IF r.numFirst <= r.numLast THEN r.numLast - r.numFirst
           ELSE r.numLast + UIF_NUM_RECENT_NUMS - r.numFirst

\* The slot of the k-th call.
At(r, k) == IF r.numFirst + k - 1 < UIF_NUM_RECENT_NUMS THEN r.numFirst + k - 1
            ELSE r.numFirst + k - 1 - UIF_NUM_RECENT_NUMS

\* The slots that hold a call.
Live(r) == {i \in Slots : \/ r.full
                          \/ r.numFirst <= i /\ i < r.numLast
                          \/ r.numLast < r.numFirst /\ (r.numFirst <= i \/ i < r.numLast)}

\* RecentCallsInOrder, call by call.
RingInv ==
  /\ rec \in RecentCalls
  /\ rec.full => rec.numFirst = rec.numLast
  /\ calls \in Seq(Callers) /\ Len(calls) = Size(rec)
  /\ \A k \in 1..Size(rec) : calls[k] = rec.recNum[At(rec, k)]

\* The list shows what it returned last, from a slot that holds a call, and its
\* cursor is on such a slot or behind the last one; the screen of the last number
\* shows the one before numLast.
ListInv ==
  /\ s \in {"CALL_LIST", "CALL_LIST_ADD"} =>
       /\ ~NoneReceived
       /\ shown = Returned(rec) /\ rec.numLastReturned \in Live(rec)
       /\ rec.numPos \in Live(rec) \cup {rec.numLast}
  /\ s = "OPT_ADD_LAST_NUM" /\ ~NoneReceived => shown = rec.recNum[UifBack(rec.numLast)]

\* The menu and the filter agree, and only the screen of a call shows a verdict.
FilterInv ==
  /\ filter_enabled \in BOOLEAN /\ filtDisabled = ~filter_enabled
  /\ verdict # "none" => s = "INCOMING_CALL"
  /\ OffBlocksNothing

UserIfInv == RingInv /\ ListInv /\ FilterInv

--------------------------------------------------------------------------------
(* Lemmas about the ring buffer.                                           *)

\* The cursors stay inside the buffer.
LEMMA CursorsStay ==
  ASSUME NEW i \in Slots
  PROVE  UifAdvance(i) \in Slots /\ UifBack(i) \in Slots
  BY UifAssumption DEF UifAdvance, UifBack, Slots

\* At and Size are what RecentCallsInOrder computes with a modulus.
LEMMA SizeAndAt ==
  ASSUME NEW r \in RecentCalls, r.full => r.numFirst = r.numLast
  PROVE  /\ Size(r) \in 0..UIF_NUM_RECENT_NUMS
         /\ ~r.full => Size(r) = (r.numLast + UIF_NUM_RECENT_NUMS - r.numFirst) % UIF_NUM_RECENT_NUMS
         /\ \A k \in 1..Size(r) : At(r, k) = (r.numFirst + k - 1) % UIF_NUM_RECENT_NUMS
<1>1. r.numFirst \in Slots /\ r.numLast \in Slots /\ r.full \in BOOLEAN
  BY DEF RecentCalls
<1>2. Size(r) \in 0..UIF_NUM_RECENT_NUMS
  BY <1>1, UifAssumption DEF Size, Slots
<1>3. ~r.full => Size(r) = (r.numLast + UIF_NUM_RECENT_NUMS - r.numFirst) % UIF_NUM_RECENT_NUMS
  BY <1>1, UifAssumption DEF Size, Slots
<1>4. ASSUME NEW k \in 1..Size(r) PROVE At(r, k) = (r.numFirst + k - 1) % UIF_NUM_RECENT_NUMS
  <2>1. k \in Nat /\ k <= UIF_NUM_RECENT_NUMS /\ k >= 1
    BY <1>2, UifAssumption
  <2> QED  BY <1>1, <2>1, UifAssumption DEF At, Slots
<1> QED  BY <1>2, <1>3, <1>4

\* The calls in order are the buffer read with a modulus.
LEMMA RingIsOrder == RingInv => RecentCallsInOrder
<1> SUFFICES ASSUME RingInv PROVE RecentCallsInOrder
  OBVIOUS
<1> DEFINE n == IF rec.full THEN UIF_NUM_RECENT_NUMS
                ELSE (rec.numLast + UIF_NUM_RECENT_NUMS - rec.numFirst) % UIF_NUM_RECENT_NUMS
<1>1. n = Size(rec)
  BY SizeAndAt DEF RingInv, Size
<1>2. \A k \in 1..Size(rec) : calls[k] = rec.recNum[(rec.numFirst + k - 1) % UIF_NUM_RECENT_NUMS]
  BY SizeAndAt DEF RingInv
<1>3. calls = [k \in 1..Size(rec) |-> calls[k]]
  BY DEF RingInv
<1>4. calls = [k \in 1..n |-> rec.recNum[(rec.numFirst + k - 1) % UIF_NUM_RECENT_NUMS]]
  BY <1>1, <1>2, <1>3
<1> QED  BY <1>4 DEF RecentCallsInOrder

\* A slot that holds a call holds one of the last.
LEMMA LiveIsRecent ==
  ASSUME RingInv, NEW i \in Live(rec)
  PROVE  rec.recNum[i] \in Range(calls)
<1>1. rec.numFirst \in Slots /\ rec.numLast \in Slots /\ rec.full \in BOOLEAN
  BY DEF RingInv, RecentCalls
<1>2. i \in Slots /\ (rec.full => rec.numFirst = rec.numLast)
  BY DEF Live, RingInv
<1> DEFINE k == IF rec.numFirst <= i THEN i - rec.numFirst + 1
                ELSE i - rec.numFirst + 1 + UIF_NUM_RECENT_NUMS
<1>3. k \in 1..Size(rec) /\ At(rec, k) = i
  BY <1>1, <1>2, UifAssumption DEF Live, Size, At, Slots
<1>4. calls[k] = rec.recNum[i] /\ k \in DOMAIN calls
  BY <1>3 DEF RingInv
<1> QED  BY <1>4 DEF Range

\* With a call in the buffer, the slots that UifNumGetFirst and UifNumGetLast return
\* hold one.
LEMMA EndsAreLive ==
  ASSUME rec \in RecentCalls, ~NoneReceived, rec.full => rec.numFirst = rec.numLast
  PROVE  rec.numFirst \in Live(rec) /\ UifBack(rec.numLast) \in Live(rec)
<1>1. rec.numFirst \in Slots /\ rec.numLast \in Slots /\ rec.full \in BOOLEAN
  BY DEF RecentCalls
<1> QED  BY <1>1, UifAssumption DEF NoneReceived, Live, UifBack, Slots

\* From a slot that holds a call the next one holds one too, or is behind the last,
\* and so on the way back, unless it is the first.
LEMMA NeighboursAreLive ==
  ASSUME rec \in RecentCalls, ~NoneReceived, rec.full => rec.numFirst = rec.numLast
  PROVE  /\ \A i \in Live(rec) : UifAdvance(i) \in Live(rec) \cup {rec.numLast}
         /\ \A i \in Live(rec) \cup {rec.numLast} :
              /\ i # rec.numFirst => UifBack(i) \in Live(rec)
              /\ i # rec.numLast => i \in Live(rec)
<1>1. rec.numFirst \in Slots /\ rec.numLast \in Slots /\ rec.full \in BOOLEAN
  BY DEF RecentCalls
<1>2. ASSUME NEW i \in Live(rec) PROVE UifAdvance(i) \in Live(rec) \cup {rec.numLast}
  BY <1>1, UifAssumption DEF NoneReceived, Live, UifAdvance, Slots
<1>3. ASSUME NEW i \in Live(rec) \cup {rec.numLast}, i # rec.numFirst PROVE UifBack(i) \in Live(rec)
  BY <1>1, <1>3, UifAssumption DEF NoneReceived, Live, UifBack, Slots
<1> QED  BY <1>2, <1>3

\* A cursor move of the recent calls: the calls stay, what is returned is one of them.
Browsed(r) ==
  /\ r \in RecentCalls
  /\ r.recNum = rec.recNum /\ r.numFirst = rec.numFirst /\ r.numLast = rec.numLast
  /\ r.full = rec.full
  /\ ~NoneReceived => /\ r.numLastReturned \in Live(rec)
                      /\ r.numPos \in Live(rec) \cup {rec.numLast}

\* UifNumGetLast leaves the number of the last call.
LEMMA GetLast ==
  ASSUME RingInv
  PROVE  /\ Browsed(UifNumGetLast)
         /\ ~NoneReceived => UifNumGetLast.numLastReturned = UifBack(rec.numLast)
<1>1. /\ rec \in RecentCalls /\ rec.numFirst \in Slots /\ rec.numLast \in Slots
      /\ UifBack(rec.numLast) \in Slots
  BY CursorsStay DEF RingInv, RecentCalls
<1>2. CASE NoneReceived
  BY <1>1, <1>2 DEF UifNumGetLast, Browsed, RecentCalls
<1>3. CASE ~NoneReceived
  <2>1. UifBack(rec.numLast) \in Live(rec)
    BY <1>1, <1>3, EndsAreLive DEF RingInv
  <2> QED  BY <1>1, <1>3, <2>1 DEF UifNumGetLast, Browsed, RecentCalls
<1> QED  BY <1>2, <1>3

\* UP and DOWN in the list of calls.
LEMMA Browse ==
  ASSUME RingInv, ~NoneReceived, rec.numPos \in Live(rec) \cup {rec.numLast},
         NEW r \in {UifNumGetPrev, UifNumGetNext}
  PROVE  Browsed(r)
<1>1. /\ rec \in RecentCalls /\ rec.numFirst \in Slots /\ rec.numLast \in Slots
      /\ rec.numPos \in Slots
  BY DEF RingInv, RecentCalls
<1>2. /\ UifBack(rec.numPos) \in Slots /\ UifAdvance(rec.numPos) \in Slots
      /\ UifAdvance(rec.numFirst) \in Slots
  BY <1>1, CursorsStay
<1>3. CASE r = UifNumGetPrev /\ rec.numPos # rec.numFirst
  <2>1. UifBack(rec.numPos) \in Live(rec)
    BY <1>1, <1>3, NeighboursAreLive DEF RingInv
  <2> QED  BY <1>1, <1>2, <1>3, <2>1 DEF UifNumGetPrev, Browsed, RecentCalls
<1>4. CASE r = UifNumGetPrev /\ rec.numPos = rec.numFirst
  BY <1>4, GetLast DEF UifNumGetPrev
<1>5. CASE r = UifNumGetNext /\ rec.numPos = rec.numLast
  <2>1. rec.numFirst \in Live(rec) /\ UifAdvance(rec.numFirst) \in Live(rec) \cup {rec.numLast}
    BY <1>1, EndsAreLive, NeighboursAreLive DEF RingInv
  <2> QED  BY <1>1, <1>2, <1>5, <2>1 DEF UifNumGetNext, UifNumGetFirst, Browsed, RecentCalls
<1>6. CASE r = UifNumGetNext /\ rec.numPos # rec.numLast
  <2>1. rec.numPos \in Live(rec) /\ UifAdvance(rec.numPos) \in Live(rec) \cup {rec.numLast}
    BY <1>1, <1>6, NeighboursAreLive DEF RingInv
  <2> QED  BY <1>1, <1>2, <1>6, <2>1 DEF UifNumGetNext, Browsed, RecentCalls
<1> QED  BY <1>3, <1>4, <1>5, <1>6

\* The slots before (r) and after (q) an insertion.
LEMMA InsertedSlots ==
  ASSUME NEW r \in RecentCalls, NEW q \in RecentCalls, r.full => r.numFirst = r.numLast,
         q.numLast = UifAdvance(r.numLast),
         q.numFirst = IF r.full THEN q.numLast ELSE r.numFirst,
         q.full <=> r.full \/ r.numFirst = q.numLast
  PROVE  /\ r.full => /\ Size(r) = UIF_NUM_RECENT_NUMS /\ Size(q) = Size(r)
                      /\ \A k \in 1..Size(q)-1 : At(q, k) = At(r, k + 1)
         /\ ~r.full => /\ Size(r) \in 0..UIF_NUM_RECENT_NUMS-1 /\ Size(q) = Size(r) + 1
                       /\ \A k \in 1..Size(r) : At(q, k) = At(r, k)
         /\ \A k \in 1..Size(q)-1 : At(q, k) \in Slots \ {r.numLast}
         /\ At(q, Size(q)) = r.numLast
<1> DEFINE N == UIF_NUM_RECENT_NUMS
<1>1. /\ r.numFirst \in 0..N-1 /\ r.numLast \in 0..N-1 /\ r.full \in BOOLEAN
      /\ q.numFirst \in 0..N-1 /\ q.numLast \in 0..N-1 /\ q.full \in BOOLEAN
      /\ N \in Nat /\ N > 0
  BY UifAssumption DEF RecentCalls, Slots
<1>2. q.numLast = IF r.numLast + 1 = N THEN 0 ELSE r.numLast + 1
  BY DEF UifAdvance
<1>3. CASE r.full
  <2>1. r.numFirst = r.numLast /\ q.numFirst = q.numLast /\ q.full /\ Size(r) = N /\ Size(q) = N
    BY <1>3 DEF Size
  <2>2. ASSUME NEW k \in 1..N-1
        PROVE  At(q, k) = At(r, k + 1) /\ At(q, k) \in 0..N-1 /\ At(q, k) # r.numLast
    BY <1>1, <1>2, <2>1 DEF At
  <2>3. At(q, N) = r.numLast
    BY <1>1, <1>2, <2>1 DEF At
  <2> QED  BY <1>3, <2>1, <2>2, <2>3 DEF Slots
<1>4. CASE ~r.full
  <2>1. q.numFirst = r.numFirst /\ (q.full <=> r.numFirst = q.numLast)
    BY <1>4
  <2>2. Size(r) = IF r.numFirst <= r.numLast THEN r.numLast - r.numFirst
                  ELSE r.numLast + N - r.numFirst
    BY <1>4 DEF Size
  <2>3. Size(q) = Size(r) + 1
    <3>1. CASE q.full
      BY <1>1, <1>2, <2>1, <2>2, <3>1 DEF Size
    <3>2. CASE ~q.full
      BY <1>1, <1>2, <2>1, <2>2, <3>2 DEF Size
    <3> QED  BY <3>1, <3>2
  <2>4. Size(r) \in 0..N-1
    BY <1>1, <2>2
  <2>5. ASSUME NEW k \in 1..Size(r)
        PROVE  At(q, k) = At(r, k) /\ At(q, k) \in 0..N-1 /\ At(q, k) # r.numLast
    BY <1>1, <2>1, <2>2, <2>4 DEF At
  <2>6. At(q, Size(q)) = r.numLast
    BY <1>1, <2>1, <2>2, <2>3 DEF At
  <2> QED  BY <1>4, <2>3, <2>4, <2>5, <2>6 DEF Slots
<1> QED  BY <1>3, <1>4

\* UifInsert: the call is the last one of the history, from which the oldest goes
\* when the buffer is full.
LEMMA InsertKeepsOrder ==
  ASSUME RingInv, Outcome
  PROVE  RingInv'
<1> PICK num \in Callers :
      /\ rec' = UifInsert(num)
      /\ calls' = LET all == Append(calls, num)
                  IN IF Len(all) > UIF_NUM_RECENT_NUMS THEN Tail(all) ELSE all
  BY DEF Outcome
<1> DEFINE last == UifAdvance(rec.numLast)
           N == UIF_NUM_RECENT_NUMS
<1>1. /\ rec \in RecentCalls /\ rec.numFirst \in Slots /\ rec.numLast \in Slots
      /\ rec.full \in BOOLEAN /\ rec.recNum \in [Slots -> Callers \cup {NULL}]
      /\ last \in Slots /\ N \in Nat /\ N > 0
  BY CursorsStay, UifAssumption DEF RingInv, RecentCalls
<1>2. /\ rec'.recNum = [rec.recNum EXCEPT ![rec.numLast] = num]
      /\ rec'.numLast = last
      /\ rec'.numFirst = IF rec.full THEN last ELSE rec.numFirst
      /\ rec'.full = (rec.full \/ rec.numFirst = last)
  BY <1>1 DEF UifInsert, RecentCalls
<1>3. rec' \in RecentCalls
  <2>1. [rec.recNum EXCEPT ![rec.numLast] = num] \in [Slots -> Callers \cup {NULL}]
    BY <1>1
  <2>2. (rec.full \/ rec.numFirst = last) \in BOOLEAN
    OBVIOUS
  <2> QED  BY <1>1, <2>1, <2>2 DEF UifInsert, RecentCalls
<1>4. rec'.full => rec'.numFirst = rec'.numLast
  BY <1>2
<1>5. calls \in Seq(Callers) /\ Len(calls) = Size(rec)
      /\ \A k \in 1..Size(rec) : calls[k] = rec.recNum[At(rec, k)]
  BY DEF RingInv
<1>6. /\ rec.full => Size(rec) = N /\ Size(rec') = Size(rec)
                     /\ \A k \in 1..Size(rec')-1 : At(rec', k) = At(rec, k + 1)
      /\ ~rec.full => Size(rec) \in 0..N-1 /\ Size(rec') = Size(rec) + 1
                      /\ \A k \in 1..Size(rec) : At(rec', k) = At(rec, k)
      /\ \A k \in 1..Size(rec')-1 : At(rec', k) \in Slots \ {rec.numLast}
      /\ At(rec', Size(rec')) = rec.numLast
  <2>1. rec.full => rec.numFirst = rec.numLast
    BY DEF RingInv
  <2>2. rec'.numFirst = IF rec.full THEN rec'.numLast ELSE rec.numFirst
    BY <1>2
  <2>3. rec'.full <=> rec.full \/ rec.numFirst = rec'.numLast
    BY <1>2
  <2> QED  BY <1>1, <1>2, <1>3, <2>1, <2>2, <2>3, InsertedSlots
<1>7. /\ \A k \in 1..Size(rec')-1 : rec'.recNum[At(rec', k)] = rec.recNum[At(rec', k)]
      /\ rec'.recNum[At(rec', Size(rec'))] = num
  BY <1>1, <1>2, <1>6
<1>8. CASE rec.full
  <2>1. /\ calls' = Tail(Append(calls, num)) /\ calls' \in Seq(Callers) /\ Len(calls') = N
        /\ \A k \in 1..N : calls'[k] = IF k = N THEN num ELSE calls[k + 1]
    BY <1>1, <1>5, <1>6, <1>8
  <2>2. ASSUME NEW k \in 1..N PROVE calls'[k] = rec'.recNum[At(rec', k)]
    <3>1. CASE k = N
      BY <1>6, <1>7, <1>8, <2>1, <3>1
    <3>2. CASE k # N
      <4>1. k \in 1..Size(rec')-1 /\ k + 1 \in 1..Size(rec)
        BY <1>1, <1>6, <1>8, <3>2
      <4> QED  BY <1>5, <1>6, <1>7, <1>8, <2>1, <3>2, <4>1
    <3> QED  BY <3>1, <3>2
  <2> QED  BY <1>3, <1>4, <1>6, <1>8, <2>1, <2>2 DEF RingInv
<1>9. CASE ~rec.full
  <2>1. /\ calls' = Append(calls, num) /\ calls' \in Seq(Callers) /\ Len(calls') = Size(rec')
        /\ \A k \in 1..Size(rec') : calls'[k] = IF k = Size(rec') THEN num ELSE calls[k]
    BY <1>1, <1>5, <1>6, <1>9
  <2>2. ASSUME NEW k \in 1..Size(rec') PROVE calls'[k] = rec'.recNum[At(rec', k)]
    <3>1. CASE k = Size(rec')
      BY <1>7, <2>1, <3>1
    <3>2. CASE k # Size(rec')
      <4>1. k \in 1..Size(rec')-1 /\ k \in 1..Size(rec)
        BY <1>1, <1>6, <1>9, <3>2
      <4> QED  BY <1>5, <1>6, <1>7, <1>9, <2>1, <3>2, <4>1
    <3> QED  BY <3>1, <3>2
  <2> QED  BY <1>3, <1>4, <2>1, <2>2 DEF RingInv
<1> QED  BY <1>8, <1>9

\* A cursor move changes nothing that RingInv says.
LEMMA BrowsingKeepsOrder ==
  ASSUME RingInv, Browsed(rec'), UNCHANGED calls
  PROVE  RingInv' /\ Live(rec)' = Live(rec) /\ NoneReceived' = NoneReceived
<1>1. Size(rec)' = Size(rec) /\ \A k \in 1..Size(rec) : At(rec', k) = At(rec, k)
  BY DEF Browsed, Size, At
<1>2. Live(rec)' = Live(rec) /\ NoneReceived' = NoneReceived
  BY DEF Browsed, Live, NoneReceived
<1> QED  BY <1>1, <1>2 DEF RingInv, Browsed

--------------------------------------------------------------------------------
(* The steps.  Most of them leave the recent calls alone: they go to a     *)
(* screen that shows none of them, or stay where they are.                 *)

CallScreens == {"CALL_LIST", "CALL_LIST_ADD", "OPT_ADD_LAST_NUM"}

\* To a screen of the menu, or to the one of a call.
Away ==
  /\ UNCHANGED <<rec, filter, calls>>
  /\ s' \notin CallScreens /\ verdict' = "none"

\* No key of the menu leads to a screen that shows a call.
LEMMA MenuLeadsAway == \A m \in Menu : m[3] \notin CallScreens
  BY DEF Menu, CallScreens

\* The steps that go away from the recent calls.
LEMMA AwaySteps ==
  (MenuKey \/ TelListScreen \/ RefuseDelete \/ AddTyped \/ AddFromCalls \/ Delete
     \/ Ring \/ CallEnd \/ (s = "CALL_LIST_ADD" /\ no /\ Enter("IDLE"))) => Away
<1>1. MenuKey => Away
  BY MenuLeadsAway DEF MenuKey, Enter, Away, filter
<1> QED
  BY <1>1 DEF TelListScreen, EnterTelList, RefuseDelete, AddTyped, AddFromCalls, Delete, ChangeAndIdle,
      Ring, CallEnd, Enter, Away, CallScreens, filter

\* Away keeps the invariant.
LEMMA AwayKeepsInv == ASSUME UserIfInv, Away PROVE UserIfInv'
<1>1. RingInv'
  BY DEF UserIfInv, RingInv, Away, Size, At
<1>2. ListInv'
  BY DEF Away, ListInv, CallScreens
<1>3. FilterInv'
  BY DEF UserIfInv, FilterInv, Away, filter, OffBlocksNothing
<1> QED  BY <1>1, <1>2, <1>3 DEF UserIfInv

\* The steps that move a cursor of the recent calls or show one of them.
CallListSteps ==
  OpenCallList \/ BrowseCalls \/ AskAdd \/ (s = "CALL_LIST_ADD" /\ EnterCallList(rec))

LEMMA CallListKeepsInv == ASSUME UserIfInv, CallListSteps PROVE UserIfInv'
<1>1. RingInv /\ ListInv /\ FilterInv
  BY DEF UserIfInv
<1>2. ASSUME OpenCallList, NoneReceived PROVE UserIfInv'
  <2>1. rec' = UifNumGetLast /\ UNCHANGED <<s, filter, shown, verdict, calls>> /\ s = "OPT_CALL_LIST"
    BY <1>2 DEF OpenCallList
  <2>2. RingInv' /\ NoneReceived'
    BY <1>1, <1>2, <2>1, GetLast, BrowsingKeepsOrder
  <2>3. ListInv'
    BY <2>1 DEF ListInv
  <2>4. FilterInv'
    BY <1>1, <2>1 DEF FilterInv, filter, OffBlocksNothing
  <2> QED  BY <2>2, <2>3, <2>4 DEF UserIfInv
<1>3. ASSUME NEW r, EnterCallList(r), Browsed(r), ~NoneReceived,
             r.numLastReturned \in Live(rec), r.numPos \in Live(rec) \cup {rec.numLast}
      PROVE  UserIfInv'
  <2>1. /\ rec' = r /\ shown' = Returned(r) /\ s' = "CALL_LIST" /\ verdict' = "none"
        /\ UNCHANGED <<filter, calls>>
    BY <1>3 DEF EnterCallList
  <2>2. RingInv' /\ Live(rec)' = Live(rec) /\ ~NoneReceived'
    BY <1>1, <1>3, <2>1, BrowsingKeepsOrder
  <2>3. ListInv'
    BY <1>3, <2>1, <2>2 DEF ListInv, Browsed
  <2>4. FilterInv'
    BY <1>1, <2>1 DEF FilterInv, filter, OffBlocksNothing
  <2> QED  BY <2>2, <2>3, <2>4 DEF UserIfInv
<1>4. ASSUME OpenCallList, ~NoneReceived PROVE UserIfInv'
  <2>1. EnterCallList(UifNumGetLast)
    BY <1>4 DEF OpenCallList
  <2> QED  BY <1>1, <1>3, <1>4, <2>1, GetLast DEF Browsed
<1>5. ASSUME s = "CALL_LIST_ADD", EnterCallList(rec) PROVE UserIfInv'
  <2>1. ~NoneReceived /\ rec.numLastReturned \in Live(rec) /\ rec.numPos \in Live(rec) \cup {rec.numLast}
    BY <1>1, <1>5 DEF ListInv
  <2>2. Browsed(rec)
    BY <1>1, <2>1 DEF Browsed, RingInv
  <2> QED  BY <1>3, <1>5, <2>1, <2>2
<1>6. ASSUME BrowseCalls PROVE UserIfInv'
  <2>1. /\ s = "CALL_LIST" /\ rec' \in {UifNumGetPrev, UifNumGetNext} /\ shown' = Returned(rec')
        /\ UNCHANGED <<s, filter, verdict, calls>>
    BY <1>6 DEF BrowseCalls
  <2>2. ~NoneReceived /\ Browsed(rec')
    BY <1>1, <2>1, Browse DEF ListInv
  <2>3. RingInv' /\ Live(rec)' = Live(rec) /\ ~NoneReceived'
    BY <1>1, <2>1, <2>2, BrowsingKeepsOrder
  <2>4. ListInv'
    BY <2>1, <2>2, <2>3 DEF ListInv, Browsed
  <2>5. FilterInv'
    BY <1>1, <2>1 DEF FilterInv, filter, OffBlocksNothing
  <2> QED  BY <2>3, <2>4, <2>5 DEF UserIfInv
<1>7. ASSUME AskAdd PROVE UserIfInv'
  <2>1. /\ s = "CALL_LIST" /\ s' = "CALL_LIST_ADD"
        /\ UNCHANGED <<rec, filter, shown, verdict, calls>>
    BY <1>7 DEF AskAdd, EnterYesNo
  <2>2. RingInv' /\ Live(rec)' = Live(rec) /\ ~NoneReceived'
    BY <1>1, <2>1 DEF RingInv, ListInv, NoneReceived, Live, Size, At
  <2>3. ListInv'
    BY <1>1, <2>1, <2>2 DEF ListInv, Returned
  <2>4. FilterInv'
    BY <1>1, <2>1 DEF FilterInv, filter, OffBlocksNothing
  <2> QED  BY <2>2, <2>3, <2>4 DEF UserIfInv
<1> QED  BY <1>2, <1>4, <1>5, <1>6, <1>7 DEF CallListSteps

\* The screen of the last number, which looks for it on the way in and, at ENTER,
\* once more.
LEMMA LastNumKeepsInv == ASSUME UserIfInv, AddLastNumScreen \/ AddLast PROVE UserIfInv'
<1>1. RingInv /\ ListInv /\ FilterInv
  BY DEF UserIfInv
<1>2. rec' = UifNumGetLast /\ verdict' = "none" /\ UNCHANGED <<filter, calls>>
  BY DEF AddLastNumScreen, EnterAddLastNum, AddLast
<1>3. RingInv' /\ NoneReceived' = NoneReceived
  BY <1>1, <1>2, GetLast, BrowsingKeepsOrder
<1>4. ListInv'
  <2>1. CASE AddLastNumScreen
    <3>1. /\ s' = "OPT_ADD_LAST_NUM"
          /\ shown' = IF NoneReceived THEN NULL ELSE Returned(rec')
      BY <2>1 DEF AddLastNumScreen, EnterAddLastNum
    <3>2. ~NoneReceived => Returned(rec') = rec'.recNum[UifBack(rec'.numLast)]
      BY <1>1, <1>2, GetLast DEF Returned, Browsed
    <3> QED  BY <1>3, <3>1, <3>2 DEF ListInv
  <2>2. CASE AddLast
    <3>1. s' = "IDLE"
      BY <2>2 DEF AddLast
    <3> QED  BY <3>1 DEF ListInv
  <2> QED  BY <2>1, <2>2
<1>5. FilterInv'
  BY <1>1, <1>2 DEF FilterInv, filter, OffBlocksNothing
<1> QED  BY <1>3, <1>4, <1>5 DEF UserIfInv

\* The steps that leave the recent calls alone and show none.
LEMMA OtherStepsKeepInv ==
  ASSUME UserIfInv,
         ToggleFilter \/ BrowseNumbers \/ AskDelete \/ Toggle \/ NotSent \/ UNCHANGED vars
  PROVE  UserIfInv'
<1>1. UNCHANGED <<rec, calls>>
  BY DEF ToggleFilter, BrowseNumbers, AskDelete, Toggle, NotSent, EnterYesNo, vars
<1>2. RingInv' /\ Live(rec)' = Live(rec) /\ NoneReceived' = NoneReceived
  BY <1>1 DEF UserIfInv, RingInv, NoneReceived, Live, Size, At
<1>3. \/ UNCHANGED <<s, shown>>
      \/ s' \notin CallScreens
  BY DEF ToggleFilter, BrowseNumbers, AskDelete, Toggle, NotSent, EnterYesNo, vars, CallScreens
<1>4. ListInv'
  BY <1>1, <1>2, <1>3 DEF UserIfInv, ListInv, CallScreens, Returned
<1>5. FilterInv'
  <2>1. CASE ToggleFilter
    BY <2>1 DEF UserIfInv, FilterInv, ToggleFilter, OffBlocksNothing
  <2>2. CASE ~ToggleFilter
    <3>1. UNCHANGED filter
      BY <2>2 DEF BrowseNumbers, AskDelete, Toggle, NotSent, EnterYesNo, vars, filter
    <3>2. \/ UNCHANGED <<s, verdict>>
          \/ s = "TEL_LIST" /\ UNCHANGED verdict
          \/ s = "INCOMING_CALL" /\ s' = s /\ verdict' = "NO CALLER ID"
      BY <2>2 DEF BrowseNumbers, AskDelete, Toggle, NotSent, EnterYesNo, vars
    <3> QED  BY <3>1, <3>2 DEF UserIfInv, FilterInv, filter, OffBlocksNothing
  <2> QED  BY <2>1, <2>2
<1> QED  BY <1>2, <1>4, <1>5 DEF UserIfInv

\* A call that is let through or blocked: the number goes into the ring buffer.
LEMMA OutcomeKeepsInv == ASSUME UserIfInv, Outcome PROVE UserIfInv'
<1>1. RingInv'
  BY InsertKeepsOrder DEF UserIfInv
<1>2. s' = "INCOMING_CALL" /\ verdict' \in Verdicts /\ UNCHANGED filter
  BY DEF Outcome
<1>3. ListInv'
  BY <1>2 DEF ListInv
<1>4. FilterInv'
  BY <1>2 DEF UserIfInv, FilterInv, filter, OffBlocksNothing, Verdicts
<1> QED  BY <1>1, <1>3, <1>4 DEF UserIfInv

--------------------------------------------------------------------------------
(* The theorems.                                                           *)

\* user_if.c: what the ring buffer, the list of calls and the switch of the filter
\* keep through every key and every call.
THEOREM UserIfInvHolds == Spec => []UserIfInv
<1>1. Init => UserIfInv
  <2> SUFFICES ASSUME Init PROVE UserIfInv
    OBVIOUS
  <2>1. RingInv
    <3>1. rec \in RecentCalls /\ ~rec.full /\ Size(rec) = 0
      BY UifAssumption DEF Init, NoCalls, RecentCalls, Slots, Size
    <3> QED  BY <3>1 DEF Init, RingInv
  <2>2. ListInv /\ FilterInv
    BY DEF Init, ListInv, FilterInv, OffBlocksNothing
  <2> QED  BY <2>1, <2>2 DEF UserIfInv
<1>2. UserIfInv /\ [Next]_vars => UserIfInv'
  <2> SUFFICES ASSUME UserIfInv, [Next]_vars PROVE UserIfInv'
    OBVIOUS
  <2>1. CASE Outcome
    BY <2>1, OutcomeKeepsInv
  <2>2. CASE CallListSteps
    BY <2>2, CallListKeepsInv
  <2>3. CASE AddLastNumScreen \/ AddLast
    BY <2>3, LastNumKeepsInv
  <2>4. CASE ToggleFilter \/ BrowseNumbers \/ AskDelete \/ Toggle \/ NotSent \/ UNCHANGED vars
    BY <2>4, OtherStepsKeepInv
  <2>5. CASE Away
    BY <2>5, AwayKeepsInv
  <2> QED
    BY <2>1, <2>2, <2>3, <2>4, <2>5, AwaySteps DEF Next, Key, Change, RefuseAdd, CallListSteps
<1> QED  BY <1>1, <1>2, PTL DEF Spec

\* user_if.c:176-182: the ring buffer holds the last calls in their order, whatever
\* its size.
THEOREM KeepsRecentCalls == Spec => []RecentCallsInOrder
<1>1. UserIfInv => RecentCallsInOrder
  BY RingIsOrder DEF UserIfInv
<1> QED  BY <1>1, UserIfInvHolds, PTL

\* user_if.c:213-260: the list of recent calls shows one of the last calls, however
\* it was browsed.
THEOREM BrowsesRecentCalls == Spec => []ShowsRecentCalls
<1>1. UserIfInv => ShowsRecentCalls
  BY LiveIsRecent DEF UserIfInv, ListInv, ShowsRecentCalls, Returned
<1> QED  BY <1>1, UserIfInvHolds, PTL

\* user_if.c:685-702, tel_filt.c:284-295: while the menu says that the filter is off,
\* it blocks no call.
THEOREM FilterOffBlocksNothing == Spec => []OffBlocksNothing
<1>1. UserIfInv => OffBlocksNothing
  BY DEF UserIfInv, FilterInv
<1> QED  BY <1>1, UserIfInvHolds, PTL

\* user_if.c:732-739, 862-887: the recent call that goes into the phone book is the
\* one on the display.
THEOREM AddsShownCall == Spec => AddsWhatIsShown
<1>1. UserIfInv /\ [Next]_vars => [AddLast \/ AddFromCalls => book' = Append(book, shown)]_vars
  <2> SUFFICES ASSUME UserIfInv, AddLast \/ AddFromCalls PROVE book' = Append(book, shown)
    OBVIOUS
  <2>1. RingInv /\ ListInv
    BY DEF UserIfInv
  <2>2. CASE AddLast
    <3>1. Returned(rec') = rec.recNum[UifBack(rec.numLast)]
      BY <2>1, <2>2, GetLast DEF AddLast, Returned, Browsed
    <3> QED  BY <2>1, <2>2, <3>1 DEF AddLast, ListInv
  <2>3. CASE AddFromCalls
    BY <2>1, <2>3 DEF AddFromCalls, ChangeAndIdle, ListInv
  <2> QED  BY <2>2, <2>3
<1> QED  BY <1>1, UserIfInvHolds, PTL DEF Spec, AddsWhatIsShown

--------------------------------------------------------------------------------
(* The entry of a string.                                                  *)

Digits == FirstChr..LastChr
Buffers == [0..NUM_LEN -> Digits \cup {0}]

\* The '\0' behind the longest string is never overwritten.
IsBuffer(buf) == buf \in Buffers /\ buf[NUM_LEN] = 0

\* The display, as it should be with the cursor on character c at place i of buf.
Row(buf, i, c) ==
  [x \in 0..NUM_LEN |-> IF x < i THEN buf[x]
                        ELSE IF x = i THEN Entry!Glyph(c) ELSE Entry!UIF_CHR_BLANK]
Line(r, i) == [row |-> r, col |-> i]
Put(r, i, g) == [r EXCEPT ![i] = g]
Shown(buf, i, c) == Line(Row(buf, i, c), i)

\* What is before the cursor has been typed, and the display shows it.
EntryInv ==
  /\ IsBuffer(sNum) /\ scr \in {"ADD_NUM", "YEAR_SET", "OTHER"}
  /\ entered.str = entered.seen
  /\ scr # "OTHER" => /\ blink /\ idx \in 0..Entry!MaxLen /\ lcd = Shown(sNum, idx, chr)
                      /\ \A i \in 0..idx-1 : sNum[i] \in Digits

\* A digit is shown as it is, and is not the end of a string.
LEMMA GlyphIs == ASSUME NEW c \in Digits PROVE Entry!Glyph(c) = c /\ c # 0 /\ c \in Nat
  BY EntryAssumption DEF Entry!Glyph, Entry!Back, Entry!End, Digits

\* strlen is where the first '\0' is.
LEMMA LengthIs ==
  ASSUME NEW buf \in Buffers, NEW n \in 0..NUM_LEN, buf[n] = 0, \A i \in 0..n-1 : buf[i] \in Digits
  PROVE  /\ Entry!strlen(buf) = n
         /\ Entry!String(buf) = [k \in 1..n |-> buf[k - 1]]
<1>1. DOMAIN buf = 0..NUM_LEN /\ NUM_LEN \in Nat
  BY EntryAssumption DEF Buffers
<1>2. \A i \in 0..n-1 : buf[i] # 0
  BY GlyphIs
<1>3. \A k \in 0..NUM_LEN : buf[k] = 0 /\ (\A j \in 0..k-1 : buf[j] # 0) => k = n
  <2> SUFFICES ASSUME NEW k \in 0..NUM_LEN, buf[k] = 0, \A j \in 0..k-1 : buf[j] # 0 PROVE k = n
    OBVIOUS
  <2>1. ~(k < n)
    <3>1. k < n => k \in 0..n-1
      OBVIOUS
    <3> QED  BY <1>2, <3>1
  <2>2. ~(n < k)
    <3>1. n < k => n \in 0..k-1
      OBVIOUS
    <3> QED  BY <3>1
  <2> QED  BY <1>1, <2>1, <2>2
<1>4. Entry!strlen(buf) = n
  BY <1>1, <1>2, <1>3 DEF Entry!strlen
<1> QED  BY <1>4 DEF Entry!String

\* The year that is shown first.
LEMMA YearIs ==
  /\ McYear \in [1..YEAR_LEN -> Digits] /\ Len(McYear) = YEAR_LEN
  /\ YEAR_LEN \in Nat /\ YEAR_LEN - 1 \in 0..YEAR_LEN /\ NUM_LEN \in Nat /\ YEAR_LEN \in 0..NUM_LEN
<1>1. FirstChr \in Digits /\ LastChr \in Digits /\ YEAR_LEN \in Nat /\ YEAR_LEN \in 1..NUM_LEN /\ NUM_LEN \in Nat
  BY EntryAssumption DEF Digits
<1>2. McYear \in [1..YEAR_LEN -> Digits]
  BY <1>1 DEF McYear
<1>3. Len(McYear) = YEAR_LEN
  BY <1>1 DEF McYear
<1> QED  BY <1>1, <1>2, <1>3

\* Whatever an earlier entry left in the buffer, it is the whole year afterwards.
LEMMA YearStrIs ==
  ASSUME NEW buf, IsBuffer(buf)
  PROVE  /\ IsBuffer(Entry!YearStr(buf)) /\ Entry!YearStr(buf)[YEAR_LEN] = 0
         /\ \A i \in 0..YEAR_LEN-1 : Entry!YearStr(buf)[i] = McYear[i + 1] /\ McYear[i + 1] \in Digits
<1>1. DOMAIN buf = 0..NUM_LEN /\ NUM_LEN \in Nat /\ YEAR_LEN \in 0..NUM_LEN /\ YEAR_LEN \in Nat
  BY YearIs DEF IsBuffer, Buffers
<1> DEFINE copied == [i \in DOMAIN buf |-> IF i < YEAR_LEN THEN McYear[i + 1] ELSE buf[i]]
           T == {k \in YEAR_LEN..NUM_LEN : copied[k] = 0}
<1>2. \A i \in 0..YEAR_LEN-1 : i \in 0..NUM_LEN /\ i + 1 \in 1..YEAR_LEN /\ McYear[i + 1] \in Digits
  BY <1>1, YearIs
<1>3. \A i \in 0..YEAR_LEN-1 : copied[i] = McYear[i + 1] /\ copied[i] # 0
  BY <1>1, <1>2, GlyphIs
<1>4. \A i \in YEAR_LEN..NUM_LEN : copied[i] = buf[i]
  BY <1>1
<1> HIDE DEF copied
<1>5. Entry!strlen(copied) >= YEAR_LEN /\ Entry!strlen(copied) \in Nat
  <2> DEFINE Ends(k) == copied[k] = 0 /\ \A j \in 0..k-1 : copied[j] # 0
  <2>1. NUM_LEN \in T /\ T \subseteq Nat
    BY <1>1, <1>4 DEF IsBuffer
  <2>2. PICK n \in T : \A m \in T : n <= m
    <3> HIDE DEF T
    <3> QED  BY <2>1, LeastNumber
  <2>3. n \in 0..NUM_LEN /\ n \in Nat
    BY <1>1
  <2>4. ASSUME NEW j \in 0..n-1 PROVE copied[j] # 0
    <3>1. CASE j < YEAR_LEN
      <4>1. j \in 0..YEAR_LEN-1
        BY <1>1, <3>1
      <4> QED  BY <1>3, <4>1
    <3>2. CASE ~(j < YEAR_LEN)
      <4>1. j \in YEAR_LEN..NUM_LEN /\ ~(n <= j)
        BY <1>1, <2>3, <3>2
      <4>2. j \notin T
        BY <2>2, <4>1
      <4> QED  BY <4>1, <4>2
    <3> QED  BY <3>1, <3>2
  <2>5. Ends(n)
    BY <2>4
  <2>6. \A k \in 0..NUM_LEN : Ends(k) => k >= YEAR_LEN
    <3> SUFFICES ASSUME NEW k \in 0..NUM_LEN, copied[k] = 0 PROVE ~(k < YEAR_LEN)
      BY <1>1
    <3>1. k < YEAR_LEN => k \in 0..YEAR_LEN-1
      BY <1>1
    <3> QED  BY <1>3, <3>1
  <2>7. DOMAIN copied = 0..NUM_LEN
    BY <1>1 DEF copied
  <2>8. Entry!strlen(copied) = CHOOSE k \in 0..NUM_LEN : Ends(k)
    BY <2>7 DEF Entry!strlen
  <2> HIDE DEF Ends
  <2>9. Entry!strlen(copied) \in 0..NUM_LEN /\ Ends(Entry!strlen(copied))
    BY <2>3, <2>5, <2>8
  <2> QED  BY <1>1, <2>6, <2>9
<1> DEFINE year == Entry!YearStr(buf)
<1>6. year = [i \in 0..NUM_LEN |-> IF i = YEAR_LEN THEN 0
                                  ELSE IF i \in Entry!strlen(copied)..YEAR_LEN-1 THEN FirstChr ELSE copied[i]]
  BY <1>1 DEF Entry!YearStr, copied
<1>7. \A i \in 0..NUM_LEN : i \notin Entry!strlen(copied)..YEAR_LEN-1
  BY <1>1, <1>5
<1>8. year = [i \in 0..NUM_LEN |-> IF i = YEAR_LEN THEN 0 ELSE copied[i]]
  BY <1>6, <1>7
<1> HIDE DEF year
<1>9. year[YEAR_LEN] = 0 /\ \A i \in 0..NUM_LEN : i # YEAR_LEN => year[i] = copied[i]
  BY <1>1, <1>8
<1>10. \A i \in 0..YEAR_LEN-1 : year[i] = McYear[i + 1] /\ McYear[i + 1] \in Digits
  <2>1. \A i \in 0..YEAR_LEN-1 : i \in 0..NUM_LEN /\ i # YEAR_LEN
    BY <1>1
  <2> QED  BY <1>2, <1>3, <1>9, <2>1
<1>11. ASSUME NEW i \in 0..NUM_LEN PROVE year[i] \in Digits \cup {0}
  <2>1. i \in 0..YEAR_LEN-1 \/ i = YEAR_LEN \/ (i \in YEAR_LEN..NUM_LEN /\ i # YEAR_LEN)
    BY <1>1
  <2>2. buf[i] \in Digits \cup {0}
    BY DEF IsBuffer, Buffers
  <2> QED  BY <1>4, <1>9, <1>10, <2>1, <2>2
<1>12. year[NUM_LEN] = 0
  <2>1. NUM_LEN \in YEAR_LEN..NUM_LEN /\ NUM_LEN \in 0..NUM_LEN
    BY <1>1
  <2> QED  BY <1>4, <1>9, <2>1 DEF IsBuffer
<1>13. IsBuffer(year)
  BY <1>8, <1>11, <1>12 DEF IsBuffer, Buffers
<1> QED  BY <1>9, <1>10, <1>13 DEF year

\* The cursor's column is in the display, and a year's last digit in the year.
LEMMA PlacesAre ==
  /\ Entry!MaxLen \in Nat /\ Entry!MaxLen <= NUM_LEN /\ NUM_LEN \in Nat /\ Entry!MaxLen > 0
  BY YearIs, EntryAssumption DEF Entry!MaxLen

\* What the commands do to the display.
LEMMA CommandsAre ==
  ASSUME NEW r, NEW i, NEW g
  PROVE  /\ Entry!Putc(Line(r, i), g) = Line(Put(r, i, g), i + 1)
         /\ Entry!ShiftLeft(Line(r, i)) = Line(r, i - 1)
         /\ Entry!ShiftRight(Line(r, i)) = Line(r, i + 1)
  BY DEF Line, Put, Entry!Putc, Entry!ShiftLeft, Entry!ShiftRight

\* Another character at the cursor.
LEMMA OtherChar ==
  ASSUME NEW buf, NEW n \in 0..NUM_LEN, NEW c, NEW d
  PROVE  Put(Row(buf, n, c), n, Entry!Glyph(d)) = Row(buf, n, d)
<1>1. ~(n < n)
  BY PlacesAre
<1> DEFINE q == Put(Row(buf, n, c), n, Entry!Glyph(d))
<1>2. ASSUME NEW x \in 0..NUM_LEN
      PROVE  q[x] = IF x < n THEN buf[x] ELSE IF x = n THEN Entry!Glyph(d) ELSE Entry!UIF_CHR_BLANK
  <2>1. CASE x = n
    BY <1>1, <2>1 DEF Put, Row
  <2>2. CASE x # n
    <3>1. q[x] = Row(buf, n, c)[x]
      BY <2>2 DEF Put, Row
    <3> QED  BY <2>2, <3>1 DEF Row
  <2> QED  BY <2>1, <2>2
<1>3. q = [x \in 0..NUM_LEN |-> q[x]]
  BY DEF Put, Row
<1> HIDE DEF q
<1>4. q = Row(buf, n, d)
  BY <1>2, <1>3 DEF Row
<1> QED  BY <1>4 DEF q

\* Going to a screen without an entry.
LEMMA EntryLeft ==
  ASSUME IsBuffer(sNum'), scr' = "OTHER", entered.str = entered.seen,
         entered' = entered
  PROVE  EntryInv'
  BY DEF EntryInv

\* An entry begins with an empty string, or with the year to correct.
LEMMA StartIs == ASSUME EntryInv, Entry!Start PROVE EntryInv'
<1>1. /\ scr' = "ADD_NUM" /\ blink' = TRUE /\ chr' = FirstChr /\ idx' = 0 /\ entered' = entered
      /\ sNum' = [i \in DOMAIN sNum |-> IF i < NUM_LEN THEN FirstChr ELSE sNum[i]]
      /\ lcd' = Entry!ShiftLeft(Entry!Putc(Entry!Blank, FirstChr))
  BY DEF Entry!Start
<1>2. NUM_LEN \in Nat /\ FirstChr \in Digits /\ IsBuffer(sNum) /\ DOMAIN sNum = 0..NUM_LEN
  BY PlacesAre, EntryAssumption DEF EntryInv, Digits, IsBuffer, Buffers
<1>3. IsBuffer(sNum')
  <2>1. sNum' = [i \in 0..NUM_LEN |-> IF i < NUM_LEN THEN FirstChr ELSE sNum[i]]
    BY <1>1, <1>2
  <2>2. \A i \in 0..NUM_LEN : sNum[i] \in Digits \cup {0}
    BY <1>2 DEF IsBuffer, Buffers
  <2> QED  BY <1>2, <2>1, <2>2 DEF IsBuffer, Buffers
<1> DEFINE r == [c \in 0..NUM_LEN |-> Entry!UIF_CHR_BLANK]
<1>4. lcd' = Line(Put(r, 0, FirstChr), 0)
  <2>1. Entry!Blank = Line(r, 0)
    BY DEF Entry!Blank, Line
  <2> HIDE DEF r
  <2>2. 0 + 1 - 1 = 0
    OBVIOUS
  <2> QED  BY <1>1, <2>1, <2>2, CommandsAre
<1>5. Put(r, 0, FirstChr) = Row(sNum', 0, FirstChr)
  <2>1. \A x \in 0..NUM_LEN : ~(x < 0)
    BY <1>2
  <2>2. Entry!Glyph(FirstChr) = FirstChr
    BY <1>2, GlyphIs
  <2>3. Put(r, 0, FirstChr) = [x \in 0..NUM_LEN |-> IF x = 0 THEN FirstChr ELSE Entry!UIF_CHR_BLANK]
    BY DEF Put
  <2>4. Row(sNum', 0, FirstChr) = [x \in 0..NUM_LEN |-> IF x = 0 THEN FirstChr ELSE Entry!UIF_CHR_BLANK]
    BY <2>1, <2>2 DEF Row
  <2> QED  BY <2>3, <2>4
<1>6. lcd' = Shown(sNum', idx', chr')
  BY <1>1, <1>4, <1>5 DEF Shown
<1>7. idx' \in 0..Entry!MaxLen' /\ \A i \in 0..idx'-1 : sNum'[i] \in Digits
  BY <1>1, <1>2 DEF Entry!MaxLen
<1> QED  BY <1>1, <1>3, <1>6, <1>7 DEF EntryInv

\* The display after the year was written to it and the cursor set back to place i.
LEMMA YearShown ==
  ASSUME NEW buf, IsBuffer(buf), NEW l, NEW i, NEW str,
         buf[YEAR_LEN] = 0, \A j \in 0..YEAR_LEN-1 : buf[j] \in Digits,
         str = Entry!String(buf), i = YEAR_LEN - 1,
         l = [Entry!Puts(Entry!Blank, str) EXCEPT !.col = i]
  PROVE  l = Shown(buf, i, buf[i])
<1>1. /\ YEAR_LEN \in Nat /\ YEAR_LEN \in 0..NUM_LEN /\ NUM_LEN \in Nat /\ i \in Nat /\ i + 1 = YEAR_LEN
  BY YearIs
<1>2. str = [k \in 1..YEAR_LEN |-> buf[k - 1]]
  BY <1>1, LengthIs DEF IsBuffer
<1>3. Len(str) = YEAR_LEN /\ \A c \in 0..YEAR_LEN-1 : str[c + 1] = buf[c]
  BY <1>1, <1>2
<1> HIDE DEF IsBuffer
<1>4. l = [row |-> [c \in 0..NUM_LEN |-> IF c - 0 \in 0..Len(str)-1 THEN str[c - 0 + 1]
                                         ELSE [x \in 0..NUM_LEN |-> Entry!UIF_CHR_BLANK][c]],
           col |-> i]
  BY DEF Entry!Puts, Entry!Blank
<1>5. ASSUME NEW c \in 0..NUM_LEN
      PROVE  (IF c - 0 \in 0..Len(str)-1 THEN str[c - 0 + 1]
              ELSE [x \in 0..NUM_LEN |-> Entry!UIF_CHR_BLANK][c])
             = IF c < i THEN buf[c] ELSE IF c = i THEN Entry!Glyph(buf[i]) ELSE Entry!UIF_CHR_BLANK
  <2>1. c \in Nat /\ c - 0 = c
    BY <1>1
  <2>2. CASE c \in 0..YEAR_LEN-1
    <3>1. c < i \/ c = i
      BY <1>1, <2>2
    <3>2. Entry!Glyph(buf[c]) = buf[c]
      BY <2>2, GlyphIs
    <3> QED  BY <1>3, <2>1, <2>2, <3>1, <3>2
  <2>3. CASE c \notin 0..YEAR_LEN-1
    <3>1. ~(c < i) /\ c # i
      BY <1>1, <2>1, <2>3
    <3> QED  BY <1>3, <2>1, <2>3, <3>1
  <2> QED  BY <2>2, <2>3
<1> QED  BY <1>4, <1>5 DEF Shown, Line, Row

\* UifStrInputEdit.
LEMMA EditIs ==
  ASSUME NEW buf, IsBuffer(buf), entered.str = entered.seen, Entry!Edit(buf)
  PROVE  EntryInv'
<1>1. /\ scr' = "YEAR_SET" /\ blink' = TRUE /\ sNum' = Entry!YearStr(buf) /\ entered' = entered
      /\ idx' = YEAR_LEN - 1 /\ chr' = sNum'[idx']
  BY DEF Entry!Edit
<1>2. lcd' = [Entry!Puts(Entry!Blank, Entry!String(sNum')) EXCEPT
                !.col = @ - (Entry!strlen(sNum') - idx')]
  BY DEF Entry!Edit
<1>3. YEAR_LEN \in Nat /\ YEAR_LEN \in 0..NUM_LEN /\ YEAR_LEN - 1 \in 0..YEAR_LEN
  BY YearIs
<1>4. IsBuffer(sNum') /\ sNum'[YEAR_LEN] = 0 /\ \A i \in 0..YEAR_LEN-1 : sNum'[i] \in Digits
  BY <1>1, YearStrIs
<1>5. Entry!strlen(sNum') = YEAR_LEN /\ Len(Entry!String(sNum')) = YEAR_LEN
  <2>1. /\ Entry!strlen(sNum') = YEAR_LEN
        /\ Entry!String(sNum') = [k \in 1..YEAR_LEN |-> sNum'[k - 1]]
    BY <1>3, <1>4, LengthIs DEF IsBuffer
  <2> QED  BY <1>3, <2>1
<1>6. Entry!Puts(Entry!Blank, Entry!String(sNum')).col = YEAR_LEN
  BY <1>3, <1>5 DEF Entry!Puts, Entry!Blank
<1>7. YEAR_LEN - (Entry!strlen(sNum') - idx') = idx'
  BY <1>1, <1>3, <1>5
<1>8. lcd' = [Entry!Puts(Entry!Blank, Entry!String(sNum')) EXCEPT !.col = idx']
  BY <1>2, <1>6, <1>7
<1>9. lcd' = Shown(sNum', idx', chr')
  BY <1>1, <1>4, <1>8, YearShown
<1>10. idx' \in 0..Entry!MaxLen' /\ \A i \in 0..idx'-1 : sNum'[i] \in Digits
  BY <1>1, <1>3, <1>4 DEF Entry!MaxLen
<1> QED  BY <1>1, <1>4, <1>9, <1>10 DEF EntryInv


\* A character at the cursor, and back.
LEMMA TurnIs ==
  ASSUME EntryInv, NEW c, Entry!Turn(c)
  PROVE  EntryInv'
<1>1. /\ scr # "OTHER" /\ chr' = c /\ lcd' = Entry!ShiftLeft(Entry!Putc(lcd, Entry!Glyph(c)))
      /\ UNCHANGED <<scr, sNum, idx, blink, entered>>
  BY DEF Entry!Turn
<1>2. /\ IsBuffer(sNum) /\ idx \in 0..Entry!MaxLen /\ lcd = Shown(sNum, idx, chr) /\ blink
      /\ \A i \in 0..idx-1 : sNum[i] \in Digits
  BY <1>1 DEF EntryInv
<1>3. idx \in Nat /\ idx \in 0..NUM_LEN /\ idx + 1 - 1 = idx
  BY <1>2, PlacesAre
<1> DEFINE r == Row(sNum, idx, chr)
           q == Put(r, idx, Entry!Glyph(c))
<1>4. q = Row(sNum, idx, c)
  BY <1>3, OtherChar
<1>5. lcd = Line(r, idx)
  BY <1>2 DEF Shown
<1> HIDE DEF r
<1>6. PICK m : m = idx + 1 /\ m - 1 = idx
  BY <1>3
<1>7. Entry!Putc(lcd, Entry!Glyph(c)) = Line(q, m)
  BY <1>5, <1>6, CommandsAre
<1> HIDE DEF q
<1>8. lcd' = Line(q, idx)
  <2>1. Entry!ShiftLeft(Line(q, m)) = Line(q, m - 1)
    BY CommandsAre
  <2>2. lcd' = Line(q, m - 1)
    BY <1>1, <1>7, <2>1
  <2> QED  BY <1>6, <2>2
<1>9. lcd' = Shown(sNum', idx', chr')
  BY <1>1, <1>3, <1>4, <1>8 DEF Shown
<1>10. Entry!MaxLen' = Entry!MaxLen
  BY <1>1 DEF Entry!MaxLen
<1> QED  BY <1>1, <1>2, <1>9, <1>10 DEF EntryInv

\* The character before the cursor is erased, and the one there is shown again.
LEMMA EnterBackIs == ASSUME EntryInv, Entry!EnterBack PROVE EntryInv'
<1>1. /\ scr # "OTHER" /\ idx > 0 /\ idx' = idx - 1 /\ chr' = sNum[idx']
      /\ lcd' = Entry!ShiftLeft(Entry!ShiftLeft(Entry!Putc(lcd, Entry!UIF_CHR_BLANK)))
      /\ UNCHANGED <<scr, sNum, blink, entered>>
  BY DEF Entry!EnterBack
<1>2. /\ IsBuffer(sNum) /\ idx \in 0..Entry!MaxLen /\ lcd = Shown(sNum, idx, chr) /\ blink
      /\ \A i \in 0..idx-1 : sNum[i] \in Digits
  BY <1>1 DEF EntryInv
<1>3. PICK n \in Nat : idx' = n /\ idx = n + 1 /\ n + 1 \in 0..NUM_LEN /\ n \in 0..NUM_LEN /\ n \in 0..Entry!MaxLen
  BY <1>1, <1>2, PlacesAre
<1>4. Entry!Glyph(sNum[n]) = sNum[n] /\ \A i \in 0..n-1 : sNum[i] \in Digits
  <2>1. n \in 0..idx-1 /\ \A i \in 0..n-1 : i \in 0..idx-1
    BY <1>3
  <2> QED  BY <1>2, <2>1, GlyphIs
<1> DEFINE r == Row(sNum, n + 1, chr)
           q == Put(r, n + 1, Entry!UIF_CHR_BLANK)
<1>5. q = Row(sNum, n, sNum[n])
  <2>1. \A x \in 0..NUM_LEN : x < n + 1 <=> x < n \/ x = n
    BY PlacesAre
  <2>2. n + 1 # n /\ ~(n + 1 < n)
    OBVIOUS
  <2>3. ASSUME NEW x \in 0..NUM_LEN
        PROVE  q[x] = IF x < n THEN sNum[x]
                      ELSE IF x = n THEN Entry!Glyph(sNum[n]) ELSE Entry!UIF_CHR_BLANK
    <3>1. CASE x = n + 1
      BY <1>3, <2>2, <3>1 DEF Put, Row
    <3>2. CASE x # n + 1
      <4>1. q[x] = r[x]
        BY <3>2 DEF Put, Row
      <4> QED  BY <1>4, <2>1, <3>2, <4>1 DEF Row
    <3> QED  BY <3>1, <3>2
  <2>4. q = [x \in 0..NUM_LEN |-> q[x]]
    BY DEF Put, Row
  <2> HIDE DEF q
  <2> QED  BY <2>3, <2>4 DEF Row
<1>6. lcd = Line(r, n + 1)
  BY <1>2, <1>3 DEF Shown
<1> HIDE DEF r
<1>7. Entry!Putc(lcd, Entry!UIF_CHR_BLANK) = Line(q, n + 1 + 1)
  BY <1>6, CommandsAre
<1> HIDE DEF q
<1>8. Entry!ShiftLeft(Line(q, n + 1 + 1)) = Line(q, n + 1 + 1 - 1)
  BY CommandsAre
<1>9. Entry!ShiftLeft(Line(q, n + 1 + 1 - 1)) = Line(q, n + 1 + 1 - 1 - 1)
  BY CommandsAre
<1>10. n + 1 + 1 - 1 - 1 = n
  OBVIOUS
<1>11. lcd' = Line(q, n)
  BY <1>1, <1>7, <1>8, <1>9, <1>10
<1>12. lcd' = Shown(sNum', idx', chr')
  BY <1>1, <1>3, <1>5, <1>11 DEF Shown
<1>13. Entry!MaxLen' = Entry!MaxLen
  BY <1>1 DEF Entry!MaxLen
<1> QED  BY <1>1, <1>2, <1>3, <1>4, <1>12, <1>13 DEF EntryInv

\* A digit is taken, and the cursor goes to the next place.
LEMMA EnterDigitIs == ASSUME EntryInv, Entry!EnterDigit PROVE EntryInv'
<1>1. /\ scr # "OTHER" /\ chr \in Digits /\ idx < Entry!MaxLen /\ sNum' = [sNum EXCEPT ![idx] = chr]
      /\ idx' = idx + 1
      /\ lcd' = Entry!ShiftLeft(Entry!Putc(Entry!ShiftRight(lcd), Entry!Glyph(chr')))
      /\ UNCHANGED <<scr, blink, entered>>
  BY DEF Entry!EnterDigit, Digits
<1>2. /\ IsBuffer(sNum) /\ idx \in 0..Entry!MaxLen /\ lcd = Shown(sNum, idx, chr) /\ blink
      /\ \A i \in 0..idx-1 : sNum[i] \in Digits
  BY <1>1 DEF EntryInv
<1>3. PICK n \in Nat : /\ idx = n /\ idx' = n + 1 /\ n \in 0..NUM_LEN /\ n + 1 \in 0..NUM_LEN
                       /\ n + 1 \in 0..Entry!MaxLen /\ n # NUM_LEN
  BY <1>1, <1>2, PlacesAre
<1>4. /\ DOMAIN sNum = 0..NUM_LEN /\ sNum'[n] = chr
      /\ \A i \in 0..NUM_LEN : i # n => sNum'[i] = sNum[i]
  BY <1>1, <1>2, <1>3 DEF IsBuffer, Buffers
<1>5. IsBuffer(sNum')
  <2>1. sNum' \in Buffers
    BY <1>1, <1>2, <1>3 DEF IsBuffer, Buffers
  <2>2. NUM_LEN \in 0..NUM_LEN
    BY PlacesAre
  <2> QED  BY <1>2, <1>3, <1>4, <2>1, <2>2 DEF IsBuffer
<1>6. \A i \in 0..(n+1)-1 : sNum'[i] \in Digits
  <2> SUFFICES ASSUME NEW i \in 0..(n+1)-1 PROVE sNum'[i] \in Digits
    OBVIOUS
  <2>1. i \in 0..NUM_LEN /\ (i = n \/ i \in 0..n-1)
    <3>1. i \in Nat /\ i <= n /\ n <= NUM_LEN /\ NUM_LEN \in Nat
      BY <1>3, PlacesAre
    <3> QED  BY <3>1
  <2> QED  BY <1>1, <1>2, <1>3, <1>4, <2>1
<1> DEFINE r == Row(sNum, n, chr)
           q == Put(r, n + 1, Entry!Glyph(chr'))
<1>7. q = Row(sNum', n + 1, chr')
  <2>1. \A x \in 0..NUM_LEN : x < n + 1 <=> x < n \/ x = n
    BY PlacesAre
  <2>2. n + 1 # n /\ ~(n + 1 < n) /\ ~(n + 1 < n + 1) /\ ~(n < n)
    OBVIOUS
  <2>3. Entry!Glyph(chr) = chr
    BY <1>1, GlyphIs
  <2>4. r = [x \in 0..NUM_LEN |-> IF x < n THEN sNum[x] ELSE IF x = n THEN chr ELSE Entry!UIF_CHR_BLANK]
    BY <2>3 DEF Row
  <2> HIDE DEF r
  <2>5. ASSUME NEW x \in 0..NUM_LEN
        PROVE  q[x] = IF x < n + 1 THEN sNum'[x]
                      ELSE IF x = n + 1 THEN Entry!Glyph(chr') ELSE Entry!UIF_CHR_BLANK
    <3>1. CASE x = n + 1
      BY <1>3, <2>2, <2>4, <3>1 DEF Put
    <3>2. CASE x # n + 1
      <4>1. q[x] = r[x]
        BY <2>4, <3>2 DEF Put
      <4>2. x < n => x # n
        OBVIOUS
      <4> QED  BY <1>4, <2>1, <2>4, <3>2, <4>1, <4>2
    <3> QED  BY <3>1, <3>2
  <2>6. q = [x \in 0..NUM_LEN |-> q[x]]
    BY <2>4 DEF Put
  <2> HIDE DEF q
  <2> QED  BY <2>5, <2>6 DEF Row
<1>8. lcd = Line(r, n)
  BY <1>2, <1>3 DEF Shown
<1> HIDE DEF r
<1>9. Entry!ShiftRight(lcd) = Line(r, n + 1)
  BY <1>8, CommandsAre
<1>10. Entry!Putc(Line(r, n + 1), Entry!Glyph(chr')) = Line(q, n + 1 + 1)
  BY CommandsAre
<1> HIDE DEF q
<1>11. lcd' = Line(q, n + 1 + 1 - 1)
  BY <1>1, <1>9, <1>10, CommandsAre
<1>12. n + 1 + 1 - 1 = n + 1
  OBVIOUS
<1>13. lcd' = Shown(sNum', idx', chr')
  BY <1>3, <1>7, <1>11, <1>12 DEF Shown
<1>14. Entry!MaxLen' = Entry!MaxLen
  BY <1>1 DEF Entry!MaxLen
<1> QED  BY <1>1, <1>2, <1>3, <1>5, <1>6, <1>13, <1>14 DEF EntryInv

\* The string ends at the cursor, and is handed over.
LEMMA EnterEndIs == ASSUME EntryInv, Entry!EnterEnd PROVE EntryInv'
<1>1. scr # "OTHER"
  BY DEF Entry!EnterEnd
<1>2. /\ IsBuffer(sNum) /\ idx \in 0..Entry!MaxLen /\ lcd = Shown(sNum, idx, chr) /\ blink
      /\ (\A i \in 0..idx-1 : sNum[i] \in Digits) /\ entered.str = entered.seen
  BY <1>1 DEF EntryInv
<1>3. idx \in Nat /\ idx \in 0..NUM_LEN /\ NUM_LEN \in 0..NUM_LEN /\ NUM_LEN \in Nat
  BY <1>2, PlacesAre
<1> DEFINE str == [sNum EXCEPT ![idx] = 0]
<1>4. /\ IsBuffer(str) /\ str[idx] = 0
      /\ \A i \in 0..NUM_LEN : i # idx => str[i] = sNum[i]
  BY <1>2, <1>3 DEF IsBuffer, Buffers
<1>5. CASE idx = 0
  <2>1. sNum' = str /\ UNCHANGED <<scr, chr, idx, lcd, blink, entered>>
    BY <1>5 DEF Entry!EnterEnd
  <2> HIDE DEF str
  <2>2. Row(sNum, 0, chr) = Row(sNum', 0, chr)
    <3>1. \A x \in 0..NUM_LEN : ~(x < 0)
      BY <1>3
    <3> QED  BY <3>1 DEF Row
  <2>3. lcd' = Shown(sNum', idx', chr')
    BY <1>2, <1>5, <2>1, <2>2 DEF Shown
  <2>4. Entry!MaxLen' = Entry!MaxLen
    BY <2>1 DEF Entry!MaxLen
  <2>5. 0..0-1 = {}
    OBVIOUS
  <2> QED  BY <1>2, <1>4, <1>5, <2>1, <2>3, <2>4, <2>5 DEF EntryInv
<1>6. CASE idx # 0 /\ scr = "YEAR_SET" /\ idx # YEAR_LEN
  <2>1. Entry!Edit(str)
    BY <1>6 DEF Entry!EnterEnd
  <2> HIDE DEF str
  <2> QED  BY <1>2, <1>4, <2>1, EditIs
<1>7. CASE idx # 0 /\ ~(scr = "YEAR_SET" /\ idx # YEAR_LEN)
  <2>1. /\ scr' = "OTHER" /\ sNum' = str
        /\ entered' = [str |-> Entry!String(str), seen |-> [k \in 1..lcd.col |-> lcd.row[k - 1]]]
    BY <1>7 DEF Entry!EnterEnd
  <2> HIDE DEF str
  <2>2. \A i \in 0..idx-1 : i \in 0..NUM_LEN /\ i # idx /\ i < idx
    BY <1>3
  <2>3. \A i \in 0..idx-1 : str[i] = sNum[i] /\ str[i] \in Digits
    BY <1>2, <1>4, <2>2
  <2>4. Entry!String(str) = [k \in 1..idx |-> str[k - 1]]
    BY <1>3, <1>4, <2>3, LengthIs DEF IsBuffer
  <2>5. lcd.col = idx /\ \A i \in 0..idx-1 : lcd.row[i] = sNum[i]
    BY <1>2, <1>3, <2>2 DEF Shown, Line, Row
  <2>6. \A k \in 1..idx : k - 1 \in 0..idx-1
    BY <1>3
  <2>7. Entry!String(str) = [k \in 1..lcd.col |-> lcd.row[k - 1]]
    BY <2>3, <2>4, <2>5, <2>6
  <2> QED  BY <1>4, <2>1, <2>7 DEF EntryInv
<1> QED  BY <1>5, <1>6, <1>7

\* Nothing has been entered, and no screen of an entry is shown.
LEMMA EntryInitIs == ASSUME Entry!Init PROVE EntryInv
<1> DEFINE zeros == [i \in 0..NUM_LEN |-> 0]
<1>1. /\ scr = "YEAR_SET" /\ blink = TRUE /\ sNum = Entry!YearStr(zeros) /\ idx = YEAR_LEN - 1
      /\ chr = sNum[idx] /\ lcd = Entry!ShiftLeft(Entry!Puts(Entry!Blank, McYear))
      /\ entered = [str |-> <<>>, seen |-> <<>>]
  BY DEF Entry!Init
<1>2. YEAR_LEN \in Nat /\ YEAR_LEN \in 0..NUM_LEN /\ YEAR_LEN - 1 \in 0..YEAR_LEN /\ NUM_LEN \in 0..NUM_LEN
  BY YearIs
<1>3. IsBuffer(zeros)
  BY <1>2 DEF IsBuffer, Buffers
<1> HIDE DEF zeros
<1>4. /\ IsBuffer(sNum) /\ sNum[YEAR_LEN] = 0
      /\ \A i \in 0..YEAR_LEN-1 : sNum[i] = McYear[i + 1] /\ sNum[i] \in Digits
  BY <1>1, <1>3, YearStrIs
<1>5. Entry!String(sNum) = McYear
  <2>1. Entry!String(sNum) = [k \in 1..YEAR_LEN |-> sNum[k - 1]]
    BY <1>2, <1>4, LengthIs DEF IsBuffer
  <2>2. \A k \in 1..YEAR_LEN : k - 1 \in 0..YEAR_LEN-1 /\ k - 1 + 1 = k
    BY <1>2
  <2>3. McYear = [k \in 1..YEAR_LEN |-> McYear[k]]
    BY YearIs
  <2>4. \A k \in 1..YEAR_LEN : sNum[k - 1] = McYear[k]
    BY <1>4, <2>2
  <2> QED  BY <2>1, <2>3, <2>4
<1> DEFINE l == Entry!Puts(Entry!Blank, McYear)
<1>6. l.col = YEAR_LEN
  BY YearIs DEF Entry!Puts, Entry!Blank
<1>7. lcd = [l EXCEPT !.col = idx]
  BY <1>1, <1>6 DEF Entry!ShiftLeft
<1> HIDE DEF l
<1>8. lcd = Shown(sNum, idx, chr)
  <2>1. lcd = [Entry!Puts(Entry!Blank, Entry!String(sNum)) EXCEPT !.col = idx]
    BY <1>5, <1>7 DEF l
  <2> QED  BY <1>1, <1>4, <2>1, YearShown
<1>9. idx \in 0..Entry!MaxLen /\ \A i \in 0..idx-1 : sNum[i] \in Digits
  BY <1>1, <1>2, <1>4 DEF Entry!MaxLen
<1> QED  BY <1>1, <1>4, <1>8, <1>9 DEF EntryInv

\* The screens are left for another with a cleared display.
LEMMA LeaveIs == ASSUME EntryInv, Entry!Esc \/ Entry!Ring PROVE EntryInv'
  BY DEF EntryInv, Entry!Esc, Entry!Ring, Entry!Leave

\* Every step keeps the display and the string in agreement.
LEMMA EntryNextIs == ASSUME EntryInv, Entry!Next PROVE EntryInv'
<1>1. CASE Entry!EnterAddNum
  BY <1>1, StartIs DEF Entry!EnterAddNum
<1>2. CASE Entry!EnterYearSet
  BY <1>2, EditIs DEF Entry!EnterYearSet, EntryInv
<1>3. CASE Entry!UifStrInputForward
  <2>1. PICK c : Entry!Turn(c)
    BY <1>3 DEF Entry!UifStrInputForward
  <2> QED  BY <2>1, TurnIs
<1>4. CASE Entry!UifStrInputBackward
  <2>1. PICK c : Entry!Turn(c)
    BY <1>4 DEF Entry!UifStrInputBackward
  <2> QED  BY <2>1, TurnIs
<1>5. CASE Entry!EnterEnd \/ Entry!EnterBack \/ Entry!EnterDigit
  BY <1>5, EnterEndIs, EnterBackIs, EnterDigitIs
<1>6. CASE Entry!Esc \/ Entry!Ring
  BY <1>6, LeaveIs
<1> QED  BY <1>1, <1>2, <1>3, <1>4, <1>5, <1>6 DEF Entry!Next

\* user_if.c:282-382, 446-483: however often a number or a year is typed, corrected,
\* taken or abandoned, the string in sNum and the display, which separate commands
\* change, agree, and the string that is taken is the one that was shown.
THEOREM EntersWhatIsShown == McSpec => []EntryIsShown
<1>1. McInit => EntryInv
  BY EntryInitIs DEF McInit
<1>2. EntryInv /\ [McNext]_<<part, vars, entry>> => EntryInv'
  <2> SUFFICES ASSUME EntryInv, [McNext]_<<part, vars, entry>> PROVE EntryInv'
    OBVIOUS
  <2>1. CASE Entry!Next
    BY <2>1, EntryNextIs
  <2>2. CASE UNCHANGED entry
    BY <2>2 DEF EntryInv, entry, Entry!MaxLen
  <2> QED  BY <2>1, <2>2 DEF McNext
<1>3. EntryInv => EntryIsShown
  <2>1. Shown(sNum, idx, chr).col = idx /\ Shown(sNum, idx, chr).row = Row(sNum, idx, chr)
    BY DEF Shown, Line
  <2> QED  BY <2>1 DEF EntryInv, EntryIsShown, Entry!EntryIsShown, Row
<1> QED  BY <1>1, <1>2, <1>3, PTL DEF McSpec
================================================================================
