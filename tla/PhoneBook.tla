------------------------------- MODULE PhoneBook -------------------------------
(***************************************************************************)
(* What the phone book of the call filter promises: a list of numbers that *)
(* grows at its end, a cursor on one of them while the list is on the      *)
(* display, deletion of the number under the cursor, and a copy on the     *)
(* card that a change brings up to date, leaves alone, or cuts short.      *)
(***************************************************************************)
EXTENDS Naturals, Sequences, SequencesExt

CONSTANT Numbers

VARIABLES
  list,     \* the numbers
  cur,      \* index of the number on the display, 0 when there is none
  stored    \* the numbers on the card

vars == <<list, cur, stored>>

Init == list \in Seq(Numbers) /\ cur = 0 /\ stored = list

Open == cur' = (IF list = <<>> THEN 0 ELSE 1) /\ UNCHANGED <<list, stored>>

Move ==
  /\ cur # 0
  /\ cur' \in {cur - 1, cur + 1} \cap 1..Len(list)
  /\ UNCHANGED <<list, stored>>

Close == cur' = 0 /\ UNCHANGED <<list, stored>>

Save == stored' = stored \/ IsPrefix(stored', list')

Add(num) ==
  /\ cur = 0
  /\ list' = Append(list, num)
  /\ cur' = 0
  /\ Save

Delete ==
  /\ list' = IF cur = 0 THEN list ELSE RemoveAt(list, cur)
  /\ cur' = 0
  /\ Save

Boot == list' = stored /\ cur' = 0 /\ UNCHANGED stored

Next == Open \/ Move \/ Close \/ (\E num \in Numbers : Add(num)) \/ Delete \/ Boot

Spec == Init /\ [][Next]_vars
================================================================================
