----------------------------- MODULE TelFiltProofs -----------------------------
(***************************************************************************)
(* Theorems about TelFilt, for every length of the array, size of the      *)
(* cursors and set of numbers.                                             *)
(***************************************************************************)
EXTENDS TelFilt, Induction, SequenceTheorems

--------------------------------------------------------------------------------
(* The strings in the array.                                               *)

Chars == [Cells -> Nat]

\* The walk from i to the next '\0' ends at k.
EndsAt(nums, i, k) ==
  /\ k \in i..TF_BUFLEN /\ (k = TF_BUFLEN \/ nums[k] = 0)
  /\ \A j \in i..k-1 : nums[j] # 0

\* strlen is where that walk ends.
LEMMA StrlenIs ==
  ASSUME NEW nums, NEW i \in 0..TF_BUFLEN, NEW k, EndsAt(nums, i, k)
  PROVE  strlen(nums, i) = k - i
<1>1. TF_BUFLEN \in Nat
  BY BookAssumption
<1>2. \A m : EndsAt(nums, i, m) => m = k
  <2> SUFFICES ASSUME NEW m, EndsAt(nums, i, m), m # k PROVE FALSE
    OBVIOUS
  <2>1. m \in Nat /\ k \in Nat
    BY <1>1 DEF EndsAt
  <2>2. CASE m < k
    <3>1. m \in i..k-1 /\ m # TF_BUFLEN
      BY <1>1, <2>1, <2>2 DEF EndsAt
    <3> QED  BY <3>1 DEF EndsAt
  <2>3. CASE k < m
    <3>1. k \in i..m-1 /\ k # TF_BUFLEN
      BY <1>1, <2>1, <2>3 DEF EndsAt
    <3> QED  BY <3>1 DEF EndsAt
  <2> QED  BY <2>1, <2>2, <2>3
<1>3. (CHOOSE m \in i..TF_BUFLEN :
         (m = TF_BUFLEN \/ nums[m] = 0) /\ \A j \in i..m-1 : nums[j] # 0) = k
  BY <1>2 DEF EndsAt
<1> QED  BY <1>3 DEF strlen

\* The walk ends.
LEMMA StringsEnd ==
  ASSUME NEW nums, NEW i \in 0..TF_BUFLEN
  PROVE  \E k \in i..TF_BUFLEN : EndsAt(nums, i, k)
<1>1. TF_BUFLEN \in Nat
  BY BookAssumption
<1> DEFINE S == {m \in Nat : \A p \in Nat : p + m = TF_BUFLEN => \E k \in p..TF_BUFLEN : EndsAt(nums, p, k)}
<1>2. 0 \in S
  <2> SUFFICES ASSUME NEW p \in Nat, p + 0 = TF_BUFLEN PROVE EndsAt(nums, p, p)
    BY <1>1
  <2> QED  BY <1>1 DEF EndsAt
<1>3. ASSUME NEW m \in Nat, m \in S PROVE m + 1 \in S
  <2> SUFFICES ASSUME NEW p \in Nat, p + (m + 1) = TF_BUFLEN
               PROVE  \E k \in p..TF_BUFLEN : EndsAt(nums, p, k)
    OBVIOUS
  <2>1. CASE nums[p] = 0
    <3>1. EndsAt(nums, p, p) /\ p \in p..TF_BUFLEN
      BY <1>1, <2>1 DEF EndsAt
    <3> QED  BY <3>1
  <2>2. CASE nums[p] # 0
    <3>1. (p + 1) + m = TF_BUFLEN /\ p + 1 \in Nat
      OBVIOUS
    <3>2. PICK k \in p+1..TF_BUFLEN : EndsAt(nums, p + 1, k)
      BY <1>3, <3>1
    <3>3. k \in p..TF_BUFLEN
      BY <1>1
    <3>4. ASSUME NEW j \in p..k-1 PROVE nums[j] # 0
      <4>1. j = p \/ j \in p+1..k-1
        BY <1>1
      <4> QED  BY <2>2, <3>2, <4>1 DEF EndsAt
    <3>5. EndsAt(nums, p, k)
      BY <3>2, <3>3, <3>4 DEF EndsAt
    <3> QED  BY <3>3, <3>5
  <2> QED  BY <2>1, <2>2
<1>4. Nat \subseteq S
  <2> HIDE DEF S
  <2> QED  BY <1>2, <1>3, SetInduction
<1>5. TF_BUFLEN - i \in Nat /\ i + (TF_BUFLEN - i) = TF_BUFLEN /\ i \in Nat
  BY <1>1
<1>6. TF_BUFLEN - i \in S
  BY <1>4, <1>5
<1> QED  BY <1>5, <1>6

\* strlen is a number, and does not pass a '\0'.
LEMMA StrlenStops ==
  ASSUME NEW nums, NEW i \in 0..TF_BUFLEN
  PROVE  /\ strlen(nums, i) \in Nat /\ i + strlen(nums, i) <= TF_BUFLEN
         /\ \A z \in i..TF_BUFLEN-1 : nums[z] = 0 => i + strlen(nums, i) <= z
<1>1. TF_BUFLEN \in Nat
  BY BookAssumption
<1>2. PICK k \in i..TF_BUFLEN : EndsAt(nums, i, k)
  BY StringsEnd
<1>3. strlen(nums, i) = k - i
  BY <1>2, StrlenIs
<1>4. ASSUME NEW z \in i..TF_BUFLEN-1, nums[z] = 0 PROVE k <= z
  <2> SUFFICES ASSUME ~(k <= z) PROVE FALSE
    OBVIOUS
  <2>1. z \in i..k-1
    BY <1>1
  <2> QED  BY <1>2, <1>4, <2>1 DEF EndsAt
<1> QED  BY <1>1, <1>3, <1>4

--------------------------------------------------------------------------------
(* The numbers in the array.                                               *)

\* The places of the numbers of L, and where the next one would begin.
Offsets(L, at) ==
  /\ at \in [1..Len(L)+1 -> Nat] /\ at[1] = 0
  /\ \A k \in 1..Len(L) : at[k + 1] = at[k] + Len(L[k]) + 1

\* They fit, and the cursors do not wrap.
Bounded(end) == end < CursorSize /\ end <= TF_BUFLEN

\* Number k is at its place, with its '\0'.
Holds(nums, num, p) ==
  nums[p + Len(num)] = 0 /\ \A j \in 1..Len(num) : nums[p + j - 1] = num[j]

IsBook(b, L, at) ==
  /\ b.nums \in Chars /\ L \in Seq(Numbers) /\ Offsets(L, at)
  /\ b.end = at[Len(L) + 1] /\ Bounded(b.end)
  /\ \A k \in 1..Len(L) : Holds(b.nums, L[k], at[k])

\* What is known of a number.
LEMMA NumberIs ==
  ASSUME NEW num \in Numbers
  PROVE  /\ num # <<>> /\ num \in Seq(Nat \ {0}) /\ Len(num) \in Nat /\ Len(num) > 0
         /\ \A j \in 1..Len(num) : num[j] \in Nat /\ num[j] # 0
<1>1. num # <<>> /\ num \in Seq(Nat \ {0})
  BY BookAssumption
<1>2. Len(num) \in Nat /\ Len(num) # 0
  BY <1>1, EmptySeq
<1> QED  BY <1>1, <1>2

\* The places grow.
LEMMA OffsetsGrow ==
  ASSUME NEW L \in Seq(Numbers), NEW at, Offsets(L, at)
  PROVE  /\ \A i \in 1..Len(L)+1 : at[i] \in Nat
         /\ \A i \in 1..Len(L) : at[i + 1] = at[i] + Len(L[i]) + 1 /\ Len(L[i]) \in Nat /\ Len(L[i]) > 0
         /\ \A i, j \in 1..Len(L)+1 : i < j => at[i] + Len(L[i]) + 1 <= at[j]
<1>1. PICK n \in Nat : n = Len(L)
  OBVIOUS
<1>2. \A i \in 1..n : L[i] \in Numbers
  BY <1>1
<1>3. \A i \in 1..n : Len(L[i]) \in Nat /\ Len(L[i]) > 0
  BY <1>2, NumberIs
<1>4. (\A i \in 1..n+1 : at[i] \in Nat) /\ (\A i \in 1..n : at[i + 1] = at[i] + Len(L[i]) + 1)
  BY <1>1 DEF Offsets
<1> DEFINE S == {d \in Nat : \A i \in 1..n : i + d + 1 <= n + 1 => at[i] + Len(L[i]) + 1 <= at[i + d + 1]}
<1>5. 0 \in S
  BY <1>3, <1>4
<1>6. ASSUME NEW d \in Nat, d \in S PROVE d + 1 \in S
  <2> SUFFICES ASSUME NEW i \in 1..n, i + (d + 1) + 1 <= n + 1
               PROVE  at[i] + Len(L[i]) + 1 <= at[i + (d + 1) + 1]
    OBVIOUS
  <2>1. PICK j \in 1..n : j = i + d + 1
    OBVIOUS
  <2>2. at[i] + Len(L[i]) + 1 <= at[j]
    BY <1>6, <2>1
  <2>3. at[j + 1] = at[j] + Len(L[j]) + 1 /\ Len(L[j]) \in Nat /\ at[j] \in Nat
    BY <1>3, <1>4
  <2>4. at[i + (d + 1) + 1] = at[j + 1]
    <3>1. i + (d + 1) + 1 = j + 1
      BY <2>1
    <3> QED  BY <3>1
  <2>5. at[i] \in Nat /\ Len(L[i]) \in Nat
    BY <1>3, <1>4
  <2>6. \A p, l, q, m \in Nat : p + l + 1 <= q => p + l + 1 <= q + m + 1
    OBVIOUS
  <2>7. at[i] + Len(L[i]) + 1 <= at[j] + Len(L[j]) + 1
    BY <2>2, <2>3, <2>5, <2>6
  <2> QED  BY <2>3, <2>4, <2>7
<1>7. Nat \subseteq S
  <2> HIDE DEF S
  <2> QED  BY <1>5, <1>6, SetInduction
<1>8. ASSUME NEW i \in 1..n+1, NEW j \in 1..n+1, i < j PROVE at[i] + Len(L[i]) + 1 <= at[j]
  <2>1. PICK d \in Nat : i + d + 1 = j
    <3>1. j - i - 1 \in Nat /\ i + (j - i - 1) + 1 = j
      BY <1>8
    <3> QED  BY <3>1
  <2>2. i \in 1..n /\ i + d + 1 <= n + 1
    BY <1>8, <2>1
  <2>3. d \in S
    BY <1>7
  <2>4. at[i] + Len(L[i]) + 1 <= at[i + d + 1]
    BY <2>2, <2>3
  <2> QED  BY <2>1, <2>4
<1> QED  BY <1>1, <1>3, <1>4, <1>8

\* Nor does a remainder change what is small.
LEMMA NoWrap == ASSUME NEW x \in Nat, x < CursorSize PROVE x % CursorSize = x
  BY BookAssumption

\* A number is read back from its place, and the next one is behind it.
LEMMA NumberAt ==
  ASSUME NEW b, NEW L, NEW at, IsBook(b, L, at), NEW k \in 1..Len(L)
  PROVE  /\ at[k] \in Nat /\ at[k + 1] \in Nat /\ L[k] \in Numbers /\ b.end \in Nat
         /\ at[k + 1] = at[k] + Len(L[k]) + 1 /\ at[k + 1] <= b.end /\ at[k] < b.end
         /\ strlen(b.nums, at[k]) = Len(L[k]) /\ String(b.nums, at[k]) = L[k]
         /\ (at[k] + strlen(b.nums, at[k]) + 1) % CursorSize = at[k + 1]
<1>1. /\ L \in Seq(Numbers) /\ Offsets(L, at) /\ b.end = at[Len(L) + 1] /\ Bounded(b.end)
      /\ Holds(b.nums, L[k], at[k]) /\ Len(L) \in Nat
  BY DEF IsBook
<1>2. L[k] \in Numbers /\ k + 1 \in 1..Len(L)+1 /\ k \in 1..Len(L)+1 /\ Len(L) + 1 \in 1..Len(L)+1
  BY <1>1
<1>3. /\ at[k] \in Nat /\ at[k + 1] \in Nat /\ at[k + 1] = at[k] + Len(L[k]) + 1
      /\ at[Len(L) + 1] \in Nat
  BY <1>1, <1>2, OffsetsGrow
<1>4. at[k + 1] <= at[Len(L) + 1]
  <2>1. at[k] + Len(L[k]) + 1 <= at[Len(L) + 1]
    <3>1. k < Len(L) + 1
      BY <1>1
    <3> QED  BY <1>1, <1>2, <3>1, OffsetsGrow
  <2> QED  BY <1>3, <2>1
<1>5. TF_BUFLEN \in Nat
  BY BookAssumption
<1> DEFINE m == Len(L[k])
<1>6. m \in Nat /\ m > 0 /\ \A j \in 1..m : L[k][j] \in Nat /\ L[k][j] # 0
  BY <1>2, NumberIs
<1>7. b.nums[at[k] + m] = 0 /\ \A j \in 1..m : b.nums[at[k] + j - 1] = L[k][j]
  BY <1>1 DEF Holds
<1> HIDE DEF m
<1>8. b.end <= TF_BUFLEN /\ b.end < CursorSize
  BY <1>1 DEF Bounded
<1>9. PICK x \in Nat, y \in Nat : x = at[k] /\ y = x + m /\ y < b.end /\ y < TF_BUFLEN
  BY <1>1, <1>3, <1>4, <1>5, <1>6, <1>8 DEF m
<1>10. EndsAt(b.nums, x, y)
  <2>1. y \in x..TF_BUFLEN
    BY <1>5, <1>6, <1>9
  <2>2. ASSUME NEW i \in x..y-1 PROVE b.nums[i] # 0
    <3>1. PICK j \in 1..m : i = x + j - 1
      <4>1. i \in Int /\ x <= i /\ i < x + m /\ m \in Nat /\ x \in Nat
        BY <1>6, <1>9
      <4>2. i - x + 1 \in 1..m /\ i = x + (i - x + 1) - 1
        BY <4>1
      <4> QED  BY <4>2
    <3>2. b.nums[i] = L[k][j]
      BY <1>7, <1>9, <3>1
    <3> QED  BY <1>6, <3>1, <3>2
  <2>3. b.nums[y] = 0
    BY <1>7, <1>9
  <2> QED  BY <2>1, <2>2, <2>3 DEF EndsAt
<1>11. strlen(b.nums, at[k]) = m
  <2>1. x \in 0..TF_BUFLEN
    BY <1>5, <1>6, <1>9
  <2>2. strlen(b.nums, x) = y - x
    BY <1>10, <2>1, StrlenIs
  <2> QED  BY <1>6, <1>9, <2>2
<1>12. String(b.nums, at[k]) = L[k]
  <2>1. String(b.nums, at[k]) = [j \in 1..m |-> b.nums[at[k] + j - 1]]
    BY <1>11 DEF String
  <2>2. L[k] = [j \in 1..m |-> L[k][j]]
    BY <1>2, NumberIs DEF m
  <2> QED  BY <1>7, <2>1, <2>2
<1>13. (at[k] + m + 1) % CursorSize = at[k + 1]
  <2>1. at[k] + m + 1 = at[k + 1] /\ at[k + 1] < CursorSize
    <3>1. CursorSize \in Nat
      BY BookAssumption
    <3> QED  BY <1>1, <1>3, <1>4, <1>8, <3>1 DEF m
  <2> QED  BY <1>3, <2>1, NoWrap
<1>14. at[k + 1] <= b.end /\ at[k] < b.end
  BY <1>1, <1>3, <1>4, <1>6 DEF m
<1> QED  BY <1>1, <1>2, <1>3, <1>11, <1>12, <1>13, <1>14 DEF m

\* From any place before the end the next '\0' leads forward, and not past the end.
LEMMA StepsForward ==
  ASSUME NEW b, NEW L, NEW at, IsBook(b, L, at), NEW p \in Nat, p < b.end
  PROVE  /\ b.end \in Nat /\ strlen(b.nums, p) \in Nat /\ p + strlen(b.nums, p) + 1 <= b.end
         /\ (p + strlen(b.nums, p) + 1) % CursorSize = p + strlen(b.nums, p) + 1
<1>1. /\ L \in Seq(Numbers) /\ Offsets(L, at) /\ b.end = at[Len(L) + 1] /\ Bounded(b.end)
      /\ Len(L) \in Nat /\ at[1] = 0
  BY DEF IsBook, Offsets
<1>2. Len(L) # 0
  BY <1>1
<1>3. PICK n \in 1..Len(L) : n = Len(L)
  BY <1>1, <1>2
<1>4. /\ at[n] \in Nat /\ b.end \in Nat /\ L[n] \in Numbers /\ at[n + 1] = at[n] + Len(L[n]) + 1
  BY NumberAt
<1>5. Holds(b.nums, L[n], at[n]) /\ Len(L[n]) \in Nat
  BY <1>4, NumberIs DEF IsBook
<1>6. PICK z \in Nat : z = at[n] + Len(L[n]) /\ z + 1 = b.end /\ b.nums[z] = 0
  BY <1>1, <1>3, <1>4, <1>5 DEF Holds
<1>7. TF_BUFLEN \in Nat /\ CursorSize \in Nat /\ b.end <= TF_BUFLEN /\ b.end < CursorSize
  BY <1>1, BookAssumption DEF Bounded
<1>8. p \in 0..TF_BUFLEN /\ z \in p..TF_BUFLEN-1
  BY <1>6, <1>7
<1>9. strlen(b.nums, p) \in Nat /\ p + strlen(b.nums, p) <= z
  BY <1>6, <1>8, StrlenStops
<1>10. PICK l \in Nat : l = strlen(b.nums, p)
  BY <1>9
<1>11. p + l + 1 \in Nat /\ p + l + 1 < CursorSize /\ p + l + 1 <= b.end
  <2>1. p + l + 1 <= z + 1 /\ p + l + 1 \in Nat
    BY <1>9, <1>10
  <2> QED  BY <1>6, <1>7, <2>1
<1>12. (p + l + 1) % CursorSize = p + l + 1
  BY <1>11, NoWrap
<1> QED  BY <1>4, <1>10, <1>11, <1>12

\* The walk of Starts.
WalksTo(w, b) ==
  w = [p \in Nat |-> IF p >= b.end THEN <<>>
                     ELSE <<p>> \o w[(p + strlen(b.nums, p) + 1) % CursorSize]]

\* It is a function.
LEMMA WalkExists ==
  ASSUME NEW b, NEW L, NEW at, IsBook(b, L, at), b.end \in Nat
  PROVE  \E w : WalksTo(w, b)
<1> DEFINE next == [p \in Nat |-> (p + strlen(b.nums, p) + 1) % CursorSize]
           X == Seq(Nat)
           e == <<>>
           G == [x \in Nat \X X |-> <<x[1]>> \o x[2]]
<1>1. \A p \in 0..b.end-1 : next[p] \in Nat /\ next[p] > p
  <2> SUFFICES ASSUME NEW p \in 0..b.end-1 PROVE next[p] \in Nat /\ next[p] > p
    OBVIOUS
  <2>1. p \in Nat /\ p < b.end
    OBVIOUS
  <2>2. strlen(b.nums, p) \in Nat /\ (p + strlen(b.nums, p) + 1) % CursorSize = p + strlen(b.nums, p) + 1
    BY <2>1, StepsForward
  <2> QED  BY <2>1, <2>2
<1>2. G \in [Nat \X X -> X] /\ e \in X
  OBVIOUS
<1>3. \E f \in [Nat -> X] : Recurs(f, b.end, e, G, next)
  <2>1. GoesUp(next, b.end)
    BY <1>1 DEF GoesUp
  <2> HIDE DEF G, X, e, next
  <2> QED  BY <1>2, <2>1, UpwardRecursion
<1>4. PICK f \in [Nat -> X] : \A p \in Nat : f[p] = IF p >= b.end THEN e ELSE G[<<p, f[next[p]]>>]
  <2> HIDE DEF G, X, e, next
  <2> QED  BY <1>3 DEF Recurs
<1>5. ASSUME NEW p \in Nat, ~(p >= b.end)
      PROVE  f[p] = <<p>> \o f[(p + strlen(b.nums, p) + 1) % CursorSize]
  <2>1. next[p] \in Nat
    <3>1. p \in 0..b.end-1
      BY <1>5
    <3> HIDE DEF next
    <3> QED  BY <1>1, <3>1
  <2>2. f[next[p]] \in Seq(Nat)
    BY <2>1
  <2>3. f[p] = <<p>> \o f[next[p]]
    <3> HIDE DEF next
    <3> QED  BY <1>4, <1>5, <2>2
  <2> QED  BY <2>3
<1>6. f = [p \in Nat |-> IF p >= b.end THEN <<>>
                         ELSE <<p>> \o f[(p + strlen(b.nums, p) + 1) % CursorSize]]
  <2>1. f = [p \in Nat |-> f[p]]
    OBVIOUS
  <2>2. \A p \in Nat : f[p] = IF p >= b.end THEN <<>>
                              ELSE <<p>> \o f[(p + strlen(b.nums, p) + 1) % CursorSize]
    BY <1>4, <1>5
  <2> QED  BY <2>1, <2>2
<1> QED  BY <1>6 DEF WalksTo

\* The walk passes through the places of the numbers.
LEMMA StartsAre ==
  ASSUME NEW b, NEW L, NEW at, IsBook(b, L, at)
  PROVE  Starts(b) = [k \in 1..Len(L) |-> at[k]]
<1>1. /\ L \in Seq(Numbers) /\ Offsets(L, at) /\ b.end = at[Len(L) + 1] /\ at[1] = 0
  BY DEF IsBook, Offsets
<1>2. PICK n \in Nat : n = Len(L)
  BY <1>1
<1>3. (\A k \in 1..n+1 : at[k] \in Nat) /\ b.end = at[n + 1] /\ b.end \in Nat
  BY <1>1, <1>2, OffsetsGrow
<1> DEFINE walk == CHOOSE w : WalksTo(w, b)
<1>4. WalksTo(walk, b)
  BY <1>3, WalkExists
<1>5. Starts(b) = walk[0]
  BY DEF Starts, WalksTo
<1> HIDE DEF walk
<1>6. \A p \in Nat : walk[p] = IF p >= b.end THEN <<>>
                               ELSE <<p>> \o walk[(p + strlen(b.nums, p) + 1) % CursorSize]
  BY <1>4 DEF WalksTo
<1> DEFINE S == {m \in Nat : \A k \in 1..n+1 : k + m = n + 1 => walk[at[k]] = [j \in 1..m |-> at[k + j - 1]]}
<1>7. 0 \in S
  <2> SUFFICES ASSUME NEW k \in 1..n+1, k + 0 = n + 1
               PROVE  walk[at[k]] = [j \in 1..0 |-> at[k + j - 1]]
    OBVIOUS
  <2>1. at[k] = b.end
    BY <1>3
  <2>2. walk[b.end] = <<>>
    <3>1. b.end >= b.end
      BY <1>3
    <3> QED  BY <1>3, <1>6, <3>1
  <2> QED  BY <2>1, <2>2
<1>8. ASSUME NEW m \in Nat, m \in S PROVE m + 1 \in S
  <2> SUFFICES ASSUME NEW k \in 1..n+1, k + (m + 1) = n + 1
               PROVE  walk[at[k]] = [j \in 1..m+1 |-> at[k + j - 1]]
    OBVIOUS
  <2>1. k \in 1..n /\ k + 1 \in 1..n+1 /\ (k + 1) + m = n + 1
    OBVIOUS
  <2>2. at[k] \in Nat /\ at[k] < b.end /\ (at[k] + strlen(b.nums, at[k]) + 1) % CursorSize = at[k + 1]
    BY <1>2, <2>1, NumberAt
  <2> DEFINE rest == [j \in 1..m |-> at[(k + 1) + j - 1]]
             all == [j \in 1..m+1 |-> at[k + j - 1]]
  <2>3. walk[at[k + 1]] = rest
    BY <1>8, <2>1
  <2>4. walk[at[k]] = <<at[k]>> \o rest
    <3>1. ~(at[k] >= b.end)
      BY <1>3, <2>2
    <3>2. walk[at[k]] = <<at[k]>> \o walk[(at[k] + strlen(b.nums, at[k]) + 1) % CursorSize]
      BY <1>6, <2>2, <3>1
    <3> HIDE DEF rest
    <3> QED  BY <2>2, <2>3, <3>2
  <2>5. \A j \in 1..m+1 : k + j - 1 \in 1..n+1
    BY <2>1
  <2>6. \A j \in 1..m : (k + 1) + j - 1 \in 1..n+1
    BY <2>1
  <2>7. all \in Seq(Nat) /\ rest \in Seq(Nat) /\ Len(all) = m + 1 /\ Len(rest) = m
    BY <1>3, <2>5, <2>6
  <2>8. (<<at[k]>> \o rest) \in Seq(Nat) /\ Len(<<at[k]>> \o rest) = m + 1
    <3> HIDE DEF rest, all
    <3> QED  BY <2>2, <2>7
  <2>9. ASSUME NEW j \in 1..m+1 PROVE (<<at[k]>> \o rest)[j] = all[j]
    <3>1. CASE j = 1
      <4>1. all[j] = at[k]
        BY <3>1
      <4> HIDE DEF rest, all
      <4> QED  BY <2>2, <2>7, <3>1, <4>1
    <3>2. CASE j # 1
      <4>1. PICK i \in 1..m : j = i + 1
        <5>1. j - 1 \in 1..m /\ j = (j - 1) + 1
          BY <3>2
        <5> QED  BY <5>1
      <4>2. rest[i] = at[k + i] /\ all[j] = at[k + i]
        <5>1. (k + 1) + i - 1 = k + i /\ k + j - 1 = k + i
          BY <4>1
        <5> QED  BY <4>1, <5>1
      <4>3. (<<at[k]>> \o rest)[j] = rest[i]
        <5> HIDE DEF rest, all
        <5> QED  BY <2>2, <2>7, <4>1
      <4> QED  BY <4>2, <4>3
    <3> QED  BY <3>1, <3>2
  <2>10. <<at[k]>> \o rest = all
    <3> HIDE DEF rest, all
    <3> QED  BY <2>7, <2>8, <2>9, SeqEqual
  <2> QED  BY <2>4, <2>10
<1>9. Nat \subseteq S
  <2> HIDE DEF S
  <2> QED  BY <1>7, <1>8, SetInduction
<1>10. walk[at[1]] = [j \in 1..n |-> at[1 + j - 1]]
  <2>1. n \in S /\ 1 \in 1..n+1 /\ 1 + n = n + 1
    BY <1>9
  <2> QED  BY <2>1
<1>11. \A j \in 1..n : 1 + j - 1 = j
  OBVIOUS
<1> QED  BY <1>1, <1>2, <1>5, <1>10, <1>11

\* What the phone book holds is what TfNumGetFirst and TfNumGetNext return.
LEMMA BookIs ==
  ASSUME NEW b, NEW L, NEW at, IsBook(b, L, at)
  PROVE  Book(b) = L
<1>1. PICK n \in Nat : n = Len(L) /\ L \in Seq(Numbers)
  BY DEF IsBook
<1>2. Starts(b) = [k \in 1..n |-> at[k]]
  BY <1>1, StartsAre
<1>3. Book(b) = [k \in 1..n |-> String(b.nums, at[k])]
  <2> DEFINE s == Starts(b)
  <2>1. Len(s) = n /\ \A k \in 1..n : s[k] = at[k]
    BY <1>2
  <2>2. Book(b) = [k \in 1..Len(s) |-> String(b.nums, s[k])]
    BY DEF Book
  <2> HIDE DEF s
  <2> QED  BY <2>1, <2>2
<1>4. \A k \in 1..n : String(b.nums, at[k]) = L[k]
  BY <1>1, NumberAt
<1>5. L = [k \in 1..n |-> L[k]]
  BY <1>1
<1> QED  BY <1>3, <1>4, <1>5

\* The loop of TfNumCheck.
Searches(f, b, num) ==
  f = [i \in Nat |-> IF i >= b.end THEN FALSE
                     ELSE \/ String(b.nums, i) = num
                          \/ f[i + strlen(b.nums, i) + 1]]

\* It is a function.
LEMMA SearchExists ==
  ASSUME NEW b, NEW L, NEW at, IsBook(b, L, at), b.end \in Nat, NEW num
  PROVE  \E f : Searches(f, b, num)
<1> DEFINE next == [p \in Nat |-> p + strlen(b.nums, p) + 1]
           e == FALSE
           G == [x \in Nat \X BOOLEAN |-> String(b.nums, x[1]) = num \/ x[2]]
<1>1. GoesUp(next, b.end)
  <2> SUFFICES ASSUME NEW p \in 0..b.end-1 PROVE next[p] \in Nat /\ next[p] > p
    BY DEF GoesUp
  <2>1. p \in Nat /\ p < b.end
    OBVIOUS
  <2>2. strlen(b.nums, p) \in Nat
    BY <2>1, StepsForward
  <2> QED  BY <2>1, <2>2
<1>2. G \in [Nat \X BOOLEAN -> BOOLEAN] /\ e \in BOOLEAN
  OBVIOUS
<1>3. \E f \in [Nat -> BOOLEAN] : Recurs(f, b.end, e, G, next)
  <2> HIDE DEF G, e, next
  <2> QED  BY <1>1, <1>2, UpwardRecursion
<1>4. PICK f \in [Nat -> BOOLEAN] : \A p \in Nat : f[p] = IF p >= b.end THEN e ELSE G[<<p, f[next[p]]>>]
  <2> HIDE DEF G, e, next
  <2> QED  BY <1>3 DEF Recurs
<1>5. ASSUME NEW p \in Nat, ~(p >= b.end)
      PROVE  f[p] = (String(b.nums, p) = num \/ f[p + strlen(b.nums, p) + 1])
  <2>1. p \in 0..b.end-1
    BY <1>5
  <2>2. next[p] \in Nat
    <3> HIDE DEF next
    <3> QED  BY <1>1, <2>1 DEF GoesUp
  <2>3. f[next[p]] \in BOOLEAN
    BY <2>2
  <2> DEFINE v == f[next[p]]
  <2>4. f[p] = G[<<p, v>>]
    <3> HIDE DEF next, G
    <3> QED  BY <1>4, <1>5
  <2>5. G[<<p, v>>] = (String(b.nums, p) = num \/ v)
    <3> HIDE DEF v
    <3>1. v \in BOOLEAN
      BY <2>3 DEF v
    <3> QED  BY <3>1
  <2>6. v = f[p + strlen(b.nums, p) + 1]
    OBVIOUS
  <2> HIDE DEF v
  <2> QED  BY <2>4, <2>5, <2>6
<1>6. f = [p \in Nat |-> IF p >= b.end THEN FALSE
                         ELSE String(b.nums, p) = num \/ f[p + strlen(b.nums, p) + 1]]
  <2>1. f = [p \in Nat |-> f[p]]
    OBVIOUS
  <2>2. \A p \in Nat : f[p] = IF p >= b.end THEN FALSE
                              ELSE String(b.nums, p) = num \/ f[p + strlen(b.nums, p) + 1]
    BY <1>4, <1>5
  <2> QED  BY <2>1, <2>2
<1> QED  BY <1>6 DEF Searches

\* The loop finds exactly the numbers of the phone book.
LEMMA FoundIs ==
  ASSUME NEW b, NEW L, NEW at, IsBook(b, L, at), NEW num
  PROVE  Found(b, num) \in BOOLEAN /\ (Found(b, num) <=> \E k \in 1..Len(L) : L[k] = num)
<1>1. /\ L \in Seq(Numbers) /\ Offsets(L, at) /\ b.end = at[Len(L) + 1] /\ at[1] = 0
  BY DEF IsBook, Offsets
<1>2. PICK n \in Nat : n = Len(L)
  BY <1>1
<1>3. (\A k \in 1..n+1 : at[k] \in Nat) /\ b.end = at[n + 1] /\ b.end \in Nat
  BY <1>1, <1>2, OffsetsGrow
<1> DEFINE f == CHOOSE g : Searches(g, b, num)
<1>4. Searches(f, b, num)
  BY <1>3, SearchExists
<1>5. Found(b, num) = f[0]
  BY DEF Found, Searches
<1> HIDE DEF f
<1>6. \A p \in Nat : f[p] = IF p >= b.end THEN FALSE
                            ELSE String(b.nums, p) = num \/ f[p + strlen(b.nums, p) + 1]
  BY <1>4 DEF Searches
<1> DEFINE Rest(k) == \E j \in k..n : L[j] = num
           S == {m \in Nat : \A k \in 1..n+1 : k + m = n + 1 => f[at[k]] = Rest(k)}
<1> HIDE DEF Rest
<1>7. 0 \in S
  <2> SUFFICES ASSUME NEW k \in 1..n+1, k + 0 = n + 1 PROVE f[at[k]] = Rest(k)
    OBVIOUS
  <2>1. at[k] = b.end
    BY <1>3
  <2>2. f[b.end] = FALSE
    <3>1. b.end >= b.end
      BY <1>3
    <3> QED  BY <1>3, <1>6, <3>1
  <2>3. Rest(k) = FALSE
    BY DEF Rest
  <2> QED  BY <2>1, <2>2, <2>3
<1>8. ASSUME NEW m \in Nat, m \in S PROVE m + 1 \in S
  <2> SUFFICES ASSUME NEW k \in 1..n+1, k + (m + 1) = n + 1 PROVE f[at[k]] = Rest(k)
    OBVIOUS
  <2>1. k \in 1..n /\ k + 1 \in 1..n+1 /\ (k + 1) + m = n + 1
    OBVIOUS
  <2>2. /\ at[k] \in Nat /\ at[k] < b.end /\ at[k + 1] = at[k] + strlen(b.nums, at[k]) + 1
        /\ String(b.nums, at[k]) = L[k]
    BY <1>2, <2>1, NumberAt
  <2>3. f[at[k + 1]] = Rest(k + 1)
    BY <1>8, <2>1
  <2>4. f[at[k]] = (L[k] = num \/ f[at[k + 1]])
    <3>1. ~(at[k] >= b.end)
      BY <1>3, <2>2
    <3>2. f[at[k]] = (String(b.nums, at[k]) = num \/ f[at[k] + strlen(b.nums, at[k]) + 1])
      BY <1>6, <2>2, <3>1
    <3> QED  BY <2>2, <3>2
  <2>5. Rest(k) = (L[k] = num \/ Rest(k + 1))
    <3>1. \A j \in k..n : j = k \/ j \in k+1..n
      BY <2>1
    <3>2. k \in k..n /\ k+1..n \subseteq k..n
      BY <2>1
    <3> QED  BY <3>1, <3>2 DEF Rest
  <2> QED  BY <2>3, <2>4, <2>5
<1>9. Nat \subseteq S
  <2> HIDE DEF S
  <2> QED  BY <1>7, <1>8, SetInduction
<1>10. f[at[1]] = Rest(1)
  <2>1. n \in S
    <3> HIDE DEF S
    <3> QED  BY <1>9
  <2>2. 1 \in 1..n+1 /\ 1 + n = n + 1
    OBVIOUS
  <2> QED  BY <2>1, <2>2
<1>11. Rest(1) = \E k \in 1..n : L[k] = num
  BY DEF Rest
<1> QED  BY <1>1, <1>2, <1>5, <1>10, <1>11

\* Two less, in the arithmetic of the cursors.
LEMMA TwoLess ==
  ASSUME NEW x \in Nat, x >= 2, x < CursorSize
  PROVE  (x + CursorSize - 2) % CursorSize = x - 2
<1>1. CursorSize \in Nat /\ CursorSize > 0
  BY BookAssumption
<1>2. ASSUME NEW r \in Nat, NEW z \in Nat, r < CursorSize, z = CursorSize + r
      PROVE  z % CursorSize = r
  BY <1>1, <1>2
<1>3. x - 2 \in Nat /\ x - 2 < CursorSize /\ x + CursorSize - 2 \in Nat /\ x + CursorSize - 2 = CursorSize + (x - 2)
  BY <1>1
<1> QED  BY <1>2, <1>3

\* The loop of TfNumGetPrev.
GoesBack(f, b) ==
  f = [p \in 0..CursorSize-1 |-> IF p = 0 THEN 0
                                 ELSE IF b.nums[p - 1] = 0 THEN p ELSE f[p - 1]]

\* It is a function.
LEMMA BackExists == ASSUME NEW b PROVE \E f : GoesBack(f, b)
<1>1. PICK n \in Nat : n = CursorSize - 1
  BY BookAssumption
<1> DEFINE G == [x \in Nat \X Nat |-> IF b.nums[x[1] - 1] = 0 THEN x[1] ELSE x[2]]
<1>2. G \in [Nat \X Nat -> Nat]
  OBVIOUS
<1>3. PICK f \in [0..n -> Nat] : Repeats(f, n, 0, G)
  <2> HIDE DEF G
  <2> QED  BY <1>2, PrimitiveRecursion
<1>4. ASSUME NEW i \in 0..n
      PROVE  f[i] = IF i = 0 THEN 0 ELSE IF b.nums[i - 1] = 0 THEN i ELSE f[i - 1]
  <2>1. f[i] = IF i = 0 THEN 0 ELSE G[<<i, f[i - 1]>>]
    <3> HIDE DEF G
    <3> QED  BY <1>3 DEF Repeats
  <2>2. i # 0 => i - 1 \in 0..n /\ f[i - 1] \in Nat
    OBVIOUS
  <2> QED  BY <2>1, <2>2
<1>5. f = [i \in 0..n |-> f[i]]
  OBVIOUS
<1> QED  BY <1>1, <1>4, <1>5 DEF GoesBack

\* Before the place of a number the loop finds that of the one before.
LEMMA PrevPosIs ==
  ASSUME NEW b, NEW L, NEW at, IsBook(b, L, at), NEW k \in 1..Len(L)-1, b.pos = at[k + 1]
  PROVE  b.pos # 0 /\ PrevPos(b) = at[k]
<1>1. /\ L \in Seq(Numbers) /\ Offsets(L, at) /\ at[1] = 0 /\ Len(L) \in Nat
      /\ \A j \in 1..Len(L) : Holds(b.nums, L[j], at[j])
  BY DEF IsBook, Offsets
<1>2. k \in 1..Len(L) /\ k + 1 \in 1..Len(L)
  BY <1>1
<1>3. /\ at[k] \in Nat /\ at[k + 1] = at[k] + Len(L[k]) + 1 /\ L[k] \in Numbers
      /\ at[k + 1] < CursorSize /\ CursorSize \in Nat
  <2>1. at[k] \in Nat /\ at[k + 1] = at[k] + Len(L[k]) + 1 /\ L[k] \in Numbers
    BY <1>2, NumberAt
  <2>2. at[k + 1] \in Nat /\ at[k + 1] < b.end /\ b.end \in Nat
    BY <1>2, NumberAt
  <2>3. b.end < CursorSize /\ CursorSize \in Nat
    BY BookAssumption DEF IsBook, Bounded
  <2> QED  BY <2>1, <2>2, <2>3
<1>4. PICK a \in Nat, l \in Nat : a = at[k] /\ l = Len(L[k]) /\ l > 0
  BY <1>3, NumberIs
<1>5. at[k + 1] = a + l + 1 /\ a + l + 1 < CursorSize
  BY <1>3, <1>4
<1>6. ASSUME NEW j \in 1..l PROVE b.nums[a + j - 1] # 0
  <2>1. b.nums[a + j - 1] = L[k][j]
    BY <1>1, <1>2, <1>4 DEF Holds
  <2>2. L[k][j] # 0
    BY <1>3, <1>4, NumberIs
  <2> QED  BY <2>1, <2>2
<1>7. a = 0 \/ b.nums[a - 1] = 0
  <2>1. CASE k = 1
    BY <1>1, <1>4, <2>1
  <2>2. CASE k # 1
    <3>1. PICK i \in 1..Len(L) : i + 1 = k
      <4>1. k - 1 \in 1..Len(L) /\ (k - 1) + 1 = k
        BY <1>1, <2>2
      <4> QED  BY <4>1
    <3>2. at[i] \in Nat /\ a = at[i] + Len(L[i]) + 1 /\ L[i] \in Numbers
      BY <1>4, <3>1, NumberAt
    <3>3. b.nums[at[i] + Len(L[i])] = 0 /\ Len(L[i]) \in Nat
      BY <1>1, <3>1, <3>2, NumberIs DEF Holds
    <3>4. a - 1 = at[i] + Len(L[i])
      BY <3>2, <3>3
    <3> QED  BY <3>3, <3>4
  <2> QED  BY <2>1, <2>2
<1> DEFINE back == CHOOSE f : GoesBack(f, b)
<1>8. GoesBack(back, b)
  BY BackExists
<1>9. PrevPos(b) = back[(b.pos + CursorSize - 2) % CursorSize]
  BY DEF PrevPos, GoesBack
<1> HIDE DEF back
<1>10. \A p \in 0..CursorSize-1 : back[p] = IF p = 0 THEN 0
                                           ELSE IF b.nums[p - 1] = 0 THEN p ELSE back[p - 1]
  BY <1>8 DEF GoesBack
<1> DEFINE S == {m \in Nat : m < l => back[a + m] = a}
<1>11. 0 \in S
  <2>1. a + 0 = a /\ a \in 0..CursorSize-1
    BY <1>3, <1>4
  <2>2. back[a] = a
    BY <1>7, <1>10, <2>1
  <2> QED  BY <2>1, <2>2
<1>12. ASSUME NEW m \in Nat, m \in S PROVE m + 1 \in S
  <2> SUFFICES ASSUME m + 1 < l PROVE back[a + (m + 1)] = a
    OBVIOUS
  <2>1. PICK p \in Nat : p = a + (m + 1) /\ p - 1 = a + m /\ p # 0
    OBVIOUS
  <2>2. p \in 0..CursorSize-1
    BY <1>3, <1>5, <2>1
  <2>3. b.nums[p - 1] # 0
    <3>1. m + 1 \in 1..l /\ a + (m + 1) - 1 = p - 1
      BY <2>1
    <3> QED  BY <1>6, <3>1
  <2>4. back[p] = back[p - 1]
    BY <1>10, <2>1, <2>2, <2>3
  <2>5. back[a + m] = a
    BY <1>12
  <2> QED  BY <2>1, <2>4, <2>5
<1>13. Nat \subseteq S
  <2> HIDE DEF S
  <2> QED  BY <1>11, <1>12, SetInduction
<1>14. PICK q \in Nat : q + 1 = l
  <2>1. l - 1 \in Nat /\ (l - 1) + 1 = l
    BY <1>4
  <2> QED  BY <2>1
<1>15. (b.pos + CursorSize - 2) % CursorSize = a + q
  <2>1. b.pos = a + q + 2
    BY <1>14, <1>5
  <2>2. b.pos \in Nat /\ b.pos >= 2 /\ b.pos < CursorSize /\ b.pos - 2 = a + q
    BY <1>14, <1>5, <2>1
  <2>3. (b.pos + CursorSize - 2) % CursorSize = b.pos - 2
    BY <2>2, TwoLess
  <2> QED  BY <2>2, <2>3
<1>16. q \in S /\ q < l
  <2>1. q \in S
    <3> HIDE DEF S
    <3> QED  BY <1>13
  <2> QED  BY <1>14, <2>1
<1>17. back[a + q] = a
  BY <1>16
<1>18. PrevPos(b) = a
  BY <1>9, <1>15, <1>17
<1>19. a + l + 1 # 0
  OBVIOUS
<1> QED  BY <1>4, <1>5, <1>18, <1>19

--------------------------------------------------------------------------------
(* What the functions do to the phone book.                                *)

Modes == {TF_MODE_BLACKLIST, TF_MODE_WHITELIST}

Books == [nums : Chars, mode : Modes, end : Nat, readPos : Nat, pos : Nat,
          filtHidden : BOOLEAN, filtDisabled : BOOLEAN]

\* The settings stay.
SameSettings(c, b) == c.mode = b.mode /\ c.filtHidden = b.filtHidden

\* Where a cell of the phone book is.
LEMMA CellsAre ==
  ASSUME NEW b, NEW L, NEW at, IsBook(b, L, at), NEW k \in 1..Len(L), NEW j \in 0..Len(L[k])
  PROVE  at[k] + j \in Nat /\ at[k] + j < b.end /\ at[k] + j \in Cells /\ b.end \in Nat
<1>1. /\ at[k] \in Nat /\ at[k + 1] = at[k] + Len(L[k]) + 1 /\ L[k] \in Numbers
      /\ at[k + 1] <= b.end /\ b.end \in Nat
  BY NumberAt
<1>2. b.end <= TF_BUFLEN /\ TF_BUFLEN \in Nat /\ Len(L[k]) \in Nat
  BY <1>1, NumberIs, BookAssumption DEF IsBook, Bounded
<1>3. PICK a \in Nat, l \in Nat : a = at[k] /\ l = Len(L[k]) /\ a + l + 1 <= b.end
  BY <1>1, <1>2
<1>4. a + j \in Nat /\ a + j < b.end /\ a + j \in 0..TF_BUFLEN-1
  <2>1. j \in Nat /\ j <= l
    BY <1>3
  <2>2. a + j \in Nat /\ a + j < b.end
    BY <1>1, <1>3, <2>1
  <2>3. PICK x \in Nat : x = a + j
    BY <2>2
  <2>4. x < TF_BUFLEN
    BY <1>1, <1>2, <2>2, <2>3
  <2>5. x \in 0..TF_BUFLEN-1
    BY <1>2, <2>4
  <2> QED  BY <2>2, <2>3, <2>5
<1> QED  BY <1>1, <1>3, <1>4 DEF Cells

\* A phone book whose cells are the same up to its end is the same.
LEMMA SameCells ==
  ASSUME NEW b, NEW c, NEW L, NEW at, IsBook(b, L, at), c.nums \in Chars,
         \A i \in Cells : i < b.end => c.nums[i] = b.nums[i]
  PROVE  \A k \in 1..Len(L) : Holds(c.nums, L[k], at[k])
<1> SUFFICES ASSUME NEW k \in 1..Len(L) PROVE Holds(c.nums, L[k], at[k])
  OBVIOUS
<1>1. Holds(b.nums, L[k], at[k])
  BY DEF IsBook
<1>2. L[k] \in Numbers /\ at[k] \in Nat /\ Len(L[k]) \in Nat
  BY NumberAt, NumberIs
<1>3. c.nums[at[k] + Len(L[k])] = b.nums[at[k] + Len(L[k])]
  <2>1. Len(L[k]) \in 0..Len(L[k])
    BY <1>2
  <2>2. at[k] + Len(L[k]) \in Cells /\ at[k] + Len(L[k]) < b.end
    BY <2>1, CellsAre
  <2> QED  BY <2>2
<1>4. ASSUME NEW j \in 1..Len(L[k]) PROVE c.nums[at[k] + j - 1] = b.nums[at[k] + j - 1]
  <2>1. PICK i \in 0..Len(L[k]) : i = j - 1
    BY <1>2
  <2>2. at[k] + i \in Cells /\ at[k] + i < b.end
    BY CellsAre
  <2>3. at[k] + j - 1 = at[k] + i
    BY <1>2, <2>1
  <2> QED  BY <2>2, <2>3
<1> QED  BY <1>1, <1>3, <1>4 DEF Holds

\* The places when a number more is added.
LEMMA OffsetsOfMore ==
  ASSUME NEW L \in Seq(Numbers), NEW at, Offsets(L, at), NEW num \in Numbers, NEW bt,
         bt = [k \in 1..Len(L)+2 |-> IF k = Len(L) + 2 THEN at[Len(L) + 1] + Len(num) + 1 ELSE at[k]]
  PROVE  /\ Append(L, num) \in Seq(Numbers) /\ Offsets(Append(L, num), bt)
         /\ Len(Append(L, num)) = Len(L) + 1
         /\ bt[Len(L) + 2] = at[Len(L) + 1] + Len(num) + 1
         /\ \A k \in 1..Len(L)+1 : bt[k] = at[k]
<1>1. PICK n \in Nat : n = Len(L)
  OBVIOUS
<1> DEFINE M == Append(L, num)
<1>2. M \in Seq(Numbers) /\ Len(M) = n + 1 /\ M[n + 1] = num /\ \A k \in 1..n : M[k] = L[k]
  BY <1>1
<1> HIDE DEF M
<1>3. (\A k \in 1..n+1 : at[k] \in Nat) /\ at[1] = 0 /\ \A k \in 1..n : at[k + 1] = at[k] + Len(L[k]) + 1
  BY <1>1 DEF Offsets
<1>4. Len(num) \in Nat
  BY NumberIs
<1>5. /\ bt = [k \in 1..n+2 |-> IF k = n + 2 THEN at[n + 1] + Len(num) + 1 ELSE at[k]]
      /\ at[n + 1] + Len(num) + 1 \in Nat
  BY <1>1, <1>3, <1>4
<1>6. bt[n + 2] = at[n + 1] + Len(num) + 1 /\ \A k \in 1..n+1 : bt[k] = at[k]
  BY <1>1, <1>5
<1>7. bt \in [1..(n+1)+1 -> Nat]
  <2>1. \A k \in 1..n+2 : bt[k] \in Nat
    <3>1. \A k \in 1..n+2 : k = n + 2 \/ k \in 1..n+1
      OBVIOUS
    <3> QED  BY <1>3, <1>5, <1>6, <3>1
  <2>2. bt = [k \in 1..n+2 |-> bt[k]] /\ (n + 1) + 1 = n + 2
    BY <1>5
  <2> QED  BY <2>1, <2>2
<1>8. ASSUME NEW k \in 1..n+1 PROVE bt[k + 1] = bt[k] + Len(M[k]) + 1
  <2>1. CASE k = n + 1
    <3>1. k + 1 = n + 2 /\ n + 1 \in 1..n+1
      BY <2>1
    <3> QED  BY <1>2, <1>6, <2>1, <3>1
  <2>2. CASE k # n + 1
    <3>1. k \in 1..n /\ k \in 1..n+1 /\ k + 1 \in 1..n+1
      BY <2>2
    <3> QED  BY <1>2, <1>3, <1>6, <3>1
  <2> QED  BY <2>1, <2>2
<1>9. bt[1] = 0
  BY <1>3, <1>6
<1>10. Offsets(M, bt)
  BY <1>2, <1>7, <1>8, <1>9 DEF Offsets
<1> QED  BY <1>1, <1>2, <1>6, <1>10 DEF M

\* TfNumAdd keeps the types.
LEMMA AddClosed ==
  ASSUME NEW b \in Books, NEW num \in Numbers
  PROVE  TfNumAdd(b, num) \in Books
<1> DEFINE new == [i \in Cells |-> IF i - b.end \in 0..Len(num)-1
                                     THEN num[i - b.end + 1]
                                     ELSE IF i = b.end + Len(num) THEN 0 ELSE b.nums[i]]
           newEnd == (b.end + Len(num) + 1) % CursorSize
<1>1. TfNumAdd(b, num) = IF ~Fits(b, num) THEN b ELSE [b EXCEPT !.nums = new, !.end = newEnd]
  BY DEF TfNumAdd, Books
<1>2. new \in Chars
  <2> SUFFICES ASSUME NEW i \in Cells
               PROVE  (IF i - b.end \in 0..Len(num)-1 THEN num[i - b.end + 1]
                       ELSE IF i = b.end + Len(num) THEN 0 ELSE b.nums[i]) \in Nat
    BY DEF Chars
  <2>1. b.nums[i] \in Nat
    BY DEF Books, Chars
  <2>2. ASSUME i - b.end \in 0..Len(num)-1 PROVE num[i - b.end + 1] \in Nat
    <3>1. i - b.end + 1 \in 1..Len(num)
      <4>1. Len(num) \in Nat
        BY NumberIs
      <4> QED  BY <2>2, <4>1
    <3> QED  BY <3>1, NumberIs
  <2> QED  BY <2>1, <2>2
<1>3. newEnd \in Nat
  <2>1. b.end + Len(num) + 1 \in Nat /\ CursorSize \in Nat /\ CursorSize > 0
    BY NumberIs, BookAssumption DEF Books
  <2>2. \A x \in Nat : x % CursorSize \in Nat
    BY <2>1
  <2> QED  BY <2>1, <2>2
<1> HIDE DEF new, newEnd
<1> QED  BY <1>1, <1>2, <1>3 DEF Books

\* TfNumAdd puts a number that fits at the end, and leaves the book alone otherwise.
LEMMA AddAppends ==
  ASSUME NEW b \in Books, NEW L, NEW at, IsBook(b, L, at), NEW num \in Numbers,
         b.end + Len(num) + 1 < CursorSize
  PROVE  /\ TfNumAdd(b, num) \in Books /\ SameSettings(TfNumAdd(b, num), b)
         /\ TfNumAdd(b, num).pos = b.pos
         /\ ~Fits(b, num) => TfNumAdd(b, num) = b
         /\ Fits(b, num) => /\ TfNumAdd(b, num).end = b.end + Len(num) + 1
                            /\ \E bt : IsBook(TfNumAdd(b, num), Append(L, num), bt)
<1>1. CASE ~Fits(b, num)
  BY <1>1 DEF TfNumAdd, SameSettings
<1>2. CASE Fits(b, num)
  <2> DEFINE new == [i \in Cells |-> IF i - b.end \in 0..Len(num)-1
                                       THEN num[i - b.end + 1]
                                       ELSE IF i = b.end + Len(num) THEN 0 ELSE b.nums[i]]
             newEnd == (b.end + Len(num) + 1) % CursorSize
             bt == [k \in 1..Len(L)+2 |-> IF k = Len(L) + 2 THEN at[Len(L) + 1] + Len(num) + 1 ELSE at[k]]
  <2>1. TfNumAdd(b, num) = [b EXCEPT !.nums = new, !.end = newEnd]
    BY <1>2 DEF TfNumAdd, Books
  <2>2. PICK e \in Nat, l \in Nat : e = b.end /\ l = Len(num) /\ l > 0 /\ e + l + 1 < CursorSize
    BY NumberIs DEF Books
  <2>3. e + l + 1 <= TF_BUFLEN /\ TF_BUFLEN \in Nat
    BY <1>2, <2>2, BookAssumption DEF Fits
  <2>4. newEnd = e + l + 1
    BY <2>2, NoWrap
  <2>5. new \in Chars
    <3>1. TfNumAdd(b, num).nums = new
      <4> HIDE DEF new, newEnd
      <4> QED  BY <2>1 DEF Books
    <3> QED  BY <3>1, AddClosed DEF Books
  <2>6. /\ new[e + l] = 0
        /\ \A j \in 1..l : new[e + j - 1] = num[j]
        /\ \A i \in Cells : i < e => new[i] = b.nums[i]
    <3>1. new[e + l] = 0
      <4>1. e + l \in Cells /\ ~(e + l - b.end \in 0..Len(num)-1)
        BY <2>2, <2>3 DEF Cells
      <4> QED  BY <2>2, <4>1
    <3>2. ASSUME NEW j \in 1..l PROVE new[e + j - 1] = num[j]
      <4>1. PICK i \in Nat : i = e + j - 1
        BY <2>2
      <4>2. i \in Cells
        BY <2>2, <2>3, <4>1 DEF Cells
      <4>3. i - b.end = j - 1 /\ i - b.end + 1 = j
        BY <2>2, <4>1
      <4>4. j - 1 \in 0..Len(num)-1
        BY <2>2
      <4>5. new[i] = num[j]
        BY <4>2, <4>3, <4>4
      <4> QED  BY <4>1, <4>5
    <3>3. ASSUME NEW i \in Cells, i < e PROVE new[i] = b.nums[i]
      <4>1. i \in Nat
        BY <2>3 DEF Cells
      <4>2. ~(i - b.end \in 0..Len(num)-1) /\ i # b.end + Len(num)
        BY <2>2, <3>3, <4>1
      <4> QED  BY <4>2
    <3> QED  BY <3>1, <3>2, <3>3
  <2> HIDE DEF new, newEnd
  <2> DEFINE c == TfNumAdd(b, num)
  <2>7. c.nums = new /\ c.end = e + l + 1 /\ c.pos = b.pos /\ SameSettings(c, b)
    BY <2>1, <2>4 DEF Books, SameSettings
  <2>8. c \in Books
    BY AddClosed
  <2> HIDE DEF c
  <2>9. L \in Seq(Numbers) /\ Offsets(L, at) /\ e = at[Len(L) + 1] /\ Len(L) \in Nat
    BY <2>2 DEF IsBook
  <2>10. /\ Append(L, num) \in Seq(Numbers) /\ Offsets(Append(L, num), bt)
         /\ Len(Append(L, num)) = Len(L) + 1
         /\ bt[Len(L) + 2] = at[Len(L) + 1] + Len(num) + 1
         /\ \A k \in 1..Len(L)+1 : bt[k] = at[k]
    <3>1. bt = [k \in 1..Len(L)+2 |-> IF k = Len(L) + 2 THEN at[Len(L) + 1] + Len(num) + 1 ELSE at[k]]
      OBVIOUS
    <3> HIDE DEF bt
    <3> QED  BY <2>9, <3>1, OffsetsOfMore
  <2> HIDE DEF bt
  <2>11. \A k \in 1..Len(L) : Holds(c.nums, L[k], at[k])
    <3>1. c.nums \in Chars /\ \A i \in Cells : i < b.end => c.nums[i] = b.nums[i]
      BY <2>2, <2>5, <2>6, <2>7
    <3> QED  BY <3>1, SameCells
  <2>12. Holds(c.nums, num, e)
    BY <2>2, <2>6, <2>7 DEF Holds
  <2>13. \A k \in 1..Len(L)+1 : Holds(c.nums, Append(L, num)[k], bt[k])
    <3> SUFFICES ASSUME NEW k \in 1..Len(L)+1 PROVE Holds(c.nums, Append(L, num)[k], bt[k])
      OBVIOUS
    <3>1. CASE k = Len(L) + 1
      <4>1. Append(L, num)[k] = num /\ bt[k] = e
        BY <2>9, <2>10, <3>1
      <4> QED  BY <2>12, <4>1
    <3>2. CASE k # Len(L) + 1
      <4>1. k \in 1..Len(L) /\ Append(L, num)[k] = L[k] /\ bt[k] = at[k]
        BY <2>9, <2>10, <3>2
      <4> QED  BY <2>11, <4>1
    <3> QED  BY <3>1, <3>2
  <2>14. c.end = bt[Len(Append(L, num)) + 1] /\ Bounded(c.end)
    <3>1. Len(Append(L, num)) + 1 = Len(L) + 2
      BY <2>9, <2>10
    <3>2. bt[Len(L) + 2] = e + l + 1
      BY <2>2, <2>9, <2>10
    <3> QED  BY <2>2, <2>3, <2>7, <3>1, <3>2 DEF Bounded
  <2>15. IsBook(c, Append(L, num), bt)
    BY <2>5, <2>7, <2>10, <2>13, <2>14 DEF IsBook
  <2> QED  BY <1>2, <2>2, <2>7, <2>8, <2>15 DEF c
<1> QED  BY <1>1, <1>2

\* A number taken out of a list.
LEMMA RemovedIs ==
  ASSUME NEW L \in Seq(Numbers), NEW k \in 1..Len(L)
  PROVE  /\ RemoveAt(L, k) \in Seq(Numbers) /\ Len(RemoveAt(L, k)) = Len(L) - 1
         /\ \A j \in 1..Len(L)-1 : RemoveAt(L, k)[j] = IF j < k THEN L[j] ELSE L[j + 1]
<1>1. PICK n \in Nat : n = Len(L)
  OBVIOUS
<1> DEFINE x == SubSeq(L, 1, k - 1)
           y == SubSeq(L, k + 1, n)
<1>2. x \in Seq(Numbers) /\ Len(x) = k - 1 /\ \A j \in 1..k-1 : x[j] = L[j]
  BY <1>1
<1>3. y \in Seq(Numbers) /\ Len(y) = n - k /\ \A j \in 1..n-k : y[j] = L[k + j]
  <2>1. Len(y) = n - k
    BY <1>1
  <2>2. \A j \in 1..n-k : y[j] = L[k + 1 + j - 1] /\ k + 1 + j - 1 = k + j
    BY <1>1
  <2>3. y \in Seq(Numbers)
    BY <1>1
  <2> QED  BY <2>1, <2>2, <2>3
<1>4. RemoveAt(L, k) = x \o y
  BY <1>1 DEF RemoveAt
<1> HIDE DEF x, y
<1>5. x \o y \in Seq(Numbers) /\ Len(x \o y) = n - 1
  BY <1>1, <1>2, <1>3
<1>6. ASSUME NEW j \in 1..n-1 PROVE (x \o y)[j] = IF j < k THEN L[j] ELSE L[j + 1]
  <2>1. CASE j < k
    <3>1. j \in 1..k-1 /\ j \in 1..Len(x)
      BY <1>2, <2>1
    <3> QED  BY <1>2, <1>3, <2>1, <3>1
  <2>2. CASE ~(j < k)
    <3>1. PICK i \in 1..n-k : j = k - 1 + i
      <4>1. j - k + 1 \in 1..n-k /\ j = k - 1 + (j - k + 1)
        BY <1>1, <2>2
      <4> QED  BY <4>1
    <3>2. (x \o y)[j] = y[i]
      BY <1>1, <1>2, <1>3, <3>1
    <3>3. k + i = j + 1
      BY <3>1
    <3> QED  BY <1>3, <2>2, <3>1, <3>2, <3>3
  <2> QED  BY <2>1, <2>2
<1> QED  BY <1>1, <1>4, <1>5, <1>6

\* TfNumDelete takes the number at pos out, if readPos is behind it.
LEMMA DeleteRemoves ==
  ASSUME NEW b \in Books, NEW L, NEW at, IsBook(b, L, at), NEW k \in 1..Len(L),
         b.pos = at[k], b.readPos = at[k + 1]
  PROVE  /\ TfNumDelete(b) \in Books /\ SameSettings(TfNumDelete(b), b)
         /\ TfNumDelete(b).pos = b.pos
         /\ \E bt : IsBook(TfNumDelete(b), RemoveAt(L, k), bt)
<1>1. /\ L \in Seq(Numbers) /\ Offsets(L, at) /\ at[1] = 0 /\ b.end = at[Len(L) + 1]
      /\ b.end <= TF_BUFLEN /\ b.end < CursorSize /\ b.nums \in Chars
  BY DEF IsBook, Offsets, Bounded
<1>2. PICK m \in Nat : m = Len(L)
  BY <1>1
<1>3. /\ \A j \in 1..m+1 : at[j] \in Nat
      /\ \A j \in 1..m : at[j + 1] = at[j] + Len(L[j]) + 1 /\ Len(L[j]) \in Nat /\ Len(L[j]) > 0
      /\ \A i, j \in 1..m+1 : i < j => at[i] + Len(L[i]) + 1 <= at[j]
  BY <1>1, <1>2, OffsetsGrow
<1>4. TF_BUFLEN \in Nat /\ CursorSize \in Nat
  BY BookAssumption
<1>5. PICK p \in Nat, r \in Nat, e \in Nat, d \in Nat :
        /\ p = b.pos /\ p = at[k] /\ r = b.readPos /\ r = at[k + 1] /\ e = b.end
        /\ d = Len(L[k]) + 1 /\ r = p + d /\ r <= e
  <2>1. at[k] \in Nat /\ at[k + 1] \in Nat /\ at[k + 1] = at[k] + (Len(L[k]) + 1) /\ at[k + 1] <= b.end
    <3>1. at[k] \in Nat /\ at[k + 1] \in Nat /\ at[k + 1] <= b.end
      BY NumberAt
    <3>2. at[k + 1] = at[k] + Len(L[k]) + 1 /\ Len(L[k]) \in Nat
      BY <1>2, <1>3
    <3>3. \A a, l \in Nat : a + l + 1 = a + (l + 1)
      OBVIOUS
    <3> QED  BY <3>1, <3>2, <3>3
  <2>2. Len(L[k]) + 1 \in Nat /\ b.end \in Nat
    BY <1>2, <1>3 DEF Books
  <2> QED  BY <2>1, <2>2
<1>6. r = p + d /\ r <= e /\ e <= TF_BUFLEN /\ e < CursorSize
  BY <1>1, <1>5
<1> DEFINE n == IF b.readPos < b.end THEN b.end - b.readPos ELSE 0
           new == [i \in Cells |-> IF i - b.pos \in 0..n-1 THEN b.nums[b.readPos + i - b.pos]
                                   ELSE b.nums[i]]
           newEnd == (b.pos + n) % CursorSize
           newRead == (b.readPos + n) % CursorSize
           c == TfNumDelete(b)
<1>7. c = [b EXCEPT !.nums = new, !.readPos = newRead, !.end = newEnd]
  BY DEF TfNumDelete, Books
<1>8. PICK z \in Nat : z = n /\ z = e - r
  <2>1. IF r < e THEN e - r \in Nat ELSE 0 = e - r
    BY <1>6
  <2> QED  BY <1>5, <2>1
<1>9. /\ \A i \in Cells : new[i] = IF i - p \in 0..z-1 THEN b.nums[r + i - p] ELSE b.nums[i]
      /\ newEnd = (p + z) % CursorSize /\ newRead = (r + z) % CursorSize
  <2>1. \A i \in Cells : new[i] = IF i - b.pos \in 0..n-1 THEN b.nums[b.readPos + i - b.pos]
                                  ELSE b.nums[i]
    OBVIOUS
  <2> HIDE DEF new, n
  <2> QED  BY <1>5, <1>8, <2>1
<1>10. new = [i \in Cells |-> new[i]]
  OBVIOUS
<1> HIDE DEF new, n, newEnd, newRead
<1>11. newEnd = e - d /\ e - d \in Nat /\ e - d <= TF_BUFLEN /\ e - d < CursorSize /\ newRead = e
  <2>1. p + z = e - d /\ e - d \in Nat /\ e - d <= TF_BUFLEN /\ e - d < CursorSize
    BY <1>4, <1>6, <1>8
  <2>2. r + z = e
    BY <1>6, <1>8
  <2> QED  BY <1>6, <1>9, <2>1, <2>2, NoWrap
<1>12. ASSUME NEW i \in Cells
      PROVE  /\ i \in Nat
             /\ i < p => new[i] = b.nums[i]
             /\ p <= i /\ i < e - d => i + d \in Cells /\ new[i] = b.nums[i + d]
             /\ new[i] \in Nat
  <2>1. i \in Nat /\ i < TF_BUFLEN
    BY <1>4 DEF Cells
  <2>2. CASE i - p \in 0..z-1
    <3>1. r + i - p = i + d /\ i + d \in Nat /\ i + d < e /\ ~(i < p)
      BY <1>6, <1>8, <2>1, <2>2
    <3>2. i + d \in Cells
      BY <1>4, <1>6, <3>1 DEF Cells
    <3>3. new[i] = b.nums[i + d]
      <4>1. new[i] = b.nums[r + i - p]
        BY <1>9, <2>2
      <4> QED  BY <3>1, <4>1
    <3>4. b.nums[i + d] \in Nat
      BY <1>1, <3>2 DEF Chars
    <3> QED  BY <2>1, <3>1, <3>2, <3>3, <3>4
  <2>3. CASE ~(i - p \in 0..z-1)
    <3>1. ~(p <= i /\ i < e - d)
      BY <1>6, <1>8, <2>1, <2>3
    <3>2. new[i] = b.nums[i]
      BY <1>9, <2>3
    <3>3. b.nums[i] \in Nat
      BY <1>1 DEF Chars
    <3> QED  BY <2>1, <3>1, <3>2, <3>3
  <2> QED  BY <2>2, <2>3
<1>13. new \in Chars
  BY <1>10, <1>12 DEF Chars
<1>14. c \in Books /\ c.nums = new /\ c.end = e - d /\ c.pos = b.pos /\ SameSettings(c, b)
  BY <1>7, <1>11, <1>13 DEF Books, SameSettings
<1> HIDE DEF c
<1> DEFINE M == RemoveAt(L, k)
           bt == [j \in 1..m |-> IF j <= k THEN at[j] ELSE at[j + 1] - d]
<1>15. /\ M \in Seq(Numbers) /\ Len(M) = m - 1
       /\ \A j \in 1..m-1 : M[j] = IF j < k THEN L[j] ELSE L[j + 1]
  BY <1>1, <1>2, RemovedIs
<1> HIDE DEF M
<1>16. /\ k \in 1..m
       /\ \A j \in k..m : j + 1 \in 1..m+1 /\ at[j + 1] \in Nat /\ r <= at[j + 1] /\ at[j + 1] - d \in Nat
  <2> SUFFICES ASSUME NEW j \in k..m
               PROVE  j + 1 \in 1..m+1 /\ at[j + 1] \in Nat /\ r <= at[j + 1] /\ at[j + 1] - d \in Nat
    BY <1>2
  <2>1. j + 1 \in 1..m+1 /\ k + 1 \in 1..m+1 /\ (k = j \/ (k + 1 \in 1..m /\ k + 1 < j + 1))
    BY <1>2
  <2>2. PICK x \in Nat : x = at[j + 1]
    BY <1>3, <2>1
  <2>3. r <= x
    <3>1. CASE k = j
      <4>1. x = r
        BY <1>5, <2>2, <3>1
      <4> QED  BY <4>1
    <3>2. CASE k + 1 \in 1..m /\ k + 1 < j + 1
      <4>1. at[k + 1] + Len(L[k + 1]) + 1 <= at[j + 1] /\ Len(L[k + 1]) \in Nat
        BY <1>3, <2>1, <3>2
      <4>2. \A l \in Nat : r + l + 1 <= x => r <= x
        OBVIOUS
      <4> QED  BY <1>5, <2>2, <4>1, <4>2
    <3> QED  BY <2>1, <3>1, <3>2
  <2>4. x - d \in Nat
    BY <1>6, <2>3
  <2> QED  BY <2>1, <2>2, <2>3, <2>4
<1>17. /\ \A j \in 1..m : bt[j] \in Nat
       /\ \A j \in 1..k : bt[j] = at[j]
       /\ \A j \in k..m : bt[j] = at[j + 1] - d
  <2>1. at[k] = at[k + 1] - d
    <3>1. p = r - d
      BY <1>6
    <3> QED  BY <1>5, <3>1
  <2>2. \A j \in 1..m : bt[j] = IF j <= k THEN at[j] ELSE at[j + 1] - d
    OBVIOUS
  <2> HIDE DEF bt
  <2>3. \A j \in 1..k : bt[j] = at[j]
    BY <1>16, <2>2
  <2>4. ASSUME NEW j \in k..m PROVE bt[j] = at[j + 1] - d
    <3>1. CASE j = k
      BY <1>16, <2>1, <2>3, <3>1
    <3>2. CASE j # k
      <4>1. j \in 1..m /\ ~(j <= k)
        BY <1>16, <3>2
      <4> QED  BY <2>2, <4>1
    <3> QED  BY <3>1, <3>2
  <2>5. ASSUME NEW j \in 1..m PROVE bt[j] \in Nat
    <3>1. j \in 1..m+1 /\ (~(j <= k) => j \in k..m)
      BY <1>16
    <3> QED  BY <1>3, <1>16, <2>2, <3>1
  <2> QED  BY <2>3, <2>4, <2>5
<1>18. bt = [j \in 1..m |-> bt[j]]
  OBVIOUS
<1> HIDE DEF bt
<1>19. Offsets(M, bt)
  <2>1. bt \in [1..Len(M)+1 -> Nat]
    <3>1. (m - 1) + 1 = m
      OBVIOUS
    <3> QED  BY <1>15, <1>17, <1>18, <3>1
  <2>2. bt[1] = 0
    BY <1>1, <1>16, <1>17
  <2>3. ASSUME NEW j \in 1..m-1 PROVE bt[j + 1] = bt[j] + Len(M[j]) + 1
    <3>1. CASE j < k
      <4>1. j \in 1..k /\ j + 1 \in 1..k /\ j \in 1..m
        BY <1>16, <3>1
      <4>2. bt[j] = at[j] /\ bt[j + 1] = at[j + 1]
        BY <1>17, <4>1
      <4>3. M[j] = L[j]
        BY <1>15, <3>1
      <4>4. at[j + 1] = at[j] + Len(L[j]) + 1
        BY <1>3, <4>1
      <4> QED  BY <4>2, <4>3, <4>4
    <3>2. CASE ~(j < k)
      <4>1. j \in k..m /\ j + 1 \in k..m /\ j + 1 \in 1..m
        BY <1>16, <3>2
      <4>2. bt[j] = at[j + 1] - d /\ bt[j + 1] = at[j + 1 + 1] - d /\ M[j] = L[j + 1]
        BY <1>15, <1>17, <3>2, <4>1
      <4>3. at[j + 1 + 1] = at[j + 1] + Len(L[j + 1]) + 1 /\ at[j + 1] \in Nat /\ Len(L[j + 1]) \in Nat
        BY <1>3, <1>16, <4>1
      <4>4. PICK x \in Nat, l \in Nat : x = at[j + 1] /\ l = Len(L[j + 1])
        BY <4>3
      <4>5. (x + l + 1) - d = (x - d) + l + 1
        OBVIOUS
      <4>6. bt[j] = x - d /\ bt[j + 1] = (x + l + 1) - d /\ Len(M[j]) = l
        BY <4>2, <4>3, <4>4
      <4> QED  BY <4>5, <4>6
    <3> QED  BY <3>1, <3>2
  <2> QED  BY <1>15, <2>1, <2>2, <2>3 DEF Offsets
<1>20. c.end = bt[Len(M) + 1] /\ Bounded(c.end)
  <2>1. Len(M) + 1 = m /\ m \in k..m
    BY <1>15, <1>16
  <2>2. bt[m] = at[m + 1] - d
    BY <1>17, <2>1
  <2> QED  BY <1>1, <1>2, <1>5, <1>11, <1>14, <2>1, <2>2 DEF Bounded
<1>21. ASSUME NEW j \in 1..m-1 PROVE Holds(c.nums, M[j], bt[j])
  <2>1. CASE j < k
    <3>1. j \in 1..k /\ j \in 1..m /\ j \in 1..m+1 /\ k \in 1..m+1 /\ j < k
      BY <1>16, <2>1
    <3>2. M[j] = L[j] /\ bt[j] = at[j] /\ at[j] + Len(L[j]) + 1 <= p /\ Len(L[j]) \in Nat /\ at[j] \in Nat
      BY <1>3, <1>5, <1>15, <1>17, <3>1
    <3>3. Holds(b.nums, L[j], at[j])
      BY <1>2, <3>1 DEF IsBook
    <3>4. ASSUME NEW x \in 0..Len(L[j]) PROVE new[at[j] + x] = b.nums[at[j] + x]
      <4>1. at[j] + x \in Cells
        BY <1>2, <3>1, CellsAre
      <4>2. at[j] + x < p
        <5>1. \A u, l, y \in Nat : y <= l /\ u + l + 1 <= p => u + y < p
          OBVIOUS
        <5>2. x \in Nat /\ x <= Len(L[j])
          BY <3>2
        <5> QED  BY <3>2, <5>1, <5>2
      <4> QED  BY <1>12, <4>1, <4>2
    <3>5. new[at[j] + Len(L[j])] = 0
      <4>1. Len(L[j]) \in 0..Len(L[j])
        BY <3>2
      <4> QED  BY <3>3, <3>4, <4>1 DEF Holds
    <3>6. ASSUME NEW x \in 1..Len(L[j]) PROVE new[at[j] + x - 1] = L[j][x]
      <4>1. PICK y \in 0..Len(L[j]) : y = x - 1
        BY <3>2
      <4>2. at[j] + x - 1 = at[j] + y
        BY <3>2, <4>1
      <4>3. new[at[j] + y] = b.nums[at[j] + y]
        BY <3>4
      <4>4. b.nums[at[j] + x - 1] = L[j][x]
        BY <3>3 DEF Holds
      <4> QED  BY <4>2, <4>3, <4>4
    <3> QED  BY <1>14, <3>2, <3>5, <3>6 DEF Holds
  <2>2. CASE ~(j < k)
    <3>1. PICK i \in 1..m : i = j + 1
      OBVIOUS
    <3>2. j \in k..m /\ k + 1 \in 1..m+1 /\ i \in 1..m+1 /\ (k + 1 = i \/ k + 1 < i) /\ k + 1 \in 1..m
      BY <1>16, <2>2, <3>1
    <3>3. M[j] = L[i] /\ bt[j] = at[i] - d
      BY <1>15, <1>17, <2>2, <3>1, <3>2
    <3>4. at[i] \in Nat /\ Len(L[i]) \in Nat /\ r <= at[i]
      <4>1. at[i] \in Nat /\ r <= at[i]
        BY <1>16, <3>1, <3>2
      <4> QED  BY <1>3, <4>1
    <3>5. Holds(b.nums, L[i], at[i])
      BY <1>2 DEF IsBook
    <3>6. ASSUME NEW x \in 0..Len(L[i]) PROVE new[at[i] - d + x] = b.nums[at[i] + x]
      <4>1. at[i] + x \in Nat /\ at[i] + x < e /\ at[i] + x \in Cells
        BY <1>2, <1>5, CellsAre
      <4>2. PICK q \in Nat : q = at[i] - d + x /\ q + d = at[i] + x /\ p <= q /\ q < e - d
        <5>1. PICK y \in Nat : y = at[i] /\ r <= y /\ y + x < e
          BY <3>4, <4>1
        <5>2. x \in Nat
          BY <3>4
        <5>3. /\ y - d + x \in Nat /\ y - d + x + d = y + x
              /\ p <= y - d + x /\ y - d + x < e - d
          <6>1. p + d <= y /\ y + x < e
            BY <1>6, <5>1
          <6>2. PICK v \in Nat : y = p + d + v
            <7>1. y - (p + d) \in Nat /\ y = p + d + (y - (p + d))
              BY <6>1
            <7> QED  BY <7>1
          <6>3. y - d + x = p + v + x
            BY <5>2, <6>2
          <6>4. p + v + x \in Nat /\ p + v + x + d = y + x /\ p <= p + v + x /\ p + v + x < e - d
            BY <5>2, <6>1, <6>2
          <6> QED  BY <6>3, <6>4
        <5> QED  BY <5>1, <5>3
      <4>3. q \in Cells
        <5>1. q < TF_BUFLEN
          BY <1>4, <1>6, <4>2
        <5> QED  BY <1>4, <5>1 DEF Cells
      <4> QED  BY <1>12, <4>2, <4>3
    <3>7. new[at[i] - d + Len(L[i])] = 0
      <4>1. Len(L[i]) \in 0..Len(L[i])
        BY <3>4
      <4> QED  BY <3>5, <3>6, <4>1 DEF Holds
    <3>8. ASSUME NEW x \in 1..Len(L[i]) PROVE new[at[i] - d + x - 1] = L[i][x]
      <4>1. PICK y \in 0..Len(L[i]) : y = x - 1
        BY <3>4
      <4>2. at[i] - d + x - 1 = at[i] - d + y /\ at[i] + x - 1 = at[i] + y
        BY <1>5, <3>4, <4>1
      <4>3. new[at[i] - d + y] = b.nums[at[i] + y]
        BY <3>6
      <4>4. b.nums[at[i] + x - 1] = L[i][x]
        BY <3>5 DEF Holds
      <4> QED  BY <4>2, <4>3, <4>4
    <3> QED  BY <1>14, <3>3, <3>7, <3>8 DEF Holds
  <2> QED  BY <2>1, <2>2
<1>22. IsBook(c, M, bt)
  BY <1>13, <1>14, <1>15, <1>19, <1>20, <1>21 DEF IsBook
<1> QED  BY <1>14, <1>22 DEF c, M

\* Nothing is taken out of an empty book.
LEMMA DeleteNothing ==
  ASSUME NEW b \in Books, NEW at, IsBook(b, <<>>, at), b.pos = 0
  PROVE  /\ TfNumDelete(b) \in Books /\ SameSettings(TfNumDelete(b), b)
         /\ TfNumDelete(b).pos = 0 /\ IsBook(TfNumDelete(b), <<>>, at)
<1>1. b.end = 0 /\ b.nums \in Chars /\ b.readPos \in Nat /\ CursorSize \in Nat /\ CursorSize > 0
      /\ TF_BUFLEN \in Nat
  BY BookAssumption DEF IsBook, Offsets, Books
<1> DEFINE new == [i \in Cells |-> IF i - b.pos \in 0..0-1 THEN b.nums[b.readPos + i - b.pos]
                                   ELSE b.nums[i]]
<1>2. new = b.nums
  <2>1. \A i \in Cells : i \in Nat
    BY <1>1 DEF Cells
  <2>2. \A i \in Cells : new[i] = b.nums[i]
    BY <2>1
  <2>3. new = [i \in Cells |-> new[i]] /\ b.nums = [i \in Cells |-> b.nums[i]]
    BY <1>1 DEF Chars
  <2> HIDE DEF new
  <2> QED  BY <2>2, <2>3
<1>3. TfNumDelete(b) = [b EXCEPT !.nums = new, !.readPos = (b.readPos + 0) % CursorSize,
                                 !.end = (0 + 0) % CursorSize]
  <2>1. (IF b.readPos < b.end THEN b.end - b.readPos ELSE 0) = 0
    BY <1>1
  <2> QED  BY <1>1, <2>1 DEF TfNumDelete, Books
<1>4. (b.readPos + 0) % CursorSize \in Nat /\ (0 + 0) % CursorSize = 0
  <2>1. \A x \in Nat : x % CursorSize \in Nat /\ x + 0 = x
    BY <1>1
  <2>2. 0 + 0 < CursorSize /\ 0 + 0 = 0
    BY <1>1
  <2> QED  BY <1>1, <2>1, <2>2, NoWrap
<1> HIDE DEF new
<1>5. TfNumDelete(b) \in Books /\ TfNumDelete(b).nums = b.nums /\ TfNumDelete(b).end = b.end
      /\ TfNumDelete(b).pos = 0 /\ SameSettings(TfNumDelete(b), b)
  BY <1>1, <1>2, <1>3, <1>4 DEF Books, SameSettings
<1> QED  BY <1>5 DEF IsBook

--------------------------------------------------------------------------------
(* Browsing.                                                               *)

\* Number k is the current one.
OnNumber(b, L, at, k) ==
  IsBook(b, L, at) /\ k \in 1..Len(L) /\ b.pos = at[k] /\ b.readPos = at[k + 1]

\* The cursors may move, and nothing else.
MovesCursors(c, b) ==
  /\ c \in Books /\ SameSettings(c, b) /\ c.nums = b.nums /\ c.end = b.end

\* That leaves the phone book alone.
LEMMA SameBook ==
  ASSUME NEW b, NEW L, NEW at, IsBook(b, L, at), NEW c, MovesCursors(c, b)
  PROVE  IsBook(c, L, at)
  BY DEF IsBook, MovesCursors

\* The place of the cursor in the list.
LEMMA CursorIs ==
  ASSUME NEW b, NEW L, NEW at, NEW k, OnNumber(b, L, at, k)
  PROVE  CursorIndex(b) = k
<1>1. L \in Seq(Numbers) /\ Offsets(L, at) /\ IsBook(b, L, at) /\ k \in 1..Len(L) /\ b.pos = at[k]
  BY DEF OnNumber, IsBook
<1>2. PICK n \in Nat : n = Len(L)
  BY <1>1
<1>3. Starts(b) = [j \in 1..n |-> at[j]]
  BY <1>1, <1>2, StartsAre
<1>4. ASSUME NEW i \in 1..n, NEW j \in 1..n, i < j PROVE at[i] # at[j]
  <2>1. at[i] + Len(L[i]) + 1 <= at[j] /\ Len(L[i]) \in Nat /\ at[i] \in Nat
    BY <1>1, <1>2, <1>4, OffsetsGrow
  <2> QED  BY <2>1
<1>5. ASSUME NEW i \in 1..n, at[i] = at[k] PROVE i = k
  <2>1. i < k \/ k < i \/ i = k
    BY <1>1, <1>2
  <2> QED  BY <1>1, <1>2, <1>4, <1>5, <2>1
<1> DEFINE s == Starts(b)
<1>6. DOMAIN s = 1..n /\ \A j \in 1..n : s[j] = at[j]
  BY <1>3
<1>7. CursorIndex(b) = CHOOSE j \in DOMAIN s : s[j] = b.pos
  BY DEF CursorIndex
<1> HIDE DEF s
<1> QED  BY <1>1, <1>2, <1>5, <1>6, <1>7

\* TfNumGetNext where readPos is the place of a number.
LEMMA NextIs ==
  ASSUME NEW b \in Books, NEW L, NEW at, IsBook(b, L, at), NEW k \in 1..Len(L), b.readPos = at[k]
  PROVE  /\ MovesCursors(TfNumGetNext(b), b) /\ OnNumber(TfNumGetNext(b), L, at, k)
         /\ NextNum(b) = L[k] /\ L[k] # NULL
<1>1. /\ at[k] \in Nat /\ at[k] < b.end /\ b.end \in Nat /\ L[k] \in Numbers
      /\ String(b.nums, at[k]) = L[k] /\ at[k + 1] \in Nat
      /\ (at[k] + strlen(b.nums, at[k]) + 1) % CursorSize = at[k + 1]
  BY NumberAt
<1>2. ~(b.readPos >= b.end)
  BY <1>1
<1>3. TfNumGetNext(b) = [b EXCEPT !.pos = at[k], !.readPos = at[k + 1]]
  BY <1>1, <1>2 DEF TfNumGetNext, Next1, Books
<1>4. NextNum(b) = L[k]
  BY <1>1, <1>2 DEF NextNum
<1>5. L[k] # NULL
  BY <1>1, NumberIs DEF NULL
<1>6. MovesCursors(TfNumGetNext(b), b) /\ TfNumGetNext(b).pos = at[k]
      /\ TfNumGetNext(b).readPos = at[k + 1]
  BY <1>1, <1>3 DEF MovesCursors, Books, SameSettings
<1> QED  BY <1>4, <1>5, <1>6, SameBook DEF OnNumber

\* TfNumGetNext at the end.
LEMMA NextIsNone ==
  ASSUME NEW b \in Books, b.readPos >= b.end
  PROVE  TfNumGetNext(b) = b /\ NextNum(b) = NULL
  BY DEF TfNumGetNext, NextNum

\* TfNumGetFirst.
LEMMA FirstIs ==
  ASSUME NEW b \in Books, NEW L, NEW at, IsBook(b, L, at)
  PROVE  /\ MovesCursors(TfNumGetFirst(b), b)
         /\ L # <<>> => /\ OnNumber(TfNumGetFirst(b), L, at, 1)
                        /\ FirstNum(b) = L[1] /\ L[1] # NULL
         /\ L = <<>> => FirstNum(b) = NULL /\ TfNumGetFirst(b).pos = b.pos
<1> DEFINE c == [b EXCEPT !.readPos = 0]
<1>1. MovesCursors(c, b) /\ c.readPos = 0 /\ c.pos = b.pos /\ c.end = b.end /\ c \in Books
  BY DEF MovesCursors, Books, SameSettings
<1>2. TfNumGetFirst(b) = TfNumGetNext(c) /\ FirstNum(b) = NextNum(c)
  BY DEF TfNumGetFirst, FirstNum
<1> HIDE DEF c
<1>3. IsBook(c, L, at)
  BY <1>1, SameBook
<1>4. L \in Seq(Numbers) /\ at[1] = 0 /\ c.end = at[Len(L) + 1]
  BY <1>3 DEF IsBook, Offsets
<1>5. CASE L = <<>>
  <2>1. c.readPos >= c.end
    BY <1>1, <1>4, <1>5
  <2> QED  BY <1>1, <1>2, <1>5, <2>1, NextIsNone
<1>6. CASE L # <<>>
  <2>1. 1 \in 1..Len(L) /\ c.readPos = at[1]
    BY <1>1, <1>4, <1>6, EmptySeq
  <2>2. MovesCursors(TfNumGetNext(c), c) /\ OnNumber(TfNumGetNext(c), L, at, 1)
        /\ NextNum(c) = L[1] /\ L[1] # NULL
    BY <1>1, <1>3, <2>1, NextIs
  <2>3. MovesCursors(TfNumGetNext(c), b)
    BY <1>1, <2>2 DEF MovesCursors, SameSettings
  <2> QED  BY <1>2, <1>6, <2>2, <2>3
<1> QED  BY <1>5, <1>6

\* TfNumGetPrev.
LEMMA PrevIs ==
  ASSUME NEW b \in Books, NEW L, NEW at, NEW k, OnNumber(b, L, at, k)
  PROVE  \/ TfNumGetPrev(b) = b /\ PrevNum(b) = NULL
         \/ /\ k - 1 \in 1..Len(L)
            /\ MovesCursors(TfNumGetPrev(b), b) /\ OnNumber(TfNumGetPrev(b), L, at, k - 1)
            /\ PrevNum(b) = L[k - 1] /\ L[k - 1] # NULL
<1>1. /\ IsBook(b, L, at) /\ k \in 1..Len(L) /\ b.pos = at[k] /\ L \in Seq(Numbers)
      /\ at[1] = 0 /\ Len(L) \in Nat
  BY DEF OnNumber, IsBook, Offsets
<1>2. CASE k = 1
  BY <1>1, <1>2 DEF TfNumGetPrev, PrevNum
<1>3. CASE k # 1
  <2>1. PICK j \in 1..Len(L)-1 : j = k - 1 /\ j + 1 = k /\ j \in 1..Len(L)
    <3>1. k - 1 \in 1..Len(L)-1 /\ k - 1 + 1 = k /\ k - 1 \in 1..Len(L)
      BY <1>1, <1>3
    <3> QED  BY <3>1
  <2>2. b.pos # 0 /\ PrevPos(b) = at[j]
    BY <1>1, <2>1, PrevPosIs
  <2>3. at[j] \in Nat /\ at[k] \in Nat /\ L[j] \in Numbers /\ String(b.nums, at[j]) = L[j]
    BY <1>1, <2>1, NumberAt
  <2>4. TfNumGetPrev(b) = [b EXCEPT !.readPos = at[k], !.pos = at[j]] /\ PrevNum(b) = L[j]
    BY <1>1, <2>2, <2>3 DEF TfNumGetPrev, PrevNum
  <2>5. MovesCursors(TfNumGetPrev(b), b) /\ TfNumGetPrev(b).pos = at[j]
        /\ TfNumGetPrev(b).readPos = at[j + 1]
    BY <2>1, <2>3, <2>4 DEF MovesCursors, Books, SameSettings
  <2>6. L[j] # NULL
    BY <2>3, NumberIs DEF NULL
  <2>7. OnNumber(TfNumGetPrev(b), L, at, j)
    BY <1>1, <2>1, <2>5, SameBook DEF OnNumber
  <2> QED  BY <2>1, <2>4, <2>5, <2>6, <2>7
<1> QED  BY <1>2, <1>3

\* The cursors that a save leaves.
LEMMA WalkedIs ==
  ASSUME NEW b \in Books, NEW L, NEW at, IsBook(b, L, at), NEW k \in 0..Len(L)
  PROVE  MovesCursors(Walked(b, k), b) /\ (L = <<>> => Walked(b, k).pos = b.pos)
<1>1. L \in Seq(Numbers) /\ Len(L) \in Nat
  BY DEF IsBook
<1>2. CASE k = 0
  BY <1>2 DEF Walked, MovesCursors, SameSettings, Books
<1>3. CASE k # 0
  <2>1. k \in 1..Len(L) /\ L # <<>>
    BY <1>1, <1>3
  <2>2. Starts(b)[k] = at[k]
    BY <2>1, StartsAre
  <2> DEFINE c == [b EXCEPT !.readPos = Starts(b)[k]]
  <2>3. at[k] \in Nat
    BY <2>1, NumberAt
  <2>4. MovesCursors(c, b) /\ c \in Books /\ c.readPos = at[k]
    BY <2>2, <2>3 DEF MovesCursors, SameSettings, Books
  <2>5. Walked(b, k) = TfNumGetNext(c)
    BY <1>3 DEF Walked
  <2> HIDE DEF c
  <2>6. IsBook(c, L, at)
    BY <2>4, SameBook
  <2>7. MovesCursors(TfNumGetNext(c), c)
    BY <2>1, <2>4, <2>6, NextIs
  <2> QED  BY <2>1, <2>4, <2>5, <2>7 DEF MovesCursors, SameSettings
<1> QED  BY <1>2, <1>3

--------------------------------------------------------------------------------
(* The file.                                                               *)

\* The numbers of L fit in the array, and the cursors do not wrap.
Fitting(L) == L \in Seq(Numbers) /\ \E at : Offsets(L, at) /\ Bounded(at[Len(L) + 1])

\* So do the first ones.
LEMMA FewerFit ==
  ASSUME NEW L, Fitting(L), NEW n \in Nat, n <= Len(L)
  PROVE  Fitting(SubSeq(L, 1, n))
<1>1. L \in Seq(Numbers)
  BY DEF Fitting
<1>2. PICK at : Offsets(L, at) /\ Bounded(at[Len(L) + 1])
  BY DEF Fitting
<1>3. PICK m \in Nat : m = Len(L)
  BY <1>1
<1> DEFINE M == SubSeq(L, 1, n)
           bt == [k \in 1..n+1 |-> at[k]]
<1>4. M \in Seq(Numbers) /\ Len(M) = n /\ \A k \in 1..n : M[k] = L[k]
  BY <1>1
<1> HIDE DEF M
<1>5. /\ \A k \in 1..m+1 : at[k] \in Nat
      /\ \A k \in 1..m : at[k + 1] = at[k] + Len(L[k]) + 1
      /\ \A i, j \in 1..m+1 : i < j => at[i] + Len(L[i]) + 1 <= at[j]
      /\ at[1] = 0
  BY <1>1, <1>2, <1>3, OffsetsGrow DEF Offsets
<1>6. n <= m /\ \A k \in 1..n+1 : k \in 1..m+1 /\ bt[k] = at[k]
  BY <1>3
<1>7. bt \in [1..Len(M)+1 -> Nat]
  BY <1>4, <1>5, <1>6
<1> HIDE DEF bt
<1>8. Offsets(M, bt)
  <2>1. ASSUME NEW k \in 1..n PROVE bt[k + 1] = bt[k] + Len(M[k]) + 1
    <3>1. k \in 1..n+1 /\ k + 1 \in 1..n+1 /\ k \in 1..m
      BY <1>6
    <3> QED  BY <1>4, <1>5, <1>6, <3>1
  <2>2. bt[1] = 0
    BY <1>5, <1>6
  <2> QED  BY <1>4, <1>7, <2>1, <2>2 DEF Offsets
<1>9. Bounded(bt[n + 1])
  <2>1. n + 1 \in 1..n+1 /\ n + 1 \in 1..m+1 /\ m + 1 \in 1..m+1
    BY <1>6
  <2>2. bt[n + 1] = at[n + 1] /\ at[n + 1] \in Nat /\ at[m + 1] \in Nat
    BY <1>5, <1>6, <2>1
  <2>3. at[n + 1] <= at[m + 1]
    <3>1. CASE n = m
      BY <2>2, <3>1
    <3>2. CASE n # m
      <4>1. n + 1 < m + 1 /\ n + 1 \in 1..m
        BY <1>6, <3>2
      <4>2. at[n + 1] + Len(L[n + 1]) + 1 <= at[m + 1] /\ Len(L[n + 1]) \in Nat
        BY <1>1, <1>2, <1>3, <1>5, <2>1, <4>1, OffsetsGrow
      <4> QED  BY <2>2, <4>2
    <3> QED  BY <3>1, <3>2
  <2>4. CursorSize \in Nat /\ TF_BUFLEN \in Nat
    BY BookAssumption
  <2> QED  BY <1>2, <1>3, <2>2, <2>3, <2>4 DEF Bounded
<1>10. Fitting(M)
  BY <1>4, <1>8, <1>9 DEF Fitting
<1> QED  BY <1>10 DEF M

\* A phone book does.
LEMMA BookFits ==
  ASSUME NEW b, NEW L, NEW at, IsBook(b, L, at)
  PROVE  Fitting(L)
  BY DEF IsBook, Fitting

\* TfInit.
LEMMA EmptyBookIs ==
  ASSUME NEW mode \in Modes, NEW hidden \in BOOLEAN
  PROVE  /\ EmptyBook(mode, hidden) \in Books /\ EmptyBook(mode, hidden).pos = 0
         /\ EmptyBook(mode, hidden).mode = mode /\ EmptyBook(mode, hidden).filtHidden = hidden
         /\ EmptyBook(mode, hidden).end = 0
         /\ \E at : IsBook(EmptyBook(mode, hidden), <<>>, at)
<1> DEFINE b == EmptyBook(mode, hidden)
           at == [k \in 1..0+1 |-> 0]
<1>1. b \in Books /\ b.pos = 0 /\ b.mode = mode /\ b.filtHidden = hidden /\ b.end = 0 /\ b.nums \in Chars
  BY DEF EmptyBook, Books, Chars
<1>2. at \in [1..0+1 -> Nat] /\ at[1] = 0 /\ 0 + 1 = 1
  OBVIOUS
<1>3. <<>> \in Seq(Numbers) /\ Len(<<>>) = 0
  OBVIOUS
<1> HIDE DEF b, at
<1>4. Offsets(<<>>, at)
  BY <1>2, <1>3 DEF Offsets
<1>5. Bounded(b.end)
  BY <1>1, BookAssumption DEF Bounded
<1>6. IsBook(b, <<>>, at)
  BY <1>1, <1>2, <1>3, <1>4, <1>5 DEF IsBook
<1> QED  BY <1>1, <1>6 DEF b

\* The loop of TfParseConfig.
ParsesTo(f, file) ==
  f = [n \in 0..Len(file.list) |->
         IF n = 0 THEN EmptyBook(file.mode, file.filtHidden)
         ELSE TfNumAdd(f[n - 1], file.list[n])]

\* It is a function.
LEMMA ParseExists ==
  ASSUME NEW file, file.list \in Seq(Numbers), file.mode \in Modes, file.filtHidden \in BOOLEAN
  PROVE  \E f : ParsesTo(f, file)
<1>1. PICK n \in Nat : n = Len(file.list)
  OBVIOUS
<1> DEFINE e == EmptyBook(file.mode, file.filtHidden)
           G == [x \in Nat \X Books |-> IF x[1] \in 1..n THEN TfNumAdd(x[2], file.list[x[1]]) ELSE x[2]]
<1>2. e \in Books
  BY EmptyBookIs
<1>3. G \in [Nat \X Books -> Books]
  <2> SUFFICES ASSUME NEW i \in Nat, NEW b \in Books
               PROVE  (IF i \in 1..n THEN TfNumAdd(b, file.list[i]) ELSE b) \in Books
    OBVIOUS
  <2>1. i \in 1..n => file.list[i] \in Numbers
    BY <1>1
  <2> QED  BY <2>1, AddClosed
<1>4. PICK f \in [0..n -> Books] : Repeats(f, n, e, G)
  <2> HIDE DEF G, e
  <2> QED  BY <1>2, <1>3, PrimitiveRecursion
<1>5. ASSUME NEW i \in 0..n
      PROVE  f[i] = IF i = 0 THEN e ELSE TfNumAdd(f[i - 1], file.list[i])
  <2>1. f[i] = IF i = 0 THEN e ELSE G[<<i, f[i - 1]>>]
    <3> HIDE DEF G, e
    <3> QED  BY <1>4 DEF Repeats
  <2>2. i # 0 => i - 1 \in 0..n /\ i \in 1..n /\ i \in Nat
    OBVIOUS
  <2>3. i # 0 => f[i - 1] \in Books
    BY <2>2
  <2>4. i # 0 => G[<<i, f[i - 1]>>] = TfNumAdd(f[i - 1], file.list[i])
    <3> SUFFICES ASSUME i # 0 PROVE G[<<i, f[i - 1]>>] = TfNumAdd(f[i - 1], file.list[i])
      OBVIOUS
    <3> DEFINE v == f[i - 1]
    <3>1. v \in Books
      BY <2>3
    <3> HIDE DEF v
    <3>2. G[<<i, v>>] = TfNumAdd(v, file.list[i])
      BY <2>2, <3>1
    <3> QED  BY <3>2 DEF v
  <2> HIDE DEF G, e
  <2> QED  BY <2>1, <2>4
<1>6. f = [i \in 0..n |-> f[i]]
  OBVIOUS
<1> HIDE DEF G
<1> QED  BY <1>1, <1>5, <1>6 DEF ParsesTo

\* What is read is the list in the file.
LEMMA ParseRestores ==
  ASSUME NEW file, Fitting(file.list), file.mode \in Modes, file.filtHidden \in BOOLEAN
  PROVE  /\ TfParseConfig(file) \in Books /\ TfParseConfig(file).pos = 0
         /\ TfParseConfig(file).mode = file.mode /\ TfParseConfig(file).filtHidden = file.filtHidden
         /\ \E at : IsBook(TfParseConfig(file), file.list, at)
<1> DEFINE L == file.list
<1>1. L \in Seq(Numbers)
  BY DEF Fitting
<1>2. PICK at : Offsets(L, at) /\ Bounded(at[Len(L) + 1])
  BY DEF Fitting
<1>3. PICK m \in Nat : m = Len(L)
  BY <1>1
<1> DEFINE f == CHOOSE g : ParsesTo(g, file)
<1>4. ParsesTo(f, file)
  BY <1>1, ParseExists
<1>5. TfParseConfig(file) = f[m]
  BY <1>3 DEF TfParseConfig, ParsesTo
<1> HIDE DEF f
<1>6. \A n \in 0..m : f[n] = IF n = 0 THEN EmptyBook(file.mode, file.filtHidden)
                             ELSE TfNumAdd(f[n - 1], L[n])
  BY <1>3, <1>4 DEF ParsesTo
<1> HIDE DEF L
<1>7. /\ \A k \in 1..m+1 : at[k] \in Nat
      /\ \A k \in 1..m : at[k + 1] = at[k] + Len(L[k]) + 1
      /\ \A i, j \in 1..m+1 : i < j => at[i] + Len(L[i]) + 1 <= at[j]
      /\ \A k \in 1..m : L[k] \in Numbers
      /\ at[1] = 0
  <2>1. \A k \in 1..m : L[k] \in Numbers
    BY <1>1, <1>3
  <2>2. /\ \A k \in 1..m+1 : at[k] \in Nat
        /\ \A k \in 1..m : at[k + 1] = at[k] + Len(L[k]) + 1
        /\ at[1] = 0
    BY <1>2, <1>3 DEF Offsets
  <2>3. \A i, j \in 1..m+1 : i < j => at[i] + Len(L[i]) + 1 <= at[j]
    BY <1>1, <1>2, <1>3, OffsetsGrow
  <2> QED  BY <2>1, <2>2, <2>3
<1>8. /\ CursorSize \in Nat /\ TF_BUFLEN \in Nat /\ at[m + 1] < CursorSize /\ at[m + 1] <= TF_BUFLEN
      /\ at[m + 1] \in Nat
  BY <1>2, <1>3, <1>7, BookAssumption DEF Bounded
<1> DEFINE Read(b, n) == /\ b \in Books /\ b.pos = 0 /\ b.mode = file.mode
                         /\ b.filtHidden = file.filtHidden /\ b.end = at[n + 1]
                         /\ \E bt : IsBook(b, SubSeq(L, 1, n), bt)
           S == {n \in Nat : n <= m => Read(f[n], n)}
<1>9. 0 \in S
  <2>1. f[0] = EmptyBook(file.mode, file.filtHidden)
    BY <1>6
  <2>2. SubSeq(L, 1, 0) = <<>> /\ at[0 + 1] = 0
    BY <1>1, <1>7
  <2> DEFINE e == EmptyBook(file.mode, file.filtHidden)
  <2>3. /\ e \in Books /\ e.pos = 0 /\ e.mode = file.mode /\ e.filtHidden = file.filtHidden
        /\ e.end = 0 /\ \E bt : IsBook(e, <<>>, bt)
    BY EmptyBookIs
  <2> HIDE DEF e
  <2>4. Read(e, 0)
    BY <2>2, <2>3
  <2>5. f[0] = e
    BY <2>1 DEF e
  <2> HIDE DEF Read
  <2> QED  BY <2>4, <2>5
<1>10. ASSUME NEW n \in Nat, n \in S PROVE n + 1 \in S
  <2> SUFFICES ASSUME n + 1 <= m PROVE Read(f[n + 1], n + 1)
    OBVIOUS
  <2>1. PICK k \in 1..m : k = n + 1 /\ k - 1 = n /\ k \in 0..m
    OBVIOUS
  <2>2. f[k] = TfNumAdd(f[n], L[k])
    BY <1>6, <2>1
  <2> DEFINE b == f[n]
             num == L[k]
  <2>3. Read(b, n)
    BY <1>10
  <2> HIDE DEF b
  <2>4. PICK bt : IsBook(b, SubSeq(L, 1, n), bt)
    BY <2>3
  <2>5. num \in Numbers /\ Len(num) \in Nat /\ b.end = at[k] /\ at[k + 1] = b.end + Len(num) + 1
    BY <1>7, <2>1, <2>3, NumberIs
  <2>6. at[k + 1] <= at[m + 1]
    <3>1. CASE k = m
      BY <1>8, <3>1
    <3>2. CASE k # m
      <4>1. k + 1 \in 1..m+1 /\ m + 1 \in 1..m+1 /\ k + 1 < m + 1 /\ k + 1 \in 1..m
        BY <3>2
      <4>2. at[k + 1] + Len(L[k + 1]) + 1 <= at[m + 1] /\ at[k + 1] \in Nat /\ Len(L[k + 1]) \in Nat
        BY <1>7, <4>1, NumberIs
      <4> QED  BY <1>8, <4>2
    <3> QED  BY <3>1, <3>2
  <2> HIDE DEF num
  <2>7. at[k + 1] \in Nat
    <3>1. k + 1 \in 1..m+1
      OBVIOUS
    <3> QED  BY <1>7, <3>1
  <2>8. b.end + Len(num) + 1 < CursorSize /\ Fits(b, num)
    <3>1. at[k + 1] < CursorSize /\ at[k + 1] <= TF_BUFLEN
      BY <1>8, <2>6, <2>7
    <3> QED  BY <2>5, <3>1 DEF Fits
  <2>9. /\ TfNumAdd(b, num) \in Books /\ SameSettings(TfNumAdd(b, num), b)
        /\ TfNumAdd(b, num).pos = b.pos /\ TfNumAdd(b, num).end = b.end + Len(num) + 1
        /\ \E ct : IsBook(TfNumAdd(b, num), Append(SubSeq(L, 1, n), num), ct)
    BY <2>3, <2>4, <2>5, <2>8, AddAppends
  <2>10. Append(SubSeq(L, 1, n), num) = SubSeq(L, 1, k)
    BY <1>1, <1>3, <2>1 DEF num
  <2>11. Read(TfNumAdd(b, num), k)
    BY <2>3, <2>5, <2>9, <2>10 DEF SameSettings
  <2> QED  BY <2>1, <2>2, <2>11 DEF b, num
<1>11. Nat \subseteq S
  <2> HIDE DEF S
  <2> QED  BY <1>9, <1>10, SetInduction
<1>12. Read(f[m], m)
  <2>1. m \in S /\ m <= m
    <3> HIDE DEF S
    <3>1. m <= m
      OBVIOUS
    <3> QED  BY <1>11, <3>1
  <2> HIDE DEF Read
  <2> QED  BY <2>1
<1>13. SubSeq(L, 1, m) = L
  BY <1>1, <1>3
<1> QED  BY <1>5, <1>12, <1>13 DEF L

--------------------------------------------------------------------------------
(* The invariant.                                                          *)

Cards == [hdr : 0..2, mode : Modes, filtHidden : BOOLEAN, list : Seq(Numbers)]

\* What is in the file can be read, if it is read at all.
IsCard(c) == c \in Cards /\ Fitting(c.list) /\ (c.hdr < 2 => c.list = <<>>)

\* The last save succeeded.
Stored(c, b, L) ==
  c.hdr = 2 /\ c.list = L /\ c.mode = b.mode /\ c.filtHidden = b.filtHidden

\* A display that shows num has the cursors at number k, 0 when there is none.
Shows(b, L, at, num, k) ==
  IF L = <<>> THEN k = 0 /\ num = NULL ELSE OnNumber(b, L, at, k) /\ num = L[k]

\* The phone book is the list L with its cursor at number k.
State(L, k) ==
  /\ tf \in Books /\ IsCard(card) /\ (saved => Stored(card, tf, L))
  /\ \E at : /\ IsBook(tf, L, at) /\ (L = <<>> => tf.pos = 0)
             /\ IF Browsing THEN Shows(tf, L, at, shown, k) ELSE k = 0

BookInv == \E L, k : State(L, k)

\* Cursor and list as they are mapped to those of PhoneBook.
Cur == IF Browsing /\ Book(tf) # <<>> THEN CursorIndex(tf) ELSE 0

LEMMA StateIs ==
  ASSUME NEW L, NEW k, State(L, k)
  PROVE  /\ L \in Seq(Numbers) /\ Book(tf) = L /\ Cur = k
         /\ k = 0 \/ k \in 1..Len(L)
         /\ Browsing => shown = IF L = <<>> THEN NULL ELSE L[k]
<1>1. PICK at : /\ IsBook(tf, L, at)
                /\ IF Browsing THEN Shows(tf, L, at, shown, k) ELSE k = 0
  BY DEF State
<1>2. Book(tf) = L /\ L \in Seq(Numbers)
  BY <1>1, BookIs DEF IsBook
<1>3. CASE Browsing /\ L # <<>>
  <2>1. OnNumber(tf, L, at, k) /\ shown = L[k]
    BY <1>1, <1>3 DEF Shows
  <2>2. CursorIndex(tf) = k /\ k \in 1..Len(L)
    BY <2>1, CursorIs DEF OnNumber
  <2> QED  BY <1>2, <1>3, <2>1, <2>2 DEF Cur
<1>4. CASE ~(Browsing /\ L # <<>>)
  <2>1. k = 0 /\ (Browsing => shown = NULL)
    BY <1>1, <1>4 DEF Shows
  <2> QED  BY <1>2, <1>4, <2>1 DEF Cur
<1> QED  BY <1>3, <1>4

\* The same of the state after a step.
LEMMA NextStateIs ==
  ASSUME NEW L, NEW k, State(L, k)'
  PROVE  /\ L \in Seq(Numbers) /\ Book(tf') = L /\ Cur' = k
         /\ k = 0 \/ k \in 1..Len(L)
<1>1. PICK at : /\ IsBook(tf', L, at)
                /\ IF Browsing' THEN Shows(tf', L, at, shown', k) ELSE k = 0
  BY DEF State
<1>2. Book(tf') = L /\ L \in Seq(Numbers)
  BY <1>1, BookIs DEF IsBook
<1>3. CASE Browsing' /\ L # <<>>
  <2>1. OnNumber(tf', L, at, k)
    BY <1>1, <1>3 DEF Shows
  <2>2. CursorIndex(tf') = k /\ k \in 1..Len(L)
    BY <2>1, CursorIs DEF OnNumber
  <2> QED  BY <1>2, <1>3, <2>2 DEF Cur
<1>4. CASE ~(Browsing' /\ L # <<>>)
  <2>1. k = 0
    BY <1>1, <1>4 DEF Shows
  <2> QED  BY <1>2, <1>4, <2>1 DEF Cur
<1> QED  BY <1>3, <1>4

\* The card is left alone, or has the beginning of the list.
SavesSome(M) == card' = card \/ IsPrefix(card'.list, M)

\* The file that TfCfgSave writes, or a part of it.
LEMMA WrittenIs ==
  ASSUME NEW b \in Books, NEW L, NEW at, IsBook(b, L, at)
  PROVE  /\ IsCard(Written(b)) /\ Stored(Written(b), b, L) /\ IsPrefix(Written(b).list, L)
         /\ \A k \in 0..Len(L)+1 : IsCard(Cut(Written(b), k)) /\ IsPrefix(Cut(Written(b), k).list, L)
<1>1. Book(b) = L /\ L \in Seq(Numbers) /\ Fitting(L)
  BY BookIs, BookFits DEF IsBook
<1>2. b.mode \in Modes /\ b.filtHidden \in BOOLEAN
  BY DEF Books
<1>3. Written(b) = [hdr |-> 2, mode |-> b.mode, filtHidden |-> b.filtHidden, list |-> L]
  BY <1>1 DEF Written
<1>4. IsPrefix(L, L) /\ IsPrefix(<<>>, L)
  BY <1>1 DEF IsPrefix
<1>5. IsCard(Written(b)) /\ Stored(Written(b), b, L) /\ IsPrefix(Written(b).list, L)
  BY <1>1, <1>2, <1>3, <1>4 DEF IsCard, Cards, Stored
<1>6. ASSUME NEW k \in 0..Len(L)+1
      PROVE  IsCard(Cut(Written(b), k)) /\ IsPrefix(Cut(Written(b), k).list, L)
  <2>1. CASE k < 2
    <3>1. Cut(Written(b), k) = [hdr |-> k, mode |-> b.mode, filtHidden |-> b.filtHidden, list |-> <<>>]
      <4> DEFINE w == Written(b)
      <4>1. Cut(w, k) = [w EXCEPT !.hdr = k, !.list = <<>>]
        BY <2>1 DEF Cut
      <4>2. w = [hdr |-> 2, mode |-> b.mode, filtHidden |-> b.filtHidden, list |-> L]
        BY <1>3
      <4> HIDE DEF w
      <4>3. Cut(w, k) = [hdr |-> k, mode |-> b.mode, filtHidden |-> b.filtHidden, list |-> <<>>]
        BY <4>1, <4>2
      <4> QED  BY <4>3 DEF w
    <3>2. SubSeq(L, 1, 0) = <<>> /\ 0 <= Len(L) /\ k \in 0..2
      BY <1>1, <2>1
    <3>3. Fitting(<<>>)
      BY <1>1, <3>2, FewerFit
    <3> QED  BY <1>2, <1>4, <3>1, <3>2, <3>3 DEF IsCard, Cards
  <2>2. CASE k >= 2
    <3>1. PICK n \in Nat : n = k - 2 /\ n <= Len(L)
      BY <1>1, <2>2
    <3> DEFINE M == SubSeq(L, 1, n)
    <3>2. Cut(Written(b), k) = [hdr |-> 2, mode |-> b.mode, filtHidden |-> b.filtHidden, list |-> M]
      <4> DEFINE w == Written(b)
      <4>1. Cut(w, k) = [w EXCEPT !.hdr = 2, !.list = SubSeq(w.list, 1, k - 2)]
        <5>1. ~(k < 2)
          BY <1>2, <2>2
        <5> QED  BY <5>1 DEF Cut
      <4>2. w = [hdr |-> 2, mode |-> b.mode, filtHidden |-> b.filtHidden, list |-> L]
        BY <1>3
      <4> HIDE DEF w
      <4>3. w.list = L
        BY <4>2
      <4>4. Cut(w, k) = [hdr |-> 2, mode |-> b.mode, filtHidden |-> b.filtHidden,
                         list |-> SubSeq(L, 1, k - 2)]
        BY <4>1, <4>2, <4>3
      <4> QED  BY <3>1, <4>4 DEF w
    <3>3. Fitting(M) /\ M \in Seq(Numbers)
      BY <1>1, <3>1, FewerFit DEF Fitting
    <3>4. IsPrefix(M, L)
      BY <1>1, <3>1 DEF IsPrefix
    <3> HIDE DEF M
    <3> QED  BY <1>2, <3>2, <3>3, <3>4 DEF IsCard, Cards
  <2> QED  BY <1>1, <2>1, <2>2
<1> QED  BY <1>5, <1>6

\* Every outcome of a save.
LEMMA SaveIs ==
  ASSUME NEW b \in Books, NEW L, NEW at, IsBook(b, L, at), L = <<>> => b.pos = 0,
         IsCard(card), SaveAndIdle(b)
  PROVE  State(L, 0)' /\ SavesSome(L)
<1>1. ~Browsing'
  BY DEF SaveAndIdle, Browsing
<1>2. Book(b) = L /\ L \in Seq(Numbers) /\ Len(Starts(b)) = Len(L)
  BY BookIs, StartsAre DEF IsBook
<1>3. Len(L) \in Nat /\ Len(L) \in 0..Len(L)
  BY <1>2
<1> DEFINE Kept(t) == MovesCursors(t, b) /\ (L = <<>> => t.pos = 0)
<1>4. ASSUME Kept(tf'), IsCard(card'), saved' => Stored(card', b, L)
      PROVE  State(L, 0)'
  <2>1. IsBook(tf', L, at) /\ tf' \in Books /\ (L = <<>> => tf'.pos = 0)
    BY <1>4, SameBook DEF MovesCursors
  <2>2. saved' => Stored(card', tf', L)
    BY <1>4 DEF MovesCursors, SameSettings, Stored
  <2> QED  BY <1>1, <1>4, <2>1, <2>2 DEF State
<1>5. \A k \in 0..Len(L) : Kept(Walked(b, k))
  BY WalkedIs
<1>6. Kept(b)
  BY DEF MovesCursors, SameSettings
<1> HIDE DEF Kept
<1>7. CASE tf' = TfCfgSave(b) /\ card' = Written(b) /\ saved' = TRUE
  <2>1. Kept(tf')
    BY <1>2, <1>3, <1>5, <1>7 DEF TfCfgSave
  <2>2. IsCard(card') /\ Stored(card', b, L) /\ IsPrefix(card'.list, L)
    BY <1>7, WrittenIs
  <2> QED  BY <1>4, <2>1, <2>2 DEF SavesSome
<1>8. CASE tf' = b /\ UNCHANGED card /\ saved' = FALSE
  BY <1>4, <1>6, <1>8 DEF SavesSome
<1>9. ASSUME NEW k \in 0..Len(Book(b)) + 1, tf' = IF k < 2 THEN b ELSE Walked(b, k - 1),
             card' = Cut(Written(b), k), saved' = FALSE
      PROVE  State(L, 0)' /\ SavesSome(L)
  <2>1. k \in 0..Len(L)+1 /\ (~(k < 2) => k - 1 \in 0..Len(L))
    BY <1>2, <1>3
  <2>2. Kept(tf')
    BY <1>5, <1>6, <1>9, <2>1
  <2>3. IsCard(card') /\ IsPrefix(card'.list, L)
    BY <1>9, <2>1, WrittenIs
  <2> QED  BY <1>4, <1>9, <2>2, <2>3 DEF SavesSome
<1> QED  BY <1>7, <1>8, <1>9 DEF SaveAndIdle

--------------------------------------------------------------------------------
(* What each action does to the list, its cursor and the card.             *)

LEMMA AddIs ==
  ASSUME NEW L, NEW k, State(L, k), NEW num \in Numbers, Add(num)
  PROVE  k = 0 /\ \E M \in {L, Append(L, num)} : State(M, 0)' /\ SavesSome(M)
<1>1. PICK at : /\ IsBook(tf, L, at) /\ (L = <<>> => tf.pos = 0)
                /\ IF Browsing THEN Shows(tf, L, at, shown, k) ELSE k = 0
  BY DEF State
<1>2. tf \in Books /\ IsCard(card) /\ ~Browsing
  BY DEF State, Add, Browsing
<1>3. SaveAndIdle(TfNumAdd(tf, num)) /\ tf.end + Len(num) + 1 <= MaxBook
  BY DEF Add, InBounds
<1>4. tf.end + Len(num) + 1 < CursorSize
  <2>1. tf.end \in Nat /\ Len(num) \in Nat /\ CursorSize \in Nat /\ MaxBook \in Nat /\ MaxBook < CursorSize
    BY <1>2, NumberIs, BookAssumption, BoundAssumption DEF Books
  <2> QED  BY <1>3, <2>1
<1> DEFINE b == TfNumAdd(tf, num)
<1>5. /\ b \in Books /\ (~Fits(tf, num) => b = tf)
      /\ Fits(tf, num) => \E bt : IsBook(b, Append(L, num), bt)
  BY <1>1, <1>2, <1>4, AddAppends
<1>6. SaveAndIdle(b)
  BY <1>3
<1> HIDE DEF b
<1>7. CASE Fits(tf, num)
  <2>1. PICK bt : IsBook(b, Append(L, num), bt)
    BY <1>5, <1>7
  <2>2. Append(L, num) # <<>>
    BY <1>1 DEF IsBook
  <2>3. State(Append(L, num), 0)' /\ SavesSome(Append(L, num))
    BY <1>2, <1>5, <1>6, <2>1, <2>2, SaveIs
  <2> QED  BY <1>1, <1>2, <2>3
<1>8. CASE ~Fits(tf, num)
  <2>1. b = tf
    BY <1>5, <1>8
  <2>2. State(L, 0)' /\ SavesSome(L)
    BY <1>1, <1>2, <1>6, <2>1, SaveIs
  <2> QED  BY <1>1, <1>2, <2>2
<1> QED  BY <1>7, <1>8

LEMMA DeleteIs ==
  ASSUME NEW L, NEW k, State(L, k), Delete
  PROVE  \E M : M = (IF k = 0 THEN L ELSE RemoveAt(L, k)) /\ State(M, 0)' /\ SavesSome(M)
<1>1. Browsing /\ tf \in Books /\ IsCard(card) /\ SaveAndIdle(TfNumDelete(tf))
  BY DEF State, Delete, Browsing
<1>2. PICK at : IsBook(tf, L, at) /\ (L = <<>> => tf.pos = 0) /\ Shows(tf, L, at, shown, k)
  BY <1>1 DEF State
<1>3. L \in Seq(Numbers) /\ Offsets(L, at)
  BY <1>2 DEF IsBook
<1> DEFINE b == TfNumDelete(tf)
<1>4. SaveAndIdle(b)
  BY <1>1
<1>5. CASE L = <<>>
  <2>1. b \in Books /\ b.pos = 0 /\ IsBook(b, L, at)
    BY <1>1, <1>2, <1>5, DeleteNothing
  <2> HIDE DEF b
  <2>2. State(L, 0)' /\ SavesSome(L)
    BY <1>1, <1>4, <2>1, SaveIs
  <2> QED  BY <1>2, <1>5, <2>2 DEF Shows
<1>6. CASE L # <<>>
  <2>1. k \in 1..Len(L) /\ tf.pos = at[k] /\ tf.readPos = at[k + 1]
    BY <1>2, <1>6 DEF Shows, OnNumber
  <2>2. b \in Books /\ b.pos = tf.pos /\ \E bt : IsBook(b, RemoveAt(L, k), bt)
    BY <1>1, <1>2, <2>1, DeleteRemoves
  <2>3. PICK bt : IsBook(b, RemoveAt(L, k), bt)
    BY <2>2
  <2>4. RemoveAt(L, k) = <<>> => b.pos = 0
    <3>1. Len(RemoveAt(L, k)) = Len(L) - 1 /\ Len(L) \in Nat
      BY <1>3, <2>1, RemovedIs
    <3>2. ASSUME RemoveAt(L, k) = <<>> PROVE k = 1
      <4>1. Len(RemoveAt(L, k)) = 0
        BY <3>2
      <4>2. Len(L) = 1
        BY <3>1, <4>1
      <4> QED  BY <2>1, <4>2
    <3> QED  BY <1>3, <2>1, <2>2, <3>2 DEF Offsets
  <2> HIDE DEF b
  <2>5. State(RemoveAt(L, k), 0)' /\ SavesSome(RemoveAt(L, k))
    BY <1>1, <1>4, <2>2, <2>3, <2>4, SaveIs
  <2>6. k # 0
    BY <1>3, <2>1
  <2> QED  BY <2>5, <2>6
<1> QED  BY <1>5, <1>6

\* The cursors may move, and the display with them.
LEMMA StateAfter ==
  ASSUME NEW L, NEW k, State(L, k), NEW at, IsBook(tf, L, at), MovesCursors(tf', tf),
         NEW j, L = <<>> => tf'.pos = 0, UNCHANGED <<card, saved>>,
         IF Browsing' THEN Shows(tf', L, at, shown', j) ELSE j = 0
  PROVE  State(L, j)'
<1>1. IsBook(tf', L, at) /\ tf' \in Books
  BY SameBook DEF MovesCursors
<1>2. IsCard(card') /\ (saved' => Stored(card', tf', L))
  BY DEF State, MovesCursors, SameSettings, Stored
<1> QED  BY <1>1, <1>2 DEF State

\* The cursors at least stay.
LEMMA StaysPut == ASSUME NEW b \in Books PROVE MovesCursors(b, b)
  BY DEF MovesCursors, SameSettings

LEMMA OpenListIs ==
  ASSUME NEW L, NEW k, State(L, k), OpenList
  PROVE  State(L, IF L = <<>> THEN 0 ELSE 1)'
<1>1. PICK at : IsBook(tf, L, at) /\ (L = <<>> => tf.pos = 0)
  BY DEF State
<1>2. tf \in Books /\ Browsing' /\ tf' = TfNumGetFirst(tf) /\ shown' = FirstNum(tf)
      /\ UNCHANGED <<card, saved>>
  BY DEF State, OpenList, Browsing
<1>3. /\ MovesCursors(tf', tf)
      /\ L # <<>> => OnNumber(tf', L, at, 1) /\ shown' = L[1]
      /\ L = <<>> => shown' = NULL /\ tf'.pos = tf.pos
  BY <1>1, <1>2, FirstIs
<1>4. Shows(tf', L, at, shown', IF L = <<>> THEN 0 ELSE 1)
  BY <1>3 DEF Shows
<1>5. PICK j : j = IF L = <<>> THEN 0 ELSE 1
  OBVIOUS
<1>6. State(L, j)'
  BY <1>1, <1>2, <1>3, <1>4, <1>5, StateAfter
<1> QED  BY <1>5, <1>6

LEMMA BrowseUpIs ==
  ASSUME NEW L, NEW k, State(L, k), BrowseUp
  PROVE  \E j : /\ State(L, j)' /\ (k = 0 => j = 0)
                /\ (k # 0 => j = k \/ j \in {k - 1, k + 1} \cap 1..Len(L))
<1>1. Browsing /\ Browsing' /\ tf \in Books /\ tf' = TfNumGetPrev(tf) /\ UNCHANGED <<card, saved>>
      /\ shown' = IF PrevNum(tf) = NULL THEN shown ELSE PrevNum(tf)
  BY DEF State, BrowseUp, Show, Browsing
<1>2. PICK at : IsBook(tf, L, at) /\ (L = <<>> => tf.pos = 0) /\ Shows(tf, L, at, shown, k)
  BY <1>1 DEF State
<1>3. CASE tf' = tf /\ PrevNum(tf) = NULL
  <2>1. MovesCursors(tf', tf) /\ Shows(tf', L, at, shown', k)
    BY <1>1, <1>2, <1>3, StaysPut
  <2>2. State(L, k)'
    BY <1>1, <1>2, <1>3, <2>1, StateAfter
  <2> QED  BY <2>2
<1>4. CASE L = <<>>
  BY <1>1, <1>2, <1>3, <1>4 DEF TfNumGetPrev, PrevNum
<1>5. CASE L # <<>>
  <2>1. OnNumber(tf, L, at, k)
    BY <1>2, <1>5 DEF Shows
  <2>2. CASE TfNumGetPrev(tf) = tf /\ PrevNum(tf) = NULL
    BY <1>1, <1>3, <2>2
  <2>3. CASE /\ k - 1 \in 1..Len(L) /\ MovesCursors(TfNumGetPrev(tf), tf)
             /\ OnNumber(TfNumGetPrev(tf), L, at, k - 1) /\ PrevNum(tf) = L[k - 1] /\ L[k - 1] # NULL
    <3>1. PICK j : j = k - 1
      OBVIOUS
    <3>2. MovesCursors(tf', tf) /\ Shows(tf', L, at, shown', j)
      BY <1>1, <1>5, <2>3, <3>1 DEF Shows
    <3>3. State(L, j)'
      BY <1>1, <1>2, <1>5, <3>2, StateAfter
    <3>4. k \in 1..Len(L)
      BY <2>1 DEF OnNumber
    <3> QED  BY <2>3, <3>1, <3>3, <3>4
  <2> QED  BY <1>1, <2>1, <2>2, <2>3, PrevIs
<1> QED  BY <1>4, <1>5

LEMMA BrowseDownIs ==
  ASSUME NEW L, NEW k, State(L, k), BrowseDown
  PROVE  \E j : /\ State(L, j)' /\ (k = 0 => j = 0)
                /\ (k # 0 => j = k \/ j \in {k - 1, k + 1} \cap 1..Len(L))
<1>1. Browsing /\ Browsing' /\ tf \in Books /\ tf' = TfNumGetNext(tf) /\ UNCHANGED <<card, saved>>
      /\ shown' = IF NextNum(tf) = NULL THEN shown ELSE NextNum(tf)
  BY DEF State, BrowseDown, Show, Browsing
<1>2. PICK at : IsBook(tf, L, at) /\ (L = <<>> => tf.pos = 0) /\ Shows(tf, L, at, shown, k)
  BY <1>1 DEF State
<1>3. L \in Seq(Numbers) /\ Offsets(L, at) /\ tf.end = at[Len(L) + 1]
  BY <1>2 DEF IsBook
<1>4. CASE tf.readPos >= tf.end
  <2>1. tf' = tf /\ NextNum(tf) = NULL
    BY <1>1, <1>4, NextIsNone
  <2>2. MovesCursors(tf', tf) /\ Shows(tf', L, at, shown', k)
    BY <1>1, <1>2, <2>1, StaysPut
  <2>3. State(L, k)'
    BY <1>1, <1>2, <2>1, <2>2, StateAfter
  <2> QED  BY <2>3
<1>5. CASE L = <<>>
  <2>1. tf.end = 0 /\ tf.readPos \in Nat
    BY <1>1, <1>3, <1>5 DEF Offsets, Books
  <2> QED  BY <1>4, <2>1
<1>6. CASE L # <<>>
  <2>1. k \in 1..Len(L) /\ tf.readPos = at[k + 1] /\ Len(L) \in Nat
    BY <1>2, <1>3, <1>6 DEF Shows, OnNumber
  <2>2. CASE k = Len(L)
    <3>1. tf.readPos = tf.end /\ tf.end \in Nat
      BY <1>1, <1>3, <2>1, <2>2 DEF Books
    <3> QED  BY <1>4, <3>1
  <2>3. CASE k # Len(L)
    <3>1. PICK j \in 1..Len(L) : j = k + 1
      BY <2>1, <2>3
    <3>2. /\ MovesCursors(tf', tf) /\ OnNumber(tf', L, at, j)
          /\ NextNum(tf) = L[j] /\ L[j] # NULL
      BY <1>1, <1>2, <2>1, <3>1, NextIs
    <3>3. Shows(tf', L, at, shown', j)
      BY <1>1, <1>6, <3>2 DEF Shows
    <3>4. State(L, j)'
      BY <1>1, <1>2, <1>6, <3>2, <3>3, StateAfter
    <3> QED  BY <2>1, <3>1, <3>4
  <2> QED  BY <2>2, <2>3
<1> QED  BY <1>5, <1>6

\* A step that leaves the cursors where they are.
LEMMA OtherIs ==
  ASSUME NEW L, NEW k, State(L, k), AskDelete \/ Toggle \/ Leave \/ Switch
  PROVE  \E j \in {0, k} : State(L, j)'
<1>1. PICK at : /\ IsBook(tf, L, at) /\ (L = <<>> => tf.pos = 0)
                /\ IF Browsing THEN Shows(tf, L, at, shown, k) ELSE k = 0
  BY DEF State
<1>2. tf \in Books
  BY DEF State
<1>3. ASSUME AskDelete \/ Toggle PROVE State(L, k)'
  <2>1. Browsing /\ Browsing' /\ UNCHANGED <<tf, card, saved, shown>>
    BY <1>3 DEF AskDelete, Toggle, Browsing
  <2>2. MovesCursors(tf', tf)
    BY <1>2, <2>1, StaysPut
  <2> QED  BY <1>1, <2>1, <2>2, StateAfter
<1>4. ASSUME Leave PROVE State(L, 0)'
  <2>1. ~Browsing' /\ UNCHANGED <<tf, card, saved>>
    BY <1>4 DEF Leave, Browsing
  <2>2. MovesCursors(tf', tf)
    BY <1>2, <2>1, StaysPut
  <2> QED  BY <1>1, <2>1, <2>2, StateAfter
<1>5. ASSUME Switch PROVE State(L, 0)'
  <2>1. ~Browsing' /\ UNCHANGED <<card, saved>>
    BY <1>5 DEF Switch, Browsing
  <2>2. MovesCursors(tf', tf) /\ tf'.pos = tf.pos
    BY <1>2, <1>5 DEF Switch, TfEnable, TfDisable, Books, MovesCursors, SameSettings
  <2> QED  BY <1>1, <2>1, <2>2, StateAfter
<1> QED  BY <1>3, <1>4, <1>5

LEMMA BootIs ==
  ASSUME NEW L, NEW k, State(L, k), Boot
  PROVE  /\ State(card.list, 0)' /\ card' = card
         /\ saved => /\ card.list = L /\ tf'.mode = tf.mode /\ tf'.filtHidden = tf.filtHidden
<1>1. IsCard(card) /\ (saved => Stored(card, tf, L)) /\ card' = card /\ ~Browsing'
  BY DEF State, Boot, Browsing
<1>2. /\ Fitting(card.list) /\ card.mode \in Modes /\ card.filtHidden \in BOOLEAN /\ card.hdr \in 0..2
      /\ card.hdr < 2 => card.list = <<>>
  BY <1>1 DEF IsCard, Cards
<1>3. CASE Parses(card)
  <2>1. tf' = TfParseConfig(card) /\ card.hdr = 2
    BY <1>3 DEF Boot, Parses
  <2>2. /\ tf' \in Books /\ tf'.pos = 0 /\ tf'.mode = card.mode /\ tf'.filtHidden = card.filtHidden
        /\ \E at : IsBook(tf', card.list, at)
    BY <1>2, <2>1, ParseRestores
  <2>3. Stored(card', tf', card'.list)
    BY <1>1, <2>1, <2>2 DEF Stored
  <2>4. State(card.list, 0)'
    BY <1>1, <2>2, <2>3 DEF State
  <2> QED  BY <1>1, <2>2, <2>4 DEF Stored
<1>4. CASE ~Parses(card)
  <2>1. tf' = EmptyBook(TF_MODE_BLACKLIST, FALSE) /\ saved' = FALSE
    BY <1>4 DEF Boot
  <2>2. card.hdr < 2 /\ card.list = <<>>
    BY <1>2, <1>4 DEF Parses
  <2>3. tf' \in Books /\ tf'.pos = 0 /\ \E at : IsBook(tf', <<>>, at)
    BY <2>1, EmptyBookIs DEF Modes
  <2>4. State(card.list, 0)'
    BY <1>1, <2>1, <2>2, <2>3 DEF State
  <2>5. ~saved
    BY <1>1, <2>2 DEF Stored
  <2> QED  BY <1>1, <2>4, <2>5
<1> QED  BY <1>3, <1>4

--------------------------------------------------------------------------------
(* The theorems.                                                           *)

\* The device starts with an empty phone book.
LEMMA InitIs == ASSUME TelFiltInit PROVE State(<<>>, 0) /\ card.list = <<>>
<1>1. /\ card \in Cards /\ card.hdr = 2 /\ card.list = <<>> /\ card.mode \in Modes /\ card.filtHidden \in BOOLEAN
      /\ tf = TfParseConfig(card) /\ ~Browsing
  <2>1. card \in [hdr : {2}, mode : Modes, filtHidden : {TRUE}, list : {<<>>}]
    BY DEF TelFiltInit, Modes
  <2>2. <<>> \in Seq(Numbers)
    OBVIOUS
  <2>3. card \in Cards
    <3>1. card.mode \in Modes /\ card.filtHidden = TRUE /\ card.list = <<>> /\ card.hdr = 2
      BY <2>1
    <3>2. 2 \in 0..2 /\ TRUE \in BOOLEAN
      OBVIOUS
    <3>3. card.mode \in Modes /\ card.filtHidden \in BOOLEAN /\ card.list \in Seq(Numbers) /\ card.hdr \in 0..2
      BY <2>2, <3>1, <3>2
    <3>4. card = [hdr |-> card.hdr, mode |-> card.mode, filtHidden |-> card.filtHidden, list |-> card.list]
      BY <2>1
    <3> QED  BY <3>3, <3>4 DEF Cards
  <2> QED  BY <2>1, <2>3 DEF TelFiltInit, Browsing
<1>2. Fitting(<<>>)
  BY <1>1, EmptyBookIs, BookFits
<1>3. /\ tf \in Books /\ tf.pos = 0 /\ tf.mode = card.mode /\ tf.filtHidden = card.filtHidden
      /\ \E at : IsBook(tf, <<>>, at)
  BY <1>1, <1>2, ParseRestores
<1>4. IsCard(card) /\ Stored(card, tf, <<>>)
  BY <1>1, <1>2, <1>3 DEF IsCard, Stored
<1> QED  BY <1>1, <1>3, <1>4 DEF State

\* A step that changes nothing.
LEMMA StutterIs == ASSUME NEW L, NEW k, State(L, k), UNCHANGED telFiltVars PROVE State(L, k)'
  BY DEF State, telFiltVars, Browsing

\* Each step from a state of the invariant leads to one.
LEMMA NextKeepsBook == BookInv /\ [TelFiltNext]_telFiltVars => BookInv'
<1> SUFFICES ASSUME BookInv, [TelFiltNext]_telFiltVars PROVE \E L, k : State(L, k)'
  BY DEF BookInv
<1>1. PICK L, k : State(L, k)
  BY DEF BookInv
<1>2. ASSUME NEW num \in Numbers, Add(num) PROVE \E M, j : State(M, j)'
  BY <1>1, <1>2, AddIs
<1>3. CASE OpenList
  BY <1>1, <1>3, OpenListIs
<1>4. CASE BrowseUp
  BY <1>1, <1>4, BrowseUpIs
<1>5. CASE BrowseDown
  BY <1>1, <1>5, BrowseDownIs
<1>6. CASE AskDelete \/ Toggle \/ Leave \/ Switch
  BY <1>1, <1>6, OtherIs
<1>7. CASE Delete
  BY <1>1, <1>7, DeleteIs
<1>8. CASE Boot
  BY <1>1, <1>8, BootIs
<1>9. CASE UNCHANGED telFiltVars
  BY <1>1, <1>9, StutterIs
<1> QED  BY <1>2, <1>3, <1>4, <1>5, <1>6, <1>7, <1>8, <1>9 DEF TelFiltNext

\* The array always holds a list of whole numbers, one after the other up to its
\* end; while the list is on the display the cursors are at one of them and behind
\* it; and the file holds numbers that fit in the array.
THEOREM BookInvHolds == TelFiltSpec => []BookInv
<1>1. TelFiltInit => BookInv
  BY InitIs DEF BookInv
<1> QED  BY <1>1, NextKeepsBook, PTL DEF TelFiltSpec

\* user_if.c:545-549, 925-930: the display shows the number under the cursor,
\* whatever was added, browsed, deleted, saved or read before.
THEOREM ShowsNumberUnderCursor == TelFiltSpec => []ShowsTheCursor
<1>1. BookInv => ShowsTheCursor
  <2> SUFFICES ASSUME BookInv, Browsing
               PROVE  shown = IF Book(tf) = <<>> THEN NULL ELSE Book(tf)[CursorIndex(tf)]
    BY DEF ShowsTheCursor
  <2>1. PICK L, k : State(L, k)
    BY DEF BookInv
  <2>2. Book(tf) = L /\ Cur = k /\ shown = IF L = <<>> THEN NULL ELSE L[k]
    BY <2>1, StateIs
  <2> QED  BY <2>2 DEF Cur
<1> QED  BY <1>1, BookInvHolds, PTL

\* tel_filt.c:96-115: the search of TfNumCheck, which jumps from a number to the
\* next, finds exactly the numbers that can be browsed.
THEOREM FiltersWhatIsListed == TelFiltSpec => []FiltersTheList
<1>1. BookInv => FiltersTheList
  <2> SUFFICES ASSUME BookInv, NEW n \in Numbers
               PROVE  /\ TfNumCheck(tf, n) = TF_NUM_OK <=>
                           ((\E k \in DOMAIN Book(tf) : Book(tf)[k] = n) <=> tf.mode = TF_MODE_WHITELIST)
                      /\ TfNumCheck(tf, n) = TF_NUM_REJECT => ~tf.filtDisabled
    BY DEF FiltersTheList
  <2>1. PICK L, k, at : IsBook(tf, L, at)
    BY DEF BookInv, State
  <2>2. Book(tf) = L /\ DOMAIN L = 1..Len(L)
    BY <2>1, BookIs DEF IsBook
  <2>3. Found(tf, n) \in BOOLEAN /\ (Found(tf, n) <=> \E j \in DOMAIN L : L[j] = n)
    BY <2>1, <2>2, FoundIs
  <2> QED  BY <2>2, <2>3 DEF TfNumCheck, TF_NUM_OK, TF_NUM_REJECT, TF_FILTER_DISABLED
<1> QED  BY <1>1, BookInvHolds, PTL

\* tel_filt.c:184-266: what the last successful save wrote, all numbers in their
\* order and both settings, is what TfParseConfig makes of it.
THEOREM RestartKeepsBook == TelFiltSpec => BootRestoresBook
<1>1. ASSUME BookInv, Boot /\ saved
      PROVE  Book(tf') = Book(tf) /\ tf'.mode = tf.mode /\ tf'.filtHidden = tf.filtHidden
  <2>1. PICK L, k : State(L, k)
    BY <1>1 DEF BookInv
  <2>2. State(L, 0)' /\ tf'.mode = tf.mode /\ tf'.filtHidden = tf.filtHidden
    <3>1. State(card.list, 0)' /\ card.list = L
      BY <1>1, <2>1, BootIs
    <3>2. PICK M : M = card.list
      OBVIOUS
    <3> QED  BY <1>1, <2>1, <3>1, <3>2, BootIs
  <2> QED  BY <2>1, <2>2, StateIs, NextStateIs
<1>2. BookInv /\ [TelFiltNext]_telFiltVars =>
        [Boot /\ saved => /\ Book(tf') = Book(tf)
                          /\ tf'.mode = tf.mode /\ tf'.filtHidden = tf.filtHidden]_telFiltVars
  BY <1>1
<1> QED  BY <1>2, BookInvHolds, PTL DEF TelFiltSpec, BootRestoresBook

\* A step as PhoneBook sees it.
LEMMA MapsTo ==
  ASSUME NEW L, NEW k, State(L, k), NEW M, NEW j, State(M, j)'
  PROVE  /\ Book(tf) = L /\ Cur = k /\ Book(tf)' = M /\ Cur' = j
         /\ L \in Seq(Numbers) /\ (k = 0 \/ k \in 1..Len(L))
  BY StateIs, NextStateIs

\* tel_filt.h: the array with its cursors implements the list of PhoneBook: a
\* number is added at the end, the one under the cursor is deleted, the cursor
\* moves by one, and what is on the card is the list, what was there before, or
\* the beginning of the list.
THEOREM ArrayIsPhoneBook == TelFiltSpec => ImplementsPhoneBook
<1>1. TelFiltInit => P!Init
  <2> SUFFICES ASSUME TelFiltInit PROVE P!Init
    OBVIOUS
  <2>1. Book(tf) = <<>> /\ Cur = 0 /\ card.list = <<>>
    BY InitIs, StateIs
  <2> QED  BY <2>1 DEF P!Init, Cur
<1>2. BookInv /\ [TelFiltNext]_telFiltVars => [P!Next]_(P!vars)
  <2> SUFFICES ASSUME BookInv, [TelFiltNext]_telFiltVars PROVE [P!Next]_(P!vars)
    OBVIOUS
  <2>1. PICK L, k : State(L, k)
    BY DEF BookInv
  <2>2. ASSUME NEW M, SavesSome(M), State(M, 0)' PROVE P!Save
    <3>1. \A s, t : IsPrefix(s, t) <=> P!IsPrefix(s, t)
      BY DEF IsPrefix, P!IsPrefix
    <3>2. Book(tf)' = M
      BY <2>1, <2>2, MapsTo
    <3> QED  BY <2>2, <3>1, <3>2 DEF P!Save, SavesSome
  <2>3. ASSUME NEW num \in Numbers, Add(num) PROVE P!Next
    <3>1. PICK M \in {L, Append(L, num)} : State(M, 0)' /\ SavesSome(M)
      BY <2>1, <2>3, AddIs
    <3>2. k = 0
      BY <2>1, <2>3, AddIs
    <3>3. Book(tf) = L /\ Cur = 0 /\ Book(tf)' = M /\ Cur' = 0 /\ P!Save
      BY <2>1, <2>2, <3>1, <3>2, MapsTo
    <3>4. CASE M = L
      BY <3>3, <3>4 DEF P!Next, P!Delete, Cur
    <3>5. CASE M = Append(L, num)
      <4>1. P!Add(num)
        BY <3>3, <3>5 DEF P!Add, Cur
      <4> QED  BY <4>1 DEF P!Next
    <3> QED  BY <3>1, <3>4, <3>5
  <2>4. CASE OpenList
    <3>1. UNCHANGED card
      BY <2>4 DEF OpenList
    <3>2. PICK j : j = (IF L = <<>> THEN 0 ELSE 1) /\ State(L, j)'
      BY <2>1, <2>4, OpenListIs
    <3>3. Book(tf) = L /\ Book(tf)' = L /\ Cur' = j
      BY <2>1, <3>2, MapsTo
    <3>4. P!Open
      BY <3>1, <3>2, <3>3 DEF P!Open, Cur
    <3> QED  BY <3>4 DEF P!Next
  <2>5. CASE BrowseUp \/ BrowseDown
    <3>1. UNCHANGED card
      BY <2>5 DEF BrowseUp, BrowseDown, Show
    <3>2. PICK j : /\ State(L, j)' /\ (k = 0 => j = 0)
                   /\ (k # 0 => j = k \/ j \in {k - 1, k + 1} \cap 1..Len(L))
      BY <2>1, <2>5, BrowseUpIs, BrowseDownIs
    <3>3. Book(tf) = L /\ Book(tf)' = L /\ Cur = k /\ Cur' = j
      BY <2>1, <3>2, MapsTo
    <3>4. CASE j = k
      BY <3>1, <3>3, <3>4 DEF P!vars, Cur
    <3>5. CASE j # k
      <4>1. P!Move
        BY <3>1, <3>2, <3>3, <3>5 DEF P!Move, Cur
      <4> QED  BY <4>1 DEF P!Next
    <3> QED  BY <3>4, <3>5
  <2>6. CASE AskDelete \/ Toggle \/ Leave \/ Switch
    <3>1. UNCHANGED card
      BY <2>6 DEF AskDelete, Toggle, Leave, Switch
    <3>2. PICK j \in {0, k} : State(L, j)'
      BY <2>1, <2>6, OtherIs
    <3>3. Book(tf) = L /\ Book(tf)' = L /\ Cur = k /\ Cur' = j
      BY <2>1, <3>2, MapsTo
    <3>4. CASE j = k
      BY <3>1, <3>3, <3>4 DEF P!vars, Cur
    <3>5. CASE j = 0
      <4>1. P!Close
        BY <3>1, <3>3, <3>5 DEF P!Close, Cur
      <4> QED  BY <4>1 DEF P!Next
    <3> QED  BY <3>2, <3>4, <3>5
  <2>7. CASE Delete
    <3>1. PICK M : M = (IF k = 0 THEN L ELSE RemoveAt(L, k)) /\ State(M, 0)' /\ SavesSome(M)
      BY <2>1, <2>7, DeleteIs
    <3>2. Book(tf) = L /\ Cur = k /\ Book(tf)' = M /\ Cur' = 0 /\ P!Save
      BY <2>1, <2>2, <3>1, MapsTo
    <3>3. \A s, i : RemoveAt(s, i) = P!RemoveAt(s, i)
      BY DEF RemoveAt, P!RemoveAt
    <3>4. P!Delete
      BY <3>1, <3>2, <3>3 DEF P!Delete, Cur
    <3> QED  BY <3>4 DEF P!Next
  <2>8. CASE Boot
    <3>1. PICK M : M = card.list /\ State(M, 0)'
      BY <2>1, <2>8, BootIs
    <3>2. card' = card /\ Book(tf)' = M /\ Cur' = 0
      BY <2>1, <2>8, <3>1, MapsTo, BootIs
    <3>3. P!Boot
      BY <3>1, <3>2 DEF P!Boot, Cur
    <3> QED  BY <3>3 DEF P!Next
  <2>9. CASE UNCHANGED telFiltVars
    <3>1. State(L, k)' /\ card' = card
      BY <2>1, <2>9, StutterIs DEF telFiltVars
    <3>2. Book(tf) = L /\ Book(tf)' = L /\ Cur = k /\ Cur' = k
      BY <2>1, <3>1, MapsTo
    <3> QED  BY <3>1, <3>2 DEF P!vars, Cur
  <2> QED  BY <2>3, <2>4, <2>5, <2>6, <2>7, <2>8, <2>9 DEF TelFiltNext
<1> QED  BY <1>1, <1>2, BookInvHolds, PTL DEF TelFiltSpec, ImplementsPhoneBook, P!Spec
================================================================================
