-------------------------------- MODULE CidProofs --------------------------------
(***************************************************************************)
(* Theorems about Cid, for all sizes of a byte, the seizure and the buffer,*)
(* and about CidMsg, for all codes, lengths and bytes of the messages.     *)
(***************************************************************************)
EXTENDS MCCid, Induction, SequenceTheorems

--------------------------------------------------------------------------------
(* Sums of bytes.                                                          *)

\* u[j] is the sum of the first j bytes of t.
AddsUp(u, t) == u = [j \in 0..Len(t) |-> IF j = 0 THEN 0 ELSE u[j - 1] + t[j]]

\* The function that BytesSum is written with exists.
LEMMA SumIsDefined ==
  ASSUME NEW t \in Seq(Bytes)
  PROVE  \E u : AddsUp(u, t) /\ BytesSum(t) = u[Len(t)]
<1> DEFINE Sums(u, n) == u = [j \in 0..n |-> IF j = 0 THEN 0 ELSE u[j - 1] + t[j]]
           S == {n \in Nat : \E u : Sums(u, n)}
<1>1. 0 \in S
  <2> DEFINE u == [j \in 0..0 |-> 0]
  <2>1. Sums(u, 0)
    OBVIOUS
  <2> QED  BY <2>1
<1>2. ASSUME NEW n \in Nat, n \in S PROVE n + 1 \in S
  <2>1. PICK u : Sums(u, n)
    BY <1>2
  <2> DEFINE v == [j \in 0..n+1 |-> IF j = n + 1 THEN u[n] + t[n + 1] ELSE u[j]]
  <2>2. \A j \in 0..n : v[j] = u[j]
    OBVIOUS
  <2>3. \A j \in 0..n : u[j] = IF j = 0 THEN 0 ELSE u[j - 1] + t[j]
    BY <2>1
  <2>4. ASSUME NEW j \in 0..n+1 PROVE v[j] = IF j = 0 THEN 0 ELSE v[j - 1] + t[j]
    <3>1. CASE j = n + 1
      <4>1. v[j] = u[n] + t[n + 1] /\ j - 1 = n /\ j # 0
        BY <3>1
      <4>2. v[n] = u[n]
        BY <2>2
      <4> QED  BY <3>1, <4>1, <4>2
    <3>2. CASE j # n + 1
      <4>1. j \in 0..n /\ (j # 0 => j - 1 \in 0..n)
        BY <3>2
      <4> HIDE DEF v
      <4> QED  BY <2>2, <2>3, <4>1
    <3> QED  BY <3>1, <3>2
  <2>5. v = [j \in 0..n+1 |-> v[j]]
    OBVIOUS
  <2>6. Sums(v, n + 1)
    <3> HIDE DEF v
    <3> QED  BY <2>4, <2>5
  <2> HIDE DEF v, Sums
  <2> QED  BY <2>6
<1>3. Len(t) \in S
  <2>1. Nat \subseteq S
    <3> HIDE DEF S
    <3> QED  BY <1>1, <1>2, SetInduction
  <2> HIDE DEF S
  <2> QED  BY <2>1
<1> DEFINE upTo == CHOOSE u : Sums(u, Len(t))
<1>4. Sums(upTo, Len(t))
  BY <1>3
<1>5. BytesSum(t) = upTo[Len(t)]
  BY DEF BytesSum
<1> HIDE DEF upTo
<1> QED  BY <1>4, <1>5 DEF AddsUp

\* A byte more adds its value.
LEMMA SumOfMore ==
  ASSUME NEW t \in Seq(Bytes), NEW b \in Bytes
  PROVE  BytesSum(t) \in Nat /\ BytesSum(Append(t, b)) = BytesSum(t) + b
<1> DEFINE w == Append(t, b)
<1>1. w \in Seq(Bytes) /\ Len(w) = Len(t) + 1 /\ w[Len(t) + 1] = b /\ Len(t) \in Nat
      /\ \A j \in 1..Len(t) : w[j] = t[j]
  OBVIOUS
<1>2. PICK u : AddsUp(u, t) /\ BytesSum(t) = u[Len(t)]
  BY SumIsDefined
<1>3. PICK v : AddsUp(v, w) /\ BytesSum(w) = v[Len(w)]
  BY <1>1, SumIsDefined
<1> HIDE DEF w
<1>4. /\ u[0] = 0 /\ \A j \in 1..Len(t) : u[j] = u[j - 1] + t[j]
      /\ v[0] = 0 /\ \A j \in 1..Len(t)+1 : v[j] = v[j - 1] + w[j]
  <2>1. u = [j \in 0..Len(t) |-> IF j = 0 THEN 0 ELSE u[j - 1] + t[j]]
    BY <1>2 DEF AddsUp
  <2>2. v = [j \in 0..Len(t)+1 |-> IF j = 0 THEN 0 ELSE v[j - 1] + w[j]]
    BY <1>1, <1>3 DEF AddsUp
  <2>3. u[0] = 0 /\ \A j \in 1..Len(t) : u[j] = u[j - 1] + t[j]
    BY <1>1, <2>1
  <2>4. v[0] = 0 /\ \A j \in 1..Len(t)+1 : v[j] = v[j - 1] + w[j]
    BY <1>1, <2>2
  <2> QED  BY <2>3, <2>4
<1> DEFINE S == {n \in Nat : n <= Len(t) => u[n] \in Nat /\ v[n] = u[n]}
<1>5. 0 \in S
  BY <1>4
<1>6. ASSUME NEW n \in Nat, n \in S PROVE n + 1 \in S
  <2> SUFFICES ASSUME n + 1 <= Len(t) PROVE u[n + 1] \in Nat /\ v[n + 1] = u[n + 1]
    OBVIOUS
  <2>1. n + 1 \in 1..Len(t) /\ n + 1 \in 1..Len(t)+1 /\ n + 1 - 1 = n
    BY <1>1
  <2>2. u[n] \in Nat /\ v[n] = u[n]
    BY <1>1, <1>6
  <2>3. u[n + 1] = u[n] + t[n + 1] /\ v[n + 1] = v[n] + w[n + 1] /\ w[n + 1] = t[n + 1]
    BY <1>1, <1>4, <2>1
  <2>4. t[n + 1] \in Nat
    <3>1. t[n + 1] \in Bytes
      BY <2>1
    <3> QED  BY <3>1, CidAssumption DEF Bytes
  <2> QED  BY <2>2, <2>3, <2>4
<1>7. Len(t) \in S
  <2>1. Nat \subseteq S
    <3> HIDE DEF S
    <3> QED  BY <1>5, <1>6, SetInduction
  <2> HIDE DEF S
  <2> QED  BY <1>1, <2>1
<1>8. u[Len(t)] \in Nat /\ v[Len(t)] = u[Len(t)]
  BY <1>1, <1>7
<1>9. v[Len(t) + 1] = v[Len(t)] + b
  <2>1. Len(t) + 1 \in 1..Len(t)+1 /\ Len(t) + 1 - 1 = Len(t)
    BY <1>1
  <2> QED  BY <1>1, <1>4, <2>1
<1> QED  BY <1>1, <1>2, <1>3, <1>8, <1>9 DEF w

\* A byte has a sum, too.
LEMMA SumOfOne == ASSUME NEW b \in Bytes PROVE BytesSum(<<b>>) = b
<1>1. <<>> \in Seq(Bytes) /\ Append(<<>>, b) = <<b>> /\ Len(<<>>) = 0
  OBVIOUS
<1>2. BytesSum(<<>>) = 0
  <2>1. PICK u : AddsUp(u, <<>>) /\ BytesSum(<<>>) = u[Len(<<>>)]
    BY <1>1, SumIsDefined
  <2> QED  BY <1>1, <2>1 DEF AddsUp
<1>3. BytesSum(<<b>>) = 0 + b
  BY <1>1, <1>2, SumOfMore
<1> QED  BY <1>3 DEF Bytes

\* The checksum may be taken modulo the size of a byte at every step.
LEMMA SumModulo ==
  ASSUME NEW x \in Nat, NEW b \in Nat
  PROVE  ((x % ByteSize) + b) % ByteSize = (x + b) % ByteSize
<1>1. ByteSize \in Nat /\ ByteSize > 0
  BY CidAssumption
<1>2. ASSUME NEW q \in Nat, NEW r \in Nat, NEW z \in Nat, r < ByteSize, z = ByteSize * q + r
      PROVE  z % ByteSize = r
  BY <1>1, <1>2
<1>3. ASSUME NEW z \in Nat
      PROVE  /\ z % ByteSize \in 0..ByteSize-1 /\ z \div ByteSize \in Nat
             /\ z = ByteSize * (z \div ByteSize) + (z % ByteSize)
  <2>1. z % ByteSize \in 0..ByteSize-1
    BY <1>1
  <2>2. z \div ByteSize \in Nat
    BY <1>1
  <2>3. z = ByteSize * (z \div ByteSize) + (z % ByteSize)
    BY <1>1
  <2> QED  BY <2>1, <2>2, <2>3
<1> DEFINE y == (x % ByteSize) + b
           p == x \div ByteSize
           q == y \div ByteSize
<1>4. /\ y \in Nat /\ p \in Nat /\ q \in Nat
      /\ x + b = ByteSize * p + y
      /\ y = ByteSize * q + (y % ByteSize)
      /\ y % ByteSize \in Nat /\ y % ByteSize < ByteSize
  <2>1. x % ByteSize \in Nat /\ p \in Nat /\ x = ByteSize * p + (x % ByteSize)
    BY <1>1, <1>3
  <2>2. y \in Nat
    BY <2>1
  <2>3. /\ q \in Nat /\ y = ByteSize * q + (y % ByteSize)
        /\ y % ByteSize \in Nat /\ y % ByteSize < ByteSize
    <3> HIDE DEF y
    <3> QED  BY <1>1, <1>3, <2>2
  <2>4. ByteSize * p \in Nat
    BY <1>1, <2>1
  <2>5. x + b = ByteSize * p + y
    <3> HIDE DEF p
    <3> QED  BY <2>1, <2>4
  <2> HIDE DEF y, p, q
  <2> QED  BY <2>1, <2>2, <2>3, <2>5
<1> HIDE DEF y, p, q
<1>5. x + b = ByteSize * (p + q) + (y % ByteSize) /\ p + q \in Nat /\ x + b \in Nat
  <2>1. ByteSize * (p + q) = ByteSize * p + ByteSize * q /\ ByteSize * p \in Nat /\ ByteSize * q \in Nat
    BY <1>1, <1>4
  <2> QED  BY <1>4, <2>1
<1>6. (x + b) % ByteSize = y % ByteSize
  BY <1>2, <1>4, <1>5
<1> QED  BY <1>6 DEF y

--------------------------------------------------------------------------------
(* What the bytes so far can be.                                           *)

\* Nothing that may become a frame.
Dead(f) ==
  /\ ~Seizes(f)
  /\ \A n, m \in Nat : ~IsWrong(f, n, m)
  /\ \A h \in Nat : ~Headed(f, h)

\* The sequence with another byte.
LEMMA Appended ==
  ASSUME NEW f \in Seq(Bytes), NEW b \in Bytes
  PROVE  LET g == Append(f, b) IN
         /\ g \in Seq(Bytes) /\ Len(f) \in Nat /\ Len(g) = Len(f) + 1
         /\ DOMAIN f = 1..Len(f) /\ DOMAIN g = 1..Len(g)
         /\ g[Len(f) + 1] = b /\ \A i \in 1..Len(f) : g[i] = f[i]
  OBVIOUS

\* The seizure, the wrong bytes and the message types end where they end.
LEMMA HeaderIsLeast ==
  ASSUME NEW f \in Seq(Bytes),
         NEW n \in Nat, NEW m \in Nat, NEW r \in Nat, Header(f, n, m, r),
         NEW p \in Nat, NEW q \in Nat, NEW s \in Nat, Header(f, p, q, s)
  PROVE  ~(n < p) /\ (n = p => ~(m < q)) /\ (n = p /\ m = q => ~(r < s))
<1>1. Len(f) \in Nat /\ CID_SEIZURE_CHR # CID_CALL_SETUP
  BY CidAssumption
<1>2. ASSUME n < p PROVE FALSE
  <2>1. n + 1 \in 1..p
    BY <1>2
  <2> QED  BY <2>1 DEF Header
<1>3. ASSUME n = p, m < q PROVE FALSE
  <2>1. n + m + 1 \in p+1..p+q /\ n + m + 1 \in n+m+1..n+m+r
    BY <1>3 DEF Header
  <2> QED  BY <2>1 DEF Header
<1>4. ASSUME n = p, m = q, r < s PROVE FALSE
  <2>1. n + m + r + 1 \in p+q+1..p+q+s /\ n + m + r < p + q + s
    BY <1>4
  <2>2. Len(f) > n + m + r
    BY <1>1, <2>1 DEF Header
  <2> QED  BY <2>1, <2>2 DEF Header
<1> QED  BY <1>2, <1>3, <1>4

\* The parts of a header.
LEMMA HeadedHas ==
  ASSUME NEW f, NEW h \in Nat, Headed(f, h)
  PROVE  \E n, m, r \in Nat : Header(f, n, m, r) /\ n + m + r = h
<1>1. PICK n, m \in 0..h : Header(f, n, m, h - n - m)
  BY DEF Headed
<1>2. h - n - m \in Nat
  BY <1>1 DEF Header
<1>3. n + m + (h - n - m) = h
  BY <1>1
<1> QED  BY <1>1, <1>2, <1>3

\* The parts make a header.
LEMMA HeaderMakes ==
  ASSUME NEW f, NEW n \in Nat, NEW m \in Nat, NEW r \in Nat, Header(f, n, m, r)
  PROVE  Headed(f, n + m + r)
<1>1. n \in 0..n+m+r /\ m \in 0..n+m+r /\ (n + m + r) - n - m = r
  OBVIOUS
<1> QED  BY <1>1 DEF Headed

\* A sequence has one header.
LEMMA HeadedIsUnique ==
  ASSUME NEW f \in Seq(Bytes), NEW h \in Nat, Headed(f, h), NEW g \in Nat, Headed(f, g)
  PROVE  h = g
<1>1. PICK n, m, r \in Nat : Header(f, n, m, r) /\ n + m + r = h
  BY HeadedHas
<1>2. PICK p, q, s \in Nat : Header(f, p, q, s) /\ p + q + s = g
  BY HeadedHas
<1>3. n = p
  BY <1>1, <1>2, HeaderIsLeast
<1>4. m = q
  BY <1>1, <1>2, <1>3, HeaderIsLeast
<1>5. r = s
  BY <1>1, <1>2, <1>3, <1>4, HeaderIsLeast
<1> QED  BY <1>1, <1>2, <1>3, <1>4, <1>5

\* With a header, it is neither of the others.
LEMMA HeadedIsNoOther ==
  ASSUME NEW f \in Seq(Bytes), NEW h \in Nat, Headed(f, h)
  PROVE  h \in 1..Len(f) /\ ~Seizes(f) /\ \A n, m \in Nat : ~IsWrong(f, n, m)
<1>1. PICK n, m, r \in Nat : Header(f, n, m, r) /\ n + m + r = h
  BY HeadedHas
<1>2. h \in 1..Len(f) /\ n + 1 \in 1..Len(f) /\ n + m + 1 \in n+m+1..n+m+r
  BY <1>1 DEF Header
<1>3. ~Seizes(f)
  BY <1>1, <1>2 DEF Header, Seizes
<1>4. ASSUME NEW p \in Nat, NEW q \in Nat, IsWrong(f, p, q) PROVE FALSE
  <2>1. ~(n < p)
    <3> SUFFICES ASSUME n < p PROVE FALSE
      OBVIOUS
    <3>1. n + 1 \in 1..p
      OBVIOUS
    <3> QED  BY <1>1, <1>4, <3>1 DEF Header, IsWrong
  <2>2. ~(p < n)
    <3> SUFFICES ASSUME p < n PROVE FALSE
      OBVIOUS
    <3>1. p + 1 \in 1..n
      OBVIOUS
    <3> QED  BY <1>1, <1>4, <3>1 DEF Header, IsWrong
  <2>3. n + m + 1 \in p+1..p+q
    BY <1>1, <1>2, <1>4, <2>1, <2>2 DEF IsWrong
  <2> QED  BY <1>1, <1>2, <1>4, <2>3 DEF Header, IsWrong
<1> QED  BY <1>2, <1>3, <1>4

\* A byte after the header, or in it.
LEMMA HeadedGrows ==
  ASSUME NEW f \in Seq(Bytes), NEW b \in Bytes, NEW h \in Nat, Headed(f, h)
  PROVE  /\ h < Len(f) => Headed(Append(f, b), h)
         /\ h = Len(f) /\ b # CID_CALL_SETUP => Headed(Append(f, b), h)
         /\ h = Len(f) /\ b = CID_CALL_SETUP => Headed(Append(f, b), h + 1)
<1> DEFINE g == Append(f, b)
<1>1. PICK n, m, r \in Nat : Header(f, n, m, r) /\ n + m + r = h
  BY HeadedHas
<1>2. /\ Len(f) \in Nat /\ Len(g) = Len(f) + 1
      /\ g[Len(f) + 1] = b /\ \A i \in 1..Len(f) : g[i] = f[i]
  BY Appended
<1> HIDE DEF g
<1>3. /\ r >= 1 /\ h <= Len(f) /\ n + 1 \in 1..Len(f)
      /\ \A i \in 1..n : i \in 1..Len(f)
      /\ \A i \in n+1..n+m : i \in 1..Len(f)
      /\ \A i \in n+m+1..n+m+r : i \in 1..Len(f)
  BY <1>1, <1>2 DEF Header
<1>4. /\ \A i \in 1..n : g[i] = CID_SEIZURE_CHR
      /\ g[n + 1] # CID_SEIZURE_CHR
      /\ \A i \in n+1..n+m : g[i] # CID_CALL_SETUP
      /\ \A i \in n+m+1..n+m+r : g[i] = CID_CALL_SETUP
      /\ n >= CID_SEIZURE_BYTES /\ m <= CID_MAX_WRONG_MSG_TYPE
  BY <1>1, <1>2, <1>3 DEF Header
<1>5. CASE h < Len(f) \/ (h = Len(f) /\ b # CID_CALL_SETUP)
  <2>1. g[n + m + r + 1] # CID_CALL_SETUP
    <3>1. CASE h < Len(f)
      <4>1. n + m + r + 1 \in 1..Len(f) /\ f[n + m + r + 1] # CID_CALL_SETUP
        BY <1>1, <1>2, <3>1 DEF Header
      <4> QED  BY <1>2, <4>1
    <3>2. CASE h = Len(f) /\ b # CID_CALL_SETUP
      BY <1>1, <1>2, <3>2
    <3> QED  BY <1>5, <3>1, <3>2
  <2>2. n + m + r <= Len(g)
    BY <1>1, <1>2, <1>3
  <2>3. Header(g, n, m, r)
    BY <1>3, <1>4, <2>1, <2>2 DEF Header
  <2>4. Headed(g, h)
    BY <1>1, <2>3, HeaderMakes
  <2> QED  BY <1>5, <2>4 DEF g
<1>6. CASE h = Len(f) /\ b = CID_CALL_SETUP
  <2>1. \A i \in n+m+1..n+m+(r+1) : g[i] = CID_CALL_SETUP
    <3> SUFFICES ASSUME NEW i \in n+m+1..n+m+(r+1) PROVE g[i] = CID_CALL_SETUP
      OBVIOUS
    <3>1. i \in n+m+1..n+m+r \/ i = Len(f) + 1
      BY <1>1, <1>6
    <3> QED  BY <1>2, <1>4, <1>6, <3>1
  <2>2. n + m + (r + 1) = Len(g) /\ r + 1 >= 1 /\ r + 1 \in Nat
    BY <1>1, <1>2, <1>6
  <2>3. Header(g, n, m, r + 1)
    BY <1>2, <1>4, <2>1, <2>2 DEF Header
  <2>4. Headed(g, n + m + (r + 1))
    BY <2>2, <2>3, HeaderMakes
  <2>5. n + m + (r + 1) = h + 1
    BY <1>1
  <2> QED  BY <1>6, <2>4, <2>5 DEF g
<1> QED  BY <1>5, <1>6 DEF g

\* A byte after some wrong bytes.
LEMMA WrongGrows ==
  ASSUME NEW f \in Seq(Bytes), NEW b \in Bytes, NEW n \in Nat, NEW m \in Nat, IsWrong(f, n, m)
  PROVE  /\ b = CID_CALL_SETUP => Headed(Append(f, b), Len(f) + 1)
         /\ b # CID_CALL_SETUP /\ m < CID_MAX_WRONG_MSG_TYPE => IsWrong(Append(f, b), n, m + 1)
         /\ b # CID_CALL_SETUP /\ ~(m < CID_MAX_WRONG_MSG_TYPE) => Dead(Append(f, b))
<1> DEFINE g == Append(f, b)
<1>1. /\ g \in Seq(Bytes) /\ Len(f) \in Nat /\ Len(g) = Len(f) + 1 /\ DOMAIN g = 1..Len(g)
      /\ g[Len(f) + 1] = b /\ \A i \in 1..Len(f) : g[i] = f[i]
  BY Appended
<1> HIDE DEF g
<1>2. /\ n >= CID_SEIZURE_BYTES /\ m \in 1..CID_MAX_WRONG_MSG_TYPE /\ n + m = Len(f)
      /\ n + 1 \in 1..Len(f)
      /\ \A i \in 1..n : i \in 1..Len(f)
      /\ \A i \in n+1..n+m : i \in 1..Len(f)
      /\ CID_MAX_WRONG_MSG_TYPE \in Nat
  BY <1>1, CidAssumption DEF IsWrong
<1>3. /\ \A i \in 1..n : g[i] = CID_SEIZURE_CHR
      /\ g[n + 1] # CID_SEIZURE_CHR
      /\ \A i \in n+1..n+m : g[i] # CID_CALL_SETUP
  BY <1>1, <1>2 DEF IsWrong
<1>4. CASE b = CID_CALL_SETUP
  <2>1. \A i \in n+m+1..n+m+1 : g[i] = CID_CALL_SETUP
    BY <1>1, <1>2, <1>4
  <2>2. Header(g, n, m, 1)
    BY <1>1, <1>2, <1>3, <2>1 DEF Header
  <2>3. Headed(g, n + m + 1)
    BY <2>2, HeaderMakes
  <2> QED  BY <1>2, <1>4, <2>3 DEF g
<1>5. CASE b # CID_CALL_SETUP
  <2>1. \A i \in n+1..n+(m+1) : g[i] # CID_CALL_SETUP
    <3> SUFFICES ASSUME NEW i \in n+1..n+(m+1) PROVE g[i] # CID_CALL_SETUP
      OBVIOUS
    <3>1. i \in n+1..n+m \/ i = Len(f) + 1
      BY <1>2
    <3> QED  BY <1>1, <1>3, <1>5, <3>1
  <2>2. CASE m < CID_MAX_WRONG_MSG_TYPE
    <3>1. n + (m + 1) = Len(g) /\ m + 1 \in 1..CID_MAX_WRONG_MSG_TYPE
      BY <1>1, <1>2, <2>2
    <3>2. IsWrong(g, n, m + 1)
      BY <1>2, <1>3, <2>1, <3>1 DEF IsWrong
    <3> QED  BY <1>5, <2>2, <3>2 DEF g
  <2>3. CASE ~(m < CID_MAX_WRONG_MSG_TYPE)
    <3>1. ~Seizes(g)
      BY <1>1, <1>2, <1>3 DEF Seizes
    <3>2. ASSUME NEW p \in Nat, NEW q \in Nat, IsWrong(g, p, q) PROVE FALSE
      <4>1. p + q = n + m + 1 /\ q <= m
        BY <1>1, <1>2, <2>3, <3>2 DEF IsWrong
      <4>2. n + 1 \in 1..p
        BY <4>1
      <4> QED  BY <1>3, <3>2, <4>2 DEF IsWrong
    <3>3. ASSUME NEW h \in Nat, Headed(g, h) PROVE FALSE
      <4>1. PICK p, q, r \in Nat : Header(g, p, q, r) /\ p + q + r = h
        BY <3>3, HeadedHas
      <4>2. ~(n < p)
        <5> SUFFICES ASSUME n < p PROVE FALSE
          OBVIOUS
        <5>1. n + 1 \in 1..p
          OBVIOUS
        <5> QED  BY <1>3, <4>1, <5>1 DEF Header
      <4>3. p + q + 1 \in p+q+1..p+q+r /\ p + q + 1 <= Len(g) /\ r >= 1
        BY <1>1, <4>1 DEF Header
      <4>4. ~(p < n)
        <5> SUFFICES ASSUME p < n PROVE FALSE
          OBVIOUS
        <5>1. p + 1 \in 1..n
          OBVIOUS
        <5> QED  BY <1>3, <4>1, <5>1 DEF Header
      <4>5. p + q + 1 \in n+1..n+(m+1)
        BY <1>1, <1>2, <4>2, <4>3, <4>4
      <4> QED  BY <2>1, <4>1, <4>3, <4>5 DEF Header
    <3>4. Dead(g)
      BY <3>1, <3>2, <3>3 DEF Dead
    <3> QED  BY <1>5, <2>3, <3>4 DEF g
  <2> QED  BY <2>2, <2>3
<1> QED  BY <1>4, <1>5

\* A byte after some seizure bytes, or the first byte.
LEMMA SeizureGrows ==
  ASSUME NEW f \in Seq(Bytes), NEW b \in Bytes, Seizes(f)
  PROVE  LET g == Append(f, b) IN
         IF b = CID_SEIZURE_CHR THEN Seizes(g)
         ELSE IF Len(f) < CID_SEIZURE_BYTES THEN Dead(g)
         ELSE IF b = CID_CALL_SETUP THEN Headed(g, Len(f) + 1)
         ELSE IsWrong(g, Len(f), 1)
<1> DEFINE g == Append(f, b)
           n == Len(f)
<1>1. /\ g \in Seq(Bytes) /\ n \in Nat /\ Len(g) = n + 1 /\ DOMAIN g = 1..n+1 /\ DOMAIN f = 1..n
      /\ g[n + 1] = b /\ \A i \in 1..n : g[i] = f[i]
  BY Appended
<1> HIDE DEF g, n
<1>2. \A i \in 1..n : g[i] = CID_SEIZURE_CHR
  BY <1>1 DEF Seizes
<1>3. CASE b = CID_SEIZURE_CHR
  <2>1. \A i \in 1..n+1 : g[i] = CID_SEIZURE_CHR
    BY <1>1, <1>2, <1>3
  <2>2. Seizes(g)
    BY <1>1, <2>1 DEF Seizes
  <2> QED  BY <1>3, <2>2 DEF g
<1>4. CASE b # CID_SEIZURE_CHR /\ n < CID_SEIZURE_BYTES
  <2>1. ~Seizes(g)
    <3>1. n + 1 \in 1..n+1
      BY <1>1
    <3> QED  BY <1>1, <1>4, <3>1 DEF Seizes
  <2>2. ASSUME NEW p \in Nat, p >= CID_SEIZURE_BYTES, \A i \in 1..p : g[i] = CID_SEIZURE_CHR
        PROVE  FALSE
    <3>1. CID_SEIZURE_BYTES \in Nat
      BY CidAssumption
    <3>2. n + 1 \in 1..p
      BY <1>1, <1>4, <2>2, <3>1
    <3> QED  BY <1>1, <1>4, <2>2, <3>2
  <2>3. \A p, q \in Nat : ~IsWrong(g, p, q)
    BY <2>2 DEF IsWrong
  <2>4. ASSUME NEW h \in Nat, Headed(g, h) PROVE FALSE
    <3>1. PICK p, q, r \in Nat : Header(g, p, q, r) /\ p + q + r = h
      BY <2>4, HeadedHas
    <3> QED  BY <2>2, <3>1 DEF Header
  <2>5. Dead(g)
    BY <2>1, <2>3, <2>4 DEF Dead
  <2> QED  BY <1>4, <2>5 DEF g, n
<1>5. CASE b # CID_SEIZURE_CHR /\ ~(n < CID_SEIZURE_BYTES)
  <2>1. n >= CID_SEIZURE_BYTES /\ CID_MAX_WRONG_MSG_TYPE \in Nat /\ CID_MAX_WRONG_MSG_TYPE >= 1
    BY <1>1, <1>5, CidAssumption
  <2>2. CASE b = CID_CALL_SETUP
    <3>1. \A i \in n+0+1..n+0+1 : g[i] = CID_CALL_SETUP
      BY <1>1, <2>2
    <3>2. Header(g, n, 0, 1)
      BY <1>1, <1>2, <1>5, <2>1, <3>1 DEF Header
    <3>3. Headed(g, n + 0 + 1)
      BY <1>1, <3>2, HeaderMakes
    <3>4. n + 0 + 1 = n + 1
      BY <1>1
    <3> QED  BY <1>5, <2>2, <3>3, <3>4 DEF g, n
  <2>3. CASE b # CID_CALL_SETUP
    <3>1. \A i \in n+1..n+1 : g[i] # CID_CALL_SETUP
      BY <1>1, <2>3
    <3>2. 1 \in 1..CID_MAX_WRONG_MSG_TYPE
      BY <2>1
    <3>3. IsWrong(g, n, 1)
      BY <1>1, <1>2, <1>5, <2>1, <3>1, <3>2 DEF IsWrong
    <3> QED  BY <1>5, <2>3, <3>3 DEF g, n
  <2> QED  BY <2>2, <2>3
<1> QED  BY <1>3, <1>4, <1>5 DEF n

\* What Byte makes of the bytes so far.
Kept(f) == IF Viable(f) /\ (IsFrame(f) \/ Tails(f) = {}) THEN f ELSE <<>>

\* The tail that a header leaves.
LEMMA TailsOfHeaded ==
  ASSUME NEW f \in Seq(Bytes), NEW h \in Nat, Headed(f, h)
  PROVE  Tails(f) = IF Len(f) > h /\ Len(f) = h + 2 + f[h + 1]
                    THEN {SubSeq(f, h + 1, Len(f))} ELSE {}
<1>1. Len(f) \in Nat
  OBVIOUS
<1>2. \A g \in 0..Len(f)-1 : Headed(f, g) => g = h
  BY HeadedIsUnique
<1>3. Len(f) > h => h \in 0..Len(f)-1
  BY <1>1
<1> DEFINE G == {g \in 0..Len(f)-1 : Headed(f, g) /\ Len(f) = g + 2 + f[g + 1]}
<1>4. Tails(f) = {SubSeq(f, g + 1, Len(f)) : g \in G}
  BY DEF Tails
<1>5. CASE Len(f) > h /\ Len(f) = h + 2 + f[h + 1]
  <2>1. G = {h}
    BY <1>2, <1>3, <1>5
  <2> HIDE DEF G
  <2> QED  BY <1>4, <1>5, <2>1
<1>6. CASE ~(Len(f) > h /\ Len(f) = h + 2 + f[h + 1])
  <2>1. G = {}
    <3> SUFFICES ASSUME NEW g \in G PROVE FALSE
      OBVIOUS
    <3>1. g = h /\ g <= Len(f) - 1 /\ Len(f) = g + 2 + f[g + 1]
      BY <1>2
    <3> QED  BY <1>1, <1>6, <3>1
  <2> HIDE DEF G
  <2> QED  BY <1>4, <1>6, <2>1
<1> QED  BY <1>5, <1>6

\* What is kept of bytes without a header.
LEMMA KeptUnheaded ==
  ASSUME NEW f \in Seq(Bytes)
  PROVE  /\ Dead(f) => Kept(f) = <<>>
         /\ Seizes(f) => Kept(f) = f /\ ~IsFrame(f)
         /\ \A n, m \in Nat : IsWrong(f, n, m) => Kept(f) = f /\ ~IsFrame(f)
<1>1. Len(f) \in Nat
  OBVIOUS
<1>2. ASSUME Dead(f) PROVE Kept(f) = <<>>
  <2>1. \A n \in 0..Len(f) : n \in Nat
    BY <1>1
  <2>2. ~Viable(f)
    BY <1>2, <2>1 DEF Dead, Viable
  <2> QED  BY <2>2 DEF Kept
<1>3. ASSUME \A h \in Nat : ~Headed(f, h) PROVE Tails(f) = {} /\ ~IsFrame(f)
  <2>1. \A h \in 0..Len(f)-1 : h \in Nat
    BY <1>1
  <2>2. Tails(f) = {}
    BY <1>3, <2>1 DEF Tails
  <2> QED  BY <2>2 DEF IsFrame
<1>4. ASSUME Seizes(f) PROVE Kept(f) = f /\ ~IsFrame(f)
  <2>1. \A h \in Nat : ~Headed(f, h)
    BY <1>4, HeadedIsNoOther
  <2> QED  BY <1>3, <1>4, <2>1 DEF Kept, Viable
<1>5. ASSUME NEW n \in Nat, NEW m \in Nat, IsWrong(f, n, m) PROVE Kept(f) = f /\ ~IsFrame(f)
  <2>1. \A h \in Nat : ~Headed(f, h)
    BY <1>5, HeadedIsNoOther
  <2>2. n \in 0..Len(f) /\ m \in 0..Len(f)
    BY <1>1, <1>5 DEF IsWrong
  <2>3. Viable(f)
    BY <1>5, <2>2 DEF Viable
  <2> QED  BY <1>3, <2>1, <2>3 DEF Kept
<1> QED  BY <1>2, <1>4, <1>5

\* What is kept of bytes with one.
LEMMA KeptHeaded ==
  ASSUME NEW f \in Seq(Bytes), NEW h \in Nat, Headed(f, h)
  PROVE  /\ Len(f) = h => Kept(f) = f /\ ~IsFrame(f)
         /\ Len(f) > h /\ f[h + 1] > CID_BUFLEN => Kept(f) = <<>>
         /\ Len(f) > h /\ f[h + 1] <= CID_BUFLEN /\ Len(f) < h + 2 + f[h + 1]
              => Kept(f) = f /\ ~IsFrame(f)
         /\ Len(f) > h /\ f[h + 1] <= CID_BUFLEN /\ Len(f) = h + 2 + f[h + 1]
              => LET t == SubSeq(f, h + 1, Len(f))
                     ok == (CID_CALL_SETUP + BytesSum(t)) % ByteSize = 0
                 IN  Tails(f) = {t} /\ IsFrame(f) = ok /\ Kept(f) = IF ok THEN f ELSE <<>>
<1>1. Len(f) \in Nat /\ h \in 0..Len(f) /\ CID_BUFLEN \in Nat
  BY HeadedIsNoOther, CidAssumption
<1>2. Len(f) > h => f[h + 1] \in Nat
  <2> SUFFICES ASSUME Len(f) > h PROVE f[h + 1] \in Nat
    OBVIOUS
  <2>1. h + 1 \in 1..Len(f)
    BY <1>1
  <2>2. f[h + 1] \in Bytes
    BY <2>1
  <2> QED  BY <2>2, CidAssumption DEF Bytes
<1> DEFINE Fits == Len(f) > h => f[h + 1] <= CID_BUFLEN /\ Len(f) <= h + 2 + f[h + 1]
           t == SubSeq(f, h + 1, Len(f))
           Whole == Len(f) > h /\ Len(f) = h + 2 + f[h + 1]
<1>3. Viable(f) = Fits
  <2>1. ~Seizes(f) /\ \A n, m \in 0..Len(f) : ~IsWrong(f, n, m)
    BY <1>1, HeadedIsNoOther
  <2>2. \A g \in 0..Len(f) : Headed(f, g) => g = h
    BY HeadedIsUnique
  <2> QED  BY <1>1, <2>1, <2>2 DEF Viable
<1>4. Tails(f) = IF Whole THEN {t} ELSE {}
  BY TailsOfHeaded
<1>5. ~Whole => Tails(f) = {} /\ ~IsFrame(f) /\ Kept(f) = IF Fits THEN f ELSE <<>>
  <2> HIDE DEF Whole, t, Fits
  <2> QED  BY <1>3, <1>4 DEF IsFrame, Kept
<1>6. Whole => /\ Tails(f) = {t} /\ IsFrame(f) = ((CID_CALL_SETUP + BytesSum(t)) % ByteSize = 0)
               /\ Kept(f) = IF Fits /\ (CID_CALL_SETUP + BytesSum(t)) % ByteSize = 0 THEN f ELSE <<>>
  <2> HIDE DEF Whole, t, Fits
  <2> QED  BY <1>3, <1>4 DEF IsFrame, Kept
<1>7. Len(f) = h => ~Whole /\ Fits
  BY <1>1
<1>8. Len(f) > h /\ f[h + 1] > CID_BUFLEN => ~Fits
  BY <1>1, <1>2
<1>9. Len(f) > h /\ f[h + 1] <= CID_BUFLEN /\ Len(f) < h + 2 + f[h + 1] => ~Whole /\ Fits
  BY <1>1, <1>2
<1>10. Len(f) > h /\ f[h + 1] <= CID_BUFLEN /\ Len(f) = h + 2 + f[h + 1] => Whole /\ Fits
  BY <1>1, <1>2
<1>11. Len(f) > h /\ f[h + 1] > CID_BUFLEN => Kept(f) = <<>>
  <2> HIDE DEF Whole, t, Fits
  <2> QED  BY <1>5, <1>6, <1>8
<1>12. Len(f) > h /\ f[h + 1] <= CID_BUFLEN /\ Len(f) = h + 2 + f[h + 1]
         => /\ Tails(f) = {t} /\ IsFrame(f) = ((CID_CALL_SETUP + BytesSum(t)) % ByteSize = 0)
            /\ Kept(f) = IF (CID_CALL_SETUP + BytesSum(t)) % ByteSize = 0 THEN f ELSE <<>>
  <2> HIDE DEF Whole, t, Fits
  <2> QED  BY <1>6, <1>10
<1>13. /\ Len(f) = h => Kept(f) = f /\ ~IsFrame(f)
       /\ Len(f) > h /\ f[h + 1] <= CID_BUFLEN /\ Len(f) < h + 2 + f[h + 1]
            => Kept(f) = f /\ ~IsFrame(f)
  <2> HIDE DEF Whole, t, Fits
  <2> QED  BY <1>5, <1>7, <1>9
<1> QED  BY <1>11, <1>12, <1>13

\* The tail grows with the bytes.
LEMMA TailGrows ==
  ASSUME NEW f \in Seq(Bytes), NEW b \in Bytes, NEW h \in 0..Len(f)
  PROVE  /\ SubSeq(f, h + 1, Len(f)) \in Seq(Bytes)
         /\ Len(SubSeq(f, h + 1, Len(f))) = Len(f) - h
         /\ \A i \in 1..Len(f)-h : SubSeq(f, h + 1, Len(f))[i] = f[h + i]
         /\ SubSeq(Append(f, b), h + 1, Len(f) + 1) = Append(SubSeq(f, h + 1, Len(f)), b)
<1>1. Len(f) \in Nat /\ h \in Nat /\ h <= Len(f)
  OBVIOUS
<1> DEFINE s == SubSeq(f, h + 1, Len(f))
           g == Append(f, b)
           t == SubSeq(g, h + 1, Len(f) + 1)
<1>2. s \in Seq(Bytes) /\ Len(s) = Len(f) - h /\ \A i \in 1..Len(f)-h : s[i] = f[h + i]
  <2>1. \A i \in h+1..Len(f) : f[i] \in Bytes
    BY <1>1
  <2> QED  BY <1>1, <2>1
<1>3. /\ g \in Seq(Bytes) /\ Len(g) = Len(f) + 1 /\ g[Len(f) + 1] = b
      /\ \A i \in 1..Len(f) : g[i] = f[i]
  BY Appended
<1>4. t \in Seq(Bytes) /\ Len(t) = Len(f) + 1 - h /\ \A i \in 1..Len(f)+1-h : t[i] = g[h + i]
  <2> HIDE DEF g
  <2>1. \A i \in h+1..Len(f)+1 : g[i] \in Bytes
    BY <1>1, <1>3
  <2> QED  BY <1>1, <1>3, <2>1
<1>5. /\ Append(s, b) \in Seq(Bytes) /\ Len(Append(s, b)) = Len(s) + 1
      /\ Append(s, b)[Len(s) + 1] = b /\ \A i \in 1..Len(s) : Append(s, b)[i] = s[i]
  <2> HIDE DEF s
  <2> QED  BY <1>2, Appended
<1> DEFINE u == Append(s, b)
<1>6. ASSUME NEW i \in 1..Len(f)+1-h PROVE t[i] = u[i]
  <2> HIDE DEF s, g, t, u
  <2>1. CASE i = Len(f) + 1 - h
    <3>1. h + i = Len(f) + 1 /\ i = Len(s) + 1
      BY <1>1, <1>2, <2>1
    <3> QED  BY <1>3, <1>4, <1>5, <3>1 DEF u
  <2>2. CASE i # Len(f) + 1 - h
    <3>1. i \in 1..Len(f)-h /\ h + i \in 1..Len(f) /\ i \in 1..Len(s)
      BY <1>1, <1>2, <2>2
    <3> QED  BY <1>2, <1>3, <1>4, <1>5, <3>1 DEF u
  <2> QED  BY <2>1, <2>2
<1>7. t = u
  <2>1. Len(t) = Len(u) /\ Len(t) = Len(f) + 1 - h /\ t \in Seq(Bytes) /\ u \in Seq(Bytes)
    <3> HIDE DEF s, t
    <3> QED  BY <1>1, <1>2, <1>4, <1>5
  <2>2. \A i \in 1..Len(t) : t[i] = u[i]
    <3> HIDE DEF s, g, t, u
    <3> QED  BY <1>6, <2>1
  <2> HIDE DEF s, g, t, u
  <2> QED  BY <2>1, <2>2, SeqEqual
<1> QED  BY <1>2, <1>7

--------------------------------------------------------------------------------
(* The invariant.                                                          *)

LinkType ==
  /\ state \in {"SEIZURE_WAIT", "SEIZURE", "MSG_TYPE", "DATALEN", "DATA"}
  /\ result \in {"CID_OK", "CID_END"}
  /\ idx \in Nat /\ dataLen \in Nat
  /\ buf \in [0..CID_BUFLEN-1 -> Bytes]
  /\ frame \in Seq(Bytes)

\* The header is h bytes long; its length byte and idx more bytes have come.
Receives(h) ==
  /\ Headed(frame, h) /\ Len(frame) = h + 1 + idx
  /\ frame[h + 1] = dataLen /\ idx <= dataLen /\ dataLen <= CID_BUFLEN
  /\ \A i \in 1..idx : buf[i - 1] = frame[h + 1 + i]
  /\ csum = (CID_CALL_SETUP + BytesSum(SubSeq(frame, h + 1, Len(frame)))) % ByteSize

\* What each state of the parser says of the bytes so far.
SearchInv ==
  result = "CID_OK" =>
    /\ state = "SEIZURE_WAIT" => frame = <<>>
    /\ state = "SEIZURE" => Seizes(frame) /\ idx = Len(frame) /\ idx >= 1
    /\ state = "MSG_TYPE" => IsWrong(frame, Len(frame) - idx - 1, idx + 1)
    /\ state = "DATALEN" => Headed(frame, Len(frame)) /\ csum = CID_CALL_SETUP /\ idx = 0
    /\ state = "DATA" => \E h \in Nat : Receives(h)

\* What CID_END says of them.
EndInv ==
  result = "CID_END" =>
    /\ state = "SEIZURE_WAIT" /\ frame # <<>> /\ IsFrame(frame)
    /\ \E t \in Tails(frame) : t[1] = dataLen /\ \A i \in 1..dataLen : buf[i - 1] = t[i + 1]

LinkInv == LinkType /\ SearchInv /\ EndInv

\* A byte while the parser waits for a seizure.
LEMMA SeizureWaitStep ==
  ASSUME LinkInv, NEW b \in Bytes, Byte(b), SeizureWait(b)
  PROVE  LinkInv'
<1> USE DEF LinkInv
<1> DEFINE g == Append(frame, b)
<1>1. /\ result = "CID_OK" /\ state = "SEIZURE_WAIT" /\ frame = <<>>
      /\ result' = "CID_OK" /\ frame' = Kept(g)
  BY DEF Byte, SeizureWait, SearchInv, Ends, Kept
<1>2. /\ frame \in Seq(Bytes) /\ g \in Seq(Bytes) /\ Len(frame) = 0 /\ Len(g) = 1
      /\ CID_SEIZURE_BYTES \in Nat \ {0}
  BY <1>1, Appended, CidAssumption DEF LinkType
<1>3. Seizes(frame)
  BY <1>1 DEF Seizes
<1>4. CASE b = CID_SEIZURE_CHR
  <2>1. Seizes(g)
    BY <1>2, <1>3, <1>4, SeizureGrows
  <2>2. frame' = g
    BY <1>1, <1>2, <2>1, KeptUnheaded
  <2>3. state' = "SEIZURE" /\ idx' = 1 /\ dataLen' = dataLen /\ buf' = buf
    BY <1>4 DEF SeizureWait, Go
  <2> HIDE DEF g
  <2>4. LinkType'
    BY <1>1, <1>2, <2>2, <2>3 DEF LinkType
  <2>5. SearchInv' /\ EndInv'
    BY <1>1, <1>2, <2>1, <2>2, <2>3 DEF SearchInv, EndInv
  <2> QED  BY <2>4, <2>5
<1>5. CASE b # CID_SEIZURE_CHR
  <2>1. Dead(g)
    <3>1. Len(frame) < CID_SEIZURE_BYTES
      BY <1>2
    <3>2. IF Len(frame) < CID_SEIZURE_BYTES THEN Dead(g)
          ELSE IF b = CID_CALL_SETUP THEN Headed(g, Len(frame) + 1) ELSE IsWrong(g, Len(frame), 1)
      BY <1>2, <1>3, <1>5, SeizureGrows
    <3> HIDE DEF g
    <3> QED  BY <3>1, <3>2
  <2>2. frame' = <<>>
    BY <1>1, <1>2, <2>1, KeptUnheaded
  <2>3. state' = "SEIZURE_WAIT" /\ idx' = idx /\ dataLen' = dataLen /\ buf' = buf
    BY <1>5 DEF SeizureWait, Go
  <2>4. LinkType'
    BY <1>1, <2>2, <2>3 DEF LinkType
  <2>5. SearchInv' /\ EndInv'
    BY <1>1, <2>2, <2>3 DEF SearchInv, EndInv
  <2> QED  BY <2>4, <2>5
<1> QED  BY <1>4, <1>5

\* A byte in the seizure.
LEMMA SeizureStep ==
  ASSUME LinkInv, NEW b \in Bytes, Byte(b), Seizure(b)
  PROVE  LinkInv'
<1> USE DEF LinkInv
<1> DEFINE g == Append(frame, b)
<1>1. /\ result = "CID_OK" /\ state = "SEIZURE"
      /\ Seizes(frame) /\ idx = Len(frame) /\ idx >= 1
      /\ result' = "CID_OK" /\ frame' = Kept(g)
  BY DEF Byte, Seizure, SearchInv, Ends, Kept
<1>2. frame \in Seq(Bytes) /\ g \in Seq(Bytes) /\ idx \in Nat /\ Len(g) = idx + 1
  BY <1>1, Appended DEF LinkType
<1>3. IF b = CID_SEIZURE_CHR THEN Seizes(g)
      ELSE IF Len(frame) < CID_SEIZURE_BYTES THEN Dead(g)
      ELSE IF b = CID_CALL_SETUP THEN Headed(g, Len(frame) + 1)
      ELSE IsWrong(g, Len(frame), 1)
  BY <1>1, <1>2, SeizureGrows
<1>4. dataLen' = dataLen /\ buf' = buf
  BY DEF Seizure, Go, CallSetup
<1> HIDE DEF g
<1>5. CASE b = CID_SEIZURE_CHR
  <2>1. Seizes(g) /\ frame' = g
    BY <1>1, <1>2, <1>3, <1>5, KeptUnheaded
  <2>2. state' = "SEIZURE" /\ idx' = idx + 1
    BY <1>5 DEF Seizure, Go
  <2>3. LinkType'
    BY <1>1, <1>2, <1>4, <2>1, <2>2 DEF LinkType
  <2>4. SearchInv' /\ EndInv'
    BY <1>1, <1>2, <2>1, <2>2 DEF SearchInv, EndInv
  <2> QED  BY <2>3, <2>4
<1>6. CASE b # CID_SEIZURE_CHR /\ idx < CID_SEIZURE_BYTES
  <2>1. frame' = <<>>
    BY <1>1, <1>2, <1>3, <1>6, KeptUnheaded
  <2>2. state' = "SEIZURE_WAIT" /\ idx' = idx
    BY <1>6 DEF Seizure, Go
  <2>3. LinkType'
    BY <1>1, <1>4, <2>1, <2>2 DEF LinkType
  <2>4. SearchInv' /\ EndInv'
    BY <1>1, <2>1, <2>2 DEF SearchInv, EndInv
  <2> QED  BY <2>3, <2>4
<1>7. CASE b # CID_SEIZURE_CHR /\ ~(idx < CID_SEIZURE_BYTES) /\ b = CID_CALL_SETUP
  <2>1. Headed(g, Len(g))
    BY <1>1, <1>2, <1>3, <1>7
  <2>2. frame' = g
    BY <1>1, <1>2, <2>1, KeptHeaded
  <2>3. state' = "DATALEN" /\ idx' = 0 /\ csum' = CID_CALL_SETUP
    BY <1>7 DEF Seizure, CallSetup
  <2>4. LinkType'
    BY <1>1, <1>2, <1>4, <2>2, <2>3 DEF LinkType
  <2>5. SearchInv' /\ EndInv'
    BY <1>1, <2>1, <2>2, <2>3 DEF SearchInv, EndInv
  <2> QED  BY <2>4, <2>5
<1>8. CASE b # CID_SEIZURE_CHR /\ ~(idx < CID_SEIZURE_BYTES) /\ b # CID_CALL_SETUP
  <2>1. IsWrong(g, idx, 1)
    BY <1>1, <1>3, <1>8
  <2>2. frame' = g
    BY <1>1, <1>2, <2>1, KeptUnheaded
  <2>3. state' = "MSG_TYPE" /\ idx' = 0
    BY <1>8 DEF Seizure, Go
  <2>4. LinkType'
    BY <1>1, <1>2, <1>4, <2>2, <2>3 DEF LinkType
  <2>5. IsWrong(frame', Len(frame') - idx' - 1, idx' + 1)
    <3>1. Len(g) - 0 - 1 = idx /\ 0 + 1 = 1
      BY <1>2
    <3> QED  BY <2>1, <2>2, <2>3, <3>1
  <2>6. SearchInv' /\ EndInv'
    BY <1>1, <2>3, <2>5 DEF SearchInv, EndInv
  <2> QED  BY <2>4, <2>6
<1> QED  BY <1>5, <1>6, <1>7, <1>8

\* A byte where the message type should be.
LEMMA MsgTypeStep ==
  ASSUME LinkInv, NEW b \in Bytes, Byte(b), MsgType(b)
  PROVE  LinkInv'
<1> USE DEF LinkInv
<1> DEFINE g == Append(frame, b)
           n == Len(frame) - idx - 1
<1>1. /\ result = "CID_OK" /\ state = "MSG_TYPE" /\ IsWrong(frame, n, idx + 1)
      /\ result' = "CID_OK" /\ frame' = Kept(g)
  BY DEF Byte, MsgType, SearchInv, Ends, Kept
<1>2. /\ frame \in Seq(Bytes) /\ g \in Seq(Bytes) /\ idx \in Nat /\ Len(frame) \in Nat
      /\ Len(g) = Len(frame) + 1
  BY <1>1, Appended DEF LinkType
<1>3. n \in Nat
  BY <1>1, <1>2, CidAssumption DEF IsWrong
<1>4. Len(g) - (idx + 1) - 1 = n /\ idx + 1 \in Nat
  BY <1>2
<1> HIDE DEF n
<1>5. /\ b = CID_CALL_SETUP => Headed(g, Len(g))
      /\ b # CID_CALL_SETUP /\ idx + 1 < CID_MAX_WRONG_MSG_TYPE => IsWrong(g, n, (idx + 1) + 1)
      /\ b # CID_CALL_SETUP /\ ~(idx + 1 < CID_MAX_WRONG_MSG_TYPE) => Dead(g)
  BY <1>1, <1>2, <1>3, <1>4, WrongGrows
<1>6. dataLen' = dataLen /\ buf' = buf
  BY DEF MsgType, Go, CallSetup
<1>7. (idx + 1 >= CID_MAX_WRONG_MSG_TYPE) = ~(idx + 1 < CID_MAX_WRONG_MSG_TYPE)
  BY <1>2, CidAssumption
<1> HIDE DEF g
<1>8. CASE b = CID_CALL_SETUP
  <2>1. Headed(g, Len(g)) /\ frame' = g
    BY <1>1, <1>2, <1>5, <1>8, KeptHeaded
  <2>2. state' = "DATALEN" /\ idx' = 0 /\ csum' = CID_CALL_SETUP
    BY <1>8 DEF MsgType, CallSetup
  <2>3. LinkType'
    BY <1>1, <1>2, <1>6, <2>1, <2>2 DEF LinkType
  <2>4. SearchInv' /\ EndInv'
    BY <1>1, <2>1, <2>2 DEF SearchInv, EndInv
  <2> QED  BY <2>3, <2>4
<1>9. CASE b # CID_CALL_SETUP /\ idx + 1 < CID_MAX_WRONG_MSG_TYPE
  <2>1. IsWrong(g, n, (idx + 1) + 1) /\ (idx + 1) + 1 \in Nat
    BY <1>4, <1>5, <1>9
  <2>2. frame' = g
    BY <1>1, <1>2, <1>3, <2>1, KeptUnheaded
  <2>3. state' = "MSG_TYPE" /\ idx' = idx + 1
    BY <1>7, <1>9 DEF MsgType, Go
  <2>4. LinkType'
    BY <1>1, <1>2, <1>4, <1>6, <2>2, <2>3 DEF LinkType
  <2>5. IsWrong(frame', Len(frame') - idx' - 1, idx' + 1)
    BY <1>4, <2>1, <2>2, <2>3
  <2>6. SearchInv' /\ EndInv'
    BY <1>1, <2>3, <2>5 DEF SearchInv, EndInv
  <2> QED  BY <2>4, <2>6
<1>10. CASE b # CID_CALL_SETUP /\ ~(idx + 1 < CID_MAX_WRONG_MSG_TYPE)
  <2>1. frame' = <<>>
    BY <1>1, <1>2, <1>5, <1>10, KeptUnheaded
  <2>2. state' = "SEIZURE_WAIT" /\ idx' = idx + 1
    BY <1>7, <1>10 DEF MsgType, Go
  <2>3. LinkType'
    BY <1>1, <1>4, <1>6, <2>1, <2>2 DEF LinkType
  <2>4. SearchInv' /\ EndInv'
    BY <1>1, <2>1, <2>2 DEF SearchInv, EndInv
  <2> QED  BY <2>3, <2>4
<1> QED  BY <1>8, <1>9, <1>10

\* The length byte, or what stands before it.
LEMMA DataLenStep ==
  ASSUME LinkInv, NEW b \in Bytes, Byte(b), DataLen(b)
  PROVE  LinkInv'
<1> USE DEF LinkInv
<1> DEFINE g == Append(frame, b)
<1>0. PICK h \in Nat : h = Len(frame)
  BY DEF LinkType
<1>1. /\ result = "CID_OK" /\ state = "DATALEN"
      /\ Headed(frame, h) /\ csum = CID_CALL_SETUP /\ idx = 0
      /\ result' = "CID_OK" /\ frame' = Kept(g)
  BY <1>0 DEF Byte, DataLen, SearchInv, Ends, Kept
<1>2. /\ frame \in Seq(Bytes) /\ g \in Seq(Bytes) /\ h \in Nat /\ Len(g) = h + 1
      /\ g[h + 1] = b /\ b \in Nat /\ CID_BUFLEN \in Nat
  BY <1>0, <1>1, Appended, CidAssumption DEF LinkType, Bytes
<1>3. /\ b # CID_CALL_SETUP => Headed(g, h)
      /\ b = CID_CALL_SETUP => Headed(g, h + 1)
  BY <1>0, <1>1, <1>2, HeadedGrows
<1>4. SubSeq(g, h + 1, h + 1) = <<b>>
  <2>1. h \in 0..Len(frame)
    BY <1>0, <1>2
  <2>2. SubSeq(g, h + 1, h + 1) = Append(SubSeq(frame, h + 1, h), b)
    BY <1>0, <1>2, <2>1, TailGrows
  <2>3. SubSeq(frame, h + 1, h) = <<>>
    BY <1>2
  <2>4. Append(<<>>, b) = <<b>>
    OBVIOUS
  <2> HIDE DEF g
  <2> QED  BY <2>2, <2>3, <2>4
<1>5. buf' = buf
  BY DEF DataLen, Go
<1> HIDE DEF g
<1>6. CASE b = CID_CALL_SETUP
  <2>1. Headed(g, Len(g)) /\ frame' = g
    BY <1>1, <1>2, <1>3, <1>6, KeptHeaded
  <2>2. state' = "DATALEN" /\ idx' = idx /\ csum' = csum /\ dataLen' = dataLen
    BY <1>6 DEF DataLen, Go
  <2>3. LinkType'
    BY <1>1, <1>2, <1>5, <2>1, <2>2 DEF LinkType
  <2>4. SearchInv' /\ EndInv'
    BY <1>1, <2>1, <2>2 DEF SearchInv, EndInv
  <2> QED  BY <2>3, <2>4
<1>7. CASE b # CID_CALL_SETUP /\ b > CID_BUFLEN
  <2>1. frame' = <<>>
    <3>1. Headed(g, h) /\ Len(g) > h /\ g[h + 1] > CID_BUFLEN
      BY <1>2, <1>3, <1>7
    <3> QED  BY <1>1, <1>2, <3>1, KeptHeaded
  <2>2. state' = "SEIZURE_WAIT" /\ idx' = idx /\ dataLen' = dataLen
    BY <1>7 DEF DataLen, Go, TooLong
  <2>3. LinkType'
    BY <1>1, <1>5, <2>1, <2>2 DEF LinkType
  <2>4. SearchInv' /\ EndInv'
    BY <1>1, <2>1, <2>2 DEF SearchInv, EndInv
  <2> QED  BY <2>3, <2>4
<1>8. CASE b # CID_CALL_SETUP /\ ~(b > CID_BUFLEN)
  <2>1. /\ state' = "DATA" /\ idx' = 0 /\ dataLen' = b
        /\ csum' = (CID_CALL_SETUP + b) % ByteSize
    BY <1>1, <1>8 DEF DataLen, TooLong
  <2>2. Headed(g, h) /\ Len(g) > h /\ g[h + 1] <= CID_BUFLEN /\ Len(g) < h + 2 + g[h + 1]
    BY <1>2, <1>3, <1>8
  <2>3. frame' = g
    BY <1>1, <1>2, <2>2, KeptHeaded
  <2>4. LinkType'
    BY <1>1, <1>2, <1>5, <2>1, <2>3 DEF LinkType
  <2>5. Receives(h)'
    <3>1. csum' = (CID_CALL_SETUP + BytesSum(SubSeq(g, h + 1, Len(g)))) % ByteSize
      BY <1>2, <1>4, <2>1, SumOfOne
    <3>2. Headed(g, h) /\ Len(g) = h + 1 + 0 /\ g[h + 1] = b /\ 0 <= b /\ b <= CID_BUFLEN
      BY <1>2, <1>8, <2>2
    <3>3. \A i \in 1..idx' : buf'[i - 1] = g[h + 1 + i]
      BY <2>1
    <3> QED  BY <2>1, <2>3, <3>1, <3>2, <3>3 DEF Receives
  <2>6. SearchInv' /\ EndInv'
    BY <1>1, <1>2, <2>1, <2>5 DEF SearchInv, EndInv
  <2> QED  BY <2>4, <2>6
<1> QED  BY <1>6, <1>7, <1>8

\* A byte of the payload.
LEMMA DataByteStep ==
  ASSUME LinkInv, NEW b \in Bytes, Byte(b), DataByte(b)
  PROVE  LinkInv'
<1> USE DEF LinkInv
<1> DEFINE g == Append(frame, b)
<1>1. /\ result = "CID_OK" /\ state = "DATA" /\ idx < dataLen
      /\ result' = "CID_OK" /\ frame' = Kept(g)
      /\ state' = "DATA" /\ idx' = idx + 1 /\ dataLen' = dataLen
      /\ buf' = [buf EXCEPT ![idx] = b] /\ csum' = (csum + b) % ByteSize
  <2>1. result' = "CID_OK"
    <3>1. idx \in Nat /\ dataLen \in Nat /\ idx < dataLen
      BY DEF LinkType, DataByte
    <3> QED  BY <3>1 DEF Byte, Ends
  <2> QED  BY <2>1 DEF Byte, DataByte, Kept
<1>2. PICK h \in Nat : Receives(h)
  BY <1>1 DEF SearchInv
<1>3. /\ frame \in Seq(Bytes) /\ g \in Seq(Bytes) /\ Len(g) = Len(frame) + 1
      /\ g[Len(frame) + 1] = b /\ (\A i \in 1..Len(frame) : g[i] = frame[i])
      /\ idx \in Nat /\ dataLen \in Nat /\ b \in Nat /\ CID_BUFLEN \in Nat
  BY <1>1, Appended, CidAssumption DEF LinkType, Bytes
<1>4. /\ Headed(frame, h) /\ Len(frame) = h + 1 + idx /\ h < Len(frame)
      /\ frame[h + 1] = dataLen /\ dataLen <= CID_BUFLEN
  BY <1>2, <1>3 DEF Receives
<1> DEFINE s == SubSeq(frame, h + 1, Len(frame))
           t == SubSeq(g, h + 1, Len(g))
<1>5. s \in Seq(Bytes) /\ t = Append(s, b)
  <2>1. h \in 0..Len(frame)
    BY <1>3, <1>4
  <2>2. s \in Seq(Bytes) /\ SubSeq(g, h + 1, Len(frame) + 1) = Append(s, b)
    BY <1>3, <2>1, TailGrows
  <2> HIDE DEF g, s
  <2> QED  BY <1>3, <2>2
<1>6. csum = (CID_CALL_SETUP + BytesSum(s)) % ByteSize
  BY <1>2 DEF Receives
<1> HIDE DEF g, s, t
<1>7. /\ Headed(g, h) /\ Len(g) = h + 1 + (idx + 1) /\ Len(g) > h
      /\ g[h + 1] = dataLen /\ g[h + 1] <= CID_BUFLEN /\ Len(g) < h + 2 + g[h + 1]
  <2>1. Headed(g, h)
    BY <1>3, <1>4, HeadedGrows DEF g
  <2>2. h + 1 \in 1..Len(frame)
    BY <1>3, <1>4
  <2>3. g[h + 1] = dataLen
    BY <1>3, <1>4, <2>2
  <2> QED  BY <1>1, <1>3, <1>4, <2>1, <2>3
<1>8. frame' = g
  BY <1>1, <1>3, <1>7, KeptHeaded
<1>9. LinkType'
  <2>1. buf \in [0..CID_BUFLEN-1 -> Bytes]
    BY DEF LinkType
  <2>2. buf' \in [0..CID_BUFLEN-1 -> Bytes]
    BY <1>1, <2>1
  <2>3. idx' \in Nat /\ dataLen' \in Nat
    BY <1>1, <1>3
  <2> QED  BY <1>1, <1>3, <1>8, <2>2, <2>3 DEF LinkType
<1>10. csum' = (CID_CALL_SETUP + BytesSum(t)) % ByteSize
  <2>1. BytesSum(s) \in Nat /\ BytesSum(t) = BytesSum(s) + b
    BY <1>5, SumOfMore
  <2>2. CID_CALL_SETUP \in Nat
    BY CidAssumption DEF Bytes
  <2>3. CID_CALL_SETUP + BytesSum(s) \in Nat
    BY <2>1, <2>2
  <2>4. (((CID_CALL_SETUP + BytesSum(s)) % ByteSize) + b) % ByteSize
          = ((CID_CALL_SETUP + BytesSum(s)) + b) % ByteSize
    BY <1>3, <2>3, SumModulo
  <2>5. (CID_CALL_SETUP + BytesSum(s)) + b = CID_CALL_SETUP + BytesSum(t)
    BY <1>3, <2>1, <2>2
  <2> QED  BY <1>1, <1>6, <2>4, <2>5
<1>11. ASSUME NEW i \in 1..idx+1 PROVE buf'[i - 1] = g[h + 1 + i]
  <2>0. \A j \in 0..CID_BUFLEN-1 : buf'[j] = IF j = idx THEN b ELSE buf[j]
    BY <1>1 DEF LinkType
  <2>1. i - 1 \in 0..CID_BUFLEN-1
    BY <1>1, <1>3, <1>4
  <2>2. CASE i = idx + 1
    <3>1. i - 1 = idx /\ h + 1 + i = Len(frame) + 1
      BY <1>3, <1>4, <2>2
    <3> QED  BY <1>3, <2>0, <2>1, <3>1
  <2>3. CASE i # idx + 1
    <3>1. i - 1 # idx /\ h + 1 + i \in 1..Len(frame) /\ i \in 1..idx
      BY <1>3, <1>4, <2>3
    <3>2. buf[i - 1] = frame[h + 1 + i]
      BY <1>2, <3>1 DEF Receives
    <3> QED  BY <1>3, <2>0, <2>1, <3>1, <3>2
  <2> QED  BY <2>2, <2>3
<1>12. Receives(h)'
  <2>1. csum' = (CID_CALL_SETUP + BytesSum(SubSeq(g, h + 1, Len(g)))) % ByteSize
    BY <1>10 DEF t
  <2>2. idx + 1 <= dataLen
    BY <1>1, <1>3
  <2>3. \A i \in 1..idx' : buf'[i - 1] = g[h + 1 + i]
    BY <1>1, <1>11
  <2> QED  BY <1>1, <1>4, <1>7, <1>8, <2>1, <2>2, <2>3 DEF Receives
<1>13. SearchInv' /\ EndInv'
  BY <1>1, <1>12 DEF SearchInv, EndInv
<1> QED  BY <1>9, <1>13

\* The checksum byte.
LEMMA ChecksumStep ==
  ASSUME LinkInv, NEW b \in Bytes, Byte(b), Checksum(b)
  PROVE  LinkInv'
<1> USE DEF LinkInv
<1> DEFINE g == Append(frame, b)
<1>1. /\ result = "CID_OK" /\ state = "DATA" /\ idx >= dataLen
      /\ result' = (IF (csum + b) % ByteSize = 0 THEN "CID_END" ELSE "CID_OK")
      /\ frame' = Kept(g)
      /\ state' = "SEIZURE_WAIT" /\ idx' \in {0, idx} /\ dataLen' = dataLen /\ buf' = buf
  BY DEF Byte, Checksum, Ends, Kept
<1>2. PICK h \in Nat : Receives(h)
  BY <1>1 DEF SearchInv
<1>3. /\ frame \in Seq(Bytes) /\ g \in Seq(Bytes) /\ Len(g) = Len(frame) + 1
      /\ g[Len(frame) + 1] = b /\ (\A i \in 1..Len(frame) : g[i] = frame[i])
      /\ idx \in Nat /\ dataLen \in Nat /\ b \in Nat /\ CID_BUFLEN \in Nat
  BY <1>1, Appended, CidAssumption DEF LinkType, Bytes
<1>4. /\ Headed(frame, h) /\ Len(frame) = h + 1 + dataLen /\ h < Len(frame) /\ idx = dataLen
      /\ frame[h + 1] = dataLen /\ dataLen <= CID_BUFLEN
      /\ \A i \in 1..dataLen : buf[i - 1] = frame[h + 1 + i]
  BY <1>1, <1>2, <1>3 DEF Receives
<1> DEFINE s == SubSeq(frame, h + 1, Len(frame))
           t == SubSeq(g, h + 1, Len(g))
<1>5. s \in Seq(Bytes) /\ t = Append(s, b)
      /\ Len(s) = Len(frame) - h /\ \A i \in 1..Len(frame)-h : s[i] = frame[h + i]
  <2>1. h \in 0..Len(frame)
    BY <1>3, <1>4
  <2>2. /\ s \in Seq(Bytes) /\ SubSeq(g, h + 1, Len(frame) + 1) = Append(s, b)
        /\ Len(s) = Len(frame) - h /\ \A i \in 1..Len(frame)-h : s[i] = frame[h + i]
    BY <1>3, <2>1, TailGrows
  <2> HIDE DEF g, s
  <2> QED  BY <1>3, <2>2
<1>6. csum = (CID_CALL_SETUP + BytesSum(s)) % ByteSize
  BY <1>2 DEF Receives
<1> HIDE DEF g, s, t
<1>7. /\ Headed(g, h) /\ Len(g) > h /\ g[h + 1] <= CID_BUFLEN
      /\ Len(g) = h + 2 + g[h + 1]
  <2>1. Headed(g, h)
    BY <1>3, <1>4, HeadedGrows DEF g
  <2>2. h + 1 \in 1..Len(frame)
    BY <1>3, <1>4
  <2>3. g[h + 1] = dataLen
    BY <1>3, <1>4, <2>2
  <2> QED  BY <1>3, <1>4, <2>1, <2>3
<1>8. (csum + b) % ByteSize = (CID_CALL_SETUP + BytesSum(t)) % ByteSize
  <2>1. BytesSum(s) \in Nat /\ BytesSum(t) = BytesSum(s) + b
    BY <1>5, SumOfMore
  <2>2. CID_CALL_SETUP \in Nat
    BY CidAssumption DEF Bytes
  <2>3. CID_CALL_SETUP + BytesSum(s) \in Nat
    BY <2>1, <2>2
  <2>4. (((CID_CALL_SETUP + BytesSum(s)) % ByteSize) + b) % ByteSize
          = ((CID_CALL_SETUP + BytesSum(s)) + b) % ByteSize
    BY <1>3, <2>3, SumModulo
  <2>5. (CID_CALL_SETUP + BytesSum(s)) + b = CID_CALL_SETUP + BytesSum(t)
    BY <1>3, <2>1, <2>2
  <2> QED  BY <1>6, <2>4, <2>5
<1>9. LET ok == (csum + b) % ByteSize = 0
      IN  Tails(g) = {t} /\ IsFrame(g) = ok /\ Kept(g) = IF ok THEN g ELSE <<>>
  BY <1>3, <1>7, <1>8, KeptHeaded DEF t
<1>10. CASE (csum + b) % ByteSize = 0
  <2>1. result' = "CID_END" /\ frame' = g /\ IsFrame(g) /\ Tails(g) = {t}
    BY <1>1, <1>9, <1>10
  <2>2. LinkType'
    BY <1>1, <1>3, <2>1 DEF LinkType
  <2>3. t[1] = dataLen /\ \A i \in 1..dataLen : buf[i - 1] = t[i + 1]
    <3>1. \A i \in 1..Len(s) : t[i] = s[i]
      BY <1>3, <1>5, Appended
    <3>2. \A i \in 1..dataLen+1 : t[i] = frame[h + i]
      BY <1>3, <1>4, <1>5, <3>1
    <3>3. t[1] = dataLen
      BY <1>3, <1>4, <3>2
    <3>4. ASSUME NEW i \in 1..dataLen PROVE buf[i - 1] = t[i + 1]
      <4>1. i + 1 \in 1..dataLen+1 /\ h + (i + 1) = h + 1 + i
        BY <1>3
      <4> QED  BY <1>4, <3>2, <4>1
    <3> QED  BY <3>3, <3>4
  <2>4. g # <<>>
    BY <1>3
  <2>5. SearchInv' /\ EndInv'
    BY <1>1, <2>1, <2>3, <2>4 DEF SearchInv, EndInv
  <2> QED  BY <2>2, <2>5
<1>11. CASE (csum + b) % ByteSize # 0
  <2>1. result' = "CID_OK" /\ frame' = <<>>
    BY <1>1, <1>9, <1>11
  <2>2. LinkType'
    BY <1>1, <1>3, <2>1 DEF LinkType
  <2>3. SearchInv' /\ EndInv'
    BY <1>1, <2>1 DEF SearchInv, EndInv
  <2> QED  BY <2>2, <2>3
<1> QED  BY <1>10, <1>11

\* The invariant holds in every state.
THEOREM LinkInvHolds == Spec => []LinkInv
<1>1. Init => LinkInv
  BY CidAssumption DEF Init, LinkInv, LinkType, SearchInv, EndInv, Bytes
<1>2. LinkInv /\ [Next]_vars => LinkInv'
  <2> SUFFICES ASSUME LinkInv, [Next]_vars PROVE LinkInv'
    OBVIOUS
  <2>1. ASSUME NEW b \in Bytes, Byte(b) PROVE LinkInv'
    <3>1. SeizureWait(b) \/ Seizure(b) \/ MsgType(b) \/ DataLen(b) \/ DataByte(b) \/ Checksum(b)
      BY <2>1 DEF Byte
    <3> QED  BY <2>1, <3>1, SeizureWaitStep, SeizureStep, MsgTypeStep, DataLenStep,
                DataByteStep, ChecksumStep
  <2>2. CASE CidReset
    BY <2>2 DEF CidReset, LinkInv, LinkType, SearchInv, EndInv
  <2>3. CASE UNCHANGED vars
    BY <2>3 DEF vars, LinkInv, LinkType, SearchInv, EndInv, Receives
  <2> QED  BY <2>1, <2>2, <2>3 DEF Next
<1> QED  BY <1>1, <1>2, PTL DEF Spec

\* cid.c:109-209: CID_END is returned for the last byte of a frame with a valid
\* checksum and for nothing else, whatever came before it, and the parser looks for a
\* seizure exactly when the bytes so far cannot become a frame.
THEOREM EndsExactlyFrames == Spec => []AcceptsFrames
<1>1. LinkInv => AcceptsFrames
  <2> SUFFICES ASSUME LinkInv PROVE AcceptsFrames
    OBVIOUS
  <2>1. CASE result = "CID_END"
    BY <2>1 DEF LinkInv, EndInv, AcceptsFrames
  <2>2. CASE result = "CID_OK"
    <3>1. frame \in Seq(Bytes) /\ Len(frame) \in Nat /\ idx \in Nat
      BY DEF LinkInv, LinkType
    <3>2. CASE state = "SEIZURE_WAIT"
      BY <2>2, <3>2 DEF LinkInv, SearchInv, AcceptsFrames
    <3>3. CASE state = "SEIZURE"
      <4>1. Seizes(frame) /\ Len(frame) >= 1
        BY <2>2, <3>3 DEF LinkInv, SearchInv
      <4>2. ~IsFrame(frame) /\ frame # <<>>
        BY <3>1, <4>1, KeptUnheaded
      <4> QED  BY <2>2, <3>3, <4>2 DEF AcceptsFrames
    <3>4. CASE state = "MSG_TYPE"
      <4>1. IsWrong(frame, Len(frame) - idx - 1, idx + 1)
        BY <2>2, <3>4 DEF LinkInv, SearchInv
      <4>2. Len(frame) - idx - 1 \in Nat /\ idx + 1 \in Nat /\ Len(frame) >= 1
        BY <3>1, <4>1, CidAssumption DEF IsWrong
      <4>3. ~IsFrame(frame) /\ frame # <<>>
        BY <3>1, <4>1, <4>2, KeptUnheaded
      <4> QED  BY <2>2, <3>4, <4>3 DEF AcceptsFrames
    <3>5. CASE state = "DATALEN"
      <4>1. Headed(frame, Len(frame))
        BY <2>2, <3>5 DEF LinkInv, SearchInv
      <4>2. ~IsFrame(frame) /\ Len(frame) >= 1
        BY <3>1, <4>1, KeptHeaded, HeadedIsNoOther
      <4> QED  BY <2>2, <3>1, <3>5, <4>2 DEF AcceptsFrames
    <3>6. CASE state = "DATA"
      <4>1. PICK h \in Nat : Receives(h)
        BY <2>2, <3>6 DEF LinkInv, SearchInv
      <4>2. /\ Headed(frame, h) /\ Len(frame) > h /\ frame[h + 1] <= CID_BUFLEN
            /\ Len(frame) < h + 2 + frame[h + 1]
        <5>1. dataLen \in Nat /\ CID_BUFLEN \in Nat
          BY CidAssumption DEF LinkInv, LinkType
        <5> QED  BY <3>1, <4>1, <5>1 DEF Receives
      <4>3. ~IsFrame(frame) /\ frame # <<>>
        BY <3>1, <4>2, KeptHeaded
      <4> QED  BY <2>2, <3>6, <4>3 DEF AcceptsFrames
    <3> QED  BY <3>2, <3>3, <3>4, <3>5, <3>6 DEF LinkInv, LinkType
  <2> QED  BY <2>1, <2>2 DEF LinkInv, LinkType
<1> QED  BY <1>1, LinkInvHolds, PTL

\* cid.c:168-202: the buffer holds the payload of the frame that CID_END reports, and
\* nothing is written past its end.
THEOREM BufferHoldsThePayload == Spec => []PayloadIsReceived
<1>1. LinkInv => PayloadIsReceived
  <2> SUFFICES ASSUME LinkInv PROVE PayloadIsReceived
    OBVIOUS
  <2>1. ASSUME state = "DATA" PROVE idx <= dataLen /\ dataLen <= CID_BUFLEN
    <3>1. result = "CID_OK"
      BY <2>1 DEF LinkInv, LinkType, EndInv
    <3>2. PICK h \in Nat : Receives(h)
      BY <2>1, <3>1 DEF LinkInv, SearchInv
    <3> QED  BY <3>2 DEF Receives
  <2>2. result = "CID_END" =>
          \E t \in Tails(frame) : t[1] = dataLen /\ \A i \in 1..dataLen : buf[i - 1] = t[i + 1]
    BY DEF LinkInv, EndInv
  <2> QED  BY <2>1, <2>2 DEF PayloadIsReceived
<1> QED  BY <1>1, LinkInvHolds, PTL

--------------------------------------------------------------------------------
(* The messages in the buffer.                                             *)

PayloadTypeOK ==
  /\ msgBuf \in [0..MSG_BUFLEN-1 -> MsgBytes]
  /\ msgDataLen \in 0..MSG_BUFLEN /\ msgIdx \in Nat

Msgs == {Msg!MessageAt(i) : i \in Nat}

\* Byte i does not begin a message of the payload.
NoMessage(i) == i + 1 >= msgDataLen \/ msgBuf[i] = 0 \/ i + 2 + msgBuf[i + 1] > msgDataLen

ListsMessages(f) ==
  f = [i \in Nat |-> IF NoMessage(i) THEN <<>>
                     ELSE <<Msg!MessageAt(i)>> \o f[i + 2 + msgBuf[i + 1]]]

\* A list of messages is a function: each begins behind the one before it.
LEMMA MessagesExist ==
  ASSUME PayloadTypeOK
  PROVE  \E f \in [Nat -> Seq(Msgs)] : ListsMessages(f)
<1> DEFINE X == Seq(Msgs)
           e == <<>>
           next == [p \in 0..msgDataLen-1 |-> IF p + 1 >= MSG_BUFLEN THEN p + 1 ELSE p + 2 + msgBuf[p + 1]]
           Before(x) == IF NoMessage(x[1]) THEN <<>> ELSE <<Msg!MessageAt(x[1])>> \o x[2]
           G == [x \in Nat \X X |-> Before(x)]
<1>1. msgDataLen \in Nat /\ MSG_BUFLEN \in Nat
  BY MsgAssumption DEF PayloadTypeOK
<1>2. \A p \in Nat : p + 1 < MSG_BUFLEN => msgBuf[p + 1] \in Nat /\ p + 2 + msgBuf[p + 1] \in Nat
  <2> SUFFICES ASSUME NEW p \in Nat, p + 1 < MSG_BUFLEN
               PROVE  msgBuf[p + 1] \in Nat /\ p + 2 + msgBuf[p + 1] \in Nat
    OBVIOUS
  <2>1. p + 1 \in 0..MSG_BUFLEN-1
    BY <1>1
  <2>2. msgBuf[p + 1] \in MsgBytes
    BY <2>1 DEF PayloadTypeOK
  <2>3. msgBuf[p + 1] \in Nat
    BY <2>2, MsgAssumption
  <2> QED  BY <2>3
<1>3. GoesUp(next, msgDataLen)
  <2> SUFFICES ASSUME NEW p \in 0..msgDataLen-1 PROVE next[p] \in Nat /\ next[p] > p
    BY DEF GoesUp
  <2>1. p \in Nat
    OBVIOUS
  <2>2. CASE p + 1 >= MSG_BUFLEN
    BY <2>1, <2>2
  <2>3. CASE ~(p + 1 >= MSG_BUFLEN)
    <3>1. next[p] = p + 2 + msgBuf[p + 1] /\ msgBuf[p + 1] \in Nat
      BY <1>1, <1>2, <2>1, <2>3
    <3> HIDE DEF next
    <3> QED  BY <2>1, <3>1
  <2> QED  BY <2>2, <2>3
<1>4. \A i \in Nat : <<Msg!MessageAt(i)>> \in Seq(Msgs)
  BY DEF Msgs
<1>5. G \in [Nat \X X -> X] /\ e \in X
  <2>1. ASSUME NEW p \in Nat, NEW r \in X
        PROVE  (IF NoMessage(p) THEN <<>> ELSE <<Msg!MessageAt(p)>> \o r) \in X
    <3>1. <<>> \in X
      OBVIOUS
    <3>2. <<Msg!MessageAt(p)>> \o r \in X
      BY <1>4
    <3> QED  BY <3>1, <3>2
  <2>2. e \in X
    OBVIOUS
  <2>3. \A x \in Nat \X X : x[1] \in Nat /\ x[2] \in X
    OBVIOUS
  <2> HIDE DEF X, e
  <2>4. \A x \in Nat \X X : Before(x) \in X
    BY <2>1, <2>3
  <2> HIDE DEF Before
  <2> QED  BY <2>2, <2>4
<1>6. PICK f \in [Nat -> X] :
        \A p \in Nat : f[p] = IF p >= msgDataLen THEN e ELSE G[<<p, f[next[p]]>>]
  <2> HIDE DEF X, e, next, Before, G
  <2>1. \E f \in [Nat -> X] : Recurs(f, msgDataLen, e, G, next)
    BY <1>1, <1>3, <1>5, UpwardRecursion
  <2> QED  BY <2>1 DEF Recurs
<1>7. ASSUME NEW p \in Nat
      PROVE  f[p] = IF NoMessage(p) THEN <<>> ELSE <<Msg!MessageAt(p)>> \o f[p + 2 + msgBuf[p + 1]]
  <2>1. CASE p >= msgDataLen
    <3>1. NoMessage(p)
      BY <1>1, <2>1 DEF NoMessage
    <3> QED  BY <1>6, <2>1, <3>1
  <2>2. CASE ~(p >= msgDataLen)
    <3>1. p \in 0..msgDataLen-1 /\ next[p] \in Nat
      <4>1. p \in 0..msgDataLen-1
        BY <1>1, <2>2
      <4> HIDE DEF next
      <4> QED  BY <1>3, <4>1 DEF GoesUp
    <3>2. f[next[p]] \in X
      <4> HIDE DEF X, next
      <4> QED  BY <3>1
    <3>3. G[<<p, f[next[p]]>>] = IF NoMessage(p) THEN <<>> ELSE <<Msg!MessageAt(p)>> \o f[next[p]]
      <4> HIDE DEF X, next
      <4> QED  BY <3>2
    <3>4. f[p] = IF NoMessage(p) THEN <<>> ELSE <<Msg!MessageAt(p)>> \o f[next[p]]
      <4> HIDE DEF X, next, G, e
      <4> QED  BY <1>6, <2>2, <3>3
    <3>5. ~NoMessage(p) => next[p] = p + 2 + msgBuf[p + 1]
      <4>1. msgDataLen <= MSG_BUFLEN
        BY <1>1 DEF PayloadTypeOK
      <4> QED  BY <1>1, <3>1, <4>1 DEF NoMessage
    <3> HIDE DEF next, G, e, X
    <3> QED  BY <3>4, <3>5
  <2> QED  BY <2>1, <2>2
<1>8. ListsMessages(f)
  <2> HIDE DEF X
  <2> QED  BY <1>6, <1>7 DEF ListsMessages
<1> QED  BY <1>6, <1>8

\* What Messages is, at every byte.
LEMMA MessagesAre ==
  ASSUME PayloadTypeOK
  PROVE  /\ \A i \in Nat : Msg!Messages[i] \in Seq(Msgs)
         /\ \A i \in Nat : Msg!Messages[i] =
              IF NoMessage(i) THEN <<>>
              ELSE <<Msg!MessageAt(i)>> \o Msg!Messages[i + 2 + msgBuf[i + 1]]
<1> DEFINE f == Msg!Messages
           S == {m \in Nat : \A p \in Nat : p + m >= msgDataLen => f[p] \in Seq(Msgs)}
<1>1. ListsMessages(f)
  <2>1. f = CHOOSE g : ListsMessages(g)
    BY DEF Msg!Messages, ListsMessages, NoMessage
  <2> HIDE DEF f
  <2> QED  BY <2>1, MessagesExist
<1> HIDE DEF f
<1>2. \A i \in Nat : f[i] = IF NoMessage(i) THEN <<>> ELSE <<Msg!MessageAt(i)>> \o f[i + 2 + msgBuf[i + 1]]
  BY <1>1 DEF ListsMessages
<1>3. msgDataLen \in Nat /\ MSG_BUFLEN \in Nat
  BY MsgAssumption DEF PayloadTypeOK
<1>4. 0 \in S
  <2>1. ASSUME NEW p \in Nat, p + 0 >= msgDataLen PROVE f[p] = <<>>
    <3>1. NoMessage(p)
      BY <1>3, <2>1 DEF NoMessage
    <3> QED  BY <1>2, <3>1
  <2>2. <<>> \in Seq(Msgs)
    OBVIOUS
  <2>3. \A p \in Nat : p + 0 >= msgDataLen => f[p] \in Seq(Msgs)
    BY <2>1, <2>2
  <2> QED  BY <2>3
<1>5. ASSUME NEW m \in Nat, m \in S PROVE m + 1 \in S
  <2> SUFFICES ASSUME NEW p \in Nat, p + (m + 1) >= msgDataLen PROVE f[p] \in Seq(Msgs)
    OBVIOUS
  <2>1. CASE NoMessage(p)
    <3>1. f[p] = <<>>
      BY <1>2, <2>1
    <3>2. <<>> \in Seq(Msgs)
      OBVIOUS
    <3> QED  BY <3>1, <3>2
  <2>2. CASE ~NoMessage(p)
    <3>1. PICK q \in Nat : q = p + 2 + msgBuf[p + 1] /\ q + m >= msgDataLen
      <4>1. p + 1 \in 0..MSG_BUFLEN-1
        <5>1. msgDataLen <= MSG_BUFLEN
          BY <1>3 DEF PayloadTypeOK
        <5> QED  BY <1>3, <2>2, <5>1 DEF NoMessage
      <4>2. msgBuf[p + 1] \in Nat
        BY <4>1, MsgAssumption DEF PayloadTypeOK
      <4> QED  BY <1>3, <4>2
    <3>2. f[q] \in Seq(Msgs)
      BY <1>5, <3>1
    <3>3. <<Msg!MessageAt(p)>> \in Seq(Msgs)
      BY DEF Msgs
    <3>4. f[p] = <<Msg!MessageAt(p)>> \o f[q]
      BY <1>2, <2>2, <3>1
    <3> QED  BY <3>2, <3>3, <3>4
  <2> QED  BY <2>1, <2>2
<1>6. Nat \subseteq S
  <2> HIDE DEF S
  <2> QED  BY <1>4, <1>5, SetInduction
<1>7. \A i \in Nat : f[i] \in Seq(Msgs)
  <2>1. \A i \in Nat : i + msgDataLen >= msgDataLen
    BY <1>3
  <2> QED  BY <1>3, <1>6, <2>1
<1> QED  BY <1>2, <1>7 DEF f

--------------------------------------------------------------------------------
(* The verdict.                                                            *)

\* tel and ret are what message m says.
Says(m, tel, ret) ==
  LET num == SubSeq(m.data, 1, Msg!Shown(Len(m.data)))
  IN  IF m.code = ABS_REASON THEN tel = Msg!AbsentName(m.data[1]) /\ ret = "TF_HID_REJECT"
      ELSE tel = num /\ ret = NumCheck(num)

Telling(ms) == {k \in DOMAIN ms : Msg!Tells(ms[k])}

\* tel and ret are what the last of ms that says who calls says.
Verdict(ms, tel, ret) ==
  \/ Telling(ms) = {} /\ tel = Msg!Blanks /\ ret = Msg!NumOk
  \/ \E k \in Telling(ms) : (\A j \in Telling(ms) : j <= k) /\ Says(ms[k], tel, ret)

\* One message more.
LEMMA VerdictOfOneMore ==
  ASSUME NEW ms \in Seq(Msgs), NEW m \in Msgs, NEW tel, NEW ret, NEW tel1, NEW ret1,
         Verdict(ms, tel, ret),
         IF Msg!Tells(m) THEN Says(m, tel1, ret1) ELSE tel1 = tel /\ ret1 = ret
  PROVE  Verdict(Append(ms, m), tel1, ret1)
<1> DEFINE ns == Append(ms, m)
<1>1. PICK n \in Nat : n = Len(ms)
  OBVIOUS
<1>2. /\ DOMAIN ms = 1..n /\ DOMAIN ns = 1..n+1 /\ ns[n + 1] = m
      /\ \A k \in 1..n : ns[k] = ms[k]
  BY <1>1
<1> HIDE DEF ns
<1>3. CASE Msg!Tells(m)
  <2>1. n + 1 \in Telling(ns) /\ \A j \in Telling(ns) : j <= n + 1
    BY <1>2, <1>3 DEF Telling
  <2> QED  BY <1>2, <1>3, <2>1 DEF Verdict, ns
<1>4. CASE ~Msg!Tells(m)
  <2>1. Telling(ns) = Telling(ms)
    <3>1. \A k \in 1..n+1 : k \in 1..n \/ k = n + 1
      OBVIOUS
    <3>2. \A k \in 1..n : k \in 1..n+1
      OBVIOUS
    <3> QED  BY <1>2, <1>4, <3>1, <3>2 DEF Telling
  <2>2. \A k \in Telling(ms) : ns[k] = ms[k]
    BY <1>2 DEF Telling
  <2> QED  BY <1>4, <2>1, <2>2 DEF Verdict, ns
<1> QED  BY <1>3, <1>4

\* A length that was read is the one in the buffer, and the bytes behind it are the
\* data of the message, unless the message ends behind the buffer.
LEMMA ReadsTheMessage ==
  ASSUME PayloadTypeOK, NEW len \in Msg!At(msgIdx + 1), msgIdx + 2 + len <= MSG_BUFLEN
  PROVE  /\ len \in Nat /\ msgIdx + 1 < MSG_BUFLEN /\ len = msgBuf[msgIdx + 1]
         /\ \A n \in 0..len : \A d \in Msg!Read(msgIdx + 2, n) :
              d = SubSeq(Msg!MessageAt(msgIdx).data, 1, n)
<1>1. MSG_BUFLEN \in Nat /\ msgIdx \in Nat /\ msgDataLen \in Nat
  BY MsgAssumption DEF PayloadTypeOK
<1>2. len \in Nat
  <2>1. msgIdx + 1 < MSG_BUFLEN => msgIdx + 1 \in 0..MSG_BUFLEN-1
    BY <1>1
  <2>2. len \in MsgBytes
    BY <2>1 DEF Msg!At, PayloadTypeOK
  <2> QED  BY <2>2, MsgAssumption
<1>3. msgIdx + 1 < MSG_BUFLEN
  BY <1>1, <1>2
<1>4. len = msgBuf[msgIdx + 1]
  BY <1>3 DEF Msg!At
<1>5. ASSUME NEW n \in 0..len, NEW d \in Msg!Read(msgIdx + 2, n)
      PROVE  d = SubSeq(Msg!MessageAt(msgIdx).data, 1, n)
  <2> DEFINE data == [k \in 1..len |-> msgBuf[msgIdx + 1 + k]]
  <2>1. Msg!MessageAt(msgIdx).data = data
    BY <1>4 DEF Msg!MessageAt
  <2>2. \A k \in 1..n : d[k] = msgBuf[msgIdx + 1 + k]
    <3> SUFFICES ASSUME NEW k \in 1..n PROVE d[k] = msgBuf[msgIdx + 1 + k]
      OBVIOUS
    <3>1. d[k] \in Msg!At(msgIdx + 2 + k - 1)
      BY DEF Msg!Read
    <3>2. msgIdx + 2 + k - 1 = msgIdx + 1 + k /\ msgIdx + 1 + k < MSG_BUFLEN
      BY <1>1, <1>2
    <3>3. d[k] \in Msg!At(msgIdx + 1 + k)
      BY <3>1, <3>2
    <3> QED  BY <3>2, <3>3 DEF Msg!At
  <2>3. d = [k \in 1..n |-> d[k]]
    BY DEF Msg!Read
  <2>4. SubSeq(data, 1, n) = [k \in 1..n |-> msgBuf[msgIdx + 1 + k]]
    <3>1. \A k \in 1..n : data[k] = msgBuf[msgIdx + 1 + k] /\ 1 + k - 1 = k
      BY <1>2
    <3>2. SubSeq(data, 1, n) = [k \in 1..n |-> data[k]]
      <4> HIDE DEF data
      <4>1. n \in Nat
        BY <1>2
      <4>2. SubSeq(data, 1, n) = [k \in 1 .. 1 + n - 1 |-> data[k + 1 - 1]]
        BY <4>1
      <4> QED  BY <4>1, <4>2
    <3> HIDE DEF data
    <3> QED  BY <3>1, <3>2
  <2> HIDE DEF data
  <2> QED  BY <2>1, <2>2, <2>3, <2>4
<1> QED  BY <1>2, <1>3, <1>4, <1>5

\* What ParseMessages makes of a message.
LEMMA MessageSays ==
  ASSUME PayloadTypeOK, NEW len \in Msg!At(msgIdx + 1), msgIdx + 2 + len <= MSG_BUFLEN,
         Msg!Message(msgBuf[msgIdx], len)
  PROVE  LET m == Msg!MessageAt(msgIdx) IN
         IF Msg!Tells(m) THEN Says(m, telNum', retVal') ELSE telNum' = telNum /\ retVal' = retVal
<1> DEFINE m == Msg!MessageAt(msgIdx)
<1>1. /\ len \in Nat /\ len = msgBuf[msgIdx + 1]
      /\ \A n \in 0..len : \A d \in Msg!Read(msgIdx + 2, n) : d = SubSeq(m.data, 1, n)
  BY ReadsTheMessage
<1>2. /\ m.code = msgBuf[msgIdx] /\ Len(m.data) = len
      /\ m.data = [k \in 1..len |-> msgBuf[msgIdx + 1 + k]]
  BY <1>1 DEF Msg!MessageAt
<1>3. Msg!Shown(len) \in 0..len
  BY <1>1, MsgAssumption DEF Msg!Shown
<1> HIDE DEF m
<1>4. CASE m.code = DATE_TIME
  <2>1. m.code \notin {CLI_A, CLI_B} /\ m.code # ABS_REASON
    BY <1>4, MsgAssumption
  <2>2. telNum' = telNum /\ retVal' = retVal
    BY <1>2, <1>4, <2>1 DEF Msg!Message
  <2> QED  BY <2>1, <2>2 DEF Msg!Tells, m
<1>5. CASE m.code # DATE_TIME /\ m.code \in {CLI_A, CLI_B} /\ len <= TELNUM_MAX
  <2>1. PICK d \in Msg!Read(msgIdx + 2, Msg!Shown(len)) : telNum' = d /\ retVal' = NumCheck(d)
    BY <1>2, <1>5 DEF Msg!Message
  <2>2. d = SubSeq(m.data, 1, Msg!Shown(len))
    BY <1>1, <1>3
  <2>3. m.code # ABS_REASON /\ Msg!Tells(m)
    BY <1>2, <1>5, MsgAssumption DEF Msg!Tells
  <2> QED  BY <1>2, <2>1, <2>2, <2>3 DEF Says, m
<1>6. CASE m.code = ABS_REASON /\ len = 1
  <2>1. PICK d \in Msg!Read(msgIdx + 2, 1) : Msg!Absent(d[1])
    BY <1>2, <1>6, MsgAssumption DEF Msg!Message
  <2>2. d[1] = m.data[1]
    <3>1. d[1] \in Msg!At(msgIdx + 2 + 1 - 1)
      BY DEF Msg!Read
    <3>2. msgIdx + 2 + 1 - 1 = msgIdx + 1 + 1 /\ msgIdx + 1 + 1 < MSG_BUFLEN
      BY <1>6, MsgAssumption DEF PayloadTypeOK
    <3>3. d[1] = msgBuf[msgIdx + 1 + 1]
      BY <3>1, <3>2 DEF Msg!At
    <3> QED  BY <1>2, <1>6, <3>3
  <2> QED  BY <1>2, <1>6, <2>1, <2>2 DEF Says, Msg!Absent, Msg!Tells, m
<1>7. CASE /\ m.code # DATE_TIME /\ ~(m.code \in {CLI_A, CLI_B} /\ len <= TELNUM_MAX)
           /\ ~(m.code = ABS_REASON /\ len = 1)
  BY <1>2, <1>7 DEF Msg!Message, Msg!Tells, m
<1> QED  BY <1>4, <1>5, <1>6, <1>7

\* What ParseMessages knows of the messages before idx, unless one of them went on behind
\* the payload.
MessagesInv ==
  layer = "messages" =>
    /\ PayloadTypeOK /\ pc \in {"parsing", "done", "astray"}
    /\ pc # "astray" /\ msgIdx <= msgDataLen =>
         \E ms \in Seq(Msgs) :
           Msg!Messages[0] = ms \o Msg!Messages[msgIdx] /\ Verdict(ms, telNum, retVal)
    /\ pc = "done" => msgIdx >= msgDataLen \/ msgBuf[msgIdx] = 0

\* ParseMessages begins with any buffer.
LEMMA MessagesStart == ASSUME Msg!Init PROVE MessagesInv
<1>1. PayloadTypeOK /\ pc = "parsing" /\ msgIdx = 0 /\ telNum = Msg!Blanks /\ retVal = Msg!NumOk
  BY DEF Msg!Init, PayloadTypeOK
<1>2. Msg!Messages[0] = <<>> \o Msg!Messages[msgIdx]
  <2>1. Msg!Messages[0] \in Seq(Msgs)
    BY <1>1, MessagesAre
  <2> HIDE DEF Msg!Messages
  <2> QED  BY <1>1, <2>1
<1>3. Verdict(<<>>, telNum, retVal)
  BY <1>1 DEF Verdict, Telling
<1>4. <<>> \in Seq(Msgs)
  OBVIOUS
<1> QED  BY <1>1, <1>2, <1>3, <1>4 DEF MessagesInv

\* A turn of the loop.
LEMMA ParseMessageKeeps ==
  ASSUME layer = "messages", UNCHANGED layer, MessagesInv, Msg!ParseMessage
  PROVE  MessagesInv'
<1>1. /\ PayloadTypeOK /\ pc = "parsing" /\ msgIdx < msgDataLen /\ msgBuf[msgIdx] # 0
      /\ UNCHANGED <<msgBuf, msgDataLen>>
  BY DEF MessagesInv, Msg!ParseMessage
<1>2. MSG_BUFLEN \in Nat /\ msgIdx \in Nat /\ msgDataLen \in 0..MSG_BUFLEN
  BY <1>1, MsgAssumption DEF PayloadTypeOK
<1>3. PICK len \in Msg!At(msgIdx + 1) :
        IF len >= SignBit THEN pc' = "astray" /\ UNCHANGED <<msgIdx, retVal, telNum, clock>>
        ELSE Msg!Message(msgBuf[msgIdx], len) /\ msgIdx' = msgIdx + 2 + len /\ pc' = pc
  BY DEF Msg!ParseMessage
<1>4. CASE len >= SignBit
  BY <1>1, <1>3, <1>4 DEF MessagesInv, PayloadTypeOK
<1>5. CASE ~(len >= SignBit)
  <2>1. Msg!Message(msgBuf[msgIdx], len) /\ msgIdx' = msgIdx + 2 + len /\ pc' = "parsing"
    BY <1>1, <1>3, <1>5
  <2>2. len \in Nat
    <3>1. msgIdx + 1 < MSG_BUFLEN => msgIdx + 1 \in 0..MSG_BUFLEN-1
      BY <1>2
    <3>2. len \in MsgBytes
      BY <1>1, <3>1 DEF Msg!At, PayloadTypeOK
    <3> QED  BY <3>2, MsgAssumption
  <2>3. PayloadTypeOK'
    BY <1>1, <1>2, <2>1, <2>2 DEF PayloadTypeOK
  <2>4. CASE msgIdx + 2 + len <= msgDataLen
    <3>1. PICK ms \in Seq(Msgs) : Msg!Messages[0] = ms \o Msg!Messages[msgIdx] /\ Verdict(ms, telNum, retVal)
      BY <1>1, <1>2, <2>2, <2>4 DEF MessagesInv
    <3>11. msgIdx + 2 + len <= MSG_BUFLEN
      BY <1>2, <2>2, <2>4
    <3>2. PICK m \in Msgs : m = Msg!MessageAt(msgIdx)
      BY <1>2 DEF Msgs
    <3>3. IF Msg!Tells(m) THEN Says(m, telNum', retVal') ELSE telNum' = telNum /\ retVal' = retVal
      BY <1>1, <2>1, <3>11, <3>2, MessageSays
    <3>4. len = msgBuf[msgIdx + 1] /\ msgIdx + 1 < MSG_BUFLEN
      BY <1>1, <3>11, ReadsTheMessage
    <3>5. Msg!Messages[msgIdx] = <<m>> \o Msg!Messages[msgIdx']
      <4>1. ~NoMessage(msgIdx)
        BY <1>1, <1>2, <2>2, <2>4, <3>4 DEF NoMessage
      <4> QED  BY <1>1, <1>2, <2>1, <3>2, <3>4, <4>1, MessagesAre
    <3>6. Msg!Messages[msgIdx'] \in Seq(Msgs)
      BY <1>1, <2>3, MessagesAre DEF PayloadTypeOK
    <3>7. Msg!Messages[0] = Append(ms, m) \o Msg!Messages[msgIdx']
      <4> DEFINE rest == Msg!Messages[msgIdx']
      <4>1. rest \in Seq(Msgs)
        BY <3>6
      <4> HIDE DEF rest
      <4>2. ms \o (<<m>> \o rest) = Append(ms, m) \o rest
        <5>1. <<m>> \in Seq(Msgs)
          BY <3>2
        <5>2. ms \o (<<m>> \o rest) = (ms \o <<m>>) \o rest
          BY <4>1, <5>1, ConcatAssociative
        <5>3. Append(ms, m) = ms \o <<m>>
          BY <3>2, AppendIsConcat
        <5> QED  BY <5>2, <5>3
      <4> QED  BY <3>1, <3>5, <4>2 DEF rest
    <3>8. Verdict(Append(ms, m), telNum', retVal') /\ Append(ms, m) \in Seq(Msgs)
      BY <3>1, <3>2, <3>3, VerdictOfOneMore
    <3>9. Msg!Messages' = Msg!Messages /\ Msgs' = Msgs
      BY <1>1 DEF Msg!Messages, Msg!MessageAt, Msgs
    <3>10. Verdict(Append(ms, m), telNum, retVal)' = Verdict(Append(ms, m), telNum', retVal')
      BY DEF Verdict, Telling, Says, Msg!Tells, Msg!Shown, Msg!AbsentName, Msg!Blanks, Msg!NumOk
    <3> QED  BY <2>1, <2>3, <3>7, <3>8, <3>9, <3>10 DEF MessagesInv
  <2>5. CASE ~(msgIdx + 2 + len <= msgDataLen)
    BY <1>1, <2>1, <2>3, <2>5 DEF MessagesInv
  <2> QED  BY <2>4, <2>5
<1> QED  BY <1>4, <1>5

\* No message is left, or ParseMessages has returned.
LEMMA ParseDoneKeeps ==
  ASSUME MessagesInv, UNCHANGED <<layer, msgBuf, msgDataLen, msgIdx, telNum, retVal>>,
         \/ pc' = pc
         \/ pc = "parsing" /\ pc' = "done" /\ (msgIdx < msgDataLen => msgBuf[msgIdx] = 0)
  PROVE  MessagesInv'
<1> SUFFICES ASSUME layer = "messages" PROVE MessagesInv'
  BY DEF MessagesInv
<1>1. PayloadTypeOK /\ pc \in {"parsing", "done", "astray"}
  BY DEF MessagesInv
<1>2. PayloadTypeOK'
  BY <1>1 DEF PayloadTypeOK
<1>3. ASSUME pc' # "astray", msgIdx' <= msgDataLen'
      PROVE  (\E ms \in Seq(Msgs) : Msg!Messages[0] = ms \o Msg!Messages[msgIdx] /\ Verdict(ms, telNum, retVal))'
  <2>1. PICK ms \in Seq(Msgs) : Msg!Messages[0] = ms \o Msg!Messages[msgIdx] /\ Verdict(ms, telNum, retVal)
    BY <1>1, <1>3 DEF MessagesInv
  <2>2. Msg!Messages' = Msg!Messages /\ Msgs' = Msgs
    BY DEF Msg!Messages, Msg!MessageAt, Msgs
  <2>3. Verdict(ms, telNum, retVal)' = Verdict(ms, telNum', retVal')
    BY DEF Verdict, Telling, Says, Msg!Tells, Msg!Shown, Msg!AbsentName, Msg!Blanks, Msg!NumOk
  <2> QED  BY <2>1, <2>2, <2>3
<1>4. pc' = "done" => msgIdx' >= msgDataLen' \/ msgBuf'[msgIdx'] = 0
  BY <1>1 DEF MessagesInv, PayloadTypeOK
<1> QED  BY <1>1, <1>2, <1>3, <1>4 DEF MessagesInv

\* main.c:382-452, cid.c:69-99: whatever messages a frame brings, in whatever order, when
\* ParseMessages returns the number on the display and the verdict are those of the
\* last message of its payload that says who calls, unless a message of the frame goes
\* on behind the payload.
THEOREM VerdictIsOfTheCaller == McSpec => []VerdictIsOfTheNumber
<1>1. McInit => MessagesInv
  BY MessagesStart DEF McInit, MessagesInv
<1>2. MessagesInv /\ [McNext]_<<layer, link, msg>> => MessagesInv'
  <2> SUFFICES ASSUME MessagesInv, [McNext]_<<layer, link, msg>> PROVE MessagesInv'
    OBVIOUS
  <2>1. UNCHANGED layer
    BY DEF McNext
  <2>2. CASE UNCHANGED msg
    BY <2>1, <2>2, ParseDoneKeeps DEF msg
  <2>3. CASE layer = "messages" /\ Msg!ParseMessage
    BY <2>1, <2>3, ParseMessageKeeps
  <2>4. CASE layer = "messages" /\ Msg!ParseDone
    BY <2>1, <2>4, ParseDoneKeeps DEF Msg!ParseDone
  <2> QED  BY <2>2, <2>3, <2>4 DEF McNext, Msg!Next
<1>3. MessagesInv => VerdictIsOfTheNumber
  <2> SUFFICES ASSUME MessagesInv, layer = "messages", pc = "done", msgIdx <= msgDataLen
               PROVE  Msg!VerdictIsOfTheNumber
    BY DEF VerdictIsOfTheNumber, Msg!VerdictIsOfTheNumber
  <2>1. PICK ms \in Seq(Msgs) : Msg!Messages[0] = ms \o Msg!Messages[msgIdx] /\ Verdict(ms, telNum, retVal)
    BY DEF MessagesInv
  <2>2. Msg!Messages[msgIdx] = <<>>
    <3>1. PayloadTypeOK /\ msgIdx \in Nat /\ msgDataLen \in Nat
      BY MsgAssumption DEF MessagesInv, PayloadTypeOK
    <3>2. NoMessage(msgIdx)
      BY <3>1 DEF MessagesInv, NoMessage
    <3> QED  BY <3>1, <3>2, MessagesAre
  <2>3. Msg!Messages[0] = ms
    BY <2>1, <2>2
  <2> DEFINE who == Telling(ms)
             last == CHOOSE k \in who : \A j \in who : j <= k
  <2>4. CASE who = {} /\ telNum = Msg!Blanks /\ retVal = Msg!NumOk
    BY <2>3, <2>4 DEF Msg!VerdictIsOfTheNumber, Telling
  <2>5. CASE who # {} /\ last \in who /\ Says(ms[last], telNum, retVal)
    BY <2>3, <2>5 DEF Msg!VerdictIsOfTheNumber, Telling, Says
  <2>6. ASSUME NEW k \in who, \A j \in who : j <= k, Says(ms[k], telNum, retVal)
        PROVE  who # {} /\ last \in who /\ Says(ms[last], telNum, retVal)
    <3>1. who \subseteq Nat
      BY <2>1 DEF Telling
    <3> HIDE DEF who
    <3>2. last \in who /\ \A j \in who : j <= last
      BY <2>6
    <3>3. last = k
      <4> HIDE DEF last
      <4>1. last \in Nat /\ k \in Nat /\ last <= k /\ k <= last
        BY <2>6, <3>1, <3>2
      <4> QED  BY <4>1
    <3> QED  BY <2>6, <3>2, <3>3
  <2> QED  BY <2>1, <2>4, <2>5, <2>6 DEF Verdict
<1> QED  BY <1>1, <1>2, <1>3, PTL DEF McSpec
================================================================================
