--------------------------- MODULE TcpServerProof ---------------------------
(***************************************************************************)
(* The TCP server, proved for every set of clients and descriptors, every  *)
(* alphabet of bytes, every size of chunk and every number of connections: *)
(* process_buf frames commands as Framing says, however the stream is cut, *)
(* and every accepted connection is closed again.                          *)
(*                                                                         *)
(* The framing needs what the loop over a chunk computes for every chunk.  *)
(* The states of the loop are a function on 0..Len(chunk); if one of them  *)
(* were wrong, the first wrong one would be made by a right turn of the    *)
(* loop from a right state (Least gives the first one).                    *)
(***************************************************************************)
EXTENDS TcpServer, TLAPS, SequenceTheorems, WellFoundedInduction

RunAt(s, i) == Abstract!RunAt(s, i)
Ends(s) == Abstract!Ends(s)

\* The pairs of numbers in order.
Less == {ss \in Nat \X Nat : ss[1] < ss[2]}

\* Every set of natural numbers that is not empty has a least element.
LEMMA Least == ASSUME NEW T \in SUBSET Nat, T # {} PROVE \E x \in T : \A y \in T : x <= y
<1>1. IsWellFoundedOn(Less, Nat)
  BY NatLessThanWellFounded DEF OpToRel, Less
<1>2. PICK x \in T : \A y \in T : ~(<<y, x>> \in Less)
  BY <1>1, WFMin
<1>3. ASSUME NEW y \in T, ~(x <= y) PROVE FALSE
  <2>1. x \in Nat /\ y \in Nat /\ y < x
    BY <1>3
  <2>2. <<y, x>> \in Nat \X Nat /\ <<y, x>>[1] = y /\ <<y, x>>[2] = x
    BY <2>1
  <2>3. <<y, x>> \in Less
    BY <2>1, <2>2, Zenon DEF Less
  <2>4. QED BY <1>2, <1>3, <2>3
<1>4. QED BY <1>3

\* The run of newlines that ends at i has length n.
IsRun(s, i, n) == (n = i \/ s[i - n] # NL) /\ \A k \in (i - n + 1)..i : s[k] = NL

\* There is one such run.
LEMMA OneRun ==
  ASSUME NEW s, NEW i \in Nat
  PROVE  /\ RunAt(s, i) \in 0..i /\ IsRun(s, i, RunAt(s, i))
         /\ \A n \in 0..i : IsRun(s, i, n) => n = RunAt(s, i)
<1> DEFINE T == {n \in 0..i : n = i \/ s[i - n] # NL}
<1>1. T \in SUBSET Nat /\ i \in T
  OBVIOUS
<1> HIDE DEF T
<1>2. PICK n \in T : \A m \in T : n <= m
  BY <1>1, Least
<1>3. n \in 0..i /\ (n = i \/ s[i - n] # NL)
  BY <1>2 DEF T
<1>4. ASSUME NEW k \in (i - n + 1)..i PROVE s[k] = NL
  <2>1. i - k \in 0..i /\ i - k < n /\ i - (i - k) = k
    BY <1>3, <1>4
  <2>2. i - k \notin T
    BY <1>1, <1>2, <2>1
  <2>3. QED BY <2>1, <2>2 DEF T
<1>5. IsRun(s, i, n)
  BY <1>3, <1>4 DEF IsRun
<1>6. ASSUME NEW x \in 0..i, NEW y \in 0..i, IsRun(s, i, x), IsRun(s, i, y), x < y PROVE FALSE
  <2>1. x # i /\ s[i - x] # NL
    BY <1>6 DEF IsRun
  <2>2. i - x \in (i - y + 1)..i
    BY <1>6
  <2>3. QED BY <1>6, <2>1, <2>2 DEF IsRun
<1>7. RunAt(s, i) = CHOOSE x \in 0..i : IsRun(s, i, x)
  BY DEF RunAt, Abstract!RunAt, IsRun
<1>8. RunAt(s, i) \in 0..i /\ IsRun(s, i, RunAt(s, i))
  BY ONLY <1>3, <1>5, <1>7
<1>9. ASSUME NEW x \in 0..i, IsRun(s, i, x) PROVE x = RunAt(s, i)
  <2>1. x \in Nat /\ RunAt(s, i) \in Nat
    BY <1>8
  <2>2. ~(x < RunAt(s, i)) /\ ~(RunAt(s, i) < x)
    BY <1>6, <1>8, <1>9
  <2>3. QED BY ONLY <2>1, <2>2
<1>10. QED BY <1>8, <1>9

\* The run of newlines that ends at i.
LEMMA RunStep ==
  ASSUME NEW s, NEW i \in Nat \ {0}
  PROVE  /\ RunAt(s, 0) = 0
         /\ RunAt(s, i) \in Nat /\ RunAt(s, i - 1) \in Nat
         /\ RunAt(s, i) = IF s[i] = NL THEN RunAt(s, i - 1) + 1 ELSE 0
<1>1. i \in Nat /\ i - 1 \in Nat
  OBVIOUS
<1>2. RunAt(s, 0) = 0
  <2>1. RunAt(s, 0) \in 0..0
    BY OneRun
  <2>2. QED BY <2>1
<1>3. RunAt(s, i) \in 0..i /\ RunAt(s, i - 1) \in 0..(i - 1)
  BY <1>1, OneRun
<1> DEFINE r == RunAt(s, i - 1)
<1>4. CASE s[i] = NL
  <2>1. IsRun(s, i - 1, r) /\ r \in 0..(i - 1)
    BY <1>1, OneRun
  <2> HIDE DEF r
  <2>2. r + 1 = i \/ s[i - (r + 1)] # NL
    <3>1. i - (r + 1) = i - 1 - r
      BY <2>1
    <3>2. QED BY <2>1, <3>1 DEF IsRun
  <2>3. \A k \in (i - (r + 1) + 1)..i : k = i \/ k \in (i - 1 - r + 1)..(i - 1)
    BY <2>1
  <2>4. IsRun(s, i, r + 1)
    BY <1>4, <2>1, <2>2, <2>3 DEF IsRun
  <2>5. r + 1 \in 0..i
    BY <2>1
  <2>6. RunAt(s, i) = r + 1
    BY <1>1, <2>4, <2>5, OneRun
  <2>7. QED BY <1>2, <1>3, <1>4, <2>6 DEF r
<1>5. CASE s[i] # NL
  <2>1. 0 \in 0..i /\ i - 0 = i /\ (i - 0 + 1)..i = {}
    OBVIOUS
  <2>2. IsRun(s, i, 0)
    BY <1>5, <2>1 DEF IsRun
  <2>3. RunAt(s, i) = 0
    BY <1>1, <2>1, <2>2, OneRun
  <2>4. QED BY <1>2, <1>3, <1>5, <2>3
<1>6. QED BY <1>4, <1>5

\* What comes after i does not matter for the runs and ends up to i.
LEMMA RunSame ==
  ASSUME NEW s, NEW t, NEW i \in Nat, \A k \in 1..i : s[k] = t[k]
  PROVE  RunAt(s, i) = RunAt(t, i)
<1> DEFINE r == RunAt(s, i)
<1>1. r \in 0..i /\ IsRun(s, i, r)
  BY OneRun
<1> HIDE DEF r
<1>2. IsRun(t, i, r)
  BY <1>1 DEF IsRun
<1>3. QED BY <1>1, <1>2, OneRun DEF r

\* An end is the second of two newlines, and no command ends with a newline.
LEMMA EndIs ==
  ASSUME NEW s \in Seq(Byte), NEW e, NEW i \in Ends(s), LastEnd(s, e, i)
  PROVE  /\ i \in 2..Len(s) /\ s[i] = NL /\ s[i - 1] = NL /\ e <= i - 2
         /\ e < i - 2 => s[i - 2] # NL
<1>1. i \in 1..Len(s) /\ s[i] = NL /\ RunAt(s, i) % 2 = 0 /\ Len(s) \in Nat
  BY DEF Ends, Abstract!Ends, RunAt
<1>2. /\ RunAt(s, i) = RunAt(s, i - 1) + 1 /\ RunAt(s, i - 1) \in Nat
      /\ RunAt(s, 0) = 0
  BY <1>1, RunStep
<1> DEFINE r == RunAt(s, i - 1)
<1>3. r % 2 = 1
  <2>1. r \in Nat /\ (r + 1) % 2 = 0
    BY <1>1, <1>2
  <2> HIDE DEF r
  <2>2. QED BY ONLY <2>1
<1>4. i # 1
  BY <1>2, <1>3
<1>5. i - 1 \in Nat \ {0}
  BY <1>1, <1>4
<1>6. /\ RunAt(s, i - 1) = IF s[i - 1] = NL THEN RunAt(s, i - 1 - 1) + 1 ELSE 0
      /\ RunAt(s, i - 1 - 1) \in Nat
  BY <1>5, RunStep
<1>7. s[i - 1] = NL /\ RunAt(s, i - 2) % 2 = 0
  BY <1>1, <1>3, <1>6
<1>8. \A j \in 1..Len(s) : j \in Ends(s) <=> s[j] = NL /\ RunAt(s, j) % 2 = 0
  BY DEF Ends, Abstract!Ends, RunAt
<1>9. e \in 0..(i - 1) /\ (e = 0 \/ e \in Ends(s)) /\ \A j \in Ends(s) : j < i => j <= e
  BY DEF LastEnd, Ends
<1>10. i - 1 \notin Ends(s)
  BY ONLY <1>1, <1>3, <1>5, <1>8
<1>11. e <= i - 2
  BY <1>1, <1>5, <1>9, <1>10
<1>12. ASSUME e < i - 2 PROVE s[i - 2] # NL
  <2>1. i - 2 \in 1..Len(s) /\ i - 2 < i /\ ~(i - 2 <= e)
    BY <1>1, <1>9, <1>12
  <2>2. i - 2 \notin Ends(s)
    BY <1>9, <2>1
  <2>3. QED BY <1>7, <1>8, <2>1, <2>2
<1>13. QED BY <1>1, <1>4, <1>7, <1>11, <1>12

\* Where a command starts.
LEMMA CommandIs ==
  ASSUME NEW s \in Seq(Byte), NEW i \in Nat, NEW e, LastEnd(s, e, i)
  PROVE  Abstract!CommandAt(s, i) = SubSeq(s, e + 1, i - 2)
<1> DEFINE before == {j \in Abstract!Ends(s) : j < i}
<1>1. e \in 0..(i - 1) /\ (e = 0 \/ e \in Abstract!Ends(s)) /\ \A j \in before : j <= e
  BY DEF LastEnd
<1>2. before \subseteq Nat \ {0}
  BY DEF Abstract!Ends
<1>3. CASE before = {}
  <2>1. e = 0
    BY <1>1, <1>3
  <2>2. QED BY <1>3, <2>1 DEF Abstract!CommandAt, Abstract!Start
<1>4. CASE before # {}
  <2>1. e \in before
    BY <1>1, <1>2, <1>4
  <2> DEFINE c == CHOOSE j \in before : \A k \in before : k <= j
  <2>2. c \in before /\ \A k \in before : k <= c
    BY <1>1, <2>1
  <2>3. c = e
    BY <1>1, <1>2, <2>1, <2>2
  <2>4. Abstract!Start(s, i) = 1 + c
    BY <1>4 DEF Abstract!Start
  <2> HIDE DEF c
  <2>5. QED BY <1>1, <2>3, <2>4 DEF Abstract!CommandAt
<1>5. QED BY <1>3, <1>4

\* The states of the loop over the first m bytes.
IsScan(chunk, st, m) ==
  st = [i \in 0..m |-> IF i = 0 THEN Unscanned ELSE ScanByte(chunk, st[i - 1], i)]

\* The loop of process_buf has a state after each byte.
LEMMA ScanStates ==
  ASSUME NEW chunk, Len(chunk) \in Nat
  PROVE  \E st : /\ st[0] = Unscanned
                 /\ \A i \in 1..Len(chunk) : st[i] = ScanByte(chunk, st[i - 1], i)
                 /\ Scan(chunk) = st[Len(chunk)]
<1> DEFINE Stuck == {m \in Nat : ~\E st : IsScan(chunk, st, m)}
<1>1. Stuck = {}
  <2> SUFFICES ASSUME Stuck # {} PROVE FALSE
    OBVIOUS
  <2>1. PICK m \in Stuck : \A l \in Stuck : m <= l
    <3>1. Stuck \in SUBSET Nat
      OBVIOUS
    <3> HIDE DEF Stuck
    <3>2. QED BY <3>1, Least
  <2>2. m \in Nat /\ ~\E st : IsScan(chunk, st, m)
    BY <2>1
  <2>3. CASE m = 0
    <3> DEFINE f == [i \in 0..0 |-> Unscanned]
    <3>1. \A i \in 0..0 : i = 0
      OBVIOUS
    <3>2. f = [i \in 0..0 |-> IF i = 0 THEN Unscanned ELSE ScanByte(chunk, f[i - 1], i)]
      BY <3>1
    <3>3. IsScan(chunk, f, 0)
      BY ONLY <3>2 DEF IsScan
    <3>4. QED BY <2>2, <2>3, <3>3
  <2>4. CASE m # 0
    <3>1. m - 1 \in Nat /\ ~(m <= m - 1)
      BY <2>2, <2>4
    <3>2. m - 1 \notin Stuck
      BY <2>1, <3>1
    <3>3. PICK f : IsScan(chunk, f, m - 1)
      BY <3>1, <3>2
    <3> DEFINE g == [i \in 0..m |-> IF i = m THEN ScanByte(chunk, f[m - 1], m) ELSE f[i]]
    <3>4. \A i \in 0..(m - 1) :
            f[i] = IF i = 0 THEN Unscanned ELSE ScanByte(chunk, f[i - 1], i)
      BY <3>3 DEF IsScan
    <3>5. \A i \in 0..m : i # 0 => g[i - 1] = f[i - 1]
      BY <2>2
    <3>6. \A i \in 0..m : g[i] = IF i = 0 THEN Unscanned ELSE ScanByte(chunk, g[i - 1], i)
      <4>1. \A i \in 0..m : i = m \/ i \in 0..(m - 1)
        BY <2>2
      <4>2. QED BY <2>2, <2>4, <3>4, <3>5, <4>1
    <3>7. g = [i \in 0..m |-> g[i]]
      OBVIOUS
    <3> HIDE DEF g
    <3>8. g = [i \in 0..m |-> IF i = 0 THEN Unscanned ELSE ScanByte(chunk, g[i - 1], i)]
      BY ONLY <3>6, <3>7
    <3>9. IsScan(chunk, g, m)
      BY ONLY <3>8 DEF IsScan
    <3>10. QED BY <2>2, <3>9
  <2>5. QED BY <2>3, <2>4
<1> DEFINE n == Len(chunk)
           c == CHOOSE st : IsScan(chunk, st, n)
<1>2. \E st : IsScan(chunk, st, n)
  BY <1>1
<1>3. IsScan(chunk, c, n)
  BY <1>2
<1>4. Scan(chunk) = c[n]
  BY DEF Scan, IsScan
<1> HIDE DEF c
<1>5. c[0] = Unscanned /\ \A i \in 1..n : c[i] = ScanByte(chunk, c[i - 1], i)
  BY <1>3 DEF IsScan
<1>6. QED BY <1>4, <1>5

\* The stream with a chunk: what was received before it, and the chunk.
LEMMA Joined ==
  ASSUME NEW s \in Seq(Byte), NEW chunk \in Seq(Byte)
  PROVE  /\ s \o chunk \in Seq(Byte) /\ Len(s \o chunk) = Len(s) + Len(chunk)
         /\ Len(s) \in Nat /\ Len(chunk) \in Nat
         /\ \A k \in 1..Len(s) : (s \o chunk)[k] = s[k]
         /\ \A k \in 1..Len(chunk) : (s \o chunk)[Len(s) + k] = chunk[k]
<1>1. Len(s) \in Nat /\ Len(chunk) \in Nat
  OBVIOUS
<1>2. /\ s \o chunk \in Seq(Byte) /\ Len(s \o chunk) = Len(s) + Len(chunk)
      /\ \A i \in 1..(Len(s) + Len(chunk)) :
           (s \o chunk)[i] = IF i <= Len(s) THEN s[i] ELSE chunk[i - Len(s)]
  BY ConcatProperties
<1>3. \A k \in 1..Len(s) : k \in 1..(Len(s) + Len(chunk)) /\ k <= Len(s)
  BY <1>1
<1>4. \A k \in 1..Len(chunk) :
        /\ Len(s) + k \in 1..(Len(s) + Len(chunk)) /\ ~(Len(s) + k <= Len(s))
        /\ Len(s) + k - Len(s) = k
  BY <1>1
<1>5. QED BY <1>1, <1>2, <1>3, <1>4

\* A part of a sequence.
LEMMA Part ==
  ASSUME NEW S, NEW s \in Seq(S), NEW m \in Nat \ {0}, NEW n \in 0..Len(s)
  PROVE  /\ SubSeq(s, m, n) \in Seq(S) /\ Len(SubSeq(s, m, n)) = IF m <= n THEN n - m + 1 ELSE 0
         /\ \A i \in 1..(n - m + 1) : SubSeq(s, m, n)[i] = s[m + i - 1]
<1>1. Len(s) \in Nat /\ \A i \in 1..Len(s) : s[i] \in S
  OBVIOUS
<1>2. m \in Int /\ n \in Int /\ \A i \in m..n : s[i] \in S
  BY <1>1
<1>3. QED BY <1>2, SubSeqProperties

\* What was kept and the first m bytes of the chunk are a part of the stream.
LEMMA Kept ==
  ASSUME NEW s \in Seq(Byte), NEW chunk \in Seq(Byte), NEW e \in 0..Len(s), NEW m \in 0..Len(chunk)
  PROVE  /\ SubSeq(s, e + 1, Len(s)) \in Seq(Byte)
         /\ SubSeq(s, e + 1, Len(s)) \o SubSeq(chunk, 1, m) = SubSeq(s \o chunk, e + 1, Len(s) + m)
<1> DEFINE a == Len(s)
           all == s \o chunk
           x == SubSeq(s, e + 1, a)
           y == SubSeq(chunk, 1, m)
           z == SubSeq(all, e + 1, a + m)
<1>1. /\ all \in Seq(Byte) /\ Len(all) = a + Len(chunk) /\ a \in Nat /\ Len(chunk) \in Nat
      /\ \A k \in 1..a : all[k] = s[k]
      /\ \A k \in 1..Len(chunk) : all[a + k] = chunk[k]
  BY Joined
<1>2. e + 1 \in Nat \ {0} /\ a \in 0..a /\ 1 \in Nat \ {0} /\ a + m \in 0..Len(all)
  BY <1>1
<1>3. /\ x \in Seq(Byte) /\ Len(x) = IF e + 1 <= a THEN a - (e + 1) + 1 ELSE 0
      /\ \A i \in 1..(a - (e + 1) + 1) : x[i] = s[e + 1 + i - 1]
  BY <1>2, Part
<1>4. /\ y \in Seq(Byte) /\ Len(y) = IF 1 <= m THEN m - 1 + 1 ELSE 0
      /\ \A i \in 1..(m - 1 + 1) : y[i] = chunk[1 + i - 1]
  BY <1>2, Part
<1> HIDE DEF all
<1>5. /\ z \in Seq(Byte) /\ Len(z) = IF e + 1 <= a + m THEN a + m - (e + 1) + 1 ELSE 0
      /\ \A i \in 1..(a + m - (e + 1) + 1) : z[i] = all[e + 1 + i - 1]
  BY <1>1, <1>2, Part
<1> HIDE DEF a, x, y, z
<1>6. Len(x) = a - e /\ Len(y) = m /\ Len(z) = a + m - e
  BY <1>1, <1>3, <1>4, <1>5 DEF a
<1>7. /\ x \o y \in Seq(Byte) /\ Len(x \o y) = Len(x) + Len(y)
      /\ \A i \in 1..(Len(x) + Len(y)) : (x \o y)[i] = IF i <= Len(x) THEN x[i] ELSE y[i - Len(x)]
  BY <1>3, <1>4, ConcatProperties
<1>8. ASSUME NEW i \in 1..(a + m - e) PROVE (x \o y)[i] = z[i]
  <2>1. z[i] = all[e + i]
    <3>1. i \in 1..(a + m - (e + 1) + 1) /\ e + 1 + i - 1 = e + i
      BY <1>1
    <3>2. QED BY <1>5, <3>1
  <2>2. (x \o y)[i] = IF i <= Len(x) THEN x[i] ELSE y[i - Len(x)]
    <3>1. i \in 1..(Len(x) + Len(y))
      BY <1>1, <1>6
    <3>2. QED BY <1>7, <3>1
  <2>3. CASE i <= a - e
    <3>1. i \in 1..(a - (e + 1) + 1) /\ e + 1 + i - 1 = e + i /\ e + i \in 1..a
      BY <1>1, <2>3
    <3>2. QED BY <1>1, <1>3, <1>6, <2>1, <2>2, <2>3, <3>1
  <2>4. CASE ~(i <= a - e)
    <3> DEFINE j == i - (a - e)
    <3>1. j \in 1..(m - 1 + 1) /\ j \in 1..Len(chunk) /\ 1 + j - 1 = j /\ a + j = e + i
      BY <1>1, <2>4
    <3> HIDE DEF j
    <3>2. y[j] = all[e + i]
      BY <1>1, <1>4, <3>1
    <3>3. QED BY <1>6, <2>1, <2>2, <2>4, <3>2 DEF j
  <2>5. QED BY <2>3, <2>4
<1>9. x \o y = z
  <2>1. Len(x \o y) = a + m - e /\ Len(x \o y) = Len(z)
    BY ONLY <1>1, <1>6, <1>7, m \in 0..Len(chunk), e \in 0..a DEF a
  <2>2. \A i \in 1..Len(x \o y) : (x \o y)[i] = z[i]
    BY ONLY <1>8, <2>1
  <2>3. x \o y \in Seq(Byte) /\ z \in Seq(Byte)
    BY <1>5, <1>7
  <2>4. QED BY ONLY <2>1, <2>2, <2>3, SeqEqual
<1>10. QED BY <1>3, <1>9 DEF a, x, y, z, all

\* A part of the chunk is a part of the stream.
LEMMA Shifted ==
  ASSUME NEW s \in Seq(Byte), NEW chunk \in Seq(Byte), NEW l \in 0..Len(chunk),
         NEW m \in 0..Len(chunk)
  PROVE  SubSeq(chunk, l + 1, m) = SubSeq(s \o chunk, Len(s) + l + 1, Len(s) + m)
<1> DEFINE a == Len(s)
           all == s \o chunk
           y == SubSeq(chunk, l + 1, m)
           z == SubSeq(all, a + l + 1, a + m)
<1>1. /\ all \in Seq(Byte) /\ Len(all) = a + Len(chunk) /\ a \in Nat /\ Len(chunk) \in Nat
      /\ \A k \in 1..Len(chunk) : all[a + k] = chunk[k]
  BY Joined
<1>2. l + 1 \in Nat \ {0} /\ a + l + 1 \in Nat \ {0} /\ a + m \in 0..Len(all)
  BY <1>1
<1>4. /\ y \in Seq(Byte) /\ Len(y) = IF l + 1 <= m THEN m - (l + 1) + 1 ELSE 0
      /\ \A i \in 1..(m - (l + 1) + 1) : y[i] = chunk[l + 1 + i - 1]
  BY <1>2, Part
<1> HIDE DEF all
<1>5. /\ z \in Seq(Byte) /\ Len(z) = IF a + l + 1 <= a + m THEN a + m - (a + l + 1) + 1 ELSE 0
      /\ \A i \in 1..(a + m - (a + l + 1) + 1) : z[i] = all[a + l + 1 + i - 1]
  BY <1>1, <1>2, Part
<1> HIDE DEF a, y, z
<1>6. Len(y) = Len(z) /\ Len(y) = IF l + 1 <= m THEN m - l ELSE 0
  BY <1>1, <1>4, <1>5
<1>7. ASSUME NEW i \in 1..Len(y) PROVE y[i] = z[i]
  <2>1. /\ i \in 1..(m - (l + 1) + 1) /\ i \in 1..(a + m - (a + l + 1) + 1)
        /\ l + 1 + i - 1 = l + i /\ a + l + 1 + i - 1 = a + (l + i) /\ l + i \in 1..Len(chunk)
    BY <1>1, <1>6
  <2>2. QED BY <1>1, <1>4, <1>5, <2>1
<1>8. y = z
  BY <1>4, <1>5, <1>6, <1>7, SeqEqual
<1>9. QED BY <1>8 DEF a, y, z, all

\* A position is an end if it has a newline and the run up to it is even.
LEMMA EndsAre ==
  ASSUME NEW s \in Seq(Byte)
  PROVE  /\ Ends(s) \subseteq 1..Len(s) /\ Len(s) \in Nat
         /\ \A i \in 1..Len(s) : i \in Ends(s) <=> s[i] = NL /\ RunAt(s, i) % 2 = 0
BY DEF Ends, Abstract!Ends, RunAt

\* A chunk does not change the runs and the ends of what was received before it.
LEMMA ChunkKeepsEnds ==
  ASSUME NEW s \in Seq(Byte), NEW chunk \in Seq(Byte)
  PROVE  /\ RunAt(s \o chunk, Len(s)) = RunAt(s, Len(s))
         /\ \A i \in 1..Len(s) : i \in Ends(s \o chunk) <=> i \in Ends(s)
<1> DEFINE all == s \o chunk
<1>1. /\ all \in Seq(Byte) /\ Len(all) = Len(s) + Len(chunk) /\ Len(s) \in Nat
      /\ Len(chunk) \in Nat /\ \A k \in 1..Len(s) : all[k] = s[k]
  BY Joined
<1> HIDE DEF all
<1>2. \A i \in 0..Len(s) : RunAt(all, i) = RunAt(s, i)
  <2> SUFFICES ASSUME NEW i \in 0..Len(s) PROVE RunAt(all, i) = RunAt(s, i)
    OBVIOUS
  <2>1. i \in Nat /\ \A k \in 1..i : all[k] = s[k]
    BY <1>1
  <2>2. QED BY <2>1, RunSame
<1>3. ASSUME NEW i \in 1..Len(s) PROVE i \in Ends(all) <=> i \in Ends(s)
  <2>1. i \in 1..Len(all) /\ i \in 0..Len(s)
    BY <1>1
  <2>2. /\ i \in Ends(all) <=> all[i] = NL /\ RunAt(all, i) % 2 = 0
        /\ i \in Ends(s) <=> s[i] = NL /\ RunAt(s, i) % 2 = 0
    BY <1>1, <2>1, EndsAre
  <2>3. QED BY <1>1, <1>2, <2>1, <2>2
<1>4. Len(s) \in 0..Len(s)
  BY <1>1
<1>5. QED BY <1>2, <1>3, <1>4 DEF all

\* The second newline of a pair is an end; any other byte is not, and tells whether a pair began.
LEMMA NextByte ==
  ASSUME NEW s \in Seq(Byte), NEW i \in 1..Len(s), NEW eol \in BOOLEAN,
         eol <=> RunAt(s, i - 1) % 2 = 1
  PROVE  /\ i \in Ends(s) <=> s[i] = NL /\ eol
         /\ RunAt(s, i) % 2 = 1 <=> s[i] = NL /\ ~eol
<1>1. i \in Nat \ {0}
  OBVIOUS
<1>2. /\ RunAt(s, i) = IF s[i] = NL THEN RunAt(s, i - 1) + 1 ELSE 0
      /\ RunAt(s, i - 1) \in Nat
  BY <1>1, RunStep
<1>3. i \in Ends(s) <=> s[i] = NL /\ RunAt(s, i) % 2 = 0
  BY EndsAre
<1> DEFINE r == RunAt(s, i - 1)
           n == RunAt(s, i)
<1>4. /\ r \in Nat /\ (eol <=> r % 2 = 1) /\ n = IF s[i] = NL THEN r + 1 ELSE 0
      /\ i \in Ends(s) <=> s[i] = NL /\ n % 2 = 0
  BY <1>2, <1>3
<1> HIDE DEF r, n
<1>5. /\ r % 2 = 1 <=> (r + 1) % 2 = 0
      /\ r % 2 = 0 <=> (r + 1) % 2 = 1
      /\ 0 % 2 = 0 /\ r % 2 \in {0, 1} /\ (r + 1) % 2 \in {0, 1}
  BY ONLY <1>4
<1>6. (i \in Ends(s) <=> s[i] = NL /\ eol) /\ (n % 2 = 1 <=> s[i] = NL /\ ~eol)
  <2>1. CASE s[i] = NL
    <3>1. n = r + 1
      BY <1>4, <2>1
    <3>2. QED BY ONLY <1>4, <1>5, <2>1, <3>1
  <2>2. CASE s[i] # NL
    <3>1. n = 0
      BY <1>4, <2>2
    <3>2. QED BY ONLY <1>4, <1>5, <2>2, <3>1
  <2>3. QED BY ONLY <2>1, <2>2
<1>7. QED BY <1>6 DEF n

\* The last end before the next position.
LEMMA NextEnd ==
  ASSUME NEW s \in Seq(Byte), NEW i \in Nat, NEW e, LastEnd(s, e, i)
  PROVE  /\ i \in Ends(s) => LastEnd(s, i, i + 1)
         /\ i \notin Ends(s) => LastEnd(s, e, i + 1)
<1>1. /\ e \in 0..(i - 1) /\ (e = 0 \/ e \in Ends(s))
      /\ \A j \in Ends(s) : j < i => j <= e
  BY DEF LastEnd, Ends
<1>2. Ends(s) \subseteq Nat
  BY EndsAre
<1>3. i \in Ends(s) => \A j \in Ends(s) : j < i + 1 => j <= i
  BY <1>2
<1>4. i \notin Ends(s) => \A j \in Ends(s) : j < i + 1 => j <= e
  BY <1>1, <1>2
<1>5. i \in 0..(i + 1 - 1) /\ e \in 0..(i + 1 - 1)
  BY <1>1
<1>6. QED BY <1>1, <1>3, <1>4, <1>5 DEF LastEnd, Ends

\* Where the loop over a chunk stands after i bytes: the last end is e, and what is not yet in a
\* command is kept or begins at start.
Stands(s, all, e, t, i) ==
  /\ LastEnd(all, e, Len(s) + i + 1)
  /\ \/ e <= Len(s) /\ t.keep = SubSeq(s, e + 1, Len(s)) /\ t.start = 1
     \/ e > Len(s) /\ t.keep = <<>> /\ t.start = e - Len(s) + 1

\* Trimming takes the last newline.
LEMMA TrimmedIs ==
  ASSUME NEW c \in Seq(Byte)
  PROVE  /\ (c = <<>> \/ c[Len(c)] # NL) => Trimmed(c) = c
         /\ c # <<>> /\ c[Len(c)] = NL => Trimmed(c) = SubSeq(c, 1, Len(c) - 1)
BY DEF Trimmed

\* A part of a part from its beginning.
LEMMA PartOfPart ==
  ASSUME NEW s \in Seq(Byte), NEW e \in 0..Len(s), NEW b \in 0..Len(s), e < b
  PROVE  LET c == SubSeq(s, e + 1, b)
         IN  /\ c \in Seq(Byte) /\ Len(c) = b - e /\ c # <<>> /\ c[Len(c)] = s[b]
             /\ SubSeq(c, 1, Len(c) - 1) = SubSeq(s, e + 1, b - 1)
<1> DEFINE c == SubSeq(s, e + 1, b)
           x == SubSeq(c, 1, Len(c) - 1)
           y == SubSeq(s, e + 1, b - 1)
<1>1. Len(s) \in Nat /\ e + 1 \in Nat \ {0} /\ b - 1 \in 0..Len(s)
  OBVIOUS
<1>2. /\ c \in Seq(Byte) /\ Len(c) = IF e + 1 <= b THEN b - (e + 1) + 1 ELSE 0
      /\ \A i \in 1..(b - (e + 1) + 1) : c[i] = s[e + 1 + i - 1]
  BY <1>1, Part
<1>3. /\ y \in Seq(Byte) /\ Len(y) = IF e + 1 <= b - 1 THEN b - 1 - (e + 1) + 1 ELSE 0
      /\ \A i \in 1..(b - 1 - (e + 1) + 1) : y[i] = s[e + 1 + i - 1]
  BY <1>1, Part
<1> HIDE DEF c
<1>4. Len(c) = b - e /\ Len(c) - 1 \in 0..Len(c) /\ b - (e + 1) + 1 = b - e
  BY <1>1, <1>2
<1>5. /\ x \in Seq(Byte) /\ Len(x) = IF 1 <= Len(c) - 1 THEN Len(c) - 1 - 1 + 1 ELSE 0
      /\ \A i \in 1..(Len(c) - 1 - 1 + 1) : x[i] = c[1 + i - 1]
  BY <1>2, <1>4, Part
<1> HIDE DEF x, y
<1>6. c[Len(c)] = s[b] /\ c # <<>>
  <2>1. Len(c) \in 1..(b - (e + 1) + 1) /\ e + 1 + Len(c) - 1 = b /\ Len(c) # 0
    BY <1>1, <1>4
  <2>2. QED BY <1>2, <2>1
<1>7. Len(x) = Len(y)
  BY <1>1, <1>3, <1>4, <1>5
<1>8. ASSUME NEW i \in 1..Len(x) PROVE x[i] = y[i]
  <2>1. /\ i \in 1..(Len(c) - 1 - 1 + 1) /\ i \in 1..(b - (e + 1) + 1)
        /\ i \in 1..(b - 1 - (e + 1) + 1) /\ 1 + i - 1 = i
    BY <1>1, <1>4, <1>5
  <2>2. QED BY ONLY <1>2, <1>3, <1>5, <2>1
<1>9. x = y
  BY ONLY <1>3, <1>5, <1>7, <1>8, SeqEqual
<1>10. QED BY <1>2, <1>4, <1>6, <1>9 DEF c, x, y

\* A part that ends before the chunk begins.
LEMMA PrefixSame ==
  ASSUME NEW s \in Seq(Byte), NEW chunk \in Seq(Byte), NEW e \in 0..Len(s), NEW b \in 0..Len(s)
  PROVE  SubSeq(s, e + 1, b) = SubSeq(s \o chunk, e + 1, b)
<1> DEFINE all == s \o chunk
           x == SubSeq(s, e + 1, b)
           y == SubSeq(all, e + 1, b)
<1>1. /\ all \in Seq(Byte) /\ Len(all) = Len(s) + Len(chunk) /\ Len(s) \in Nat
      /\ Len(chunk) \in Nat /\ \A k \in 1..Len(s) : all[k] = s[k]
  BY Joined
<1>2. e + 1 \in Nat \ {0} /\ b \in 0..Len(all)
  BY <1>1
<1> HIDE DEF all
<1>3. /\ x \in Seq(Byte) /\ Len(x) = IF e + 1 <= b THEN b - (e + 1) + 1 ELSE 0
      /\ \A i \in 1..(b - (e + 1) + 1) : x[i] = s[e + 1 + i - 1]
  BY <1>2, Part
<1>4. /\ y \in Seq(Byte) /\ Len(y) = IF e + 1 <= b THEN b - (e + 1) + 1 ELSE 0
      /\ \A i \in 1..(b - (e + 1) + 1) : y[i] = all[e + 1 + i - 1]
  BY <1>1, <1>2, Part
<1> HIDE DEF x, y
<1>5. ASSUME NEW i \in 1..Len(x) PROVE x[i] = y[i]
  <2>1. i \in 1..(b - (e + 1) + 1) /\ e + 1 + i - 1 \in 1..Len(s)
    BY <1>1, <1>3
  <2>2. QED BY ONLY <1>1, <1>3, <1>4, <2>1
<1>6. x = y
  BY ONLY <1>3, <1>4, <1>5, SeqEqual
<1>7. QED BY <1>6 DEF x, y, all

\* What the loop cuts out at the second newline is the command, but for the newline that a cut
\* terminator leaves.
LEMMA CutsCommand ==
  ASSUME NEW s \in Seq(Byte), NEW chunk \in Seq(Byte), NEW i \in 1..Len(chunk), NEW e, NEW t,
         Stands(s, s \o chunk, e, t, i - 1), Len(s) + i \in Ends(s \o chunk)
  PROVE  /\ t.keep \o SubSeq(chunk, t.start, i - 2) \in Seq(Byte)
         /\ Trimmed(t.keep \o SubSeq(chunk, t.start, i - 2))
              = Abstract!CommandAt(s \o chunk, Len(s) + i)
<1> DEFINE a == Len(s)
           all == s \o chunk
           c == t.keep \o SubSeq(chunk, t.start, i - 2)
<1>1. /\ all \in Seq(Byte) /\ Len(all) = a + Len(chunk) /\ a \in Nat /\ Len(chunk) \in Nat
      /\ \A k \in 1..a : all[k] = s[k]
  BY Joined
<1>2. a + i - 1 + 1 = a + i /\ a + (i - 1) + 1 = a + i /\ a + i \in Nat /\ i \in Nat
  BY <1>1
<1>3. LastEnd(all, e, a + i)
  BY <1>2 DEF Stands
<1>4. a + i \in Ends(all)
  OBVIOUS
<1>5. /\ \/ e <= a /\ t.keep = SubSeq(s, e + 1, a) /\ t.start = 1
         \/ e > a /\ t.keep = <<>> /\ t.start = e - a + 1
  BY DEF Stands
<1> HIDE DEF a, all, c
<1>6. /\ a + i \in 2..Len(all) /\ all[a + i - 1] = NL /\ e <= a + i - 2
      /\ e < a + i - 2 => all[a + i - 2] # NL
  <2>1. a + i \in Nat /\ (a + i) - 1 = a + i - 1 /\ (a + i) - 2 = a + i - 2
    BY <1>1, <1>2
  <2>2. /\ a + i \in 2..Len(all) /\ all[(a + i) - 1] = NL /\ e <= (a + i) - 2
        /\ e < (a + i) - 2 => all[(a + i) - 2] # NL
    BY ONLY <1>1, <1>3, <1>4, <2>1, EndIs
  <2>3. QED BY ONLY <2>1, <2>2
<1>7. Abstract!CommandAt(all, a + i) = SubSeq(all, e + 1, a + i - 2)
  <2>1. a + i \in Nat /\ (a + i) - 2 = a + i - 2
    BY <1>1, <1>2
  <2>2. Abstract!CommandAt(all, a + i) = SubSeq(all, e + 1, (a + i) - 2)
    BY ONLY <1>1, <1>3, <2>1, CommandIs
  <2>3. QED BY ONLY <2>1, <2>2
<1>8. e \in 0..(a + i - 1)
  BY <1>1, <1>2, <1>3 DEF LastEnd
<1>9. ASSUME c = SubSeq(all, e + 1, a + i - 2)
      PROVE  c \in Seq(Byte) /\ Trimmed(c) = Abstract!CommandAt(all, a + i)
  <2>1. CASE e = a + i - 2
    <3>1. e + 1 \in Nat \ {0} /\ a + i - 2 \in Int /\ a + i - 2 < e + 1
      BY <1>1, <1>8, <2>1
    <3>2. c = <<>>
      BY <1>1, <1>9, <3>1, SubSeqEmpty
    <3>3. c \in Seq(Byte) /\ Trimmed(c) = c
      <4>1. <<>> \in Seq(Byte)
        OBVIOUS
      <4>2. QED BY ONLY <3>2, <4>1, TrimmedIs
    <3>4. QED BY <1>7, <1>9, <3>3
  <2>2. CASE e < a + i - 2
    <3>1. e \in 0..Len(all) /\ a + i - 2 \in 0..Len(all)
      BY <1>1, <1>6, <1>8
    <3>2. c \in Seq(Byte) /\ c[Len(c)] = all[a + i - 2]
      BY <1>1, <1>9, <2>2, <3>1, PartOfPart
    <3>3. Trimmed(c) = c
      BY <1>6, <2>2, <3>2, TrimmedIs
    <3>4. QED BY <1>7, <1>9, <3>2, <3>3
  <2>3. e < a + i - 2 \/ e = a + i - 2
    BY <1>1, <1>6, <1>8
  <2>4. QED BY <2>1, <2>2, <2>3
<1> SUFFICES c \in Seq(Byte) /\ Trimmed(c) = Abstract!CommandAt(all, a + i)
  BY DEF a, all, c
<1>10. CASE e <= a
  <2>1. t.keep = SubSeq(s, e + 1, a) /\ t.start = 1 /\ e \in 0..a /\ a \in 0..a
    BY <1>1, <1>5, <1>8, <1>10
  <2>2. CASE i >= 2
    <3>1. i - 2 \in 0..Len(chunk) /\ a + (i - 2) = a + i - 2
      BY <1>1, <2>2
    <3>2. SubSeq(s, e + 1, a) \o SubSeq(chunk, 1, i - 2) = SubSeq(all, e + 1, a + (i - 2))
      BY <2>1, <3>1, Kept DEF a, all
    <3>3. c = SubSeq(all, e + 1, a + i - 2)
      BY <2>1, <3>1, <3>2 DEF c
    <3>4. QED BY <1>9, <3>3
  <2>3. CASE i = 1
    <3>1. e < a /\ a + i - 2 = a - 1
      BY <1>1, <1>6, <1>8, <2>3
    <3>2. SubSeq(chunk, 1, i - 2) = <<>>
      <4>1. i - 2 \in Int /\ i - 2 < 1 /\ 1 \in Nat \ {0}
        BY <2>3
      <4>2. QED BY <4>1, SubSeqEmpty
    <3>3. SubSeq(s, e + 1, a) \in Seq(Byte)
      BY <2>1, PartOfPart, <3>1 DEF a
    <3>4. c = SubSeq(s, e + 1, a)
      <4>1. c = SubSeq(s, e + 1, a) \o <<>>
        BY ONLY <2>1, <3>2 DEF c
      <4>2. QED BY ONLY <3>3, <4>1, ConcatEmptySeq
    <3>5. /\ c \in Seq(Byte) /\ c # <<>> /\ c[Len(c)] = s[a]
          /\ SubSeq(c, 1, Len(c) - 1) = SubSeq(s, e + 1, a - 1)
      BY <2>1, <3>1, <3>4, PartOfPart DEF a
    <3>6. s[a] = NL
      <4>1. a \in 1..a /\ a + i - 1 = a
        BY <1>1, <1>8, <2>3, <3>1
      <4>2. QED BY <1>1, <1>6, <4>1
    <3>7. SubSeq(s, e + 1, a - 1) = SubSeq(all, e + 1, a - 1)
      <4>1. a - 1 \in 0..Len(s)
        BY <1>1, <1>8, <3>1 DEF a
      <4>2. QED BY <2>1, <4>1, PrefixSame DEF a, all
    <3>8. QED BY <1>7, <3>1, <3>5, <3>6, <3>7, TrimmedIs
  <2>4. QED BY <2>2, <2>3
<1>11. CASE e > a
  <2> DEFINE l == e - a
  <2>1. /\ l \in 0..Len(chunk) /\ i - 2 \in 0..Len(chunk) /\ a + l + 1 = e + 1
        /\ a + (i - 2) = a + i - 2
    BY <1>1, <1>6, <1>8, <1>11
  <2>2. t.keep = <<>> /\ t.start = l + 1
    BY <1>1, <1>5, <1>8, <1>11
  <2> HIDE DEF l
  <2>3. SubSeq(chunk, l + 1, i - 2) = SubSeq(all, a + l + 1, a + (i - 2))
    BY <2>1, Shifted DEF a, all
  <2>4. SubSeq(chunk, l + 1, i - 2) \in Seq(Byte)
    BY <2>1, Part
  <2>5. c = SubSeq(all, e + 1, a + i - 2)
    <3>1. c = <<>> \o SubSeq(chunk, l + 1, i - 2)
      BY ONLY <2>2 DEF c
    <3>2. c = SubSeq(chunk, l + 1, i - 2)
      BY ONLY <2>4, <3>1, ConcatEmptySeq
    <3>3. QED BY ONLY <2>1, <2>3, <3>2
  <2>6. QED BY <1>9, <2>5
<1>12. QED BY <1>1, <1>8, <1>10, <1>11

\* The commands out are those that end, in this order, at the positions q, which are all ends
\* among the i bytes after a.
Found(a, all, q, out, i) ==
  /\ Len(out) <= i
  /\ q \in [1..Len(out) -> Ends(all)]
  /\ \A k \in 1..Len(out) : /\ a < q[k] /\ q[k] <= a + i
                            /\ Trimmed(out[k]) = Abstract!CommandAt(all, q[k])
  /\ \A k, l \in 1..Len(out) : k < l => q[k] < q[l]
  /\ \A j \in Ends(all) : a < j /\ j <= a + i => \E k \in 1..Len(out) : q[k] = j

ScanState == [keep : Seq(Byte), eol : BOOLEAN, start : Nat, out : Seq(Seq(Byte))]

\* What the loop knows after i bytes of a chunk.
Scanned(s, all, t, i) ==
  /\ t \in ScanState
  /\ t.eol <=> RunAt(all, Len(s) + i) % 2 = 1
  /\ \E e : Stands(s, all, e, t, i)
  /\ \E q : Found(Len(s), all, q, t.out, i)

\* A byte that ends no command adds none.
LEMMA FindsNone ==
  ASSUME NEW a \in Nat, NEW all \in Seq(Byte), NEW q,
         NEW out \in Seq(Seq(Byte)), NEW i \in Nat \ {0},
         Found(a, all, q, out, i - 1), a + i \notin Ends(all)
  PROVE  Found(a, all, q, out, i)
<1>1. Ends(all) \subseteq Nat /\ Len(out) \in Nat
  BY EndsAre
<1>2. a + (i - 1) \in Nat /\ \A j \in Nat : j <= a + i <=> j <= a + (i - 1) \/ j = a + i
  OBVIOUS
<1>3. /\ Len(out) <= i - 1 /\ q \in [1..Len(out) -> Ends(all)]
      /\ \A k \in 1..Len(out) : /\ a < q[k] /\ q[k] <= a + (i - 1)
                                /\ Trimmed(out[k]) = Abstract!CommandAt(all, q[k])
      /\ \A k, l \in 1..Len(out) : k < l => q[k] < q[l]
      /\ \A j \in Ends(all) : a < j /\ j <= a + (i - 1) => \E k \in 1..Len(out) : q[k] = j
  BY DEF Found
<1>4. Len(out) <= i
  BY <1>1, <1>3
<1>5. \A k \in 1..Len(out) : q[k] \in Nat /\ q[k] <= a + i
  BY ONLY <1>1, <1>2, <1>3
<1>6. \A j \in Ends(all) : a < j /\ j <= a + i => \E k \in 1..Len(out) : q[k] = j
  BY ONLY <1>1, <1>2, <1>3, a + i \notin Ends(all)
<1>7. QED BY ONLY <1>3, <1>4, <1>5, <1>6 DEF Found

\* A byte that ends a command adds it.
LEMMA FindsOne ==
  ASSUME NEW a \in Nat, NEW all \in Seq(Byte), NEW q,
         NEW out \in Seq(Seq(Byte)), NEW i \in Nat \ {0},
         Found(a, all, q, out, i - 1), a + i \in Ends(all),
         NEW c \in Seq(Byte), Trimmed(c) = Abstract!CommandAt(all, a + i)
  PROVE  \E r : Found(a, all, r, Append(out, c), i)
<1> DEFINE n == Len(out)
           new == Append(out, c)
           r == [k \in 1..(n + 1) |-> IF k = n + 1 THEN a + i ELSE q[k]]
<1>1. Ends(all) \subseteq Nat /\ n \in Nat
  BY EndsAre
<1>2. /\ a + (i - 1) \in Nat /\ a < a + i
      /\ \A j \in Nat : /\ j <= a + i <=> j <= a + (i - 1) \/ j = a + i
                        /\ j <= a + (i - 1) => j < a + i
  OBVIOUS
<1>3. /\ n <= i - 1 /\ q \in [1..n -> Ends(all)]
      /\ \A k \in 1..n : /\ a < q[k] /\ q[k] <= a + (i - 1)
                         /\ Trimmed(out[k]) = Abstract!CommandAt(all, q[k])
      /\ \A k, l \in 1..n : k < l => q[k] < q[l]
      /\ \A j \in Ends(all) : a < j /\ j <= a + (i - 1) => \E k \in 1..n : q[k] = j
  BY DEF Found
<1>4. /\ Len(new) = n + 1 /\ new[n + 1] = c
      /\ \A k \in 1..n : new[k] = out[k]
  OBVIOUS
<1>5. /\ \A k \in 1..(n + 1) : k = n + 1 \/ k \in 1..n
      /\ \A k \in 1..n : k # n + 1 /\ k \in 1..(n + 1) /\ k < n + 1 /\ ~(n + 1 < k)
      /\ n + 1 \in 1..(n + 1) /\ ~(n + 1 < n + 1)
  BY <1>1
<1> HIDE DEF n, new
<1>6. /\ r[n + 1] = a + i /\ \A k \in 1..n : r[k] = q[k]
      /\ r \in [1..(n + 1) -> Ends(all)]
  BY <1>3, <1>5
<1> HIDE DEF r
<1>7. Len(new) <= i
  BY <1>1, <1>3, <1>4
<1>8. ASSUME NEW k \in 1..(n + 1)
      PROVE  a < r[k] /\ r[k] <= a + i /\ Trimmed(new[k]) = Abstract!CommandAt(all, r[k])
  <2>1. CASE k = n + 1
    BY <1>2, <1>4, <1>6, <2>1
  <2>2. CASE k \in 1..n
    <3>1. r[k] = q[k] /\ new[k] = out[k] /\ q[k] \in Nat
      BY ONLY <1>1, <1>3, <1>4, <1>6, <2>2
    <3>2. QED BY ONLY <1>2, <1>3, <2>2, <3>1
  <2>3. QED BY <1>5, <2>1, <2>2
<1>9. ASSUME NEW k \in 1..(n + 1), NEW l \in 1..(n + 1), k < l PROVE r[k] < r[l]
  <2>1. k \in 1..n
    BY <1>1, <1>9
  <2>2. CASE l = n + 1
    <3>1. r[k] = q[k] /\ q[k] \in Nat /\ q[k] <= a + (i - 1) /\ r[l] = a + i
      BY ONLY <1>1, <1>3, <1>6, <2>1, <2>2
    <3>2. QED BY ONLY <1>2, <3>1
  <2>3. CASE l \in 1..n
    BY ONLY <1>3, <1>6, <1>9, <2>1, <2>3
  <2>4. QED BY <1>5, <2>2, <2>3
<1>10. ASSUME NEW j \in Ends(all), a < j, j <= a + i PROVE \E k \in 1..(n + 1) : r[k] = j
  <2>1. CASE j = a + i
    BY ONLY <1>5, <1>6, <2>1
  <2>2. CASE j <= a + (i - 1)
    <3>1. PICK k \in 1..n : q[k] = j
      BY ONLY <1>3, <1>10, <2>2
    <3>2. k \in 1..(n + 1) /\ r[k] = j
      BY ONLY <1>5, <1>6, <3>1
    <3>3. QED BY ONLY <3>2
  <2>3. QED BY <1>1, <1>2, <1>10, <2>1, <2>2
<1>11. Found(a, all, r, new, i)
  BY ONLY <1>4, <1>6, <1>7, <1>8, <1>9, <1>10 DEF Found
<1>12. QED BY ONLY <1>11 DEF new

\* One turn of the loop.
LEMMA ScansByte ==
  ASSUME NEW s \in Seq(Byte), NEW chunk \in Seq(Byte), NEW i \in 1..Len(chunk), NEW t,
         Scanned(s, s \o chunk, t, i - 1)
  PROVE  Scanned(s, s \o chunk, ScanByte(chunk, t, i), i)
<1> DEFINE a == Len(s)
           all == s \o chunk
           next == ScanByte(chunk, t, i)
           c == t.keep \o SubSeq(chunk, t.start, i - 2)
<1>1. /\ all \in Seq(Byte) /\ Len(all) = a + Len(chunk) /\ a \in Nat /\ Len(chunk) \in Nat
      /\ all[a + i] = chunk[i]
  BY Joined
<1>2. /\ t \in ScanState /\ (t.eol <=> RunAt(all, a + (i - 1)) % 2 = 1)
  BY DEF Scanned
<1>3. PICK e : Stands(s, all, e, t, i - 1)
  BY DEF Scanned
<1>4. PICK q : Found(a, all, q, t.out, i - 1)
  BY DEF Scanned
<1>5. /\ t.keep \in Seq(Byte) /\ t.eol \in BOOLEAN /\ t.start \in Nat /\ t.out \in Seq(Seq(Byte))
      /\ t = [keep |-> t.keep, eol |-> t.eol, start |-> t.start, out |-> t.out]
  BY <1>2 DEF ScanState
<1>6. a + i \in Ends(all) => c \in Seq(Byte) /\ Trimmed(c) = Abstract!CommandAt(all, a + i)
  BY <1>3, CutsCommand
<1>7. LastEnd(all, e, a + (i - 1) + 1)
  BY <1>3 DEF Stands
<1>8. \/ e <= a /\ t.keep = SubSeq(s, e + 1, a) /\ t.start = 1
      \/ e > a /\ t.keep = <<>> /\ t.start = e - a + 1
  BY <1>3 DEF Stands
<1> HIDE DEF a, all, c
<1>9. /\ a + i \in 1..Len(all) /\ a + i \in Nat
      /\ a + i - 1 = a + (i - 1) /\ (a + i) - 1 = a + (i - 1)
      /\ a + (i - 1) + 1 = a + i /\ i \in Nat \ {0} /\ i - 1 \in Nat /\ i \in Nat /\ i + 1 \in Nat
  BY <1>1
<1>10. /\ a + i \in Ends(all) <=> chunk[i] = NL /\ t.eol
       /\ RunAt(all, a + i) % 2 = 1 <=> chunk[i] = NL /\ ~t.eol
  <2> DEFINE p == a + i
             f == t.eol
  <2>1. p \in 1..Len(all) /\ f \in BOOLEAN /\ p - 1 = a + (i - 1)
    BY <1>5, <1>9
  <2>2. f <=> RunAt(all, p - 1) % 2 = 1
    BY <1>2, <2>1
  <2> HIDE DEF p, f
  <2>3. /\ p \in Ends(all) <=> all[p] = NL /\ f
        /\ RunAt(all, p) % 2 = 1 <=> all[p] = NL /\ ~f
    BY ONLY <1>1, <2>1, <2>2, NextByte
  <2>4. all[p] = chunk[i]
    BY <1>1 DEF p
  <2>5. QED BY ONLY <2>3, <2>4 DEF p, f
<1>11. /\ a + i \in Ends(all) => LastEnd(all, a + i, a + i + 1)
       /\ a + i \notin Ends(all) => LastEnd(all, e, a + i + 1)
  BY ONLY <1>1, <1>7, <1>9, NextEnd
<1>12. CASE a + i \in Ends(all)
  <2>1. next = [keep |-> <<>>, eol |-> FALSE, start |-> i + 1, out |-> Append(t.out, c)]
    BY <1>10, <1>12 DEF ScanByte, c
  <2> HIDE DEF next
  <2>2. /\ next.keep = <<>> /\ next.eol = FALSE /\ next.start = i + 1
        /\ next.out = Append(t.out, c)
    BY ONLY <2>1
  <2>3. next \in ScanState
    <3>1. <<>> \in Seq(Byte) /\ c \in Seq(Byte)
      BY <1>6, <1>12
    <3>2. Append(t.out, c) \in Seq(Seq(Byte))
      BY <1>5, <3>1
    <3>3. QED BY ONLY <1>9, <2>1, <3>1, <3>2 DEF ScanState
  <2>4. next.eol <=> RunAt(all, a + i) % 2 = 1
    BY <1>10, <1>12, <2>2
  <2>5. a + i > a /\ i + 1 = a + i - a + 1
    BY <1>1
  <2>6. Stands(s, all, a + i, next, i)
    BY <1>11, <1>12, <2>2, <2>5 DEF Stands, a
  <2>7. \E r : Found(a, all, r, next.out, i)
    <3>1. c \in Seq(Byte) /\ Trimmed(c) = Abstract!CommandAt(all, a + i)
      BY <1>6, <1>12
    <3>2. QED BY ONLY <1>1, <1>4, <1>5, <1>9, <1>12, <2>2, <3>1, FindsOne
  <2>8. QED BY <2>3, <2>4, <2>6, <2>7 DEF Scanned, a, all, next
<1>13. CASE a + i \notin Ends(all)
  <2>1. next = [t EXCEPT !.eol = chunk[i] = NL]
    BY <1>10, <1>13 DEF ScanByte
  <2> HIDE DEF next
  <2>2. /\ next.keep = t.keep /\ next.eol = (chunk[i] = NL) /\ next.start = t.start
        /\ next.out = t.out /\ next \in ScanState
    BY <1>2, <1>5, <2>1 DEF ScanState
  <2>3. next.eol <=> RunAt(all, a + i) % 2 = 1
    BY <1>10, <1>13, <2>2
  <2>4. Stands(s, all, e, next, i)
    BY <1>8, <1>11, <1>13, <2>2 DEF Stands, a
  <2>5. Found(a, all, q, next.out, i)
    BY <1>1, <1>4, <1>5, <1>9, <1>13, <2>2, FindsNone
  <2>6. QED BY <2>2, <2>3, <2>4, <2>5 DEF Scanned, a, all, next
<1>14. QED BY <1>12, <1>13

\* Before the first byte of the chunk.
LEMMA ScanBegins ==
  ASSUME Framed, NEW chunk \in Seq(Byte)
  PROVE  Scanned(received, received \o chunk, Unscanned, 0)
<1> DEFINE s == received
           a == Len(s)
           all == s \o chunk
           t == Unscanned
<1>1. /\ s \in Seq(Byte) /\ keeped_ \in Seq(Byte) /\ eol_flag \in BOOLEAN
      /\ eol_flag <=> RunAt(s, a) % 2 = 1
  BY DEF Framed, RunAt
<1>2. PICK e \in 0..a : LastEnd(s, e, a + 1) /\ keeped_ = SubSeq(s, e + 1, a)
  BY DEF Framed
<1> HIDE DEF s
<1>3. a \in Nat /\ all \in Seq(Byte) /\ Len(all) = a + Len(chunk) /\ Len(chunk) \in Nat
  BY <1>1, Joined
<1>4. RunAt(all, a) = RunAt(s, a) /\ \A i \in 1..a : i \in Ends(all) <=> i \in Ends(s)
  BY <1>1, ChunkKeepsEnds
<1>5. Ends(s) \subseteq 1..a /\ Ends(all) \subseteq 1..Len(all)
  BY <1>1, <1>3, EndsAre
<1>6. /\ t.keep = keeped_ /\ t.eol = eol_flag /\ t.start = 1 /\ t.out = <<>>
      /\ t \in ScanState
  BY <1>1 DEF Unscanned, ScanState
<1> HIDE DEF a, all, t
<1>7. t.eol <=> RunAt(all, a + 0) % 2 = 1
  BY <1>1, <1>3, <1>4, <1>6
<1>8. Stands(s, all, e, t, 0)
  <2>1. /\ e \in 0..(a + 1 - 1) /\ (e = 0 \/ e \in Ends(s))
        /\ \A j \in Ends(s) : j < a + 1 => j <= e
    BY ONLY <1>2, <1>3 DEF LastEnd, Ends
  <2>2. e = 0 \/ e \in Ends(all)
    BY <1>3, <1>4, <1>5, <2>1
  <2>3. ASSUME NEW j \in Ends(all), j < a + 1 PROVE j <= e
    <3>1. j \in 1..a
      BY <1>3, <1>5, <2>3
    <3>2. QED BY <1>4, <2>1, <2>3, <3>1
  <2>4. LastEnd(all, e, a + 0 + 1)
    <3>1. a + 0 + 1 = a + 1 /\ e \in 0..((a + 1) - 1)
      BY <1>3, <2>1
    <3>2. LastEnd(all, e, a + 1)
      BY ONLY <2>2, <2>3, <3>1 DEF LastEnd, Ends
    <3>3. QED BY ONLY <3>1, <3>2
  <2>5. e <= a
    BY <1>3
  <2>6. QED BY <1>2, <1>6, <2>4, <2>5 DEF Stands, a
<1>9. \E q : Found(a, all, q, t.out, 0)
  <2> DEFINE q == [k \in 1..0 |-> k]
  <2>1. Len(t.out) = 0 /\ 1..0 = {} /\ q \in [1..0 -> Ends(all)] /\ a + 0 = a
    BY <1>3, <1>6
  <2>2. \A j \in Ends(all) : ~(a < j /\ j <= a)
    BY <1>3, <1>5
  <2>3. Found(a, all, q, t.out, 0)
    BY <2>1, <2>2 DEF Found
  <2>4. QED BY <2>3
<1>10. QED BY <1>6, <1>7, <1>8, <1>9 DEF Scanned, a, all, t, s

\* The loop over a chunk: a least number of bytes after which its knowledge is wrong would have
\* a step before it that goes wrong.
LEMMA ScansAll ==
  ASSUME Framed, NEW chunk \in Seq(Byte)
  PROVE  Scanned(received, received \o chunk, Scan(chunk), Len(chunk))
<1>1. Len(chunk) \in Nat
  OBVIOUS
<1>2. PICK st : /\ st[0] = Unscanned
                /\ \A i \in 1..Len(chunk) : st[i] = ScanByte(chunk, st[i - 1], i)
                /\ Scan(chunk) = st[Len(chunk)]
  BY <1>1, ScanStates
<1> DEFINE Wrong == {i \in 0..Len(chunk) : ~Scanned(received, received \o chunk, st[i], i)}
<1>3. received \in Seq(Byte)
  BY DEF Framed
<1>4. Wrong = {}
  <2> SUFFICES ASSUME Wrong # {} PROVE FALSE
    OBVIOUS
  <2>1. Wrong \in SUBSET Nat
    BY <1>1
  <2> HIDE DEF Wrong
  <2>2. PICK i \in Wrong : \A j \in Wrong : i <= j
    BY <2>1, Least
  <2>3. i \in 0..Len(chunk) /\ ~Scanned(received, received \o chunk, st[i], i)
    BY <2>2 DEF Wrong
  <2>4. i # 0
    BY <1>2, <2>3, ScanBegins
  <2>5. i \in 1..Len(chunk) /\ i - 1 \in 0..Len(chunk) /\ ~(i <= i - 1)
    BY <1>1, <2>3, <2>4
  <2>6. i - 1 \notin Wrong
    BY <2>2, <2>5
  <2>7. Scanned(received, received \o chunk, st[i - 1], i - 1)
    BY <2>5, <2>6 DEF Wrong
  <2>8. st[i] = ScanByte(chunk, st[i - 1], i)
    BY <1>2, <2>5
  <2>9. Scanned(received, received \o chunk, ScanByte(chunk, st[i - 1], i), i)
    BY ONLY <1>3, <2>5, <2>7, chunk \in Seq(Byte), ScansByte
  <2>10. QED BY <2>3, <2>8, <2>9
<1>5. Len(chunk) \in 0..Len(chunk)
  BY <1>1
<1>6. QED BY <1>2, <1>4, <1>5

\* Trimming leaves a sequence of bytes.
LEMMA TrimmedBytes == ASSUME NEW c \in Seq(Byte) PROVE Trimmed(c) \in Seq(Byte)
<1>1. Len(c) \in Nat
  OBVIOUS
<1>2. CASE c # <<>> /\ c[Len(c)] = NL
  <2>1. Len(c) - 1 \in 0..Len(c) /\ 1 \in Nat \ {0}
    BY <1>1, <1>2
  <2>2. SubSeq(c, 1, Len(c) - 1) \in Seq(Byte)
    BY <2>1, Part
  <2>3. QED BY <1>2, <2>2, TrimmedIs
<1>3. QED BY <1>2, TrimmedIs

\* The commands with those of a chunk, trimmed.
LEMMA TrimsAll ==
  ASSUME NEW x \in Seq(Seq(Byte)), NEW y \in Seq(Seq(Byte)), NEW z,
         z = [k \in 1..Len(y) |-> Trimmed(y[k])]
  PROVE  [i \in 1..Len(x \o y) |-> Trimmed((x \o y)[i])]
           = [i \in 1..Len(x) |-> Trimmed(x[i])] \o z
<1> DEFINE u == [i \in 1..Len(x) |-> Trimmed(x[i])]
           v == [i \in 1..Len(x \o y) |-> Trimmed((x \o y)[i])]
           m == Len(x)
           n == Len(y)
           xy == x \o y
<1>1. /\ m \in Nat /\ n \in Nat /\ Len(xy) = m + n
      /\ \A i \in 1..m : x[i] \in Seq(Byte)
      /\ \A i \in 1..n : y[i] \in Seq(Byte)
      /\ \A i \in 1..(m + n) : xy[i] = IF i <= m THEN x[i] ELSE y[i - m]
  BY ConcatProperties
<1>2. \A i \in 1..(m + n) : xy[i] \in Seq(Byte)
  <2> SUFFICES ASSUME NEW i \in 1..(m + n) PROVE xy[i] \in Seq(Byte)
    OBVIOUS
  <2>1. i <= m => i \in 1..m
    BY <1>1
  <2>2. ~(i <= m) => i - m \in 1..n
    BY <1>1
  <2>3. QED BY ONLY <1>1, <2>1, <2>2, i \in 1..(m + n)
<1>3. v = [i \in 1..(m + n) |-> Trimmed(xy[i])] /\ u = [i \in 1..m |-> Trimmed(x[i])]
  BY <1>1
<1>4. z = [k \in 1..n |-> Trimmed(y[k])]
  OBVIOUS
<1> HIDE DEF u, v, m, n, xy
<1>5. u \in Seq(Seq(Byte)) /\ Len(u) = m /\ \A i \in 1..m : u[i] = Trimmed(x[i])
  <2>1. \A i \in 1..m : Trimmed(x[i]) \in Seq(Byte)
    BY ONLY <1>1, TrimmedBytes
  <2>2. u \in [1..m -> Seq(Byte)]
    BY ONLY <1>3, <2>1
  <2>3. QED BY ONLY <1>1, <1>3, <2>2
<1>6. z \in Seq(Seq(Byte)) /\ Len(z) = n /\ \A i \in 1..n : z[i] = Trimmed(y[i])
  <2>1. \A i \in 1..n : Trimmed(y[i]) \in Seq(Byte)
    BY ONLY <1>1, TrimmedBytes
  <2>2. z \in [1..n -> Seq(Byte)]
    BY ONLY <1>4, <2>1
  <2>3. QED BY ONLY <1>1, <1>4, <2>2
<1>7. v \in Seq(Seq(Byte)) /\ Len(v) = m + n /\ \A i \in 1..(m + n) : v[i] = Trimmed(xy[i])
  <2>1. \A i \in 1..(m + n) : Trimmed(xy[i]) \in Seq(Byte)
    BY ONLY <1>2, TrimmedBytes
  <2>2. v \in [1..(m + n) -> Seq(Byte)] /\ m + n \in Nat
    BY ONLY <1>1, <1>3, <2>1
  <2>3. Len(v) = m + n
    BY ONLY <2>2
  <2>4. \A i \in 1..(m + n) : v[i] = Trimmed(xy[i])
    BY ONLY <1>3
  <2>5. QED BY ONLY SMTT(30), <2>2, <2>3, <2>4
<1> DEFINE w == u \o z
<1>8. /\ w \in Seq(Seq(Byte)) /\ Len(w) = m + n
      /\ \A i \in 1..(m + n) : w[i] = IF i <= m THEN u[i] ELSE z[i - m]
  <2>1. /\ w \in Seq(Seq(Byte)) /\ Len(w) = Len(u) + Len(z)
        /\ \A i \in 1..(Len(u) + Len(z)) : w[i] = IF i <= Len(u) THEN u[i] ELSE z[i - Len(u)]
    BY ONLY <1>5, <1>6, ConcatProperties
  <2>2. QED BY ONLY <1>5, <1>6, <2>1
<1> HIDE DEF w
<1>9. ASSUME NEW i \in 1..(m + n) PROVE v[i] = w[i]
  <2>1. CASE i <= m
    <3>1. i \in 1..m
      BY <1>1, <2>1
    <3>2. v[i] = Trimmed(xy[i]) /\ xy[i] = x[i]
      BY ONLY <1>1, <1>7, <2>1, i \in 1..(m + n)
    <3>3. w[i] = u[i] /\ u[i] = Trimmed(x[i])
      BY ONLY <1>5, <1>8, <2>1, <3>1, i \in 1..(m + n)
    <3>4. QED BY ONLY <3>2, <3>3
  <2>2. CASE ~(i <= m)
    <3>1. i - m \in 1..n
      BY <1>1, <2>2
    <3>2. v[i] = Trimmed(xy[i]) /\ xy[i] = y[i - m]
      BY ONLY <1>1, <1>7, <2>2, i \in 1..(m + n)
    <3>3. w[i] = z[i - m] /\ z[i - m] = Trimmed(y[i - m])
      BY ONLY <1>6, <1>8, <2>2, <3>1, i \in 1..(m + n)
    <3>4. QED BY ONLY <3>2, <3>3
  <2>3. QED BY <2>1, <2>2
<1>10. v = w
  BY ONLY <1>7, <1>8, <1>9, SeqEqual
<1>11. QED BY <1>10 DEF v, w, u, xy

\* What the server has after a chunk, in terms of where the loop stands at its end.
LEMMA KeepsRest ==
  ASSUME NEW s \in Seq(Byte), NEW chunk \in Seq(Byte), NEW e, NEW t,
         Stands(s, s \o chunk, e, t, Len(chunk))
  PROVE  /\ e \in 0..Len(s \o chunk)
         /\ t.keep \o SubSeq(chunk, t.start, Len(chunk))
              = SubSeq(s \o chunk, e + 1, Len(s \o chunk))
<1> DEFINE a == Len(s)
           n == Len(chunk)
           all == s \o chunk
           k == t.keep \o SubSeq(chunk, t.start, n)
<1>1. all \in Seq(Byte) /\ Len(all) = a + n /\ a \in Nat /\ n \in Nat
  BY Joined
<1>2. /\ \/ e <= a /\ t.keep = SubSeq(s, e + 1, a) /\ t.start = 1
         \/ e > a /\ t.keep = <<>> /\ t.start = e - a + 1
      /\ LastEnd(all, e, a + n + 1)
  BY DEF Stands
<1> HIDE DEF a, n, all
<1>3. e \in 0..(a + n)
  BY ONLY <1>1, <1>2 DEF LastEnd
<1> HIDE DEF k
<1>4. CASE e <= a
  <2>1. t.keep = SubSeq(s, e + 1, a) /\ t.start = 1 /\ e \in 0..a /\ n \in 0..n
    BY ONLY <1>1, <1>2, <1>3, <1>4
  <2>2. SubSeq(s, e + 1, a) \o SubSeq(chunk, 1, n) = SubSeq(all, e + 1, a + n)
    BY <2>1, Kept DEF a, n, all
  <2>3. k = SubSeq(all, e + 1, a + n)
    BY ONLY <2>1, <2>2 DEF k
  <2>4. QED BY <1>1, <1>3, <2>3 DEF k, all, n
<1>5. CASE e > a
  <2> DEFINE l == e - a
  <2>1. l \in 0..n /\ n \in 0..n /\ a + l + 1 = e + 1 /\ t.keep = <<>> /\ t.start = l + 1
    <3>1. e \in Int /\ ~(e <= a) /\ l \in 0..n /\ n \in 0..n /\ a + l + 1 = e + 1
      BY ONLY <1>1, <1>3, <1>5
    <3>2. t.keep = <<>> /\ t.start = l + 1
      BY ONLY <1>2, <3>1
    <3>3. QED BY ONLY <3>1, <3>2
  <2> HIDE DEF l
  <2>2. SubSeq(chunk, l + 1, n) = SubSeq(all, a + l + 1, a + n)
    BY <2>1, Shifted DEF a, n, all
  <2>3. SubSeq(chunk, l + 1, n) \in Seq(Byte)
    <3>1. l + 1 \in Nat \ {0}
      BY <2>1
    <3>2. QED BY <2>1, <3>1, Part DEF n
  <2>4. k = <<>> \o SubSeq(chunk, l + 1, n)
    BY ONLY <2>1 DEF k
  <2>5. k = SubSeq(chunk, l + 1, n)
    BY ONLY <2>3, <2>4, ConcatEmptySeq
  <2>6. k = SubSeq(all, e + 1, a + n)
    BY ONLY <2>1, <2>2, <2>5
  <2>7. QED BY <1>1, <1>3, <2>6 DEF k, all, n
<1>6. e <= a \/ e > a
  BY <1>1, <1>3
<1>7. QED BY ONLY <1>4, <1>5, <1>6

\* A chunk keeps the framing, and completes the commands that Framing says it completes.
LEMMA ReceivesChunk ==
  ASSUME Framed, NEW n \in 1..MaxChunk, NEW chunk \in [1..n -> Byte], C_Received(chunk)
  PROVE  Framed' /\ Abstract!Arrive(chunk)
<1> DEFINE s == received
           a == Len(s)
           all == s \o chunk
           t == Scan(chunk)
<1>1. /\ n \in Nat /\ MaxChunk \in Nat /\ n <= MaxChunk
      /\ chunk \in Seq(Byte) /\ Len(chunk) = n
  BY TcpAssumption
<1>2. /\ received' = all /\ UNCHANGED callback_
      /\ commands' = IF callback_ THEN commands \o t.out ELSE commands
      /\ keeped_' = t.keep \o SubSeq(chunk, t.start, n) /\ eol_flag' = t.eol
  BY <1>1 DEF C_Received, process_buf
<1>3. s \in Seq(Byte) /\ commands \in Seq(Seq(Byte)) /\ callback_ \in BOOLEAN
  BY DEF Framed
<1>4. Scanned(s, all, t, n)
  BY <1>1, ScansAll
<1> HIDE DEF s, t
<1>5. a \in Nat /\ all \in Seq(Byte) /\ Len(all) = a + n
  BY <1>1, <1>3, Joined
<1>6. t \in ScanState /\ (t.eol <=> RunAt(all, a + n) % 2 = 1)
  BY <1>4 DEF Scanned
<1>7. t.eol \in BOOLEAN /\ t.out \in Seq(Seq(Byte))
  BY <1>6 DEF ScanState
<1>8. PICK e : Stands(s, all, e, t, n)
  BY <1>4 DEF Scanned
<1>9. PICK q : Found(a, all, q, t.out, n)
  BY <1>4 DEF Scanned
<1>10. /\ e \in 0..Len(all)
       /\ t.keep \o SubSeq(chunk, t.start, n) = SubSeq(all, e + 1, Len(all))
  BY <1>1, <1>3, <1>8, KeepsRest
<1>11. LastEnd(all, e, Len(all) + 1)
  <2>1. LastEnd(all, e, a + n + 1)
    BY <1>8 DEF Stands
  <2>2. QED BY ONLY <1>5, <2>1
<1> HIDE DEF a, all
<1>12. Framed'
  <2>1. keeped_' \in Seq(Byte)
    <3>1. e + 1 \in Nat \ {0} /\ Len(all) \in 0..Len(all)
      BY <1>5, <1>10
    <3>2. QED BY <1>2, <1>5, <1>10, <3>1, Part
  <2>2. commands' \in Seq(Seq(Byte))
    BY <1>2, <1>3, <1>7, ConcatProperties
  <2>3. eol_flag' <=> RunAt(received', Len(received')) % 2 = 1
    BY ONLY <1>2, <1>5, <1>6
  <2>4. /\ e \in 0..Len(received') /\ LastEnd(received', e, Len(received') + 1)
        /\ keeped_' = SubSeq(received', e + 1, Len(received'))
    BY ONLY <1>2, <1>10, <1>11
  <2>5. received' \in Seq(Byte) /\ callback_' \in BOOLEAN /\ eol_flag' \in BOOLEAN
    BY ONLY <1>2, <1>3, <1>5, <1>7
  <2>6. QED BY ONLY <2>1, <2>2, <2>3, <2>4, <2>5 DEF Framed, RunAt
<1> DEFINE S == {i \in Ends(all) : i > a}
           m == Len(t.out)
<1>13. /\ m <= n /\ q \in [1..m -> Ends(all)]
       /\ \A k \in 1..m : /\ a < q[k] /\ q[k] <= a + n
                          /\ Trimmed(t.out[k]) = Abstract!CommandAt(all, q[k])
       /\ \A k, l \in 1..m : k < l => q[k] < q[l]
       /\ \A j \in Ends(all) : a < j /\ j <= a + n => \E k \in 1..m : q[k] = j
  BY ONLY <1>9 DEF Found
<1>14. Ends(all) \subseteq 1..(a + n) /\ m \in Nat
  BY <1>5, <1>7, EndsAre
<1> HIDE DEF m
<1>15. m \in 0..MaxChunk
  BY ONLY <1>1, <1>13, <1>14
<1>16. q \in [1..m -> S] /\ DOMAIN q = 1..m
  <2>1. \A k \in 1..m : q[k] \in S
    <3> SUFFICES ASSUME NEW k \in 1..m PROVE q[k] \in S
      OBVIOUS
    <3>1. q[k] \in Ends(all) /\ a < q[k] /\ q[k] \in Nat
      BY ONLY <1>5, <1>13, <1>14, k \in 1..m
    <3>2. QED BY ONLY <1>5, <3>1
  <2> HIDE DEF S
  <2>2. QED BY ONLY <1>13, <2>1
<1>17. \A j \in S : \E k \in 1..m : q[k] = j
  <2> SUFFICES ASSUME NEW j \in S PROVE \E k \in 1..m : q[k] = j
    OBVIOUS
  <2>1. j \in Ends(all) /\ a < j /\ j <= a + n
    BY <1>5, <1>14, <1>1
  <2>2. QED BY ONLY <1>13, <2>1
<1> DEFINE completed == [k \in DOMAIN q |-> Abstract!CommandAt(all, q[k])]
           trimmed(c) == [i \in 1..Len(c) |-> Trimmed(c[i])]
<1>18. completed = [k \in 1..m |-> Trimmed(t.out[k])]
  BY ONLY <1>13, <1>16
<1> HIDE DEF S
<1>19. q \in Abstract!Sorted(S)
  <2> DEFINE Q == UNION {[1..r -> S] : r \in 0..MaxChunk}
  <2>1. q \in Q
    BY ONLY <1>15, <1>16
  <2> HIDE DEF Q
  <2>2. \A k, l \in DOMAIN q : k < l => q[k] < q[l]
    BY ONLY <1>13, <1>16
  <2>3. \A j \in S : \E k \in DOMAIN q : q[k] = j
    BY ONLY <1>16, <1>17
  <2>4. QED BY ONLY <2>1, <2>2, <2>3 DEF Abstract!Sorted, Q
<1> HIDE DEF completed
<1>20. trimmed(commands') = IF callback_ THEN trimmed(commands) \o completed ELSE trimmed(commands)
  <2>1. CASE callback_
    <3>1. commands' = commands \o t.out
      BY ONLY <1>2, <2>1
    <3>2. trimmed(commands \o t.out) = trimmed(commands) \o completed
      BY ONLY SMTT(30), <1>3, <1>7, <1>18, TrimsAll DEF m
    <3>3. QED BY ONLY <2>1, <3>1, <3>2
  <2>2. CASE ~callback_
    BY ONLY <1>2, <2>2
  <2>3. QED BY ONLY <2>1, <2>2
<1>21. S = {i \in Abstract!Ends(received') : i > Len(received)}
  BY ONLY <1>2 DEF S, Ends, a, s
<1>22. completed = [k \in DOMAIN q |-> Abstract!CommandAt(received', q[k])]
  BY ONLY <1>2 DEF completed
<1>23. received' = received \o chunk
  BY ONLY <1>2 DEF all, s
<1>24. Abstract!Arrive(chunk)
  BY ONLY <1>2, <1>19, <1>20, <1>21, <1>22, <1>23 DEF Abstract!Arrive
<1>25. QED BY ONLY <1>12, <1>24

framing == <<received, commands, callback_, keeped_, eol_flag>>

\* Only a chunk and set_callback touch what the framing is about.
LEMMA QuietSteps ==
  ASSUME [Next]_vars
  PROVE  \/ \E n \in 1..MaxChunk : \E chunk \in [1..n -> Byte] : C_Received(chunk)
         \/ M_SetCallback
         \/ UNCHANGED framing
<1> USE DEF framing, thread, writer, fields, outside, history
<1>1. ASSUME ClientThread, ~\E n \in 1..MaxChunk : \E chunk \in [1..n -> Byte] : C_Received(chunk)
      PROVE  UNCHANGED framing
  <2>1. CASE C_Test
    BY <2>1 DEF C_Test
  <2>2. CASE C_Accept
    BY <2>2 DEF C_Accept
  <2>3. ASSUME NEW c \in Client, C_Accepted(c) PROVE UNCHANGED framing
    BY <2>3 DEF C_Accepted
  <2>4. CASE C_Store
    BY <2>4 DEF C_Store
  <2>5. CASE C_Recv
    BY <2>5 DEF C_Recv
  <2>6. CASE C_Disconnected
    BY <2>6 DEF C_Disconnected
  <2>7. CASE C_Close
    BY <2>7 DEF C_Close
  <2>8. CASE C_Reset
    BY <2>8 DEF C_Reset
  <2>9. QED BY <1>1, <2>1, <2>2, <2>3, <2>4, <2>5, <2>6, <2>7, <2>8 DEF ClientThread
<1>2. ASSUME Destructor PROVE UNCHANGED framing
  <2>1. CASE M_Terminate
    BY <2>1 DEF M_Terminate
  <2>2. ASSUME NEW fd, NEW from, NEW to, M_Close(fd, from, to) PROVE UNCHANGED framing
    BY <2>2 DEF M_Close
  <2>3. CASE M_Join
    BY <2>3 DEF M_Join
  <2>4. QED BY <1>2, <2>1, <2>2, <2>3 DEF Destructor
<1>3. ASSUME Log PROVE UNCHANGED framing
  BY <1>3 DEF Log, L_Begin, L_Send
<1>4. ASSUME NEW c \in Client, Connect(c) \/ Leave(c) PROVE UNCHANGED framing
  BY <1>4 DEF Connect, Leave
<1>5. CASE UNCHANGED vars
  BY <1>5 DEF vars
<1>6. QED BY <1>1, <1>2, <1>3, <1>4, <1>5 DEF Next, Main

\* At the start nothing was received.
LEMMA FramedInit == Init => Framed /\ Abstract!Init
<1> SUFFICES ASSUME Init PROVE Framed /\ Abstract!Init
  OBVIOUS
<1>1. /\ received = <<>> /\ commands = <<>> /\ keeped_ = <<>> /\ callback_ = FALSE
      /\ eol_flag = FALSE
  BY DEF Init
<1>2. Len(received) = 0 /\ received \in Seq(Byte)
  BY <1>1
<1>3. RunAt(received, 0) = 0
  BY RunStep, 1 \in Nat \ {0}
<1>4. eol_flag <=> RunAt(received, Len(received)) % 2 = 1
  BY <1>1, <1>2, <1>3
<1>5. Ends(received) = {}
  <2>1. Ends(received) \subseteq 1..Len(received)
    BY <1>2, EndsAre
  <2>2. QED BY ONLY <1>2, <2>1
<1>6. LastEnd(received, 0, Len(received) + 1) /\ 0 \in 0..Len(received)
  BY <1>2, <1>5 DEF LastEnd, Ends
<1>7. keeped_ = SubSeq(received, 0 + 1, Len(received))
  BY <1>1, <1>2, SubSeqEmpty
<1>8. Framed
  <2>1. /\ commands \in Seq(Seq(Byte)) /\ keeped_ \in Seq(Byte)
        /\ callback_ \in BOOLEAN /\ eol_flag \in BOOLEAN
    <3>1. <<>> \in Seq(Seq(Byte)) /\ <<>> \in Seq(Byte)
      BY EmptySeq
    <3>2. QED BY ONLY <1>1, <3>1
  <2>2. QED BY ONLY <1>2, <1>4, <1>6, <1>7, <2>1 DEF Framed, RunAt
<1>9. [i \in 1..Len(commands) |-> Trimmed(commands[i])] = <<>>
  <2>1. Len(commands) = 0
    BY <1>1
  <2>2. 1..Len(commands) = {}
    BY <2>1
  <2>3. QED BY <2>2
<1>10. QED BY <1>1, <1>8, <1>9 DEF Abstract!Init

\* Each step keeps the framing, and is a step of Framing or leaves its variables alone.
LEMMA FramedStep == Framed /\ [Next]_vars => Framed' /\ [Abstract!Next]_(Abstract!fvars)
<1> SUFFICES ASSUME Framed, [Next]_vars PROVE Framed' /\ [Abstract!Next]_(Abstract!fvars)
  OBVIOUS
<1>1. ASSUME NEW n \in 1..MaxChunk, NEW chunk \in [1..n -> Byte], C_Received(chunk)
      PROVE  Framed' /\ Abstract!Next
  <2>1. Framed' /\ Abstract!Arrive(chunk)
    BY <1>1, ReceivesChunk
  <2>2. chunk \in Abstract!Chunk
    BY DEF Abstract!Chunk
  <2>3. QED BY ONLY <2>1, <2>2 DEF Abstract!Next
<1>2. CASE M_SetCallback
  <2>1. UNCHANGED <<received, commands, keeped_, eol_flag>> /\ callback_' = TRUE
    BY <1>2 DEF M_SetCallback, history
  <2>2. Framed'
    BY <2>1 DEF Framed, LastEnd
  <2>3. Abstract!Arm
    BY <2>1 DEF Abstract!Arm
  <2>4. QED BY ONLY <2>2, <2>3 DEF Abstract!Next
<1>3. CASE UNCHANGED framing
  <2>1. UNCHANGED <<received, commands, callback_, keeped_, eol_flag>>
    BY <1>3 DEF framing
  <2>2. Framed'
    BY <2>1 DEF Framed, LastEnd
  <2>3. UNCHANGED Abstract!fvars
    BY <2>1 DEF Abstract!fvars
  <2>4. QED BY ONLY <2>2, <2>3
<1>4. QED BY ONLY <1>1, <1>2, <1>3, [Next]_vars, QuietSteps

\* TcpServer implements Framing.
THEOREM CommandsAreFramed == Spec => ImplementsFraming
<1>1. Init => Framed /\ Abstract!Init
  BY FramedInit
<1>2. Framed /\ [Next]_vars => Framed' /\ [Abstract!Next]_(Abstract!fvars)
  BY FramedStep
<1>3. QED BY <1>1, <1>2, PTL DEF Spec, ImplementsFraming, Abstract!Spec

\* Closing leaves no connection that was not there.
LEMMA ClosesOnly ==
  ASSUME NEW fd, DOMAIN file = Fd
  PROVE  /\ DOMAIN Closed(fd) = Fd
         /\ \A f \in Fd : Closed(fd)[f] \in Client => file[f] \in Client /\ f # fd
<1>1. "none" \notin Client
  BY TcpAssumption
<1>2. QED BY <1>1 DEF Closed

\* The connection: only the client thread opens one, at a descriptor that it remembers.
LEMMA ConnectionStep == Connection /\ [Next]_vars => Connection'
<1> SUFFICES ASSUME Connection, [Next]_vars PROVE Connection'
  OBVIOUS
<1> USE DEF Connection, thread, writer, fields, outside, history
<1>1. CASE C_Test
  BY <1>1 DEF C_Test
<1>2. CASE C_Accept
  BY <1>2 DEF C_Accept
<1>3. ASSUME NEW c \in Client, C_Accepted(c) PROVE Connection'
  <2>1. PICK fd \in Fd : file' = [file EXCEPT ![fd] = c] /\ ret' = fd
    BY <1>3 DEF C_Accepted
  <2>2. pc = "accepting" /\ pc' = "store"
    BY <1>3 DEF C_Accepted
  <2>3. QED BY <2>1, <2>2
<1>4. CASE C_Store
  <2>1. pc = "store" /\ clientfd_' = ret /\ UNCHANGED <<file, ret>>
        /\ pc' = IF ret >= 0 THEN "recv" ELSE "test"
    BY <1>4 DEF C_Store
  <2>2. CASE ret >= 0
    BY <2>1, <2>2
  <2>3. CASE ~(ret >= 0)
    <3>1. ret \notin Fd
      BY <2>3 DEF Fd
    <3>2. QED BY <2>1, <2>3, <3>1
  <2>4. QED BY <2>2, <2>3
<1>5. CASE C_Recv
  BY <1>5 DEF C_Recv
<1>6. ASSUME NEW n \in 1..MaxChunk, NEW chunk \in [1..n -> Byte], C_Received(chunk)
      PROVE  Connection'
  BY <1>6 DEF C_Received
<1>7. CASE C_Disconnected
  BY <1>7 DEF C_Disconnected
<1>8. CASE C_Close
  <2>1. pc = "close" /\ pc' = "reset" /\ file' = Closed(clientfd_)
    BY <1>8 DEF C_Close
  <2>2. QED BY <2>1, ClosesOnly
<1>9. CASE C_Reset
  BY <1>9 DEF C_Reset
<1>10. CASE M_SetCallback
  BY <1>10 DEF M_SetCallback
<1>11. CASE M_Terminate
  BY <1>11 DEF M_Terminate
<1>12. ASSUME NEW fd, NEW from, NEW to, M_Close(fd, from, to) PROVE Connection'
  <2>1. file' = Closed(fd) /\ UNCHANGED <<pc, ret, clientfd_>>
    BY <1>12 DEF M_Close
  <2>2. QED BY <2>1, ClosesOnly
<1>13. CASE M_Join
  BY <1>13 DEF M_Join
<1>14. CASE Log
  BY <1>14 DEF Log, L_Begin, L_Send
<1>15. ASSUME NEW c \in Client, Connect(c) \/ Leave(c) PROVE Connection'
  BY <1>15 DEF Connect, Leave
<1>16. CASE UNCHANGED vars
  BY <1>16 DEF vars
<1>17. QED
  <2>1. ClientThread => Connection'
    BY <1>1, <1>2, <1>3, <1>4, <1>5, <1>6, <1>7, <1>8, <1>9 DEF ClientThread
  <2>2. Main => Connection'
    BY <1>10, <1>11, <1>12, <1>13 DEF Main, Destructor
  <2>3. QED BY ONLY <1>14, <1>15, <1>16, <2>1, <2>2, [Next]_vars DEF Next

\* Whenever the client thread waits for the next client, no connection is left open.
THEOREM ConnectionsAreClosed == Spec => []NoDescriptorLeak
<1>1. Init => Connection
  <2> SUFFICES ASSUME Init PROVE Connection
    OBVIOUS
  <2>1. {"none", "stdin", "listen"} \cap Client = {}
    BY TcpAssumption
  <2>2. QED BY <2>1 DEF Init, Connection
<1>2. Connection => NoDescriptorLeak
  BY DEF Connection, NoDescriptorLeak
<1>3. QED BY <1>1, <1>2, ConnectionStep, PTL DEF Spec

=============================================================================
