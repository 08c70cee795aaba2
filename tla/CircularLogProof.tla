-------------------------- MODULE CircularLogProof --------------------------
(***************************************************************************)
(* Proofs about CircularLog, for every number of processors and files, and *)
(* every limit on the list.  IInv is inductive.  Its parts Types, Started, *)
(* Counted and InUseKept are kept by every step whatever fails.  Orderly   *)
(* is kept while nothing is disturbed (Quiet): then a list that names the  *)
(* current file names all older ones, so that a file that deletion refuses *)
(* to a READY processor is its last one, and the files of the others, that *)
(* rotation passes by, are too few to fill the limit.                      *)
(***************************************************************************)
EXTENDS CircularLog, TLAPS, FiniteSetTheorems, WellFoundedInduction

(* Counting files. *)

\* There are finitely many names, and so files.
LEMMA StoredFinite ==
  ASSUME NEW d \in [Proc -> SUBSET Name]
  PROVE  IsFiniteSet(Stored(d)) /\ Cardinality(Stored(d)) \in Nat
<1>1. IsFiniteSet(Proc) /\ IsFiniteSet(Name)
  BY FS_Interval, CircularLogAssumption DEF Proc, MSM, Name, CircularLogAssumption
<1>2. IsFiniteSet(Proc \X Name)
  BY <1>1, FS_Product
<1>3. Stored(d) \subseteq Proc \X Name
  BY DEF Stored, StoredOf
<1>4. QED BY <1>2, <1>3, FS_Subset, FS_CardinalityType

\* unlink() of a file that is there.
LEMMA StoredRemove ==
  ASSUME NEW d \in [Proc -> SUBSET Name], NEW p \in Proc, NEW n \in d[p]
  PROVE  /\ [d EXCEPT ![p] = @ \ {n}] \in [Proc -> SUBSET Name]
         /\ Cardinality(Stored([d EXCEPT ![p] = @ \ {n}])) = Cardinality(Stored(d)) - 1
<1> DEFINE f == [d EXCEPT ![p] = @ \ {n}]
<1>1. f \in [Proc -> SUBSET Name] /\ \A q \in Proc : f[q] = IF q = p THEN d[q] \ {n} ELSE d[q]
  OBVIOUS
<1>2. n \in Name
  OBVIOUS
<1> HIDE DEF f
<1>3. Stored(f) = Stored(d) \ {<<p, n>>}
  BY <1>1, <1>2 DEF Stored, StoredOf
<1>4. <<p, n>> \in Stored(d)
  BY <1>2 DEF Stored, StoredOf
<1>5. Cardinality(Stored(f)) = Cardinality(Stored(d)) - 1
  <2>1. IsFiniteSet(Stored(d))
    BY StoredFinite
  <2>2. QED BY ONLY <1>3, <1>4, <2>1, FS_RemoveElement
<1>6. QED BY <1>1, <1>5 DEF f

\* open(O_CREAT) of a new name, or of one that is there.
LEMMA StoredAdd ==
  ASSUME NEW d \in [Proc -> SUBSET Name], NEW p \in Proc, NEW n \in Name
  PROVE  /\ [d EXCEPT ![p] = @ \cup {n}] \in [Proc -> SUBSET Name]
         /\ Cardinality(Stored([d EXCEPT ![p] = @ \cup {n}]))
              = IF n \in d[p] THEN Cardinality(Stored(d)) ELSE Cardinality(Stored(d)) + 1
<1> DEFINE f == [d EXCEPT ![p] = @ \cup {n}]
<1>1. f \in [Proc -> SUBSET Name] /\ \A q \in Proc : f[q] = IF q = p THEN d[q] \cup {n} ELSE d[q]
  OBVIOUS
<1> HIDE DEF f
<1>2. CASE n \in d[p]
  <2>1. Stored(f) = Stored(d)
    BY <1>1, <1>2 DEF Stored, StoredOf
  <2>2. QED BY <1>1, <1>2, <2>1 DEF f
<1>3. CASE n \notin d[p]
  <2>1. Stored(f) = Stored(d) \cup {<<p, n>>}
    BY <1>1 DEF Stored, StoredOf
  <2>2. <<p, n>> \notin Stored(d)
    BY <1>3 DEF Stored, StoredOf
  <2>3. Cardinality(Stored(f)) = Cardinality(Stored(d)) + 1
    BY <2>1, <2>2, StoredFinite, FS_AddElement
  <2>4. QED BY <1>1, <1>3, <2>3 DEF f
<1>4. QED BY <1>2, <1>3

\* The directories when file c of p is renamed to n.
Renamed(d, p, c, n) == [d EXCEPT ![p] = (@ \ {c}) \cup {n}]

\* rename() of a file that is there, perhaps over another one.
LEMMA StoredRename ==
  ASSUME NEW d \in [Proc -> SUBSET Name], NEW p \in Proc, NEW c \in d[p], NEW n \in Name
  PROVE  /\ Renamed(d, p, c, n) \in [Proc -> SUBSET Name]
         /\ Cardinality(Stored(Renamed(d, p, c, n)))
              = IF n \in d[p] \ {c} THEN Cardinality(Stored(d)) - 1 ELSE Cardinality(Stored(d))
<1> DEFINE f == [d EXCEPT ![p] = @ \ {c}]
           g == [f EXCEPT ![p] = @ \cup {n}]
<1>0. f \in [Proc -> SUBSET Name] /\ f[p] = d[p] \ {c}
  <2>1. f \in [Proc -> SUBSET Name]
    BY StoredRemove
  <2>2. QED BY <2>1
<1>1. Cardinality(Stored(f)) = Cardinality(Stored(d)) - 1
  BY StoredRemove
<1>2. g = Renamed(d, p, c, n)
  BY DEF Renamed
<1> HIDE DEF f
<1>3. /\ g \in [Proc -> SUBSET Name]
      /\ Cardinality(Stored(g)) = IF n \in f[p] THEN Cardinality(Stored(f)) ELSE
            Cardinality(Stored(f)) + 1
  BY <1>0, StoredAdd
<1>4. Cardinality(Stored(d)) \in Nat
  BY StoredFinite
<1> HIDE DEF g
<1>5. QED BY <1>0, <1>1, <1>2, <1>3, <1>4

\* What is counted for some processors and for the others makes up the whole.
LEMMA StoredSplit ==
  ASSUME NEW d, NEW P \in SUBSET Proc, IsFiniteSet(Stored(d))
  PROVE  /\ IsFiniteSet(StoredOf(d, P)) /\ IsFiniteSet(StoredOf(d, Proc \ P))
         /\ Cardinality(StoredOf(d, P)) \in Nat /\ Cardinality(StoredOf(d, Proc \ P)) \in Nat
         /\ Cardinality(Stored(d)) = Cardinality(StoredOf(d, P)) + Cardinality(StoredOf(d, Proc \ P))
<1> DEFINE A == StoredOf(d, P)
           B == StoredOf(d, Proc \ P)
<1>1. A \cup B = Stored(d) /\ A \cap B = {}
  BY DEF Stored, StoredOf
<1> HIDE DEF A, B
<1>2. IsFiniteSet(A) /\ IsFiniteSet(B)
  <2>1. A \subseteq Stored(d) /\ B \subseteq Stored(d)
    BY <1>1
  <2>2. QED BY <2>1, FS_Subset
<1>3. Cardinality(A \cup B) = Cardinality(A) + Cardinality(B) - Cardinality(A \cap B)
  BY <1>2, FS_Union
<1>4. Cardinality(A) \in Nat /\ Cardinality(B) \in Nat /\ Cardinality(A \cap B) = 0
  <2>1. Cardinality(A) \in Nat /\ Cardinality(B) \in Nat
    BY <1>2, FS_CardinalityType
  <2>2. Cardinality({}) = 0
    BY FS_EmptySet
  <2>3. QED BY <1>1, <2>1, <2>2
<1>5. Cardinality(Stored(d)) = Cardinality(A) + Cardinality(B)
  <2>1. Cardinality(A \cup B) = Cardinality(A) + Cardinality(B)
    BY ONLY <1>3, <1>4
  <2>2. QED BY ONLY <1>1, <2>1
<1>6. QED BY <1>2, <1>4, <1>5 DEF A, B

\* More files than processors: one of them has two.
LEMMA TwoFiles ==
  ASSUME NEW d \in [Proc -> SUBSET Name], NEW P \in SUBSET Proc,
         Cardinality(StoredOf(d, P)) > Cardinality(P)
  PROVE  \E p \in P : \E m, n \in d[p] : m < n
<1> DEFINE f == [x \in StoredOf(d, P) |-> x[1]]
<1>1. IsFiniteSet(P) /\ Cardinality(P) \in Nat
  <2>1. IsFiniteSet(Proc)
    BY FS_Interval, CircularLogAssumption DEF Proc, MSM, CircularLogAssumption
  <2>2. QED BY <2>1, FS_Subset, FS_CardinalityType
<1>2. \A x \in StoredOf(d, P) :
        x = <<x[1], x[2]>> /\ x[1] \in P /\ x[2] \in d[x[1]] /\ x[2] \in Name
  BY DEF StoredOf
<1>3. f \in [StoredOf(d, P) -> P]
  BY <1>2
<1>4. PICK x, y \in StoredOf(d, P) : x # y /\ f[x] = f[y]
  <2>1. IsFiniteSet(StoredOf(d, P)) /\ Cardinality(P) < Cardinality(StoredOf(d, P))
    <3>1. IsFiniteSet(StoredOf(d, P)) /\ Cardinality(StoredOf(d, P)) \in Nat
      BY StoredFinite, StoredSplit
    <3>2. QED BY <1>1, <3>1
  <2> HIDE DEF f
  <2>2. QED BY <1>1, <1>3, <2>1, FS_PigeonHole
<1>5. x[1] = y[1] /\ x[2] # y[2]
  BY <1>2, <1>4
<1>6. x[2] \in Nat /\ y[2] \in Nat
  BY <1>2 DEF Name
<1>7. x[2] < y[2] \/ y[2] < x[2]
  BY <1>5, <1>6
<1>8. QED BY <1>2, <1>5, <1>7

-----------------------------------------------------------------------------
(* The files of a directory by rank, and what scandir returns. *)

\* The numbers in order.
Less == {ss \in Nat \X Nat : ss[1] < ss[2]}

\* Every set of natural numbers that is not empty has a least element.
LEMMA Least == ASSUME NEW T \in SUBSET Nat, T # {} PROVE \E x \in T : \A y \in T : x <= y
<1>1. IsWellFoundedOn(Less, Nat)
  BY NatLessThanWellFounded DEF OpToRel, Less
<1>2. PICK x \in T : \A y \in T : ~(<<y, x>> \in Less)
  BY <1>1, WFMin
<1>3. ASSUME NEW y \in T, ~(x <= y) PROVE FALSE
  <2>1. x \in Nat /\ y \in Nat /\ y < x
    BY <1>3
  <2>2. <<y, x>> \in Nat \X Nat /\ <<y, x>>[1] = y /\ <<y, x>>[2] = x
    BY <2>1
  <2>3. <<y, x>> \in Less
    BY <2>1, <2>2, Zenon DEF Less
  <2>4. QED BY <1>2, <1>3, <2>3
<1>4. QED BY <1>3

\* The files older than n.
Older(d, n) == {m \in d : m < n}

\* A directory is a finite set of numbers.
LEMMA DirFinite ==
  ASSUME NEW d \in SUBSET Name
  PROVE  /\ d \subseteq Nat /\ IsFiniteSet(d) /\ Cardinality(d) \in Nat
         /\ \A n : IsFiniteSet(Older(d, n)) /\ Cardinality(Older(d, n)) \in Nat
<1>1. IsFiniteSet(Name) /\ Name \subseteq Nat
  BY FS_Interval, CircularLogAssumption DEF Name, CircularLogAssumption
<1>2. d \subseteq Nat /\ IsFiniteSet(d) /\ Cardinality(d) \in Nat
  BY <1>1, FS_Subset, FS_CardinalityType
<1>3. ASSUME NEW n PROVE IsFiniteSet(Older(d, n)) /\ Cardinality(Older(d, n)) \in Nat
  <2>1. Older(d, n) \subseteq d
    BY DEF Older
  <2>2. QED BY <1>2, <2>1, FS_Subset, FS_CardinalityType
<1>4. QED BY <1>2, <1>3

\* A newer file is newer than more files.
LEMMA OlderGrows ==
  ASSUME NEW d \in SUBSET Name, NEW m \in d, NEW n \in d, m < n
  PROVE  Cardinality(Older(d, m)) < Cardinality(Older(d, n))
<1>1. d \subseteq Nat
  BY DirFinite
<1>2. Older(d, m) \subseteq Older(d, n) /\ m \in Older(d, n) /\ m \notin Older(d, m)
  <2>1. m \in Nat /\ n \in Nat /\ \A x \in d : x \in Nat
    BY <1>1
  <2>2. \A x \in d : x < m => x < n
    BY <2>1
  <2>3. ~(m < m)
    BY <2>1
  <2>4. QED BY <2>2, <2>3 DEF Older
<1>3. IsFiniteSet(Older(d, n)) /\ Cardinality(Older(d, m)) \in Nat /\ Cardinality(Older(d, n)) \in
      Nat
  BY DirFinite
<1>4. Cardinality(Older(d, m)) <= Cardinality(Older(d, n)) /\ Cardinality(Older(d, m)) #
      Cardinality(Older(d, n))
  BY ONLY <1>2, <1>3, FS_Subset
<1>5. QED BY <1>3, <1>4

\* For every k below the number of files, some file is newer than exactly k others.
LEMMA RankExists ==
  ASSUME NEW d \in SUBSET Name, NEW k \in Nat, k < Cardinality(d)
  PROVE  \E n \in d : Cardinality(Older(d, n)) = k
<1> DEFINE Missing == {j \in Nat : j < Cardinality(d) /\ \A n \in d : Cardinality(Older(d, n)) # j}
<1>1. d \subseteq Nat /\ IsFiniteSet(d) /\ Cardinality(d) \in Nat
  BY DirFinite
<1>2. SUFFICES ASSUME Missing # {} PROVE FALSE
  OBVIOUS
<1>3. PICK j \in Missing : \A i \in Missing : j <= i
  <2>1. Missing \in SUBSET Nat
    OBVIOUS
  <2> HIDE DEF Missing
  <2>2. QED BY <1>2, <2>1, Least
<1>4. j \in Nat /\ j < Cardinality(d) /\ \A n \in d : Cardinality(Older(d, n)) # j
  BY <1>3
\* The newest of the first j files, and those after it.
<1>5. PICK low \in SUBSET d : /\ Cardinality(low) = j
                              /\ \A n \in d : n \notin low => \A m \in low : m < n
  <2>1. CASE j = 0
    BY <2>1, FS_EmptySet
  <2>2. CASE j # 0
    <3>1. j - 1 \in Nat /\ j - 1 < Cardinality(d) /\ j - 1 \notin Missing
      BY <1>1, <1>3, <1>4, <2>2
    <3>2. PICK m \in d : Cardinality(Older(d, m)) = j - 1
      BY <3>1
    <3>3. IsFiniteSet(Older(d, m)) /\ m \notin Older(d, m)
      BY <1>1, DirFinite DEF Older
    <3>4. Cardinality(Older(d, m) \cup {m}) = j - 1 + 1
      BY ONLY <3>2, <3>3, FS_AddElement
    <3>5. \A n \in d : n \notin Older(d, m) \cup {m} => \A i \in Older(d, m) \cup {m} : i < n
      BY <1>1 DEF Older
    <3>6. Older(d, m) \cup {m} \in SUBSET d /\ j - 1 + 1 = j
      BY <1>4 DEF Older
    <3>7. QED BY <3>4, <3>5, <3>6
  <2>3. QED BY <2>1, <2>2
<1>6. low # d /\ d \ low \in SUBSET Nat /\ d \ low # {}
  <2>1. low # d
    BY <1>1, <1>4, <1>5
  <2>2. QED BY <1>1, <2>1
<1>7. PICK n \in d \ low : \A m \in d \ low : n <= m
  BY <1>6, Least
<1>8. Older(d, n) = low
  <2>1. \A m \in low : m \in d /\ m < n
    BY <1>5, <1>7
  <2>2. \A m \in d : m < n => m \in low
    BY <1>1, <1>7
  <2>3. QED BY <2>1, <2>2 DEF Older
<1>9. QED BY <1>4, <1>5, <1>7, <1>8

\* What scandir with alphasort returns, and the limit on the list leaves of it.
LEMMA ScanIsOldest ==
  ASSUME dir \in [Proc -> SUBSET Name], NEW p \in Proc
  PROVE  /\ Scan(p) \in Seq(Name)
         /\ \A c : OldestOf(Scan(p), dir[p], c)
         /\ dir[p] # {} => Scan(p) # <<>>
<1> DEFINE d == dir[p]
           len == Min({Cardinality(d), MaxList})
           s == Scan(p)
<1>1. d \in SUBSET Name /\ d \subseteq Nat /\ IsFiniteSet(d) /\ Cardinality(d) \in Nat
  BY DirFinite
<1>2. len \in Nat /\ len <= Cardinality(d) /\ (d # {} => len > 0)
  <2>1. len \in {Cardinality(d), MaxList} /\ \A x \in {Cardinality(d), MaxList} : len <= x
    <3>1. MaxList \in Nat
      BY CircularLogAssumption DEF CircularLogAssumption
    <3>2. \E x \in {Cardinality(d), MaxList} : \A y \in {Cardinality(d), MaxList} : x <= y
      BY <1>1, <3>1
    <3>3. QED BY <3>2, Zenon DEF Min
  <2>2. d # {} => Cardinality(d) > 0
    BY <1>1, FS_EmptySet
  <2>3. QED BY <1>1, <2>1, <2>2, CircularLogAssumption DEF CircularLogAssumption
<1>3. s = [i \in 1..len |-> Nth(d, i)]
  BY DEF Scan
<1> HIDE DEF d, len, s
<1>4. ASSUME NEW i \in 1..len PROVE s[i] \in d /\ Cardinality(Older(d, s[i])) = i - 1
  <2>1. i - 1 \in Nat /\ i - 1 < Cardinality(d)
    BY <1>1, <1>2
  <2>2. \E n \in d : Cardinality(Older(d, n)) = i - 1
    BY <1>1, <2>1, RankExists
  <2>3. Nth(d, i) \in d /\ Cardinality(Older(d, Nth(d, i))) = i - 1
    BY <2>2, Zenon DEF Nth, Older
  <2>4. QED BY <1>3, <2>3
<1>0. \A m, n \in d : m < n => Cardinality(Older(d, m)) < Cardinality(Older(d, n))
  BY <1>1, OlderGrows
<1>5. s \in Seq(Name) /\ Len(s) = len /\ DOMAIN s = 1..len
  <2>1. DOMAIN s = 1..len /\ \A i \in 1..len : s[i] \in Name
    BY <1>1, <1>3, <1>4
  <2>2. s \in [1..len -> Name]
    BY <1>3, <2>1
  <2>3. QED BY <1>2, <2>1, <2>2
<1>6. ASSUME NEW i \in 1..len, NEW j \in 1..len, i < j PROVE s[i] < s[j]
  <2>1. s[i] \in Nat /\ s[j] \in Nat /\ ~(s[j] < s[i]) /\ s[i] # s[j]
    <3>1. s[i] \in d /\ s[j] \in d /\ s[i] \in Nat /\ s[j] \in Nat
      BY <1>1, <1>4
    <3>2. /\ Cardinality(Older(d, s[i])) = i - 1 /\ Cardinality(Older(d, s[j])) = j - 1
          /\ i \in Nat /\ j \in Nat
      BY <1>2, <1>4
    <3>3. QED BY ONLY <1>0, <1>6, <3>1, <3>2
  <2>2. QED BY <2>1
<1>7. ASSUME NEW i \in 1..len, NEW n \in d, n < s[i] PROVE n \in ToSet(s)
  <2> DEFINE k == Cardinality(Older(d, n)) + 1
  <2>1. k - 1 < i - 1 /\ Cardinality(Older(d, n)) \in Nat
    <3>1. s[i] \in d /\ Cardinality(Older(d, s[i])) = i - 1
      BY <1>4
    <3>2. Cardinality(Older(d, n)) < i - 1
      BY ONLY <1>0, <1>7, <3>1, n \in d
    <3>3. Cardinality(Older(d, n)) \in Nat
      BY <1>1, DirFinite
    <3>4. QED BY <3>2, <3>3
  <2>2. k \in 1..len
    BY <1>2, <2>1
  <2>3. Cardinality(Older(d, s[k])) = k - 1 /\ s[k] \in d
    BY <1>4, <2>2
  <2>4. Cardinality(Older(d, s[k])) = Cardinality(Older(d, n))
    BY <2>1, <2>3
  <2>5. ~(s[k] < n) /\ ~(n < s[k])
    BY ONLY <1>0, n \in d, <2>1, <2>3, <2>4
  <2>6. s[k] = n
    <3>1. s[k] \in Nat /\ n \in Nat
      BY <1>1, <2>3
    <3>2. QED BY ONLY <2>5, <3>1
  <2>7. QED BY <1>5, <2>2, <2>6 DEF ToSet
<1>8. d # {} => s # <<>>
  BY <1>2, <1>5
<1>9. \A c : OldestOf(s, d, c)
  BY <1>4, <1>5, <1>6, <1>7 DEF OldestOf
<1>10. QED BY <1>5, <1>8, <1>9 DEF d, s

-----------------------------------------------------------------------------
(* delete_log and close_logging_file. *)

\* The list that delete_log goes by holds names.
LEMMA CandidatesType == ASSUME Types, NEW p \in Proc PROVE Candidates(p) \in Seq(Name)
BY ScanIsOldest DEF Types, Candidates

\* delete_log deletes one file, and never the current one.
LEMMA DeletesOne ==
  ASSUME Types, NEW p \in Proc, Deletes(p)
  PROVE  /\ dir' \in [Proc -> SUBSET Name] /\ list' \in [Proc -> Seq(Name)]
         /\ NumFiles' = NumFiles - 1
         /\ \A q \in Proc : cur[q] \in dir[q] => cur[q] \in dir'[q]
         /\ \A q \in Proc : q # p => dir'[q] = dir[q] /\ list'[q] = list[q]
         /\ dir'[p] = dir[p] \ {Head(Candidates(p))} /\ list'[p] = Tail(Candidates(p))
<1> DEFINE l == Candidates(p)
           n == Head(l)
<1>1. /\ l # <<>> /\ n # cur[p] /\ n \in dir[p]
      /\ dir' = [dir EXCEPT ![p] = @ \ {n}] /\ list' = [list EXCEPT ![p] = Tail(l)]
  BY DEF Deletes
<1>2. l \in Seq(Name)
  BY CandidatesType
<1>3. dir \in [Proc -> SUBSET Name] /\ list \in [Proc -> Seq(Name)]
  BY DEF Types
<1> HIDE DEF l
<1>4. Tail(l) \in Seq(Name)
  BY <1>1, <1>2
<1> DEFINE t == Tail(l)
<1>5. list' = [list EXCEPT ![p] = t] /\ t \in Seq(Name)
  BY <1>1, <1>4
<1> HIDE DEF n, t
<1>6. /\ list' \in [Proc -> Seq(Name)] /\ list'[p] = t
      /\ \A q \in Proc : q # p => list'[q] = list[q]
  BY ONLY <1>3, <1>5
<1>7. /\ dir' \in [Proc -> SUBSET Name] /\ dir'[p] = dir[p] \ {n}
      /\ \A q \in Proc : q # p => dir'[q] = dir[q]
  BY ONLY <1>1, <1>3
<1>8. NumFiles' = NumFiles - 1
  BY <1>1, <1>3, StoredRemove DEF NumFiles
<1>9. \A q \in Proc : cur[q] \in dir[q] => cur[q] \in dir'[q]
  BY <1>1, <1>7
<1>10. QED BY <1>6, <1>7, <1>8, <1>9 DEF l, n, t

\* When it does not, the list has moved on.
LEMMA RefusesNone ==
  ASSUME Types, NEW p \in Proc, Refuses(p)
  PROVE  /\ dir' = dir /\ list' \in [Proc -> Seq(Name)] /\ faults' \in Nat /\ faults' >= faults
         /\ \A q \in Proc : q # p => list'[q] = list[q]
         /\ list'[p] = IF Candidates(p) = <<>> THEN <<>> ELSE Tail(Candidates(p))
<1> DEFINE l == Candidates(p)
           t == IF l = <<>> THEN l ELSE Tail(l)
<1>1. dir' = dir /\ list' = [list EXCEPT ![p] = t]
  BY DEF Refuses
<1>2. faults' \in Nat /\ faults' >= faults
  BY DEF Refuses, Types
<1>3. l \in Seq(Name)
  BY CandidatesType
<1>4. t \in Seq(Name) /\ t = IF l = <<>> THEN <<>> ELSE Tail(l)
  <2> HIDE DEF l
  <2>1. QED BY <1>3
<1>5. list \in [Proc -> Seq(Name)]
  BY DEF Types
<1> HIDE DEF t
<1>6. /\ list' \in [Proc -> Seq(Name)] /\ list'[p] = t
      /\ \A q \in Proc : q # p => list'[q] = list[q]
  BY ONLY <1>1, <1>4, <1>5
<1>7. QED BY <1>1, <1>2, <1>4, <1>6

\* close_logging_file: the number of files changes only when a rename replaces one.
LEMMA CloseCounts ==
  ASSUME Types, NEW p \in Proc, NEW t \in {now, InProgress}, Close(p, t)
  PROVE  /\ dir' \in [Proc -> SUBSET Name] /\ cur' \in [Proc -> Name] /\ open' \in [Proc -> BOOLEAN]
         /\ disturbed' \in BOOLEAN /\ (disturbed => disturbed')
         /\ NumFiles' <= NumFiles /\ (disturbed' \/ NumFiles' = NumFiles)
         /\ \A q \in Proc : open'[q] => open[q] /\ cur'[q] = cur[q] /\ dir'[q] = dir[q]
         /\ \A q \in Proc : q # p => cur'[q] = cur[q] /\ dir'[q] = dir[q]
         /\ ~rename => UNCHANGED <<dir, cur, disturbed>>
<1>1. /\ dir \in [Proc -> SUBSET Name] /\ cur \in [Proc -> Name] /\ open \in [Proc -> BOOLEAN]
      /\ disturbed \in BOOLEAN /\ t \in Name
  BY CircularLogAssumption DEF Types, Name, InProgress, CircularLogAssumption
<1>2. open' = [open EXCEPT ![p] = FALSE]
  BY DEF Close
<1>3. open' \in [Proc -> BOOLEAN] /\ \A q \in Proc : open'[q] => q # p /\ open[q]
  BY ONLY <1>1, <1>2
<1>4. NumFiles \in Nat
  BY <1>1, StoredFinite DEF NumFiles
<1>5. CASE UNCHANGED <<cur, dir, disturbed>>
  <2>1. NumFiles' = NumFiles
    BY <1>5 DEF NumFiles
  <2>2. QED BY <1>1, <1>3, <1>4, <1>5, <2>1
<1>6. CASE rename /\ cur[p] # 0
  <2>1. /\ cur' = [cur EXCEPT ![p] = t]
        /\ dir' = [dir EXCEPT ![p] = IF cur[p] \in @ THEN (@ \ {cur[p]}) \cup {t} ELSE @]
        /\ disturbed' = (disturbed \/ (cur[p] \in dir[p] \ {t} /\ t \in dir[p]))
    BY <1>6 DEF Close
  <2>2. /\ cur' \in [Proc -> Name] /\ disturbed' \in BOOLEAN /\ (disturbed => disturbed')
        /\ \A q \in Proc : q # p => cur'[q] = cur[q] /\ dir'[q] = dir[q]
    BY ONLY <1>1, <2>1
  <2>3. CASE cur[p] \notin dir[p]
    <3>1. dir' = dir
      BY ONLY <1>1, <2>1, <2>3
    <3>2. NumFiles' = NumFiles
      BY <3>1 DEF NumFiles
    <3>3. QED BY <1>1, <1>3, <1>4, <1>6, <2>2, <3>1, <3>2
  <2>4. CASE cur[p] \in dir[p]
    <3>1. dir' = [dir EXCEPT ![p] = (@ \ {cur[p]}) \cup {t}]
      BY ONLY <1>1, <2>1, <2>4
    <3> DEFINE m == t
               c == cur[p]
               e == Renamed(dir, p, c, m)
    <3>4. /\ e \in [Proc -> SUBSET Name]
          /\ Cardinality(Stored(e)) = IF m \in dir[p] \ {c} THEN Cardinality(Stored(dir)) - 1
                                                          ELSE Cardinality(Stored(dir))
      BY ONLY <1>1, <2>4, p \in Proc, StoredRename
    <3>5. dir' = e /\ (m \in dir[p] \ {c} => disturbed')
      BY <2>1, <2>4, <3>1 DEF Renamed
    <3> HIDE DEF e
    <3>6. NumFiles' = IF m \in dir[p] \ {c} THEN NumFiles - 1 ELSE NumFiles
      BY <3>4, <3>5 DEF NumFiles
    <3>7. QED BY <1>3, <1>4, <1>6, <2>2, <3>4, <3>5, <3>6
  <2>5. QED BY <2>3, <2>4
<1>7. QED BY <1>5, <1>6 DEF Close

\* The sum of the lengths of the lists is a number.
LEMMA ListedFinite ==
  ASSUME Types
  PROVE  /\ IsFiniteSet(Listed) /\ Cardinality(Listed) \in Nat
         /\ Cardinality(ListedOf(Proc \ ready)) \in Nat
         /\ Cardinality(Listed)
              = Cardinality(ListedOf(ready)) + Cardinality(ListedOf(Proc \ ready))
         /\ Cardinality(ListedOf(ready)) \in Nat
<1> DEFINE part == [p \in Proc |-> {p} \X DOMAIN list[p]]
           parts == {part[p] : p \in Proc}
<1>1. IsFiniteSet(Proc)
  BY FS_Interval, CircularLogAssumption DEF Proc, MSM, CircularLogAssumption
<1>2. IsFiniteSet(parts)
  <2>1. part \in Surjection(Proc, parts)
    BY DEF Surjection
  <2> HIDE DEF part, parts
  <2>2. QED BY <1>1, <2>1, FS_Surjection
<1>3. ASSUME NEW p \in Proc PROVE IsFiniteSet(part[p])
  <2>1. list[p] \in Seq(Name)
    BY DEF Types
  <2>2. PICK n \in Nat : DOMAIN list[p] = 1..n
    BY <2>1
  <2>3. IsFiniteSet(DOMAIN list[p])
    <3>1. 1 \in Int /\ n \in Int
      OBVIOUS
    <3>2. IsFiniteSet(1..n)
      BY ONLY <3>1, FS_Interval
    <3>3. QED BY ONLY <2>2, <3>2
  <2>4. IsFiniteSet({p})
    BY FS_Singleton, Zenon
  <2>5. IsFiniteSet({p} \X DOMAIN list[p])
    BY ONLY <2>3, <2>4, FS_Product
  <2>6. QED BY <2>5
<1>4. IsFiniteSet(UNION parts)
  <2>1. \A s \in parts : IsFiniteSet(s)
    BY <1>3
  <2> HIDE DEF parts
  <2>2. QED BY <1>2, <2>1, FS_UNION
<1>5. Listed = UNION parts
  BY DEF Listed, ListedOf, StoredOf
<1>6. IsFiniteSet(Listed) /\ Cardinality(Listed) \in Nat
  BY <1>4, <1>5, FS_CardinalityType
<1> DEFINE d == [p \in Proc |-> DOMAIN list[p]]
<1>7. Listed = Stored(d) /\ \A P : ListedOf(P) = StoredOf(d, P)
  BY DEF Listed, ListedOf, Stored
<1>8. ready \in SUBSET Proc
  BY DEF Types
<1> HIDE DEF d, parts, part
<1>9. /\ Cardinality(StoredOf(d, ready)) \in Nat /\ Cardinality(StoredOf(d, Proc \ ready)) \in Nat
      /\ Cardinality(Stored(d))
           = Cardinality(StoredOf(d, ready)) + Cardinality(StoredOf(d, Proc \ ready))
  BY <1>6, <1>7, <1>8, StoredSplit
<1>10. QED BY <1>6, <1>7, <1>9

\* There are finitely many processors.
LEMMA SomeProc ==
  ASSUME NEW P \in SUBSET Proc PROVE IsFiniteSet(P) /\ Cardinality(P) \in Nat
<1>1. IsFiniteSet(Proc)
  BY FS_Interval, CircularLogAssumption DEF Proc, MSM, CircularLogAssumption
<1>2. QED BY <1>1, FS_Subset, FS_CardinalityType

\* As are those that are READY.
LEMMA ReadyFinite ==
  Types => ready \in SUBSET Proc /\ IsFiniteSet(ready) /\ Cardinality(ready) \in Nat
BY SomeProc DEF Types

\* What init_circular_logging may find too many.
LEMMA ExcessOf ==
  ASSUME count \in Int
  PROVE  /\ Max({0, count - MaxFiles}) \in Nat
         /\ count <= MaxFiles + Max({0, count - MaxFiles})
<1> DEFINE S == {0, count - MaxFiles}
<1>1. MaxFiles \in Nat
  BY CircularLogAssumption DEF CircularLogAssumption
<1>2. \E x \in S : \A y \in S : x >= y
  BY <1>1
<1>3. Max(S) \in S /\ \A y \in S : Max(S) >= y
  BY <1>2, Zenon DEF Max
<1>4. QED BY <1>1, <1>3

\* The clock and the processors.
LEMMA Limits ==
  /\ NumProc \in Nat \ {0} /\ MaxFiles \in Nat /\ MaxFiles > 1 /\ MaxTime \in Nat
  /\ 1 \in 1..(NumProc + 1) /\ NumProc + 1 \in 1..(NumProc + 1) /\ 1 \in Proc
  /\ \A i \in 1..(NumProc + 1) : i <= NumProc => i \in Proc /\ i + 1 \in 1..(NumProc + 1)
  /\ Name = 0..MaxTime /\ Name \subseteq Nat
<1>1. NumProc \in Nat \ {0} /\ MaxFiles \in Nat /\ MaxFiles > 1 /\ MaxTime \in Nat
  BY CircularLogAssumption DEF CircularLogAssumption
<1>2. 1 \in 1..(NumProc + 1) /\ NumProc + 1 \in 1..(NumProc + 1) /\ 1 \in Proc
  BY <1>1 DEF Proc, MSM
<1>3. \A i \in 1..(NumProc + 1) : i <= NumProc => i \in Proc /\ i + 1 \in 1..(NumProc + 1)
  BY <1>1 DEF Proc, MSM
<1>4. Name = 0..MaxTime /\ Name \subseteq Nat
  BY <1>1 DEF Name
<1>5. QED BY <1>1, <1>2, <1>3, <1>4

\* When the oldest file is deleted and leaves the list, the list still names the oldest.
LEMMA TailIsOldest ==
  ASSUME NEW d \in SUBSET Name, NEW l \in Seq(Name), l # <<>>, NEW c, OldestOf(l, d, c)
  PROVE  OldestOf(Tail(l), d \ {Head(l)}, c)
<1> DEFINE t == Tail(l)
           h == Head(l)
<1>1. /\ DOMAIN l = 1..Len(l) /\ Len(l) \in Nat \ {0} /\ 1 \in DOMAIN l /\ h = l[1]
      /\ DOMAIN t = 1..(Len(l) - 1) /\ \A i \in DOMAIN t : t[i] = l[i + 1] /\ i + 1 \in DOMAIN l
  OBVIOUS
<1>2. d \subseteq Nat
  BY Limits
<1>3. /\ \A i, j \in DOMAIN l : i < j => l[i] < l[j]
      /\ \A i \in DOMAIN l : l[i] \in d /\ (l[i] = c => \A n \in d : n < c => n \in ToSet(l))
  BY DEF OldestOf
<1> HIDE DEF t, h
<1>4. ASSUME NEW i \in DOMAIN t, NEW j \in DOMAIN t, i < j PROVE t[i] < t[j]
  BY <1>1, <1>3, <1>4
<1>5. ASSUME NEW i \in DOMAIN t PROVE t[i] \in d \ {h}
  <2>1. l[1] < l[i + 1] /\ l[i + 1] \in d /\ l[1] \in d
    BY <1>1, <1>3
  <2>2. l[i + 1] # l[1]
    <3>1. l[1] \in Nat /\ l[i + 1] \in Nat
      BY <1>2, <2>1
    <3>2. QED BY ONLY <2>1, <3>1
  <2>3. QED BY <1>1, <2>1, <2>2
<1>6. ASSUME NEW i \in DOMAIN t, NEW n \in d \ {h}, t[i] = c, n < c PROVE n \in ToSet(t)
  <2>1. n \in ToSet(l)
    BY <1>1, <1>3, <1>6
  <2>2. PICK k \in DOMAIN l : n = l[k]
    BY <2>1 DEF ToSet
  <2>3. k \in DOMAIN l /\ k # 1
    BY <1>1, <2>2
  <2>4. k - 1 \in DOMAIN t /\ t[k - 1] = n
    BY <1>1, <2>2, <2>3
  <2>5. QED BY <2>4 DEF ToSet
<1>7. QED BY <1>4, <1>5, <1>6 DEF OldestOf, t, h

\* The list that delete_log goes by names the oldest files, and some if there are some.
LEMMA CandidatesOldest ==
  ASSUME Types, NEW p \in Proc, OldestOf(list[p], dir[p], cur[p])
  PROVE  /\ Candidates(p) \in Seq(Name) /\ OldestOf(Candidates(p), dir[p], cur[p])
         /\ dir[p] # {} => Candidates(p) # <<>>
BY ScanIsOldest, CandidatesType DEF Candidates, Types

\* Without a fault a deletion fails only where there is no more than the current file.
LEMMA RefusesLast ==
  ASSUME Types, Tidy, NEW p \in ready, Refuses(p), faults = 0, faults' = 0
  PROVE  /\ OldestOf(list'[p], dir[p], cur[p])
         /\ \A m, n \in dir[p] : ~(m < n)
<1>0. p \in Proc
  BY DEF Types
<1> DEFINE l == Candidates(p)
<1>1. l \in Seq(Name) /\ OldestOf(l, dir[p], cur[p]) /\ (dir[p] # {} => l # <<>>) /\ NewestLast(p)
  BY <1>0, CandidatesOldest DEF Tidy
<1>2. list'[p] = IF l = <<>> THEN <<>> ELSE Tail(l)
  BY <1>0, RefusesNone
<1>3. dir[p] \in SUBSET Name /\ dir[p] \subseteq Nat /\ cur[p] \in Nat
  BY <1>0, Limits DEF Types
<1>4. l = <<>> \/ Head(l) = cur[p] \/ Head(l) \notin dir[p]
  BY DEF Refuses
<1> HIDE DEF l
<1>5. CASE l = <<>>
  <2>1. dir[p] = {}
    BY <1>1, <1>5
  <2>2. OldestOf(<<>>, dir[p], cur[p])
    BY DEF OldestOf
  <2>3. QED BY <1>2, <1>5, <2>1, <2>2
<1>6. CASE l # <<>>
  <2>1. /\ DOMAIN l = 1..Len(l) /\ Len(l) \in Nat /\ 1 \in DOMAIN l /\ Head(l) = l[1]
        /\ Tail(l) \in Seq(Name) /\ Len(Tail(l)) = Len(l) - 1 /\ DOMAIN Tail(l) = 1..(Len(l) - 1)
    BY <1>1, <1>6
  <2>2. /\ \A i, j \in DOMAIN l : i < j => l[i] < l[j]
        /\ \A i \in DOMAIN l :
             l[i] \in dir[p] /\ (l[i] = cur[p] => \A n \in dir[p] : n < cur[p] => n \in ToSet(l))
    BY <1>1 DEF OldestOf
  <2>3. l[1] \in dir[p] /\ l[1] = cur[p]
    BY <1>4, <1>6, <2>1, <2>2
  <2>4. \A n \in dir[p] : n <= l[1]
    BY <1>1, <1>3, <2>3 DEF NewestLast
  <2>5. Len(l) = 1
    <3>1. SUFFICES ASSUME 2 \in DOMAIN l PROVE FALSE
      BY <2>1
    <3>2. l[1] < l[2] /\ l[2] \in dir[p]
      BY <2>1, <2>2, <3>1
    <3>3. QED BY <1>3, <2>3, <2>4, <3>2
  <2>6. OldestOf(Tail(l), dir[p], cur[p])
    BY <2>1, <2>5 DEF OldestOf
  <2>7. ASSUME NEW m \in dir[p], NEW n \in dir[p], m < n PROVE FALSE
    <3>1. m < l[1]
      BY <1>3, <2>3, <2>4, <2>7
    <3>2. m \in ToSet(l)
      BY <2>1, <2>2, <2>3, <3>1
    <3>3. m = l[1]
      BY <2>1, <2>5, <3>2 DEF ToSet
    <3>4. QED BY <1>3, <2>3, <3>1, <3>3
  <2>8. QED BY <1>2, <1>6, <2>6, <2>7
<1>7. QED BY <1>5, <1>6

\* No file is in a list twice, so there are no more in the lists than there are.
LEMMA ListedBound ==
  ASSUME Types, Tidy, NEW P \in SUBSET Proc
  PROVE  Cardinality(ListedOf(P)) <= Cardinality(StoredOf(dir, P))
<1> DEFINE f == [x \in ListedOf(P) |-> <<x[1], list[x[1]][x[2]]>>]
<1>1. \A x \in ListedOf(P) :
        x = <<x[1], x[2]>> /\ x[1] \in P /\ x[1] \in Proc /\ x[2] \in DOMAIN list[x[1]]
  <2>1. ASSUME NEW x \in ListedOf(P)
        PROVE  \E p \in P : x \in {p} \X DOMAIN list[p]
    BY DEF ListedOf, StoredOf
  <2>2. QED BY <2>1
<1>2. ASSUME NEW p \in P, NEW i \in DOMAIN list[p]
      PROVE  <<p, list[p][i]>> \in StoredOf(dir, P)
  BY DEF Tidy, OldestOf, StoredOf
<1>3. f \in [ListedOf(P) -> StoredOf(dir, P)]
  BY <1>1, <1>2
<1>4. ASSUME NEW p \in Proc, NEW i \in DOMAIN list[p], NEW j \in DOMAIN list[p], list[p][i] =
      list[p][j]
      PROVE  i = j
  <2>1. list[p] \in Seq(Name)
    BY DEF Types
  <2>2. i \in Nat /\ j \in Nat /\ list[p][i] \in Nat /\ list[p][j] \in Nat
    BY <2>1, Limits
  <2>3. ~(i < j) /\ ~(j < i)
    BY <1>4, <2>2 DEF Tidy, OldestOf
  <2>4. QED BY <2>2, <2>3
<1>5. ASSUME NEW x \in ListedOf(P), NEW y \in ListedOf(P), f[x] = f[y] PROVE x = y
  <2>1. x[1] = y[1] /\ list[x[1]][x[2]] = list[y[1]][y[2]]
    BY <1>5
  <2>2. x[2] = y[2]
    BY <1>1, <1>4, <2>1
  <2>3. QED BY <1>1, <2>1, <2>2
<1>6. f \in Injection(ListedOf(P), StoredOf(dir, P))
  <2> HIDE DEF f
  <2>1. QED BY <1>3, <1>5 DEF Injection, IsInjective
<1>7. IsFiniteSet(StoredOf(dir, P))
  BY StoredFinite, StoredSplit DEF Types
<1> HIDE DEF f
<1>8. QED BY ONLY <1>6, <1>7, FS_Injection

\* A deletion leaves the lists and directories tidy.
LEMMA DeletesTidy ==
  ASSUME Types, Tidy, NEW p \in Proc, Deletes(p), UNCHANGED <<cur, now>>
  PROVE  Tidy'
<1>1. /\ \A q \in Proc : q # p => dir'[q] = dir[q] /\ list'[q] = list[q]
      /\ dir'[p] = dir[p] \ {Head(Candidates(p))} /\ list'[p] = Tail(Candidates(p))
  BY DeletesOne
<1>2. Candidates(p) # <<>>
  BY DEF Deletes
<1>3. OldestOf(list[p], dir[p], cur[p])
  BY DEF Tidy
<1>4. /\ Candidates(p) \in Seq(Name) /\ OldestOf(Candidates(p), dir[p], cur[p])
      /\ dir[p] \in SUBSET Name
  BY <1>3, CandidatesOldest DEF Types
<1>5. OldestOf(list'[p], dir'[p], cur'[p])
  BY <1>1, <1>2, <1>4, TailIsOldest
<1>6. ASSUME NEW q \in Proc PROVE OldestOf(list'[q], dir'[q], cur'[q]) /\ NewestLast(q)'
  <2>1. OldestOf(list[q], dir[q], cur[q]) /\ NewestLast(q) /\ dir'[q] \subseteq dir[q]
    BY <1>1 DEF Tidy
  <2>2. NewestLast(q)'
    BY <2>1 DEF NewestLast
  <2>3. QED BY <1>1, <1>5, <2>1, <2>2
<1>7. QED BY <1>6 DEF Tidy

\* So does one that finds nothing to delete.
LEMMA RefusesTidy ==
  ASSUME Types, Started, Tidy, NEW p \in Proc, Refuses(p), faults = 0, faults' = 0,
         UNCHANGED <<cur, now>>
  PROVE  Tidy'
<1>1. dir' = dir /\ \A q \in Proc : q # p => list'[q] = list[q]
  BY RefusesNone
<1>2. OldestOf(list'[p], dir[p], cur[p])
  <2>1. CASE p \in ready
    BY <2>1, RefusesLast
  <2>2. CASE p \notin ready
    <3> DEFINE l == Candidates(p)
    <3>1. cur[p] = 0 /\ \A n \in dir[p] : n # 0
      <4>1. \A n \in dir[p] : 0 < n /\ n \in Nat
        BY Limits DEF Tidy, NewestLast, Types
      <4>2. QED BY <2>2, <4>1 DEF Started
    <3>2. l \in Seq(Name) /\ OldestOf(l, dir[p], cur[p])
      BY CandidatesOldest DEF Tidy
    <3>3. list'[p] = IF l = <<>> THEN <<>> ELSE Tail(l)
      BY RefusesNone
    <3>4. dir[p] \in SUBSET Name
      BY DEF Types
    <3> HIDE DEF l
    <3>5. CASE l = <<>>
      BY <3>3, <3>5 DEF OldestOf
    <3>6. CASE l # <<>>
      <4>1. OldestOf(Tail(l), dir[p] \ {Head(l)}, cur[p])
        BY <3>2, <3>4, <3>6, TailIsOldest
      <4>2. OldestOf(Tail(l), dir[p], cur[p])
        BY <3>1, <4>1 DEF OldestOf
      <4>3. QED BY <3>3, <3>6, <4>2
    <3>7. QED BY <3>5, <3>6
  <2>3. QED BY <2>1, <2>2
<1>3. ASSUME NEW q \in Proc PROVE OldestOf(list'[q], dir'[q], cur'[q]) /\ NewestLast(q)'
  <2>1. OldestOf(list[q], dir[q], cur[q]) /\ NewestLast(q)
    BY DEF Tidy
  <2>2. NewestLast(q)'
    BY <1>1, <2>1 DEF NewestLast
  <2>3. OldestOf(list'[q], dir'[q], cur'[q])
    BY <1>1, <1>2, <2>1
  <2>4. QED BY <2>2, <2>3
<1>4. QED BY <1>3 DEF Tidy

-----------------------------------------------------------------------------
(* What each step keeps. *)

\* Every step keeps the types (log_to_device, init_circular_logging and what they call).
LEMMA TypesStep == Types /\ [Next]_vars => Types'
<1> SUFFICES ASSUME Types, [Next]_vars PROVE Types'
  OBVIOUS
<1> USE DEF Types, ctl, files, env, known, vars
<1>1. ASSUME NEW p \in Proc, L_Call(p) PROVE Types'
  BY <1>1 DEF L_Call
<1>2. ASSUME NEW p \in Proc, S_Close(p) PROVE Types'
  BY <1>2, CloseCounts DEF S_Close
<1>2a. ASSUME NEW p \in Proc, X_Close(p) PROVE Types'
  BY <1>2a, CloseCounts DEF X_Close
<1>2b. ASSUME NEW p \in Proc, R_Ready(p) PROVE Types'
  BY <1>2b DEF R_Ready
<1>3. CASE L_Device
  BY <1>3 DEF L_Device
<1>4. CASE I_Count
  <2>1. /\ count' = Cardinality(Listed) /\ unlisted' = NumFiles - count' /\ inited' = TRUE
        /\ z' \in {z, 1} /\ pc' \in {"reduce", "check"}
        /\ UNCHANGED <<who, rc, dir, cur, open, list, ready, now, faults, disturbed, gaveUp,
                       excess>>
        /\ foreign' = Cardinality(ListedOf(Proc \ ready))
    BY <1>4 DEF I_Count
  <2>2. count' \in Int /\ unlisted' \in Int /\ foreign' \in Nat
    BY <2>1, ListedFinite, StoredFinite DEF NumFiles
  <2>3. z' \in 1..(NumProc + 1)
    BY <2>1, Limits
  <2>4. QED BY <2>1, <2>2, <2>3
<1>5. CASE I_Reduce
  <2>1. z \in Proc /\ z + 1 \in 1..(NumProc + 1)
    BY <1>5, Limits DEF I_Reduce
  <2>2. UNCHANGED <<pc, who, rc, cur, open, ready, inited, disturbed, gaveUp, known, now, excess>>
    BY <1>5 DEF I_Reduce
  <2>3. CASE list[z] = <<>> /\ z' = z + 1 /\ UNCHANGED <<dir, list, count, faults>>
    BY <2>1, <2>2, <2>3
  <2>4. CASE Deletes(z) /\ count' = count - 1 /\ z' = z + 1
    <3>1. dir' \in [Proc -> SUBSET Name] /\ list' \in [Proc -> Seq(Name)] /\ UNCHANGED faults
      BY <2>1, <2>4, DeletesOne DEF Deletes
    <3>2. QED BY <2>1, <2>2, <2>4, <3>1
  <2>5. CASE Refuses(z) /\ z' = NumProc + 1 /\ UNCHANGED count
    <3>1. dir' = dir /\ list' \in [Proc -> Seq(Name)] /\ faults' \in Nat
      BY <2>1, <2>5, RefusesNone
    <3>2. QED BY <2>2, <2>5, <3>1, Limits
  <2>6. QED BY <1>5, <2>3, <2>4, <2>5 DEF I_Reduce
<1>6. CASE I_Turn
  <2>1. /\ z' \in {z, 1} /\ pc' \in {"reduce", "check"}
        /\ excess' \in {excess, Max({0, count - MaxFiles})}
        /\ UNCHANGED <<who, rc, dir, cur, open, list, count, inited, now, faults, disturbed, gaveUp,
                       ready, known>>
    BY <1>6 DEF I_Turn
  <2>2. excess' \in Nat
    BY <2>1, ExcessOf
  <2>3. z' \in 1..(NumProc + 1)
    BY <2>1, Limits
  <2>4. QED BY <2>1, <2>2, <2>3
<1>7. CASE C_Check
  BY <1>7, Limits DEF C_Check
<1>8. CASE C_Rotate
  <2>1. z \in Proc /\ z + 1 \in 1..(NumProc + 1) /\ z' = z + 1
    BY <1>8, Limits DEF C_Rotate
  <2>2. UNCHANGED <<pc, who, cur, open, ready, inited, disturbed, gaveUp, known, now, excess>>
    BY <1>8 DEF C_Rotate
  <2>3. CASE Deletes(z) /\ count' = count - 1 /\ rc' = TRUE
    <3>1. dir' \in [Proc -> SUBSET Name] /\ list' \in [Proc -> Seq(Name)] /\ UNCHANGED faults
      BY <2>1, <2>3, DeletesOne DEF Deletes
    <3>2. QED BY <2>1, <2>2, <2>3, <3>1
  <2>4. CASE Refuses(z) /\ UNCHANGED <<rc, count>>
    <3>1. dir' = dir /\ list' \in [Proc -> Seq(Name)] /\ faults' \in Nat
      BY <2>1, <2>4, RefusesNone
    <3>2. QED BY <2>1, <2>2, <2>4, <3>1
  <2>5. CASE UNCHANGED <<rc, dir, list, count, faults>>
    BY <2>1, <2>2, <2>5
  <2>6. QED BY <1>8, <2>3, <2>4, <2>5 DEF C_Rotate
<1>9. CASE C_Rotated
  BY <1>9 DEF C_Rotated
<1>10. CASE C_Create
  <2>1. /\ pc' \in {"write", "idle"} /\ count' \in {count, count + 1} /\ disturbed' \in BOOLEAN
        /\ faults' \in {faults, faults + 1}
        /\ UNCHANGED <<who, z, rc, list, ready, inited, gaveUp, known, now, excess>>
    BY <1>10 DEF C_Create
  <2>2. /\ cur' = [cur EXCEPT ![who] = now]
        /\ open' = open \/ open' = [open EXCEPT ![who] = TRUE]
        /\ dir' = dir \/ dir' = [dir EXCEPT ![who] = @ \cup {now}]
    BY <1>10 DEF C_Create
  <2>3. who \in Proc /\ now \in Name
    OBVIOUS
  <2>4. cur' \in [Proc -> Name] /\ open' \in [Proc -> BOOLEAN]
    BY ONLY Types, <2>2, <2>3 DEF Types
  <2>5. dir' \in [Proc -> SUBSET Name]
    <3> DEFINE D == dir[who] \cup {now}
    <3>1. dir \in [Proc -> SUBSET Name]
      OBVIOUS
    <3>2. D \in SUBSET Name
      BY ONLY <2>3, <3>1
    <3> HIDE DEF D
    <3>3. [dir EXCEPT ![who] = D] \in [Proc -> SUBSET Name]
      BY ONLY <2>3, <3>1, <3>2
    <3>4. dir' = dir \/ dir' = [dir EXCEPT ![who] = D]
      BY <2>2 DEF D
    <3>5. QED BY ONLY <3>1, <3>3, <3>4
  <2>6. QED BY <2>1, <2>4, <2>5
<1>11. CASE W_Write
  BY <1>11, CloseCounts DEF W_Write
<1>12. CASE W_Stat
  BY <1>12 DEF W_Stat
<1>13. CASE W_Full
  <2>1. /\ pc' = "full" /\ z' = 1 /\ rc' = FALSE /\ faults' = faults + 1
        /\ UNCHANGED <<who, dir, cur, open, list, count, ready, inited, now, disturbed, gaveUp,
                       known, excess>>
    BY <1>13 DEF W_Full
  <2>2. z' \in 1..(NumProc + 1)
    BY <2>1, Limits
  <2>3. faults' \in Nat
    BY <2>1
  <2>4. QED BY <2>1, <2>2, <2>3
<1>14. CASE F_Delete
  <2>1. z \in Proc /\ z + 1 \in 1..(NumProc + 1) /\ z' = z + 1
    BY <1>14, Limits DEF F_Delete
  <2>2. UNCHANGED <<pc, who, cur, open, count, ready, inited, gaveUp, known, now, excess>>
    BY <1>14 DEF F_Delete
  <2>3. CASE Deletes(z) /\ rc' = TRUE /\ disturbed' = TRUE
    <3>1. dir' \in [Proc -> SUBSET Name] /\ list' \in [Proc -> Seq(Name)] /\ UNCHANGED faults
      BY <2>1, <2>3, DeletesOne DEF Deletes
    <3>2. QED BY <2>1, <2>2, <2>3, <3>1
  <2>4. CASE Refuses(z) /\ UNCHANGED <<rc, disturbed>>
    <3>1. dir' = dir /\ list' \in [Proc -> Seq(Name)] /\ faults' \in Nat
      BY <2>1, <2>4, RefusesNone
    <3>2. QED BY <2>1, <2>2, <2>4, <3>1
  <2>5. CASE UNCHANGED <<rc, dir, list, faults, disturbed>>
    BY <2>1, <2>2, <2>5
  <2>6. QED BY <1>14, <2>3, <2>4, <2>5 DEF F_Delete
<1>15. CASE F_Again
  BY <1>15, CloseCounts DEF F_Again
<1>16. CASE T_Tick
  <2>1. now' \in Name \ {0}
    BY <1>16, Limits DEF T_Tick
  <2>2. QED BY <1>16, <2>1 DEF T_Tick
<1>17. CASE UNCHANGED vars
  BY <1>17
<1>18. QED
  BY <1>1, <1>2, <1>2a, <1>2b, <1>3, <1>4, <1>5, <1>6, <1>7, <1>8, <1>9, <1>10, <1>11, <1>12, <1>13,
     <1>14, <1>15, <1>16, <1>17
     DEF Next, LogToDevice

\* No file is open before the files are counted.
LEMMA StartedStep == Types /\ Started /\ [Next]_vars => Started'
<1> SUFFICES ASSUME Types, Started, [Next]_vars PROVE Started'
  OBVIOUS
<1> USE DEF Started, ctl, files, env, known, vars
<1>1. ASSUME NEW p \in Proc, L_Call(p) PROVE Started'
  BY <1>1 DEF L_Call
<1>2. ASSUME NEW p \in Proc, S_Close(p) PROVE Started'
  BY <1>2, CloseCounts DEF S_Close
<1>2a. ASSUME NEW p \in Proc, X_Close(p) PROVE Started'
  BY <1>2a, CloseCounts DEF X_Close, Types
<1>2b. ASSUME NEW p \in Proc, R_Ready(p) PROVE Started'
  BY <1>2b DEF R_Ready
<1>3. CASE L_Device
  BY <1>3 DEF L_Device, Types
<1>4. CASE I_Count
  BY <1>4 DEF I_Count, Types
<1>5. CASE I_Reduce
  BY <1>5 DEF I_Reduce, Types
<1>6. CASE I_Turn
  BY <1>6 DEF I_Turn, Types
<1>7. CASE C_Check
  BY <1>7 DEF C_Check, Types
<1>8. CASE C_Rotate
  BY <1>8 DEF C_Rotate, Types
<1>9. CASE C_Rotated
  BY <1>9 DEF C_Rotated
<1>10. CASE C_Create
  BY <1>10 DEF C_Create, Types
<1>11. CASE W_Write
  BY <1>11, CloseCounts DEF W_Write, Types
<1>12. CASE W_Stat
  BY <1>12 DEF W_Stat, Types
<1>13. CASE W_Full
  BY <1>13 DEF W_Full
<1>14. CASE F_Delete
  BY <1>14 DEF F_Delete
<1>15. CASE F_Again
  BY <1>15, CloseCounts DEF F_Again, Types
<1>16. CASE T_Tick
  BY <1>16 DEF T_Tick
<1>17. CASE UNCHANGED vars
  BY <1>17
<1>18. QED
  BY <1>1, <1>2, <1>2a, <1>2b, <1>3, <1>4, <1>5, <1>6, <1>7, <1>8, <1>9, <1>10, <1>11, <1>12, <1>13,
     <1>14, <1>15, <1>16, <1>17
     DEF Next, LogToDevice

\* file_count stays in step with the files.
LEMMA CountedStep == Types /\ Started /\ Counted /\ [Next]_vars => Counted'
<1> SUFFICES ASSUME Types, Started, Counted, [Next]_vars PROVE Counted'
  OBVIOUS
<1> USE DEF Counted, ctl, files, env, known, vars
<1>0. /\ NumFiles \in Nat /\ count \in Int /\ unlisted \in Int /\ excess \in Nat /\ MaxFiles \in Nat
      /\ pc \notin {"idle", "device", "init"} => inited
  BY StoredFinite, Limits DEF Types, Started, NumFiles
<1>1. ASSUME NEW p \in Proc, L_Call(p) PROVE Counted'
  <2>1. NumFiles' = NumFiles
    BY <1>1 DEF L_Call, NumFiles
  <2>2. QED BY <1>0, <2>1, <1>1 DEF L_Call
<1>2. ASSUME NEW p \in Proc, S_Close(p) PROVE Counted'
  <2>1. NumFiles' \in Nat /\ NumFiles' <= NumFiles /\ (disturbed' \/ NumFiles' = NumFiles)
        /\ (disturbed => disturbed')
    <3>1. Close(p, InProgress)
      BY <1>2 DEF S_Close
    <3>2. dir' \in [Proc -> SUBSET Name]
      BY <3>1, CloseCounts
    <3>3. NumFiles' \in Nat
      BY <3>2, StoredFinite DEF NumFiles
    <3>4. QED BY <3>1, <3>3, CloseCounts
  <2>2. QED BY <1>0, <2>1, <1>2 DEF S_Close
<1>2a. ASSUME NEW p \in Proc, X_Close(p) PROVE Counted'
  <2>1. NumFiles' \in Nat /\ NumFiles' <= NumFiles /\ (disturbed' \/ NumFiles' = NumFiles)
        /\ (disturbed => disturbed')
    <3>1. Close(p, now)
      BY <1>2a DEF X_Close
    <3>2. dir' \in [Proc -> SUBSET Name]
      BY <3>1, CloseCounts
    <3>3. NumFiles' \in Nat
      BY <3>2, StoredFinite DEF NumFiles
    <3>4. QED BY <3>1, <3>3, CloseCounts
  <2>2. QED BY <1>0, <2>1, <1>2a DEF X_Close
<1>2b. ASSUME NEW p \in Proc, R_Ready(p) PROVE Counted'
  <2>1. NumFiles' = NumFiles
    BY <1>2b DEF R_Ready, NumFiles
  <2>2. QED BY <1>0, <2>1, <1>2b DEF R_Ready
<1>3. CASE L_Device
  <2>1. NumFiles' = NumFiles
    BY <1>3 DEF L_Device, NumFiles
  <2>2. QED BY <1>0, <2>1, <1>3 DEF L_Device
<1>4. CASE I_Count
  <2>1. /\ count' = Cardinality(Listed) /\ unlisted' = NumFiles - count' /\ excess' = excess
        /\ pc' \in {"reduce", "check"} /\ dir' = dir
    BY <1>4 DEF I_Count
  <2>2. pc' # "reduce" => count' < MaxFiles \/ \A p \in Proc : list[p] = <<>>
    <3>1. Cardinality(Listed) \in Nat
      BY ListedFinite
    <3>2. QED BY <1>0, <2>1, <3>1, <1>4 DEF I_Count
  <2>3. (\A p \in Proc : list[p] = <<>>) => count' = 0
    <3>1. SUFFICES ASSUME \A p \in Proc : list[p] = <<>> PROVE Cardinality(Listed) = 0
      BY <2>1
    <3>2. Listed = {}
      BY <3>1 DEF Listed, ListedOf, StoredOf
    <3>3. QED BY <3>2, FS_EmptySet
  <2>4. NumFiles' = NumFiles /\ count' \in Nat
    BY <2>1, ListedFinite DEF NumFiles
  <2>5. QED BY <1>0, <2>1, <2>2, <2>3, <2>4
<1>5. CASE I_Reduce
  <2>1. z \in Proc
    BY <1>5, Limits DEF Types, I_Reduce
  <2>2. CASE Deletes(z) /\ count' = count - 1
    <3>1. NumFiles' = NumFiles - 1
      BY <2>1, <2>2, DeletesOne
    <3>2. QED BY <1>0, <2>2, <3>1, <1>5 DEF I_Reduce
  <2>3. CASE UNCHANGED <<dir, count>>
    <3>1. NumFiles' = NumFiles
      BY <2>3 DEF NumFiles
    <3>2. QED BY <1>0, <2>3, <3>1, <1>5 DEF I_Reduce
  <2>4. QED BY <1>5, <2>1, <2>2, <2>3, RefusesNone DEF I_Reduce
<1>6. CASE I_Turn
  <2>1. NumFiles' = NumFiles
    BY <1>6 DEF I_Turn, NumFiles
  <2>2. CASE pc' = "check" /\ excess' = Max({0, count - MaxFiles})
    BY <1>0, <2>1, <2>2, <1>6, ExcessOf DEF I_Turn
  <2>3. CASE pc' = pc /\ excess' = excess
    BY <1>0, <2>1, <2>3, <1>6 DEF I_Turn
  <2>4. QED BY <1>6, <2>2, <2>3 DEF I_Turn
<1>7. CASE C_Check
  <2>1. NumFiles' = NumFiles
    BY <1>7 DEF C_Check, NumFiles
  <2>2. QED BY <1>0, <2>1, <1>7 DEF C_Check
<1>8. CASE C_Rotate
  <2>1. z \in Proc
    BY <1>8, Limits DEF Types, C_Rotate
  <2>2. CASE Deletes(z) /\ count' = count - 1 /\ rc' = TRUE
    <3>1. NumFiles' = NumFiles - 1
      BY <2>1, <2>2, DeletesOne
    <3>2. QED BY <1>0, <2>2, <3>1, <1>8 DEF C_Rotate
  <2>3. CASE UNCHANGED <<dir, count, rc>>
    <3>1. NumFiles' = NumFiles
      BY <2>3 DEF NumFiles
    <3>2. QED BY <1>0, <2>3, <3>1, <1>8 DEF C_Rotate
  <2>4. QED BY <1>8, <2>1, <2>2, <2>3, RefusesNone DEF C_Rotate
<1>9. CASE C_Rotated
  <2>1. NumFiles' = NumFiles
    BY <1>9 DEF C_Rotated, NumFiles
  <2>2. QED BY <1>0, <2>1, <1>9 DEF C_Rotated
<1>10. CASE C_Create
  <2>1. /\ pc = "create" /\ UNCHANGED <<inited, excess, unlisted>>
    BY <1>10 DEF C_Create
  <2>2. CASE /\ dir' = [dir EXCEPT ![who] = @ \cup {now}]
             /\ disturbed' = (disturbed \/ now \in dir[who])
             /\ count' = count + 1 /\ pc' = "write"
    <3>1. NumFiles' = IF now \in dir[who] THEN NumFiles ELSE NumFiles + 1
      <4>1. dir \in [Proc -> SUBSET Name] /\ who \in Proc /\ now \in Name
        BY DEF Types
      <4>2. QED BY <2>2, <4>1, StoredAdd DEF NumFiles
    <3>2. NumFiles' \in Nat
      BY <1>0, <3>1
    <3>3. /\ inited /\ NumFiles <= count + unlisted /\ (disturbed \/ NumFiles = count + unlisted)
          /\ count < MaxFiles + excess
      BY <1>0, <2>1
    <3>4. count' + unlisted' = count + unlisted + 1 /\ count' <= MaxFiles' + excess'
      BY ONLY <1>0, <2>1, <2>2, <3>3
    <3>5. disturbed' \/ (now \notin dir[who] /\ ~disturbed)
      <4>1. disturbed' = (disturbed \/ now \in dir[who])
        BY <2>2
      <4>2. QED BY ONLY <4>1
    <3>6. (NumFiles' = NumFiles \/ NumFiles' = NumFiles + 1)
          /\ (now \notin dir[who] => NumFiles' = NumFiles + 1)
      BY ONLY <3>1
    <3>7. NumFiles' <= count' + unlisted' /\ (disturbed' \/ NumFiles' = count' + unlisted')
      BY ONLY <1>0, <3>3, <3>4, <3>5, <3>6
    <3>8. QED BY <2>2, <3>4, <3>7
  <2>3. CASE pc' = "idle" /\ UNCHANGED <<dir, disturbed, count>>
    <3>1. NumFiles' = NumFiles
      BY <2>3 DEF NumFiles
    <3>2. QED BY <1>0, <2>1, <2>3, <3>1
  <2>4. QED BY <1>10, <2>2, <2>3 DEF C_Create
<1>11. CASE W_Write
  <2>1. NumFiles' \in Nat /\ NumFiles' <= NumFiles /\ (disturbed' \/ NumFiles' = NumFiles)
        /\ (disturbed => disturbed')
    <3>1. CASE Close(who, InProgress)
      <4>1. who \in Proc
        BY DEF Types
      <4>2. dir' \in [Proc -> SUBSET Name]
        BY <3>1, <4>1, CloseCounts
      <4>3. NumFiles' \in Nat
        BY <4>2, StoredFinite DEF NumFiles
      <4>4. QED BY <3>1, <4>1, <4>3, CloseCounts
    <3>2. CASE UNCHANGED <<dir, disturbed>>
      BY <1>0, <3>2 DEF NumFiles
    <3>3. QED BY <1>11, <3>1, <3>2 DEF W_Write
  <2>2. QED BY <1>0, <2>1, <1>11 DEF W_Write
<1>12. CASE W_Stat
  <2>1. NumFiles' = NumFiles
    BY <1>12 DEF W_Stat, NumFiles
  <2>2. QED BY <1>0, <2>1, <1>12 DEF W_Stat
<1>13. CASE W_Full
  <2>1. NumFiles' = NumFiles
    BY <1>13 DEF W_Full, NumFiles
  <2>2. QED BY <1>0, <2>1, <1>13 DEF W_Full
<1>14. CASE F_Delete
  <2>1. z \in Proc
    BY <1>14, Limits DEF Types, F_Delete
  <2>2. CASE Deletes(z) /\ rc' = TRUE /\ disturbed' = TRUE
    <3>1. NumFiles' = NumFiles - 1
      BY <2>1, <2>2, DeletesOne
    <3>2. QED BY <1>0, <2>2, <3>1, <1>14 DEF F_Delete
  <2>3. CASE UNCHANGED <<dir, rc, disturbed>>
    <3>1. NumFiles' = NumFiles
      BY <2>3 DEF NumFiles
    <3>2. QED BY <1>0, <2>3, <3>1, <1>14 DEF F_Delete
  <2>4. QED BY <1>14, <2>1, <2>2, <2>3, RefusesNone DEF F_Delete
<1>15. CASE F_Again
  <2>1. NumFiles' \in Nat /\ NumFiles' <= NumFiles /\ (disturbed' \/ NumFiles' = NumFiles)
        /\ (disturbed => disturbed')
    <3>1. CASE Close(who, InProgress)
      <4>1. who \in Proc
        BY DEF Types
      <4>2. dir' \in [Proc -> SUBSET Name]
        BY <3>1, <4>1, CloseCounts
      <4>3. NumFiles' \in Nat
        BY <4>2, StoredFinite DEF NumFiles
      <4>4. QED BY <3>1, <4>1, <4>3, CloseCounts
    <3>2. CASE UNCHANGED <<dir, disturbed>>
      BY <1>0, <3>2 DEF NumFiles
    <3>3. QED BY <1>15, <3>1, <3>2 DEF F_Again
  <2>2. QED BY <1>0, <2>1, <1>15 DEF F_Again
<1>16. CASE T_Tick
  <2>1. NumFiles' = NumFiles
    BY <1>16 DEF T_Tick, NumFiles
  <2>2. QED BY <1>0, <2>1, <1>16 DEF T_Tick
<1>17. CASE UNCHANGED vars
  <2>1. NumFiles' = NumFiles
    BY <1>17 DEF NumFiles
  <2>2. QED BY <1>0, <2>1, <1>17
<1>18. QED
  BY <1>1, <1>2, <1>2a, <1>2b, <1>3, <1>4, <1>5, <1>6, <1>7, <1>8, <1>9, <1>10, <1>11, <1>12, <1>13,
     <1>14, <1>15, <1>16, <1>17
     DEF Next, LogToDevice

\* No step deletes a file that is being written.
LEMMA InUseStep == Types /\ Started /\ InUseKept /\ [Next]_vars => InUseKept'
<1> SUFFICES ASSUME Types, Started, InUseKept, [Next]_vars PROVE InUseKept'
  OBVIOUS
<1> USE DEF InUseKept, ctl, files, env, known, vars
<1>1. ASSUME NEW p \in Proc, L_Call(p) PROVE InUseKept'
  BY <1>1 DEF L_Call
<1>2. ASSUME NEW p \in Proc, S_Close(p) PROVE InUseKept'
  BY <1>2, CloseCounts DEF S_Close
<1>2a. ASSUME NEW p \in Proc, X_Close(p) PROVE InUseKept'
  BY <1>2a, CloseCounts DEF X_Close
<1>2b. ASSUME NEW p \in Proc, R_Ready(p) PROVE InUseKept'
  BY <1>2b DEF R_Ready
<1>3. CASE L_Device
  BY <1>3 DEF L_Device
<1>4. CASE I_Count
  BY <1>4 DEF I_Count
<1>5. CASE I_Reduce
  <2>1. z \in Proc /\ UNCHANGED <<cur, open>>
    BY <1>5, Limits DEF Types, I_Reduce
  <2>2. CASE Deletes(z)
    BY <2>1, <2>2, DeletesOne
  <2>3. CASE UNCHANGED dir
    BY <2>1, <2>3
  <2>4. QED BY <1>5, <2>1, <2>2, <2>3, RefusesNone DEF I_Reduce
<1>6. CASE I_Turn
  BY <1>6 DEF I_Turn
<1>7. CASE C_Check
  BY <1>7 DEF C_Check
<1>8. CASE C_Rotate
  <2>1. z \in Proc /\ UNCHANGED <<cur, open>>
    BY <1>8, Limits DEF Types, C_Rotate
  <2>2. CASE Deletes(z)
    BY <2>1, <2>2, DeletesOne
  <2>3. CASE UNCHANGED dir
    BY <2>1, <2>3
  <2>4. QED BY <1>8, <2>1, <2>2, <2>3, RefusesNone DEF C_Rotate
<1>9. CASE C_Rotated
  BY <1>9 DEF C_Rotated
<1>10. CASE C_Create
  <2>1. /\ dir \in [Proc -> SUBSET Name] /\ cur \in [Proc -> Name] /\ open \in [Proc -> BOOLEAN]
        /\ who \in Proc /\ now \in Name /\ ~open[who]
    BY <1>10 DEF Types, Started, C_Create
  <2>2. \A p \in Proc : cur'[p] = IF p = who THEN now ELSE cur[p]
    BY <1>10, <2>1 DEF C_Create
  <2>3. CASE open' = [open EXCEPT ![who] = TRUE] /\ dir' = [dir EXCEPT ![who] = @ \cup {now}]
    BY <2>1, <2>2, <2>3
  <2>4. CASE UNCHANGED <<open, dir>>
    BY <2>1, <2>2, <2>4
  <2>5. QED BY <1>10, <2>3, <2>4 DEF C_Create
<1>11. CASE W_Write
  BY <1>11, CloseCounts DEF W_Write, Types
<1>12. CASE W_Stat
  BY <1>12 DEF W_Stat, Types
<1>13. CASE W_Full
  BY <1>13 DEF W_Full
<1>14. CASE F_Delete
  <2>1. z \in Proc /\ UNCHANGED <<cur, open>>
    BY <1>14, Limits DEF Types, F_Delete
  <2>2. CASE Deletes(z)
    BY <2>1, <2>2, DeletesOne
  <2>3. CASE UNCHANGED dir
    BY <2>1, <2>3
  <2>4. QED BY <1>14, <2>1, <2>2, <2>3, RefusesNone DEF F_Delete
<1>15. CASE F_Again
  BY <1>15, CloseCounts DEF F_Again, Types
<1>16. CASE T_Tick
  BY <1>16 DEF T_Tick
<1>17. CASE UNCHANGED vars
  BY <1>17
<1>18. QED
  BY <1>1, <1>2, <1>2a, <1>2b, <1>3, <1>4, <1>5, <1>6, <1>7, <1>8, <1>9, <1>10, <1>11, <1>12, <1>13,
     <1>14, <1>15, <1>16, <1>17
     DEF Next, LogToDevice

\* Nothing that was disturbed becomes quiet again.
LEMMA QuietStep == Types /\ Started /\ [Next]_vars /\ Quiet' => Quiet
<1> SUFFICES ASSUME Types, Started, [Next]_vars, Quiet' PROVE Quiet
  OBVIOUS
<1> USE DEF Quiet, ctl, files, env, known, vars
<1>0. faults \in Nat /\ disturbed \in BOOLEAN
  BY DEF Types
<1>00. Cardinality(ready) \in Nat /\ MaxFiles \in Nat
  BY ReadyFinite, Limits
<1>1. ASSUME NEW p \in Proc, L_Call(p) PROVE Quiet
  BY <1>1 DEF L_Call
<1>2. ASSUME NEW p \in Proc, S_Close(p) PROVE Quiet
  BY <1>2, <1>0, CloseCounts DEF S_Close
<1>2a. ASSUME NEW p \in Proc, X_Close(p) PROVE Quiet
  BY <1>2a, <1>0, CloseCounts DEF X_Close
<1>2b. ASSUME NEW p \in Proc, R_Ready(p) PROVE Quiet
  <2>1. ready \subseteq ready' /\ UNCHANGED <<disturbed, faults, rename, foreign>>
    BY <1>2b DEF R_Ready
  <2>2. Cardinality(ready) <= Cardinality(ready') /\ Cardinality(ready') \in Nat
    <3>1. Types'
      BY <1>2b, TypesStep DEF Next
    <3>2. IsFiniteSet(ready') /\ Cardinality(ready') \in Nat
      <4>1. ready' \in SUBSET Proc
        BY <3>1 DEF Types
      <4>2. QED BY <4>1, SomeProc
    <3>3. QED BY <2>1, <3>2, FS_Subset
  <2>3. foreign \in Nat
    BY DEF Types
  <2>4. QED BY <1>00, <2>1, <2>2, <2>3
<1>3. CASE L_Device
  BY <1>3 DEF L_Device
<1>4. CASE I_Count
  <2>1. /\ UNCHANGED <<disturbed, faults, rename, ready>>
        /\ foreign' = Cardinality(ListedOf(Proc \ ready))
    BY <1>4 DEF I_Count
  <2>2. foreign = 0
    BY <1>4 DEF I_Count, Started
  <2>3. foreign' \in Nat
    BY <2>1, ListedFinite
  <2>4. QED BY <1>00, <2>1, <2>2, <2>3
<1>5. CASE I_Reduce
  <2>1. z \in Proc
    BY <1>5, Limits DEF Types, I_Reduce
  <2>2. QED BY <1>0, <2>1, RefusesNone, DeletesOne, <1>5 DEF I_Reduce, Deletes
<1>6. CASE I_Turn
  BY <1>6 DEF I_Turn
<1>7. CASE C_Check
  BY <1>7 DEF C_Check
<1>8. CASE C_Rotate
  <2>1. z \in Proc
    BY <1>8, Limits DEF Types, C_Rotate
  <2>2. QED BY <1>0, <2>1, RefusesNone, DeletesOne, <1>8 DEF C_Rotate, Deletes
<1>9. CASE C_Rotated
  BY <1>9 DEF C_Rotated
<1>10. CASE C_Create
  BY <1>10, <1>0 DEF C_Create
<1>11. CASE W_Write
  BY <1>11, <1>0, CloseCounts DEF W_Write, Types
<1>12. CASE W_Stat
  BY <1>12, <1>0 DEF W_Stat
<1>13. CASE W_Full
  BY <1>13, <1>0 DEF W_Full
<1>14. CASE F_Delete
  <2>1. z \in Proc
    BY <1>14, Limits DEF Types, F_Delete
  <2>2. QED BY <1>0, <2>1, RefusesNone, DeletesOne, <1>14 DEF F_Delete, Deletes
<1>15. CASE F_Again
  BY <1>15, <1>0, CloseCounts DEF F_Again, Types
<1>16. CASE T_Tick
  BY <1>16 DEF T_Tick
<1>17. CASE UNCHANGED vars
  BY <1>17
<1>18. QED
  BY <1>1, <1>2, <1>2a, <1>2b, <1>3, <1>4, <1>5, <1>6, <1>7, <1>8, <1>9, <1>10, <1>11, <1>12, <1>13,
     <1>14, <1>15, <1>16, <1>17
     DEF Next, LogToDevice

\* While nothing is disturbed, the lists name the oldest files and the current file is the newest.
LEMMA TidyStep ==
  Types /\ Started /\ Tidy /\ Quiet /\ Quiet' /\ pc # "full" /\ [Next]_vars => Tidy'
<1> SUFFICES ASSUME Types, Started, Tidy, Quiet, Quiet', pc # "full", [Next]_vars PROVE Tidy'
  OBVIOUS
<1> USE DEF ctl, files, env, known, vars
<1>0. /\ ~disturbed' /\ faults = 0 /\ faults' = 0 /\ ~rename /\ pc # "full"
      /\ Types /\ Started /\ Tidy /\ Quiet
  BY DEF Quiet
<1>1. ASSUME NEW p \in Proc, L_Call(p) PROVE Tidy'
  BY <1>1 DEF L_Call, Tidy, NewestLast
<1>2. ASSUME NEW p \in Proc, S_Close(p) PROVE Tidy'
  <2>1. UNCHANGED <<dir, cur, list, now>>
    BY <1>2, <1>0 DEF S_Close, Close
  <2>2. QED BY <2>1 DEF Tidy, NewestLast
<1>2a. ASSUME NEW p \in Proc, X_Close(p) PROVE Tidy'
  <2>1. UNCHANGED <<dir, cur, list, now>>
    BY <1>2a, <1>0 DEF X_Close, Close
  <2>2. QED BY <2>1 DEF Tidy, NewestLast
<1>2b. ASSUME NEW p \in Proc, R_Ready(p) PROVE Tidy'
  BY <1>2b DEF R_Ready, Tidy, NewestLast
<1>3. CASE L_Device
  BY <1>3 DEF L_Device, Tidy, NewestLast
<1>4. CASE I_Count
  BY <1>4 DEF I_Count, Tidy, NewestLast
<1>5. CASE I_Reduce
  <2>1. z \in Proc /\ UNCHANGED <<cur, now>>
    BY <1>5, Limits DEF Types, I_Reduce
  <2>2. CASE Deletes(z)
    BY <1>0, <2>1, <2>2, DeletesTidy
  <2>3. CASE Refuses(z)
    BY <1>0, <2>1, <2>3, RefusesTidy
  <2>4. CASE UNCHANGED <<dir, list>>
    BY <2>1, <2>4 DEF Tidy, NewestLast
  <2>5. QED BY <1>5, <1>0, <2>2, <2>3, <2>4 DEF I_Reduce
<1>6. CASE I_Turn
  BY <1>6 DEF I_Turn, Tidy, NewestLast
<1>7. CASE C_Check
  BY <1>7 DEF C_Check, Tidy, NewestLast
<1>8. CASE C_Rotate
  <2>1. z \in Proc /\ UNCHANGED <<cur, now>>
    BY <1>8, Limits DEF Types, C_Rotate
  <2>2. CASE Deletes(z)
    BY <1>0, <2>1, <2>2, DeletesTidy
  <2>3. CASE Refuses(z)
    BY <1>0, <2>1, <2>3, RefusesTidy
  <2>4. CASE UNCHANGED <<dir, list>>
    BY <2>1, <2>4 DEF Tidy, NewestLast
  <2>5. QED BY <1>8, <1>0, <2>2, <2>3, <2>4 DEF C_Rotate
<1>9. CASE C_Rotated
  BY <1>9 DEF C_Rotated, Tidy, NewestLast
<1>10. CASE C_Create
  <2>1. /\ now' = now /\ list' = list
        /\ dir' = [dir EXCEPT ![who] = @ \cup {now}] /\ disturbed' = (disturbed \/ now \in dir[who])
    BY <1>10, <1>0 DEF C_Create
  <2>2. cur' = [cur EXCEPT ![who] = now]
    BY <1>10 DEF C_Create
  <2>3. now \notin dir[who]
    BY <1>0, <2>1
  <2>4. ASSUME NEW p \in Proc PROVE OldestOf(list'[p], dir'[p], cur'[p]) /\ NewestLast(p)'
    <3>1. OldestOf(list[p], dir[p], cur[p]) /\ NewestLast(p)
      BY DEF Tidy
    <3>2. CASE p # who
      <4>1. dir'[p] = dir[p] /\ cur'[p] = cur[p]
        BY <2>1, <2>2, <3>2 DEF Types
      <4>2. QED BY <2>1, <3>1, <4>1 DEF NewestLast
    <3>3. CASE p = who
      <4>1. dir'[p] = dir[p] \cup {now} /\ cur'[p] = now
        BY <2>1, <2>2, <3>3 DEF Types
      <4>2. \A n \in dir[p] : n \in Nat /\ 0 < n /\ n <= now /\ n < now
        <5>1. dir[p] \subseteq Nat /\ now \in Nat
          BY Limits DEF Types
        <5>2. \A n \in dir[p] : n # now /\ 0 < n /\ n <= now
          BY <2>3, <3>1, <3>3 DEF NewestLast
        <5>3. QED BY ONLY <5>1, <5>2
      <4>3. now \in Nat /\ 0 < now
        BY Limits DEF Types
      <4>4. NewestLast(p)'
        BY <2>1, <4>1, <4>2, <4>3 DEF NewestLast
      <4>5. OldestOf(list[p], dir[p] \cup {now}, now)
        BY <3>1, <4>2, <4>3 DEF OldestOf
      <4>6. QED BY <2>1, <4>1, <4>4, <4>5
    <3>4. QED BY <3>2, <3>3
  <2>5. QED BY <2>4 DEF Tidy
<1>11. CASE W_Write
  <2>1. UNCHANGED <<dir, cur, list, now>>
    BY <1>11, <1>0 DEF W_Write, Close
  <2>2. QED BY <2>1 DEF Tidy, NewestLast
<1>12. CASE W_Stat
  BY <1>12 DEF W_Stat, Tidy, NewestLast
<1>13. CASE W_Full
  BY <1>13 DEF W_Full, Tidy, NewestLast
<1>14. CASE F_Delete
  <2>1. z \in Proc /\ UNCHANGED <<cur, now>>
    BY <1>14, Limits DEF Types, F_Delete
  <2>2. CASE Deletes(z)
    BY <1>0, <2>1, <2>2, DeletesTidy
  <2>3. CASE Refuses(z)
    BY <1>0, <2>1, <2>3, RefusesTidy
  <2>4. CASE UNCHANGED <<dir, list>>
    BY <2>1, <2>4 DEF Tidy, NewestLast
  <2>5. QED BY <1>14, <1>0, <2>2, <2>3, <2>4 DEF F_Delete
<1>15. CASE F_Again
  <2>1. UNCHANGED <<dir, cur, list, now>>
    BY <1>15, <1>0 DEF F_Again, Close
  <2>2. QED BY <2>1 DEF Tidy, NewestLast
<1>16. CASE T_Tick
  <2>1. UNCHANGED <<dir, cur, list>> /\ now' = now + 1
    BY <1>16 DEF T_Tick
  <2>2. ASSUME NEW p \in Proc PROVE NewestLast(p)'
    <3>1. /\ \A n \in dir[p] : n \in Nat
          /\ cur[p] \in Nat /\ now \in Nat
      BY Limits DEF Types
    <3>2. QED BY <2>1, <3>1 DEF Tidy, NewestLast
  <2>3. QED BY <2>1, <2>2 DEF Tidy
<1>17. CASE UNCHANGED vars
  BY <1>17 DEF Tidy, NewestLast
<1>18. QED
  BY <1>1, <1>2, <1>2a, <1>2b, <1>3, <1>4, <1>5, <1>6, <1>7, <1>8, <1>9, <1>10, <1>11, <1>12, <1>13,
     <1>14, <1>15, <1>16, <1>17
     DEF Next, LogToDevice

\* init_circular_logging counts no more files than there are.
LEMMA NoneTwiceStep == Types /\ Tidy /\ NoneTwice /\ [Next]_vars => NoneTwice'
<1> SUFFICES ASSUME Types, Tidy, NoneTwice, [Next]_vars PROVE NoneTwice'
  OBVIOUS
<1> USE DEF NoneTwice, ctl, files, env, known, vars
<1>1. ASSUME NEW p \in Proc, L_Call(p) PROVE NoneTwice'
  BY <1>1 DEF L_Call
<1>2. ASSUME NEW p \in Proc, S_Close(p) PROVE NoneTwice'
  BY <1>2 DEF S_Close
<1>2a. ASSUME NEW p \in Proc, X_Close(p) PROVE NoneTwice'
  BY <1>2a DEF X_Close
<1>2b. ASSUME NEW p \in Proc, R_Ready(p) PROVE NoneTwice'
  BY <1>2b DEF R_Ready
<1>3. CASE L_Device
  BY <1>3 DEF L_Device
<1>4. CASE I_Count
  <2>1. unlisted' = NumFiles - Cardinality(Listed)
    BY <1>4 DEF I_Count
  <2>2. NumFiles \in Nat /\ Cardinality(Listed) \in Nat /\ Cardinality(Listed) <= NumFiles
    BY ListedBound, ListedFinite, StoredFinite DEF Types, NumFiles, Listed, Stored
  <2>3. QED BY <2>1, <2>2
<1>5. CASE I_Reduce
  BY <1>5 DEF I_Reduce
<1>6. CASE I_Turn
  BY <1>6 DEF I_Turn
<1>7. CASE C_Check
  BY <1>7 DEF C_Check
<1>8. CASE C_Rotate
  BY <1>8 DEF C_Rotate
<1>9. CASE C_Rotated
  BY <1>9 DEF C_Rotated
<1>10. CASE C_Create
  BY <1>10 DEF C_Create
<1>11. CASE W_Write
  BY <1>11 DEF W_Write
<1>12. CASE W_Stat
  BY <1>12 DEF W_Stat
<1>13. CASE W_Full
  BY <1>13 DEF W_Full
<1>14. CASE F_Delete
  BY <1>14 DEF F_Delete
<1>15. CASE F_Again
  BY <1>15 DEF F_Again
<1>16. CASE T_Tick
  BY <1>16 DEF T_Tick
<1>17. CASE UNCHANGED vars
  BY <1>17
<1>18. QED
  BY <1>1, <1>2, <1>2a, <1>2b, <1>3, <1>4, <1>5, <1>6, <1>7, <1>8, <1>9, <1>10, <1>11, <1>12, <1>13,
     <1>14, <1>15, <1>16, <1>17
     DEF Next, LogToDevice

\* The files of processors that are not READY are left alone.
Untouched ==
  /\ ready \subseteq ready' /\ UNCHANGED <<inited, foreign, unlisted>>
  /\ \A p \in Proc \ ready : dir'[p] = dir[p]

\* A processor that becomes READY takes its files out of the count.
LEMMA UntouchedFresh == Types /\ Types' /\ Fresh /\ Untouched => Fresh'
<1> SUFFICES ASSUME Types, Types', Fresh, Untouched, inited
             PROVE  Cardinality(StoredOf(dir', Proc \ ready')) <= foreign' + unlisted'
  BY DEF Fresh, Untouched
<1>1. StoredOf(dir', Proc \ ready') \subseteq StoredOf(dir, Proc \ ready)
  BY DEF Untouched, StoredOf
<1>2. ready \in SUBSET Proc
  BY DEF Types
<1>3. IsFiniteSet(Stored(dir))
  BY StoredFinite DEF Types
<1>4. /\ IsFiniteSet(StoredOf(dir, Proc \ ready))
      /\ Cardinality(StoredOf(dir, Proc \ ready)) \in Nat
  BY <1>2, <1>3, StoredSplit
<1>5. /\ Cardinality(StoredOf(dir', Proc \ ready')) <= Cardinality(StoredOf(dir, Proc \ ready))
      /\ Cardinality(StoredOf(dir', Proc \ ready')) \in Nat
  BY <1>1, <1>4, FS_Subset, FS_CardinalityType
<1>6. /\ Cardinality(StoredOf(dir, Proc \ ready)) <= foreign + unlisted
      /\ foreign \in Nat /\ unlisted \in Int /\ UNCHANGED <<foreign, unlisted>>
  BY DEF Fresh, Types, Untouched
<1>7. QED BY ONLY <1>4, <1>5, <1>6

\* There are never more files that rotation passes by than were counted or not listed.
LEMMA FreshStep == Types /\ Started /\ Tidy /\ Quiet' /\ Fresh /\ [Next]_vars => Fresh'
<1> SUFFICES ASSUME Types, Started, Tidy, Quiet', Fresh, [Next]_vars PROVE Fresh'
  OBVIOUS
<1>0. /\ Types' /\ ~rename' /\ dir \in [Proc -> SUBSET Name]
      /\ who \in Proc /\ (pc # "idle" => who \in ready)
  BY TypesStep DEF Quiet, Types, Started
<1> SUFFICES Untouched \/ Fresh'
  BY <1>0, UntouchedFresh
<1> USE DEF Untouched, ctl, files, env, known, vars
<1>1. ASSUME NEW p \in Proc, L_Call(p) PROVE Untouched
  BY <1>1 DEF L_Call
<1>2. ASSUME NEW p \in Proc, S_Close(p) \/ X_Close(p) PROVE Untouched
  BY <1>0, <1>2 DEF S_Close, X_Close, Close
<1>2b. ASSUME NEW p \in Proc, R_Ready(p) PROVE Untouched
  BY <1>2b DEF R_Ready
<1>3. CASE L_Device
  BY <1>3 DEF L_Device
<1>4. CASE I_Count
  <2>1. /\ dir' = dir /\ ready' = ready
        /\ foreign' = Cardinality(ListedOf(Proc \ ready))
        /\ unlisted' = NumFiles - Cardinality(Listed)
    BY <1>4 DEF I_Count
  <2>2. ready \in SUBSET Proc
    BY DEF Types
  <2>3. Cardinality(ListedOf(ready)) <= Cardinality(StoredOf(dir, ready))
    BY <2>2, ListedBound
  <2>4. /\ Cardinality(StoredOf(dir, ready)) \in Nat
        /\ Cardinality(StoredOf(dir, Proc \ ready)) \in Nat
        /\ NumFiles = Cardinality(StoredOf(dir, ready)) + Cardinality(StoredOf(dir, Proc \ ready))
    BY <1>0, <2>2, StoredSplit, StoredFinite DEF NumFiles
  <2>5. /\ Cardinality(ListedOf(ready)) \in Nat /\ Cardinality(ListedOf(Proc \ ready)) \in Nat
        /\ Cardinality(Listed)
             = Cardinality(ListedOf(ready)) + Cardinality(ListedOf(Proc \ ready))
    BY ListedFinite
  <2>6. Cardinality(StoredOf(dir, Proc \ ready)) <= foreign' + unlisted'
    BY ONLY <2>1, <2>3, <2>4, <2>5
  <2>7. QED BY <2>1, <2>6 DEF Fresh
<1>5. CASE I_Reduce
  <2>1. z \in Proc
    BY <1>5, Limits DEF Types, I_Reduce
  <2>2. UNCHANGED <<ready, inited, known>>
    BY <1>5 DEF I_Reduce
  <2>3. CASE Deletes(z)
    BY <2>1, <2>2, <2>3, DeletesOne DEF Deletes
  <2>4. CASE UNCHANGED dir
    BY <2>2, <2>4
  <2>5. QED BY <1>5, <2>3, <2>4 DEF I_Reduce, Refuses
<1>6. CASE I_Turn
  BY <1>6 DEF I_Turn
<1>7. CASE C_Check
  BY <1>7 DEF C_Check
<1>8. CASE C_Rotate
  <2>1. z \in Proc
    BY <1>8, Limits DEF Types, C_Rotate
  <2>2. UNCHANGED <<ready, inited, known>>
    BY <1>8 DEF C_Rotate
  <2>3. CASE Deletes(z)
    BY <2>1, <2>2, <2>3, DeletesOne DEF Deletes
  <2>4. CASE UNCHANGED dir
    BY <2>2, <2>4
  <2>5. QED BY <1>8, <2>3, <2>4 DEF C_Rotate, Refuses
<1>9. CASE C_Rotated
  BY <1>9 DEF C_Rotated
<1>10. CASE C_Create
  <2>1. who \in ready /\ UNCHANGED <<ready, inited, known>>
    BY <1>0, <1>10 DEF C_Create
  <2>2. dir' = dir \/ dir' = [dir EXCEPT ![who] = @ \cup {now}]
    BY <1>10 DEF C_Create
  <2>3. \A p \in Proc \ ready : dir'[p] = dir[p]
    BY <1>0, <2>1, <2>2
  <2>4. QED BY <2>1, <2>3
<1>11. CASE W_Write
  BY <1>0, <1>11 DEF W_Write, Close
<1>12. CASE W_Stat
  BY <1>12 DEF W_Stat
<1>13. CASE W_Full
  BY <1>13 DEF W_Full
<1>14. CASE F_Delete
  <2>1. z \in Proc
    BY <1>14, Limits DEF Types, F_Delete
  <2>2. UNCHANGED <<ready, inited, known>>
    BY <1>14 DEF F_Delete
  <2>3. CASE Deletes(z)
    BY <2>1, <2>2, <2>3, DeletesOne DEF Deletes
  <2>4. CASE UNCHANGED dir
    BY <2>2, <2>4
  <2>5. QED BY <1>14, <2>3, <2>4 DEF F_Delete, Refuses
<1>15. CASE F_Again
  BY <1>0, <1>15 DEF F_Again, Close
<1>16. CASE T_Tick
  BY <1>16 DEF T_Tick
<1>17. CASE UNCHANGED vars
  BY <1>17
<1>18. QED
  BY <1>1, <1>2, <1>2b, <1>3, <1>4, <1>5, <1>6, <1>7, <1>8, <1>9, <1>10, <1>11, <1>12, <1>13,
     <1>14, <1>15, <1>16, <1>17
     DEF Next, LogToDevice

\* Rotation is only begun when it will find a file to delete.
LEMMA SpareStep ==
  Types /\ Started /\ Counted /\ Quiet /\ Quiet' /\ Tidy /\ Fresh /\ Spare /\ [Next]_vars => Spare'
<1> SUFFICES ASSUME Types, Started, Counted, Quiet, Quiet', Tidy, Fresh, Spare, [Next]_vars
      PROVE Spare'
  OBVIOUS
<1> USE DEF Spare, ctl, files, env, known, vars
<1>1. ASSUME NEW p \in Proc, L_Call(p) PROVE Spare'
  BY <1>1 DEF L_Call
<1>2. ASSUME NEW p \in Proc, S_Close(p) PROVE Spare'
  BY <1>2 DEF S_Close
<1>2a. ASSUME NEW p \in Proc, X_Close(p) PROVE Spare'
  BY <1>2a DEF X_Close
<1>2b. ASSUME NEW p \in Proc, R_Ready(p) PROVE Spare'
  BY <1>2b DEF R_Ready
<1>3. CASE L_Device
  BY <1>3 DEF L_Device
<1>4. CASE I_Count
  BY <1>4 DEF I_Count
<1>5. CASE I_Reduce
  BY <1>5 DEF I_Reduce
<1>6. CASE I_Turn
  BY <1>6 DEF I_Turn
<1>7. CASE C_Check
  <2>1. pc = "check" /\ UNCHANGED dir
    BY <1>7 DEF C_Check
  <2>2. CASE count >= MaxFiles /\ pc' = "rotate" /\ z' = 1 /\ rc' = FALSE
    <3>1. /\ ready \in SUBSET Proc /\ Cardinality(ready) \in Nat /\ foreign \in Nat
          /\ count \in Int /\ unlisted \in Int /\ MaxFiles \in Nat
      BY ReadyFinite, Limits DEF Types
    <3>2. NumFiles = count + unlisted /\ MaxFiles > Cardinality(ready) + foreign
      BY <2>1 DEF Counted, Started, Quiet
    <3>3. Cardinality(StoredOf(dir, Proc \ ready)) <= foreign + unlisted
      BY <2>1 DEF Started, Fresh
    <3>4. /\ Cardinality(StoredOf(dir, ready)) \in Nat
          /\ Cardinality(StoredOf(dir, Proc \ ready)) \in Nat
          /\ NumFiles = Cardinality(StoredOf(dir, ready)) + Cardinality(StoredOf(dir, Proc \ ready))
      BY <3>1, StoredSplit, StoredFinite DEF NumFiles, Types
    <3>5. Cardinality(StoredOf(dir, ready)) > Cardinality(ready)
      BY ONLY <2>2, <3>1, <3>2, <3>3, <3>4
    <3>6. dir \in [Proc -> SUBSET Name]
      BY DEF Types
    <3>7. PICK p \in ready : \E m, n \in dir[p] : m < n
      BY ONLY <3>1, <3>5, <3>6, TwoFiles
    <3>8. p \in 1..NumProc /\ ready' = ready
      BY <3>1, <1>7 DEF Proc, MSM, C_Check
    <3>9. QED BY <2>1, <2>2, <3>7, <3>8
  <2>3. CASE pc' = "create"
    BY <2>3
  <2>4. QED BY <1>7, <2>2, <2>3 DEF C_Check
<1>8. CASE C_Rotate
  <2>1. /\ z \in Proc /\ z \in 1..NumProc /\ z' = z + 1 /\ pc = "rotate" /\ NumProc \in Nat
        /\ ready' = ready
    BY <1>8, Limits DEF Types, C_Rotate
  <2>2. CASE rc' = TRUE
    BY <2>2
  <2>3. CASE dir' = dir /\ rc' = rc /\ (z \in ready => \A m, n \in dir[z] : ~(m < n))
    <3>1. SUFFICES ASSUME ~rc
                   PROVE  \E p \in ((z + 1)..NumProc) \cap ready : \E m, n \in dir[p] : m < n
      BY <2>1, <2>3
    <3>2. PICK p \in (z..NumProc) \cap ready : \E m, n \in dir[p] : m < n
      BY <2>1, <3>1
    <3>3. p # z
      BY <2>3, <3>2
    <3>4. p \in (z + 1)..NumProc
      BY <2>1, <3>2, <3>3
    <3>5. QED BY <3>2, <3>4
  <2>4. CASE z \in ready /\ Refuses(z) /\ UNCHANGED rc
    <3>1. faults = 0 /\ faults' = 0
      BY DEF Quiet
    <3>2. dir' = dir /\ \A m, n \in dir[z] : ~(m < n)
      BY <2>1, <2>4, <3>1, RefusesLast, RefusesNone
    <3>3. QED BY <2>3, <2>4, <3>2
  <2>5. QED BY <1>8, <2>2, <2>3, <2>4 DEF C_Rotate
<1>9. CASE C_Rotated
  BY <1>9 DEF C_Rotated
<1>10. CASE C_Create
  BY <1>10 DEF C_Create
<1>11. CASE W_Write
  BY <1>11 DEF W_Write
<1>12. CASE W_Stat
  BY <1>12 DEF W_Stat
<1>13. CASE W_Full
  BY <1>13 DEF W_Full
<1>14. CASE F_Delete
  BY <1>14 DEF F_Delete
<1>15. CASE F_Again
  BY <1>15 DEF F_Again
<1>16. CASE T_Tick
  BY <1>16 DEF T_Tick
<1>17. CASE UNCHANGED vars
  BY <1>17
<1>18. QED
  BY <1>1, <1>2, <1>2a, <1>2b, <1>3, <1>4, <1>5, <1>6, <1>7, <1>8, <1>9, <1>10, <1>11, <1>12, <1>13,
     <1>14, <1>15, <1>16, <1>17
     DEF Next, LogToDevice

\* While nothing is disturbed, no packet is dropped and no disk is full.
LEMMA GoesOnStep == Types /\ Spare /\ Quiet /\ Quiet' /\ GoesOn /\ [Next]_vars => GoesOn'
<1> SUFFICES ASSUME Types, Spare, Quiet, Quiet', GoesOn, [Next]_vars PROVE GoesOn'
  OBVIOUS
<1> USE DEF GoesOn, Quiet, ctl, files, env, known, vars
<1>1. ASSUME NEW p \in Proc, L_Call(p) PROVE GoesOn'
  BY <1>1 DEF L_Call
<1>2. ASSUME NEW p \in Proc, S_Close(p) PROVE GoesOn'
  BY <1>2 DEF S_Close
<1>2a. ASSUME NEW p \in Proc, X_Close(p) PROVE GoesOn'
  BY <1>2a DEF X_Close
<1>2b. ASSUME NEW p \in Proc, R_Ready(p) PROVE GoesOn'
  BY <1>2b DEF R_Ready
<1>3. CASE L_Device
  BY <1>3 DEF L_Device
<1>4. CASE I_Count
  BY <1>4 DEF I_Count
<1>5. CASE I_Reduce
  BY <1>5 DEF I_Reduce
<1>6. CASE I_Turn
  BY <1>6 DEF I_Turn
<1>7. CASE C_Check
  BY <1>7 DEF C_Check
<1>8. CASE C_Rotate
  BY <1>8 DEF C_Rotate
<1>9. CASE C_Rotated
  <2>1. rc
    <3>1. SUFFICES ASSUME ~rc PROVE FALSE
      OBVIOUS
    <3>2. pc = "rotate" /\ z > NumProc /\ z \in Nat /\ NumProc \in Nat
      BY <1>9, Limits DEF C_Rotated, Types
    <3>3. PICK p \in (z..NumProc) \cap ready : \E m, n \in dir[p] : m < n
      BY <3>1, <3>2 DEF Spare
    <3>4. QED BY <3>2, <3>3
  <2>2. QED BY <1>9, <2>1 DEF C_Rotated
<1>10. CASE C_Create
  BY <1>10 DEF C_Create
<1>11. CASE W_Write
  BY <1>11 DEF W_Write
<1>12. CASE W_Stat
  BY <1>12 DEF W_Stat
<1>13. CASE W_Full
  BY <1>13 DEF W_Full, Types
<1>14. CASE F_Delete
  BY <1>14 DEF F_Delete
<1>15. CASE F_Again
  BY <1>15 DEF F_Again
<1>16. CASE T_Tick
  BY <1>16 DEF T_Tick
<1>17. CASE UNCHANGED vars
  BY <1>17
<1>18. QED
  BY <1>1, <1>2, <1>2a, <1>2b, <1>3, <1>4, <1>5, <1>6, <1>7, <1>8, <1>9, <1>10, <1>11, <1>12, <1>13,
     <1>14, <1>15, <1>16, <1>17
     DEF Next, LogToDevice

-----------------------------------------------------------------------------
(* The invariant and the theorems. *)

\* The clock starts after the newest of the files that may be there.
LEMMA NewestOld ==
  Max(Old \cup {0}) \in Old \cup {0} /\ \A n \in Old : n <= Max(Old \cup {0})
<1> DEFINE S == Old \cup {0}
           T == {MaxTime - n : n \in S}
<1>1. MaxTime \in Nat \ {0} /\ \A n \in S : n \in Nat /\ n < MaxTime
  BY CircularLogAssumption DEF CircularLogAssumption
<1>2. T \in SUBSET Nat /\ T # {}
  <2>1. \A n \in S : MaxTime - n \in Nat
    BY <1>1
  <2>2. MaxTime - 0 \in T
    OBVIOUS
  <2>3. QED BY <2>1, <2>2
<1>3. PICK x \in T : \A y \in T : x <= y
  <2> HIDE DEF T
  <2>1. QED BY <1>2, Least
<1>4. PICK m \in S : x = MaxTime - m
  OBVIOUS
<1>5. \A n \in S : MaxTime - m <= MaxTime - n
  BY <1>3, <1>4
<1>6. \E a \in S : \A b \in S : a >= b
  <2>1. \A n \in S : m >= n
    BY <1>1, <1>5
  <2>2. QED BY <2>1
<1>7. Max(S) \in S /\ \A n \in S : Max(S) >= n
  BY <1>6, Zenon DEF Max
<1>8. QED BY <1>1, <1>7

\* The invariant holds when logging starts.
LEMMA InitIInv == Init => IInv
<1> SUFFICES ASSUME Init PROVE IInv
  OBVIOUS
<1>1. /\ pc = "idle" /\ who = 1 /\ z = 1 /\ rc = FALSE /\ dir \in [Proc -> SUBSET Old]
      /\ cur = [p \in Proc |-> 0] /\ open = [p \in Proc |-> FALSE]
      /\ ready = {MSM} /\ foreign = 0
      /\ count = 0 /\ inited = FALSE /\ now = Max(Old \cup {0}) + 1 /\ faults = 0
      /\ disturbed = FALSE /\ gaveUp = FALSE /\ unlisted = 0 /\ excess = 0
  BY DEF Init
<1>2. /\ Old \subseteq Name \ {0} /\ 0 \in Name /\ now \in Name \ {0} /\ \A n \in Old : n <= now
  <2>1. MaxTime \in Nat \ {0} /\ \A n \in Old : n \in Nat /\ 0 < n /\ n <= MaxTime - 1
    BY CircularLogAssumption DEF CircularLogAssumption
  <2> DEFINE m == Max(Old \cup {0})
  <2>2. m \in Nat /\ m <= MaxTime - 1
    BY <2>1, NewestOld
  <2>3. now = m + 1 /\ \A n \in Old : n <= m
    BY <1>1, NewestOld
  <2> HIDE DEF m
  <2>4. now \in Nat /\ 0 < now /\ now <= MaxTime /\ \A n \in Old : n <= now
    BY <2>1, <2>2, <2>3
  <2>5. 0 \in Name /\ now \in Name \ {0}
    <3>1. MaxTime \in Nat /\ now \in Nat /\ 0 < now /\ now <= MaxTime
      BY <2>1, <2>4
    <3>2. 0 \in 0..MaxTime /\ now \in 0..MaxTime /\ now # 0
      BY ONLY <3>1
    <3>3. QED BY ONLY <3>2 DEF Name
  <2>6. Old \subseteq Name \ {0}
    BY <2>1 DEF Name
  <2>7. QED BY <2>4, <2>5, <2>6
<1>3. dir \in [Proc -> SUBSET Name]
  BY <1>1, <1>2
<1>4. ASSUME NEW p \in Proc PROVE list[p] \in Seq(Name) /\ OldestOf(list[p], dir[p], cur[p])
  <2>1. Scan(p) \in Seq(Name) /\ OldestOf(Scan(p), dir[p], cur[p])
    BY <1>3, ScanIsOldest
  <2>2. <<>> \in Seq(Name) /\ OldestOf(<<>>, dir[p], cur[p])
    BY DEF OldestOf
  <2>3. PICK made \in SUBSET Proc : list = [q \in Proc |-> IF q \in made THEN Scan(q) ELSE <<>>]
    BY DEF Init
  <2>4. list[p] = Scan(p) \/ list[p] = <<>>
    BY <2>3
  <2>5. QED BY <2>1, <2>2, <2>4
<1>5. list \in [Proc -> Seq(Name)]
  <2>1. \E made : list = [q \in Proc |-> IF q \in made THEN Scan(q) ELSE <<>>]
    BY DEF Init
  <2>2. QED BY <1>4, <2>1
<1>6. Types
  <2>1. who \in Proc /\ z \in 1..(NumProc + 1)
    BY <1>1, Limits
  <2>2. cur \in [Proc -> Name] /\ open \in [Proc -> BOOLEAN]
    BY <1>1, <1>2
  <2>3. /\ pc \in {"idle", "device", "init", "reduce", "check", "rotate", "create", "write", "full"}
        /\ count \in Int /\ unlisted \in Int /\ excess \in Nat /\ faults \in Nat
        /\ ready \subseteq Proc /\ foreign \in Nat
    BY <1>1, Limits DEF MSM
  <2>4. rc \in BOOLEAN /\ inited \in BOOLEAN /\ disturbed \in BOOLEAN /\ gaveUp \in BOOLEAN
    BY <1>1
  <2>5. QED BY ONLY <1>2, <1>3, <1>5, <2>1, <2>2, <2>3, <2>4 DEF Types
<1>7. Started /\ Counted /\ InUseKept
  BY <1>1 DEF Started, Counted, InUseKept
<1>8. Tidy
  <2>1. ASSUME NEW p \in Proc PROVE NewestLast(p)
    <3>1. dir[p] \subseteq Old /\ cur[p] = 0
      BY <1>1
    <3>2. \A n \in Old : 0 < n /\ n <= now
      BY <1>2, Limits
    <3>3. QED BY <3>1, <3>2 DEF NewestLast
  <2>2. QED BY <1>4, <2>1 DEF Tidy
<1>9. Orderly
  BY <1>1, <1>8 DEF Orderly, NoneTwice, Fresh, Spare, GoesOn
<1>10. QED BY <1>6, <1>7, <1>9 DEF IInv

\* Every step keeps the invariant.
LEMMA IInvStep == IInv /\ [Next]_vars => IInv'
<1> SUFFICES ASSUME IInv, [Next]_vars PROVE IInv'
  OBVIOUS
<1>1. Types /\ Started /\ Counted /\ InUseKept /\ (Quiet => Orderly)
  BY DEF IInv
<1>2. Types' /\ Started' /\ Counted' /\ InUseKept'
  BY <1>1, TypesStep, StartedStep, CountedStep, InUseStep
<1>3. ASSUME Quiet' PROVE Orderly'
  <2>1. Quiet /\ Tidy /\ NoneTwice /\ Fresh /\ Spare /\ GoesOn
    BY <1>1, <1>3, QuietStep DEF Orderly
  <2>2. Tidy'
    BY <1>1, <1>3, <2>1, TidyStep DEF GoesOn
  <2>3. NoneTwice' /\ GoesOn'
    BY <1>1, <1>3, <2>1, NoneTwiceStep, GoesOnStep
  <2>4. Fresh' /\ Spare'
    BY <1>1, <1>3, <2>1, FreshStep, SpareStep
  <2>5. QED BY <2>2, <2>3, <2>4 DEF Orderly
<1>4. QED BY <1>2, <1>3 DEF IInv

\* IInv holds in every reachable state.
THEOREM Invariance == Spec => []IInv
<1>1. Init => IInv
  BY InitIInv
<1>2. IInv /\ [Next]_vars => IInv'
  BY IInvStep
<1>3. QED BY <1>1, <1>2, PTL DEF Spec

\* InUseKept: delete_log never deletes a file that is being written, whatever fails.
THEOREM CurrentFileKept == Spec => []InUseKept
<1>1. IInv => InUseKept
  BY DEF IInv
<1>2. QED BY <1>1, Invariance, PTL

\* CountMatches: file_count is the number of files, but for those that were never listed, until a
\* deletion is not counted or a name is used twice.
THEOREM CountIsRight == Spec => []CountMatches
<1>1. IInv => CountMatches
  <2> SUFFICES ASSUME IInv, inited, ~disturbed PROVE count + unlisted = NumFiles
    BY DEF CountMatches
  <2>1. QED BY DEF IInv, Counted
<1>2. QED BY <1>1, Invariance, PTL

\* FilesBounded: a packet is only written while there are no more files than allowed.
THEOREM NeverTooMany == Spec => []FilesBounded
<1>1. IInv => FilesBounded
  <2> SUFFICES ASSUME IInv, pc = "write" PROVE NumFiles <= MaxFiles + unlisted + excess
    BY DEF FilesBounded
  <2>1. NumFiles <= count + unlisted /\ count <= MaxFiles + excess
    BY DEF IInv, Started, Counted
  <2>2. NumFiles \in Nat /\ count \in Int /\ unlisted \in Int /\ excess \in Nat /\ MaxFiles \in Nat
    BY StoredFinite, Limits DEF IInv, Types, NumFiles
  <2>3. QED BY <2>1, <2>2
<1>2. QED BY <1>1, Invariance, PTL

\* KeepsLogging: log_to_device drops no packet for want of a file to delete, without a fault and
\* with more files allowed than READY processors and files of the others.
THEOREM LoggingGoesOn == Spec => []KeepsLogging
<1>1. IInv => KeepsLogging
  <2> SUFFICES ASSUME IInv, gaveUp, ~disturbed, ~(faults > 0), ~rename,
                      ~(MaxFiles <= Cardinality(ready) + foreign)
               PROVE FALSE
    BY DEF KeepsLogging
  <2>1. Types /\ faults \in Nat /\ foreign \in Nat
    BY DEF IInv, Types
  <2>2. Cardinality(ready) \in Nat
    BY <2>1, ReadyFinite
  <2>3. faults = 0 /\ MaxFiles > Cardinality(ready) + foreign
    BY <2>1, <2>2, Limits
  <2>4. QED BY <2>3 DEF IInv, Quiet, Orderly, GoesOn
<1>2. QED BY <1>1, Invariance, PTL
=============================================================================
