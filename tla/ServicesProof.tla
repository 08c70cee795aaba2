---------------------------- MODULE ServicesProof ----------------------------
(***************************************************************************)
(* Proofs about Services, for every number of senders and rows, every size *)
(* of a mask and all images the driver may send.  IInv is inductive.  It   *)
(* ties a lookup that overlaps the read thread's copying to the images in  *)
(* force: every word in memory is that of one of them (Copied, InForce),   *)
(* and the first two words of a row in use do not change under a walk.     *)
(***************************************************************************)
EXTENDS Services, TLAPS, FiniteSetTheorems

(* Masks in memory. *)

\* What is known of the constants.
LEMMA Constants ==
  /\ IsFiniteSet(Sender) /\ NumRows \in Nat \ {0} /\ MaxSsid \in Nat \ {0} /\ RowSize \in Nat
  /\ RowSize = 3 + MaxSsid /\ MsgMaskSize \in Nat /\ MsgMaskSize = NumRows * RowSize
  /\ Ssid \subseteq Nat /\ DropMax \in Nat /\ "msg" \in Mask /\ None \notin Mask
  /\ Cells("msg") = 0..(MsgMaskSize - 1)
  /\ \A m \in Mask : Images[m] \subseteq [Cells(m) -> Nat] /\ Cells(m) \subseteq Nat
<1>1. ASSUME NEW m \in Mask PROVE Cells(m) \subseteq Nat
  <2>1. Cells(m) = 0..(Cardinality(Cells(m)) - 1) /\ IsFiniteSet(Cells(m))
    BY ServicesAssumption DEF ServicesAssumption
  <2>2. Cardinality(Cells(m)) \in Nat
    BY <2>1, FS_CardinalityType
  <2>3. QED BY <2>1, <2>2
<1>2. QED BY <1>1, ServicesAssumption DEF ServicesAssumption, RowSize, MsgMaskSize

\* Cardinality(DOMAIN im) is the number of bytes or words of a mask.
LEMMA Sizes ==
  ASSUME NEW m \in Mask, DOMAIN mem[m] = Cells(m)
  PROVE  Size(m) \in Nat /\ Cells(m) = 0..(Size(m) - 1)
<1>1. IsFiniteSet(Cells(m)) /\ Cells(m) = 0..(Cardinality(Cells(m)) - 1)
  BY ServicesAssumption DEF ServicesAssumption
<1>2. Size(m) = Cardinality(Cells(m))
  BY DEF Size
<1>3. QED BY <1>1, <1>2, FS_CardinalityType

\* The words of a row are in the mask.
LEMMA RowCells ==
  ASSUME NEW r \in 0..(NumRows - 1), NEW k \in 0..(RowSize - 1)
  PROVE  r * RowSize \in Nat /\ r * RowSize + k \in Cells("msg")
<1>1. NumRows \in Nat \ {0} /\ RowSize \in Nat /\ MsgMaskSize = NumRows * RowSize
  BY Constants
<1>2. r * RowSize \in Nat /\ (NumRows - 1 - r) * RowSize \in Nat
  BY <1>1
<1>3. (NumRows - 1 - r) * RowSize = NumRows * RowSize - RowSize - r * RowSize
  BY <1>1
<1>4. NumRows * RowSize \in Nat
  BY <1>1
<1>5. r * RowSize + k <= NumRows * RowSize - 1
  BY <1>1, <1>2, <1>3, <1>4
<1>6. QED BY <1>1, <1>2, <1>5, Constants

\* The first three words and a mask of a row.
LEMMA RowWords ==
  ASSUME NEW r \in 0..(NumRows - 1)
  PROVE  /\ r * RowSize \in Cells("msg") /\ r * RowSize + 1 \in Cells("msg")
         /\ r * RowSize + 2 \in Cells("msg") /\ r * RowSize \in Nat
         /\ \A k \in 0..(MaxSsid - 1) : r * RowSize + 3 + k \in Cells("msg")
<1>1. RowSize = 3 + MaxSsid /\ MaxSsid \in Nat \ {0}
  BY Constants
<1>2. 0 \in 0..(RowSize - 1) /\ 1 \in 0..(RowSize - 1) /\ 2 \in 0..(RowSize - 1)
  BY <1>1
<1>3. r * RowSize \in Nat /\ r * RowSize + 0 \in Cells("msg")
  BY <1>2, RowCells
<1>4. r * RowSize + 1 \in Cells("msg") /\ r * RowSize + 2 \in Cells("msg")
  BY <1>2, RowCells
<1>5. ASSUME NEW k \in 0..(MaxSsid - 1) PROVE r * RowSize + 3 + k \in Cells("msg")
  <2>1. 3 + k \in 0..(RowSize - 1)
    BY <1>1
  <2>2. r * RowSize + (3 + k) \in Cells("msg")
    BY <2>1, RowCells
  <2>3. QED BY <1>3, <2>2
<1>6. QED BY <1>3, <1>4, <1>5

\* Where the walk is.
LEMMA WalkEnds ==
  ASSUME NEW r \in 0..NumRows
  PROVE  /\ r * RowSize >= MsgMaskSize => r = NumRows
         /\ r < NumRows => r + 1 \in 0..NumRows /\ (r + 1) * RowSize = r * RowSize + RowSize
<1>1. NumRows \in Nat \ {0} /\ RowSize \in Nat \ {0} /\ MsgMaskSize = NumRows * RowSize
  BY Constants
<1>2. r < NumRows => r * RowSize < NumRows * RowSize
  <2> SUFFICES ASSUME r < NumRows PROVE r * RowSize < NumRows * RowSize
    OBVIOUS
  <2>1. NumRows - 1 \in Nat /\ r \in 0..(NumRows - 1)
    BY <1>1
  <2>2. r * RowSize \in Nat /\ r * RowSize + 0 \in Cells("msg")
    <3>1. 0 \in 0..(RowSize - 1)
      BY <1>1
    <3>2. QED BY <2>1, <3>1, RowCells
  <2>3. QED BY <1>1, <2>2, Constants
<1>3. (r + 1) * RowSize = r * RowSize + RowSize
  BY <1>1
<1>4. r * RowSize \in Nat /\ NumRows * RowSize \in Nat
  BY <1>1
<1>5. QED BY <1>1, <1>2, <1>3, <1>4

\* What is in memory comes from the images in force.
LEMMA MemIs ==
  ASSUME NEW m \in Mask, Copied(m)
  PROVE  /\ mem[m] \in [Cells(m) -> Nat]
         /\ current[m] \subseteq Images[m] /\ current[m] # {}
         /\ \A p \in Cells(m) : \E im \in current[m] : mem[m][p] = im[p]
         /\ \A im : current[m] = {im} => mem[m] = im
<1>1. Images[m] \subseteq [Cells(m) -> Nat]
  BY Constants
<1>2. CASE mem[m] \in Images[m] /\ current[m] = {mem[m]}
  BY <1>1, <1>2
<1>3. ASSUME target \in Images[m], NEW old \in Images[m], current[m] = {old, target},
             mem[m] = [p \in DOMAIN target |-> IF p < pos THEN target[p] ELSE old[p]]
      PROVE  /\ mem[m] \in [Cells(m) -> Nat]
             /\ current[m] \subseteq Images[m] /\ current[m] # {}
             /\ \A p \in Cells(m) : \E im \in current[m] : mem[m][p] = im[p]
             /\ \A im : current[m] = {im} => mem[m] = im
  <2>1. DOMAIN target = Cells(m) /\ target \in [Cells(m) -> Nat] /\ old \in [Cells(m) -> Nat]
    BY <1>1, <1>3
  <2>2. mem[m] \in [Cells(m) -> Nat]
    BY <1>3, <2>1
  <2>3. \A p \in Cells(m) : mem[m][p] = target[p] \/ mem[m][p] = old[p]
    BY <1>3, <2>1
  <2>4. ASSUME NEW im, current[m] = {im} PROVE mem[m] = im
    <3>1. old = im /\ target = im
      BY <1>3, <2>4
    <3>2. \A p \in Cells(m) : mem[m][p] = im[p]
      BY <2>3, <3>1
    <3>3. QED BY <2>1, <2>2, <3>1, <3>2
  <2>5. QED BY <1>3, <2>2, <2>3, <2>4
<1>4. QED BY <1>2, <1>3 DEF Copied

\* A row in use in memory has the first two words of every image in force that uses it.
LEMMA RowIs ==
  ASSUME Copied("msg"), pos \in Nat, NEW r \in 0..(NumRows - 1), Word(r * RowSize + 1) # 0,
         NEW im \in current["msg"], im[r * RowSize + 1] # 0
  PROVE  im[r * RowSize] = Word(r * RowSize)
<1> DEFINE b == r * RowSize
<1>1. b \in Cells("msg") /\ b + 1 \in Cells("msg") /\ b \in Nat
  BY RowWords
<1>2. "msg" \in Mask /\ Images["msg"] \subseteq [Cells("msg") -> Nat]
  BY Constants
<1>3. CASE current["msg"] = {mem["msg"]}
  BY <1>3 DEF Word
<1>4. ASSUME target \in Images["msg"], NEW old \in Images["msg"], current["msg"] = {old, target},
             mem["msg"] = [p \in DOMAIN target |-> IF p < pos THEN target[p] ELSE old[p]],
             KeepsRows(old, target)
      PROVE  im[b] = Word(b)
  <2>1. DOMAIN target = Cells("msg")
    BY <1>2, <1>4
  <2>2. Word(b) = target[b] \/ Word(b) = old[b]
    BY <1>1, <1>4, <2>1 DEF Word
  <2>3. old[b + 1] # 0 => target[b + 0] = old[b + 0]
    BY <1>4 DEF KeepsRows
  <2>4. old[b + 1] # 0 => target[b] = old[b]
    BY <1>1, <2>3
  <2>5. CASE old[b + 1] # 0
    BY <1>4, <2>2, <2>4, <2>5
  <2>6. CASE old[b + 1] = 0
    <3>1. im = target
      BY <1>4, <2>6
    <3>2. Word(b + 1) = IF b + 1 < pos THEN target[b + 1] ELSE old[b + 1]
      BY <1>1, <1>4, <2>1 DEF Word
    <3>3. b + 1 < pos
      BY <2>6, <3>2
    <3>4. b < pos
      BY <1>1, <3>3, pos \in Nat
    <3>5. Word(b) = target[b]
      BY <1>1, <1>4, <2>1, <3>4 DEF Word
    <3>6. QED BY <3>1, <3>5
  <2>7. QED BY <2>5, <2>6
<1>5. QED BY <1>3, <1>4 DEF Copied

\* When all rows are in use in memory, an image in force uses them all.
LEMMA AllInUse ==
  ASSUME Copied("msg"), \A q \in 0..(NumRows - 1) : Word(q * RowSize + 1) # 0
  PROVE  \E im \in current["msg"] : InUse(im, NumRows - 1)
<1>2. "msg" \in Mask /\ Images["msg"] \subseteq [Cells("msg") -> Nat]
  BY Constants
<1>3. CASE current["msg"] = {mem["msg"]}
  BY <1>3 DEF Word, InUse
<1>4. ASSUME target \in Images["msg"], NEW old \in Images["msg"], current["msg"] = {old, target},
             mem["msg"] = [p \in DOMAIN target |-> IF p < pos THEN target[p] ELSE old[p]],
             KeepsRows(old, target)
      PROVE  InUse(target, NumRows - 1)
  <2>1. DOMAIN target = Cells("msg")
    BY <1>2, <1>4
  <2>2. ASSUME NEW q \in 0..(NumRows - 1) PROVE target[q * RowSize + 1] # 0
    <3>1. q * RowSize + 1 \in Cells("msg") /\ q * RowSize \in Nat
      BY RowWords
    <3>2. Word(q * RowSize + 1) \in {target[q * RowSize + 1], old[q * RowSize + 1]}
      BY <1>4, <2>1, <3>1 DEF Word
    <3>3. old[q * RowSize + 1] # 0 => target[q * RowSize + 1] = old[q * RowSize + 1]
      BY <1>4 DEF KeepsRows
    <3>4. QED BY <3>2, <3>3
  <2>3. QED BY <2>2 DEF InUse
<1>5. QED BY <1>3, <1>4 DEF Copied

-----------------------------------------------------------------------------
(* What the read thread and other senders leave alone. *)

\* The next byte or word of a mask: a row in use keeps its first two words.
LEMMA CopyKeeps ==
  ASSUME pos \in Nat, DOMAIN mem = Mask, Copied("msg"), R_Copy,
         NEW r \in 0..(NumRows - 1), Word(r * RowSize + 1) # 0
  PROVE  Word(r * RowSize)' = Word(r * RowSize) /\ Word(r * RowSize + 1)' = Word(r * RowSize + 1)
<1> DEFINE b == r * RowSize
<1>1. b \in Cells("msg") /\ b + 1 \in Cells("msg") /\ b \in Nat
  BY RowWords
<1>2. "msg" \in Mask /\ Images["msg"] \subseteq [Cells("msg") -> Nat]
  BY Constants
<1>3. mem' = [mem EXCEPT ![upd][pos] = target[pos]]
  BY DEF R_Copy
<1>4. CASE upd # "msg"
  <2>1. mem'["msg"] = mem["msg"]
    BY <1>2, <1>3, <1>4
  <2>2. QED BY <2>1 DEF Word
<1>5. CASE upd = "msg"
  <2>1. PICK old \in Images["msg"] :
          /\ target \in Images["msg"] /\ KeepsRows(old, target)
          /\ mem["msg"] = [p \in DOMAIN target |-> IF p < pos THEN target[p] ELSE old[p]]
    BY <1>5 DEF Copied
  <2>2. DOMAIN target = Cells("msg")
    BY <1>2, <2>1
  <2>3. mem'["msg"] = [mem["msg"] EXCEPT ![pos] = target[pos]]
    BY <1>2, <1>3, <1>5
  <2>4. \A p \in Cells("msg") : mem'["msg"][p] = IF p = pos THEN target[p] ELSE mem["msg"][p]
    BY <2>1, <2>2, <2>3
  <2>5. \A p \in Cells("msg") : mem["msg"][p] = IF p < pos THEN target[p] ELSE old[p]
    BY <2>1, <2>2
  <2>6. old[b + 1] # 0 => target[b + 0] = old[b + 0] /\ target[b + 1] = old[b + 1]
    BY <2>1 DEF KeepsRows
  <2>7. CASE old[b + 1] # 0
    <3>1. target[b] = old[b] /\ target[b + 1] = old[b + 1]
      BY <1>1, <2>6, <2>7
    <3>2. mem'["msg"][b] = mem["msg"][b] /\ mem'["msg"][b + 1] = mem["msg"][b + 1]
      BY <1>1, <2>4, <2>5, <3>1
    <3>3. QED BY <3>2 DEF Word
  <2>8. CASE old[b + 1] = 0
    <3>1. mem["msg"][b + 1] # 0
      BY DEF Word
    <3>2. b + 1 < pos
      BY <1>1, <2>5, <2>8, <3>1
    <3>3. b # pos /\ b + 1 # pos
      BY <1>1, <3>2
    <3>4. mem'["msg"][b] = mem["msg"][b] /\ mem'["msg"][b + 1] = mem["msg"][b + 1]
      BY <1>1, <2>4, <3>3
    <3>5. QED BY <3>4 DEF Word
  <2>9. QED BY <2>7, <2>8
<1>6. QED BY <1>4, <1>5

\* A sender changes neither the masks nor what another sender has.
LEMMA SenderFrame ==
  ASSUME Types, NEW s \in Sender, Sending(s)
  PROVE  /\ UNCHANGED <<mem, upd, pos, target, current, fd>>
         /\ \A t \in Sender : t # s =>
              /\ pc'[t] = pc[t] /\ op'[t] = op[t] /\ ptr'[t] = ptr[t] /\ first'[t] = first[t]
              /\ type'[t] = type[t] /\ force'[t] = force[t] /\ count'[t] = count[t]
<1>1. UNCHANGED <<mem, upd, pos, target, current, fd>>
  BY DEF Sending, S_Begin, S_Test, S_First, S_Actual, S_Mask, S_Tool, S_Num, S_Dci, S_Skip,
         S_NoMemory, S_Drop, S_Alloc, S_Count, S_Reset, S_Write, S_LogCommit, driver
<1> SUFFICES ASSUME NEW t \in Sender, t # s
             PROVE  /\ pc'[t] = pc[t] /\ op'[t] = op[t] /\ ptr'[t] = ptr[t] /\ first'[t] = first[t]
                    /\ type'[t] = type[t] /\ force'[t] = force[t] /\ count'[t] = count[t]
  BY <1>1
<1> USE DEF Goto, Return, Forget, Decide, lookup, drops
<1>2. ASSUME NEW o \in Ops, S_Begin(s, o)
      PROVE  /\ pc'[t] = pc[t] /\ op'[t] = op[t] /\ ptr'[t] = ptr[t] /\ first'[t] = first[t]
             /\ type'[t] = type[t] /\ force'[t] = force[t] /\ count'[t] = count[t]
  BY <1>2 DEF Types, S_Begin
<1>3. CASE S_Test(s) \/ S_First(s) \/ S_Actual(s) \/ S_Mask(s)
  BY <1>3 DEF Types, S_Test, S_First, S_Actual, S_Mask
<1>4. CASE S_Tool(s) \/ S_Num(s) \/ S_Dci(s) \/ S_Skip(s)
  BY <1>4 DEF Types, S_Tool, S_Num, S_Dci, S_Skip
<1>5. CASE S_NoMemory(s) \/ S_Drop(s) \/ S_Alloc(s) \/ S_Count(s)
  BY <1>5 DEF Types, S_NoMemory, S_Drop, S_Alloc, S_Count
<1>6. CASE S_Reset(s) \/ S_Write(s) \/ S_LogCommit(s)
  BY <1>6 DEF Types, S_Reset, S_Write, S_LogCommit
<1>7. QED BY <1>2, <1>3, <1>4, <1>5, <1>6 DEF Sending

\* The read thread keeps what it says of the mask it copies.
LEMMA CopiedStep ==
  ASSUME Types, \A m \in Mask : Copied(m), [Next]_vars, NEW k \in Mask
  PROVE  Copied(k)'
<1>0. Copied(k) /\ pos \in Nat /\ DOMAIN mem = Mask /\ DOMAIN current = Mask /\ None \notin Mask
  BY Constants DEF Types
<1>1. ASSUME NEW m \in Mask, NEW im \in Images[m], R_Begin(m, im) PROVE Copied(k)'
  <2>1. /\ upd = None /\ upd' = m /\ target' = im /\ pos' = 0 /\ mem' = mem
        /\ current' = [current EXCEPT ![m] = @ \union {im}]
        /\ m = "msg" => KeepsRows(mem[m], im)
    BY <1>1 DEF R_Begin
  <2>2. mem[k] \in Images[k] /\ current[k] = {mem[k]}
    BY <1>0, <2>1 DEF Copied
  <2>3. CASE k # m
    BY <1>0, <2>1, <2>2, <2>3 DEF Copied
  <2>4. CASE k = m
    <3>1. current'[k] = {mem[k], im}
      BY <1>0, <2>1, <2>2, <2>4
    <3>2. mem[k] \in [Cells(k) -> Nat] /\ im \in [Cells(k) -> Nat] /\ Size(k) \in Nat
          /\ Cells(k) = 0..(Size(k) - 1)
      BY <2>2, <2>4, Constants, Sizes
    <3>3. \A p \in Cells(k) : ~(p < 0)
      BY <3>2
    <3>4. mem[k] = [p \in DOMAIN im |-> IF p < 0 THEN im[p] ELSE mem[k][p]]
      BY <3>2, <3>3
    <3>5. Size(k)' = Size(k)
      BY <2>1 DEF Size
    <3>6. upd' = k /\ target' \in Images[k] /\ pos' <= Size(k)'
      BY <2>1, <2>4, <3>2, <3>5
    <3>7. /\ mem[k] \in Images[k] /\ current'[k] = {mem[k], target'}
          /\ mem'[k] = [p \in DOMAIN target' |-> IF p < pos' THEN target'[p] ELSE mem[k][p]]
          /\ k = "msg" => KeepsRows(mem[k], target')
      BY <2>1, <2>2, <2>4, <3>1, <3>4
    <3>8. \E old \in Images[k] :
            /\ current'[k] = {old, target'}
            /\ mem'[k] = [p \in DOMAIN target' |-> IF p < pos' THEN target'[p] ELSE old[p]]
            /\ k = "msg" => KeepsRows(old, target')
      BY ONLY <3>7
    <3>9. QED BY ONLY <3>6, <3>8 DEF Copied
  <2>5. QED BY <2>3, <2>4
<1>2. CASE R_Copy
  <2>1. /\ pos < Size(upd) /\ mem' = [mem EXCEPT ![upd][pos] = target[pos]] /\ pos' = pos + 1
        /\ UNCHANGED <<upd, target, current>>
    BY <1>2 DEF R_Copy
  <2>2. CASE k # upd
    BY <1>0, <2>1, <2>2 DEF Copied
  <2>3. CASE k = upd
    <3>1. PICK old \in Images[k] :
            /\ current[k] = {old, target} /\ (k = "msg" => KeepsRows(old, target))
            /\ mem[k] = [p \in DOMAIN target |-> IF p < pos THEN target[p] ELSE old[p]]
      BY <1>0, <2>3 DEF Copied
    <3>2. target \in Images[k]
      BY <1>0, <2>3 DEF Copied
    <3>3. target \in [Cells(k) -> Nat] /\ DOMAIN mem[k] = Cells(k)
      BY <3>1, <3>2, Constants
    <3>4. Size(k) \in Nat /\ Cells(k) = 0..(Size(k) - 1)
      BY <3>3, Sizes
    <3>5. mem'[k] = [mem[k] EXCEPT ![pos] = target[pos]]
      BY <1>0, <2>1, <2>3
    <3>6. mem'[k] = [p \in DOMAIN target |-> IF p < pos + 1 THEN target[p] ELSE old[p]]
      <4>1. \A p \in Cells(k) : p < pos + 1 <=> p < pos \/ p = pos
        BY <1>0, <3>4
      <4>2. QED BY ONLY <3>1, <3>3, <3>5, <4>1
    <3>7. Size(k)' = Size(k) /\ pos + 1 <= Size(k)
      <4>1. DOMAIN mem'[k] = DOMAIN mem[k]
        BY <3>5
      <4>2. QED BY <1>0, <2>1, <2>3, <3>4, <4>1 DEF Size
    <3>8. QED BY <2>1, <2>3, <3>1, <3>2, <3>6, <3>7 DEF Copied
  <2>4. QED BY <2>2, <2>3
<1>3. CASE R_End
  <2>1. /\ upd \in Mask /\ pos = Size(upd) /\ current' = [current EXCEPT ![upd] = {target}]
        /\ upd' = None /\ mem' = mem
    BY <1>3 DEF R_End, Types
  <2>2. CASE k # upd
    BY <1>0, <2>1, <2>2 DEF Copied
  <2>3. CASE k = upd
    <3>1. PICK old \in Images[k] :
            mem[k] = [p \in DOMAIN target |-> IF p < pos THEN target[p] ELSE old[p]]
      BY <1>0, <2>3 DEF Copied
    <3>2. target \in Images[k]
      BY <1>0, <2>3 DEF Copied
    <3>3. target \in [Cells(k) -> Nat] /\ DOMAIN mem[k] = Cells(k)
      BY <3>1, <3>2, Constants
    <3>4. \A p \in Cells(k) : p < pos
      BY <2>1, <2>3, <3>3, Sizes
    <3>5. mem[k] = target
      BY <3>1, <3>3, <3>4
    <3>6. QED BY <1>0, <2>1, <2>3, <3>2, <3>5 DEF Copied
  <2>4. QED BY <2>2, <2>3
<1>4. CASE UNCHANGED <<mem, upd, pos, target, current>>
  <2>1. Size(k)' = Size(k)
    BY <1>4 DEF Size
  <2>2. QED BY <1>0, <1>4, <2>1 DEF Copied
<1>5. CASE Close \/ UNCHANGED vars
  BY <1>4, <1>5 DEF Close, vars, driver
<1>6. ASSUME NEW s \in Sender, Sending(s) PROVE Copied(k)'
  BY <1>4, <1>6, SenderFrame
<1>7. QED BY <1>1, <1>2, <1>3, <1>5, <1>6 DEF Next

\* What a sender may be sending, and the masks it reads.
LEMMA OpIs ==
  ASSUME NEW o \in Ops
  PROVE  /\ o.svc \in Mask /\ o.id \in Nat
         /\ o.svc = "msg" \/ (o.svc \in {"log", "event"} /\ dci(o.svc) \in Mask /\ o.id \in Item)
         /\ Reads(o) \subseteq Mask
<1>1. \/ o.svc = "msg" /\ o.id \in Ssid
      \/ o.svc \in Mask \intersect {"log", "event"} /\ o.id \in Item
  <2>1. CASE o \in [svc : {"msg"}, id : Ssid]
    BY <2>1
  <2>2. CASE o \in [svc : Mask \intersect {"log", "event"}, id : Item]
    BY <2>2
  <2>3. QED BY <2>1, <2>2 DEF Ops
<1>2. CASE o.svc = "msg" /\ o.id \in Ssid
  BY <1>2, Constants DEF Reads
<1>3. CASE o.svc \in Mask \intersect {"log", "event"} /\ o.id \in Item
  <2>1. dci(o.svc) \in Mask /\ Item \subseteq Cells(o.svc)
    BY <1>3, ServicesAssumption DEF ServicesAssumption
  <2>3. Cells(o.svc) \subseteq Nat
    BY <1>3, Constants
  <2>4. o.id \in Nat
    BY <1>3, <2>1, <2>3
  <2>5. Reads(o) = {o.svc, dci(o.svc)}
    BY <1>3 DEF Reads
  <2>6. QED BY <1>3, <2>1, <2>4, <2>5
<1>4. QED BY <1>1, <1>2, <1>3

\* Images that come into force change nothing that a sender decided, nor do the words that the
\* read thread writes to rows in use.
LEMMA Grows ==
  ASSUME NEW t \in Sender, pc'[t] = pc[t], op'[t] = op[t], ptr'[t] = ptr[t], first'[t] = first[t],
         type'[t] = type[t], op[t].svc = "msg" \/ dci(op[t].svc) \in Mask,
         \A m \in Mask : force[t][m] \subseteq force'[t][m],
         \A m \in Mask : \A im : force'[t][m] = {im} => force[t][m] = {im},
         Labels(t)
  PROVE  Labels(t)' /\ (MsgRight(t) => MsgRight(t)') /\ (LogRight(t) => LogRight(t)')
<1>0. op[t].svc \in Mask /\ "msg" \in Mask
  BY Constants DEF Labels
<1>1. Labels(t)'
  BY DEF Labels
<1>2. ASSUME MsgRight(t) PROVE MsgRight(t)'
  BY <1>0, <1>2 DEF MsgRight, MsgWanted, Only
<1>3. ASSUME LogRight(t) PROVE LogRight(t)'
  <2> SUFFICES ASSUME op[t].svc # "msg" PROVE LogRight(t)'
    BY DEF LogRight
  <2> DEFINE m == op[t].svc
             d == dci(m)
  <2>1. m \in Mask /\ d \in Mask
    BY <1>0
  <2>2. /\ "tool" \in type[t] => \E im \in force[t][m] : ToolWanted(t, im)
        /\ "dci" \in type[t] => \E im \in force[t][d] : DciWanted(t, im)
        /\ pc[t] \in {"num", "dci", "skip"} /\ "tool" \notin type[t] =>
             \A im \in force[t][m] : Only(t, m, im) => ~ToolWanted(t, im)
        /\ pc[t] \in {"num", "dci"} => "dci" \notin type[t]
        /\ pc[t] = "skip" =>
             /\ type[t] = {}
             /\ \A im \in force[t][d] : Only(t, d, im) => ~DciWanted(t, im)
    BY <1>3 DEF LogRight
  <2>3. op'[t].svc = m /\ dci(op'[t].svc) = d
    OBVIOUS
  <2>4. /\ \A im : ToolWanted(t, im)' <=> ToolWanted(t, im)
        /\ \A im : DciWanted(t, im)' <=> DciWanted(t, im)
    BY DEF ToolWanted, DciWanted
  <2> HIDE DEF m, d
  <2>5. /\ "tool" \in type'[t] => \E im \in force'[t][m] : ToolWanted(t, im)'
        /\ "dci" \in type'[t] => \E im \in force'[t][d] : DciWanted(t, im)'
    BY <2>1, <2>2, <2>4
  <2>6. /\ \A im \in force'[t][m] : force'[t][m] = {im} => im \in force[t][m] /\ Only(t, m, im)
        /\ \A im \in force'[t][d] : force'[t][d] = {im} => im \in force[t][d] /\ Only(t, d, im)
    BY <2>1 DEF Only
  <2>7. pc'[t] \in {"num", "dci", "skip"} /\ "tool" \notin type'[t] =>
             \A im \in force'[t][m] : force'[t][m] = {im} => ~ToolWanted(t, im)'
    BY <2>2, <2>4, <2>6
  <2>8. /\ pc'[t] \in {"num", "dci"} => "dci" \notin type'[t]
        /\ pc'[t] = "skip" =>
             /\ type'[t] = {}
             /\ \A im \in force'[t][d] : force'[t][d] = {im} => ~DciWanted(t, im)'
    BY <2>2, <2>4, <2>6
  <2>9. QED BY <2>3, <2>5, <2>7, <2>8 DEF LogRight, Only
<1>4. QED BY <1>1, <1>2, <1>3

\* Nor do they move the walk.
LEMMA WalkStays ==
  ASSUME NEW t \in Sender, pc'[t] = pc[t], op'[t] = op[t], ptr'[t] = ptr[t], first'[t] = first[t],
         \A im : force'[t]["msg"] = {im} => force[t]["msg"] = {im},
         \A r \in 0..(NumRows - 1) : Word(r * RowSize + 1) # 0 =>
           Word(r * RowSize)' = Word(r * RowSize) /\ Word(r * RowSize + 1)' = Word(r * RowSize + 1),
         Walk(t)
  PROVE  Walk(t)'
<1> SUFFICES ASSUME pc[t] \in {"test", "first", "actual", "mask"}
             PROVE  \E r \in 0..NumRows : AtRow(t, r)'
  BY DEF Walk
<1>1. PICK r \in 0..NumRows : AtRow(t, r)
  BY DEF Walk
<1>2. /\ ptr[t] = r * RowSize
      /\ \A q \in 0..(NumRows - 1) : q < r => Word(q * RowSize + 1) # 0
      /\ \A q \in 0..(NumRows - 1), im \in force[t]["msg"] :
           q < r /\ Only(t, "msg", im) => ~InRow(im, q, op[t].id)
      /\ pc[t] # "test" => r < NumRows /\ Word(ptr[t] + 1) # 0
      /\ pc[t] \in {"actual", "mask"} => first[t] = Word(ptr[t])
      /\ pc[t] = "mask" =>
           /\ first[t] <= op[t].id /\ op[t].id < first[t] + MaxSsid
           /\ \A im \in force[t]["msg"] : Only(t, "msg", im) => InRow(im, r, op[t].id)
  BY <1>1 DEF AtRow
<1>3. \A q \in 0..(NumRows - 1) : q < r => Word(q * RowSize + 1)' # 0
  BY <1>2
<1>4. pc[t] # "test" => Word(ptr[t] + 1)' # 0 /\ Word(ptr[t])' = Word(ptr[t])
  <2> SUFFICES ASSUME pc[t] # "test" PROVE Word(ptr[t] + 1)' # 0 /\ Word(ptr[t])' = Word(ptr[t])
    OBVIOUS
  <2>1. r \in 0..(NumRows - 1) /\ Word(r * RowSize + 1) # 0
    BY <1>2, Constants
  <2>2. Word(r * RowSize)' = Word(r * RowSize) /\ Word(r * RowSize + 1)' = Word(r * RowSize + 1)
    BY <2>1
  <2>3. QED BY <1>2, <2>1, <2>2 DEF Word
<1>5. \A im \in force'[t]["msg"] :
        Only(t, "msg", im)' => im \in force[t]["msg"] /\ Only(t, "msg", im)
  BY DEF Only
<1>6. AtRow(t, r)'
  BY <1>2, <1>3, <1>4, <1>5 DEF AtRow, Word
<1>7. QED BY <1>6

-----------------------------------------------------------------------------
(* What a lookup keeps. *)

\* What a sender reads is in an image in force; if there is only one, it is all of that image.
LEMMA ReadsForce ==
  ASSUME NEW s \in Sender, Labels(s), InForce(s), pc[s] \in Looking,
         NEW m \in Reads(op[s]), Copied(m)
  PROVE  /\ m \in Mask /\ current[m] \subseteq force[s][m] /\ current[m] # {}
         /\ current[m] \subseteq Images[m] /\ mem[m] \in [Cells(m) -> Nat]
         /\ \A p \in Cells(m) : \E im \in current[m] : mem[m][p] = im[p]
         /\ \A im : Only(s, m, im) => mem[m] = im
<1>1. op[s] \in Ops
  BY DEF Labels, Looking
<1>2. m \in Mask
  BY <1>1, OpIs
<1>3. current[m] \subseteq force[s][m]
  BY DEF InForce
<1>4. \A im : Only(s, m, im) => current[m] = {im}
  BY <1>2, <1>3, MemIs DEF Only
<1>5. QED BY <1>2, <1>3, <1>4, MemIs

\* Before the walk.
LEMMA SoundBegin ==
  ASSUME Types, \A m \in Mask : Copied(m), NEW s \in Sender, Sound(s), NEW o \in Ops, S_Begin(s, o)
  PROVE  Sound(s)'
<1>1. /\ pc[s] = "idle" /\ op'[s] = o /\ pc'[s] = IF o.svc = "msg" THEN "test" ELSE "tool"
      /\ force'[s] = [m \in Mask |-> IF m \in Reads(o) THEN current[m] ELSE {}]
      /\ UNCHANGED <<mem, current, ptr, first, type>>
  BY DEF S_Begin, Goto, Types, driver, lookup
<1>2. ptr[s] = 0 /\ type[s] = {}
  BY <1>1 DEF Sound, Labels, Looking
<1>3. /\ o.svc \in Mask /\ o.id \in Nat /\ Reads(o) \subseteq Mask
      /\ o.svc = "msg" \/ o.svc \in {"log", "event"}
  BY OpIs
<1>4. Labels(s)'
  BY <1>1, <1>2, <1>3 DEF Labels, InMsg, InLog, Looking
<1>5. InForce(s)'
  BY <1>1, <1>3 DEF InForce
<1>6. MsgRight(s)' /\ LogRight(s)'
  BY <1>1, <1>2 DEF MsgRight, LogRight
<1>7. Walk(s)'
  <2> SUFFICES ASSUME pc'[s] = "test" PROVE \E r \in 0..NumRows : AtRow(s, r)'
    BY <1>1 DEF Walk
  <2>1. 0 \in 0..NumRows /\ 0 * RowSize = 0 /\ \A q \in 0..(NumRows - 1) : ~(q < 0)
    BY Constants
  <2>2. AtRow(s, 0)'
    BY <1>1, <1>2, <2>1 DEF AtRow
  <2>3. QED BY <2>1, <2>2
<1>8. QED BY <1>4, <1>5, <1>6, <1>7 DEF Sound

\* Steps of the walk keep what is said of the masks and the labels.
LEMMA SoundTest ==
  ASSUME Types, \A m \in Mask : Copied(m), NEW s \in Sender, Sound(s), S_Test(s)
  PROVE  Sound(s)'
<1>1. /\ pc[s] = "test" /\ UNCHANGED <<mem, current, op, ptr, first, type, force>>
      /\ pc'[s] = IF ptr[s] >= MsgMaskSize THEN "past"
                  ELSE IF Word(ptr[s] + 1) = 0 THEN "skip" ELSE "first"
  BY DEF S_Test, Goto, Types, driver, lookup
<1>2. /\ Labels(s) /\ InForce(s) /\ MsgRight(s) /\ op[s].svc = "msg" /\ type[s] = {}
      /\ op[s] \in Ops /\ Reads(op[s]) = {"msg"}
  BY <1>1 DEF Sound, Labels, InMsg, MsgRight, Reads
<1>3. /\ current["msg"] \subseteq force[s]["msg"] /\ Copied("msg")
      /\ \A im : Only(s, "msg", im) => mem["msg"] = im
  <2>1. Copied("msg")
    BY Constants
  <2>2. pc[s] \in Looking /\ "msg" \in Reads(op[s])
    BY <1>1, <1>2 DEF Looking
  <2>3. QED BY <1>2, <2>1, <2>2, ReadsForce
<1>4. PICK r \in 0..NumRows : AtRow(s, r)
  BY <1>1 DEF Sound, Walk
<1>5. /\ ptr[s] = r * RowSize
      /\ \A q \in 0..(NumRows - 1) : q < r => Word(q * RowSize + 1) # 0
      /\ \A q \in 0..(NumRows - 1), im \in force[s]["msg"] :
           q < r /\ Only(s, "msg", im) => ~InRow(im, q, op[s].id)
  BY <1>4 DEF AtRow
<1>6. Labels(s)' /\ InForce(s)' /\ LogRight(s)'
  BY <1>1, <1>2 DEF Labels, InForce, LogRight, InMsg, InLog, Looking
<1>7. CASE ptr[s] >= MsgMaskSize
  <2>1. \A q \in 0..(NumRows - 1) : Word(q * RowSize + 1) # 0
    <3>1. r = NumRows
      BY <1>5, <1>7, WalkEnds
    <3>2. NumRows \in Nat
      BY Constants
    <3>3. \A q \in 0..(NumRows - 1) : q < r
      BY ONLY <3>1, <3>2
    <3>4. QED BY ONLY <1>5, <3>3
  <2>2. \E im \in force[s]["msg"] : InUse(im, NumRows - 1)
    BY <1>3, <2>1, AllInUse
  <2>3. QED BY <1>1, <1>2, <1>6, <1>7, <2>2 DEF Sound, Walk, MsgRight
<1>8. CASE ~(ptr[s] >= MsgMaskSize) /\ Word(ptr[s] + 1) = 0
  <2>1. ASSUME NEW im \in force[s]["msg"], Only(s, "msg", im), MsgEnabled(im, op[s].id)
        PROVE  FALSE
    <3>1. mem["msg"] = im
      BY <1>3, <2>1
    <3>2. PICK x \in 0..(NumRows - 1) : InUse(im, x) /\ InRow(im, x, op[s].id)
      BY <2>1 DEF MsgEnabled, InRow
    <3>3. ~(x < r)
      BY <1>5, <2>1, <3>2
    <3>4. r \in 0..x
      BY <3>2, <3>3
    <3>5. im[r * RowSize + 1] # 0
      BY <3>2, <3>4 DEF InUse
    <3>6. QED BY <1>5, <1>8, <3>1, <3>5 DEF Word
  <2>2. MsgRight(s)'
    BY <1>1, <1>2, <1>8, <2>1 DEF MsgRight, MsgWanted, Only
  <2>3. QED BY <1>1, <1>6, <1>8, <2>2 DEF Sound, Walk
<1>9. CASE ~(ptr[s] >= MsgMaskSize) /\ Word(ptr[s] + 1) # 0
  <2>1. r < NumRows
    BY <1>5, <1>9, Constants
  <2>2. AtRow(s, r)'
    BY <1>1, <1>5, <1>9, <2>1 DEF AtRow, Only, Word
  <2>3. QED BY <1>1, <1>2, <1>6, <1>9, <2>2 DEF Sound, Walk, MsgRight
<1>10. QED BY <1>7, <1>8, <1>9

\* The first SSID of a row.
LEMMA SoundFirst ==
  ASSUME Types, NEW s \in Sender, Sound(s), S_First(s)
  PROVE  Sound(s)'
<1>1. /\ pc[s] = "first" /\ pc'[s] = "actual" /\ first'[s] = Word(ptr[s])
      /\ UNCHANGED <<mem, current, op, ptr, type, force>>
  BY DEF S_First, Goto, Types, driver
<1>2. Labels(s) /\ InForce(s) /\ MsgRight(s) /\ op[s].svc = "msg"
  BY <1>1 DEF Sound, Labels, InMsg
<1>3. PICK r \in 0..NumRows : AtRow(s, r)
  BY <1>1 DEF Sound, Walk
<1>4. AtRow(s, r)'
  BY <1>1, <1>3 DEF AtRow, Only, Word
<1>5. Labels(s)' /\ InForce(s)' /\ LogRight(s)' /\ MsgRight(s)'
  BY <1>1, <1>2 DEF Labels, InForce, LogRight, MsgRight, InMsg, InLog, Looking
<1>6. QED BY <1>4, <1>5 DEF Sound, Walk

\* In a row in use, an SSID up to the actual last one has a mask, also while the row is copied.
LEMMA RangeFits ==
  ASSUME Types, Copied("msg"), NEW r \in 0..(NumRows - 1), Word(r * RowSize + 1) # 0,
         NEW id \in Nat, Word(r * RowSize) <= id, id <= Word(r * RowSize + 2)
  PROVE  id < Word(r * RowSize) + MaxSsid
<1> DEFINE b == r * RowSize
<1>1. b \in Cells("msg") /\ b + 1 \in Cells("msg") /\ b + 2 \in Cells("msg") /\ "msg" \in Mask
  BY RowWords, Constants
<1>2. PICK im \in current["msg"] : mem["msg"][b + 2] = im[b + 2]
  BY <1>1, MemIs
<1>3. /\ im \in Images["msg"] /\ im \in [Cells("msg") -> Nat]
      /\ mem["msg"] \in [Cells("msg") -> Nat] /\ Formed(im)
  BY <1>1, MemIs, Constants, ServicesAssumption DEF ServicesAssumption
<1>4. (im[b + 1] = 0 => im[b + 2] = 0) /\ im[b + 2] < im[b] + MaxSsid
  BY <1>3 DEF Formed
<1>5. im[b + 1] # 0 => im[b] = Word(b)
  BY RowIs DEF Types
<1>6. /\ Word(b) \in Nat /\ im[b] \in Nat /\ im[b + 2] \in Nat /\ MaxSsid \in Nat \ {0}
      /\ Word(b + 2) = im[b + 2]
  BY <1>1, <1>2, <1>3, Constants DEF Word
<1>7. Word(b) <= id /\ id <= Word(b + 2)
  OBVIOUS
<1> DEFINE w == Word(b)
           first0 == im[b]
           last0 == im[b + 2]
<1>8. /\ w \in Nat /\ first0 \in Nat /\ last0 \in Nat /\ w <= id /\ id <= last0
      /\ last0 = 0 \/ first0 = w
      /\ last0 < first0 + MaxSsid /\ MaxSsid \in Nat \ {0}
  BY <1>4, <1>5, <1>6, <1>7
<1> HIDE DEF w, first0, last0
<1>9. id < w + MaxSsid
  BY ONLY id \in Nat, <1>8
<1>10. QED BY <1>9 DEF w

\* The actual last SSID of a row.
LEMMA SoundActual ==
  ASSUME Types, \A m \in Mask : Copied(m), NEW s \in Sender, Sound(s), S_Actual(s)
  PROVE  Sound(s)'
<1>1. /\ pc[s] = "actual" /\ UNCHANGED <<mem, current, op, first, type, force>>
      /\ IF first[s] <= op[s].id /\ op[s].id <= Word(ptr[s] + 2)
         THEN pc'[s] = "mask" /\ ptr'[s] = ptr[s]
         ELSE pc'[s] = "test" /\ ptr'[s] = ptr[s] + RowSize
  BY DEF S_Actual, Goto, Types, driver
<1>2. /\ Labels(s) /\ InForce(s) /\ MsgRight(s) /\ op[s].svc = "msg"
      /\ op[s] \in Ops /\ Reads(op[s]) = {"msg"} /\ op[s].id \in Nat /\ Copied("msg")
  BY <1>1, OpIs, Constants DEF Sound, Labels, InMsg, Reads
<1>3. \A im : Only(s, "msg", im) => mem["msg"] = im
  BY <1>1, <1>2, ReadsForce DEF Looking
<1>4. PICK r \in 0..NumRows : AtRow(s, r)
  BY <1>1 DEF Sound, Walk
<1>5. /\ ptr[s] = r * RowSize /\ r < NumRows /\ Word(r * RowSize + 1) # 0
      /\ first[s] = Word(r * RowSize)
      /\ \A q \in 0..(NumRows - 1) : q < r => Word(q * RowSize + 1) # 0
      /\ \A q \in 0..(NumRows - 1), im \in force[s]["msg"] :
           q < r /\ Only(s, "msg", im) => ~InRow(im, q, op[s].id)
  BY <1>1, <1>4 DEF AtRow
<1>6. r \in 0..(NumRows - 1) /\ r \in Nat
  BY <1>5, Constants
<1>7. Labels(s)' /\ InForce(s)' /\ LogRight(s)' /\ MsgRight(s)'
  BY <1>1, <1>2 DEF Labels, InForce, LogRight, MsgRight, InMsg, InLog, Looking
<1>8. CASE first[s] <= op[s].id /\ op[s].id <= Word(ptr[s] + 2)
  <2>1. pc'[s] = "mask" /\ ptr'[s] = ptr[s]
    BY <1>1, <1>8
  <2>2. op[s].id < first[s] + MaxSsid
    <3>1. Word(r * RowSize) <= op[s].id /\ op[s].id <= Word(r * RowSize + 2)
      BY <1>5, <1>8
    <3>2. op[s].id < Word(r * RowSize) + MaxSsid
      BY <1>2, <1>5, <1>6, <3>1, RangeFits
    <3>3. QED BY <1>5, <3>2
  <2>3. \A im \in force[s]["msg"] : Only(s, "msg", im) => InRow(im, r, op[s].id)
    BY <1>3, <1>5, <1>8 DEF InRow, Word
  <2>4. AtRow(s, r)'
    BY <1>1, <1>5, <1>8, <2>1, <2>2, <2>3 DEF AtRow, Only, Word
  <2>5. QED BY <1>7, <2>4 DEF Sound, Walk
<1>9. CASE ~(first[s] <= op[s].id /\ op[s].id <= Word(ptr[s] + 2))
  <2>1. pc'[s] = "test" /\ ptr'[s] = ptr[s] + RowSize
    BY <1>1, <1>9
  <2>2. r + 1 \in 0..NumRows /\ ptr'[s] = (r + 1) * RowSize
    BY <1>5, <2>1, WalkEnds
  <2>3. \A q \in 0..(NumRows - 1) : q < r + 1 => q < r \/ q = r
    BY <1>6
  <2>4. \A im \in force[s]["msg"] : Only(s, "msg", im) => ~InRow(im, r, op[s].id)
    BY <1>3, <1>5, <1>9 DEF InRow, Word
  <2>5. AtRow(s, r + 1)'
    BY <1>1, <1>5, <2>1, <2>2, <2>3, <2>4 DEF AtRow, Only, Word
  <2>6. QED BY <1>7, <2>2, <2>5 DEF Sound, Walk
<1>10. QED BY <1>8, <1>9

\* The mask of the SSID.
LEMMA SoundMask ==
  ASSUME Types, \A m \in Mask : Copied(m), NEW s \in Sender, Sound(s), S_Mask(s)
  PROVE  Sound(s)'
<1> DEFINE id == op[s].id
           k == id - first[s]
<1>1. /\ pc[s] = "mask" /\ UNCHANGED <<mem, current, op, ptr, first, type, force>>
      /\ pc'[s] = IF Word(ptr[s] + 3 + k) = 1 THEN "alloc" ELSE "skip"
  BY DEF S_Mask, Goto, Types, driver, lookup
<1>2. /\ Labels(s) /\ InForce(s) /\ MsgRight(s) /\ op[s].svc = "msg" /\ type[s] = {}
      /\ op[s] \in Ops /\ Reads(op[s]) = {"msg"} /\ id \in Nat /\ Copied("msg")
  BY <1>1, OpIs, Constants DEF Sound, Labels, InMsg, Reads, MsgRight
<1>3. /\ \A im : Only(s, "msg", im) => mem["msg"] = im
      /\ current["msg"] \subseteq force[s]["msg"] /\ current["msg"] \subseteq Images["msg"]
      /\ mem["msg"] \in [Cells("msg") -> Nat]
      /\ \A p \in Cells("msg") : \E im \in current["msg"] : mem["msg"][p] = im[p]
  BY <1>1, <1>2, ReadsForce DEF Looking
<1>4. PICK r \in 0..NumRows : AtRow(s, r)
  BY <1>1 DEF Sound, Walk
<1> DEFINE b == r * RowSize
<1>5. /\ ptr[s] = b /\ r < NumRows /\ Word(b + 1) # 0 /\ first[s] = Word(b)
      /\ first[s] <= id /\ id < first[s] + MaxSsid
      /\ \A im \in force[s]["msg"] : Only(s, "msg", im) => InRow(im, r, id)
  BY <1>1, <1>4 DEF AtRow
<1>6. r \in 0..(NumRows - 1) /\ r \in Nat
  BY <1>5, Constants
<1>7. /\ b \in Nat /\ b \in Cells("msg") /\ first[s] \in Nat /\ k \in 0..(MaxSsid - 1)
      /\ b + 3 + k \in Cells("msg")
  <2>1. b \in Nat /\ b \in Cells("msg")
    BY <1>6, RowWords
  <2>2. first[s] \in Nat
    BY <1>3, <1>5, <2>1 DEF Word
  <2>3. k \in 0..(MaxSsid - 1)
    <3>1. /\ first[s] \in Nat /\ id \in Nat /\ MaxSsid \in Nat \ {0}
          /\ first[s] <= id /\ id < first[s] + MaxSsid
      BY <1>2, <1>5, <2>2, Constants
    <3>2. QED BY ONLY <3>1
  <2>4. QED BY <1>6, <2>1, <2>2, <2>3, RowWords
<1>8. Labels(s)' /\ InForce(s)' /\ LogRight(s)' /\ Walk(s)'
  BY <1>1, <1>2 DEF Labels, InForce, LogRight, InMsg, InLog, Looking, Walk
<1>9. CASE Word(b + 3 + k) = 1
  <2>1. PICK im \in current["msg"] : mem["msg"][b + 3 + k] = im[b + 3 + k]
    BY <1>3, <1>7
  <2>2. im \in [Cells("msg") -> Nat] /\ Formed(im) /\ im[b + 3 + k] = 1
    BY <1>3, <1>9, <2>1, Constants, ServicesAssumption DEF ServicesAssumption, Word
  <2>3. InUse(im, r) /\ im[b] + k <= im[b + 2]
    BY <1>6, <1>7, <2>2 DEF Formed
  <2>4. im[b + 1] # 0
    BY <1>6, <2>3 DEF InUse
  <2>5. im[b] = first[s]
    BY <1>2, <1>5, <1>6, <2>4, RowIs DEF Types
  <2>6. im[b] <= id /\ id <= im[b + 2] /\ im[b + 3 + (id - im[b])] = 1
    <3>1. im[b] <= id
      BY <1>5, <2>5
    <3>2. im[b] + k = id
      BY <1>2, <1>7, <2>5
    <3>3. im[b + 3 + (id - im[b])] = 1
      BY <2>2, <2>5
    <3>4. QED BY <2>3, <3>1, <3>2, <3>3
  <2>7. MsgEnabled(im, id)
    BY <1>6, <2>3, <2>6 DEF MsgEnabled
  <2>8. MsgRight(s)'
    BY <1>1, <1>2, <1>3, <1>5, <1>9, <2>7 DEF MsgRight, MsgWanted
  <2>9. QED BY <1>8, <2>8 DEF Sound
<1>10. CASE Word(b + 3 + k) # 1
  <2>1. ASSUME NEW im \in force[s]["msg"], Only(s, "msg", im), MsgEnabled(im, id)
        PROVE  FALSE
    <3>1. mem["msg"] = im
      BY <1>3, <2>1
    <3>2. PICK q \in 0..(NumRows - 1) :
            /\ InUse(im, q) /\ im[q * RowSize] <= id /\ id <= im[q * RowSize + 2]
            /\ im[q * RowSize + 3 + (id - im[q * RowSize])] = 1
      BY <2>1 DEF MsgEnabled
    <3>3. q # r
      <4>1. SUFFICES ASSUME q = r PROVE FALSE
        OBVIOUS
      <4>2. im[b] = first[s]
        BY <1>5, <3>1 DEF Word
      <4>3. im[b + 3 + k] = 1
        BY <3>2, <4>1, <4>2
      <4>4. QED BY <1>10, <3>1, <4>3 DEF Word
    <3>4. im[b + 1] # 0 /\ im[b] <= id /\ id <= im[b + 2]
      BY <1>5, <2>1, <3>1 DEF Word, InRow
    <3>5. im[q * RowSize + 1] # 0
      <4>1. q \in 0..q
        BY <3>2
      <4>2. QED BY <3>2, <4>1 DEF InUse
    <3>6. im \in [Cells("msg") -> Nat] /\ Formed(im)
      <4>1. current["msg"] \subseteq {im} /\ current["msg"] # {}
        BY <1>2, <1>3, <2>1, MemIs, Constants DEF Only
      <4>2. im \in Images["msg"]
        BY <1>3, <4>1
      <4>3. QED BY <4>2, Constants, ServicesAssumption DEF ServicesAssumption
    <3>7. im[b + 2] < im[q * RowSize] \/ im[q * RowSize + 2] < im[b]
      BY <1>6, <3>3, <3>4, <3>5, <3>6 DEF Formed
    <3>8. /\ im[b] \in Nat /\ im[b + 2] \in Nat
          /\ im[q * RowSize] \in Nat /\ im[q * RowSize + 2] \in Nat
      BY <1>6, <3>6, RowWords
    <3>9. QED BY <1>2, <3>2, <3>4, <3>7, <3>8
  <2>2. MsgRight(s)'
    BY <1>1, <1>2, <1>5, <1>10, <2>1 DEF MsgRight, MsgWanted, Only
  <2>3. QED BY <1>8, <2>2 DEF Sound
<1>11. QED BY <1>9, <1>10

\* The tool's mask of a log or event.
LEMMA SoundTool ==
  ASSUME Types, \A m \in Mask : Copied(m), NEW s \in Sender, Sound(s), S_Tool(s)
  PROVE  Sound(s)'
<1> DEFINE m == op[s].svc
           d == dci(m)
           i == op[s].id
<1>1. /\ pc[s] = "tool" /\ pc'[s] = "num" /\ UNCHANGED <<mem, current, op, ptr, first, force>>
      /\ type'[s] = IF mem[m][i] = 1 THEN {"tool"} ELSE {}
  BY DEF S_Tool, Goto, Types, driver
<1>2. /\ Labels(s) /\ InForce(s) /\ MsgRight(s) /\ m \in {"log", "event"}
      /\ op[s] \in Ops /\ m \in Reads(op[s]) /\ d \in Mask /\ m \in Mask /\ i \in Item /\ Copied(m)
  BY <1>1, OpIs DEF Sound, Labels, InMsg, InLog, Reads
<1>3. i \in Cells(m)
  BY <1>2, ServicesAssumption DEF ServicesAssumption
<1>4. /\ \A im : Only(s, m, im) => mem[m] = im
      /\ \E im \in force[s][m] : mem[m][i] = im[i]
  BY <1>1, <1>2, <1>3, ReadsForce DEF Looking
<1>5. Labels(s)' /\ InForce(s)' /\ Walk(s)' /\ MsgRight(s)'
  BY <1>1, <1>2 DEF Labels, InForce, Walk, MsgRight, InMsg, InLog, Looking
<1>6. "tool" \in type'[s] => \E im \in force[s][m] : im[i] = 1
  BY <1>1, <1>4
<1>7. "tool" \notin type'[s] => \A im \in force[s][m] : Only(s, m, im) => im[i] # 1
  BY <1>1, <1>4
<1>8. "dci" \notin type'[s]
  BY <1>1
<1>9. LogRight(s)'
  BY <1>1, <1>6, <1>7, <1>8 DEF LogRight, ToolWanted, Only
<1>10. QED BY <1>5, <1>9 DEF Sound

\* The number of DCI clients.
LEMMA SoundNum ==
  ASSUME Types, \A m \in Mask : Copied(m), NEW s \in Sender, Sound(s), S_Num(s)
  PROVE  Sound(s)'
<1> DEFINE m == op[s].svc
           d == dci(m)
           i == op[s].id
<1>1. /\ pc[s] = "num" /\ UNCHANGED <<mem, current, op, ptr, first, type, force>>
      /\ pc'[s] = IF mem[d][0] > 0 THEN "dci" ELSE IF type[s] = {} THEN "skip" ELSE "alloc"
  BY DEF S_Num, Decide, Goto, Types, driver, lookup
<1>2. /\ Labels(s) /\ InForce(s) /\ LogRight(s) /\ m \in {"log", "event"}
      /\ op[s] \in Ops /\ d \in Reads(op[s]) /\ d \in Mask /\ m \in Mask /\ i \in Item /\ Copied(d)
  BY <1>1, OpIs DEF Sound, Labels, InMsg, InLog, Reads
<1>3. \A im : Only(s, d, im) => mem[d] = im
  BY <1>1, <1>2, ReadsForce DEF Looking
<1>4. Labels(s)' /\ InForce(s)' /\ Walk(s)' /\ MsgRight(s)'
  BY <1>1, <1>2 DEF Labels, InForce, Walk, MsgRight, InMsg, InLog, Looking
<1>5. /\ "tool" \in type[s] => \E im \in force[s][m] : ToolWanted(s, im)
      /\ "tool" \notin type[s] => \A im \in force[s][m] : Only(s, m, im) => ~ToolWanted(s, im)
      /\ "dci" \notin type[s]
  BY <1>1, <1>2 DEF LogRight
<1>6. ~(mem[d][0] > 0) => \A im \in force[s][d] : Only(s, d, im) => ~DciWanted(s, im)
  BY <1>3 DEF DciWanted
<1>7. LogRight(s)'
  BY <1>1, <1>5, <1>6 DEF LogRight, ToolWanted, DciWanted, Only
<1>8. QED BY <1>4, <1>7 DEF Sound

\* The mask of the DCI clients.
LEMMA SoundDci ==
  ASSUME Types, \A m \in Mask : Copied(m), NEW s \in Sender, Sound(s), S_Dci(s)
  PROVE  Sound(s)'
<1> DEFINE m == op[s].svc
           d == dci(m)
           i == op[s].id
           t == type[s] \union (IF mem[d][i] = 1 THEN {"dci"} ELSE {})
<1>1. /\ pc[s] = "dci" /\ UNCHANGED <<mem, current, op, ptr, first, force>> /\ type'[s] = t
      /\ pc'[s] = IF t = {} THEN "skip" ELSE "alloc"
  BY DEF S_Dci, Decide, Goto, Types, driver
<1>2. /\ Labels(s) /\ InForce(s) /\ LogRight(s) /\ m \in {"log", "event"}
      /\ op[s] \in Ops /\ d \in Reads(op[s]) /\ d \in Mask /\ m \in Mask /\ i \in Item /\ Copied(d)
  BY <1>1, OpIs DEF Sound, Labels, InMsg, InLog, Reads
<1>3. i \in Cells(d) /\ \A im \in Images[d] : im[i] = 1 => im[0] > 0
  BY <1>2, ServicesAssumption DEF ServicesAssumption
<1>4. /\ \A im : Only(s, d, im) => mem[d] = im
      /\ \E im \in force[s][d] : im \in Images[d] /\ mem[d][i] = im[i]
  BY <1>1, <1>2, <1>3, ReadsForce DEF Looking
<1>5. Labels(s)' /\ InForce(s)' /\ Walk(s)' /\ MsgRight(s)'
  BY <1>1, <1>2 DEF Labels, InForce, Walk, MsgRight, InMsg, InLog, Looking
<1>6. /\ "tool" \in type[s] => \E im \in force[s][m] : ToolWanted(s, im)
      /\ "tool" \notin type[s] => \A im \in force[s][m] : Only(s, m, im) => ~ToolWanted(s, im)
      /\ "dci" \notin type[s]
  BY <1>1, <1>2 DEF LogRight
<1>7. ("tool" \in t <=> "tool" \in type[s]) /\ ("dci" \in t <=> mem[d][i] = 1)
  BY <1>6
<1>8. "dci" \in t => \E im \in force[s][d] : DciWanted(s, im)
  BY <1>3, <1>4, <1>7 DEF DciWanted
<1>9. "dci" \notin t => \A im \in force[s][d] : Only(s, d, im) => ~DciWanted(s, im)
  BY <1>4, <1>7 DEF DciWanted
<1> HIDE DEF t
<1>10. /\ "tool" \in t => \E im \in force[s][m] : ToolWanted(s, im)
       /\ "tool" \notin t => \A im \in force[s][m] : Only(s, m, im) => ~ToolWanted(s, im)
  BY <1>6, <1>7
<1>11. LogRight(s)'
  BY <1>1, <1>8, <1>9, <1>10 DEF LogRight, ToolWanted, DciWanted, Only
<1>12. QED BY <1>5, <1>11 DEF Sound

\* After the lookup nothing of it is left.
LEMMA SoundSent ==
  ASSUME Types, NEW s \in Sender, Sound(s),
         \/ S_Skip(s) \/ S_NoMemory(s) \/ S_Drop(s) \/ S_Alloc(s) \/ S_Count(s) \/ S_Reset(s)
         \/ S_Write(s) \/ S_LogCommit(s)
  PROVE  Sound(s)'
<1>1. Labels(s)
  BY DEF Sound
<1>2. /\ ptr'[s] = 0 /\ type'[s] = {}
      /\ op'[s] = op[s] \/ op'[s] = NoOp
      /\ pc'[s] \in {"drop", "count", "reset", "write", "idle"}
      /\ pc'[s] \in {"drop", "count", "reset"} => op'[s].svc = "msg"
      /\ pc'[s] # "idle" => op'[s] = op[s] /\ op[s] \in Ops
  <2> USE <1>1 DEF Labels, InMsg, InLog, Looking, Types, Goto, Return, Forget, lookup
  <2>1. CASE S_Skip(s)
    BY <2>1 DEF S_Skip
  <2>2. CASE S_NoMemory(s)
    BY <2>2 DEF S_NoMemory
  <2>3. CASE S_Drop(s)
    BY <2>3 DEF S_Drop
  <2>4. CASE S_Alloc(s)
    BY <2>4 DEF S_Alloc
  <2>5. CASE S_Count(s)
    BY <2>5 DEF S_Count
  <2>6. CASE S_Reset(s)
    BY <2>6 DEF S_Reset
  <2>7. CASE S_Write(s)
    BY <2>7 DEF S_Write
  <2>8. CASE S_LogCommit(s)
    BY <2>8 DEF S_LogCommit
  <2>9. QED BY <2>1, <2>2, <2>3, <2>4, <2>5, <2>6, <2>7, <2>8
<1>3. /\ op'[s].svc \in Mask
      /\ pc'[s] \notin InLog /\ pc'[s] \notin Looking
      /\ pc'[s] \in InMsg => op'[s].svc = "msg"
  <2>1. op'[s].svc \in Mask
    BY <1>1, <1>2, Constants DEF Labels, NoOp
  <2>2. QED BY ONLY <1>2, <2>1 DEF InMsg, InLog, Looking
<1>4. Labels(s)'
  BY ONLY <1>2, <1>3 DEF Labels
<1>5. pc'[s] \notin {"test", "first", "actual", "mask", "alloc", "skip", "past", "num", "dci"}
  BY ONLY <1>2
<1>6. InForce(s)' /\ Walk(s)'
  BY ONLY <1>3, <1>5 DEF InForce, Walk
<1>7. MsgRight(s)' /\ LogRight(s)'
  BY ONLY <1>2, <1>5 DEF MsgRight, LogRight
<1>8. QED BY <1>4, <1>6, <1>7 DEF Sound

-----------------------------------------------------------------------------
(* Buffers, types and dropped messages. *)

\* A step of a sender moves at most itself into or out of those that hold a buffer.
LEMMA Holders ==
  ASSUME NEW s \in Sender, \A t \in Sender : t # s => pc'[t] = pc[t]
  PROVE  /\ Cardinality(Holding) \in Nat /\ Cardinality(Holding') \in Nat
         /\ (s \in Holding <=> s \in Holding') => Cardinality(Holding') = Cardinality(Holding)
         /\ s \in Holding /\ s \notin Holding' =>
              Cardinality(Holding') = Cardinality(Holding) - 1 /\ Cardinality(Holding) > 0
         /\ s \notin Holding /\ s \in Holding' => Cardinality(Holding') = Cardinality(Holding) + 1
<1>1. Holding \subseteq Sender /\ Holding' \subseteq Sender
  BY DEF Holding
<1>2. IsFiniteSet(Holding) /\ IsFiniteSet(Holding')
  BY <1>1, Constants, FS_Subset
<1>3. \A t \in Sender : t # s => (t \in Holding <=> t \in Holding')
  BY DEF Holding
<1>4. Cardinality(Holding) \in Nat /\ Cardinality(Holding') \in Nat
  BY <1>2, FS_CardinalityType
<1>5. ASSUME s \in Holding <=> s \in Holding' PROVE Holding' = Holding
  BY ONLY <1>1, <1>3, <1>5
<1>6. ASSUME s \in Holding, s \notin Holding'
      PROVE  Cardinality(Holding') = Cardinality(Holding) - 1 /\ Cardinality(Holding) > 0
  <2>1. Holding' = Holding \ {s}
    BY ONLY <1>1, <1>3, <1>6
  <2>2. Cardinality(Holding \ {s}) = Cardinality(Holding) - 1
    BY <1>2, <1>6, FS_RemoveElement
  <2>3. Cardinality(Holding) # 0
    BY <1>2, <1>6, FS_EmptySet
  <2>4. QED BY <1>4, <2>1, <2>2, <2>3
<1>7. ASSUME s \notin Holding, s \in Holding'
      PROVE  Cardinality(Holding') = Cardinality(Holding) + 1
  <2>1. Holding' = Holding \union {s}
    BY ONLY <1>1, <1>3, <1>7
  <2>2. Cardinality(Holding \union {s}) = Cardinality(Holding) + 1
    BY <1>2, <1>7, FS_AddElement
  <2>3. QED BY <2>1, <2>2
<1>8. QED BY <1>4, <1>5, <1>6, <1>7

\* Buffers are taken by those that come to hold one and freed or left behind by those that go.
LEMMA BuffersStep ==
  ASSUME Types, \A s \in Sender : Labels(s), BuffersReturned, [Next]_vars
  PROVE  BuffersReturned' /\ gen_inuse' \in Nat /\ leaked' \in Nat
<1>1. /\ gen_inuse \in Nat /\ leaked \in Nat /\ gen_inuse = leaked + Cardinality(Holding)
  BY DEF Types, BuffersReturned
<1>2. CASE UNCHANGED <<pc, gen_inuse, leaked>>
  <2>1. Holding' = Holding
    BY <1>2 DEF Holding
  <2>2. QED BY <1>1, <1>2, <2>1 DEF BuffersReturned
<1>3. ASSUME NEW s \in Sender, Sending(s)
      PROVE  BuffersReturned' /\ gen_inuse' \in Nat /\ leaked' \in Nat
  <2>1. \A t \in Sender : t # s => pc'[t] = pc[t]
    BY <1>3, SenderFrame
  <2>2. /\ Cardinality(Holding) \in Nat /\ Cardinality(Holding') \in Nat
        /\ (s \in Holding <=> s \in Holding') => Cardinality(Holding') = Cardinality(Holding)
        /\ s \in Holding /\ s \notin Holding' =>
             Cardinality(Holding') = Cardinality(Holding) - 1 /\ Cardinality(Holding) > 0
        /\ s \notin Holding /\ s \in Holding' => Cardinality(Holding') = Cardinality(Holding) + 1
    BY <2>1, Holders
  <2>3. \/ (s \in Holding <=> s \in Holding') /\ gen_inuse' = gen_inuse /\ leaked' = leaked
        \/ s \notin Holding /\ s \in Holding' /\ gen_inuse' = gen_inuse + 1 /\ leaked' = leaked
        \/ s \in Holding /\ s \notin Holding' /\ gen_inuse' = gen_inuse - 1 /\ leaked' = leaked
        \/ s \in Holding /\ s \notin Holding' /\ gen_inuse' = gen_inuse /\ leaked' = leaked + 1
    <3> USE DEF Types, Holding, Goto, Return, Decide, heap
    <3>1. ASSUME NEW o \in Ops, S_Begin(s, o) PROVE <2>3!1
      BY <3>1 DEF S_Begin
    <3>2. CASE S_Test(s) \/ S_First(s) \/ S_Actual(s) \/ S_Mask(s)
      BY <3>2 DEF S_Test, S_First, S_Actual, S_Mask
    <3>3. CASE S_Tool(s) \/ S_Num(s) \/ S_Dci(s) \/ S_Skip(s)
      BY <3>3 DEF S_Tool, S_Num, S_Dci, S_Skip
    <3>4. CASE S_NoMemory(s) \/ S_Drop(s) \/ S_Alloc(s) \/ S_Count(s)
      BY <3>4 DEF S_NoMemory, S_Drop, S_Alloc, S_Count
    <3>5. CASE S_Reset(s) \/ S_Write(s) \/ S_LogCommit(s)
      BY <3>5 DEF S_Reset, S_Write, S_LogCommit
    <3>6. QED BY <1>3, <3>1, <3>2, <3>3, <3>4, <3>5 DEF Sending
  <2>4. QED BY ONLY <1>1, <2>2, <2>3 DEF BuffersReturned
<1>4. ASSUME NEW m \in Mask, NEW im \in Images[m], R_Begin(m, im)
      PROVE  UNCHANGED <<pc, gen_inuse, leaked>>
  BY <1>4 DEF R_Begin, heap
<1>5. CASE R_Copy \/ R_End \/ Close \/ UNCHANGED vars
  BY <1>2, <1>5 DEF R_Copy, R_End, Close, vars, heap
<1>6. QED BY <1>2, <1>3, <1>4, <1>5 DEF Next

\* Every step keeps the types.
LEMMA TypesStep ==
  ASSUME Types, \A m \in Mask : Copied(m), \A s \in Sender : Sound(s), BuffersReturned, [Next]_vars
  PROVE  Types'
<1>1. gen_inuse' \in Nat /\ leaked' \in Nat
  BY BuffersStep DEF Sound
<1>2. /\ RowSize \in Nat /\ DropMax \in Nat /\ "msg" \in Mask /\ None \notin Mask
      /\ \A m \in Mask : Images[m] \subseteq [Cells(m) -> Nat]
      /\ \A m \in Mask : current[m] \subseteq Images[m]
      /\ \A p \in Cells("msg") : Word(p) \in Nat
  <2>1. mem["msg"] \in [Cells("msg") -> Nat]
    BY Constants, MemIs
  <2>2. QED BY <2>1, Constants, MemIs DEF Word
<1>3. ASSUME NEW m \in Mask, NEW im \in Images[m], R_Begin(m, im) PROVE Types'
  <2>1. /\ upd' = m /\ pos' = 0
        /\ current' = [current EXCEPT ![m] = @ \union {im}]
        /\ force' = [s \in Sender |-> IF force[s][m] = {} THEN force[s]
                                ELSE [force[s] EXCEPT ![m] = @ \union {im}]]
        /\ UNCHANGED <<fd, mem, pc, op, lookup, drops, heap>>
    BY <1>3 DEF R_Begin
  <2>2. \A s \in Sender :
          DOMAIN force'[s] = Mask /\ \A k \in Mask : force'[s][k] \subseteq Images[k]
    BY <2>1 DEF Types
  <2>3. QED BY <1>1, <2>1, <2>2 DEF Types, lookup, drops, heap
<1>4. CASE R_Copy
  BY <1>1, <1>4 DEF Types, R_Copy, lookup, drops, heap
<1>5. CASE R_End
  BY <1>1, <1>5 DEF Types, R_End, lookup, drops, heap
<1>6. CASE Close \/ UNCHANGED vars
  BY <1>1, <1>6 DEF Types, Close, vars, driver, lookup, drops, heap
<1>7. ASSUME NEW s \in Sender, Sending(s) PROVE Types'
  <2> USE DEF Goto, Return, Forget, Decide, driver, lookup, drops
  <2>1. ASSUME NEW o \in Ops, S_Begin(s, o) PROVE Types'
    BY <1>1, <1>2, <2>1 DEF Types, S_Begin, InMsg, InLog
  <2>2. CASE S_Test(s)
    BY <1>1, <2>2 DEF Types, S_Test, InMsg, InLog
  <2>3. CASE S_First(s)
    <3>1. PICK r \in 0..NumRows : AtRow(s, r)
      BY <2>3 DEF S_First, Sound, Walk
    <3>2. r \in 0..(NumRows - 1) /\ ptr[s] = r * RowSize
      BY <2>3, <3>1, Constants DEF S_First, AtRow
    <3>3. Word(ptr[s]) \in Nat
      BY <1>2, <3>2, RowWords
    <3>4. QED BY <1>1, <2>3, <3>3 DEF Types, S_First, InMsg, InLog
  <2>4. CASE S_Actual(s)
    <3>1. /\ pc' = [pc EXCEPT ![s] = "mask"] \/ pc' = [pc EXCEPT ![s] = "test"]
          /\ ptr' = ptr \/ ptr' = [ptr EXCEPT ![s] = @ + RowSize]
          /\ UNCHANGED <<fd, driver, op, first, type, force, drops, heap>>
      BY <2>4 DEF S_Actual
    <3>2. ptr' \in [Sender -> Nat]
      BY <1>2, <3>1 DEF Types
    <3>3. QED BY <1>1, <3>1, <3>2 DEF Types, InMsg, InLog
  <2>5. CASE S_Mask(s)
    BY <1>1, <2>5 DEF Types, S_Mask, InMsg, InLog
  <2>6. CASE S_Tool(s)
    BY <1>1, <2>6 DEF Types, S_Tool, InMsg, InLog
  <2>7. CASE S_Num(s)
    BY <1>1, <2>7 DEF Types, S_Num, InMsg, InLog
  <2>8. CASE S_Dci(s)
    BY <1>1, <2>8 DEF Types, S_Dci, InMsg, InLog
  <2>9. CASE S_Skip(s)
    BY <1>1, <2>9 DEF Types, S_Skip, InMsg, InLog, NoForce
  <2>10. CASE S_NoMemory(s)
    <3>1. /\ ptr' = [ptr EXCEPT ![s] = 0] /\ first' = [first EXCEPT ![s] = 0]
          /\ type' = [type EXCEPT ![s] = {}] /\ force' = [force EXCEPT ![s] = NoForce]
          /\ UNCHANGED <<fd, driver, msg_drop_delta, lost, reported>>
      BY <2>10 DEF S_NoMemory
    <3>2. /\ pc' = [pc EXCEPT ![s] = "drop"] \/ pc' = [pc EXCEPT ![s] = "idle"]
          /\ op' = op \/ op' = [op EXCEPT ![s] = NoOp]
          /\ count' = count \/ count' = [count EXCEPT ![s] = msg_drop_delta]
      BY <2>10 DEF S_NoMemory
    <3>3. overlap' \in BOOLEAN
      BY <2>10 DEF S_NoMemory, Types
    <3>4. /\ pc' \in [Sender -> InMsg \union InLog \union {"alloc", "skip", "write", "idle"}]
          /\ op' \in [Sender -> Ops \union {NoOp}] /\ count' \in [Sender -> Nat]
      BY <3>2 DEF Types, InMsg, InLog
    <3>5. QED BY <1>1, <3>1, <3>3, <3>4 DEF Types, NoForce
  <2>11. CASE S_Drop(s)
    BY <1>1, <2>11 DEF Types, S_Drop, InMsg, InLog
  <2>12. CASE S_Alloc(s)
    BY <1>1, <2>12 DEF Types, S_Alloc, InMsg, InLog, NoForce
  <2>13. CASE S_Count(s)
    BY <1>1, <1>2, <2>13 DEF Types, S_Count, InMsg, InLog
  <2>14. CASE S_Reset(s)
    BY <1>1, <2>14 DEF Types, S_Reset, InMsg, InLog
  <2>15. CASE S_Write(s) \/ S_LogCommit(s)
    BY <1>1, <2>15 DEF Types, S_Write, S_LogCommit, InMsg, InLog
  <2>16. QED BY <1>7, <2>1, <2>2, <2>3, <2>4, <2>5, <2>6, <2>7, <2>8, <2>9, <2>10, <2>11,
                <2>12, <2>13, <2>14, <2>15 DEF Sending
<1>8. QED BY <1>3, <1>4, <1>5, <1>6, <1>7 DEF Next

\* The senders that are between reading and writing msg_drop_delta.
LEMMA DropsStep ==
  ASSUME Types, Counting, DropsReported, [Next]_vars
  PROVE  Counting' /\ DropsReported'
<1> DEFINE At(t) == pc[t] \in {"drop", "reset"}
<1>1. CASE UNCHANGED <<pc, drops>>
  BY <1>1 DEF Counting, DropsReported, drops
<1>2. ASSUME NEW m \in Mask, NEW im \in Images[m], R_Begin(m, im) PROVE UNCHANGED <<pc, drops>>
  BY <1>2 DEF R_Begin
<1>3. CASE R_Copy \/ R_End \/ Close \/ UNCHANGED vars
  BY <1>1, <1>3 DEF R_Copy, R_End, Close, vars
<1>4. ASSUME NEW s \in Sender, Sending(s) PROVE Counting' /\ DropsReported'
  <2> SUFFICES ASSUME ~overlap'
               PROVE  Counting' /\ DropsReported'
    BY DEF Counting, DropsReported
  <2>1. \A t \in Sender : t # s => pc'[t] = pc[t] /\ count'[t] = count[t]
    BY <1>4, SenderFrame
  <2>2. /\ msg_drop_delta \in Nat /\ lost \in Nat /\ reported \in Nat /\ DropMax \in Nat
        /\ overlap \in BOOLEAN
    BY Constants DEF Types
  <2>3. CASE /\ UNCHANGED drops
             /\ ~At(s) /\ pc'[s] \notin {"drop", "reset"}
    <3>1. \A t \in Sender : pc'[t] \in {"drop", "reset"} => pc'[t] = pc[t] /\ At(t)
      BY <2>1, <2>3
    <3>2. ~overlap /\ UNCHANGED <<msg_drop_delta, count, overlap, lost, reported>>
      BY <2>3 DEF drops
    <3>3. QED BY <3>1, <3>2 DEF Counting, DropsReported
  <2>4. CASE S_NoMemory(s) /\ op[s].svc = "msg"
    <3>1. /\ pc'[s] = "drop" /\ count'[s] = msg_drop_delta /\ overlap' = (overlap \/ Meets(s))
          /\ UNCHANGED <<msg_drop_delta, lost, reported>>
      BY <2>4 DEF S_NoMemory, Goto, Types
    <3>2. ~overlap /\ ~Meets(s)
      BY <2>2, <3>1
    <3>3. \A t \in Sender : t # s => pc'[t] \notin {"drop", "reset"}
      BY <2>1, <3>2 DEF Meets
    <3>4. Counting'
      BY <3>1, <3>3 DEF Counting
    <3>5. QED BY <3>1, <3>2, <3>4 DEF DropsReported
  <2>5. CASE S_Count(s)
    <3>1. /\ pc'[s] = "reset" /\ overlap' = (overlap \/ Meets(s))
          /\ count'[s] = IF msg_drop_delta > DropMax THEN DropMax ELSE msg_drop_delta
          /\ UNCHANGED <<msg_drop_delta, lost, reported>>
      BY <2>5 DEF S_Count, Goto, Types
    <3>2. ~overlap /\ ~Meets(s)
      BY <2>2, <3>1
    <3>3. \A t \in Sender : t # s => pc'[t] \notin {"drop", "reset"}
      BY <2>1, <3>2 DEF Meets
    <3>4. Counting'
      BY <3>1, <3>3 DEF Counting
    <3>5. QED BY <3>1, <3>2, <3>4 DEF DropsReported
  <2>6. CASE S_Drop(s)
    <3>1. /\ pc[s] = "drop" /\ pc'[s] = "idle" /\ overlap' = overlap
          /\ msg_drop_delta' = count[s] + 1 /\ reported' = reported
          /\ lost' = IF overlap THEN lost ELSE lost + 1
      BY <2>6 DEF S_Drop, Return, Goto, Types
    <3>2. ~overlap /\ count[s] = msg_drop_delta
      BY <3>1 DEF Counting
    <3>3. \A t \in Sender : pc'[t] \notin {"drop", "reset"}
      BY <2>1, <3>1, <3>2 DEF Counting
    <3>4. Counting'
      BY <3>3 DEF Counting
    <3>5. /\ reported + msg_drop_delta <= lost
          /\ lost <= DropMax => reported + msg_drop_delta = lost
      BY <3>2 DEF DropsReported
    <3>6. QED BY <2>2, <3>1, <3>2, <3>4, <3>5 DEF DropsReported
  <2>7. CASE S_Reset(s)
    <3>1. /\ pc[s] = "reset" /\ pc'[s] = "write" /\ overlap' = overlap
          /\ msg_drop_delta' = 0 /\ lost' = lost
          /\ reported' = IF overlap THEN reported ELSE reported + count[s]
      BY <2>7 DEF S_Reset, Goto, Types
    <3>2. ~overlap /\ count[s] = IF msg_drop_delta > DropMax THEN DropMax ELSE msg_drop_delta
      BY <3>1 DEF Counting
    <3>3. \A t \in Sender : pc'[t] \notin {"drop", "reset"}
      BY <2>1, <3>1, <3>2 DEF Counting
    <3>4. Counting'
      BY <3>3 DEF Counting
    <3>5. /\ reported + msg_drop_delta <= lost
          /\ lost <= DropMax => reported + msg_drop_delta = lost
      BY <3>2 DEF DropsReported
    <3>6. QED BY <2>2, <3>1, <3>2, <3>4, <3>5 DEF DropsReported
  <2>8. \/ UNCHANGED drops /\ ~At(s) /\ pc'[s] \notin {"drop", "reset"}
        \/ S_NoMemory(s) /\ op[s].svc = "msg"
        \/ S_Count(s) \/ S_Drop(s) \/ S_Reset(s)
    <3> USE DEF Types, Goto, Return, Decide, drops
    <3>1. ASSUME NEW o \in Ops, S_Begin(s, o) PROVE <2>8!1
      BY <3>1 DEF S_Begin
    <3>2. CASE S_Test(s) \/ S_First(s) \/ S_Actual(s) \/ S_Mask(s)
      BY <3>2 DEF S_Test, S_First, S_Actual, S_Mask
    <3>3. CASE S_Tool(s) \/ S_Num(s) \/ S_Dci(s) \/ S_Skip(s)
      BY <3>3 DEF S_Tool, S_Num, S_Dci, S_Skip
    <3>4. CASE S_NoMemory(s) /\ op[s].svc # "msg"
      BY <3>4 DEF S_NoMemory
    <3>5. CASE S_Alloc(s) \/ S_Write(s) \/ S_LogCommit(s)
      BY <3>5 DEF S_Alloc, S_Write, S_LogCommit
    <3>6. QED BY <1>4, <3>1, <3>2, <3>3, <3>4, <3>5 DEF Sending
  <2>9. QED BY <2>3, <2>4, <2>5, <2>6, <2>7, <2>8
<1>5. QED BY <1>1, <1>2, <1>3, <1>4 DEF Next

-----------------------------------------------------------------------------
(* The invariant and the theorems. *)

\* A step that leaves a sender where it is, and lets only images come into force, keeps what is
\* said of it.
LEMMA SoundStays ==
  ASSUME Types, NEW t \in Sender, Sound(t),
         pc'[t] = pc[t], op'[t] = op[t], ptr'[t] = ptr[t], first'[t] = first[t], type'[t] = type[t],
         \A m \in Mask : force[t][m] \subseteq force'[t][m],
         \A m \in Mask : \A im : force'[t][m] = {im} => force[t][m] = {im},
         \A r \in 0..(NumRows - 1) : Word(r * RowSize + 1) # 0 =>
           Word(r * RowSize)' = Word(r * RowSize) /\ Word(r * RowSize + 1)' = Word(r * RowSize + 1),
         InForce(t)'
  PROVE  Sound(t)'
<1>1. op[t].svc = "msg" \/ dci(op[t].svc) \in Mask
  <2>1. op[t] \in Ops \/ op[t] = NoOp
    BY DEF Types
  <2>2. QED BY <2>1, OpIs DEF NoOp
<1>2. Labels(t) /\ MsgRight(t) /\ LogRight(t) /\ Walk(t)
  BY DEF Sound
<1>3. Labels(t)' /\ MsgRight(t)' /\ LogRight(t)'
  BY <1>1, <1>2, Grows
<1>4. Walk(t)'
  <2>1. \A im : force'[t]["msg"] = {im} => force[t]["msg"] = {im}
    BY Constants
  <2>2. QED BY <1>2, <2>1, WalkStays
<1>5. QED BY <1>3, <1>4 DEF Sound

\* Every step keeps what is said of a sender.
LEMMA SoundStep ==
  ASSUME Types, \A m \in Mask : Copied(m), \A s \in Sender : Sound(s), [Next]_vars,
         NEW t \in Sender
  PROVE  Sound(t)'
<1>1. /\ Sound(t) /\ InForce(t) /\ DOMAIN force[t] = Mask /\ DOMAIN current = Mask
      /\ pc[t] \in Looking => Reads(op[t]) \subseteq Mask
  <2>1. pc[t] \in Looking => op[t] \in Ops
    BY DEF Sound, Labels, Looking
  <2>2. QED BY <2>1, OpIs DEF Sound, Types
<1>2. ASSUME NEW m \in Mask, NEW im \in Images[m], R_Begin(m, im) PROVE Sound(t)'
  <2>1. /\ UNCHANGED <<mem, pc, op, ptr, first, type>>
        /\ current' = [current EXCEPT ![m] = @ \union {im}]
        /\ force'[t] = IF force[t][m] = {} THEN force[t]
                       ELSE [force[t] EXCEPT ![m] = @ \union {im}]
    BY <1>2 DEF R_Begin, lookup
  <2>2. \A k \in Mask :
          force'[t][k] = IF k = m /\ force[t][m] # {} THEN force[t][k] \union {im} ELSE force[t][k]
    BY <1>1, <2>1
  <2>3. \A k \in Mask : force[t][k] \subseteq force'[t][k]
    BY <2>2
  <2>4. ASSUME NEW k \in Mask, NEW x, force'[t][k] = {x} PROVE force[t][k] = {x}
    BY <2>2, <2>4
  <2>5. ASSUME pc'[t] \in Looking, NEW k \in Reads(op'[t]) PROVE current'[k] \subseteq force'[t][k]
    <3>1. k \in Mask /\ current[k] \subseteq force[t][k] /\ current[k] # {}
      BY <1>1, <2>1, <2>5, MemIs DEF InForce
    <3>2. force[t][k] # {} /\ (k # m => current'[k] = current[k])
          /\ (k = m => current'[k] = current[k] \union {im})
      BY <1>1, <2>1, <3>1
    <3>3. QED BY <2>2, <3>1, <3>2
  <2>6. InForce(t)'
    BY <2>5 DEF InForce
  <2>7. \A p : Word(p)' = Word(p)
    BY <2>1 DEF Word
  <2>8. QED BY <1>1, <2>1, <2>3, <2>4, <2>6, <2>7, SoundStays
<1>3. CASE R_Copy
  <2>1. UNCHANGED <<current, pc, op, ptr, first, type, force>>
    BY <1>3 DEF R_Copy, lookup
  <2>2. Copied("msg") /\ pos \in Nat /\ DOMAIN mem = Mask
    BY Constants DEF Types
  <2>3. \A r \in 0..(NumRows - 1) : Word(r * RowSize + 1) # 0 =>
          Word(r * RowSize)' = Word(r * RowSize) /\ Word(r * RowSize + 1)' = Word(r * RowSize + 1)
    BY <1>3, <2>2, CopyKeeps
  <2>4. InForce(t)'
    BY <1>1, <2>1 DEF InForce
  <2>5. QED BY <1>1, <2>1, <2>3, <2>4, SoundStays
<1>4. CASE R_End
  <2>1. /\ UNCHANGED <<mem, pc, op, ptr, first, type, force>> /\ upd \in Mask
        /\ current' = [current EXCEPT ![upd] = {target}]
    BY <1>4 DEF R_End, lookup, Types
  <2>2. target \in current[upd]
    BY <2>1 DEF Copied
  <2>3. \A k \in Mask : current'[k] \subseteq current[k]
    BY <1>1, <2>1, <2>2
  <2>4. InForce(t)'
    BY <1>1, <2>1, <2>3 DEF InForce
  <2>5. \A p : Word(p)' = Word(p)
    BY <2>1 DEF Word
  <2>6. QED BY <1>1, <2>1, <2>4, <2>5, SoundStays
<1>5. CASE Close \/ UNCHANGED vars
  <2>1. UNCHANGED <<mem, current, pc, op, ptr, first, type, force>>
    BY <1>5 DEF Close, vars, driver, lookup
  <2>2. InForce(t)'
    BY <1>1, <2>1 DEF InForce
  <2>3. \A p : Word(p)' = Word(p)
    BY <2>1 DEF Word
  <2>4. QED BY <1>1, <2>1, <2>2, <2>3, SoundStays
<1>6. ASSUME NEW s \in Sender, Sending(s), s # t PROVE Sound(t)'
  <2>1. /\ mem' = mem /\ current' = current
        /\ pc'[t] = pc[t] /\ op'[t] = op[t] /\ ptr'[t] = ptr[t] /\ first'[t] = first[t]
        /\ type'[t] = type[t] /\ force'[t] = force[t]
    BY <1>6, SenderFrame
  <2>2. InForce(t)'
    BY <1>1, <2>1 DEF InForce
  <2>3. \A p : Word(p)' = Word(p)
    BY <2>1 DEF Word
  <2>4. QED BY <1>1, <2>1, <2>2, <2>3, SoundStays
<1>7. ASSUME Sending(t) PROVE Sound(t)'
  BY <1>1, <1>7, SoundBegin, SoundTest, SoundFirst, SoundActual, SoundMask, SoundTool, SoundNum,
     SoundDci, SoundSent DEF Sending
<1>8. QED BY <1>2, <1>3, <1>4, <1>5, <1>6, <1>7 DEF Next

\* The invariant holds in the beginning.
LEMMA InitIInv == Init => IInv
<1> SUFFICES ASSUME Init PROVE IInv
  OBVIOUS
<1>1. "msg" \in Mask /\ None \notin Mask /\ DropMax \in Nat
  BY Constants
<1>2. \A m \in Mask : Zeros(m) \in Images[m]
  BY ServicesAssumption DEF ServicesAssumption, Zeros
<1>3. Types
  BY <1>1 DEF Init, Types, NoForce, NoOp, InMsg, InLog
<1>4. ASSUME NEW m \in Mask PROVE Copied(m)
  BY <1>1, <1>2 DEF Init, Copied
<1>5. ASSUME NEW s \in Sender PROVE Sound(s)
  <2>1. pc[s] = "idle" /\ op[s].svc = "msg" /\ ptr[s] = 0 /\ type[s] = {}
    BY DEF Init, NoOp
  <2>2. Labels(s)
    BY <1>1, <2>1 DEF Labels, InMsg, InLog
  <2>3. InForce(s) /\ Walk(s) /\ MsgRight(s) /\ LogRight(s)
    BY <2>1 DEF InForce, Walk, MsgRight, LogRight, Looking
  <2>4. QED BY <2>2, <2>3 DEF Sound
<1>6. Counting /\ DropsReported
  BY <1>1 DEF Init, Counting, DropsReported
<1>7. BuffersReturned
  <2>1. Holding = {}
    BY DEF Init, Holding
  <2>2. QED BY <2>1, FS_EmptySet DEF Init, BuffersReturned
<1>8. QED BY <1>3, <1>4, <1>5, <1>6, <1>7 DEF IInv

\* Every step keeps it.
LEMMA NextIInv == IInv /\ [Next]_vars => IInv'
<1> SUFFICES ASSUME IInv, [Next]_vars PROVE IInv'
  OBVIOUS
<1>1. /\ Types /\ Counting /\ DropsReported /\ BuffersReturned
      /\ (\A m \in Mask : Copied(m)) /\ \A s \in Sender : Sound(s)
  BY DEF IInv
<1>2. Types'
  BY <1>1, TypesStep
<1>3. \A m \in Mask : Copied(m)'
  BY <1>1, CopiedStep
<1>4. \A s \in Sender : Sound(s)'
  BY <1>1, SoundStep
<1>5. Counting' /\ DropsReported'
  BY <1>1, DropsStep
<1>6. BuffersReturned'
  BY <1>1, BuffersStep DEF Sound
<1>7. QED BY <1>2, <1>3, <1>4, <1>5, <1>6 DEF IInv

\* The inductive invariant of the services: a mask in memory is an image or a copy up to pos,
\* every image it may have parts of is in force for those that look, the walk has passed rows
\* that are in use and not the message's, and one sender at a time counts dropped messages.
THEOREM Invariance == Spec => []IInv
<1>1. QED BY InitIInv, NextIInv, PTL DEF Spec

\* A set of images that has one element.
LEMMA OneImage ==
  ASSUME Types, NEW s \in Sender, NEW m \in Mask, Cardinality(force[s][m]) = 1,
         NEW im \in force[s][m]
  PROVE  Only(s, m, im)
<1>1. IsFiniteSet(force[s][m])
  BY ServicesAssumption, FS_Subset DEF ServicesAssumption, Types
<1>2. PICK x : force[s][m] = {x}
  BY <1>1, FS_Singleton, ZenonT(20)
<1>3. QED BY <1>2 DEF Only

\* The decision of a lookup that races the read thread (msg_get_ssid_rt_mask, log_status_mask,
\* event_alloc) is that of a mask in force meanwhile.
THEOREM LookupsAreRight == Spec => []LookupRight
<1>1. IInv => LookupRight
  <2> SUFFICES ASSUME IInv, NEW s \in Sender
               PROVE  LET m == op[s].svc
                          d == dci(m)
                          one(k) == Cardinality(force[s][k]) = 1
                      IN  IF m = "msg"
                          THEN /\ pc[s] = "alloc" => \E im \in force[s][m] : MsgWanted(s, im)
                               /\ pc[s] = "skip" /\ one(m) =>
                                    \A im \in force[s][m] : ~MsgWanted(s, im)
                          ELSE /\ "tool" \in type[s] => \E im \in force[s][m] : ToolWanted(s, im)
                               /\ "dci" \in type[s] => \E im \in force[s][d] : DciWanted(s, im)
                               /\ pc[s] = "skip" /\ one(m) =>
                                    \A im \in force[s][m] : ~ToolWanted(s, im)
                               /\ pc[s] = "skip" /\ one(d) =>
                                    \A im \in force[s][d] : ~DciWanted(s, im)
    BY DEF LookupRight
  <2> DEFINE m == op[s].svc
             d == dci(m)
  <2>1. Types /\ MsgRight(s) /\ LogRight(s) /\ (op[s] \in Ops \/ op[s] = NoOp)
    BY DEF IInv, Sound, Types
  <2>2. m \in Mask /\ (m # "msg" => d \in Mask)
    BY <2>1, OpIs, Constants DEF NoOp
  <2>3. \A im \in force[s][m] : Cardinality(force[s][m]) = 1 => Only(s, m, im)
    BY <2>1, <2>2, OneImage
  <2>4. m # "msg" => \A im \in force[s][d] : Cardinality(force[s][d]) = 1 => Only(s, d, im)
    BY <2>1, <2>2, OneImage
  <2>5. CASE m = "msg"
    BY <2>1, <2>3, <2>5 DEF MsgRight
  <2>6. CASE m # "msg"
    BY <2>1, <2>3, <2>4, <2>6 DEF LogRight
  <2>7. QED BY <2>5, <2>6
<1>2. QED BY <1>1, Invariance, PTL

\* The walk over the rows of read_mask passes its end only when all rows are in use.
THEOREM WalkEndsInMask == Spec => []PastOnlyWhenFull
<1>1. IInv => PastOnlyWhenFull
  <2> SUFFICES ASSUME IInv, NEW s \in Sender, pc[s] = "past"
               PROVE  \E im \in force[s]["msg"] : InUse(im, NumRows - 1)
    BY DEF PastOnlyWhenFull
  <2>1. Labels(s) /\ MsgRight(s)
    BY DEF IInv, Sound
  <2>2. QED BY <2>1 DEF Labels, MsgRight, InMsg
<1>2. QED BY <1>1, Invariance, PTL

\* Dropped messages are reported once, for any number of senders (msg_drop_delta).
THEOREM DropsAreReported == Spec => []DropsReported
<1>1. IInv => DropsReported
  BY DEF IInv
<1>2. QED BY <1>1, Invariance, PTL

\* Every buffer of the pool is given back, but for those log_commit leaves behind.
THEOREM BuffersAreReturned == Spec => []BuffersReturned
<1>1. IInv => BuffersReturned
  BY DEF IInv
<1>2. QED BY <1>1, Invariance, PTL
==============================================================================
