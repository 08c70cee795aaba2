-------------------------- MODULE PktDispatchProof --------------------------
(***************************************************************************)
(* The dispatch of packets for every set of command tables, every number of *)
(* requests, workers and failures: IInv of PktDispatch.tla is inductive, and *)
(* SearchFinds, DelayedMatches, LostOnlyWhenRaced, EntryEnds and             *)
(* BuffersAccounted follow.                                                  *)
(* One lemma per conjunct of IInv, one step per action that disturbs it.     *)
(***************************************************************************)
EXTENDS PktDispatch, FiniteSetTheorems, TLAPS

\* The constants, in the form the provers use.
LEMMA Constants ==
  /\ TblSize \in Nat /\ TblSize >= 1 /\ MaxReq \in Nat /\ MaxRsp \in Nat
  /\ Len(Desc) \in Nat /\ Len(Desc) >= 1
  /\ Raw \in Nat /\ Raw # 0 /\ Raw \notin Table
  /\ 0 \notin Table /\ Table \subseteq 0..Raw /\ Table \subseteq 0..Len(Desc)
BY PktAssumption DEF PktAssumption, Table, Raw

\* The initial state satisfies the invariant.
LEMMA InitInv == Init => IInv
<1> SUFFICES ASSUME Init PROVE IInv
  OBVIOUS
<1> USE Constants DEF Init, Request, Empty
<1>1. TypeReader
  BY DEF TypeReader
<1>2. TypeList /\ TypeWorkers
  BY DEF TypeList, TypeWorkers, WorkerPc
<1>3. Slots /\ Search
  BY DEF Slots, Search
<1>4. Current /\ Entries
  BY DEF Current, Entries, Untouched
<1>5. List
  BY DEF List, Head0, Follows
<1>6. Holders /\ Walks
  BY DEF Holders, Walks
<1>7. QED BY <1>1, <1>2, <1>3, <1>4, <1>5, <1>6 DEF IInv, TypeOK

\* The numbers of the requests, and 0 for the head of the list.
LEMMA Numbers ==
  /\ 0 \in 0..MaxReq /\ 0 \notin Request /\ Request \subseteq 0..MaxReq
  /\ 0..MaxReq \subseteq Nat
<1>1. MaxReq \in Nat
  BY Constants
<1>2. QED BY ONLY <1>1 DEF Request

\* The list's entries and its head are numbers of requests and 0.
LEMMA HeadRange == TypeList => Head0 \subseteq 0..MaxReq /\ 0 \notin freed
BY ONLY Numbers DEF TypeList, Head0

\* A function keeps its range when one value is replaced by another of the range.
LEMMA ExceptRange ==
  ASSUME NEW S, NEW T, NEW f \in [S -> T], NEW x, NEW y \in T
  PROVE  [f EXCEPT ![x] = y] \in [S -> T]
OBVIOUS

\* A worker changes neither the tables nor what the read thread works on.
LEMMA WorkerFrame ==
  ASSUME NEW n \in Request, Worker(n)
  PROVE  UNCHANGED <<registry, reader>>
BY DEF Worker, W_NoBuffer, W_Alloc, W_Walk, W_Lost, W_Plain, W_NoTemp, W_Temp,
       W_Tag, W_Unlink, W_Free

\* The application changes its own variables only.
LEMMA ApplicationFrame ==
  ASSUME Application
  PROVE  UNCHANGED <<reader, list, pcW, at, left, history>>
BY DEF Application, M_Slot, M_NoMemory, M_Fill, M_NoSlot, M_Ioctl

\* The read thread touches neither the tables nor a walk.
LEMMA ReaderFrame ==
  ASSUME Reader
  PROVE  UNCHANGED <<registry, freed, at, history>>
BY DEF Reader, R_Take, R_Next, R_NotFound, R_NoResponse, R_Error, R_Handler, R_Commit,
       R_NoTemp, R_Write, Add, list

\* The ranges of the tables and of the read thread's variables.
LEMMA TypeReaderStep == IInv /\ [Next]_vars => TypeReader'
<1> SUFFICES ASSUME IInv, [Next]_vars PROVE TypeReader'
  OBVIOUS
<1> USE Constants DEF IInv, TypeOK, TypeReader
<1>1. CASE Application
  <2> USE ApplicationFrame, <1>1 DEF reader
  <2>1. CASE M_Slot
    BY <2>1 DEF M_Slot, Table
  <2>2. CASE M_NoMemory
    BY <2>2 DEF M_NoMemory, Table
  <2>3. CASE M_Fill
    BY <2>3 DEF M_Fill
  <2>4. CASE M_NoSlot
    BY <2>4 DEF M_NoSlot, Table
  <2>5. CASE M_Ioctl
    BY <2>5 DEF M_Ioctl
  <2>6. QED BY <1>1, <2>1, <2>2, <2>3, <2>4, <2>5 DEF Application
<1>2. CASE Reader
  <2> USE ReaderFrame, <1>2 DEF registry
  <2>1. ASSUME NEW t \in Table, NEW c \in Codes, NEW type \in {"PKT", "DCI"},
               R_Take(t, c, type)
        PROVE  TypeReader'
    BY SMTT(30), <2>1 DEF R_Take, Request
  <2>2. CASE R_Next
    BY <2>2 DEF R_Next
  <2>3. CASE R_NotFound \/ R_NoResponse \/ R_Error \/ R_Commit \/ R_NoTemp \/ R_Write
    BY <2>3 DEF R_NotFound, R_NoResponse, R_Error, R_Commit, R_NoTemp, R_Write
  <2>4. ASSUME NEW k \in 1..MaxRsp, R_Handler(k) PROVE TypeReader'
    BY SMTT(30), <2>4 DEF R_Handler
  <2>5. QED BY <1>2, <2>1, <2>2, <2>3, <2>4 DEF Reader
<1>3. ASSUME NEW n \in Request, Worker(n) PROVE TypeReader'
  BY <1>3, WorkerFrame DEF registry, reader
<1>4. CASE UNCHANGED vars
  BY <1>4 DEF vars, registry, reader
<1>5. QED BY <1>1, <1>2, <1>3, <1>4 DEF Next

\* The ranges of the list's variables.
LEMMA TypeListStep == IInv /\ [Next]_vars => TypeList'
<1> SUFFICES ASSUME IInv, [Next]_vars PROVE TypeList'
  OBVIOUS
<1> USE Constants DEF IInv, TypeOK, TypeList
<1>1. CASE Application
  BY <1>1, ApplicationFrame DEF list
<1>2. CASE Reader
  <2>1. CASE R_Commit
    <3>1. taken \in Request /\ taken \in 0..MaxReq /\ rsp_id \in 0..MaxReq
          /\ dci_tag \in 0..MaxReq
      BY <2>1 DEF R_Commit, TypeReader, Request
    <3>2. CASE Add(taken)
      <4>1. next' \in [0..MaxReq -> 0..MaxReq]
        <5> DEFINE last == CHOOSE p \in {0} \union linked : next[p] = 0
        <5>1. next' = [next EXCEPT ![last] = taken, ![taken] = 0]
          BY <3>2 DEF Add
        <5> HIDE DEF last
        <5>2. next' = [[next EXCEPT ![last] = taken] EXCEPT ![taken] = 0]
          BY <5>1
        <5> DEFINE appended == [next EXCEPT ![last] = taken]
        <5>3. appended \in [0..MaxReq -> 0..MaxReq]
          BY <3>1, ExceptRange
        <5> HIDE DEF appended
        <5>4. [appended EXCEPT ![taken] = 0] \in [0..MaxReq -> 0..MaxReq]
          <6>1. 0 \in 0..MaxReq
            OBVIOUS
          <6>2. QED BY ONLY <5>3, <6>1, ExceptRange
        <5>5. QED BY <5>2, <5>4 DEF appended
      <4>2. entry' \in [Request -> [id : 0..MaxReq, tag : 0..MaxReq]]
        BY <3>1, <3>2 DEF Add
      <4>3. linked' \subseteq Request /\ freed' \subseteq Request
        BY <3>1, <3>2 DEF Add
      <4>4. QED BY <4>1, <4>2, <4>3
    <3>3. CASE UNCHANGED list
      BY <3>3 DEF list
    <3>4. QED BY <2>1, <3>2, <3>3 DEF R_Commit, list
  <2>2. CASE UNCHANGED list
    BY <2>2 DEF list
  <2>3. QED BY <1>2, <2>1, <2>2 DEF Reader, R_Take, R_Next, R_NotFound,
          R_NoResponse, R_Error, R_Handler, R_NoTemp, R_Write
<1>3. ASSUME NEW n \in Request, Worker(n) PROVE TypeList'
  <2>1. CASE W_Unlink(n)
    <3>1. next[at[n]] \in 0..MaxReq
      BY DEF TypeWorkers
    <3>2. QED BY <2>1, <3>1 DEF W_Unlink
  <2>2. CASE W_Free(n)
    BY <2>2 DEF W_Free, Holders
  <2>3. CASE UNCHANGED list
    BY <2>3 DEF list
  <2>4. QED BY <1>3, <2>1, <2>2, <2>3 DEF Worker, W_NoBuffer, W_Alloc, W_Walk,
          W_Lost, W_Plain, W_NoTemp, W_Temp, W_Tag
<1>4. CASE UNCHANGED vars
  BY <1>4 DEF vars, list
<1>5. QED BY <1>1, <1>2, <1>3, <1>4 DEF Next

\* The ranges of the workers' variables; a worker at work has a response to send.
LEMMA TypeWorkersStep == IInv /\ [Next]_vars => TypeWorkers'
<1> SUFFICES ASSUME IInv, [Next]_vars PROVE TypeWorkers'
  OBVIOUS
<1> USE Constants DEF IInv, TypeOK, TypeWorkers, WorkerPc
<1>1. CASE Application
  BY <1>1, ApplicationFrame
<1>2. CASE Reader
  <2>1. ASSUME NEW k \in 1..MaxRsp, R_Handler(k) PROVE TypeWorkers'
    <3>1. taken \in Request
      BY <2>1 DEF R_Handler, TypeReader, Request
    <3>2. pcW' \in [Request -> WorkerPc] /\ at' = at
      BY <2>1, <3>1 DEF R_Handler
    <3>3. left' \in [Request -> 0..MaxRsp]
      BY <2>1, <3>1 DEF R_Handler
    <3>4. ASSUME NEW m \in Request, pcW'[m] \notin {"none", "done"}
          PROVE  left'[m] # 0
      BY <2>1, <3>1, <3>4 DEF R_Handler
    <3>5. QED BY <3>2, <3>3, <3>4
  <2>2. CASE UNCHANGED <<pcW, at, left>>
    BY <2>2
  <2>3. QED BY <1>2, <2>1, <2>2 DEF Reader, R_Take, R_Next, R_NotFound,
          R_NoResponse, R_Error, R_Commit, R_NoTemp, R_Write
<1>3. ASSUME NEW n \in Request, Worker(n) PROVE TypeWorkers'
  <2> DEFINE Answered ==
               /\ Goto(n, IF left[n] = 1 THEN "done" ELSE "alloc")
               /\ left' = [left EXCEPT ![n] = left[n] - 1]
               /\ at' \in [Request -> 0..MaxReq]
  <2>1. ASSUME pcW[n] \notin {"none", "done"}, Answered PROVE TypeWorkers'
    <3>1. left[n] \in 1..MaxRsp /\ left[n] - 1 \in 0..MaxRsp
      BY <2>1
    <3>2. left' \in [Request -> 0..MaxRsp]
      BY <2>1, <3>1
    <3>3. pcW' \in [Request -> WorkerPc]
      BY <2>1 DEF Goto
    <3>4. ASSUME NEW m \in Request, pcW'[m] \notin {"none", "done"}
          PROVE  left'[m] # 0
      BY <2>1, <3>1, <3>4 DEF Goto
    <3>5. QED BY <2>1, <3>2, <3>3, <3>4
  <2>2. CASE W_NoBuffer(n)
    BY <2>1, <2>2 DEF W_NoBuffer
  <2>3. CASE W_Alloc(n) \/ W_Walk(n)
    <3>1. next[0] \in 0..MaxReq /\ next[at[n]] \in 0..MaxReq
      BY DEF TypeList
    <3>2. at' \in [Request -> 0..MaxReq]
      BY <2>3, <3>1, ExceptRange DEF W_Alloc, W_Walk
    <3>3. pcW' \in [Request -> WorkerPc] /\ left' = left
      BY <2>3 DEF W_Alloc, W_Walk, Goto
    <3>4. ASSUME NEW m \in Request, pcW'[m] \notin {"none", "done"}
          PROVE  left[m] # 0
      BY <2>3, <3>4 DEF W_Alloc, W_Walk, Goto
    <3>5. QED BY <3>2, <3>3, <3>4
  <2>4. CASE W_Lost(n) \/ W_Temp(n) \/ W_Unlink(n)
    BY <2>4 DEF W_Lost, W_Temp, W_Unlink, Goto
  <2>5. CASE W_Plain(n) \/ W_NoTemp(n) \/ W_Free(n)
    <3>1. Done(n) /\ pcW[n] \in {"walk", "free"}
      BY <2>5 DEF W_Plain, W_NoTemp, W_Free
    <3>2. at' \in [Request -> 0..MaxReq]
      BY <3>1 DEF Done
    <3>3. QED BY <2>1, <3>1, <3>2 DEF Done
  <2>6. CASE W_Tag(n)
    <3>1. CASE left[n] = 1
      BY <2>6, <3>1 DEF W_Tag, Goto
    <3>2. CASE left[n] # 1
      <4>1. Done(n) /\ pcW[n] = "tag"
        BY <2>6, <3>2 DEF W_Tag
      <4>2. at' \in [Request -> 0..MaxReq]
        BY <4>1 DEF Done
      <4>3. QED BY <2>1, <4>1, <4>2 DEF Done
    <3>3. QED BY <3>1, <3>2
  <2>7. QED BY <1>3, <2>2, <2>3, <2>4, <2>5, <2>6 DEF Worker
<1>4. CASE UNCHANGED vars
  BY <1>4 DEF vars
<1>5. QED BY <1>1, <1>2, <1>3, <1>4 DEF Next

\* What is in a slot is one of the tables, unless the slot is empty or being filled.
LEMMA SlotRange ==
  ASSUME TypeReader, Slots, NEW k \in 1..TblSize, slot[k] # Empty,
         slot[k] # Raw \/ pcM # "fill"
  PROVE  slot[k] \in Table
BY Constants DEF TypeReader, Slots, Empty, Raw, Table

\* Registering a table takes none out of its slot.
LEMMA PlacedStays ==
  ASSUME TypeReader, Slots, Application, NEW t \in Table,
         NEW from \in 1..(TblSize + 1), Placed(t, from)
  PROVE  t \in unplaced' \/ \E k \in from..TblSize : slot'[k] = t
<1> USE Constants DEF Placed, TypeReader
<1>1. CASE t \in unplaced
  BY <1>1 DEF Application, M_Slot, M_NoMemory, M_Fill, M_NoSlot, M_Ioctl
<1>2. ASSUME NEW k \in from..TblSize, slot[k] = t
      PROVE  slot'[k] = t
  BY <1>2 DEF Application, M_Slot, M_NoMemory, M_Fill, M_NoSlot, M_Ioctl, Empty
<1>3. QED BY <1>1, <1>2

\* Slots are filled in order, and every routed table keeps its place.
LEMMA SlotsStep == IInv /\ [Next]_vars => Slots'
<1> SUFFICES ASSUME IInv, [Next]_vars PROVE Slots'
  OBVIOUS
<1> USE Constants DEF IInv, TypeOK
<1>1. CASE Application
  <2>1. ASSUME NEW t \in Table, Placed(t, 1) PROVE Placed(t, 1)'
    BY <1>1, <2>1, PlacedStays DEF Placed
  <2>2. routed \subseteq Table
    BY DEF TypeReader
  <2>3. CASE M_Slot
    <3>1. PICK e \in 1..TblSize :
            /\ slot[e] = Empty /\ \A j \in 1..(e - 1) : slot[j] # Empty
            /\ slot' = [slot EXCEPT ![e] = Raw]
      BY <2>3 DEF M_Slot
    <3>2. pcM = "idle" /\ pcM' = "fill" /\ UNCHANGED <<routed, unplaced>>
      BY <2>3 DEF M_Slot
    <3>3. \A k \in 1..TblSize : slot'[k] = IF k = e THEN Raw ELSE slot[k]
      BY <3>1 DEF TypeReader
    <3>4. ASSUME NEW j \in 1..TblSize, NEW k \in 1..TblSize, j < k, slot'[k] # Empty
          PROVE  slot'[j] \in Table
      <4>1. CASE k = e
        BY <3>1, <3>2, <3>3, <3>4, <4>1, SlotRange
      <4>2. CASE k # e
        BY <3>1, <3>3, <3>4, <4>2 DEF Slots, Empty
      <4>3. QED BY <4>1, <4>2
    <3>5. unplaced' = {}
      BY <3>1, <3>2 DEF Slots, Empty
    <3>6. QED BY <2>1, <2>2, <3>1, <3>2, <3>3, <3>4, <3>5 DEF Slots
  <2>4. CASE M_NoMemory
    BY <2>4 DEF M_NoMemory, Slots, Placed
  <2>5. CASE M_Fill
    <3>1. /\ pcM = "fill" /\ pcM' = "ioctl" /\ UNCHANGED <<routed, unplaced, tbl>>
          /\ \A k \in 1..TblSize : slot'[k] = IF slot[k] = Raw THEN tbl ELSE slot[k]
      BY <2>5 DEF M_Fill
    <3>2. tbl \in Table
      BY <3>1 DEF TypeReader
    <3>3. Placed(tbl, 1)'
      BY <3>1 DEF Slots, Placed
    <3>4. \A t \in routed' : Placed(t, 1)'
      BY <2>1, <2>2, <3>1 DEF Slots
    <3>5. QED BY <3>1, <3>2, <3>3, <3>4 DEF Slots, Empty
  <2>6. CASE M_NoSlot
    <3>1. /\ pcM = "idle" /\ pcM' = "ioctl" /\ slot' = slot /\ routed' = routed
          /\ tbl' \in unplaced'
      BY <2>6 DEF M_NoSlot
    <3>2. \A k \in 1..TblSize : slot[k] \in Table
      BY <2>6, <3>1, SlotRange DEF M_NoSlot
    <3>3. \A t \in routed' : Placed(t, 1)'
      BY <2>1, <2>2, <3>1 DEF Slots
    <3>4. QED BY <3>1, <3>2, <3>3 DEF Slots, Placed
  <2>7. CASE M_Ioctl
    BY <2>7 DEF M_Ioctl, Slots, Placed
  <2>8. QED BY <1>1, <2>3, <2>4, <2>5, <2>6, <2>7 DEF Application
<1>2. CASE Reader
  BY <1>2, ReaderFrame DEF registry, Slots, Placed
<1>3. ASSUME NEW n \in Request, Worker(n) PROVE Slots'
  BY <1>3, WorkerFrame DEF registry, Slots, Placed
<1>4. CASE UNCHANGED vars
  BY <1>4 DEF vars, registry, Slots, Placed
<1>5. QED BY <1>1, <1>2, <1>3, <1>4 DEF Next

\* The table that the current request was routed by lies ahead of the search.
LEMMA SearchStep == IInv /\ [Next]_vars => Search'
<1> SUFFICES ASSUME IInv, [Next]_vars, pcR' = "search"
             PROVE  \E t \in routed' : Serves(t)' /\ Placed(t, i)'
  BY DEF Search
<1> USE Constants DEF IInv, TypeOK
<1>1. CASE Application
  <2>1. PICK t \in routed : Serves(t) /\ Placed(t, i)
    BY <1>1, ApplicationFrame DEF Search, reader
  <2>2. Placed(t, i)'
    <3>1. t \in Table /\ i \in 1..(TblSize + 1) /\ i' = i
      BY <1>1, ApplicationFrame DEF TypeReader, reader
    <3>2. t \in unplaced' \/ \E k \in i..TblSize : slot'[k] = t
      BY <1>1, <2>1, <3>1, PlacedStays
    <3>3. QED BY <3>1, <3>2 DEF Placed
  <2>3. routed \subseteq routed' /\ Serves(t)'
    BY <1>1, <2>1, ApplicationFrame DEF reader, Serves, Application, M_Slot,
       M_NoMemory, M_Fill, M_NoSlot, M_Ioctl
  <2>4. QED BY <2>1, <2>2, <2>3
<1>2. CASE Reader
  <2> USE ReaderFrame, <1>2 DEF registry
  <2>1. ASSUME NEW t \in Table, NEW c \in Codes, NEW type \in {"PKT", "DCI"},
               R_Take(t, c, type)
        PROVE  \E u \in routed' : Serves(u)' /\ Placed(u, i)'
    BY <2>1 DEF R_Take, Slots, Placed, Serves
  <2>2. CASE R_Next
    <3>1. PICK t \in routed : Serves(t) /\ Placed(t, i)
      BY <2>2 DEF R_Next, Search
    <3>2. Placed(t, i)' /\ Serves(t)'
      BY <2>2, <3>1 DEF R_Next, Placed, Serves, TypeReader
    <3>3. QED BY <3>1, <3>2
  <2>3. QED BY <1>2, <2>1, <2>2 DEF Reader, R_NotFound, R_NoResponse, R_Error, R_Handler,
          R_Commit, R_NoTemp, R_Write
<1>3. ASSUME NEW n \in Request, Worker(n)
      PROVE  \E t \in routed' : Serves(t)' /\ Placed(t, i)'
  BY <1>3, WorkerFrame DEF registry, reader, Search, Placed, Serves
<1>4. CASE UNCHANGED vars
  BY <1>4 DEF vars, registry, reader, Search, Placed, Serves
<1>5. QED BY <1>1, <1>2, <1>3, <1>4 DEF Next

\* A step of worker n leaves the other workers where they are, and only a worker
\* that was started makes one.
LEMMA WorkerLocal ==
  ASSUME TypeWorkers, NEW n \in Request, Worker(n)
  PROVE  /\ pcW[n] \notin {"none", "done", "lost"} /\ pcW'[n] # "none"
         /\ pcW' \in [Request -> {"none"} \union WorkerPc]
         /\ \A m \in Request : m # n => pcW'[m] = pcW[m] /\ at'[m] = at[m]
BY DEF TypeWorkers, WorkerPc, Worker, W_NoBuffer, W_Alloc, W_Walk, W_Lost, W_Plain,
       W_NoTemp, W_Temp, W_Tag, W_Unlink, W_Free, Done, Goto

\* The statics a commit reads are those of the current request.
LEMMA CurrentStep == IInv /\ [Next]_vars => Current'
<1> SUFFICES ASSUME IInv, [Next]_vars PROVE Current'
  OBVIOUS
<1> USE Constants DEF IInv, TypeOK
<1>1. CASE Application
  BY <1>1, ApplicationFrame DEF reader, Current
<1>2. CASE Reader
  <2>1. ASSUME NEW t \in Table, NEW c \in Codes, NEW type \in {"PKT", "DCI"},
               R_Take(t, c, type)
        PROVE  Current'
    <3>1. taken + 1 \in Request /\ taken' = taken + 1 /\ pcR' = "search"
      BY <2>1 DEF R_Take, TypeReader, Request
    <3>2. source'[taken'] = type /\ pkt_type' = type
          /\ (type = "DCI" => dci_tag' = taken')
      BY <2>1, <3>1 DEF R_Take, TypeReader
    <3>3. QED BY <3>1, <3>2 DEF Current
  <2>2. ASSUME NEW k \in 1..MaxRsp, R_Handler(k) PROVE Current'
    <3>1. taken \in Request /\ pcW[taken] = "none"
      BY <2>2 DEF R_Handler, TypeReader, Entries, Request
    <3>2. UNCHANGED <<taken, source, pkt_type, dci_tag>> /\ pcR = "search"
      BY <2>2 DEF R_Handler
    <3>3. rsp_id' = taken \/ (rsp_id' = 0 /\ pcW' = pcW)
      BY <2>2 DEF R_Handler
    <3>4. QED BY <3>1, <3>2, <3>3 DEF Current
  <2>3. CASE R_Next
    BY <2>3 DEF R_Next, Current
  <2>4. CASE R_NotFound \/ R_NoResponse \/ R_Error \/ R_Commit \/ R_NoTemp \/ R_Write
    BY <2>4 DEF R_NotFound, R_NoResponse, R_Error, R_Commit, R_NoTemp, R_Write, Current
  <2>5. QED BY <1>2, <2>1, <2>2, <2>3, <2>4 DEF Reader
<1>3. ASSUME NEW n \in Request, Worker(n) PROVE Current'
  <2>1. UNCHANGED <<pcR, taken, source, pkt_type, dci_tag, rsp_id>>
    BY <1>3, WorkerFrame DEF reader
  <2>2. ASSUME pcR = "commit" PROVE pcW'[taken] # "none" => pcW[taken] # "none"
    <3>1. taken \in Request
      BY <2>2 DEF TypeReader, Request
    <3>2. QED BY <1>3, <3>1, WorkerLocal
  <2>3. QED BY <2>1, <2>2 DEF Current
<1>4. CASE UNCHANGED vars
  BY <1>4 DEF vars, reader, Current
<1>5. QED BY <1>1, <1>2, <1>3, <1>4 DEF Next

\* What committing adds: the entry of the current request, after all the others.
LEMMA Appended ==
  ASSUME TypeList, List, Entries, NEW n \in Request, n = taken, pcR = "commit", Add(n)
  PROVE  /\ Untouched(n) /\ \A m \in linked : m < n
         /\ \E last \in Head0 :
              /\ next[last] = 0 /\ last # n /\ \A m \in linked : m <= last
              /\ next' \in [0..MaxReq -> 0..MaxReq]
              /\ \A p \in 0..MaxReq :
                   next'[p] = IF p = n THEN 0 ELSE IF p = last THEN n ELSE next[p]
<1> USE Constants DEF TypeList, Request
<1>1. Untouched(n) /\ \A m \in linked : m < n
  BY DEF Entries, Untouched
<1> DEFINE last == CHOOSE p \in {0} \union linked : next[p] = 0
<1>2. last \in Head0 /\ next[last] = 0
  BY DEF List, Head0
<1>3. next' = [next EXCEPT ![last] = n, ![n] = 0]
  BY DEF Add
<1> HIDE DEF last
<1>4. last # n /\ \A m \in linked : m <= last
  <2>1. Follows(last, 0)
    BY <1>2 DEF List
  <2>2. 0 \notin linked /\ last \in {0} \union linked /\ n \notin linked
    BY <1>1, <1>2 DEF Head0, Untouched
  <2>3. QED BY <2>1, <2>2 DEF Follows
<1> DEFINE appended == [next EXCEPT ![last] = n]
<1>5. appended \in [0..MaxReq -> 0..MaxReq]
  <2>1. n \in 0..MaxReq
    BY ONLY Constants, n \in Request DEF Request
  <2>2. next \in [0..MaxReq -> 0..MaxReq]
    BY ONLY TypeList DEF TypeList
  <2>3. QED BY ONLY <2>1, <2>2, ExceptRange
<1>6. \A p \in 0..MaxReq : appended[p] = IF p = last THEN n ELSE next[p]
  OBVIOUS
<1>7. next' = [appended EXCEPT ![n] = 0]
  BY <1>3
<1> HIDE DEF appended
<1>8. next' \in [0..MaxReq -> 0..MaxReq]
  <2>1. 0 \in 0..MaxReq
    OBVIOUS
  <2>2. QED BY ONLY <1>5, <1>7, <2>1, ExceptRange
<1>9. \A p \in 0..MaxReq :
        next'[p] = IF p = n THEN 0 ELSE IF p = last THEN n ELSE next[p]
  BY <1>5, <1>6, <1>7
<1>10. QED BY <1>1, <1>2, <1>4, <1>8, <1>9

\* What unlinking does: the entry before the worker's own points past it.
LEMMA Unlinked ==
  ASSUME TypeList, List, Entries, Holders, NEW n \in Request, W_Unlink(n)
  PROVE  /\ n \in linked /\ entry[n].id = n /\ linked' = linked \ {n}
         /\ \E prev \in Head0 :
              /\ next[prev] = n /\ prev < n
              /\ \A p \in 0..MaxReq :
                   next'[p] = IF p = prev THEN next[n] ELSE next[p]
<1> USE Constants DEF TypeList, Request
<1>1. at[n] = n /\ n \in linked /\ entry[n].id = n
  BY DEF Holders, W_Unlink
<1> DEFINE prev == CHOOSE p \in {0} \union linked : next[p] = n
<1>2. prev \in Head0 /\ next[prev] = n
  BY <1>1 DEF List, Head0
<1>3. next' = [next EXCEPT ![prev] = next[n]] /\ linked' = linked \ {n}
  BY <1>1 DEF W_Unlink
<1> HIDE DEF prev
<1>4. prev < n
  <2>1. Follows(prev, n)
    BY <1>2 DEF List
  <2>2. QED BY <2>1 DEF Follows
<1>5. QED BY <1>1, <1>2, <1>3, <1>4

\* The entries are made once, unlinked once and freed once, and belong to requests
\* from a DCI client.
LEMMA EntriesStep == IInv /\ [Next]_vars => Entries'
<1> SUFFICES ASSUME IInv, [Next]_vars PROVE Entries'
  OBVIOUS
<1> USE Constants DEF IInv, TypeOK
<1>1. CASE Application
  BY <1>1, ApplicationFrame DEF reader, list, Entries, Untouched
<1>2. CASE Reader
  <2> USE ReaderFrame, <1>2
  <2>1. ASSUME NEW t \in Table, NEW c \in Codes, NEW type \in {"PKT", "DCI"},
               R_Take(t, c, type)
        PROVE  Entries'
    <3>1. taken + 1 \in Request /\ taken' = taken + 1 /\ pcR' = "search"
          /\ UNCHANGED <<linked, freed, entry, pcW>>
      BY <2>1 DEF R_Take, TypeReader, Request, list
    <3>2. \A n \in Request : n # taken + 1 => source'[n] = source[n]
      BY <2>1 DEF R_Take, TypeReader
    <3>3. ASSUME NEW n \in Request, n > taken' \/ n = taken'
          PROVE  n > taken /\ Untouched(n) /\ pcW[n] = "none"
      <4>1. n > taken
        BY <3>1, <3>3 DEF TypeReader, Request
      <4>2. QED BY <4>1 DEF Entries
    <3>4. QED BY <3>1, <3>2, <3>3 DEF Entries, Untouched
  <2>2. ASSUME NEW k \in 1..MaxRsp, R_Handler(k) PROVE Entries'
    <3>1. /\ pcR = "search" /\ pcR' = "commit" /\ taken \in Request
          /\ UNCHANGED <<taken, source, linked, freed, entry>>
      BY <2>2 DEF R_Handler, TypeReader, Request, list
    <3>2. \A n \in Request : n # taken => pcW'[n] = pcW[n]
      BY <2>2 DEF R_Handler, TypeWorkers
    <3>3. pcW[taken] = "none" /\ Untouched(taken)
      BY <3>1 DEF Entries
    <3>4. ASSUME NEW n \in Request, n > taken' \/ (n = taken' /\ pcR' = "search")
          PROVE  n > taken /\ n # taken
      BY <3>1, <3>4 DEF Request
    <3>5. \A n \in Request : pcW[n] = "free" => n # taken
      BY <3>3
    <3>6. \A n \in Request : n \in linked => n # taken
      BY <3>3 DEF Untouched
    <3>7. QED BY <3>1, <3>2, <3>3, <3>4, <3>5, <3>6 DEF Entries, Untouched
  <2>3. CASE R_Commit /\ pkt_type = "DCI" /\ Add(taken)
    <3>1. /\ pcR = "commit" /\ pcR' = "temp" /\ taken \in Request
          /\ pkt_type = "DCI" /\ UNCHANGED <<taken, source, pcW>>
      BY <2>3, ReaderFrame DEF R_Commit, TypeReader, Request, Add
    <3>2. rsp_id \in {0, taken} /\ dci_tag = taken /\ source[taken] = "DCI"
          /\ (pcW[taken] # "none" => rsp_id = taken)
      BY <3>1 DEF Current
    <3>3. linked' = linked \union {taken} /\ freed' = freed
          /\ entry' = [entry EXCEPT ![taken] = [id |-> rsp_id, tag |-> dci_tag]]
      BY <2>3 DEF Add
    <3>4. Untouched(taken)
      BY <3>1 DEF Entries
    <3>5. \A n \in Request :
            entry'[n] = IF n = taken THEN [id |-> rsp_id, tag |-> taken] ELSE entry[n]
      BY <3>2, <3>3 DEF TypeList
    <3>6. QED BY <3>1, <3>2, <3>3, <3>4, <3>5 DEF Entries, Untouched, TypeReader,
              Request
  <2>4. CASE UNCHANGED <<taken, source, list, pcW>> /\ pcR' # "search"
             /\ pcR' # "commit"
    BY <2>4 DEF Entries, Untouched, list
  <2>5. CASE R_Next
    BY <2>5 DEF R_Next, Entries, Untouched, list
  <2>6. QED BY <1>2, <2>1, <2>2, <2>3, <2>4, <2>5 DEF Reader, R_NotFound,
          R_NoResponse, R_Error, R_Commit, R_NoTemp, R_Write
<1>3. ASSUME NEW n \in Request, Worker(n) PROVE Entries'
  <2> USE <1>3
  <2>1. UNCHANGED <<pcR, taken, source>>
    BY WorkerFrame DEF reader
  <2>2. /\ pcW[n] # "none" /\ pcW'[n] # "none"
        /\ \A m \in Request : m # n => pcW'[m] = pcW[m]
    BY WorkerLocal
  <2>3. CASE W_Unlink(n)
    <3>1. n \in linked /\ entry[n].id = n /\ linked' = linked \ {n}
      BY <2>3, Unlinked
    <3>2. freed' = freed /\ entry' = entry /\ pcW'[n] = "free"
      BY <2>3 DEF W_Unlink, Goto, TypeWorkers
    <3>3. QED BY <2>1, <2>2, <3>1, <3>2 DEF Entries, Untouched, Request
  <2>4. CASE W_Free(n)
    <3>1. n \notin linked \union freed /\ entry[n].id = n /\ freed' = freed \union {n}
          /\ linked' = linked /\ entry' = entry
      BY <2>4 DEF W_Free, Holders
    <3>2. QED BY <2>1, <2>2, <3>1 DEF Entries, Untouched, Request
  <2>5. CASE UNCHANGED <<linked, freed, entry>> /\ pcW[n] # "free"
    BY <2>1, <2>2, <2>5 DEF Entries, Untouched
  <2>6. QED BY <2>3, <2>4, <2>5 DEF Worker, W_NoBuffer, W_Alloc, W_Walk,
          W_Lost, W_Plain, W_NoTemp, W_Temp, W_Tag, list
<1>4. CASE UNCHANGED vars
  BY <1>4 DEF vars, reader, list, Entries, Untouched
<1>5. QED BY <1>1, <1>2, <1>3, <1>4 DEF Next

\* The list stays in the order of the requests, and closed.
LEMMA ListStep == IInv /\ [Next]_vars => List'
<1> SUFFICES ASSUME IInv, [Next]_vars PROVE List'
  OBVIOUS
<1> USE Constants DEF IInv, TypeOK
<1>1. CASE R_Commit /\ Add(taken)
  <2>1. taken \in Request /\ pcR = "commit"
    BY <1>1 DEF R_Commit, TypeReader, Request
  <2>2. PICK last \in Head0 :
          /\ next[last] = 0 /\ last # taken /\ \A m \in linked : m <= last
          /\ \A p \in 0..MaxReq : next'[p] =
               IF p = taken THEN 0 ELSE IF p = last THEN taken ELSE next[p]
    BY <1>1, <2>1, Appended
  <2>3. (\A m \in linked : m < taken) /\ taken \notin linked
    BY <1>1, <2>1, Appended DEF Untouched
  <2>4. linked' = linked \union {taken} /\ linked \subseteq Request
    BY <1>1 DEF Add, TypeList
  <2>5. ASSUME NEW p \in Head0' PROVE Follows(p, next[p])'
    <3>1. CASE p = taken
      BY <2>1, <2>2, <2>3, <2>4, <3>1 DEF Follows, Request
    <3>2. CASE p = last
      BY <2>1, <2>2, <2>3, <2>4, <3>2 DEF Follows, Request, Head0
    <3>3. CASE p # taken /\ p # last
      <4>1. p \in Head0 /\ next'[p] = next[p] /\ Follows(p, next[p])
        BY <2>2, <2>4, <3>3 DEF Head0, Request, List
      <4>2. next[p] # 0
        <5>1. SUFFICES ASSUME next[p] = 0 PROVE FALSE
          OBVIOUS
        <5>2. \A m \in linked : m <= p
          BY <4>1, <5>1, <2>4 DEF Follows, Request
        <5>3. p \in 0..MaxReq /\ last \in 0..MaxReq
          BY <4>1, <2>2, <2>4 DEF Head0, Request
        <5>4. p <= last /\ last <= p
          BY <2>2, <2>4, <4>1, <5>2, <5>3 DEF Head0, Request
        <5>5. QED BY <3>3, <5>3, <5>4
      <4>3. next[p] \in linked /\ p < next[p]
            /\ \A m \in linked : m <= p \/ next[p] <= m
        BY <4>1, <4>2 DEF Follows
      <4>4. next[p] <= taken
        <5>1. next[p] < taken /\ next[p] \in Request
          BY ONLY <2>3, <2>4, <4>3
        <5>2. QED BY ONLY <5>1, <2>1, Constants DEF Request
      <4>5. QED BY <2>4, <4>1, <4>3, <4>4 DEF Follows
    <3>4. QED BY <3>1, <3>2, <3>3
  <2>6. ASSUME NEW p \in Head0' PROVE \E q \in Head0' : next'[q] = p
    <3>1. Head0' = Head0 \union {taken} /\ Head0 \subseteq 0..MaxReq
      BY <2>4 DEF Head0, Request
    <3>2. CASE p = 0
      BY <2>1, <2>2, <3>1, <3>2 DEF Request
    <3>3. CASE p = taken
      BY <2>1, <2>2, <3>1, <3>3 DEF Request
    <3>4. CASE p # 0 /\ p # taken
      <4>1. PICK q \in Head0 : next[q] = p
        BY <3>1, <3>4 DEF List
      <4>2. q # last /\ q # taken
        BY <2>1, <2>2, <2>3, <3>4, <4>1 DEF Head0, Request
      <4>3. QED BY <2>2, <3>1, <4>1, <4>2
    <3>5. QED BY <3>2, <3>3, <3>4
  <2>7. QED BY <2>5, <2>6 DEF List
<1>2. ASSUME NEW n \in Request, W_Unlink(n) PROVE List'
  <2>1. PICK prev \in Head0 :
          /\ next[prev] = n /\ prev < n
          /\ \A p \in 0..MaxReq : next'[p] = IF p = prev THEN next[n] ELSE next[p]
    BY <1>2, Unlinked
  <2>2. n \in linked /\ linked' = linked \ {n} /\ linked \subseteq Request
    BY <1>2, Unlinked DEF TypeList
  <2>3. /\ Head0' = Head0 \ {n} /\ Head0 \subseteq 0..MaxReq
        /\ prev \in Head0' /\ n \in 0..MaxReq /\ n \in Head0
    BY <2>1, <2>2 DEF Head0, Request
  <2>4. Follows(n, next[n]) /\ Follows(prev, n)
    BY <2>1, <2>3 DEF List
  <2>5. ASSUME NEW p \in Head0' PROVE Follows(p, next[p])'
    <3>1. CASE p = prev
      <4>1. next'[p] = next[n]
        BY <2>1, <2>3, <3>1
      <4>2. CASE next[n] = 0
        BY ONLY <2>2, <2>3, <2>4, <3>1, <4>1, <4>2, Constants DEF Follows, Request
      <4>3. CASE next[n] # 0
        <5>1. next[n] \in linked /\ n < next[n] /\ next[n] \in Nat
          <6>1. next[n] \in linked /\ n < next[n]
            BY ONLY <2>4, <4>3 DEF Follows
          <6>2. next[n] \in Request
            BY ONLY <6>1, <2>2
          <6>3. QED BY ONLY <6>1, <6>2, Constants DEF Request
        <5>2. next'[p] \in linked' /\ p < next'[p]
          BY <2>1, <2>2, <3>1, <4>1, <5>1 DEF Head0, Request
        <5>3. ASSUME NEW m \in linked' PROVE m <= p \/ next'[p] <= m
          <6>1. m \in linked /\ m # n /\ m \in Nat /\ prev \in Nat
            BY <2>1, <2>2, <5>3 DEF Request, Head0
          <6>2. (m <= prev \/ n <= m) /\ (m <= n \/ next[n] <= m)
            BY <2>2, <2>4, <4>3, <6>1 DEF Follows, Request
          <6>3. QED BY <3>1, <4>1, <6>1, <6>2 DEF Request
        <5>4. QED BY <5>2, <5>3 DEF Follows
      <4>4. QED BY <4>2, <4>3
    <3>2. CASE p # prev
      <4>1. Follows(p, next[p]) /\ next'[p] = next[p]
        BY <2>1, <2>3, <3>2 DEF List
      <4>2. next[p] # n
        BY <2>2, <2>3, <2>4, <3>2, <4>1 DEF Follows, Request, Head0
      <4>3. QED BY <2>2, <4>1, <4>2 DEF Follows
    <3>3. QED BY <3>1, <3>2
  <2>6. ASSUME NEW p \in Head0' PROVE \E q \in Head0' : next'[q] = p
    <3>1. PICK q \in Head0 : next[q] = p
      BY <2>3 DEF List
    <3>2. CASE q = n
      BY <2>1, <2>3, <3>1, <3>2
    <3>3. CASE q # n
      BY <2>1, <2>3, <3>1, <3>3
    <3>4. QED BY <3>2, <3>3
  <2>7. QED BY <2>5, <2>6 DEF List
<1>3. CASE UNCHANGED <<next, linked>>
  BY <1>3 DEF List, Head0, Follows
<1>4. UNCHANGED <<next, linked>> \/ (R_Commit /\ Add(taken))
      \/ \E n \in Request : W_Unlink(n)
  <2>1. CASE Application
    BY <2>1, ApplicationFrame DEF list
  <2>2. CASE Reader
    BY <2>2 DEF Reader, R_Take, R_Next, R_NotFound, R_NoResponse, R_Error, R_Handler,
       R_Commit, R_NoTemp, R_Write, list
  <2>3. ASSUME NEW n \in Request, Worker(n), ~W_Unlink(n)
        PROVE  UNCHANGED <<next, linked>>
    BY <2>3 DEF Worker, W_NoBuffer, W_Alloc, W_Walk, W_Lost, W_Plain, W_NoTemp,
       W_Temp, W_Tag, W_Free, list
  <2>4. CASE UNCHANGED vars
    BY <2>4 DEF vars, list
  <2>5. QED BY <2>1, <2>2, <2>3, <2>4 DEF Next
<1>5. QED BY <1>1, <1>2, <1>3, <1>4

\* A worker that has found its entry is the only one to have it.
LEMMA HoldersStep == IInv /\ [Next]_vars => Holders'
<1> SUFFICES ASSUME IInv, [Next]_vars PROVE Holders'
  OBVIOUS
<1> USE Constants DEF IInv, TypeOK
<1>1. CASE Application
  BY <1>1, ApplicationFrame DEF list, Holders
<1>2. CASE Reader
  <2>1. CASE R_Commit /\ pkt_type = "DCI" /\ Add(taken)
    <3>1. Untouched(taken) /\ taken \in Request /\ UNCHANGED <<pcW, at>>
      BY <2>1 DEF R_Commit, TypeReader, Request, Entries
    <3>2. linked' = linked \union {taken} /\ freed' = freed
          /\ \A n \in Request : n # taken => entry'[n] = entry[n]
      BY <2>1, <3>1 DEF Add, TypeList
    <3>3. entry[taken].id = 0 /\ taken # 0
      BY <3>1 DEF Untouched, Request
    <3>4. QED BY <3>1, <3>2, <3>3 DEF Holders
  <2>2. CASE UNCHANGED <<list, at>>
    <3>1. \A n \in Request : pcW'[n] = pcW[n] \/ pcW'[n] = "alloc"
      BY <1>2, <2>2 DEF Reader, R_Take, R_Next, R_NotFound, R_NoResponse, R_Error, R_Handler,
         R_Commit, R_NoTemp, R_Write, TypeWorkers
    <3>2. QED BY <2>2, <3>1 DEF list, Holders
  <2>3. QED BY <1>2, <2>1, <2>2 DEF Reader, R_Take, R_Next, R_NotFound,
          R_NoResponse, R_Error, R_Handler, R_Commit, R_NoTemp, R_Write
<1>3. ASSUME NEW n \in Request, Worker(n) PROVE Holders'
  <2> USE <1>3
  <2>1. \A m \in Request : m # n => pcW'[m] = pcW[m] /\ at'[m] = at[m]
    BY WorkerLocal
  <2>2. CASE W_Unlink(n)
    <3>1. n \in linked /\ entry[n].id = n /\ linked' = linked \ {n}
      BY <2>2, Unlinked
    <3>2. freed' = freed /\ entry' = entry /\ pcW'[n] = "free" /\ at' = at
          /\ at[n] = n
      BY <2>2 DEF W_Unlink, Goto, TypeWorkers, Holders
    <3>3. QED BY <2>1, <3>1, <3>2 DEF Holders, Entries
  <2>3. CASE W_Free(n)
    <3>1. /\ pcW'[n] \in {"done", "alloc"} /\ freed' = freed \union {n}
          /\ linked' = linked /\ entry' = entry
      BY <2>3 DEF W_Free, Done, Goto, TypeWorkers, Holders
    <3>2. QED BY <2>1, <3>1 DEF Holders
  <2>4. CASE W_Temp(n)
    <3>1. at[n] \in Request /\ entry[at[n]].id = n /\ pcW[n] = "walk" /\ n # 0
          /\ at[n] \notin freed
      BY <2>4 DEF W_Temp, TypeWorkers, Request
    <3>2. at[n] = n
      BY <3>1 DEF Entries
    <3>3. n \in linked
      BY <3>1, <3>2 DEF Entries
    <3>4. UNCHANGED <<list, at>> /\ pcW'[n] = "tag"
      BY <2>4 DEF W_Temp, Goto, TypeWorkers
    <3>5. QED BY <2>1, <3>1, <3>2, <3>3, <3>4 DEF Holders, list
  <2>5. CASE W_Tag(n)
    <3>1. pcW[n] = "tag" /\ pcW'[n] \in {"done", "alloc", "unlink"}
          /\ UNCHANGED list /\ (pcW'[n] = "unlink" => at' = at)
      BY <2>5 DEF W_Tag, Done, Goto, TypeWorkers
    <3>2. QED BY <2>1, <3>1 DEF Holders, list
  <2>6. CASE UNCHANGED list /\ pcW'[n] \notin {"tag", "unlink", "free"}
    BY <2>1, <2>6 DEF Holders, list
  <2>7. W_Unlink(n) \/ W_Free(n) \/ W_Temp(n) \/ W_Tag(n)
        \/ (UNCHANGED list /\ pcW'[n] \notin {"tag", "unlink", "free"})
    BY DEF Worker, W_NoBuffer, W_Alloc, W_Walk, W_Lost, W_Plain, W_NoTemp, Done,
       Goto, TypeWorkers
  <2>8. QED BY <2>2, <2>3, <2>4, <2>5, <2>6, <2>7
<1>4. CASE UNCHANGED vars
  BY <1>4 DEF vars, list, Holders
<1>5. QED BY <1>1, <1>2, <1>3, <1>4 DEF Next

\* What can happen to a worker that walks.
LEMMA WalkKinds ==
  ASSUME IInv, [Next]_vars, NEW m \in Request, pcW'[m] = "walk"
  PROVE  \/ /\ R_Commit /\ pkt_type = "DCI" /\ Add(taken)
            /\ taken \in Request /\ UNCHANGED <<pcW, at, history>>
         \/ \E n \in Request : W_Unlink(n) \/ W_Free(n) \/ W_Alloc(n) \/ W_Walk(n)
         \/ pcW[m] = "walk" /\ at'[m] = at[m] /\ UNCHANGED <<list, early, raced>>
<1> USE DEF IInv, TypeOK
<1>1. CASE Application
  BY <1>1, ApplicationFrame DEF history
<1>2. CASE Reader
  <2>1. \A k \in 1..MaxRsp : R_Handler(k) => pcW[m] = "walk"
    BY DEF R_Handler, TypeWorkers
  <2>2. R_Commit => taken \in Request
    BY Constants DEF R_Commit, TypeReader, Request
  <2>3. QED BY <1>2, <2>1, <2>2 DEF Reader, R_Take, R_Next, R_NotFound,
          R_NoResponse, R_Error, R_Handler, R_Commit, R_NoTemp, R_Write, history
<1>3. ASSUME NEW n \in Request, Worker(n),
             ~(W_Unlink(n) \/ W_Free(n) \/ W_Alloc(n) \/ W_Walk(n))
      PROVE  pcW[m] = "walk" /\ at'[m] = at[m] /\ UNCHANGED <<list, early, raced>>
  <2>1. UNCHANGED <<list, early, raced>> /\ pcW'[n] # "walk"
    BY <1>3 DEF Worker, W_NoBuffer, W_Lost, W_Plain, W_NoTemp, W_Temp, W_Tag, Done,
       Goto, TypeWorkers, history
  <2>2. QED BY <1>3, <2>1, WorkerLocal
<1>4. CASE UNCHANGED vars
  BY <1>4 DEF vars, history
<1>5. QED BY <1>1, <1>2, <1>3, <1>4 DEF Next

\* A walk that no freeing has overlapped stays clear of the freed entries.
LEMMA AliveStep ==
  ASSUME IInv, [Next]_vars, NEW m \in Request, pcW'[m] = "walk", m \notin raced'
  PROVE  \E C \in SUBSET (0..MaxReq) : Alive(C, m)'
<1> USE DEF IInv, TypeOK
<1>1. ASSUME pcW[m] = "walk", m \notin raced
      PROVE  \E C \in SUBSET (0..MaxReq) : Alive(C, m)
  BY <1>1 DEF Walks
<1>2. Head0 \subseteq 0..MaxReq /\ 0 \notin freed
  BY HeadRange
<1>3. CASE R_Commit /\ pkt_type = "DCI" /\ Add(taken) /\ taken \in Request
           /\ UNCHANGED <<pcW, at, history>>
  <2>1. PICK C \in SUBSET (0..MaxReq) : Alive(C, m)
    BY <1>1, <1>3 DEF history
  <2>2. PICK last \in Head0 :
          \A p \in 0..MaxReq : next'[p] =
            IF p = taken THEN 0 ELSE IF p = last THEN taken ELSE next[p]
    BY <1>3, Appended DEF R_Commit
  <2>3. taken \notin freed /\ freed' = freed /\ linked' = linked \union {taken}
    BY <1>3, Appended DEF R_Commit, Add, Untouched
  <2>4. PICK D \in SUBSET (0..MaxReq) : D = C \union Head0 \union {taken}
    BY <1>2, <1>3, Numbers
  <2>5. D \intersect freed' = {}
    <3>1. Head0 \intersect freed = {}
      BY <1>2 DEF Head0, Entries
    <3>2. QED BY <2>1, <2>3, <2>4, <3>1 DEF Alive
  <2>6. \A p \in Head0 : next[p] \in Head0
    BY DEF List, Follows, Head0
  <2>7. ASSUME NEW d \in D PROVE next'[d] \in D
    <3>1. d \in 0..MaxReq /\ d \in C \union Head0 \union {taken}
      BY <2>4, <2>7
    <3>2. 0 \in D /\ taken \in D
      BY <2>4 DEF Head0
    <3>3. d \in C \union Head0 => next[d] \in D
      BY <2>1, <2>4, <2>6 DEF Alive
    <3>4. QED BY <2>2, <3>1, <3>2, <3>3
  <2>8. Alive(D, m)'
    <3>1. at'[m] \in D
      BY <1>3, <2>1, <2>4 DEF Alive
    <3>2. QED BY <2>5, <2>7, <3>1 DEF Alive
  <2>9. QED BY <2>8
<1>4. ASSUME NEW n \in Request, W_Unlink(n)
      PROVE  \E C \in SUBSET (0..MaxReq) : Alive(C, m)'
  <2>1. pcW[m] = "walk" /\ UNCHANGED <<at, freed, raced>>
    BY <1>4 DEF W_Unlink, Goto, TypeWorkers, history
  <2>2. PICK C \in SUBSET (0..MaxReq) : Alive(C, m)
    BY <1>1, <2>1
  <2>3. PICK prev \in Head0 :
          /\ next[prev] = n
          /\ \A p \in 0..MaxReq : next'[p] = IF p = prev THEN next[n] ELSE next[p]
    BY <1>4, Unlinked
  <2>4. ASSUME NEW c \in C PROVE next'[c] \in C
    BY <2>2, <2>3 DEF Alive
  <2>5. QED BY <2>1, <2>2, <2>4 DEF Alive
<1>5. ASSUME NEW n \in Request, W_Free(n) PROVE FALSE
  <2>1. pcW[m] = "walk"
    BY <1>5 DEF W_Free, Done, Goto, TypeWorkers
  <2>2. QED BY <1>5, <2>1 DEF W_Free
<1>6. ASSUME NEW n \in Request, W_Alloc(n)
      PROVE  \E C \in SUBSET (0..MaxReq) : Alive(C, m)'
  <2>1. UNCHANGED <<next, freed, linked>> /\ at' = [at EXCEPT ![n] = next[0]]
        /\ raced' = raced \ {n}
    BY <1>6 DEF W_Alloc, list
  <2>2. CASE n = m
    <3>1. \A p \in Head0 : next[p] \in Head0
      BY DEF List, Follows, Head0
    <3>2. Head0 \intersect freed = {}
      BY <1>2 DEF Head0, Entries
    <3>3. at'[m] = next[0]
      BY <2>1, <2>2 DEF TypeWorkers
    <3>4. PICK C \in SUBSET (0..MaxReq) : C = Head0
      BY <1>2
    <3>5. at'[m] \in C /\ C \intersect freed = {} /\ \A c \in C : next[c] \in C
      BY <3>1, <3>2, <3>3, <3>4 DEF Head0
    <3>6. QED BY <2>1, <3>5 DEF Alive
  <2>3. CASE n # m
    <3>1. pcW[m] = "walk" /\ at'[m] = at[m] /\ m \notin raced
      BY <1>6, <2>1, <2>3 DEF W_Alloc, Goto, TypeWorkers
    <3>2. PICK C \in SUBSET (0..MaxReq) : Alive(C, m)
      BY <1>1, <3>1
    <3>3. QED BY <2>1, <3>1, <3>2 DEF Alive
  <2>4. QED BY <2>2, <2>3
<1>7. ASSUME NEW n \in Request, W_Walk(n)
      PROVE  \E C \in SUBSET (0..MaxReq) : Alive(C, m)'
  <2>1. UNCHANGED <<next, freed, raced, pcW>> /\ at' = [at EXCEPT ![n] = next[at[n]]]
    BY <1>7 DEF W_Walk, list, history
  <2>2. PICK C \in SUBSET (0..MaxReq) : Alive(C, m)
    BY <1>1, <2>1
  <2>3. at'[m] \in C
    BY <2>1, <2>2 DEF Alive, TypeWorkers
  <2>4. QED BY <2>1, <2>2, <2>3 DEF Alive
<1>8. ASSUME pcW[m] = "walk", at'[m] = at[m], UNCHANGED <<list, early, raced>>
      PROVE  \E C \in SUBSET (0..MaxReq) : Alive(C, m)'
  <2>1. PICK C \in SUBSET (0..MaxReq) : Alive(C, m)
    BY <1>1, <1>8
  <2>2. QED BY <1>8, <2>1 DEF Alive, list
<1>9. QED BY <1>3, <1>4, <1>5, <1>6, <1>7, <1>8, WalkKinds

\* A walk that began when the entry was there cannot go past it.
LEMMA LeadsStep ==
  ASSUME IInv, [Next]_vars, NEW m \in Request, pcW'[m] = "walk", m \notin early'
  PROVE  m \in linked' /\ \E D \in SUBSET Request : Leads(D, m)'
<1> USE DEF IInv, TypeOK
<1>1. ASSUME pcW[m] = "walk", m \notin early
      PROVE  m \in linked /\ \E D \in SUBSET Request : Leads(D, m)
  BY <1>1 DEF Walks
<1>2. CASE R_Commit /\ pkt_type = "DCI" /\ Add(taken) /\ taken \in Request
           /\ UNCHANGED <<pcW, at, history>>
  <2>1. m \in linked
    BY <1>1, <1>2 DEF history
  <2>2. PICK D \in SUBSET Request : Leads(D, m)
    BY <1>1, <1>2 DEF history
  <2>3. PICK last \in Head0 :
          /\ next[last] = 0
          /\ \A p \in 0..MaxReq : next'[p] =
               IF p = taken THEN 0 ELSE IF p = last THEN taken ELSE next[p]
    BY <1>2, Appended DEF R_Commit
  <2>4. Untouched(taken) /\ freed' = freed /\ linked' = linked \union {taken}
        /\ \A d \in Request : d # taken => entry'[d] = entry[d]
    BY <1>2, Appended DEF R_Commit, Add, TypeList
  <2>5. ASSUME NEW d \in D PROVE ~Untouched(d)' /\ (d # m => next'[d] \in D)
    <3>1. d # taken /\ (d # m => next[d] \in D /\ next[d] # 0) /\ d \in 0..MaxReq
      BY <2>2, <2>4, <2>5, Constants DEF Leads, Request
    <3>2. ~Untouched(d)'
      BY <2>2, <2>4, <2>5, <3>1 DEF Leads, Untouched
    <3>3. QED BY <2>3, <3>1, <3>2
  <2>6. Leads(D, m)'
    BY <1>2, <2>2, <2>5 DEF Leads
  <2>7. QED BY <2>1, <2>4, <2>6
<1>3. ASSUME NEW n \in Request, W_Unlink(n)
      PROVE  m \in linked' /\ \E D \in SUBSET Request : Leads(D, m)'
  <2>1. pcW[m] = "walk" /\ UNCHANGED <<at, freed, early, entry>> /\ m # n
    BY <1>3 DEF W_Unlink, Goto, TypeWorkers, history
  <2>2. PICK D \in SUBSET Request : Leads(D, m)
    BY <1>1, <2>1
  <2>3. PICK prev \in Head0 :
          /\ next[prev] = n
          /\ \A p \in 0..MaxReq : next'[p] = IF p = prev THEN next[n] ELSE next[p]
    BY <1>3, Unlinked
  <2>4. m \in linked /\ linked' = linked \ {n} /\ entry[n].id # 0
    BY <1>1, <1>3, <2>1, Unlinked, Constants DEF Request
  <2>5. ASSUME NEW d \in D PROVE ~Untouched(d)'
    BY <2>1, <2>2, <2>4, <2>5 DEF Leads, Untouched
  <2>6. ASSUME NEW d \in D \ {m} PROVE next'[d] \in D
    <3>1. d \in 0..MaxReq /\ next[d] \in D
      BY <2>2, <2>6, Constants DEF Leads, Request
    <3>2. QED BY <2>1, <2>2, <2>3, <3>1 DEF Leads
  <2>7. QED BY <2>1, <2>2, <2>4, <2>5, <2>6 DEF Leads
<1>4. ASSUME NEW n \in Request, W_Free(n)
      PROVE  m \in linked' /\ \E D \in SUBSET Request : Leads(D, m)'
  <2>1. /\ pcW[m] = "walk" /\ at'[m] = at[m] /\ freed \subseteq freed'
        /\ UNCHANGED <<early, entry, next, linked>>
    BY <1>4 DEF W_Free, Done, Goto, TypeWorkers
  <2>2. PICK D \in SUBSET Request : Leads(D, m)
    BY <1>1, <2>1
  <2>3. QED BY <1>1, <2>1, <2>2 DEF Leads, Untouched
<1>5. ASSUME NEW n \in Request, W_Alloc(n)
      PROVE  m \in linked' /\ \E D \in SUBSET Request : Leads(D, m)'
  <2>1. UNCHANGED list /\ at' = [at EXCEPT ![n] = next[0]]
        /\ early' = IF n \in linked THEN early \ {n} ELSE early \union {n}
    BY <1>5 DEF W_Alloc
  <2>2. CASE n = m
    <3>1. m \in linked /\ at'[m] = next[0]
      BY <2>1, <2>2 DEF TypeWorkers
    <3>2. PICK D \in SUBSET Request : \A p : p \in D <=> p \in linked /\ p <= m
      <4>1. {p \in linked : p <= m} \in SUBSET Request
        BY DEF TypeList
      <4>2. QED BY <4>1
    <3>3. ASSUME NEW p \in Head0, p < m PROVE next[p] \in D
      <4>1. Follows(p, next[p])
        BY DEF List
      <4>2. p \in Nat /\ m \in Nat
        BY Numbers, HeadRange
      <4>3. ~(m <= p)
        BY ONLY <3>3, <4>2
      <4>4. next[p] \in linked /\ next[p] <= m
        BY ONLY <3>1, <4>1, <4>3 DEF Follows
      <4>5. QED BY <3>2, <4>4
    <3>4. m \in D /\ next[0] \in D
      <4>1. m \in Nat /\ m # 0
        BY Numbers
      <4>2. m <= m /\ 0 < m
        BY ONLY <4>1
      <4>3. QED BY <3>1, <3>2, <3>3, <4>2 DEF Head0
    <3>5. ASSUME NEW d \in D \ {m} PROVE next[d] \in D
      <4>1. d \in Head0 /\ d <= m /\ d # m /\ d \in Request
        BY <3>2, <3>5 DEF Head0, TypeList
      <4>2. d < m
        BY ONLY <4>1, m \in Request, Constants DEF Request
      <4>3. QED BY <3>3, <4>1, <4>2
    <3>6. Leads(D, m)'
      <4>1. UNCHANGED <<next, linked, freed, entry>>
        BY <2>1 DEF list
      <4>2. QED BY <3>1, <3>2, <3>4, <3>5, <4>1 DEF Leads, Untouched
    <3>7. QED BY <2>1, <3>1, <3>6 DEF list
  <2>3. CASE n # m
    <3>1. pcW[m] = "walk" /\ at'[m] = at[m] /\ m \notin early
      BY <1>5, <2>1, <2>3 DEF W_Alloc, Goto, TypeWorkers
    <3>2. PICK D \in SUBSET Request : Leads(D, m)
      BY <1>1, <3>1
    <3>3. QED BY <1>1, <2>1, <3>1, <3>2 DEF Leads, Untouched, list
  <2>4. QED BY <2>2, <2>3
<1>6. ASSUME NEW n \in Request, W_Walk(n)
      PROVE  m \in linked' /\ \E D \in SUBSET Request : Leads(D, m)'
  <2>1. UNCHANGED <<list, early, pcW>> /\ at' = [at EXCEPT ![n] = next[at[n]]]
        /\ entry[at[n]].id # n
    BY <1>6 DEF W_Walk, history
  <2>2. PICK D \in SUBSET Request : Leads(D, m)
    BY <1>1, <2>1
  <2>3. m \in linked /\ entry[m].id = m
    BY <1>1, <2>1 DEF Entries
  <2>4. at'[m] \in D
    BY <2>1, <2>2, <2>3 DEF Leads, TypeWorkers
  <2>5. QED BY <2>1, <2>2, <2>3, <2>4 DEF Leads, Untouched, list
<1>7. ASSUME pcW[m] = "walk", at'[m] = at[m], UNCHANGED <<list, early, raced>>
      PROVE  m \in linked' /\ \E D \in SUBSET Request : Leads(D, m)'
  <2>1. PICK D \in SUBSET Request : Leads(D, m)
    BY <1>1, <1>7
  <2>2. QED BY <1>1, <1>7, <2>1 DEF Leads, Untouched, list
<1>8. QED BY <1>2, <1>3, <1>4, <1>5, <1>6, <1>7, WalkKinds

\* A lost worker was raced, and a worker that is done has left no entry without a
\* reason.
LEMMA EndsStep ==
  ASSUME IInv, [Next]_vars, NEW m \in Request
  PROVE  /\ pcW'[m] = "lost" => m \in raced'
         /\ pcW'[m] = "done" => m \in failed' \union early' \union freed'
<1> USE DEF IInv, TypeOK
<1>1. CASE UNCHANGED <<pcW, freed, history>>
  BY <1>1 DEF Walks, history
<1>2. CASE Application
  BY <1>1, <1>2, ApplicationFrame DEF list
<1>3. CASE Reader
  <2>1. pcW'[m] \in {"lost", "done"} => pcW'[m] = pcW[m]
    BY <1>3 DEF Reader, R_Take, R_Next, R_NotFound, R_NoResponse, R_Error, R_Handler,
       R_Commit, R_NoTemp, R_Write, TypeWorkers
  <2>2. QED BY <1>3, <2>1, ReaderFrame DEF Walks, history
<1>4. ASSUME NEW n \in Request, Worker(n), n # m
      PROVE  /\ pcW'[m] = "lost" => m \in raced'
             /\ pcW'[m] = "done" => m \in failed' \union early' \union freed'
  <2>1. pcW'[m] = pcW[m]
    BY <1>4, WorkerLocal
  <2>2. /\ m \in raced => m \in raced'
        /\ m \in failed \union early \union freed
             => m \in failed' \union early' \union freed'
    BY <1>4 DEF Worker, W_NoBuffer, W_Alloc, W_Walk, W_Lost, W_Plain, W_NoTemp,
       W_Temp, W_Tag, W_Unlink, W_Free, history, list
  <2>3. QED BY <2>1, <2>2 DEF Walks
<1>5. CASE Worker(m)
  <2>1. ASSUME pcW'[m] = "lost" PROVE m \in raced'
    <3>1. W_Lost(m)
      BY <1>5, <2>1 DEF Worker, W_NoBuffer, W_Alloc, W_Walk, W_Plain, W_NoTemp,
         W_Temp, W_Tag, W_Unlink, W_Free, Done, Goto, TypeWorkers
    <3>2. QED BY <3>1 DEF W_Lost, Walks, Alive, history
  <2>2. ASSUME pcW'[m] = "done" PROVE m \in failed' \union early' \union freed'
    <3>1. CASE W_Plain(m)
      <4>1. m \in early
        BY <3>1, Numbers DEF W_Plain, Walks, Leads
      <4>2. QED BY <3>1, <4>1 DEF W_Plain, history
    <3>2. CASE W_NoBuffer(m) \/ W_NoTemp(m)
      <4>1. left[m] = 1 => m \in failed'
        BY <3>2 DEF W_NoBuffer, W_NoTemp
      <4>2. left[m] # 1 => pcW'[m] = "alloc"
        BY <3>2 DEF W_NoBuffer, W_NoTemp, Done, Goto, TypeWorkers
      <4>3. QED BY <2>2, <4>1, <4>2
    <3>3. CASE W_Free(m)
      BY <3>3 DEF W_Free, Holders
    <3>4. CASE W_Alloc(m) \/ W_Walk(m) \/ W_Lost(m) \/ W_Temp(m) \/ W_Unlink(m)
      BY <2>2, <3>4 DEF W_Alloc, W_Walk, W_Lost, W_Temp, W_Unlink, Goto, TypeWorkers
    <3>5. CASE W_Tag(m)
      BY <2>2, <3>5 DEF W_Tag, Done, Goto, TypeWorkers
    <3>6. QED BY <1>5, <3>1, <3>2, <3>3, <3>4, <3>5 DEF Worker
  <2>3. QED BY <2>1, <2>2
<1>6. CASE UNCHANGED vars
  BY <1>1, <1>6 DEF vars, list
<1>7. QED BY <1>2, <1>3, <1>4, <1>5, <1>6 DEF Next

\* Every step keeps the invariant.
LEMMA Inductive == IInv /\ [Next]_vars => IInv'
<1> SUFFICES ASSUME IInv, [Next]_vars PROVE IInv'
  OBVIOUS
<1>1. TypeOK'
  BY TypeReaderStep, TypeListStep, TypeWorkersStep DEF TypeOK
<1>2. Slots' /\ Search' /\ Current' /\ Entries' /\ List' /\ Holders'
  BY SlotsStep, SearchStep, CurrentStep, EntriesStep, ListStep, HoldersStep
<1>3. Walks'
  BY AliveStep, LeadsStep, EndsStep DEF Walks
<1>4. QED BY <1>1, <1>2, <1>3 DEF IInv

\* The invariant holds for every number of tables, slots, requests and failures.
THEOREM Invariance == Spec => []IInv
BY InitInv, Inductive, PTL DEF Spec

\* diagpkt_LSM_process_request reads the user table without its mutex, and still
\* never comes upon a slot that is not filled, nor to the end of a table that has
\* the command: only a table that found no slot is missed.
THEOREM SearchIsSafe == Spec => []SearchFinds
<1>1. IInv => SearchFinds
  <2> SUFFICES ASSUME IInv, pcR = "search"
               PROVE  IF i <= TblSize THEN slot[i] # Raw
                                      ELSE \E t \in unplaced : Serves(t)
    BY DEF SearchFinds
  <2>1. PICK t \in routed : Serves(t) /\ Placed(t, i)
    BY DEF IInv, Search
  <2>2. t \in Table /\ TypeReader /\ Slots
    BY <2>1 DEF IInv, TypeOK, TypeReader
  <2>3. CASE i <= TblSize
    <3>1. SUFFICES ASSUME slot[i] = Raw PROVE FALSE
      BY <2>3
    <3>2. i \in 1..TblSize /\ Raw \notin Table /\ 0 \notin Table
      BY <2>2, <2>3, Constants DEF TypeReader
    <3>3. t \notin unplaced
      BY <2>2, <3>1, <3>2 DEF Slots
    <3>4. PICK k \in i..TblSize : slot[k] = t
      BY <2>1, <3>3 DEF Placed
    <3>5. k \in 1..TblSize /\ i < k
      BY <2>2, <3>1, <3>2, <3>4
    <3>6. QED BY <2>2, <3>1, <3>2, <3>4, <3>5 DEF Slots, Empty
  <2>4. CASE ~(i <= TblSize)
    <3>1. i..TblSize = {}
      BY <2>2, <2>4, Constants DEF TypeReader
    <3>2. QED BY <2>1, <2>4, <3>1 DEF Placed
  <2>5. QED BY <2>3, <2>4
<1>2. QED BY <1>1, Invariance, PTL

\* diagpkt_delay_commit sends a delayed response under the tag of its own request,
\* and as a response to the tool only if the lookup came before the entry.
THEOREM DelayedResponsesMatch == Spec => []DelayedMatches
<1>1. IInv => DelayedMatches
  <2> SUFFICES ASSUME IInv, NEW n \in Request
               PROVE  /\ pcW[n] = "tag" => /\ source[n] = "DCI"
                                           /\ at[n] \in linked \ freed
                                           /\ entry[at[n]].tag = n
                      /\ pcW[n] = "walk" /\ at[n] = 0
                           => source[n] = "PKT" \/ n \in early
    BY DEF DelayedMatches
  <2>1. pcW[n] = "tag" => source[n] = "DCI" /\ at[n] \in linked \ freed
                          /\ entry[at[n]].tag = n
    BY DEF IInv, Holders, Entries
  <2>2. pcW[n] = "walk" /\ at[n] = 0 => n \in early
    BY Numbers DEF IInv, Walks, Leads
  <2>3. QED BY <2>1, <2>2
<1>2. QED BY <1>1, Invariance, PTL

\* The walk of dci_delayed_rsp_tbl meets a freed entry only when another worker
\* freed one meanwhile, and the entry a worker found is not freed by another.
THEOREM OnlyRacedWalksAreLost == Spec => []LostOnlyWhenRaced
<1>1. IInv => LostOnlyWhenRaced
  BY DEF IInv, LostOnlyWhenRaced, Walks, Holders, Entries
<1>2. QED BY <1>1, Invariance, PTL

\* No entry outlives the worker of its request, except after a failed last response
\* or a lookup that was too early.
THEOREM EntriesEnd == Spec => []EntryEnds
<1>1. IInv => EntryEnds
  BY DEF IInv, EntryEnds, Walks, Entries, TypeOK, TypeList
<1>2. QED BY <1>1, Invariance, PTL

\* Two sets of requests that differ in n at most.
LEMMA Counts ==
  ASSUME NEW n \in Request, NEW S \in SUBSET Request, NEW T \in SUBSET Request,
         \A m \in Request : m # n => (m \in S <=> m \in T)
  PROVE  /\ Cardinality(S) \in Nat /\ Cardinality(T) \in Nat
         /\ (n \in S <=> n \in T) => Cardinality(T) = Cardinality(S)
         /\ n \notin S /\ n \in T => Cardinality(T) = Cardinality(S) + 1
         /\ n \in S /\ n \notin T => Cardinality(T) = Cardinality(S) - 1
<1>1. IsFiniteSet(Request)
  BY Constants, FS_Interval DEF Request
<1>2. IsFiniteSet(S) /\ IsFiniteSet(T)
  BY <1>1, FS_Subset
<1>3. Cardinality(S) \in Nat /\ Cardinality(T) \in Nat
  BY <1>2, FS_CardinalityType
<1>4. ASSUME n \in S <=> n \in T PROVE S = T
  BY <1>4
<1>5. ASSUME n \notin S, n \in T PROVE Cardinality(T) = Cardinality(S) + 1
  <2>1. T = S \union {n}
    BY <1>5
  <2>2. QED BY <1>2, <1>5, <2>1, FS_AddElement
<1>6. ASSUME n \in S, n \notin T PROVE Cardinality(T) = Cardinality(S) - 1
  <2>1. T = S \ {n}
    BY <1>6
  <2>2. QED BY <1>2, <1>6, <2>1, FS_RemoveElement
<1>7. QED BY <1>3, <1>4, <1>5, <1>6

\* Every step takes and gives back the buffers that the control states say.
LEMMA BuffersStep == IInv /\ BuffersAccounted /\ [Next]_vars => BuffersAccounted'
<1> SUFFICES ASSUME IInv, BuffersAccounted, [Next]_vars PROVE BuffersAccounted'
  OBVIOUS
<1> DEFINE Tag == {m \in Request : pcW[m] = "tag"}
           Busy == {m \in Request : pcW[m] \in {"walk", "tag", "unlink", "free", "lost"}}
<1> USE DEF BuffersAccounted
<1>1. CASE Application
  BY <1>1, ApplicationFrame DEF Application, M_Slot, M_NoMemory, M_Fill, M_NoSlot,
     M_Ioctl, reader, buffers
<1>2. CASE Reader
  <2>1. \A m \in Request : pcW'[m] = pcW[m] \/ (pcW[m] = "none" /\ pcW'[m] = "alloc")
    <3>1. ASSUME NEW k \in 1..MaxRsp, R_Handler(k)
          PROVE  taken \in Request /\ pcW[taken] = "none"
      BY <3>1, Constants DEF IInv, TypeOK, TypeReader, Entries, Request, R_Handler
    <3>2. QED BY <1>2, <3>1 DEF Reader, R_Take, R_Next, R_NotFound, R_NoResponse, R_Error,
            R_Handler, R_Commit, R_NoTemp, R_Write, IInv, TypeOK, TypeWorkers
  <2>2. Tag' = Tag /\ Busy' = Busy
    BY <2>1
  <2>3. Cardinality(Tag) \in Nat
    <3>1. Tag \in SUBSET Request
      OBVIOUS
    <3> HIDE DEF Tag
    <3>2. IsFiniteSet(Request)
      BY Constants, FS_Interval DEF Request
    <3>3. QED BY <3>1, <3>2, FS_Subset, FS_CardinalityType
  <2> HIDE DEF Tag, Busy
  <2>4. gen_inuse' = gen_inuse
    BY <1>2 DEF Reader, R_Take, R_Next, R_NotFound, R_NoResponse, R_Error, R_Handler, R_Commit,
       R_NoTemp, R_Write, buffers
  <2>5. pkt_inuse' = (IF pcR' \in {"commit", "temp"} THEN 1 ELSE 0) + Cardinality(Tag)
    <3>1. pkt_inuse = (IF pcR \in {"commit", "temp"} THEN 1 ELSE 0) + Cardinality(Tag)
      BY DEF Tag
    <3>2. QED BY <1>2, <2>3, <3>1 DEF Reader, R_Take, R_Next, R_NotFound,
            R_NoResponse, R_Error, R_Handler, R_Commit, R_NoTemp, R_Write, buffers
  <2>6. QED BY <2>2, <2>4, <2>5 DEF Tag, Busy
<1>3. ASSUME NEW n \in Request, Worker(n) PROVE BuffersAccounted'
  <2>1. pcR' = pcR /\ \A m \in Request : m # n => pcW'[m] = pcW[m]
    BY <1>3, WorkerFrame, WorkerLocal DEF reader, IInv, TypeOK
  <2>2. Tag \in SUBSET Request /\ Tag' \in SUBSET Request
        /\ Busy \in SUBSET Request /\ Busy' \in SUBSET Request
    OBVIOUS
  <2>3. \A m \in Request : m # n => (m \in Tag <=> m \in Tag')
                                    /\ (m \in Busy <=> m \in Busy')
    BY <2>1
  <2>4. /\ n \in Tag <=> pcW[n] = "tag"
        /\ n \in Tag' <=> pcW'[n] = "tag"
        /\ n \in Busy <=> pcW[n] \in {"walk", "tag", "unlink", "free", "lost"}
        /\ n \in Busy' <=> pcW'[n] \in {"walk", "tag", "unlink", "free", "lost"}
    OBVIOUS
  <2>5. pkt_inuse = (IF pcR \in {"commit", "temp"} THEN 1 ELSE 0) + Cardinality(Tag)
        /\ gen_inuse = Cardinality(Busy)
    OBVIOUS
  <2>6. pcW' = [pcW EXCEPT ![n] = pcW'[n]] /\ pcW \in [Request -> WorkerPc]
    BY <1>3, <2>1, WorkerLocal DEF IInv, TypeOK, TypeWorkers
  <2>7. /\ (n \in Tag) = (n \in Tag') => pkt_inuse' = pkt_inuse
        /\ n \notin Tag /\ n \in Tag' => pkt_inuse' = pkt_inuse + 1
        /\ n \in Tag /\ n \notin Tag' => pkt_inuse' = pkt_inuse - 1
    BY <1>3, <2>4, <2>6 DEF Worker, W_NoBuffer, W_Alloc, W_Walk, W_Lost, W_Plain,
       W_NoTemp, W_Temp, W_Tag, W_Unlink, W_Free, Done, Goto, buffers
  <2>8. /\ (n \in Busy) = (n \in Busy') => gen_inuse' = gen_inuse
        /\ n \notin Busy /\ n \in Busy' => gen_inuse' = gen_inuse + 1
        /\ n \in Busy /\ n \notin Busy' => gen_inuse' = gen_inuse - 1
    BY <1>3, <2>4, <2>6 DEF Worker, W_NoBuffer, W_Alloc, W_Walk, W_Lost, W_Plain,
       W_NoTemp, W_Temp, W_Tag, W_Unlink, W_Free, Done, Goto, buffers
  <2> HIDE DEF Tag, Busy
  <2>9. gen_inuse' = Cardinality(Busy')
    BY <2>2, <2>3, <2>5, <2>8, Counts
  <2>10. pkt_inuse' = (IF pcR \in {"commit", "temp"} THEN 1 ELSE 0) + Cardinality(Tag')
    BY <2>2, <2>3, <2>5, <2>7, Counts
  <2>11. QED BY <2>1, <2>9, <2>10 DEF Tag, Busy
<1>4. CASE UNCHANGED vars
  BY <1>4 DEF vars, reader, buffers
<1>5. QED BY <1>1, <1>2, <1>3, <1>4 DEF Next

\* The error paths of commit and delay_commit give back what was taken, whatever
\* fails.
THEOREM BuffersGivenBack == Spec => []BuffersAccounted
<1>1. ASSUME Init PROVE BuffersAccounted
  <2>1. /\ {n \in Request : pcW[n] = "tag"} = {}
        /\ {n \in Request : pcW[n] \in {"walk", "tag", "unlink", "free", "lost"}} = {}
    BY <1>1 DEF Init
  <2>2. pcR = "idle" /\ pkt_inuse = 0 /\ gen_inuse = 0
    BY <1>1 DEF Init
  <2>3. QED BY <2>1, <2>2, FS_EmptySet DEF BuffersAccounted
<1>2. QED BY <1>1, Invariance, BuffersStep, PTL DEF Spec
=============================================================================
