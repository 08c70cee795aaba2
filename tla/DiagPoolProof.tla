--------------------------- MODULE DiagPoolProof ---------------------------
(***************************************************************************)
(* For any number of threads, pool sizes and heap: as long as no Exit      *)
(* overlaps a use, service memory hands every buffer to one owner, loses   *)
(* none and frees none that is in use.                                     *)
(***************************************************************************)
EXTENDS DiagPool, TLAPS

\* Every step keeps the state within its types (all of diagsvc_malloc.c).
LEMMA TypeStep == TypeOK /\ [Next]_vars => TypeOK'
<1> SUFFICES ASSUME TypeOK, [Next]_vars PROVE TypeOK'
  OBVIOUS
<1> USE DiagPoolAssumption DEF TypeOK, Pool, Item, UserPc, Fresh, Go
<1>1. ASSUME NEW t \in Thread, NEW p \in Pool, NEW large \in BOOLEAN, M_Enter(t, p, large)
      PROVE TypeOK'
  BY <1>1 DEF M_Enter, pools, main
<1>2. ASSUME NEW t \in Thread, M_Take(t) PROVE TypeOK'
  BY <1>2 DEF M_Take, main, IsFirst, Unused
<1>3. ASSUME NEW t \in Thread, M_Exhausted(t) PROVE TypeOK'
  BY <1>3 DEF M_Exhausted, pools, main
<1>4. ASSUME NEW t \in Thread, M_Heap(t) PROVE TypeOK'
  BY <1>4 DEF M_Heap, pools, main
<1>5. ASSUME NEW t \in Thread, F_Enter(t) \/ F_Early(t) PROVE TypeOK'
  BY <1>5 DEF F_Enter, F_Early, pools, main
<1>6. ASSUME NEW t \in Thread, F_Return(t) PROVE TypeOK'
  BY <1>6 DEF F_Return, pools, main, IsFirst, Home
<1>7. ASSUME NEW t \in Thread, F_NotFound(t) \/ F_Heap(t) PROVE TypeOK'
  BY <1>7 DEF F_NotFound, F_Heap, pools, main
<1>8. CASE I_Enter
  BY <1>8 DEF I_Enter, pools, users
<1>9. CASE I_Alloc
  BY <1>9 DEF I_Alloc, users
<1>10. CASE I_Mark
  <2>1. in_use' \in [Item -> BOOLEAN]
    BY <1>10 DEF I_Mark
  <2>2. mainPc' \in {"i_flag", "i_alloc"} /\ item' \in 1 .. MaxItems
    BY <1>10 DEF I_Mark
  <2>3. QED
    BY <1>10, <2>1, <2>2 DEF I_Mark, users
<1>11. CASE I_Flag
  BY <1>11 DEF I_Flag, pools, users
<1>12. CASE X_Enter
  BY <1>12 DEF X_Enter, pools, users
<1>13. CASE X_Clear
  BY <1>13 DEF X_Clear, users
<1>14. CASE X_Flag
  BY <1>14 DEF X_Flag, pools, users
<1>15. CASE UNCHANGED vars
  BY <1>15 DEF vars, pools, main, users
<1>16. QED
  BY <1>1, <1>2, <1>3, <1>4, <1>5, <1>6, <1>7, <1>8, <1>9, <1>10, <1>11, <1>12, <1>13, <1>14, <1>15
  DEF Next, User, Main

-----------------------------------------------------------------------------
(* One lemma per step of a user that keeps Clean.                           *)

\* Entering a call changes no buffer (DiagSvc_Malloc's test of the flag).
LEMMA EnterClean ==
  ASSUME TypeOK, Clean, NEW t \in Thread, NEW p \in Pool, NEW large \in BOOLEAN,
         M_Enter(t, p, large), ~rude'
  PROVE  Clean'
<1> USE DEF TypeOK, Go, M_Enter, pools, main
<1>1. pc[t] = "idle" /\ ~Owns(t) /\ mainPc # "x_flag"
  BY DEF Owns
<1>2. \A u \in Thread : (Owns(u)' <=> Owns(u)) /\ buf'[u] = buf[u] /\ (u # t => svc'[u] = svc[u] /\ pc'[u] = pc[u])
  BY <1>1 DEF Owns
<1>3. Owned' = Owned
  BY <1>2 DEF Owned
<1>4. Distinct' /\ HeapIs' /\ Accounted'
  BY <1>1, <1>2, <1>3 DEF Clean, Distinct, HeapIs, Accounted, Owned
<1>5. BusyIsUp' /\ Filled' /\ Injective'
  BY <1>1, <1>2 DEF Clean, BusyIsUp, Filled, Injective
<1>6. OwnersOnly' /\ Matching'
  BY <1>1, <1>2, <1>3 DEF Clean, OwnersOnly, Matching, Owned
<1>7. QED
  BY <1>4, <1>5, <1>6 DEF Clean

\* The scan gives t a slot that nobody owns (DiagSvc_Malloc under the mutex).
LEMMA TakeClean ==
  ASSUME TypeOK, Clean, NEW t \in Thread, M_Take(t)
  PROVE  Clean'
<1> USE DEF TypeOK, Go, M_Take, main
<1>1. PICK x \in Item : /\ x[1] = svc[t] /\ ~in_use[x]
                        /\ in_use' = [in_use EXCEPT ![x] = TRUE]
                        /\ buf' = [buf EXCEPT ![t] = ptr[x]]
                        /\ Go(t, IF ptr[x] = Null THEN "m_heap" ELSE "held")
  BY DEF IsFirst, Unused
<1>2. initialized /\ mainPc \in {"up", "x_clear"} /\ ptr[x] # Null
  BY DEF Clean, BusyIsUp, Filled
<1>3. ~Owns(t) /\ Owns(t)' /\ pc'[t] = "held" /\ buf'[t] = ptr[x]
  BY <1>1, <1>2 DEF Owns
<1>4. \A u \in Thread \ {t} : (Owns(u)' <=> Owns(u)) /\ buf'[u] = buf[u] /\ pc'[u] = pc[u]
  BY <1>1 DEF Owns
<1>5. t \notin Owned /\ Owned' = Owned \cup {t}
  BY <1>3, <1>4 DEF Owned
<1>6. \A u \in Owned : buf[u] # ptr[x]
  BY <1>1 DEF Clean, Accounted, Matching, Owned
<1>7. Distinct'
  BY <1>3, <1>4, <1>5, <1>6 DEF Clean, Distinct, Owned
<1>8. Accounted'
  <2>1. ASSUME NEW y \in Item, y # x
        PROVE  in_use'[y] <=> \E u \in Owned' : buf'[u] = ptr'[y] /\ svc'[u] = y[1]
    <3>1. in_use'[y] = in_use[y] /\ ptr[y] # ptr[x]
      BY <1>1, <1>2, <2>1 DEF Clean, Injective
    <3>2. QED
      BY <1>3, <1>4, <1>5, <2>1, <3>1 DEF Clean, Accounted, Owned
  <2>2. in_use'[x] /\ t \in Owned' /\ buf'[t] = ptr'[x] /\ svc'[t] = x[1]
    BY <1>1, <1>3, <1>5
  <2>3. QED
    BY <2>1, <2>2 DEF Accounted
<1>9. HeapIs'
  BY <1>3, <1>4, <1>5 DEF Clean, HeapIs, Owned
<1>10. BusyIsUp' /\ Filled' /\ Injective'
  BY <1>2, <1>4 DEF Clean, BusyIsUp, Filled, Injective
<1>11. OwnersOnly'
  BY <1>2, <1>3, <1>4 DEF Clean, OwnersOnly
<1>12. Matching'
  BY <1>1, <1>2, <1>3, <1>4, <1>5 DEF Clean, Matching, Injective, Owned
<1>13. QED
  BY <1>7, <1>8, <1>9, <1>10, <1>11, <1>12 DEF Clean

\* Steps that move t between two points that own the same buffer, or none (the end of a scan
\* that found nothing, the test of the flag in DiagSvc_Free).
LEMMA MoveClean ==
  ASSUME TypeOK, Clean, NEW t \in Thread, M_Exhausted(t) \/ F_Enter(t) \/ F_NotFound(t)
  PROVE  Clean'
<1> USE DEF TypeOK, Go, M_Exhausted, F_Enter, F_NotFound, pools, main
<1>1. pc[t] # "idle"
  OBVIOUS
<1>2. \A u \in Thread : (Owns(u)' <=> Owns(u)) /\ buf'[u] = buf[u] /\ (u # t => pc'[u] = pc[u])
  BY DEF Owns
<1>3. Owned' = Owned
  BY <1>2 DEF Owned
<1>4. Distinct' /\ HeapIs' /\ Accounted'
  BY <1>2, <1>3 DEF Clean, Distinct, HeapIs, Accounted
<1>5. BusyIsUp' /\ Filled' /\ Injective' /\ OwnersOnly'
  BY <1>1, <1>2 DEF Clean, BusyIsUp, Filled, Injective, OwnersOnly
<1>6. ASSUME NEW u \in Owned, NEW x \in Item, ptr[x] = buf[u], u = t, pc'[t] = "f_heap"
      PROVE  FALSE
  <2>1. F_NotFound(t) /\ x[1] = svc[t]
    BY <1>6 DEF Clean, Matching
  <2>2. x \in Home(t)
    BY <1>6, <2>1 DEF Home
  <2>3. QED
    BY <2>1, <2>2
<1>7. Matching'
  BY <1>2, <1>3, <1>6 DEF Clean, Matching, Owned
<1>8. QED
  BY <1>4, <1>5, <1>7 DEF Clean

\* The heap gives t a block that is in no pool and nobody's (DiagSvc_Malloc's fall-back).
LEMMA HeapClean ==
  ASSUME TypeOK, Clean, NEW t \in Thread, M_Heap(t)
  PROVE  Clean'
<1> USE DEF TypeOK, Go, M_Heap, pools, main
<1>1. PICK b \in Fresh : /\ live' = (live \cup {b}) \ {Null}
                         /\ buf' = [buf EXCEPT ![t] = b]
                         /\ Go(t, IF b = Null THEN "idle" ELSE "held")
  OBVIOUS
<1>2. \A u \in Thread \ {t} : (Owns(u)' <=> Owns(u)) /\ buf'[u] = buf[u] /\ pc'[u] = pc[u]
  BY <1>1 DEF Owns
<1>3. pc[t] = "m_heap" /\ ~Owns(t) /\ t \notin Owned /\ buf[t] = Null
  BY DEF Owns, Owned, Clean, OwnersOnly
<1>4. CASE b = Null
  <2>1. buf' = buf /\ live' = live /\ ~Owns(t)' /\ pc'[t] = "idle"
    BY <1>1, <1>3, <1>4, DiagPoolAssumption DEF Owns
  <2>2. Owned' = Owned
    BY <1>2, <1>3, <2>1 DEF Owned
  <2>3. Distinct' /\ HeapIs' /\ Accounted'
    BY <2>1, <2>2 DEF Clean, Distinct, HeapIs, Accounted
  <2>4. BusyIsUp' /\ Filled' /\ Injective' /\ OwnersOnly'
    BY <1>2, <1>3, <2>1 DEF Clean, BusyIsUp, Filled, Injective, OwnersOnly
  <2>5. Matching'
    BY <1>2, <1>3, <2>1, <2>2 DEF Clean, Matching, Owned
  <2>6. QED
    BY <2>3, <2>4, <2>5 DEF Clean
<1>5. CASE b # Null
  <2>1. b \in Block /\ b \notin live /\ live' = live \cup {b} /\ buf'[t] = b /\ pc'[t] = "held" /\ Owns(t)'
    BY <1>1, <1>5, DiagPoolAssumption DEF Owns, Fresh
  <2>2. Owned' = Owned \cup {t}
    BY <1>2, <1>3, <2>1 DEF Owned
  <2>3. (\A x \in Item : ptr[x] # b) /\ (\A u \in Owned : buf[u] # b)
    BY <2>1 DEF Clean, HeapIs
  <2>4. Distinct'
    BY <1>2, <1>3, <2>1, <2>2, <2>3 DEF Clean, Distinct, Owned
  <2>5. Accounted'
    BY <1>2, <1>3, <2>1, <2>2, <2>3 DEF Clean, Accounted, Owned
  <2>6. HeapIs'
    BY <1>2, <1>3, <2>1, <2>2 DEF Clean, HeapIs, Owned
  <2>7. BusyIsUp' /\ Filled' /\ Injective' /\ OwnersOnly'
    BY <1>2, <1>3, <1>5, <2>1 DEF Clean, BusyIsUp, Filled, Injective, OwnersOnly
  <2>8. Matching'
    BY <1>2, <1>3, <2>1, <2>2, <2>3 DEF Clean, Matching, Owned
  <2>9. QED
    BY <2>4, <2>5, <2>6, <2>7, <2>8 DEF Clean
<1>6. QED
  BY <1>4, <1>5

\* DiagSvc_Free gives the slot back, and t its only owner with it.
LEMMA ReturnClean ==
  ASSUME TypeOK, Clean, NEW t \in Thread, F_Return(t)
  PROVE  Clean'
<1> USE DEF TypeOK, Go, F_Return, main
<1>1. PICK x \in Item : /\ x[1] = svc[t] /\ ptr[x] = buf[t]
                        /\ in_use' = [in_use EXCEPT ![x] = FALSE]
  BY DEF IsFirst, Home
<1>2. Owns(t) /\ t \in Owned /\ buf[t] # Null /\ ~Owns(t)' /\ buf'[t] = Null /\ pc'[t] = "idle"
  BY DEF Owns, Owned, Clean, OwnersOnly
<1>3. \A u \in Thread \ {t} : (Owns(u)' <=> Owns(u)) /\ buf'[u] = buf[u] /\ pc'[u] = pc[u]
  BY DEF Owns
<1>4. Owned' = Owned \ {t}
  BY <1>2, <1>3 DEF Owned
<1>5. \A u \in Owned' : buf[u] # ptr[x]
  BY <1>1, <1>2, <1>4 DEF Clean, Distinct
<1>6. Distinct'
  BY <1>3, <1>4 DEF Clean, Distinct, Owned
<1>7. Accounted'
  <2>1. ASSUME NEW y \in Item, y # x
        PROVE  in_use'[y] <=> \E u \in Owned' : buf'[u] = ptr'[y] /\ svc'[u] = y[1]
    <3>1. in_use'[y] = in_use[y] /\ ptr[y] # buf[t]
      BY <1>1, <1>2, <2>1 DEF Clean, Injective
    <3>2. in_use[y] <=> \E u \in Owned : buf[u] = ptr[y] /\ svc[u] = y[1]
      BY DEF Clean, Accounted
    <3>3. \A u \in Owned : u # t => u \in Owned' /\ buf'[u] = buf[u]
      BY <1>3, <1>4 DEF Owned
    <3>4. \A u \in Owned' : u \in Owned /\ buf'[u] = buf[u]
      BY <1>3, <1>4 DEF Owned
    <3>5. QED
      BY <3>1, <3>2, <3>3, <3>4
  <2>2. ~in_use'[x] /\ \A u \in Owned' : buf'[u] # ptr'[x]
    BY <1>1, <1>3, <1>4, <1>5 DEF Owned
  <2>3. QED
    BY <2>1, <2>2 DEF Accounted
<1>8. HeapIs'
  BY <1>1, <1>3, <1>4 DEF Clean, HeapIs, Owned
<1>9. BusyIsUp' /\ Filled' /\ Injective' /\ OwnersOnly'
  BY <1>2, <1>3 DEF Clean, BusyIsUp, Filled, Injective, OwnersOnly
<1>10. Matching'
  BY <1>3, <1>4 DEF Clean, Matching, Owned
<1>11. QED
  BY <1>6, <1>7, <1>8, <1>9, <1>10 DEF Clean

\* What DiagSvc_Free hands to free is t's block from the heap, in no pool.
LEMMA FreeClean ==
  ASSUME TypeOK, Clean, NEW t \in Thread, F_Heap(t)
  PROVE  Clean'
<1> USE DEF TypeOK, Go, F_Heap, pools, main
<1>1. Owns(t) /\ t \in Owned /\ buf[t] # Null /\ ~Owns(t)' /\ buf'[t] = Null /\ pc'[t] = "idle"
  BY DEF Owns, Owned, Clean, OwnersOnly
<1>2. \A u \in Thread \ {t} : (Owns(u)' <=> Owns(u)) /\ buf'[u] = buf[u] /\ pc'[u] = pc[u]
  BY DEF Owns
<1>3. Owned' = Owned \ {t}
  BY <1>1, <1>2 DEF Owned
<1>4. (\A x \in Item : ptr[x] # buf[t]) /\ \A u \in Owned' : buf[u] # buf[t]
  BY <1>1, <1>3 DEF Clean, Matching, Distinct
<1>5. Distinct'
  BY <1>2, <1>3 DEF Clean, Distinct, Owned
<1>6. Accounted'
  BY <1>2, <1>3, <1>4 DEF Clean, Accounted, Owned
<1>7. HeapIs'
  BY <1>2, <1>3, <1>4 DEF Clean, HeapIs, Owned
<1>8. BusyIsUp' /\ Filled' /\ Injective' /\ OwnersOnly'
  BY <1>1, <1>2 DEF Clean, BusyIsUp, Filled, Injective, OwnersOnly
<1>9. Matching'
  BY <1>2, <1>3 DEF Clean, Matching, Owned
<1>10. QED
  BY <1>5, <1>6, <1>7, <1>8, <1>9 DEF Clean

-----------------------------------------------------------------------------
(* The thread that runs Init and Exit.                                      *)

\* Before the service is up nobody is busy, so nothing is owned and no slot in use.
LEMMA NobodyBusy ==
  ASSUME Clean, mainPc \notin {"up", "x_clear"} \/ ~initialized
  PROVE  Quiet /\ Owned = {} /\ \A x \in Item : ~in_use[x]
<1>1. Quiet
  BY DEF Clean, BusyIsUp, Quiet
<1>2. Owned = {}
  BY <1>1 DEF Quiet, Owned, Owns
<1>3. QED
  BY <1>1, <1>2 DEF Clean, Accounted

\* DiagSvc_Malloc_Init fills the slots one by one.
LEMMA InitClean ==
  ASSUME TypeOK, Clean, I_Enter \/ I_Alloc \/ I_Mark \/ I_Flag
  PROVE  Clean'
<1> USE DEF TypeOK
<1>1. Quiet /\ Owned = {} /\ (\A x \in Item : ~in_use[x]) /\ ~initialized
  BY NobodyBusy DEF Clean, Filled, I_Enter, I_Alloc, I_Mark, I_Flag
<1>2. Owned' = {} /\ Quiet' /\ UNCHANGED users
  <2>1. UNCHANGED users
    BY DEF I_Enter, I_Alloc, I_Mark, I_Flag
  <2>2. Owned' = Owned /\ Quiet'
    BY <1>1, <2>1 DEF users, Quiet, Owned, Owns
  <2>3. QED
    BY <1>1, <2>1, <2>2
<1>3. Distinct' /\ OwnersOnly' /\ Matching'
  BY <1>2 DEF Clean, Distinct, OwnersOnly, Matching, users, Owns
<1>4. BusyIsUp'
  BY <1>2 DEF BusyIsUp, Quiet
<1>5. \A x \in Item : ~in_use'[x]
  <2>1. CASE I_Mark
    BY <1>1, <2>1 DEF I_Mark
  <2>2. CASE I_Enter \/ I_Alloc \/ I_Flag
    BY <1>1, <2>2 DEF I_Enter, I_Alloc, I_Flag, pools
  <2>3. QED
    BY <2>1, <2>2
<1>6. Accounted'
  BY <1>2, <1>5 DEF Accounted
<1>7. CASE I_Enter \/ I_Mark \/ I_Flag
  <2>1. ptr' = ptr /\ live' = live
    BY <1>7 DEF I_Enter, I_Mark, I_Flag, pools
  <2>2. HeapIs' /\ Injective'
    BY <1>1, <1>2, <2>1 DEF Clean, HeapIs, Injective
  <2>3. Filled'
    <3>1. \A x \in Item : x[2] \in 1 .. MaxItems
      BY DEF Item
    <3>2. CASE I_Enter
      BY <1>1, <2>1, <3>1, <3>2, DiagPoolAssumption DEF I_Enter, Clean, Filled
    <3>3. CASE I_Mark
      BY <1>1, <2>1, <3>1, <3>3, DiagPoolAssumption DEF I_Mark, Clean, Filled
    <3>4. CASE I_Flag
      BY <1>1, <2>1, <3>4 DEF I_Flag, Clean, Filled
    <3>5. QED
      BY <1>7, <3>2, <3>3, <3>4
  <2>4. QED
    BY <1>3, <1>4, <1>6, <2>2, <2>3 DEF Clean
<1>8. CASE I_Alloc
  <2> DEFINE gen == <<"GEN_SVC_ID", item>>  pkt == <<"PKT_SVC_ID", item>>
  <2>1. PICK g \in Fresh, k \in Fresh :
             /\ g = k => g = Null
             /\ ptr' = [ptr EXCEPT ![gen] = g, ![pkt] = k]
             /\ live' = (live \cup {g, k}) \ {Null}
             /\ mainPc' = IF Null \in {g, k} THEN "x_clear" ELSE "i_mark"
    BY <1>8 DEF I_Alloc
  <2>2. gen \in Item /\ pkt \in Item /\ gen # pkt /\ ptr[gen] = Null /\ ptr[pkt] = Null
    BY <1>8 DEF I_Alloc, Clean, Filled, Item, Pool
  <2>3. \A x \in Item : ptr'[x] = IF x = gen THEN g ELSE IF x = pkt THEN k ELSE ptr[x]
    BY <2>1, <2>2
  <2> HIDE DEF gen, pkt
  <2>4. \A x \in Item : ptr[x] # Null => ptr[x] \in live
    BY DEF Clean, HeapIs
  <2>5. HeapIs'
    BY <1>1, <1>2, <2>1, <2>2, <2>3, DiagPoolAssumption DEF Clean, HeapIs, Fresh
  <2>6. Injective'
    BY <2>1, <2>2, <2>3, <2>4 DEF Clean, Injective, Fresh
  <2>7. Filled'
    <3>1. mainPc = "i_alloc" /\ item' = item /\ initialized' = initialized /\ mainPc' \in {"x_clear", "i_mark"}
      BY <1>8, <2>1 DEF I_Alloc
    <3>2. ASSUME mainPc' = "i_mark", NEW x \in Item PROVE (ptr'[x] = Null) <=> (x[2] > item)
      <4>1. g # Null /\ k # Null
        BY <2>1, <3>2
      <4>2. x[2] \in 1 .. MaxItems /\ (x[2] = item => x = gen \/ x = pkt)
        BY DEF Item, Pool, gen, pkt
      <4>3. gen[2] = item /\ pkt[2] = item
        BY DEF gen, pkt
      <4>4. (ptr[x] = Null) <=> (x[2] >= item)
        BY <3>1 DEF Clean, Filled
      <4>5. x[2] \in Nat /\ item \in Nat
        BY <4>2, DiagPoolAssumption
      <4>6. CASE x[2] = item
        BY <2>3, <4>1, <4>2, <4>5, <4>6
      <4>7. CASE x[2] # item
        BY <2>3, <4>3, <4>4, <4>5, <4>7
      <4>8. QED
        BY <4>6, <4>7
    <3>3. QED
      BY <1>1, <3>1, <3>2 DEF Filled
  <2>8. QED
    BY <1>3, <1>4, <1>6, <2>5, <2>6, <2>7 DEF Clean
<1>9. QED
  BY <1>7, <1>8

\* Deciding to leave and clearing the flag change no buffer (DiagSvc_Malloc_Exit's ends).
LEMMA ExitEndsClean ==
  ASSUME TypeOK, Clean, X_Enter \/ X_Flag
  PROVE  Clean'
<1> USE DEF TypeOK
<1>1. UNCHANGED pools /\ UNCHANGED users /\ live' = live /\ UNCHANGED item
  BY DEF X_Enter, X_Flag
<1>2. Owned' = Owned
  BY <1>1 DEF users, Owned, Owns
<1>3. Distinct' /\ HeapIs' /\ Accounted' /\ OwnersOnly' /\ Injective' /\ Matching'
  BY <1>1, <1>2 DEF Clean, Distinct, HeapIs, Accounted, OwnersOnly, Injective, Matching, users, pools, Owns
<1>4. Filled'
  BY <1>1 DEF Clean, Filled, pools, X_Enter, X_Flag
<1>5. BusyIsUp'
  <2>1. CASE X_Enter
    BY <1>1, <2>1 DEF X_Enter, Clean, BusyIsUp, users
  <2>2. CASE X_Flag
    <3>1. Quiet
      BY <2>2, NobodyBusy DEF X_Flag
    <3>2. QED
      BY <1>1, <3>1 DEF Quiet, BusyIsUp, users
  <2>3. QED
    BY <2>1, <2>2
<1>6. QED
  BY <1>3, <1>4, <1>5 DEF Clean

\* When nobody is inside a call or has a buffer, Exit gives every block back to the heap.
LEMMA ClearClean ==
  ASSUME TypeOK, Clean, X_Clear, ~rude'
  PROVE  Clean'
<1> USE DEF TypeOK
<1>1. Quiet /\ UNCHANGED users
  BY DEF X_Clear
<1>2. Owned = {} /\ Owned' = {} /\ Quiet'
  BY <1>1 DEF Quiet, Owned, Owns, users
<1>3. \A x \in Item : ptr'[x] = Null /\ ~in_use'[x]
  BY DEF X_Clear
<1>4. Distinct' /\ Accounted' /\ OwnersOnly' /\ Injective' /\ Matching'
  BY <1>1, <1>2, <1>3 DEF Clean, Distinct, Accounted, OwnersOnly, Injective, Matching, users, Owns
<1>5. HeapIs'
  BY <1>2, <1>3, DiagPoolAssumption DEF Clean, HeapIs, X_Clear
<1>6. BusyIsUp' /\ Filled'
  BY <1>2, <1>3 DEF BusyIsUp, Filled, Quiet, X_Clear
<1>7. QED
  BY <1>4, <1>5, <1>6 DEF Clean

-----------------------------------------------------------------------------
\* Every step keeps the inductive invariant.
LEMMA Inductive == IInv /\ [Next]_vars => IInv'
<1> SUFFICES ASSUME IInv, [Next]_vars PROVE IInv'
  OBVIOUS
<1>1. TypeOK /\ TypeOK'
  BY TypeStep DEF IInv
<1>2. SUFFICES ASSUME ~rude' PROVE Clean'
  BY <1>1 DEF IInv
<1>3. CASE UNCHANGED vars
  <2>1. Clean
    BY <1>2, <1>3 DEF IInv, vars
  <2>2. QED
    BY <1>3, <2>1 DEF vars, pools, main, users, Clean, Distinct, Accounted, HeapIs, BusyIsUp,
                      OwnersOnly, Filled, Injective, Matching, Owned, Owns
<1>4. ASSUME Next PROVE ~rude
  <2>1. rude \in BOOLEAN
    BY <1>1 DEF TypeOK
  <2>2. rude = TRUE => rude' = TRUE
    BY <1>4 DEF Next, User, Main, M_Enter, M_Take, M_Exhausted, M_Heap, F_Enter, F_Early,
                 F_Return, F_NotFound, F_Heap, I_Enter, I_Alloc, I_Mark, I_Flag, X_Enter, X_Clear, X_Flag
  <2>3. QED
    BY <1>2, <2>1, <2>2
<1>5. ASSUME NEW t \in Thread, User(t), Clean PROVE Clean'
  <2>1. ~F_Early(t)
    BY <1>5 DEF F_Early, Clean, BusyIsUp
  <2>2. ASSUME NEW p \in Pool, NEW large \in BOOLEAN, M_Enter(t, p, large) PROVE Clean'
    BY <1>1, <1>2, <1>5, <2>2, EnterClean
  <2>3. CASE M_Take(t)
    BY <1>1, <1>5, <2>3, TakeClean
  <2>4. CASE M_Exhausted(t) \/ F_Enter(t) \/ F_NotFound(t)
    BY <1>1, <1>5, <2>4, MoveClean
  <2>5. CASE M_Heap(t)
    BY <1>1, <1>5, <2>5, HeapClean
  <2>6. CASE F_Return(t)
    BY <1>1, <1>5, <2>6, ReturnClean
  <2>7. CASE F_Heap(t)
    BY <1>1, <1>5, <2>7, FreeClean
  <2>8. QED
    BY <1>5, <2>1, <2>2, <2>3, <2>4, <2>5, <2>6, <2>7 DEF User
<1>6. ASSUME Main, Clean PROVE Clean'
  <2>1. CASE I_Enter \/ I_Alloc \/ I_Mark \/ I_Flag
    BY <1>1, <1>6, <2>1, InitClean
  <2>2. CASE X_Enter \/ X_Flag
    BY <1>1, <1>6, <2>2, ExitEndsClean
  <2>3. CASE X_Clear
    BY <1>1, <1>2, <1>6, <2>3, ClearClean
  <2>4. QED
    BY <1>6, <2>1, <2>2, <2>3 DEF Main
<1>7. QED
  BY <1>3, <1>4, <1>5, <1>6 DEF Next, IInv

\* In every reachable state the inductive invariant holds.
LEMMA Invariant == Spec => []IInv
<1>1. ASSUME Init PROVE IInv
  <2>1. TypeOK
    <3>1. in_use \in [Item -> BOOLEAN] /\ ptr \in [Item -> Block \cup {Null}]
      BY <1>1 DEF Init
    <3>2. initialized \in BOOLEAN /\ rude \in BOOLEAN
      BY <1>1 DEF Init
    <3>3. pc \in [Thread -> UserPc] /\ svc \in [Thread -> Pool] /\ buf \in [Thread -> Block \cup {Null}]
      BY <1>1 DEF Init, UserPc, Pool
    <3>4. item \in 1 .. MaxItems /\ lives \in Nat /\ live \subseteq Block /\ mainPc = "down"
      BY <1>1, DiagPoolAssumption DEF Init
    <3>5. QED
      BY <3>1, <3>2, <3>3, <3>4 DEF TypeOK
  <2>2. \A t \in Thread : ~Owns(t)
    BY <1>1 DEF Init, Owns
  <2>3. Owned = {}
    BY <2>2 DEF Owned
  <2>4. Clean
    BY <1>1, <2>2, <2>3, DiagPoolAssumption DEF Init, Clean, Distinct, Accounted, HeapIs, BusyIsUp, OwnersOnly, Filled,
                               Injective, Matching
  <2>5. QED
    BY <2>1, <2>4 DEF IInv
<1>2. QED
  BY <1>1, Inductive, PTL DEF Spec

\* The types hold in every reachable state.
THEOREM TypeCorrect == Spec => []TypeOK
<1>1. IInv => TypeOK
  BY DEF IInv
<1>2. QED
  BY <1>1, Invariant, PTL

\* No buffer has two owners before an Exit overlaps a use (DiagSvc_Malloc).
THEOREM SingleOwner == Spec => []OneOwner
<1>1. IInv => OneOwner
  BY DEF IInv, Clean, OneOwner
<1>2. QED
  BY <1>1, Invariant, PTL

\* The slots in use are those with an owner, before an Exit overlaps a use (DiagSvc_Free).
THEOREM SlotsAccounted == Spec => []PoolAccount
<1>1. IInv => PoolAccount
  BY DEF IInv, Clean, PoolAccount
<1>2. QED
  BY <1>1, Invariant, PTL

\* Nothing leaks and nothing in use is freed, before an Exit overlaps a use
\* (DiagSvc_Malloc_Init, DiagSvc_Malloc_Exit).
THEOREM HeapAccounted == Spec => []HeapAccount
<1>1. IInv => HeapAccount
  BY DEF IInv, Clean, HeapAccount
<1>2. QED
  BY <1>1, Invariant, PTL
=============================================================================
