--------------------------- MODULE DciClientProof ---------------------------
(***************************************************************************)
(* The client table of DCI, proved for every number of processors,         *)
(* threads, registrations and requests: the lists of requests hold what is *)
(* allocated, whatever threads call, until something freed is used; and    *)
(* for one application thread, nothing freed is used and a response meets  *)
(* the handler of its request.                                             *)
(* DciClient's IInv is inductive; each part has a lemma with a step for    *)
(* each action.                                                            *)
(***************************************************************************)
EXTENDS DciClient, TLAPS, SequenceTheorems

-----------------------------------------------------------------------------
(* Lists without duplicates.                                                *)

\* RemoveAt closes the gap.
LEMMA Removed ==
  ASSUME NEW S, NEW s \in Seq(S), NEW i \in 1..Len(s)
  PROVE  /\ RemoveAt(s, i) \in Seq(S)
         /\ Len(RemoveAt(s, i)) = Len(s) - 1
         /\ \A j \in 1..(Len(s) - 1) : RemoveAt(s, i)[j] = IF j < i THEN s[j] ELSE s[j + 1]
<1> DEFINE a == SubSeq(s, 1, i - 1)
           b == SubSeq(s, i + 1, Len(s))
<1>1. a \in Seq(S) /\ Len(a) = i - 1 /\ \A j \in 1..(i - 1) : a[j] = s[j]
  OBVIOUS
<1>2. b \in Seq(S) /\ Len(b) = Len(s) - i /\ \A j \in 1..(Len(s) - i) : b[j] = s[i + j]
  OBVIOUS
<1>3. RemoveAt(s, i) = a \o b
  BY DEF RemoveAt
<1> HIDE DEF a, b
<1>4. /\ a \o b \in Seq(S) /\ Len(a \o b) = Len(a) + Len(b)
      /\ \A j \in 1..(Len(a) + Len(b)) : (a \o b)[j] = IF j <= Len(a) THEN a[j] ELSE b[j - Len(a)]
  BY <1>1, <1>2, ConcatProperties
<1> DEFINE c == a \o b
<1>5. /\ c \in Seq(S) /\ Len(c) = Len(a) + Len(b)
      /\ \A j \in 1..(Len(a) + Len(b)) : c[j] = IF j <= Len(a) THEN a[j] ELSE b[j - Len(a)]
  BY <1>4
<1> HIDE DEF c
<1>6. ASSUME NEW j \in 1..(Len(s) - 1) PROVE c[j] = IF j < i THEN s[j] ELSE s[j + 1]
  <2>1. CASE j < i
    <3>1. j \in 1..(Len(a) + Len(b)) /\ j <= Len(a) /\ j \in 1..(i - 1)
      BY <1>1, <1>2, <2>1
    <3>2. QED BY <1>1, <1>5, <2>1, <3>1
  <2>2. CASE j >= i
    <3>1. j \in 1..(Len(a) + Len(b)) /\ j > Len(a) /\ Len(a) = i - 1
      BY <1>1, <1>2, <2>2
    <3>2. c[j] = b[j - (i - 1)]
      BY <1>5, <3>1
    <3>3. j - (i - 1) \in 1..(Len(s) - i) /\ i + (j - (i - 1)) = j + 1
      BY <2>2
    <3>4. QED BY <1>2, <2>2, <3>2, <3>3
  <2>3. QED BY <2>1, <2>2
<1>7. Len(c) = Len(s) - 1
  BY <1>1, <1>2, <1>5
<1>8. QED BY <1>3, <1>5, <1>6, <1>7 DEF c

\* Without its entry at i, a list without duplicates has all other entries, each once.
LEMMA RemovedSet ==
  ASSUME NEW S, NEW s \in Seq(S), NEW i \in 1..Len(s), IsInjective(s)
  PROVE  ToSet(RemoveAt(s, i)) = ToSet(s) \ {s[i]} /\ IsInjective(RemoveAt(s, i))
<1> DEFINE r == RemoveAt(s, i)
<1>1. /\ r \in Seq(S) /\ Len(r) = Len(s) - 1
      /\ \A j \in 1..(Len(s) - 1) : r[j] = IF j < i THEN s[j] ELSE s[j + 1]
  BY Removed
<1>2. DOMAIN s = 1..Len(s) /\ DOMAIN r = 1..(Len(s) - 1)
  BY <1>1
<1>3. \A j, k \in 1..Len(s) : s[j] = s[k] => j = k
  BY <1>2 DEF IsInjective
<1> HIDE DEF r
<1>4. ASSUME NEW j \in 1..(Len(s) - 1) PROVE r[j] \in ToSet(s) \ {s[i]}
  <2>1. CASE j < i
    BY <1>1, <1>2, <1>3, <2>1 DEF ToSet
  <2>2. CASE j >= i
    BY SMTT(30), <1>1, <1>2, <1>3, <2>2 DEF ToSet
  <2>3. QED BY <2>1, <2>2
<1>5. ASSUME NEW j \in 1..Len(s), j # i PROVE s[j] \in ToSet(r)
  <2>1. CASE j < i
    BY <1>1, <1>2, <2>1 DEF ToSet
  <2>2. CASE j > i
    <3>1. j - 1 \in 1..(Len(s) - 1) /\ r[j - 1] = s[j]
      BY <1>1, <2>2
    <3>2. QED BY <1>2, <3>1 DEF ToSet
  <2>3. QED BY <1>5, <2>1, <2>2
<1>6. ToSet(r) = ToSet(s) \ {s[i]}
  BY <1>2, <1>3, <1>4, <1>5 DEF ToSet
<1>7. ASSUME NEW j \in 1..(Len(s) - 1), NEW k \in 1..(Len(s) - 1), r[j] = r[k] PROVE j = k
  <2>1. \A m, n \in 1..(Len(s) - 1) :
          /\ m < i /\ n < i => m = n \/ s[m] # s[n]
          /\ m < i /\ n >= i => s[m] # s[n + 1]
          /\ m >= i /\ n >= i => m = n \/ s[m + 1] # s[n + 1]
    BY <1>3
  <2>2. QED BY <1>1, <1>7, <2>1
<1>8. IsInjective(r)
  BY <1>2, <1>7 DEF IsInjective
<1>9. QED BY <1>6, <1>8 DEF r

\* A new entry at the end of such a list.
LEMMA AppendedSet ==
  ASSUME NEW S, NEW s \in Seq(S), NEW e \in S
  PROVE  /\ Append(s, e) \in Seq(S)
         /\ ToSet(Append(s, e)) = ToSet(s) \cup {e}
         /\ IsInjective(s) /\ e \notin ToSet(s) => IsInjective(Append(s, e))
<1> DEFINE r == Append(s, e)
<1>1. /\ r \in Seq(S) /\ DOMAIN r = 1..(Len(s) + 1) /\ DOMAIN s = 1..Len(s)
      /\ r[Len(s) + 1] = e /\ \A j \in 1..Len(s) : r[j] = s[j]
  OBVIOUS
<1> HIDE DEF r
<1>2. ToSet(r) = ToSet(s) \cup {e}
  BY <1>1 DEF ToSet
<1>3. ASSUME IsInjective(s), e \notin ToSet(s) PROVE IsInjective(r)
  BY <1>1, <1>3 DEF IsInjective, ToSet
<1>4. QED BY <1>1, <1>2, <1>3 DEF r

-----------------------------------------------------------------------------
(* The lists of requests.                                                   *)

\* A step that leaves the lists alone, in which no call comes by an entry, keeps Lists.
LEMMA ListsKept ==
  ASSUME Lists, UNCHANGED <<tracked, live, reqs>>,
         \A u \in Thread : pc'[u] \in HasEntry =>
           pc[u] \in HasEntry /\ mine'[u] = mine[u] /\ slot'[u] = slot[u]
  PROVE  Lists'
<1>1. EachOnce'
  BY DEF Lists, EachOnce
<1>2. QED BY <1>1 DEF Lists

\* So does the deletion of an entry that is in the list named.
LEMMA DeleteKeeps ==
  ASSUME Calls, Lists, NEW q \in Proc, NEW e \in ToSet(tracked[q]), Delete(q, e),
         reqs' = reqs,
         \A u \in Thread : pc'[u] \in HasEntry =>
           pc[u] \in HasEntry /\ mine'[u] = mine[u] /\ slot'[u] = slot[u]
  PROVE  Lists'
<1>1. /\ tracked' \in [Proc -> Seq(Entry)]
      /\ ToSet(tracked'[q]) = ToSet(tracked[q]) \ {e} /\ IsInjective(tracked'[q])
      /\ \A p \in Proc : p # q => tracked'[p] = tracked[p]
  <2>2. ASSUME NEW i \in 1..Len(tracked[q]), tracked[q][i] = e,
               tracked' = [tracked EXCEPT ![q] = RemoveAt(@, i)]
        PROVE  /\ tracked' \in [Proc -> Seq(Entry)]
               /\ ToSet(tracked'[q]) = ToSet(tracked[q]) \ {e} /\ IsInjective(tracked'[q])
               /\ \A p \in Proc : p # q => tracked'[p] = tracked[p]
    <3>1. tracked[q] \in Seq(Entry) /\ IsInjective(tracked[q])
      BY DEF Lists, EachOnce
    <3>2. /\ RemoveAt(tracked[q], i) \in Seq(Entry)
          /\ ToSet(RemoveAt(tracked[q], i)) = ToSet(tracked[q]) \ {e}
          /\ IsInjective(RemoveAt(tracked[q], i))
      BY <2>2, <3>1, Removed, RemovedSet
    <3>3. tracked \in [Proc -> Seq(Entry)]
      BY DEF Lists
    <3>4. /\ tracked' \in [Proc -> Seq(Entry)] /\ tracked'[q] = RemoveAt(tracked[q], i)
          /\ \A p \in Proc : p # q => tracked'[p] = tracked[p]
      BY ONLY <2>2, <3>2, <3>3
    <3>5. QED BY ONLY <3>2, <3>4
  <2>3. QED BY <2>2 DEF Delete, Unlink
<1>2. live' = live \ {e}
  BY DEF Delete
<1>3. \A p \in Proc : ToSet(tracked'[p]) = ToSet(tracked[p]) \ {e} /\ IsInjective(tracked'[p])
  <2> SUFFICES ASSUME NEW p \in Proc, p # q
               PROVE  ToSet(tracked[p]) = ToSet(tracked[p]) \ {e} /\ IsInjective(tracked[p])
    BY <1>1
  <2>1. e \notin ToSet(tracked[p])
    BY DEF Lists, EachOnce
  <2>2. QED BY <2>1 DEF Lists, EachOnce
<1>4. EachOnce'
  <2>1. live = UNION {ToSet(tracked[p]) : p \in Proc}
    BY DEF Lists, EachOnce
  <2>2. live' = UNION {ToSet(tracked'[p]) : p \in Proc}
    <3>1. ASSUME NEW x PROVE x \in live' <=> \E p \in Proc : x \in ToSet(tracked'[p])
      <4>1. x \in live <=> \E p \in Proc : x \in ToSet(tracked[p])
        BY ONLY <2>1
      <4>2. x \in live' <=> x \in live /\ x # e
        BY ONLY <1>2
      <4>3. \A p \in Proc : x \in ToSet(tracked'[p]) <=> x \in ToSet(tracked[p]) /\ x # e
        BY ONLY <1>3
      <4>4. QED BY ONLY <4>1, <4>2, <4>3
    <3>2. QED BY ONLY <3>1
  <2>3. \A p, r \in Proc : p # r => ToSet(tracked'[p]) \cap ToSet(tracked'[r]) = {}
    BY <1>3 DEF Lists, EachOnce
  <2>4. QED BY <1>3, <2>2, <2>3 DEF EachOnce
<1>5. \A u \in Thread : pc'[u] \in HasEntry =>
        mine'[u] \in 1..reqs' /\ (mine'[u] \in live' => mine'[u] \in ToSet(tracked'[slot'[u]]))
  BY <1>2, <1>3 DEF Lists, Calls
<1>6. QED BY <1>1, <1>3, <1>4, <1>5 DEF Lists

\* diag_register_dci_pkt adds an entry that was in no list.
LEMMA TrackKeeps == ASSUME Calls, Lists, NEW t \in Thread, S_Track(t) PROVE Lists'
<1> DEFINE q == slot[t]  e == reqs + 1
<1>1. /\ q \in Proc /\ reqs \in 0..MaxReq /\ e \in Entry
      /\ tracked \in [Proc -> Seq(Entry)]
      /\ \A p \in Proc : ToSet(tracked[p]) \subseteq 1..reqs
  BY DciAssumption DEF Calls, Lists, S_Track, Entry, DciAssumption
<1>2. /\ reqs' = e /\ tracked' = [tracked EXCEPT ![q] = Append(@, e)]
      /\ live' = live \cup {e} /\ slot' = slot
      /\ mine' = [mine EXCEPT ![t] = e] /\ pc' = [pc EXCEPT ![t] = "fill"]
  BY DEF S_Track, Goto
<1> HIDE DEF q, e
<1>3. tracked[q] \in Seq(Entry) /\ IsInjective(tracked[q]) /\ e \notin ToSet(tracked[q])
  BY <1>1 DEF Lists, EachOnce, e
<1>4. /\ Append(tracked[q], e) \in Seq(Entry)
      /\ ToSet(Append(tracked[q], e)) = ToSet(tracked[q]) \cup {e}
      /\ IsInjective(Append(tracked[q], e))
  BY <1>1, <1>3, AppendedSet
<1>5. /\ tracked' \in [Proc -> Seq(Entry)]
      /\ tracked'[q] = Append(tracked[q], e)
      /\ \A p \in Proc : p # q => tracked'[p] = tracked[p]
  BY ONLY <1>1, <1>2, <1>4
<1>6. /\ ToSet(tracked'[q]) = ToSet(tracked[q]) \cup {e}
      /\ \A p \in Proc : p # q => ToSet(tracked'[p]) = ToSet(tracked[p])
      /\ \A p \in Proc : IsInjective(tracked'[p])
  BY <1>4, <1>5 DEF Lists, EachOnce
<1>7. \A p \in Proc : e \notin ToSet(tracked[p])
  BY <1>1 DEF e
<1>8. EachOnce'
  <2>1. live = UNION {ToSet(tracked[p]) : p \in Proc}
    BY DEF Lists, EachOnce
  <2>2. live' = UNION {ToSet(tracked'[p]) : p \in Proc}
    <3>1. ASSUME NEW x PROVE x \in live' <=> \E p \in Proc : x \in ToSet(tracked'[p])
      <4>1. x \in live' <=> x = e \/ \E p \in Proc : x \in ToSet(tracked[p])
        BY ONLY <1>2, <2>1
      <4>2. \A p \in Proc : x \in ToSet(tracked'[p]) <=> x \in ToSet(tracked[p]) \/ (p = q /\ x = e)
        BY ONLY <1>6
      <4>3. q \in Proc
        BY <1>1
      <4>4. QED BY ONLY <4>1, <4>2, <4>3
    <3>2. QED BY ONLY <3>1
  <2>3. \A p, r \in Proc : p # r => ToSet(tracked'[p]) \cap ToSet(tracked'[r]) = {}
    BY SMTT(30), <1>6, <1>7 DEF Lists, EachOnce
  <2>4. QED BY <1>6, <2>2, <2>3 DEF EachOnce
<1>9. \A p \in Proc : ToSet(tracked'[p]) \subseteq 1..reqs'
  BY <1>1, <1>2, <1>6 DEF e
<1>10. ASSUME NEW u \in Thread, pc'[u] \in HasEntry
       PROVE  mine'[u] \in 1..reqs' /\ (mine'[u] \in live' => mine'[u] \in ToSet(tracked'[slot'[u]]))
  <2>1. CASE u = t
    BY <1>1, <1>2, <1>6, <2>1 DEF Calls, e, q
  <2>2. CASE u # t
    <3>1. /\ pc[u] \in HasEntry /\ mine'[u] = mine[u] /\ mine[u] \in 1..reqs /\ slot[u] \in Proc
          /\ mine[u] \in live => mine[u] \in ToSet(tracked[slot[u]])
      BY <1>2, <1>10, <2>2 DEF Calls, Lists
    <3>2. QED BY <1>1, <1>2, <1>6, <3>1 DEF e
  <2>3. QED BY <2>1, <2>2
<1>11. QED BY <1>5, <1>8, <1>9, <1>10 DEF Lists

\* diag_release_dci_client frees a whole list.
LEMMA PurgeKeeps == ASSUME Calls, Lists, NEW t \in Thread, L_Purge(t) PROVE Lists'
<1> DEFINE q == slot[t]
<1>1. /\ q \in Proc /\ tracked \in [Proc -> Seq(Entry)]
      /\ live' = live \ ToSet(tracked[q]) /\ tracked' = [tracked EXCEPT ![q] = <<>>]
      /\ UNCHANGED <<reqs, mine, slot>> /\ pc' = [pc EXCEPT ![t] = "free"]
  BY DEF Calls, Lists, L_Purge, Goto, tlocal
<1> HIDE DEF q
<1>2. /\ tracked' \in [Proc -> Seq(Entry)] /\ tracked'[q] = <<>>
      /\ \A p \in Proc : p # q => tracked'[p] = tracked[p]
  BY ONLY <1>1
<1>3. ToSet(<<>>) = {} /\ IsInjective(<<>>)
  BY DEF ToSet, IsInjective
<1>4. EachOnce'
  BY <1>1, <1>2, <1>3 DEF Lists, EachOnce
<1>5. \A u \in Thread : pc'[u] \in HasEntry =>
        mine'[u] \in 1..reqs' /\ (mine'[u] \in live' => mine'[u] \in ToSet(tracked'[slot'[u]]))
  BY <1>1, <1>2 DEF Lists, Calls, HasEntry
<1>6. QED BY <1>1, <1>2, <1>3, <1>4, <1>5 DEF Lists

\* Each call keeps its place, and the driver's records their shape.
LEMMA CallsStep == Calls /\ [Next]_vars => Calls'
<1> SUFFICES ASSUME Calls, [Next]_vars PROVE Calls'
  OBVIOUS
<1> USE DEF Calls, HasBuf, HasEntry, NoHand, tlocal, table, heap, bufs, reader, kernel, vars
<1>0. 0 \in Proc
  BY DciAssumption DEF Proc
<1>1. ASSUME NEW t \in Thread, NEW p \in Proc, A_Register(t, p) PROVE Calls'
  BY <1>1 DEF A_Register, Goto
<1>2. ASSUME NEW t \in Thread, A_Registered(t) PROVE Calls'
  BY <1>2, <1>0 DEF A_Registered, Return, Goto
<1>3. ASSUME NEW t \in Thread, NEW p \in Proc, A_Stream(t, p) PROVE Calls'
  BY <1>3 DEF A_Stream, Call
<1>4. ASSUME NEW t \in Thread, NEW p \in Proc, A_Send(t, p) PROVE Calls'
  BY <1>4 DEF A_Send, A_Begin, Call, Found, Goto
<1>5. ASSUME NEW t \in Thread, NEW p \in Proc, A_Config(t, p) PROVE Calls'
  BY <1>5 DEF A_Config, A_Begin, Call, Found, Goto
<1>6. ASSUME NEW t \in Thread, NEW p \in Proc, A_Release(t, p) PROVE Calls'
  BY <1>6 DEF A_Release, Call, Found, Goto
<1>7. ASSUME NEW t \in Thread, S_Increment(t) PROVE Calls'
  BY <1>7 DEF S_Increment, Goto
<1>8. ASSUME NEW t \in Thread, S_Track(t) PROVE Calls'
  <2>1. reqs' = reqs + 1 /\ reqs < MaxReq /\ slot' = slot
        /\ mine' = [mine EXCEPT ![t] = reqs'] /\ UNCHANGED <<hand, outstanding>>
        /\ pc' = [pc EXCEPT ![t] = "fill"]
    BY <1>8 DEF S_Track, Goto
  <2>2. reqs' \in 0..MaxReq
    BY ONLY <2>1, Calls, DciAssumption DEF Calls, DciAssumption
  <2>3. QED BY ONLY <2>1, <2>2, Calls DEF Calls, HasBuf, HasEntry
<1>9. ASSUME NEW t \in Thread, S_Fill(t) PROVE Calls'
  BY <1>9 DEF S_Fill, Build, Goto
<1>10. ASSUME NEW t \in Thread, S_Config(t) PROVE Calls'
  BY <1>10 DEF S_Config, Build, Goto
<1>11. ASSUME NEW t \in Thread, S_Write(t) PROVE Calls'
  <2>1. ASSUME NEW x \in outstanding' \ outstanding PROVE IsOutstanding(x)
    BY <1>11, <2>1 DEF S_Write, Deliver, IsOutstanding
  <2>2. UNCHANGED <<reqs, hand>>
    BY <1>11 DEF S_Write
  <2>3. /\ pc' \in [Thread -> {"idle", "register", "purge", "free"} \cup HasBuf]
        /\ slot' \in [Thread -> Proc] /\ mine' \in [Thread -> Nat]
    BY <1>11, <1>0 DEF S_Write, Return, Goto
  <2>4. QED BY <2>1, <2>2, <2>3
<1>12. ASSUME NEW t \in Thread, S_Undo(t) PROVE Calls'
  BY <1>12, <1>0 DEF S_Undo, Delete, Unlink, Return, Goto
<1>13. ASSUME NEW t \in Thread, L_Purge(t) PROVE Calls'
  BY <1>13 DEF L_Purge, Goto
<1>14. ASSUME NEW t \in Thread, L_Free(t) PROVE Calls'
  BY <1>14, <1>0 DEF L_Free, Return, Goto
<1>15. ASSUME NEW o \in outstanding, R_Response(o) PROVE Calls'
  <2> DEFINE d == [o EXCEPT !.more = @ - 1]
  <2>1. d = [proc |-> o.proc, uid |-> o.uid, body |-> o.body, more |-> o.more - 1]
    BY DEF IsOutstanding
  <2>2. outstanding' \subseteq outstanding \cup {d}
    BY <1>15 DEF R_Response
  <2>3. IsOutstanding(d)
    BY <2>1 DEF IsOutstanding
  <2>4. \A x \in outstanding' : IsOutstanding(x)
    BY <2>2, <2>3
  <2>5. hand'.proc \in Proc /\ UNCHANGED <<pc, slot, mine, reqs>>
    BY <1>15 DEF R_Response, IsOutstanding
  <2>6. QED BY <2>4, <2>5
<1>16. ASSUME NEW p \in Proc, R_Log(p) PROVE Calls'
  BY <1>16, <1>0 DEF R_Log
<1>17. CASE R_Lookup
  BY <1>17, <1>0 DEF R_Lookup, Delete, Unlink, NextRead
<1>18. CASE R_Callback
  BY <1>18, <1>0 DEF R_Callback, NextRead
<1>19. CASE R_LogCallback
  BY <1>19, <1>0 DEF R_LogCallback, NextRead
<1>20. CASE UNCHANGED vars
  BY <1>20
<1>21. QED
  BY <1>1, <1>2, <1>3, <1>4, <1>5, <1>6, <1>7, <1>8, <1>9, <1>10, <1>11, <1>12, <1>13,
     <1>14, <1>15, <1>16, <1>17, <1>18, <1>19, <1>20
     DEF Next, Application, ReadThread

\* Through all interleavings of the calls and the read thread, an entry is in the list it was put
\* into until it is freed, by every step that uses nothing freed.
LEMMA ListsStep == Calls /\ Lists /\ ~misuse' /\ [Next]_vars => Lists'
<1> SUFFICES ASSUME Calls, Lists, ~misuse', [Next]_vars PROVE Lists'
  OBVIOUS
<1> USE DEF Calls, HasBuf, HasEntry, tlocal, table, heap, bufs, reader, kernel, vars
<1>1. ASSUME NEW t \in Thread, NEW p \in Proc, A_Register(t, p) PROVE Lists'
  BY <1>1, ListsKept DEF A_Register, Goto
<1>2. ASSUME NEW t \in Thread, A_Registered(t) PROVE Lists'
  BY <1>2, ListsKept DEF A_Registered, Return, Goto
<1>3. ASSUME NEW t \in Thread, NEW p \in Proc, A_Stream(t, p) PROVE Lists'
  BY <1>3, ListsKept DEF A_Stream, Call
<1>4. ASSUME NEW t \in Thread, NEW p \in Proc, A_Send(t, p) PROVE Lists'
  BY <1>4, ListsKept DEF A_Send, A_Begin, Call, Found, Goto
<1>5. ASSUME NEW t \in Thread, NEW p \in Proc, A_Config(t, p) PROVE Lists'
  BY <1>5, ListsKept DEF A_Config, A_Begin, Call, Found, Goto
<1>6. ASSUME NEW t \in Thread, NEW p \in Proc, A_Release(t, p) PROVE Lists'
  BY <1>6, ListsKept DEF A_Release, Call, Found, Goto
<1>7. ASSUME NEW t \in Thread, S_Increment(t) PROVE Lists'
  BY <1>7, ListsKept DEF S_Increment, Goto
<1>8. ASSUME NEW t \in Thread, S_Track(t) PROVE Lists'
  BY <1>8, TrackKeeps
<1>9. ASSUME NEW t \in Thread, S_Fill(t) PROVE Lists'
  BY <1>9, ListsKept DEF S_Fill, Build, Goto
<1>10. ASSUME NEW t \in Thread, S_Config(t) PROVE Lists'
  BY <1>10, ListsKept DEF S_Config, Build, Goto
<1>11. ASSUME NEW t \in Thread, S_Write(t) PROVE Lists'
  BY <1>11, ListsKept DEF S_Write, Deliver, Return, Goto
<1>12. ASSUME NEW t \in Thread, S_Undo(t) PROVE Lists'
  <2>1. /\ Delete(slot[t], mine[t]) /\ reqs' = reqs /\ pc[t] = "undo" /\ slot[t] \in Proc
        /\ \A u \in Thread : pc'[u] \in HasEntry =>
             pc[u] \in HasEntry /\ mine'[u] = mine[u] /\ slot'[u] = slot[u]
    BY <1>12 DEF S_Undo, Return, Goto
  <2>2. mine[t] \in live
    BY <1>12 DEF S_Undo
  <2>3. mine[t] \in ToSet(tracked[slot[t]])
    BY <2>1, <2>2 DEF Lists
  <2>4. QED BY <2>1, <2>3, DeleteKeeps
<1>13. ASSUME NEW t \in Thread, L_Purge(t) PROVE Lists'
  BY <1>13, PurgeKeeps
<1>14. ASSUME NEW t \in Thread, L_Free(t) PROVE Lists'
  BY <1>14, ListsKept DEF L_Free, Return, Goto
<1>15. ASSUME NEW o \in outstanding, R_Response(o) PROVE Lists'
  BY <1>15, ListsKept DEF R_Response
<1>16. ASSUME NEW p \in Proc, R_Log(p) PROVE Lists'
  BY <1>16, ListsKept DEF R_Log
<1>17. CASE R_Lookup
  <2>1. UNCHANGED <<pc, mine, slot, reqs>> /\ hand.proc \in Proc
    BY <1>17 DEF R_Lookup
  <2>2. CASE UNCHANGED <<live, tracked>>
    BY <2>1, <2>2, ListsKept
  <2>3. ASSUME NEW e \in ToSet(tracked[hand.proc]), Delete(hand.proc, e) PROVE Lists'
    BY <2>1, <2>3, DeleteKeeps
  <2>4. QED BY <1>17, <2>2, <2>3 DEF R_Lookup
<1>18. CASE R_Callback
  BY <1>18, ListsKept DEF R_Callback, NextRead
<1>19. CASE R_LogCallback
  BY <1>19, ListsKept DEF R_LogCallback, NextRead
<1>20. CASE UNCHANGED vars
  BY <1>20, ListsKept
<1>21. QED
  BY <1>1, <1>2, <1>3, <1>4, <1>5, <1>6, <1>7, <1>8, <1>9, <1>10, <1>11, <1>12, <1>13,
     <1>14, <1>15, <1>16, <1>17, <1>18, <1>19, <1>20
     DEF Next, Application, ReadThread

\* What was misused stays misused.
LEMMA MisuseStays == misuse /\ [Next]_vars => misuse'
<1> SUFFICES ASSUME misuse, [Next]_vars PROVE misuse'
  OBVIOUS
<1>1. ASSUME NEW t \in Thread, NEW p \in Proc, A_Register(t, p) PROVE misuse'
  BY <1>1 DEF A_Register
<1>2. ASSUME NEW t \in Thread, A_Registered(t) PROVE misuse'
  BY <1>2 DEF A_Registered
<1>3. ASSUME NEW t \in Thread, NEW p \in Proc, A_Stream(t, p) PROVE misuse'
  BY <1>3 DEF A_Stream
<1>4. ASSUME NEW t \in Thread, NEW p \in Proc, A_Send(t, p) PROVE misuse'
  BY <1>4 DEF A_Send, A_Begin
<1>5. ASSUME NEW t \in Thread, NEW p \in Proc, A_Config(t, p) PROVE misuse'
  BY <1>5 DEF A_Config, A_Begin
<1>6. ASSUME NEW t \in Thread, NEW p \in Proc, A_Release(t, p) PROVE misuse'
  BY <1>6 DEF A_Release
<1>7. ASSUME NEW t \in Thread, S_Increment(t) PROVE misuse'
  BY <1>7 DEF S_Increment
<1>8. ASSUME NEW t \in Thread, S_Track(t) PROVE misuse'
  BY <1>8 DEF S_Track
<1>9. ASSUME NEW t \in Thread, S_Fill(t) PROVE misuse'
  BY <1>9 DEF S_Fill, Build
<1>10. ASSUME NEW t \in Thread, S_Config(t) PROVE misuse'
  BY <1>10 DEF S_Config, Build
<1>11. ASSUME NEW t \in Thread, S_Write(t) PROVE misuse'
  BY <1>11 DEF S_Write
<1>12. ASSUME NEW t \in Thread, S_Undo(t) PROVE misuse'
  BY <1>12 DEF S_Undo
<1>13. ASSUME NEW t \in Thread, L_Purge(t) PROVE misuse'
  BY <1>13 DEF L_Purge
<1>14. ASSUME NEW t \in Thread, L_Free(t) PROVE misuse'
  BY <1>14 DEF L_Free
<1>15. ASSUME NEW o \in outstanding, R_Response(o) PROVE misuse'
  BY <1>15 DEF R_Response
<1>16. ASSUME NEW p \in Proc, R_Log(p) PROVE misuse'
  BY <1>16 DEF R_Log
<1>17. CASE R_Lookup \/ R_Callback \/ R_LogCallback
  BY <1>17 DEF R_Lookup, R_Callback, R_LogCallback
<1>18. CASE UNCHANGED vars
  BY <1>18 DEF vars
<1>19. QED
  BY <1>1, <1>2, <1>3, <1>4, <1>5, <1>6, <1>7, <1>8, <1>9, <1>10, <1>11, <1>12, <1>13,
     <1>14, <1>15, <1>16, <1>17, <1>18
     DEF Next, Application, ReadThread

-----------------------------------------------------------------------------
(* One application thread: its buffers, its requests and their responses.   *)

\* When the one caller's call returns, no call is under way.
LEMMA NoCall ==
  ASSUME Calls, OneCaller, Buffers, NEW t \in Thread, Return(t)
  PROVE  /\ \A u \in Thread : pc'[u] = "idle"
         /\ arg' \in [Thread -> Id \cup {0, Invalid}] /\ buf' \in [Thread -> 0..MaxReg]
         /\ tmp \in [Thread -> Nat] => tmp' \in [Thread -> Nat]
<1>1. \A u \in Thread : pc'[u] = "idle"
  BY DEF Return, Goto, Calls, OneCaller
<1>2. /\ arg' = [arg EXCEPT ![t] = 0] /\ buf' = [buf EXCEPT ![t] = 0] /\ tmp' = [tmp EXCEPT ![t] = 0]
      /\ arg \in [Thread -> Id \cup {0, Invalid}] /\ buf \in [Thread -> 0..MaxReg]
      /\ 0 \in 0..MaxReg
  BY DciAssumption DEF Return, Buffers, DciAssumption
<1>3. QED BY ONLY <1>1, <1>2

\* dci_req_buf of a registered client, and of the call that uses it, is allocated.
LEMMA BuffersStep == Calls /\ OneCaller /\ Buffers /\ [Next]_vars => Buffers'
<1> SUFFICES ASSUME Calls, OneCaller, Buffers, [Next]_vars PROVE Buffers'
  OBVIOUS
<1> USE DEF Calls, Buffers, OneCaller, HasBuf, HasEntry, Id, Invalid, tlocal, table, heap, bufs,
            reader, kernel, vars
<1>1. ASSUME NEW t \in Thread, NEW p \in Proc, A_Register(t, p) PROVE Buffers'
  <2>1. /\ pc' = [pc EXCEPT ![t] = "register"] /\ slot' = [slot EXCEPT ![t] = p]
        /\ regs' = regs + 1 /\ regs < MaxReg /\ client_id[p] = Invalid
        /\ req_buf' = [req_buf EXCEPT ![p] = regs'] /\ liveBuf' = liveBuf \cup {regs'}
        /\ UNCHANGED <<client_id, cid, arg, buf>>
    BY <1>1 DEF A_Register, Goto
  <2>2. /\ regs' \in 0..MaxReg /\ regs' # 0 /\ req_buf' \in [Proc -> 0..regs']
        /\ \A q \in Proc : req_buf'[q] = IF q = p THEN regs' ELSE req_buf[q]
        /\ \A q \in Proc : req_buf[q] # regs'
    BY <2>1, DciAssumption
  <2>3. \A u \in Thread : pc'[u] = "register" /\ slot'[u] = p
    BY <2>1
  <2>4. QED BY <2>1, <2>2, <2>3
<1>2. ASSUME NEW t \in Thread, A_Registered(t) PROVE Buffers'
  <2> DEFINE q == slot[t]
  <2>1. PICK id \in {Invalid, req_buf[q]} :
          client_id' = [client_id EXCEPT ![q] = id] /\ cid' = [cid EXCEPT ![q] = id]
    BY <1>2 DEF A_Registered
  <2>2. UNCHANGED <<regs, req_buf, liveBuf>> /\ Return(t)
    BY <1>2 DEF A_Registered
  <2>3. /\ \A u \in Thread : pc'[u] = "idle"
        /\ arg' \in [Thread -> Id \cup {0, Invalid}] /\ buf' \in [Thread -> 0..MaxReg]
    BY ONLY <2>2, Calls, OneCaller, Buffers, NoCall
  <2>4. q \in Proc /\ req_buf[q] \in liveBuf /\ req_buf[q] # 0 /\ req_buf[q] \in Id
    BY <1>2, DciAssumption DEF A_Registered
  <2>5. /\ client_id' \in [Proc -> Id \cup {Invalid}] /\ cid' \in [Proc -> Id \cup {0, Invalid}]
        /\ \A p \in Proc : /\ client_id'[p] = IF p = q THEN id ELSE client_id[p]
                           /\ cid'[p] = IF p = q THEN id ELSE cid[p]
    BY <2>1, <2>4
  <2>6. QED BY <2>2, <2>3, <2>4, <2>5
<1>3. ASSUME NEW t \in Thread, NEW p \in Proc, A_Stream(t, p) PROVE Buffers'
  BY <1>3 DEF A_Stream, Call
<1>4. ASSUME NEW t \in Thread, NEW p \in Proc, A_Send(t, p) PROVE Buffers'
  BY <1>4 DEF A_Send, A_Begin, Call, Found, Goto
<1>5. ASSUME NEW t \in Thread, NEW p \in Proc, A_Config(t, p) PROVE Buffers'
  BY <1>5 DEF A_Config, A_Begin, Call, Found, Goto
<1>6. ASSUME NEW t \in Thread, NEW p \in Proc, A_Release(t, p) PROVE Buffers'
  BY <1>6 DEF A_Release, Call, Found, Goto
<1>7. ASSUME NEW t \in Thread, S_Increment(t) PROVE Buffers'
  BY <1>7 DEF S_Increment, Goto
<1>8. ASSUME NEW t \in Thread, S_Track(t) PROVE Buffers'
  BY <1>8 DEF S_Track, Goto
<1>9. ASSUME NEW t \in Thread, S_Fill(t) PROVE Buffers'
  BY <1>9 DEF S_Fill, Build, Goto
<1>10. ASSUME NEW t \in Thread, S_Config(t) PROVE Buffers'
  BY <1>10 DEF S_Config, Build, Goto
<1>11. ASSUME NEW t \in Thread, S_Write(t) PROVE Buffers'
  <2>1. UNCHANGED <<regs, req_buf, client_id, cid, liveBuf>>
    BY <1>11 DEF S_Write
  <2>2. CASE Return(t)
    <3>1. /\ \A u \in Thread : pc'[u] = "idle"
          /\ arg' \in [Thread -> Id \cup {0, Invalid}] /\ buf' \in [Thread -> 0..MaxReg]
      BY ONLY <2>2, Calls, OneCaller, Buffers, NoCall
    <3>2. QED BY <2>1, <3>1
  <2>3. CASE pc[t] = "write" /\ Goto(t, "undo") /\ UNCHANGED tlocal
    BY <2>1, <2>3 DEF Goto
  <2>4. QED BY <1>11, <2>2, <2>3 DEF S_Write
<1>12. ASSUME NEW t \in Thread, S_Undo(t) PROVE Buffers'
  <2>8. /\ \A u \in Thread : pc'[u] = "idle"
        /\ arg' \in [Thread -> Id \cup {0, Invalid}] /\ buf' \in [Thread -> 0..MaxReg]
    BY ONLY <1>12, Calls, OneCaller, Buffers, NoCall
       DEF S_Write, S_Undo, L_Free, A_Registered
  <2>9. UNCHANGED <<regs, req_buf, client_id, cid, liveBuf>>
    BY <1>12 DEF S_Undo
  <2>10. QED BY <2>8, <2>9
<1>13. ASSUME NEW t \in Thread, L_Purge(t) PROVE Buffers'
  BY <1>13 DEF L_Purge, Goto
<1>14. ASSUME NEW t \in Thread, L_Free(t) PROVE Buffers'
  <2> DEFINE q == slot[t]
  <2>1. UNCHANGED <<regs, req_buf, client_id, cid>> /\ Return(t)
    BY <1>14 DEF L_Free
  <2>2. /\ \A u \in Thread : pc'[u] = "idle"
        /\ arg' \in [Thread -> Id \cup {0, Invalid}] /\ buf' \in [Thread -> 0..MaxReg]
    BY ONLY <2>1, Calls, OneCaller, Buffers, NoCall
  <2>3. /\ q \in Proc /\ req_buf[q] # 0 /\ client_id[q] = Invalid
        /\ liveBuf' = liveBuf \ {req_buf[q]}
    BY <1>14 DEF L_Free
  <2>4. \A p \in Proc : client_id[p] # Invalid => req_buf[p] \in liveBuf'
    BY <2>3
  <2>5. QED BY <2>1, <2>2, <2>4
<1>15. ASSUME NEW o \in outstanding, R_Response(o) PROVE Buffers'
  BY <1>15 DEF R_Response
<1>16. ASSUME NEW p \in Proc, R_Log(p) PROVE Buffers'
  BY <1>16 DEF R_Log
<1>17. CASE R_Lookup
  BY <1>17 DEF R_Lookup, Delete, Unlink, NextRead
<1>18. CASE R_Callback
  BY <1>18 DEF R_Callback, NextRead
<1>19. CASE R_LogCallback
  BY <1>19 DEF R_LogCallback, NextRead
<1>20. CASE UNCHANGED vars
  BY <1>20
<1>21. QED
  BY <1>1, <1>2, <1>3, <1>4, <1>5, <1>6, <1>7, <1>8, <1>9, <1>10, <1>11, <1>12, <1>13,
     <1>14, <1>15, <1>16, <1>17, <1>18, <1>19, <1>20
     DEF Next, Application, ReadThread

\* The uid is one transaction id in the entry, in the header built for it, in the driver and in
\* the response, and no two entries share it.
LEMMA RequestsStep == Calls /\ Lists /\ OneCaller /\ Buffers /\ Requests /\ [Next]_vars => Requests'
<1> SUFFICES ASSUME Calls, Lists, OneCaller, Buffers, Requests, [Next]_vars PROVE Requests'
  OBVIOUS
<1> USE DEF Calls, Requests, OneCaller, HasBuf, HasEntry, Id, Entry, tlocal, table, heap, bufs,
            reader, kernel, vars
<1>1. ASSUME NEW t \in Thread, NEW p \in Proc, A_Register(t, p) PROVE Requests'
  BY <1>1 DEF A_Register, Goto
<1>2. ASSUME NEW t \in Thread, A_Registered(t) PROVE Requests'
  BY <1>2 DEF A_Registered, Return, Goto
<1>3. ASSUME NEW t \in Thread, NEW p \in Proc, A_Stream(t, p) PROVE Requests'
  BY <1>3 DEF A_Stream, Call
<1>4. ASSUME NEW t \in Thread, NEW p \in Proc, A_Send(t, p) PROVE Requests'
  BY <1>4 DEF A_Send, A_Begin, Call, Found, Goto
<1>5. ASSUME NEW t \in Thread, NEW p \in Proc, A_Config(t, p) PROVE Requests'
  BY <1>5 DEF A_Config, A_Begin, Call, Found, Goto
<1>6. ASSUME NEW t \in Thread, NEW p \in Proc, A_Release(t, p) PROVE Requests'
  BY <1>6 DEF A_Release, Call, Found, Goto
<1>7. ASSUME NEW t \in Thread, S_Increment(t) PROVE Requests'
  <2>1. /\ pc[t] = "increment" /\ tmp[t] = txn /\ txn' = txn + 1 /\ pc' = [pc EXCEPT ![t] = "track"]
        /\ UNCHANGED <<slot, buf, arg, mine, tmp, uid, reqs, live, content, outstanding, pcR, hand>>
    BY <1>7 DEF S_Increment, Goto
  <2>2. \A u \in Thread : pc'[u] = "track"
    BY <2>1
  <2>3. txn' \in Nat /\ \A e \in 1..reqs : uid[e] < txn' /\ uid[e] <= txn'
    BY <2>1, DciAssumption
  <2>4. QED BY ONLY Requests, <2>1, <2>2, <2>3 DEF Requests, HasEntry
<1>8. ASSUME NEW t \in Thread, S_Track(t) PROVE Requests'
  <2>1. /\ pc[t] = "track" /\ reqs' = reqs + 1 /\ reqs < MaxReq
        /\ uid' = [uid EXCEPT ![reqs'] = txn] /\ live' = live \cup {reqs'}
        /\ mine' = [mine EXCEPT ![t] = reqs'] /\ pc' = [pc EXCEPT ![t] = "fill"]
        /\ UNCHANGED <<txn, tmp, content, outstanding, pcR, hand>>
    BY <1>8 DEF S_Track, Goto
  <2>2. reqs \in 0..MaxReq /\ MaxReq \in Nat /\ reqs' \in 1..MaxReq
    BY <2>1, DciAssumption DEF DciAssumption
  <2>3. \A u \in Thread : pc'[u] = "fill" /\ mine'[u] = reqs'
    BY <2>1
  <2>4. /\ \A e \in 1..reqs : uid'[e] = uid[e] /\ uid'[e] < txn
        /\ uid'[reqs'] = txn /\ uid' \in [Entry -> Nat]
    <3>1. /\ uid \in [Entry -> Nat] /\ txn \in Nat /\ uid' = [uid EXCEPT ![reqs'] = txn]
          /\ reqs' \in Entry /\ \A e \in 1..reqs : uid[e] < txn
      BY <2>1, <2>2
    <3>2. \A e \in 1..reqs : e \in Entry /\ e # reqs'
      BY ONLY <2>1, <2>2 DEF Entry
    <3>3. QED BY ONLY <3>1, <3>2
  <2>5. \A e \in 1..reqs' : e \in 1..reqs \/ e = reqs'
    BY ONLY <2>1, <2>2
  <2>6. \A e, f \in 1..reqs' : e < f => uid'[e] < uid'[f]
    <3>1. \A e, f \in 1..reqs' : e < f => e \in 1..reqs /\ (f \in 1..reqs \/ f = reqs')
      BY ONLY <2>1, <2>2
    <3>2. \A e, f \in 1..reqs : e < f => uid[e] < uid[f]
      BY ONLY Requests DEF Requests
    <3>3. QED BY ONLY <2>4, <3>1, <3>2
  <2>7. \A e \in 1..reqs' : uid'[e] <= txn
    BY <2>4, <2>5
  <2>8. \A e \in 1..reqs : e \in 1..reqs' /\ e # reqs'
    BY ONLY <2>1, <2>2
  <2>9. QED BY ONLY Requests, <2>1, <2>3, <2>4, <2>6, <2>7, <2>8 DEF Requests, HasEntry
<1>9. ASSUME NEW t \in Thread, S_Fill(t) PROVE Requests'
  <2>1. /\ pc[t] = "fill" /\ pc' = [pc EXCEPT ![t] = "write"]
        /\ content' = [content EXCEPT ![buf[t]] =
             [kind |-> "request", id |-> arg[t], uid |-> txn, body |-> mine[t]]]
        /\ UNCHANGED <<txn, tmp, uid, reqs, live, mine, buf, arg, outstanding, pcR, hand>>
    BY <1>9, Zenon DEF S_Fill, Goto, Build, tlocal, heap, kernel, reader
  <2>2. buf[t] \in DOMAIN content
    BY <2>1, DciAssumption DEF Buffers
  <2>3. \A u \in Thread : u = t /\ pc'[u] = "write"
    BY <2>1
  <2>4. content'[buf[t]] = [kind |-> "request", id |-> arg[t], uid |-> txn, body |-> mine[t]]
    BY ONLY <2>1, <2>2
  <2>5. DOMAIN content' = DOMAIN content
    BY ONLY <2>1
  <2>6. QED BY ONLY Requests, <2>1, <2>3, <2>4, <2>5 DEF Requests, HasEntry
<1>10. ASSUME NEW t \in Thread, S_Config(t) PROVE Requests'
  <2>1. /\ pc[t] = "config" /\ pc' = [pc EXCEPT ![t] = "write_config"]
        /\ content' = [content EXCEPT ![buf[t]] = [kind |-> "stream", id |-> arg[t], uid |-> 0, body |-> 0]]
        /\ UNCHANGED <<txn, tmp, uid, reqs, live, mine, buf, arg, outstanding, pcR, hand>>
    BY <1>10, Zenon DEF S_Config, Goto, Build, tlocal, heap, kernel, reader
  <2>2. buf[t] \in DOMAIN content
    BY <2>1, DciAssumption DEF Buffers
  <2>3. \A u \in Thread : u = t /\ pc'[u] = "write_config"
    BY <2>1
  <2>4. content'[buf[t]].kind = "stream"
    BY ONLY <2>1, <2>2
  <2>5. DOMAIN content' = DOMAIN content
    BY ONLY <2>1
  <2>6. QED BY ONLY Requests, <2>1, <2>3, <2>4, <2>5 DEF Requests, HasEntry
<1>11. ASSUME NEW t \in Thread, S_Write(t) PROVE Requests'
  <2>1. UNCHANGED <<txn, uid, reqs, live, content, pcR, hand>>
    BY <1>11 DEF S_Write
  <2>2. CASE Return(t)
    <3>1. (\A u \in Thread : pc'[u] = "idle") /\ tmp' \in [Thread -> Nat]
      BY <2>2, NoCall
    <3>2. ASSUME NEW o \in outstanding' PROVE o.body \in 1..reqs /\ o.uid = uid[o.body]
      <4> DEFINE m == content[buf[t]]
      <4>1. \/ o \in outstanding
            \/ m.kind = "request" /\ o.uid = m.uid /\ o.body = m.body
        BY <1>11 DEF S_Write, Deliver
      <4>2. CASE m.kind = "request"
        <5>1. pc[t] = "write"
          BY <1>11, <4>2 DEF S_Write
        <5>2. m.uid = txn /\ m.body = mine[t] /\ mine[t] = reqs /\ uid[reqs] = txn /\ mine[t] \in 1..reqs
          <6>1. /\ m = [kind |-> "request", id |-> arg[t], uid |-> txn, body |-> mine[t]]
                /\ mine[t] = reqs /\ uid[reqs] = txn
            BY ONLY t \in Thread, Requests, <5>1 DEF Requests, HasEntry
          <6>2. mine[t] \in 1..reqs
            BY ONLY t \in Thread, Lists, <5>1 DEF Lists, HasEntry
          <6>3. QED BY ONLY <6>1, <6>2
        <5>3. QED BY <4>1, <5>2
      <4>3. QED BY <4>1, <4>2
    <3>3. QED BY ONLY Requests, <2>1, <3>1, <3>2 DEF Requests, HasEntry
  <2>3. CASE ~Return(t)
    <3>1. /\ pc[t] = "write" /\ pc' = [pc EXCEPT ![t] = "undo"] /\ UNCHANGED tlocal
          /\ UNCHANGED outstanding
      BY <1>11, <2>3 DEF S_Write, Deliver, Goto
    <3>2. \A u \in Thread : pc[u] = "write" /\ pc'[u] = "undo"
      BY <3>1
    <3>3. QED BY ONLY Requests, <2>1, <3>1, <3>2 DEF Requests, HasEntry, tlocal
  <2>4. QED BY <2>2, <2>3
<1>12. ASSUME NEW t \in Thread, S_Undo(t) PROVE Requests'
  BY <1>12 DEF S_Undo, Delete, Unlink, Return, Goto
<1>13. ASSUME NEW t \in Thread, L_Purge(t) PROVE Requests'
  BY <1>13 DEF L_Purge, Goto
<1>14. ASSUME NEW t \in Thread, L_Free(t) PROVE Requests'
  BY <1>14 DEF L_Free, Return, Goto
<1>15. ASSUME NEW o \in outstanding, R_Response(o) PROVE Requests'
  <2> DEFINE d == [o EXCEPT !.more = @ - 1]
  <2>1. d = [proc |-> o.proc, uid |-> o.uid, body |-> o.body, more |-> o.more - 1]
    BY DEF IsOutstanding
  <2>2. /\ outstanding' \subseteq outstanding \cup {d}
        /\ hand'.uid = o.uid /\ hand'.body = o.body
        /\ UNCHANGED <<pc, mine, buf, arg, tmp, txn, uid, reqs, live, content>>
    BY <1>15 DEF R_Response
  <2>3. d.uid = o.uid /\ d.body = o.body
    BY <2>1
  <2> HIDE DEF d
  <2>4. QED BY ONLY Requests, o \in outstanding, <2>2, <2>3 DEF Requests
<1>16. ASSUME NEW p \in Proc, R_Log(p) PROVE Requests'
  BY <1>16 DEF R_Log
<1>17. CASE R_Lookup
  <2> DEFINE q == hand.proc
  <2>1. /\ pcR = "response"
        /\ (pcR' = "callback" /\ UNCHANGED hand) \/ pcR' = "read"
        /\ UNCHANGED <<pc, mine, buf, arg, tmp, txn, uid, reqs, content, outstanding>>
    BY <1>17 DEF R_Lookup, NextRead
  <2>2. CASE UNCHANGED live
    BY ONLY Requests, <2>1, <2>2 DEF Requests
  <2>3. ASSUME NEW e \in ToSet(tracked[q]), Match(q, hand.uid, e), live' = live \ {e}
        PROVE  Requests'
    <3>1. e \in 1..reqs /\ uid[e] = hand.uid
      BY <2>3 DEF Lists, Match
    <3>2. hand.body \in 1..reqs /\ uid[e] = uid[hand.body]
      BY <2>1, <3>1
    <3>3. \A f \in 1..reqs : uid[f] \in Nat
      BY DciAssumption
    <3>4. e = hand.body
      BY ONLY SMTT(30), Requests, reqs \in 0..MaxReq, DciAssumption, <3>1, <3>2, <3>3 DEF Requests, DciAssumption
    <3>5. \A u \in Thread : pc[u] \in HasEntry => mine[u] \in live'
      BY <2>1, <2>3, <3>4
    <3>6. QED BY ONLY Requests, <2>1, <3>5 DEF Requests
  <2>4. QED BY <1>17, <2>2, <2>3 DEF R_Lookup, Delete
<1>18. CASE R_Callback
  BY <1>18 DEF R_Callback, NextRead
<1>19. CASE R_LogCallback
  BY <1>19 DEF R_LogCallback, NextRead
<1>20. CASE UNCHANGED vars
  BY <1>20
<1>21. QED
  BY <1>1, <1>2, <1>3, <1>4, <1>5, <1>6, <1>7, <1>8, <1>9, <1>10, <1>11, <1>12, <1>13,
     <1>14, <1>15, <1>16, <1>17, <1>18, <1>19, <1>20
     DEF Next, Application, ReadThread

\* What a call frees, reads or writes is allocated.
LEMMA MisuseStep == Calls /\ OneCaller /\ Buffers /\ Requests /\ NoMisuse /\ [Next]_vars => NoMisuse'
<1> SUFFICES ASSUME Calls, OneCaller, Buffers, Requests, NoMisuse, [Next]_vars PROVE NoMisuse'
  OBVIOUS
<1> USE DEF NoMisuse, HasBuf, HasEntry, tlocal, table, heap, bufs, reader, kernel, vars
<1>1. ASSUME NEW t \in Thread, NEW p \in Proc, A_Register(t, p) PROVE NoMisuse'
  BY <1>1 DEF A_Register, Goto
<1>2. ASSUME NEW t \in Thread, A_Registered(t) PROVE NoMisuse'
  BY <1>2 DEF A_Registered, Return, Goto
<1>3. ASSUME NEW t \in Thread, NEW p \in Proc, A_Stream(t, p) PROVE NoMisuse'
  BY <1>3 DEF A_Stream, Call
<1>4. ASSUME NEW t \in Thread, NEW p \in Proc, A_Send(t, p) PROVE NoMisuse'
  BY <1>4 DEF A_Send, A_Begin, Call, Found, Goto
<1>5. ASSUME NEW t \in Thread, NEW p \in Proc, A_Config(t, p) PROVE NoMisuse'
  BY <1>5 DEF A_Config, A_Begin, Call, Found, Goto
<1>6. ASSUME NEW t \in Thread, NEW p \in Proc, A_Release(t, p) PROVE NoMisuse'
  BY <1>6 DEF A_Release, Call, Found, Goto
<1>7. ASSUME NEW t \in Thread, S_Increment(t) PROVE NoMisuse'
  BY <1>7 DEF S_Increment, Goto
<1>8. ASSUME NEW t \in Thread, S_Track(t) PROVE NoMisuse'
  BY <1>8 DEF S_Track, Goto
<1>9. ASSUME NEW t \in Thread, S_Fill(t) PROVE NoMisuse'
  <2>1. buf[t] \in liveBuf
    BY <1>9 DEF S_Fill, Buffers
  <2>2. QED BY <1>9, <2>1 DEF S_Fill, Build
<1>10. ASSUME NEW t \in Thread, S_Config(t) PROVE NoMisuse'
  <2>1. buf[t] \in liveBuf
    BY <1>10 DEF S_Config, Buffers
  <2>2. QED BY <1>10, <2>1 DEF S_Config, Build
<1>11. ASSUME NEW t \in Thread, S_Write(t) PROVE NoMisuse'
  <2>1. buf[t] \in liveBuf
    BY <1>11 DEF S_Write, Buffers
  <2>2. QED BY <1>11, <2>1 DEF S_Write
<1>12. ASSUME NEW t \in Thread, S_Undo(t) PROVE NoMisuse'
  <2>1. mine[t] \in live
    BY <1>12 DEF S_Undo, Requests
  <2>2. QED BY <1>12, <2>1 DEF S_Undo
<1>13. ASSUME NEW t \in Thread, L_Purge(t) PROVE NoMisuse'
  BY <1>13 DEF L_Purge, Goto
<1>14. ASSUME NEW t \in Thread, L_Free(t) PROVE NoMisuse'
  <2>1. req_buf[slot[t]] \in liveBuf
    BY <1>14 DEF L_Free, Buffers
  <2>2. QED BY <1>14, <2>1 DEF L_Free
<1>15. ASSUME NEW o \in outstanding, R_Response(o) PROVE NoMisuse'
  BY <1>15 DEF R_Response
<1>16. ASSUME NEW p \in Proc, R_Log(p) PROVE NoMisuse'
  BY <1>16 DEF R_Log
<1>17. CASE R_Lookup
  BY <1>17 DEF R_Lookup, Delete, Unlink, NextRead
<1>18. CASE R_Callback
  BY <1>18 DEF R_Callback, NextRead
<1>19. CASE R_LogCallback
  BY <1>19 DEF R_LogCallback, NextRead
<1>20. CASE UNCHANGED vars
  BY <1>20
<1>21. QED
  BY <1>1, <1>2, <1>3, <1>4, <1>5, <1>6, <1>7, <1>8, <1>9, <1>10, <1>11, <1>12, <1>13,
     <1>14, <1>15, <1>16, <1>17, <1>18, <1>19, <1>20
     DEF Next, Application, ReadThread

\* The entry that is found by its uid is the request the response answers.
LEMMA HandlerStep == Calls /\ Lists /\ Requests /\ CorrespondingHandler /\ [Next]_vars => CorrespondingHandler'
<1> SUFFICES ASSUME Calls, Lists, Requests, CorrespondingHandler, [Next]_vars PROVE CorrespondingHandler'
  OBVIOUS
<1> USE DEF CorrespondingHandler, NoHand, NextRead, tlocal, table, heap, bufs, reader, kernel,
            vars
<1>1. ASSUME NEW t \in Thread, NEW p \in Proc, A_Register(t, p)
      PROVE  CorrespondingHandler'
  BY <1>1 DEF A_Register, Goto
<1>2. ASSUME NEW t \in Thread, A_Registered(t) PROVE CorrespondingHandler'
  BY <1>2 DEF A_Registered, Return, Goto
<1>3. ASSUME NEW t \in Thread, NEW p \in Proc, A_Stream(t, p)
      PROVE  CorrespondingHandler'
  BY <1>3 DEF A_Stream, Call
<1>4. ASSUME NEW t \in Thread, NEW p \in Proc, A_Send(t, p)
      PROVE  CorrespondingHandler'
  BY <1>4 DEF A_Send, A_Begin, Call, Found, Goto
<1>5. ASSUME NEW t \in Thread, NEW p \in Proc, A_Config(t, p)
      PROVE  CorrespondingHandler'
  BY <1>5 DEF A_Config, A_Begin, Call, Found, Goto
<1>6. ASSUME NEW t \in Thread, NEW p \in Proc, A_Release(t, p)
      PROVE  CorrespondingHandler'
  BY <1>6 DEF A_Release, Call, Found, Goto
<1>7. ASSUME NEW t \in Thread, S_Increment(t) PROVE CorrespondingHandler'
  BY <1>7 DEF S_Increment, Goto
<1>8. ASSUME NEW t \in Thread, S_Track(t) PROVE CorrespondingHandler'
  BY <1>8 DEF S_Track, Goto
<1>9. ASSUME NEW t \in Thread, S_Fill(t) PROVE CorrespondingHandler'
  BY <1>9 DEF S_Fill, Build, Goto
<1>10. ASSUME NEW t \in Thread, S_Config(t) PROVE CorrespondingHandler'
  BY <1>10 DEF S_Config, Build, Goto
<1>11. ASSUME NEW t \in Thread, S_Write(t) PROVE CorrespondingHandler'
  BY <1>11 DEF S_Write, Deliver, Return, Goto
<1>12. ASSUME NEW t \in Thread, S_Undo(t) PROVE CorrespondingHandler'
  BY <1>12 DEF S_Undo, Delete, Unlink, Return, Goto
<1>13. ASSUME NEW t \in Thread, L_Purge(t) PROVE CorrespondingHandler'
  BY <1>13 DEF L_Purge, Goto
<1>14. ASSUME NEW t \in Thread, L_Free(t) PROVE CorrespondingHandler'
  BY <1>14 DEF L_Free, Return, Goto
<1>15. ASSUME NEW o \in outstanding, R_Response(o) PROVE CorrespondingHandler'
  BY <1>15 DEF R_Response
<1>16. ASSUME NEW p \in Proc, R_Log(p) PROVE CorrespondingHandler'
  BY <1>16 DEF R_Log
<1>17. CASE R_Lookup
  <2> DEFINE q == hand.proc
  <2>1. CASE pcR' # "callback"
    BY <2>1
  <2>2. ASSUME NEW e \in ToSet(tracked[q]), Match(q, hand.uid, e), info' = e,
               pcR = "response", UNCHANGED hand
        PROVE  info' = hand'.body
    <3>1. e \in 1..reqs /\ uid[e] = hand.uid /\ hand.body \in 1..reqs /\ hand.uid = uid[hand.body]
      BY <2>2 DEF Calls, Lists, Match, Requests
    <3>2. reqs \in 0..MaxReq /\ MaxReq \in Nat /\ \A f \in 1..reqs : uid[f] \in Nat
      BY DciAssumption DEF Calls, Requests, Entry, DciAssumption
    <3>3. \A f, g \in 1..reqs : f < g => uid[f] < uid[g]
      BY DEF Requests
    <3>4. e = hand.body
      BY ONLY <3>1, <3>2, <3>3
    <3>5. QED BY <2>2, <3>4
  <2>3. CASE pcR' = "callback"
    BY <1>17, <2>2, <2>3 DEF R_Lookup
  <2>4. QED BY <2>1, <2>3
<1>18. CASE R_Callback
  BY <1>18 DEF R_Callback, NextRead
<1>19. CASE R_LogCallback
  BY <1>19 DEF R_LogCallback, NextRead
<1>20. CASE UNCHANGED vars
  BY <1>20
<1>21. QED
  BY <1>1, <1>2, <1>3, <1>4, <1>5, <1>6, <1>7, <1>8, <1>9, <1>10, <1>11, <1>12, <1>13,
     <1>14, <1>15, <1>16, <1>17, <1>18, <1>19, <1>20
     DEF Next, Application, ReadThread

-----------------------------------------------------------------------------
(* The invariant, and what it says.                                         *)

\* diag_lsm_dci_init leaves empty lists and no client.
LEMMA InitInv == Init => IInv
<1> SUFFICES ASSUME Init PROVE IInv
  OBVIOUS
<1> USE DciAssumption DEF DciAssumption
<1>1. 0 \in Proc /\ ToSet(<<>>) = {} /\ IsInjective(<<>>)
  BY DEF Proc, ToSet, IsInjective
<1>2. Calls
  BY <1>1 DEF Init, Calls, HasBuf, HasEntry, NoHand
<1>3. Lists
  BY <1>1 DEF Init, Lists, EachOnce, HasEntry
<1>4. Buffers
  BY DEF Init, Buffers, HasBuf, HasEntry, Invalid, Id
<1>5. Requests
  BY DEF Init, Requests, HasEntry, Id, Entry
<1>6. NoMisuse /\ CorrespondingHandler
  BY DEF Init, NoMisuse, CorrespondingHandler
<1>7. QED BY <1>2, <1>3, <1>4, <1>5, <1>6 DEF IInv

\* No step of a call or of the read thread breaks it.
LEMMA StepInv == IInv /\ [Next]_vars => IInv'
<1> SUFFICES ASSUME IInv, [Next]_vars PROVE IInv'
  OBVIOUS
<1>1. Calls' /\ (misuse' \/ Lists')
  BY CallsStep, ListsStep, MisuseStays DEF IInv
<1>2. ASSUME OneCaller PROVE Buffers' /\ Requests' /\ NoMisuse' /\ CorrespondingHandler'
  <2>1. Calls /\ Lists /\ Buffers /\ Requests /\ NoMisuse /\ CorrespondingHandler
    BY <1>2 DEF IInv, NoMisuse
  <2>2. QED BY <1>2, <2>1, BuffersStep, RequestsStep, MisuseStep, HandlerStep
<1>3. QED BY <1>1, <1>2 DEF IInv

\* So it holds all the time, with any number of threads.
THEOREM Invariance == Spec => []IInv
BY InitInv, StepInv, PTL DEF Spec

\* Until something freed is used, for any number of threads, whatever ids they call with: the
\* interleavings of diag_register_dci_pkt, dci_delete_request_entry and the release lose nothing
\* that is allocated and keep nothing reachable that is freed, each entry once in one list.
THEOREM ListsHoldTheLive == Spec => []TrackedIsLive
<1>1. IInv => TrackedIsLive
  BY DEF IInv, Lists, TrackedIsLive
<1>2. QED BY Invariance, <1>1, PTL

\* With one application thread, no entry and no dci_req_buf is freed twice or used after it was
\* freed, however registrations, requests and releases follow each other and responses fail.
THEOREM NothingMisused == ASSUME OneCaller PROVE Spec => []NoMisuse
<1>1. IInv => NoMisuse
  BY OneCaller DEF IInv
<1>2. QED BY Invariance, <1>1, PTL

\* With one application thread the exception never arises: the lists always hold what is allocated.
THEOREM ListsAlwaysHoldTheLive == ASSUME OneCaller PROVE Spec => []EachOnce
<1>1. TrackedIsLive /\ NoMisuse => EachOnce
  BY DEF TrackedIsLive, NoMisuse
<1>2. QED BY ListsHoldTheLive, NothingMisused, OneCaller, <1>1, PTL

\* With one application thread, the handler lookup_pkt_rsp_transaction calls is that of the request
\* the response answers, delayed and final responses of several requests in any order.
THEOREM HandlerCorresponds == ASSUME OneCaller PROVE Spec => []CorrespondingHandler
<1>1. IInv => CorrespondingHandler
  BY OneCaller DEF IInv
<1>2. QED BY Invariance, <1>1, PTL
=============================================================================
