------------------------------ MODULE DiagPool ------------------------------
(***************************************************************************)
(* Service memory of libdiag (diagsvc_malloc.c): two pools of buffers      *)
(* taken once from the heap, handed out under a mutex, the heap itself     *)
(* when a pool is exhausted or the request is large.  The flag             *)
(* gnDiagSvcMalloc_Initialized is tested and set outside the mutex, and    *)
(* Diag_LSM_DeInit runs DiagSvc_Malloc_Exit first, while the read thread   *)
(* and the clients of the services may still be inside a call or hold a    *)
(* buffer (diag_lsm.c 2997).                                               *)
(***************************************************************************)
EXTENDS Naturals, FiniteSets

CONSTANTS
  Thread,              (* the read thread, and the threads that use a service *)
  Block,               (* addresses the heap can return                     *)
  Null,                (* the null pointer                                  *)
  MaxItems,            (* DIAGSVC_MALLOC_MAX_ITEMS                          *)
  MaxLives             (* bound: calls of DiagSvc_Malloc_Init               *)

ASSUME DiagPoolAssumption ==
  /\ Null \notin Block
  /\ MaxItems \in Nat \ {0} /\ MaxLives \in Nat

Pool == {"GEN_SVC_ID", "PKT_SVC_ID"}
Item == Pool \X (1 .. MaxItems)

VARIABLES
  ptr, in_use,         \* gaDiagSvcMalloc and gaDiagSvcPktMalloc
  initialized,         \* gnDiagSvcMalloc_Initialized
  live,                \* external: the blocks the heap has handed out
  mainPc, item,        \* the thread that runs Init and Exit, and its loop index
  pc, svc, buf,        \* each user: control, the Svc_ID of its call, its buffer
  rude,                \* history: Exit overlapped a call or a buffer in use
  lives                \* history: calls of DiagSvc_Malloc_Init

pools == <<ptr, in_use>>
main  == <<mainPc, item, lives>>
users == <<pc, svc, buf>>
vars  == <<pools, initialized, live, main, users, rude>>

Init ==
  /\ ptr = [x \in Item |-> Null] /\ in_use = [x \in Item |-> FALSE]
  /\ initialized = FALSE /\ live = {}
  /\ mainPc = "down" /\ item = 1 /\ lives = 0
  /\ pc = [t \in Thread |-> "idle"]
  /\ svc = [t \in Thread |-> "GEN_SVC_ID"]
  /\ buf = [t \in Thread |-> Null]
  /\ rude = FALSE

\* malloc fails or returns a block that is not handed out.
Fresh == (Block \ live) \cup {Null}

Go(t, where) == pc' = [pc EXCEPT ![t] = where]

-----------------------------------------------------------------------------
(* DiagSvc_Malloc: the flag, the scan under the mutex, the heap.            *)

\* A request above DIAGSVC_MALLOC_ITEM_SIZE goes to the heap at once.
M_Enter(t, p, large) ==
  /\ pc[t] = "idle" /\ initialized
  /\ svc' = [svc EXCEPT ![t] = p]
  /\ Go(t, IF large THEN "m_heap" ELSE "m_scan")
  /\ rude' = (rude \/ mainPc = "x_flag")
  /\ UNCHANGED <<pools, initialized, live, main, buf>>

\* Slots of t's pool in which the scan's condition is met, and the first of them.
BugUnused(t) == {x \in Item : x[1] = svc[t]}
Unused(t) == {x \in Item : x[1] = svc[t] /\ ~in_use[x]}
IsFirst(x, S) == x \in S /\ \A y \in S : x[2] <= y[2]

\* ret stays NULL when the slot is empty, as it is after Exit.
M_Take(t) ==
  /\ pc[t] = "m_scan"
  /\ \E x \in Item :
       /\ IsFirst(x, Unused(t))
       /\ in_use' = [in_use EXCEPT ![x] = TRUE]
       /\ buf' = [buf EXCEPT ![t] = ptr[x]]
       /\ Go(t, IF ptr[x] = Null THEN "m_heap" ELSE "held")
  /\ UNCHANGED <<ptr, initialized, live, main, svc, rude>>

M_Exhausted(t) ==
  /\ pc[t] = "m_scan" /\ Unused(t) = {}
  /\ Go(t, "m_heap")
  /\ UNCHANGED <<pools, initialized, live, main, svc, buf, rude>>

M_Heap(t) ==
  /\ pc[t] = "m_heap"
  /\ \E b \in Fresh :
       /\ live' = (live \cup {b}) \ {Null}
       /\ buf' = [buf EXCEPT ![t] = b]
       /\ Go(t, IF b = Null THEN "idle" ELSE "held")
  /\ UNCHANGED <<pools, initialized, main, svc, rude>>

(* DiagSvc_Free, with the Svc_ID the buffer was taken with, as every caller *)
(* in the services does.                                                    *)

F_Enter(t) ==
  /\ pc[t] = "held" /\ initialized
  /\ Go(t, "f_scan")
  /\ UNCHANGED <<pools, initialized, live, main, svc, buf, rude>>

\* Not initialised: nothing is returned, the caller forgets the buffer.
F_Early(t) ==
  /\ pc[t] = "held" /\ ~initialized
  /\ buf' = [buf EXCEPT ![t] = Null]
  /\ Go(t, "idle")
  /\ UNCHANGED <<pools, initialized, live, main, svc, rude>>

\* The slots that hold t's buffer.
BugHome(t) == {x \in Item : x[1] = "GEN_SVC_ID" /\ ptr[x] = buf[t]}
Home(t) == {x \in Item : x[1] = svc[t] /\ ptr[x] = buf[t]}

F_Return(t) ==
  /\ pc[t] = "f_scan"
  /\ \E x \in Item :
       /\ IsFirst(x, Home(t))
       /\ in_use' = [in_use EXCEPT ![x] = FALSE]
  /\ buf' = [buf EXCEPT ![t] = Null]
  /\ Go(t, "idle")
  /\ UNCHANGED <<ptr, initialized, live, main, svc, rude>>

F_NotFound(t) ==
  /\ pc[t] = "f_scan" /\ Home(t) = {}
  /\ Go(t, "f_heap")
  /\ UNCHANGED <<pools, initialized, live, main, svc, buf, rude>>

F_Heap(t) ==
  /\ pc[t] = "f_heap"
  /\ live' = live \ {buf[t]}
  /\ buf' = [buf EXCEPT ![t] = Null]
  /\ Go(t, "idle")
  /\ UNCHANGED <<pools, initialized, main, svc, rude>>

User(t) ==
  \/ \E p \in Pool, large \in BOOLEAN : M_Enter(t, p, large)
  \/ M_Take(t) \/ M_Exhausted(t) \/ M_Heap(t)
  \/ F_Enter(t) \/ F_Early(t)
  \/ F_Return(t) \/ F_NotFound(t) \/ F_Heap(t)

-----------------------------------------------------------------------------
(* DiagSvc_Malloc_Init: item by item, outside the mutex.                    *)

I_Enter ==
  /\ mainPc = "down" /\ lives < MaxLives
  /\ mainPc' = "i_alloc" /\ item' = 1 /\ lives' = lives + 1
  /\ UNCHANGED <<pools, initialized, live, users, rude>>

\* The two mallocs of an item; when one fails, Exit undoes everything.
I_Alloc ==
  /\ mainPc = "i_alloc"
  /\ \E g \in Fresh : \E k \in Fresh :
       /\ g = k => g = Null
       /\ ptr' = [ptr EXCEPT ![<<"GEN_SVC_ID", item>>] = g, ![<<"PKT_SVC_ID", item>>] = k]
       /\ live' = (live \cup {g, k}) \ {Null}
       /\ mainPc' = IF Null \in {g, k} THEN "x_clear" ELSE "i_mark"
  /\ UNCHANGED <<in_use, initialized, item, lives, users, rude>>

I_Mark ==
  /\ mainPc = "i_mark"
  /\ in_use' = [in_use EXCEPT ![<<"GEN_SVC_ID", item>>] = FALSE, ![<<"PKT_SVC_ID", item>>] = FALSE]
  /\ IF item = MaxItems THEN mainPc' = "i_flag" /\ item' = 1
                        ELSE mainPc' = "i_alloc" /\ item' = item + 1
  /\ UNCHANGED <<ptr, initialized, live, lives, users, rude>>

I_Flag ==
  /\ mainPc = "i_flag"
  /\ initialized' = TRUE
  /\ mainPc' = "up"
  /\ UNCHANGED <<pools, live, item, lives, users, rude>>

(* DiagSvc_Malloc_Exit: every buffer under the mutex, then the flag.        *)

Quiet == \A t \in Thread : pc[t] = "idle"

X_Enter ==
  /\ mainPc = "up"
  /\ mainPc' = "x_clear"
  /\ UNCHANGED <<pools, initialized, live, item, lives, users, rude>>

BugX_Clear ==
  /\ mainPc = "x_clear"
  /\ live' = live \ {ptr[x] : x \in {y \in Item : y[1] = "GEN_SVC_ID"}}
  /\ ptr' = [x \in Item |-> Null] /\ in_use' = [x \in Item |-> FALSE]
  /\ rude' = (rude \/ ~Quiet)
  /\ mainPc' = "x_flag"
  /\ UNCHANGED <<initialized, item, lives, users>>

X_Clear ==
  /\ mainPc = "x_clear"
  /\ live' = live \ {ptr[x] : x \in Item}
  /\ ptr' = [x \in Item |-> Null] /\ in_use' = [x \in Item |-> FALSE]
  /\ rude' = (rude \/ ~Quiet)
  /\ mainPc' = "x_flag"
  /\ UNCHANGED <<initialized, item, lives, users>>

X_Flag ==
  /\ mainPc = "x_flag"
  /\ initialized' = FALSE
  /\ mainPc' = "down"
  /\ UNCHANGED <<pools, live, item, lives, users, rude>>

Main == I_Enter \/ I_Alloc \/ I_Mark \/ I_Flag \/ X_Enter \/ X_Clear \/ X_Flag

Next == (\E t \in Thread : User(t)) \/ Main

Spec == Init /\ [][Next]_vars

-----------------------------------------------------------------------------
UserPc == {"idle", "m_scan", "m_heap", "held", "f_scan", "f_heap"}

TypeOK ==
  /\ ptr \in [Item -> Block \cup {Null}] /\ in_use \in [Item -> BOOLEAN]
  /\ initialized \in BOOLEAN /\ live \subseteq Block
  /\ mainPc \in {"down", "i_alloc", "i_mark", "i_flag", "up", "x_clear", "x_flag"}
  /\ item \in 1 .. MaxItems /\ lives \in Nat
  /\ pc \in [Thread -> UserPc] /\ svc \in [Thread -> Pool]
  /\ buf \in [Thread -> Block \cup {Null}]
  /\ rude \in BOOLEAN

\* The thread has a buffer it may write to, or is about to give it back.
Owns(t) == pc[t] \in {"held", "f_scan", "f_heap"}

Owned == {t \in Thread : Owns(t)}

Distinct == \A t, u \in Owned : buf[t] = buf[u] => t = u
Accounted ==
  \A x \in Item : in_use[x] <=> \E t \in Owned : buf[t] = ptr[x] /\ svc[t] = x[1]
HeapIs ==
  \A b \in Block : b \in live <=> (\E x \in Item : ptr[x] = b) \/ (\E t \in Owned : buf[t] = b)

\* As long as no Exit overlapped a use, no two threads own the same buffer, through exhausted
\* pools, large requests, failed mallocs and restarts (DiagSvc_Malloc's scan).
OneOwner == ~rude => Distinct

\* ... and a slot is marked in use exactly while a thread owns its buffer, taken from that
\* pool: no slot is lost to the service (DiagSvc_Free's scan).
PoolAccount == ~rude => Accounted

\* ... and the blocks taken from the heap are the pools and what the threads own: nothing leaks,
\* nothing owned has been freed, and DiagSvc_Free hands no pool buffer to free (its header,
\* diagsvc_malloc.c 109-114).
HeapAccount == ~rude => HeapIs

-----------------------------------------------------------------------------
(* The inductive invariant behind the three.                                *)

\* A busy thread finds the service up, and only owners have a buffer.
BusyIsUp == \A t \in Thread : pc[t] # "idle" => initialized /\ mainPc \in {"up", "x_clear"}
OwnersOnly == \A t \in Thread : Owns(t) <=> (buf[t] # Null)

\* Which slots have a buffer, at each step of Init and Exit; no two share one.
Filled ==
  /\ mainPc \in {"down", "x_flag"} => \A x \in Item : ptr[x] = Null
  /\ mainPc = "i_alloc" => \A x \in Item : (ptr[x] = Null) <=> (x[2] >= item)
  /\ mainPc = "i_mark" => \A x \in Item : (ptr[x] = Null) <=> (x[2] > item)
  /\ mainPc \in {"i_flag", "up"} \/ (initialized /\ mainPc = "x_clear") => \A x \in Item : ptr[x] # Null
  /\ initialized => mainPc \in {"up", "x_clear", "x_flag"}
Injective == \A x, y \in Item : ptr[x] = ptr[y] /\ ptr[x] # Null => x = y

\* A pool buffer is owned with the Svc_ID of its pool, and on its way to free a buffer is none.
Matching ==
  \A t \in Owned : \A x \in Item : ptr[x] = buf[t] => x[1] = svc[t] /\ pc[t] # "f_heap"

Clean ==
  /\ Distinct /\ Accounted /\ HeapIs
  /\ BusyIsUp /\ OwnersOnly /\ Filled /\ Injective /\ Matching

IInv == TypeOK /\ (~rude => Clean)
=============================================================================
