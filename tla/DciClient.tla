----------------------------- MODULE DciClient -----------------------------
(***************************************************************************)
(* The client table of libdiag's DCI interface (diag_lsm_dci.c) and the    *)
(* DCI branch of the read thread (diag_lsm.c, process_diag_payload).       *)
(*                                                                         *)
(* Application threads register a client per processor, configure its log  *)
(* stream, send requests and release the client; the read thread delivers  *)
(* responses and logs.  A critical section of req_tbl_mutex contains       *)
(* nothing that blocks and is one step.  A request is named by the list    *)
(* entry allocated for it, a client id by the registration that gave it.   *)
(* malloc() is taken to succeed.                                           *)
(***************************************************************************)
EXTENDS Integers, FiniteSets, Sequences, SequencesExt

CONSTANTS
  NumProc,             (* num_dci_proc                                      *)
  Thread,              (* application threads                               *)
  Uses,                (* the clients, by processor, each thread works with *)
  MaxReg,              (* bound: calls of diag_register_dci_client          *)
  MaxReq,              (* bound: calls of diag_send_dci_async_req           *)
  MaxDelayed,          (* bound: delayed responses to a request             *)
  BadLength,           (* a response may have a length the request forbids  *)
  Streams,             (* processors whose client uses log streams          *)
  Stray                (* threads call with a client id they never got      *)

Proc == 0..(NumProc - 1)
Invalid == -1          \* INVALID_DCI_CLIENT
Id    == 1..MaxReg
Entry == 1..MaxReq

ASSUME DciAssumption ==
  /\ NumProc \in Nat \ {0} /\ MaxReg \in Nat /\ MaxReq \in Nat /\ MaxDelayed \in Nat
  /\ Uses \in [Thread -> SUBSET Proc]
  /\ Streams \subseteq Proc /\ BadLength \in BOOLEAN /\ Stray \in BOOLEAN

VARIABLES
  pc, arg, slot, buf, tmp, mine,  \* per thread: control; client_id, proc, dci_req_buf,
                                  \* the value ++ read, and new_req of its call
  cid,                 \* the client_id variable of the application's client
  client_id,           \* dci_client_tbl[p].client_info.client_id
  req_buf,             \* dci_client_tbl[p].dci_req_buf: 0 is NULL, else a buffer
  log_fn,              \* dci_client_tbl[p].func_ptr_logs: who set it
  tracked,             \* dci_client_tbl[p].req_tbl_head, in order
  txn,                 \* dci_transaction_id
  regs, reqs,          \* registrations attempted, entries allocated
  uid, owner,          \* of an entry: info->uid; the client it was sent for
  live, liveBuf,       \* entries and buffers allocated and not yet freed
  content,             \* of a buffer: the last message built in it
  misuse,              \* a freed entry or buffer was freed, read or written
  pcR, hand, info,     \* read thread: control, the message, the entry copied
  answered, spoiled,   \* history: entries whose handler was called, entries whose response had
                       \* a bad length
  driver, outstanding, streaming   \* external: the driver's clients and their requests

tlocal  == <<arg, slot, buf, tmp, mine>>
table   == <<client_id, req_buf, log_fn>>
heap    == <<uid, owner, live, tracked, reqs>>
bufs    == <<liveBuf, content>>
reader  == <<pcR, hand, info, answered, spoiled>>
kernel  == <<driver, outstanding, streaming>>
vars    == <<pc, tlocal, cid, table, heap, bufs, txn, regs, misuse, reader, kernel>>

NoHand == [kind |-> "none", proc |-> 0, uid |-> 0, body |-> 0, final |-> FALSE]
NoMsg == [kind |-> "none", id |-> 0, uid |-> 0, body |-> 0]

\* diag_lsm_dci_init.  malloc'd and never assigned: func_ptr_logs.
Init ==
  /\ pc = [t \in Thread |-> "idle"]
  /\ arg = [t \in Thread |-> 0] /\ slot = [t \in Thread |-> 0] /\ buf = [t \in Thread |-> 0]
  /\ tmp = [t \in Thread |-> 0] /\ mine = [t \in Thread |-> 0]
  /\ cid = [p \in Proc |-> Invalid]
  /\ client_id = [p \in Proc |-> Invalid]
  /\ req_buf = [p \in Proc |-> 0]
  /\ log_fn = [p \in Proc |-> "garbage"]
  /\ tracked = [p \in Proc |-> <<>>]
  /\ txn = 0 /\ regs = 0 /\ reqs = 0
  /\ uid = [e \in Entry |-> 0] /\ owner = [e \in Entry |-> 0]
  /\ live = {} /\ liveBuf = {} /\ content = [b \in Id |-> NoMsg]
  /\ misuse = FALSE
  /\ pcR = "read" /\ hand = NoHand /\ info = 0 /\ answered = {} /\ spoiled = {}
  /\ driver = [p \in Proc |-> 0] /\ outstanding = {} /\ streaming = {}

Goto(t, l) == pc' = [pc EXCEPT ![t] = l]

\* The call returns and its local variables are gone.
Return(t) ==
  /\ Goto(t, "idle")
  /\ arg' = [arg EXCEPT ![t] = 0] /\ slot' = [slot EXCEPT ![t] = 0]
  /\ buf' = [buf EXCEPT ![t] = 0] /\ tmp' = [tmp EXCEPT ![t] = 0]
  /\ mine' = [mine EXCEPT ![t] = 0]

\* diag_dci_get_proc, which also finds INVALID_DCI_CLIENT.
Found(q, id) == client_id[q] = id /\ \A r \in Proc : r < q => client_id[r] # id

\* A call of thread t for its client p; unless Stray, only for a client it registered.
Call(t, p) == pc[t] = "idle" /\ p \in Uses[t] /\ (Stray \/ cid[p] # Invalid)

-----------------------------------------------------------------------------
(* diag_register_dci_client.                                                *)

BugA_Register(t, p) ==
  /\ pc[t] = "idle" /\ p \in Uses[t] /\ regs < MaxReg
  /\ client_id[p] = Invalid
  /\ regs' = regs + 1
  /\ req_buf' = [req_buf EXCEPT ![p] = IF @ = 0 THEN regs' ELSE @]
  /\ liveBuf' = IF req_buf[p] = 0 THEN liveBuf \cup {regs'} ELSE liveBuf
  /\ slot' = [slot EXCEPT ![t] = p]
  /\ Goto(t, "register")
  /\ UNCHANGED <<arg, buf, tmp, mine, cid, client_id, log_fn, heap, content, txn, misuse,
                 reader, kernel>>

A_Register(t, p) ==
  /\ pc[t] = "idle" /\ p \in Uses[t] /\ regs < MaxReg
  /\ client_id[p] = Invalid                      \* else DIAG_DCI_DUP_CLIENT
  /\ regs' = regs + 1
  /\ req_buf' = [req_buf EXCEPT ![p] = regs']
  /\ liveBuf' = liveBuf \cup {regs'}
  /\ slot' = [slot EXCEPT ![t] = p]
  /\ Goto(t, "register")
  /\ UNCHANGED <<arg, buf, tmp, mine, cid, client_id, log_fn, heap, content, txn, misuse,
                 reader, kernel>>

\* The ioctl; the driver refuses or gives an id.
A_Registered(t) ==
  LET p == slot[t] IN
  /\ pc[t] = "register"
  /\ \E id \in {Invalid, req_buf[p]} :
       /\ client_id' = [client_id EXCEPT ![p] = id]
       /\ cid' = [cid EXCEPT ![p] = id]
       /\ driver' = IF id = Invalid THEN driver ELSE [driver EXCEPT ![p] = id]
  /\ Return(t)
  /\ UNCHANGED <<req_buf, log_fn, heap, bufs, txn, regs, misuse, reader,
                 outstanding, streaming>>

\* diag_register_dci_stream_proc.
A_Stream(t, p) ==
  /\ Call(t, p) /\ p \in Streams
  /\ \E q \in Proc : Found(q, cid[p]) /\ log_fn' = [log_fn EXCEPT ![q] = "registered"]
  /\ UNCHANGED <<pc, tlocal, cid, client_id, req_buf, heap, bufs, txn, regs, misuse,
                 reader, kernel>>

-----------------------------------------------------------------------------
(* diag_send_dci_async_req and diag_log_stream_config.                      *)

A_Begin(t, p, first) ==
  /\ Call(t, p)
  /\ \E q \in Proc : /\ Found(q, cid[p]) /\ req_buf[q] # 0
                     /\ slot' = [slot EXCEPT ![t] = q]
                     /\ buf' = [buf EXCEPT ![t] = req_buf[q]]
  /\ arg' = [arg EXCEPT ![t] = cid[p]]
  /\ tmp' = [tmp EXCEPT ![t] = txn]
  /\ Goto(t, first)
  /\ UNCHANGED <<mine, cid, table, heap, bufs, txn, regs, misuse, reader, kernel>>

A_Send(t, p)   == reqs < MaxReq /\ A_Begin(t, p, "increment")
A_Config(t, p) == p \in Streams /\ A_Begin(t, p, "config")

BugS_Increment(t) ==
  /\ pc[t] = "increment"
  /\ txn' = tmp[t]
  /\ Goto(t, "track")
  /\ UNCHANGED <<tlocal, cid, table, heap, bufs, regs, misuse, reader, kernel>>

\* dci_transaction_id++ of a plain int: the load was in A_Begin.
S_Increment(t) ==
  /\ pc[t] = "increment"
  /\ txn' = tmp[t] + 1
  /\ Goto(t, "track")
  /\ UNCHANGED <<tlocal, cid, table, heap, bufs, regs, misuse, reader, kernel>>

\* diag_register_dci_pkt.
S_Track(t) ==
  /\ pc[t] = "track" /\ reqs < MaxReq
  /\ reqs' = reqs + 1
  /\ uid' = [uid EXCEPT ![reqs'] = txn]
  /\ owner' = [owner EXCEPT ![reqs'] = arg[t]]
  /\ live' = live \cup {reqs'}
  /\ tracked' = [tracked EXCEPT ![slot[t]] = Append(@, reqs')]
  /\ mine' = [mine EXCEPT ![t] = reqs']
  /\ Goto(t, "fill")
  /\ UNCHANGED <<arg, slot, buf, tmp, cid, table, bufs, txn, regs, misuse, reader, kernel>>

Build(t, msg) ==
  /\ content' = [content EXCEPT ![buf[t]] = msg]
  /\ misuse' = (misuse \/ buf[t] \notin liveBuf)
  /\ UNCHANGED <<tlocal, cid, table, heap, liveBuf, txn, regs, reader, kernel>>

\* The uid of the header is read from the counter again.
S_Fill(t) ==
  /\ pc[t] = "fill" /\ Goto(t, "write")
  /\ Build(t, [kind |-> "request", id |-> arg[t], uid |-> txn, body |-> mine[t]])

S_Config(t) ==
  /\ pc[t] = "config" /\ Goto(t, "write_config")
  /\ Build(t, [kind |-> "stream", id |-> arg[t], uid |-> 0, body |-> 0])

\* External: the driver takes a message of one of its clients, or refuses.
Deliver(m, ok) ==
  \/ /\ ok /\ \E p \in Proc :
       /\ driver[p] = m.id /\ m.id # 0
       /\ outstanding' = IF m.kind = "request"
                         THEN outstanding \cup {[proc |-> p, uid |-> m.uid, body |-> m.body,
                                                 more |-> MaxDelayed]}
                         ELSE outstanding
       /\ streaming' = IF m.kind = "stream" THEN streaming \cup {p} ELSE streaming
  \/ ~ok /\ UNCHANGED <<outstanding, streaming>>

\* diag_send_data.
S_Write(t) ==
  /\ pc[t] \in {"write", "write_config"}
  /\ \E ok \in BOOLEAN :
       /\ Deliver(content[buf[t]], ok)
       /\ \/ (ok \/ pc[t] = "write_config") /\ Return(t)
          \/ ~ok /\ pc[t] = "write" /\ Goto(t, "undo") /\ UNCHANGED tlocal
  /\ misuse' = (misuse \/ buf[t] \notin liveBuf)
  /\ UNCHANGED <<cid, table, heap, bufs, txn, regs, reader, driver>>

\* The entry is unlinked from the list it is in.  Of an entry that was freed before, prev and
\* next are whatever is there now, and the stores through them may leave any lists behind.
Unlink(q, e) ==
  \/ \E i \in 1..Len(tracked[q]) :
       tracked[q][i] = e /\ tracked' = [tracked EXCEPT ![q] = RemoveAt(@, i)]
  \/ e \notin ToSet(tracked[q]) /\ tracked' \in [Proc -> SeqOf(Entry, MaxReq)]

BugDelete(q, e) == Unlink(q, e) /\ UNCHANGED live

\* dci_delete_request_entry.
Delete(q, e) == Unlink(q, e) /\ live' = live \ {e}

S_Undo(t) ==
  /\ pc[t] = "undo"
  /\ Delete(slot[t], mine[t])
  /\ misuse' = (misuse \/ mine[t] \notin live)
  /\ Return(t)
  /\ UNCHANGED <<cid, table, uid, owner, reqs, bufs, txn, regs, reader, kernel>>

-----------------------------------------------------------------------------
(* diag_release_dci_client.  The ioctl and the two assignments after it are  *)
(* one step.                                                                *)

A_Release(t, p) ==
  /\ Call(t, p)
  /\ \E q \in Proc :
       /\ Found(q, cid[p]) /\ driver[q] = cid[p]     \* else the ioctl fails
       /\ slot' = [slot EXCEPT ![t] = q]
       /\ client_id' = [client_id EXCEPT ![q] = Invalid]
       /\ driver' = [driver EXCEPT ![q] = 0]
       /\ outstanding' = {o \in outstanding : o.proc # q}
       /\ streaming' = streaming \ {q}
  /\ cid' = [cid EXCEPT ![p] = 0]
  /\ Goto(t, "purge")
  /\ UNCHANGED <<arg, buf, tmp, mine, req_buf, log_fn, heap, bufs, txn, regs, misuse,
                 reader>>

L_Purge(t) ==
  LET q == slot[t] IN
  /\ pc[t] = "purge"
  /\ live' = live \ ToSet(tracked[q])
  /\ tracked' = [tracked EXCEPT ![q] = <<>>]
  /\ Goto(t, "free")
  /\ UNCHANGED <<tlocal, cid, table, uid, owner, reqs, bufs, txn, regs, misuse, reader, kernel>>

L_Free(t) ==
  /\ pc[t] = "free"
  /\ liveBuf' = liveBuf \ {req_buf[slot[t]]}
  /\ misuse' = (misuse \/ req_buf[slot[t]] \notin liveBuf)
  /\ Return(t)
  /\ UNCHANGED <<cid, table, heap, content, txn, regs, reader, kernel>>

Application(t) ==
  \/ \E p \in Proc : \/ A_Register(t, p) \/ A_Stream(t, p) \/ A_Send(t, p) \/ A_Config(t, p)
                     \/ A_Release(t, p)
  \/ A_Registered(t) \/ S_Increment(t) \/ S_Track(t) \/ S_Fill(t) \/ S_Config(t) \/ S_Write(t)
  \/ S_Undo(t) \/ L_Purge(t) \/ L_Free(t)

-----------------------------------------------------------------------------
(* The read thread.                                                         *)

\* Back to read(), with nothing in hand.
NextRead == pcR' = "read" /\ hand' = NoHand /\ info' = 0

\* read() returns a response to a request, delayed or final, or a log.
R_Response(o) ==
  /\ pcR = "read"
  /\ \E final \in BOOLEAN :
       /\ final \/ o.more > 0
       /\ hand' = [kind |-> "response", proc |-> o.proc, uid |-> o.uid, body |-> o.body,
                   final |-> final]
       /\ outstanding' = (outstanding \ {o}) \cup
                         IF final THEN {} ELSE {[o EXCEPT !.more = @ - 1]}
  /\ pcR' = "response"
  /\ UNCHANGED <<pc, tlocal, cid, table, heap, bufs, txn, regs, misuse, info, answered, spoiled,
                 driver, streaming>>

R_Log(p) ==
  /\ pcR = "read" /\ p \in streaming
  /\ hand' = [NoHand EXCEPT !.kind = "log", !.proc = p]
  /\ pcR' = "log"
  /\ UNCHANGED <<pc, tlocal, cid, table, heap, bufs, txn, regs, misuse, info, answered, spoiled,
                 kernel>>

BugMatch(q, id, e) == tracked[q] # <<>> /\ Head(tracked[q]) = e /\ uid[e] = id

\* The first entry of the list with the response's uid.
Match(q, id, e) ==
  \E i \in 1..Len(tracked[q]) : /\ tracked[q][i] = e /\ uid[e] = id
                                /\ \A j \in 1..(i - 1) : uid[tracked[q][j]] # id

\* lookup_pkt_rsp_transaction, its critical section.  A response of a bad length is not copied
\* and has no handler called; its entry goes all the same.
R_Lookup ==
  LET q == hand.proc IN
  /\ pcR = "response"
  /\ \/ \E e \in ToSet(tracked[q]) :
          /\ Match(q, hand.uid, e)
          /\ IF hand.final THEN Delete(q, e) ELSE UNCHANGED <<live, tracked>>
          /\ \/ /\ info' = e /\ pcR' = "callback"
                /\ UNCHANGED <<hand, spoiled>>
             \/ /\ BadLength /\ spoiled' = spoiled \cup {e} /\ NextRead
     \/ /\ \A e \in ToSet(tracked[q]) : ~Match(q, hand.uid, e)
        /\ NextRead /\ UNCHANGED <<live, tracked, spoiled>>
  /\ UNCHANGED <<pc, tlocal, cid, table, uid, owner, reqs, bufs, txn, regs, misuse,
                 answered, kernel>>

\* The handler, called after the mutex is released.
R_Callback ==
  /\ pcR = "callback"
  /\ answered' = answered \cup {info}
  /\ NextRead
  /\ UNCHANGED <<pc, tlocal, cid, table, heap, bufs, txn, regs, misuse, spoiled, kernel>>

R_LogCallback ==
  /\ pcR = "log" /\ NextRead
  /\ UNCHANGED <<pc, tlocal, cid, table, heap, bufs, txn, regs, misuse, answered, spoiled,
                 kernel>>

ReadThread ==
  \/ \E o \in outstanding : R_Response(o)
  \/ \E p \in Proc : R_Log(p)
  \/ R_Lookup \/ R_Callback \/ R_LogCallback

Next == ReadThread \/ \E t \in Thread : Application(t)

Spec == Init /\ [][Next]_vars

-----------------------------------------------------------------------------
\* The driver answers every request it took in the end, and the read thread is scheduled.
FairSpec ==
  /\ Spec
  /\ WF_vars(R_Lookup \/ R_Callback \/ R_LogCallback)
  /\ \A e \in Entry : SF_vars(\E o \in outstanding : o.body = e /\ R_Response(o))

TypeOK ==
  /\ pc \in [Thread -> {"idle", "register", "increment", "track", "fill", "config", "write",
                        "write_config", "undo", "purge", "free"}]
  /\ arg \in [Thread -> Id \cup {0, Invalid}] /\ slot \in [Thread -> Proc]
  /\ buf \in [Thread -> 0..MaxReg] /\ tmp \in [Thread -> Nat] /\ mine \in [Thread -> 0..MaxReq]
  /\ cid \in [Proc -> (1..MaxReg) \cup {0, Invalid}]
  /\ client_id \in [Proc -> (1..MaxReg) \cup {Invalid}]
  /\ req_buf \in [Proc -> 0..MaxReg] /\ log_fn \in [Proc -> {"garbage", "registered"}]
  /\ tracked \in [Proc -> Seq(Entry)]
  /\ txn \in Nat /\ txn <= reqs + Cardinality(Thread) /\ regs \in 0..MaxReg /\ reqs \in 0..MaxReq
  /\ uid \in [Entry -> Nat] /\ owner \in [Entry -> Id \cup {0, Invalid}]
  /\ live \subseteq Entry /\ liveBuf \subseteq 1..MaxReg
  /\ misuse \in BOOLEAN
  /\ pcR \in {"read", "response", "log", "callback"}
  /\ info \in 0..MaxReq /\ answered \subseteq Entry
  /\ driver \in [Proc -> 0..MaxReg] /\ streaming \subseteq Proc

\* The lists hold the allocated entries, each once and in one list.
EachOnce ==
  /\ live = UNION {ToSet(tracked[p]) : p \in Proc}
  /\ \A p \in Proc : IsInjective(tracked[p])
  /\ \A p, q \in Proc : p # q => ToSet(tracked[p]) \cap ToSet(tracked[q]) = {}

\* Until something freed is used, the lists hold the allocated entries: nothing is lost by a
\* deletion, nothing freed stays reachable (diag_register_dci_pkt, dci_delete_request_entry).
TrackedIsLive == misuse \/ EachOnce

\* No entry or buffer is freed twice or used after it was freed: "Delete Flag will be set if it
\* is safe to delete the entry." (diag_lsm_dci.c 165).
NoMisuse == ~misuse

\* "Found a match. Copy the response to the buffer and call the corresponding response
\* handler" (diag_lsm_dci.c 155): the response is to the request whose handler is called.
CorrespondingHandler == pcR = "callback" => info = hand.body

\* A request the driver took is answered to its handler, unless its client is released.
Answered ==
  \A e \in Entry :
    (\E o \in outstanding : o.body = e) ~>
      (e \in answered \cup spoiled \/ \A p \in Proc : client_id[p] # owner[e])

-----------------------------------------------------------------------------
(* The inductive invariants behind the safety properties.                   *)

\* One application thread, which calls with ids it was given: what qscan is.  With a second one
\* the transaction counter and a release under a request in progress break the last two properties.
OneCaller == ~Stray /\ \A t, u \in Thread : t = u

\* The calls that hold an entry of their own.
HasEntry == {"fill", "write", "undo"}
\* The calls that hold dci_req_buf.
HasBuf == {"increment", "track", "config", "write_config"} \cup HasEntry

\* What Deliver puts into outstanding.
IsOutstanding(o) ==
  o.proc \in Proc /\ o = [proc |-> o.proc, uid |-> o.uid, body |-> o.body, more |-> o.more]

\* Where the calls and the read thread are.
Calls ==
  /\ pc \in [Thread -> {"idle", "register", "purge", "free"} \cup HasBuf]
  /\ slot \in [Thread -> Proc] /\ mine \in [Thread -> Nat] /\ reqs \in 0..MaxReq
  /\ hand.proc \in Proc
  /\ \A o \in outstanding : IsOutstanding(o)

\* An entry is in the list it was put into, until it is freed.
Lists ==
  /\ tracked \in [Proc -> Seq(Entry)]
  /\ \A p \in Proc : ToSet(tracked[p]) \subseteq 1..reqs
  /\ \A t \in Thread : pc[t] \in HasEntry =>
       mine[t] \in 1..reqs /\ (mine[t] \in live => mine[t] \in ToSet(tracked[slot[t]]))
  /\ EachOnce

\* The buffer of a client is allocated as long as anybody can find or use it.
Buffers ==
  /\ regs \in 0..MaxReg /\ req_buf \in [Proc -> 0..regs]
  /\ \A p, q \in Proc : p # q /\ req_buf[p] # 0 => req_buf[p] # req_buf[q]
  /\ client_id \in [Proc -> Id \cup {Invalid}] /\ cid \in [Proc -> Id \cup {0, Invalid}]
  /\ \A p \in Proc : /\ client_id[p] # Invalid => client_id[p] = req_buf[p] /\ req_buf[p] \in liveBuf
                     /\ cid[p] \in {0, Invalid, client_id[p]}
  /\ arg \in [Thread -> Id \cup {0, Invalid}] /\ buf \in [Thread -> 0..MaxReg]
  /\ \A t \in Thread :
       /\ pc[t] \in HasBuf => buf[t] = req_buf[slot[t]] /\ buf[t] \in liveBuf /\ buf[t] # 0
                             /\ client_id[slot[t]] # Invalid
       /\ pc[t] \in {"register", "purge", "free"} =>
            /\ req_buf[slot[t]] \in liveBuf /\ req_buf[slot[t]] # 0
            /\ client_id[slot[t]] = Invalid

\* A request, its header and its response carry the transaction id of its entry.
Requests ==
  /\ txn \in Nat /\ tmp \in [Thread -> Nat] /\ uid \in [Entry -> Nat]
  /\ \A e \in 1..reqs : uid[e] <= txn
  /\ \A e, f \in 1..reqs : e < f => uid[e] < uid[f]
  /\ DOMAIN content = Id
  /\ \A t \in Thread :
       /\ pc[t] = "increment" => tmp[t] = txn
       /\ pc[t] = "track" => \A e \in 1..reqs : uid[e] < txn
       /\ pc[t] \in HasEntry => mine[t] = reqs /\ uid[reqs] = txn /\ mine[t] \in live
       /\ pc[t] = "write" => content[buf[t]] = [kind |-> "request", id |-> arg[t], uid |-> txn,
                                               body |-> mine[t]]
       /\ pc[t] = "write_config" => content[buf[t]].kind = "stream"
  /\ \A o \in outstanding : o.body \in 1..reqs /\ o.uid = uid[o.body]
  /\ pcR \in {"response", "callback"} => hand.body \in 1..reqs /\ hand.uid = uid[hand.body]
  /\ \A t \in Thread : pc[t] \in HasEntry =>
       /\ \A o \in outstanding : o.body # mine[t]
       /\ pcR = "response" => hand.body # mine[t]

IInv ==
  /\ Calls
  /\ misuse \/ Lists
  /\ OneCaller => Buffers /\ Requests /\ NoMisuse /\ CorrespondingHandler
=============================================================================
