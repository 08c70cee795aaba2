---------------------------- MODULE PktDispatch ----------------------------
(***************************************************************************)
(* diag_lsm_pkt.c: the dispatch of request packets to handlers, and the     *)
(* delayed responses.  Three kinds of threads meet here:                    *)
(*   - the application registers command tables (diagpkt_tbl_reg);          *)
(*   - the read thread looks a request up in the tables, runs the handler   *)
(*     and commits its response (diagpkt_LSM_process_request,               *)
(*     diagpkt_commit);                                                     *)
(*   - a worker per delayed command sends the later responses               *)
(*     (diagpkt_delay_commit), looking up in a shared linked list whether   *)
(*     the request came from a DCI client, and under which tag.             *)
(* A request, its delayed_rsp_id, its list entry and its worker all have    *)
(* the request's number: the driver's ids are taken to be unique.           *)
(* A handler commits before it returns, in the read thread, which is joined *)
(* before the driver is closed; the application registers its tables from   *)
(* one thread.                                                              *)
(***************************************************************************)
EXTENDS Naturals, Sequences, FiniteSets, FiniteSetsExt

CONSTANTS
  Desc,       \* the command tables in the order the application registers them,
              \* each [cmd_code, codes, delay_flag, func]
  TblSize,    \* DIAGPKT_USER_TBL_SIZE
  MaxReq,     \* bound: requests from the driver
  MaxRsp,     \* bound: delayed responses to one request
  MaxFail     \* bound: allocations and ioctls that fail

V2 == "DIAG_SUBSYS_CMD_VER_2_F"
Table == 1..Len(Desc)

\* The search looks at the command code, diagpkt_with_delay does not: a code
\* registered under both command codes must have one delay_flag.
ASSUME PktAssumption ==
  /\ TblSize \in Nat \ {0} /\ MaxReq \in Nat /\ MaxRsp \in Nat \ {0}
  /\ MaxFail \in Nat
  /\ Len(Desc) \in Nat \ {0}
  /\ \A t \in Table : /\ Desc[t].delay_flag \in BOOLEAN
                      /\ Desc[t].func \in BOOLEAN
  /\ \A t, u \in Table : Desc[t].codes \intersect Desc[u].codes # {}
                           => Desc[t].delay_flag = Desc[u].delay_flag

VARIABLES
  slot,       \* diagpkt_user_table: a table, Empty, or Raw (allocated, not filled)
  routed,     \* tables whose commands the driver sends to this process
  unplaced,   \* tables the driver knows and diagpkt_user_table had no room for
  pcM, tbl,   \* the registering thread and the table it registered last
  pcR, i,     \* the read thread and the slot it looks at
  taken,      \* requests taken from the driver so far; the last is the current one
  packet,     \* [cmd_code, code] of the current one
  source,     \* "PKT" or "DCI", the type each one came with
  pkt_type, dci_tag,   \* the statics a commit reads
  rsp_id,     \* delayed_rsp_id of the response under way
  next,       \* dci_delayed_rsp_tbl: next pointer of each entry, 0 is the head
  linked, freed, entry, \* entries in the list, given back to the heap, their [id, tag]
  pcW, at, left,       \* each worker, its walk_ptr, the responses it has to send
  early, raced,        \* history: workers that looked before the entry was there;
                       \* that walked while an entry was freed
  failed,     \* history: workers that could not send their last response
  pkt_inuse, gen_inuse, \* buffers taken from the two services' pools or the heap
  failures    \* allocations and ioctls that failed so far

registry == <<slot, routed, unplaced, pcM, tbl>>
reader   == <<pcR, i, taken, packet, source, pkt_type, dci_tag, rsp_id>>
list     == <<next, linked, freed, entry>>
history  == <<early, raced, failed>>
buffers  == <<pkt_inuse, gen_inuse>>
vars == <<registry, reader, list, pcW, at, left, history, buffers, failures>>

Empty == 0
Raw == Len(Desc) + 1
Request == 1..MaxReq
Codes == UNION {Desc[t].codes : t \in Table}
None == [cmd_code |-> "none", code |-> 0]

\* A call that may fail does.
Fail == failures < MaxFail /\ failures' = failures + 1

Init ==
  /\ slot = [k \in 1..TblSize |-> Empty] /\ routed = {} /\ unplaced = {}
  /\ pcM = "idle" /\ tbl = 0
  /\ pcR = "idle" /\ i = 1 /\ taken = 0 /\ rsp_id = 0
  /\ packet = None /\ source = [n \in Request |-> "PKT"]
  /\ pkt_type = "PKT" /\ dci_tag = 0
  /\ next = [n \in 0..MaxReq |-> 0] /\ linked = {} /\ freed = {}
  /\ entry = [n \in Request |-> [id |-> 0, tag |-> 0]]
  /\ pcW = [n \in Request |-> "none"] /\ at = [n \in Request |-> 0]
  /\ left = [n \in Request |-> 0]
  /\ early = {} /\ raced = {} /\ failed = {}
  /\ pkt_inuse = 0 /\ gen_inuse = 0 /\ failures = 0

----------------------------------------------------------------------------
(* The application: diagpkt_tbl_reg                                         *)

\* Mutant: the driver is told before the table is in its slot.
BugM_Slot ==
  /\ pcM = "idle" /\ tbl < Len(Desc) /\ tbl' = tbl + 1
  /\ \E k \in 1..TblSize :
       /\ slot[k] = Empty /\ \A j \in 1..(k - 1) : slot[j] # Empty
       /\ slot' = [slot EXCEPT ![k] = Raw]
  /\ pcM' = "fill" /\ routed' = routed \union {tbl + 1}
  /\ UNCHANGED <<unplaced, reader, list, pcW, at, left, history, buffers,
                 failures>>

\* The next table goes into the first empty slot, where it is seen before it is
\* filled.
M_Slot ==
  /\ pcM = "idle" /\ tbl < Len(Desc) /\ tbl' = tbl + 1
  /\ \E k \in 1..TblSize :
       /\ slot[k] = Empty /\ \A j \in 1..(k - 1) : slot[j] # Empty
       /\ slot' = [slot EXCEPT ![k] = Raw]
  /\ pcM' = "fill"
  /\ UNCHANGED <<routed, unplaced, reader, list, pcW, at, left, history, buffers,
                 failures>>

\* bind_req or the slot cannot be allocated: the call does nothing.
M_NoMemory ==
  /\ pcM = "idle" /\ tbl < Len(Desc) /\ tbl' = tbl + 1 /\ Fail
  /\ UNCHANGED <<slot, routed, unplaced, pcM, reader, list, pcW, at, left, history,
                 buffers>>

\* memcpy of the table into its slot.
M_Fill ==
  /\ pcM = "fill"
  /\ slot' = [k \in 1..TblSize |-> IF slot[k] = Raw THEN tbl ELSE slot[k]]
  /\ pcM' = "ioctl"
  /\ UNCHANGED <<routed, unplaced, tbl, reader, list, pcW, at, left, history,
                 buffers, failures>>

\* No slot is empty: the driver is told all the same.
M_NoSlot ==
  /\ pcM = "idle" /\ tbl < Len(Desc) /\ tbl' = tbl + 1
  /\ \A k \in 1..TblSize : slot[k] # Empty
  /\ unplaced' = unplaced \union {tbl + 1} /\ pcM' = "ioctl"
  /\ UNCHANGED <<slot, routed, reader, list, pcW, at, left, history, buffers,
                 failures>>

\* DIAG_IOCTL_COMMAND_REG; a table it refuses stays in its slot.
M_Ioctl ==
  /\ pcM = "ioctl" /\ pcM' = "idle"
  /\ \/ routed' = routed \union {tbl} /\ UNCHANGED failures
     \/ Fail /\ UNCHANGED routed
  /\ UNCHANGED <<slot, unplaced, tbl, reader, list, pcW, at, left, history,
                 buffers>>

Application == M_Slot \/ M_NoMemory \/ M_Fill \/ M_NoSlot \/ M_Ioctl

----------------------------------------------------------------------------
(* The read thread: diagpkt_LSM_process_request and diagpkt_commit          *)

\* The driver delivers a request for a command some table registered. dci_tag
\* keeps its value if the request is not from a DCI client.
R_Take(t, c, type) ==
  /\ pcR = "idle" /\ taken < MaxReq /\ t \in routed /\ c \in Desc[t].codes
  /\ taken' = taken + 1
  /\ packet' = [cmd_code |-> Desc[t].cmd_code, code |-> c]
  /\ source' = [source EXCEPT ![taken + 1] = type]
  /\ pkt_type' = type
  /\ dci_tag' = IF type = "DCI" THEN taken + 1 ELSE dci_tag
  /\ i' = 1 /\ pcR' = "search"
  /\ UNCHANGED <<registry, rsp_id, list, pcW, at, left, history, buffers,
                 failures>>

\* One entry of the user table: does it serve the current request?
Serves(t) ==
  /\ t \in Table
  /\ Desc[t].cmd_code = packet.cmd_code
  /\ packet.code \in Desc[t].codes

R_Next ==
  /\ pcR = "search" /\ i <= TblSize /\ slot[i] # Raw /\ ~Serves(slot[i])
  /\ i' = i + 1
  /\ UNCHANGED <<registry, pcR, taken, packet, source, pkt_type, dci_tag,
                 rsp_id, list, pcW, at, left, history, buffers, failures>>

\* "Did not find match in user table."
R_NotFound ==
  /\ pcR = "search" /\ i > TblSize /\ pcR' = "idle"
  /\ UNCHANGED <<registry, i, taken, packet, source, pkt_type, dci_tag, rsp_id,
                 list, pcW, at, left, history, buffers, failures>>

\* diagpkt_with_delay: the delay_flag of the first table with this code, under
\* whichever command code.
diagpkt_with_delay ==
  LET S == {k \in 1..TblSize : /\ slot[k] \in Table
                               /\ packet.code \in Desc[slot[k]].codes}
  IN  S # {} /\ Desc[slot[Min(S)]].delay_flag

\* The entry has no func, or the handler returns NULL: no response could be
\* allocated, or no delayed_rsp_id (diagpkt_subsys_alloc_v2 frees the buffer again).
R_NoResponse ==
  /\ pcR = "search" /\ i <= TblSize /\ Serves(slot[i])
  /\ Fail \/ (~Desc[slot[i]].func /\ UNCHANGED failures)
  /\ pcR' = "idle"
  /\ UNCHANGED <<registry, i, taken, packet, source, pkt_type, dci_tag, rsp_id,
                 list, pcW, at, left, history, buffers>>

\* The handler allocates its response, gives the rest to a worker if the command
\* is a delayed one, and returns: the worker may be faster than the commit.
R_Handler(k) ==
  /\ pcR = "search" /\ i <= TblSize /\ Serves(slot[i]) /\ Desc[slot[i]].func
  /\ pkt_inuse' = pkt_inuse + 1
  /\ IF packet.cmd_code = V2 /\ diagpkt_with_delay
     THEN /\ rsp_id' = taken
          /\ pcW' = [pcW EXCEPT ![taken] = "alloc"]
          /\ left' = [left EXCEPT ![taken] = k]
     ELSE rsp_id' = 0 /\ UNCHANGED <<pcW, left>>
  /\ pcR' = "commit"
  /\ UNCHANGED <<registry, i, taken, packet, source, pkt_type, dci_tag, list,
                 at, history, gen_inuse, failures>>

\* The handler commits an error response (diagpkt_err_rsp), whose command code is another and
\* which is not entered, or one of length 0, which is freed at once.
R_Error ==
  /\ pcR = "search" /\ i <= TblSize /\ Serves(slot[i]) /\ Desc[slot[i]].func
  /\ \/ pcR' = "temp" /\ pkt_inuse' = pkt_inuse + 1
     \/ pcR' = "idle" /\ UNCHANGED pkt_inuse
  /\ UNCHANGED <<registry, i, taken, packet, source, pkt_type, dci_tag, rsp_id,
                 list, pcW, at, left, history, gen_inuse, failures>>

\* Mutant: the entry becomes the first one and the others are lost.
BugAdd(n) ==
  /\ entry' = [entry EXCEPT ![n] = [id |-> rsp_id, tag |-> dci_tag]]
  /\ next' = [next EXCEPT ![0] = n, ![n] = 0]
  /\ linked' = linked \union {n}
  /\ UNCHANGED freed

\* diag_dci_add_delayed_rsp: the new entry becomes the last one, under the mutex.
Add(n) ==
  LET last == CHOOSE p \in {0} \union linked : next[p] = 0 IN
  /\ entry' = [entry EXCEPT ![n] = [id |-> rsp_id, tag |-> dci_tag]]
  /\ next' = [next EXCEPT ![last] = n, ![n] = 0]
  /\ linked' = linked \union {n}
  /\ UNCHANGED freed

\* diagpkt_commit: a DCI response of version 2 is entered, delayed or not.
R_Commit ==
  /\ pcR = "commit" /\ pcR' = "temp"
  /\ IF pkt_type = "DCI" /\ packet.cmd_code = V2
     THEN \/ Add(taken) /\ UNCHANGED failures
          \/ Fail /\ UNCHANGED list
     ELSE UNCHANGED <<list, failures>>
  /\ UNCHANGED <<registry, i, taken, packet, source, pkt_type, dci_tag, rsp_id,
                 pcW, at, left, history, buffers>>

\* The copy that is written cannot be allocated: the response is freed, not sent.
R_NoTemp ==
  /\ pcR = "temp" /\ Fail
  /\ pkt_inuse' = pkt_inuse - 1 /\ pcR' = "idle"
  /\ UNCHANGED <<registry, i, taken, packet, source, pkt_type, dci_tag, rsp_id,
                 list, pcW, at, left, history, gen_inuse>>

\* The copy is written and freed, and then the response.
R_Write ==
  /\ pcR = "temp" /\ pkt_inuse' = pkt_inuse - 1 /\ pcR' = "idle"
  /\ UNCHANGED <<registry, i, taken, packet, source, pkt_type, dci_tag, rsp_id,
                 list, pcW, at, left, history, gen_inuse, failures>>

Reader ==
  \/ \E t \in Table, c \in Codes, type \in {"PKT", "DCI"} : R_Take(t, c, type)
  \/ R_Next \/ R_NotFound \/ R_NoResponse \/ R_Error
  \/ \E k \in 1..MaxRsp : R_Handler(k)
  \/ R_Commit \/ R_NoTemp \/ R_Write

----------------------------------------------------------------------------
(* The worker of request n: diagpkt_subsys_alloc_v2_delay and               *)
(* diagpkt_delay_commit, once per response.  The last one has a response    *)
(* count below 0x1000.                                                      *)

Goto(n, pc) == pcW' = [pcW EXCEPT ![n] = pc]

\* The response is done with, and walk_ptr: on to the next one, if any.
Done(n) ==
  /\ Goto(n, IF left[n] = 1 THEN "done" ELSE "alloc")
  /\ left' = [left EXCEPT ![n] = left[n] - 1]
  /\ at' = [at EXCEPT ![n] = 0]
  /\ gen_inuse' = gen_inuse - 1

\* The response cannot be allocated: the application gives it up.
W_NoBuffer(n) ==
  /\ pcW[n] = "alloc" /\ Fail
  /\ Goto(n, IF left[n] = 1 THEN "done" ELSE "alloc")
  /\ left' = [left EXCEPT ![n] = left[n] - 1]
  /\ failed' = IF left[n] = 1 THEN failed \union {n} ELSE failed
  /\ UNCHANGED <<registry, reader, list, at, early, raced, buffers>>

\* The response is allocated and the walk begins at the first entry; the list is
\* read without its mutex from here on.
W_Alloc(n) ==
  /\ pcW[n] = "alloc"
  /\ gen_inuse' = gen_inuse + 1
  /\ at' = [at EXCEPT ![n] = next[0]] /\ Goto(n, "walk")
  /\ early' = IF n \in linked THEN early \ {n} ELSE early \union {n}
  /\ raced' = raced \ {n}
  /\ UNCHANGED <<registry, reader, list, left, failed, pkt_inuse,
                 failures>>

\* One entry that is not the one: on to the next.
W_Walk(n) ==
  /\ pcW[n] = "walk" /\ at[n] # 0 /\ at[n] \notin freed /\ entry[at[n]].id # n
  /\ at' = [at EXCEPT ![n] = next[at[n]]]
  /\ UNCHANGED <<registry, reader, list, pcW, left, history, buffers, failures>>

\* The entry was freed under the walk: from here the worker may do anything.
W_Lost(n) ==
  /\ pcW[n] = "walk" /\ at[n] \in freed
  /\ Goto(n, "lost")
  /\ UNCHANGED <<registry, reader, list, at, left, history, buffers, failures>>

\* Not in the list: written as the response to a request that was not DCI.
W_Plain(n) ==
  /\ pcW[n] = "walk" /\ at[n] = 0
  /\ Done(n)
  /\ UNCHANGED <<registry, reader, list, history, pkt_inuse, failures>>

\* Mutant: the response is not freed when its copy cannot be allocated.
BugW_NoTemp(n) ==
  /\ pcW[n] = "walk" /\ at[n] # 0 /\ at[n] \notin freed /\ entry[at[n]].id = n
  /\ Fail
  /\ failed' = IF left[n] = 1 THEN failed \union {n} ELSE failed
  /\ Goto(n, IF left[n] = 1 THEN "done" ELSE "alloc")
  /\ left' = [left EXCEPT ![n] = left[n] - 1]
  /\ UNCHANGED <<registry, reader, list, at, early, raced, buffers>>

\* Found, but the copy with the DCI header cannot be allocated: the response is
\* freed, and if it is the last the entry stays.
W_NoTemp(n) ==
  /\ pcW[n] = "walk" /\ at[n] # 0 /\ at[n] \notin freed /\ entry[at[n]].id = n
  /\ Fail
  /\ failed' = IF left[n] = 1 THEN failed \union {n} ELSE failed
  /\ Done(n)
  /\ UNCHANGED <<registry, reader, list, early, raced, pkt_inuse>>

W_Temp(n) ==
  /\ pcW[n] = "walk" /\ at[n] # 0 /\ at[n] \notin freed /\ entry[at[n]].id = n
  /\ pkt_inuse' = pkt_inuse + 1 /\ Goto(n, "tag")
  /\ UNCHANGED <<registry, reader, list, at, left, history, gen_inuse,
                 failures>>

\* Mutant: the entry is not deleted after the last response.
BugW_Tag(n) ==
  /\ pcW[n] = "tag"
  /\ pkt_inuse' = pkt_inuse - 1
  /\ Done(n)
  /\ UNCHANGED <<registry, reader, list, history, failures>>

\* The tag is read from the entry and the copy is written and freed; the last
\* response of the sequence goes on to delete the entry.
W_Tag(n) ==
  /\ pcW[n] = "tag"
  /\ pkt_inuse' = pkt_inuse - 1
  /\ IF left[n] = 1 THEN Goto(n, "unlink") /\ UNCHANGED <<left, at, gen_inuse>>
                    ELSE Done(n)
  /\ UNCHANGED <<registry, reader, list, history, failures>>

\* Mutant: the entry is freed and never unlinked.
BugW_Unlink(n) ==
  /\ pcW[n] = "unlink" /\ Goto(n, "free")
  /\ UNCHANGED <<registry, reader, list, at, left, history, buffers, failures>>

\* diag_dci_delete_delayed_rsp_entry: unlinked under the mutex...
W_Unlink(n) ==
  /\ pcW[n] = "unlink"
  /\ LET prev == CHOOSE p \in {0} \union linked : next[p] = at[n] IN
     next' = [next EXCEPT ![prev] = next[at[n]]]
  /\ linked' = linked \ {at[n]}
  /\ Goto(n, "free")
  /\ UNCHANGED <<registry, reader, freed, entry, at, left, history, buffers,
                 failures>>

\* ... and freed after it, as is the response.
W_Free(n) ==
  /\ pcW[n] = "free"
  /\ freed' = freed \union {at[n]}
  /\ raced' = raced \union {m \in Request : pcW[m] = "walk"}
  /\ Done(n)
  /\ UNCHANGED <<registry, reader, next, linked, entry, early, failed, pkt_inuse,
                 failures>>

Worker(n) ==
  \/ W_NoBuffer(n) \/ W_Alloc(n) \/ W_Walk(n) \/ W_Lost(n) \/ W_Plain(n)
  \/ W_NoTemp(n) \/ W_Temp(n) \/ W_Tag(n) \/ W_Unlink(n) \/ W_Free(n)

Next == Application \/ Reader \/ \E n \in Request : Worker(n)

Spec == Init /\ [][Next]_vars

----------------------------------------------------------------------------
(* Properties                                                               *)

\* The search reads the user table without gUserTbl_mutex while a table is being
\* registered: it never looks at a slot that is allocated and not yet filled
\* (625-633), and it comes to the end only for a table that found no slot.
SearchFinds ==
  pcR = "search" =>
    IF i <= TblSize THEN slot[i] # Raw
    ELSE \E t \in unplaced : Serves(t)

\* A delayed response goes out as what its request was: to the DCI client under
\* the tag of its request, or to the tool; except when the lookup began before the
\* entry was made, because the worker overtook the commit or there was no memory.
DelayedMatches ==
  \A n \in Request :
    /\ pcW[n] = "tag" => /\ source[n] = "DCI"
                         /\ at[n] \in linked \ freed /\ entry[at[n]].tag = n
    /\ pcW[n] = "walk" /\ at[n] = 0 => source[n] = "PKT" \/ n \in early

\* The walk reads the list without its mutex (212): it meets a freed entry only
\* if another worker freed one during this very walk, and the entry it has found
\* is never freed by another.
LostOnlyWhenRaced ==
  \A n \in Request :
    /\ pcW[n] = "lost" => n \in raced
    /\ pcW[n] \in {"tag", "unlink"} => at[n] = n /\ n \in linked \ freed

\* The list holds no entry longer than it is needed: that of a delayed response is
\* gone when its worker is done, unless the last response was not sent or looked
\* for the entry before it was made.  (Entries with id 0 are never deleted.)
EntryEnds ==
  \A n \in linked :
    entry[n].id # 0 /\ pcW[n] = "done" => n \in failed \union early

\* Every path, the error paths included, gives back what it took: the read thread
\* holds the response and its copy, a worker its response and its copy.
BuffersAccounted ==
  /\ pkt_inuse = (IF pcR \in {"commit", "temp"} THEN 1 ELSE 0)
                 + Cardinality({n \in Request : pcW[n] = "tag"})
  /\ gen_inuse = Cardinality({n \in Request :
                    pcW[n] \in {"walk", "tag", "unlink", "free", "lost"}})

----------------------------------------------------------------------------
(* The inductive invariant behind SearchFinds, DelayedMatches,              *)
(* LostOnlyWhenRaced, EntryEnds and BuffersAccounted                        *)

WorkerPc == {"none", "alloc", "walk", "tag", "unlink", "free", "lost", "done"}

\* Every variable the invariant speaks of is in its range.
TypeReader ==
  /\ slot \in [1..TblSize -> 0..Raw] /\ routed \subseteq Table
  /\ unplaced \subseteq Table /\ pcM \in {"idle", "fill", "ioctl"}
  /\ tbl \in 0..Len(Desc) /\ (pcM # "idle" => tbl \in Table)
  /\ pcR \in {"idle", "search", "commit", "temp"} /\ i \in 1..(TblSize + 1)
  /\ taken \in 0..MaxReq /\ (pcR # "idle" => taken # 0)
  /\ source \in [Request -> {"PKT", "DCI"}]
  /\ dci_tag \in 0..MaxReq /\ rsp_id \in 0..MaxReq
TypeList ==
  /\ next \in [0..MaxReq -> 0..MaxReq]
  /\ linked \subseteq Request /\ freed \subseteq Request
  /\ entry \in [Request -> [id : 0..MaxReq, tag : 0..MaxReq]]
TypeWorkers ==
  /\ pcW \in [Request -> WorkerPc] /\ at \in [Request -> 0..MaxReq]
  /\ left \in [Request -> 0..MaxRsp]
  /\ \A n \in Request : pcW[n] \notin {"none", "done"} => left[n] # 0
TypeOK == TypeReader /\ TypeList /\ TypeWorkers

\* A table is in a slot that the search, now at from, has still to see.
Placed(t, from) == t \in unplaced \/ \E k \in from..TblSize : slot[k] = t

\* Slots are filled from the first, and only the last one in use may be raw.
Slots ==
  /\ \A j, k \in 1..TblSize : j < k /\ slot[k] # Empty => slot[j] \in Table
  /\ pcM # "fill" => \A k \in 1..TblSize : slot[k] # Raw
  /\ pcM = "fill" => \E k \in 1..TblSize : slot[k] = Raw
  /\ unplaced # {} => \A k \in 1..TblSize : slot[k] \in Table
  /\ \A t \in routed : Placed(t, 1)
  /\ pcM = "ioctl" => Placed(tbl, 1)

Search == pcR = "search" => \E t \in routed : Serves(t) /\ Placed(t, i)

\* The current request's entry is made once, of what the request brought.
Current ==
  /\ pcR \in {"search", "commit"} =>
       /\ pkt_type = source[taken] /\ (pkt_type = "DCI" => dci_tag = taken)
  /\ pcR = "commit" =>
       rsp_id \in {0, taken} /\ (pcW[taken] # "none" => rsp_id = taken)

Untouched(n) == n \notin linked \union freed /\ entry[n].id = 0

Entries ==
  /\ linked \intersect freed = {}
  /\ \A n \in Request :
       /\ n > taken \/ (n = taken /\ pcR \in {"search", "commit"}) => Untouched(n)
       /\ n > taken \/ (n = taken /\ pcR = "search") => pcW[n] = "none"
       /\ entry[n].id \in {0, n}
       /\ entry[n].id = n => n \in linked \union freed \/ pcW[n] = "free"
       /\ n \in linked => source[n] = "DCI" /\ entry[n].tag = n
       /\ n \in linked /\ pcW[n] # "none" => entry[n].id = n

\* The list goes through the linked entries in the order of their numbers and
\* comes back to its head.
Head0 == {0} \union linked
Follows(p, q) ==
  \/ q = 0 /\ \A m \in linked : m <= p
  \/ q \in linked /\ p < q /\ \A m \in linked : m <= p \/ q <= m
List ==
  /\ \A p \in Head0 : Follows(p, next[p])
  /\ \A p \in Head0 : \E q \in Head0 : next[q] = p

\* A worker that has found its entry has the entry to itself.
Holders ==
  \A n \in Request :
    /\ pcW[n] \in {"tag", "unlink"} => at[n] = n /\ n \in linked /\ entry[n].id = n
    /\ pcW[n] = "free" => at[n] = n /\ n \notin linked \union freed /\ entry[n].id = n

\* Where a walk can still come: to entries that are not freed; and past no entry
\* but its own.
Alive(C, n) == at[n] \in C /\ C \intersect freed = {} /\ \A c \in C : next[c] \in C
Leads(D, n) ==
  /\ at[n] \in D /\ n \in D /\ \A d \in D \ {n} : next[d] \in D
  /\ \A d \in D : ~Untouched(d)
Walks ==
  \A n \in Request :
    /\ pcW[n] = "walk" => n \in raced \/ \E C \in SUBSET (0..MaxReq) : Alive(C, n)
    /\ pcW[n] = "walk" /\ n \notin early
         => n \in linked /\ \E D \in SUBSET Request : Leads(D, n)
    /\ pcW[n] = "lost" => n \in raced
    /\ pcW[n] = "done" => n \in failed \union early \union freed

IInv == TypeOK /\ Slots /\ Search /\ Current /\ Entries /\ List /\ Holders /\ Walks
=============================================================================
