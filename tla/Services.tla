------------------------------ MODULE Services ------------------------------
(***************************************************************************)
(* The log, event and message services of libdiag (diag_lsm_log.c,          *)
(* diag_lsm_event.c, diag_lsm_msg.c).  The read thread copies the masks     *)
(* that come from the driver, piece by piece and without a lock, into the   *)
(* memory in which the application's threads look up, for each log, event   *)
(* and message, whether anybody wants it.                                   *)
(* A mask is modelled as an image, a function from positions to values: a   *)
(* byte of the log and event masks holds one item; a word of the message    *)
(* mask is copied at once, since what a lookup uses of a word is in one of  *)
(* its bytes (a bit of the mask) or does not change (first and last SSID).  *)
(* A row of the message mask is first, last and actual last SSID and one    *)
(* word per SSID; a row whose last SSID is 0 ends it.                       *)
(***************************************************************************)
EXTENDS Naturals, FiniteSets

CONSTANTS
  Sender,     \* application threads
  Images,     \* for each mask, what the driver may send; the initial zeros included
  NumRows,    \* MSG_MASK_TBL_CNT
  MaxSsid,    \* MAX_SSID_PER_RANGE
  Ssid,       \* SSIDs of messages
  Item,       \* log codes and event ids, positions in their masks
  DropMax,    \* 255: the largest drop_cnt a message can carry
  MaxUpd,     \* bound: mask updates
  MaxFail     \* bound: allocations that fail

VARIABLES
  fd,         \* is the driver open?
  mem,        \* the masks: read_mask, log_mask, dci_cumulative_log_mask, ...
  upd, pos,   \* the mask the read thread is copying, and how far it is
  target,     \* the image it copies
  updates,    \* updates begun
  current,    \* history: per mask the images in force: two during a copy
  pc, op,     \* each sender and what it sends: [svc, id]
  ptr, first, \* msg_get_ssid_rt_mask: position in read_mask, first SSID of the row
  type,       \* diag_data_type of a log or event: subset of {"tool", "dci"}
  force,      \* history: per sender, the images in force during its lookup
  msg_drop_delta, \* messages dropped since the last one sent
  count,      \* a sender's copy of msg_drop_delta
  overlap,    \* history: two senders were between reading and writing it
  lost, reported, \* history: messages dropped; sum of the drop_cnt sent; until overlap
  gen_inuse, leaked, \* buffers of GEN_SVC_ID; history: those log_commit left behind
  failures    \* allocations that failed

driver == <<mem, upd, pos, target, updates, current>>
lookup == <<ptr, first, type>>
drops  == <<msg_drop_delta, count, overlap, lost, reported>>
heap   == <<gen_inuse, leaked, failures>>
vars == <<fd, driver, pc, op, lookup, force, drops, heap>>

Mask == DOMAIN Images
dci(svc) == IF svc = "log" THEN "dci_log" ELSE "dci_event"
Size(m) == Cardinality(DOMAIN mem[m])
Zeros(m) == CHOOSE im \in Images[m] : \A p \in DOMAIN im : im[p] = 0
Cells(m) == DOMAIN Zeros(m)
None == "none"

\* The size of a row of the message mask, and the word at a position.
RowSize == 3 + MaxSsid
MsgMaskSize == NumRows * RowSize
Word(p) == mem["msg"][p]

\* What a whole message mask says of an SSID, whatever the walk does.
InUse(im, r) == \A q \in 0..r : im[q * RowSize + 1] # 0
MsgEnabled(im, ssid) ==
  \E r \in 0..(NumRows - 1) :
    LET b == r * RowSize IN
    /\ InUse(im, r)
    /\ im[b] <= ssid /\ ssid <= im[b + 2]
    /\ im[b + 3 + (ssid - im[b])] = 1

\* The masks the driver sends: the rows in use come first and their ranges are
\* disjoint, and bits are set only for the SSIDs of a range.
Formed(im) ==
  \A r \in 0..(NumRows - 1) :
    LET b == r * RowSize IN
    /\ im[b + 1] = 0 => im[b + 2] = 0
    /\ im[b + 2] < im[b] + MaxSsid
    /\ \A k \in 0..(MaxSsid - 1) :
         im[b + 3 + k] = 1 => InUse(im, r) /\ im[b] + k <= im[b + 2]
    /\ \A q \in 0..(NumRows - 1) :
         LET c == q * RowSize IN
         q # r /\ im[b + 1] # 0 /\ im[c + 1] # 0 => im[b + 2] < im[c] \/ im[c + 2] < im[b]

\* Images of a mask are of one size, and what the services start with is one of
\* them; no DCI client wants anything when there is none.
ServicesAssumption ==
  /\ IsFiniteSet(Sender) /\ NumRows \in Nat \ {0} /\ MaxSsid \in Nat \ {0}
  /\ Ssid \subseteq Nat /\ DropMax \in Nat
  /\ \A m \in Mask :
       /\ IsFiniteSet(Images[m])
       /\ \E im \in Images[m] : \A p \in DOMAIN im : im[p] = 0
       /\ Cells(m) = 0..(Cardinality(Cells(m)) - 1) /\ IsFiniteSet(Cells(m))
       /\ \A im \in Images[m] : im \in [Cells(m) -> Nat]
  /\ "msg" \in Mask /\ None \notin Mask /\ Cells("msg") = 0..(MsgMaskSize - 1)
  /\ \A im \in Images["msg"] : Formed(im)
  /\ \A svc \in Mask \intersect {"log", "event"} :
       /\ dci(svc) \in Mask
       /\ Item \subseteq Cells(svc) \intersect Cells(dci(svc)) /\ 0 \in Cells(dci(svc))
       /\ \A im \in Images[dci(svc)], i \in Item : im[i] = 1 => im[0] > 0
ASSUME ServicesAssumption

\* What a sender may send: a message of some SSID, a log or an event.
Ops ==
  [svc : {"msg"}, id : Ssid] \union [svc : Mask \intersect {"log", "event"}, id : Item]
NoOp == [svc |-> "msg", id |-> 0]
NoForce == [m \in Mask |-> {}]

\* The masks a lookup reads.
Reads(o) == IF o.svc = "msg" THEN {"msg"} ELSE {o.svc, dci(o.svc)}

Init ==
  /\ fd = TRUE
  /\ mem = [m \in Mask |-> Zeros(m)] /\ upd = None /\ pos = 0 /\ updates = 0
  /\ target = Zeros("msg") /\ current = [m \in Mask |-> {Zeros(m)}]
  /\ pc = [s \in Sender |-> "idle"] /\ op = [s \in Sender |-> NoOp]
  /\ ptr = [s \in Sender |-> 0] /\ first = [s \in Sender |-> 0]
  /\ type = [s \in Sender |-> {}] /\ force = [s \in Sender |-> NoForce]
  /\ msg_drop_delta = 0 /\ count = [s \in Sender |-> 0] /\ overlap = FALSE
  /\ lost = 0 /\ reported = 0 /\ gen_inuse = 0 /\ leaked = 0 /\ failures = 0

----------------------------------------------------------------------------
(* The read thread: msg_update_mask, log_update_mask, event_update_mask,    *)
(* log_update_dci_mask and event_update_dci_mask                            *)

\* The driver has one table of SSID ranges: what is in a row's first two words
\* stays there, the actual last SSID and the masks change.
KeepsRows(old, im) ==
  \A r \in 0..(NumRows - 1), p \in {0, 1} :
    old[r * RowSize + 1] # 0 => im[r * RowSize + p] = old[r * RowSize + p]

R_Begin(m, im) ==
  /\ fd /\ upd = None /\ updates < MaxUpd /\ (m = "msg" => KeepsRows(mem[m], im))
  /\ upd' = m /\ target' = im /\ pos' = 0 /\ updates' = updates + 1
  /\ current' = [current EXCEPT ![m] = @ \union {im}]
  /\ force' = [s \in Sender |-> IF force[s][m] = {} THEN force[s]
                                ELSE [force[s] EXCEPT ![m] = @ \union {im}]]
  /\ UNCHANGED <<fd, mem, pc, op, lookup, drops, heap>>

\* One byte or word; the number of DCI clients comes before the DCI mask.
R_Copy ==
  /\ upd # None /\ pos < Size(upd)
  /\ mem' = [mem EXCEPT ![upd][pos] = target[pos]] /\ pos' = pos + 1
  /\ UNCHANGED <<fd, upd, target, updates, current, pc, op, lookup, force, drops,
                 heap>>

R_End ==
  /\ upd # None /\ pos = Size(upd)
  /\ current' = [current EXCEPT ![upd] = {target}] /\ upd' = None
  /\ UNCHANGED <<fd, mem, pos, target, updates, pc, op, lookup, force, drops, heap>>

\* Diag_LSM_DeInit closes the driver when the read thread has ended.
Close ==
  /\ fd /\ upd = None /\ fd' = FALSE
  /\ UNCHANGED <<driver, pc, op, lookup, force, drops, heap>>

----------------------------------------------------------------------------
(* Looking up                                                               *)

Goto(s, l) == pc' = [pc EXCEPT ![s] = l]

\* What the lookup read is not used again.
Forget(s) ==
  /\ ptr' = [ptr EXCEPT ![s] = 0] /\ first' = [first EXCEPT ![s] = 0]
  /\ type' = [type EXCEPT ![s] = {}] /\ force' = [force EXCEPT ![s] = NoForce]

\* The call returns.
Return(s) == Goto(s, "idle") /\ op' = [op EXCEPT ![s] = NoOp]

\* msg_send, log_submit, log_alloc, event_report: nothing is done without a driver.
S_Begin(s, o) ==
  /\ fd /\ pc[s] = "idle"
  /\ op' = [op EXCEPT ![s] = o]
  /\ Goto(s, IF o.svc = "msg" THEN "test" ELSE "tool")
  /\ force' = [force EXCEPT ![s] = [m \in Mask |-> IF m \in Reads(o) THEN current[m]
                                                                  ELSE {}]]
  /\ UNCHANGED <<fd, driver, lookup, drops, heap>>

\* Mutant: the walk does not look for the row that ends it.
BugS_Test(s) ==
  /\ pc[s] = "test" /\ Goto(s, IF ptr[s] >= MsgMaskSize THEN "past" ELSE "first")
  /\ UNCHANGED <<fd, driver, op, lookup, force, drops, heap>>

\* msg_get_ssid_rt_mask: a row whose last SSID is 0 ends the walk. When all rows
\* are in use the walk goes past the end of read_mask; what it finds there is
\* undefined, and the sender stays at "past".
S_Test(s) ==
  /\ pc[s] = "test"
  /\ Goto(s, IF ptr[s] >= MsgMaskSize THEN "past"
             ELSE IF Word(ptr[s] + 1) = 0 THEN "skip" ELSE "first")
  /\ UNCHANGED <<fd, driver, op, lookup, force, drops, heap>>

S_First(s) ==
  /\ pc[s] = "first"
  /\ first' = [first EXCEPT ![s] = Word(ptr[s])] /\ Goto(s, "actual")
  /\ UNCHANGED <<fd, driver, op, ptr, type, force, drops, heap>>

\* Mutant: the last SSID of a row is left out.
BugS_Actual(s) ==
  /\ pc[s] = "actual"
  /\ IF first[s] <= op[s].id /\ op[s].id < Word(ptr[s] + 2)
     THEN Goto(s, "mask") /\ UNCHANGED ptr
     ELSE Goto(s, "test") /\ ptr' = [ptr EXCEPT ![s] = @ + RowSize]
  /\ UNCHANGED <<fd, driver, op, first, type, force, drops, heap>>

S_Actual(s) ==
  /\ pc[s] = "actual"
  /\ IF first[s] <= op[s].id /\ op[s].id <= Word(ptr[s] + 2)
     THEN Goto(s, "mask") /\ UNCHANGED ptr
     ELSE Goto(s, "test") /\ ptr' = [ptr EXCEPT ![s] = @ + RowSize]
  /\ UNCHANGED <<fd, driver, op, first, type, force, drops, heap>>

\* The word of the SSID, read when the walk has ended, and'ed with ss_mask.
S_Mask(s) ==
  /\ pc[s] = "mask"
  /\ Goto(s, IF Word(ptr[s] + 3 + (op[s].id - first[s])) = 1 THEN "alloc"
                                                             ELSE "skip")
  /\ UNCHANGED <<fd, driver, op, lookup, force, drops, heap>>

\* log_status_mask and event_alloc: the tool's mask, then the number of DCI
\* clients, and the DCI clients' mask only if there are any.
S_Tool(s) ==
  /\ pc[s] = "tool"
  /\ type' = [type EXCEPT ![s] = IF mem[op[s].svc][op[s].id] = 1 THEN {"tool"}
                                                               ELSE {}]
  /\ Goto(s, "num")
  /\ UNCHANGED <<fd, driver, op, ptr, first, force, drops, heap>>

Decide(s, types) == Goto(s, IF types = {} THEN "skip" ELSE "alloc")

S_Num(s) ==
  /\ pc[s] = "num"
  /\ IF mem[dci(op[s].svc)][0] > 0 THEN Goto(s, "dci") ELSE Decide(s, type[s])
  /\ UNCHANGED <<fd, driver, op, lookup, force, drops, heap>>

S_Dci(s) ==
  /\ pc[s] = "dci"
  /\ type' = [type EXCEPT ![s] = @ \union (IF mem[dci(op[s].svc)][op[s].id] = 1
                                           THEN {"dci"} ELSE {})]
  /\ Decide(s, type'[s])
  /\ UNCHANGED <<fd, driver, op, ptr, first, force, drops, heap>>

\* Nobody wants it: NULL or FALSE is returned.
S_Skip(s) ==
  /\ pc[s] = "skip" /\ Forget(s) /\ Return(s)
  /\ UNCHANGED <<fd, driver, drops, heap>>

----------------------------------------------------------------------------
(* Sending                                                                  *)

\* Is another sender between reading and writing msg_drop_delta?
Meets(s) == \E o \in Sender \ {s} : pc[o] \in {"drop", "reset"}

\* No memory: a log or event is dropped silently, a message is counted.
S_NoMemory(s) ==
  /\ pc[s] = "alloc" /\ failures < MaxFail /\ failures' = failures + 1 /\ Forget(s)
  /\ IF op[s].svc = "msg"
     THEN /\ Goto(s, "drop") /\ count' = [count EXCEPT ![s] = msg_drop_delta]
          /\ overlap' = (overlap \/ Meets(s)) /\ UNCHANGED op
     ELSE Return(s) /\ UNCHANGED <<count, overlap>>
  /\ UNCHANGED <<fd, driver, msg_drop_delta, lost, reported, gen_inuse, leaked>>

S_Drop(s) ==
  /\ pc[s] = "drop" /\ Return(s) /\ count' = [count EXCEPT ![s] = 0]
  /\ msg_drop_delta' = count[s] + 1
  /\ lost' = IF overlap THEN lost ELSE lost + 1
  /\ UNCHANGED <<fd, driver, lookup, force, overlap, reported, heap>>

S_Alloc(s) ==
  /\ pc[s] = "alloc" /\ gen_inuse' = gen_inuse + 1 /\ Forget(s)
  /\ Goto(s, IF op[s].svc = "msg" THEN "count" ELSE "write")
  /\ UNCHANGED <<fd, driver, op, drops, leaked, failures>>

\* drop_cnt of the message is msg_drop_delta, 255 at most...
S_Count(s) ==
  /\ pc[s] = "count" /\ Goto(s, "reset")
  /\ count' = [count EXCEPT ![s] = IF msg_drop_delta > DropMax THEN DropMax
                                   ELSE msg_drop_delta]
  /\ overlap' = (overlap \/ Meets(s))
  /\ UNCHANGED <<fd, driver, op, lookup, force, msg_drop_delta, lost, reported, heap>>

\* Mutant: the number is not reset.
BugS_Reset(s) ==
  /\ pc[s] = "reset" /\ Goto(s, "write") /\ count' = [count EXCEPT ![s] = 0]
  /\ reported' = reported + count[s]
  /\ UNCHANGED <<fd, driver, op, lookup, force, msg_drop_delta, overlap, lost, heap>>

\* ... which is then reset.
S_Reset(s) ==
  /\ pc[s] = "reset" /\ Goto(s, "write") /\ count' = [count EXCEPT ![s] = 0]
  /\ msg_drop_delta' = 0
  /\ reported' = IF overlap THEN reported ELSE reported + count[s]
  /\ UNCHANGED <<fd, driver, op, lookup, force, overlap, lost, heap>>

\* Mutant: not freed when the driver is closed.
BugS_Write(s) ==
  /\ pc[s] = "write" /\ Return(s) /\ gen_inuse' = IF fd THEN gen_inuse - 1
                                                         ELSE gen_inuse
  /\ UNCHANGED <<fd, driver, lookup, force, drops, leaked, failures>>

\* Written, whatever the driver says to it, and freed; or log_free frees what
\* log_alloc returned.
S_Write(s) ==
  /\ pc[s] = "write" /\ Return(s) /\ gen_inuse' = gen_inuse - 1
  /\ UNCHANGED <<fd, driver, lookup, force, drops, leaked, failures>>

\* log_alloc looks up as log_submit does; but log_commit looks at the driver
\* again, and when it is closed by now the buffer stays behind.
S_LogCommit(s) ==
  /\ pc[s] = "write" /\ op[s].svc = "log" /\ ~fd /\ Return(s)
  /\ leaked' = leaked + 1
  /\ UNCHANGED <<fd, driver, lookup, force, drops, gen_inuse, failures>>

Sending(s) ==
  \/ \E o \in Ops : S_Begin(s, o)
  \/ S_Test(s) \/ S_First(s) \/ S_Actual(s) \/ S_Mask(s)
  \/ S_Tool(s) \/ S_Num(s) \/ S_Dci(s) \/ S_Skip(s)
  \/ S_NoMemory(s) \/ S_Drop(s) \/ S_Alloc(s) \/ S_Count(s) \/ S_Reset(s)
  \/ S_Write(s) \/ S_LogCommit(s)

Next ==
  \/ \E m \in Mask : \E im \in Images[m] : R_Begin(m, im)
  \/ R_Copy \/ R_End \/ Close
  \/ \E s \in Sender : Sending(s)

Spec == Init /\ [][Next]_vars

----------------------------------------------------------------------------
(* Properties                                                               *)

MsgWanted(s, im) == MsgEnabled(im, op[s].id)
ToolWanted(s, im) == im[op[s].id] = 1
DciWanted(s, im) == im[0] > 0 /\ im[op[s].id] = 1

\* A lookup that runs while the read thread overwrites the mask under it sends
\* nothing that no mask in force meanwhile asks for; one that met a single mask
\* decides what that mask says.
LookupRight ==
  \A s \in Sender :
    LET m == op[s].svc
        d == dci(m)
        one(k) == Cardinality(force[s][k]) = 1
    IN  IF m = "msg"
        THEN /\ pc[s] = "alloc" => \E im \in force[s][m] : MsgWanted(s, im)
             /\ pc[s] = "skip" /\ one(m) => \A im \in force[s][m] : ~MsgWanted(s, im)
        ELSE /\ "tool" \in type[s] => \E im \in force[s][m] : ToolWanted(s, im)
             /\ "dci" \in type[s] => \E im \in force[s][d] : DciWanted(s, im)
             /\ pc[s] = "skip" /\ one(m) => \A im \in force[s][m] : ~ToolWanted(s, im)
             /\ pc[s] = "skip" /\ one(d) => \A im \in force[s][d] : ~DciWanted(s, im)

\* The walk leaves read_mask only under a mask that uses all its rows, so that
\* none is left to end it.
PastOnlyWhenFull ==
  \A s \in Sender :
    pc[s] = "past" => \E im \in force[s]["msg"] : InUse(im, NumRows - 1)

\* "Number of messages dropped since last successful message" (msg_pkt_defs.h:288):
\* each message dropped is reported once, or is still to be, up to the 255 a
\* message can carry; until two senders meet between reading and writing the number.
DropsReported ==
  ~overlap =>
    /\ reported + msg_drop_delta <= lost
    /\ lost <= DropMax => reported + msg_drop_delta = lost

\* A buffer is held by a sender on its way to the driver, or log_commit found the
\* driver closed.
Holding == {s \in Sender : pc[s] \in {"count", "reset", "write"}}
BuffersReturned == gen_inuse = leaked + Cardinality(Holding)

----------------------------------------------------------------------------
(* The inductive invariant                                                  *)

InMsg == {"test", "first", "actual", "mask", "past", "drop", "count", "reset"}
InLog == {"tool", "num", "dci"}
Looking == {"test", "first", "actual", "mask", "tool", "num", "dci", "alloc", "skip", "past"}

Types ==
  /\ fd \in BOOLEAN /\ upd \in Mask \union {None} /\ pos \in Nat
  /\ DOMAIN mem = Mask /\ DOMAIN current = Mask
  /\ op \in [Sender -> Ops \union {NoOp}]
  /\ pc \in [Sender -> InMsg \union InLog \union {"alloc", "skip", "write", "idle"}]
  /\ ptr \in [Sender -> Nat] /\ first \in [Sender -> Nat]
  /\ type \in [Sender -> SUBSET {"tool", "dci"}]
  /\ DOMAIN force = Sender
  /\ \A s \in Sender : DOMAIN force[s] = Mask /\ \A m \in Mask : force[s][m] \subseteq Images[m]
  /\ msg_drop_delta \in Nat /\ count \in [Sender -> Nat] /\ overlap \in BOOLEAN
  /\ lost \in Nat /\ reported \in Nat /\ gen_inuse \in Nat /\ leaked \in Nat

\* A mask in memory is an image, or during a copy one image up to pos and another from there.
Copied(m) ==
  \/ upd # m /\ mem[m] \in Images[m] /\ current[m] = {mem[m]}
  \/ /\ upd = m /\ target \in Images[m] /\ pos <= Size(m)
     /\ \E old \in Images[m] :
          /\ current[m] = {old, target}
          /\ mem[m] = [p \in DOMAIN target |-> IF p < pos THEN target[p] ELSE old[p]]
          /\ m = "msg" => KeepsRows(old, target)

\* Every image that mem may have parts of is in force for the senders that look.
InForce(s) == pc[s] \in Looking => \A m \in Reads(op[s]) : current[m] \subseteq force[s][m]

Labels(s) ==
  /\ op[s].svc \in Mask
  /\ pc[s] \in InMsg => op[s].svc = "msg"
  /\ pc[s] \in InLog => op[s].svc \in {"log", "event"}
  /\ pc[s] # "idle" => op[s] \in Ops
  /\ pc[s] \notin Looking => ptr[s] = 0 /\ type[s] = {}

\* im was the only image in force since the lookup began.
Only(s, m, im) == force[s][m] = {im}

\* The range of a row.
InRow(im, r, ssid) == im[r * RowSize] <= ssid /\ ssid <= im[r * RowSize + 2]

\* The walk is at row r; the rows before are in use and not the one of the SSID.
AtRow(s, r) ==
  /\ ptr[s] = r * RowSize
  /\ \A q \in 0..(NumRows - 1) : q < r => Word(q * RowSize + 1) # 0
  /\ \A q \in 0..(NumRows - 1), im \in force[s]["msg"] :
       q < r /\ Only(s, "msg", im) => ~InRow(im, q, op[s].id)
  /\ pc[s] # "test" => r < NumRows /\ Word(ptr[s] + 1) # 0
  /\ pc[s] \in {"actual", "mask"} => first[s] = Word(ptr[s])
  /\ pc[s] = "mask" =>
       /\ first[s] <= op[s].id /\ op[s].id < first[s] + MaxSsid
       /\ \A im \in force[s]["msg"] : Only(s, "msg", im) => InRow(im, r, op[s].id)

Walk(s) == pc[s] \in {"test", "first", "actual", "mask"} => \E r \in 0..NumRows : AtRow(s, r)

\* What a sender of a message decided.
MsgRight(s) ==
  op[s].svc = "msg" =>
    /\ type[s] = {}
    /\ pc[s] = "alloc" => \E im \in force[s]["msg"] : MsgWanted(s, im)
    /\ pc[s] = "skip" => \A im \in force[s]["msg"] : Only(s, "msg", im) => ~MsgWanted(s, im)
    /\ pc[s] = "past" => \E im \in force[s]["msg"] : InUse(im, NumRows - 1)

\* What the sender of a log or event has decided so far.
LogRight(s) ==
  op[s].svc # "msg" =>
    LET m == op[s].svc
        d == dci(m)
    IN  /\ "tool" \in type[s] => \E im \in force[s][m] : ToolWanted(s, im)
        /\ "dci" \in type[s] => \E im \in force[s][d] : DciWanted(s, im)
        /\ pc[s] \in {"num", "dci", "skip"} /\ "tool" \notin type[s] =>
             \A im \in force[s][m] : Only(s, m, im) => ~ToolWanted(s, im)
        /\ pc[s] \in {"num", "dci"} => "dci" \notin type[s]
        /\ pc[s] = "skip" =>
             /\ type[s] = {}
             /\ \A im \in force[s][d] : Only(s, d, im) => ~DciWanted(s, im)

\* One sender at a time counts dropped messages, and what it read still holds.
Counting ==
  ~overlap =>
    /\ \A s, t \in Sender : pc[s] \in {"drop", "reset"} /\ pc[t] \in {"drop", "reset"} => s = t
    /\ \A s \in Sender :
         /\ pc[s] = "drop" => count[s] = msg_drop_delta
         /\ pc[s] = "reset" => count[s] = IF msg_drop_delta > DropMax THEN DropMax
                                          ELSE msg_drop_delta

Sound(s) == Labels(s) /\ InForce(s) /\ Walk(s) /\ MsgRight(s) /\ LogRight(s)

IInv ==
  /\ Types
  /\ \A m \in Mask : Copied(m)
  /\ \A s \in Sender : Sound(s)
  /\ Counting /\ DropsReported /\ BuffersReturned
=============================================================================
