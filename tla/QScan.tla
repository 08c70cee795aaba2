------------------------------- MODULE QScan -------------------------------
(***************************************************************************)
(* The life of the qscan process: main() builds its objects one after the  *)
(* other and destroys them in reverse order (qscan.cpp, DCI.cpp); libdiag  *)
(* starts a read thread in the middle of Diag_LSM_Init and joins it in     *)
(* Diag_LSM_DeInit (diag_lsm.c), and that thread reads the masks the       *)
(* driver sends and calls the objects of main() with the logs.             *)
(***************************************************************************)
EXTENDS Integers, FiniteSets, Functions

CONSTANTS
  MaxTries,        (* MAX_MASK_SYNC_COUNT                                   *)
  MaxChanges       (* bound: changes of the masks in the driver             *)

ASSUME QScanAssumption == MaxTries \in Nat /\ MaxChanges \in Nat

SyncMask == {"msg", "log", "event"}        \* MASK_SYNC_COMPLETE
DciMask  == {"dlog", "devent"}
Mask     == SyncMask \cup DciMask
Starting == {"open", "thread", "malloc", "initLog", "initMsg", "initEvent", "table", "fill", "sync",
             "register", "list", "stream", "server", "callback", "parser", "handler"}
Ending   == {"~parser", "~processor", "~server", "~dci", "~handlers", "ended"}
DeIniting == {"ask", "join", "close", "free"}

VARIABLES
  pc,            \* main(): the next step
  back,          \* where Diag_LSM_DeInit returns to
  opened,        \* fd is open
  tries,         \* count of do_mask_sync
  tab,           \* the masks in libdiag's tables; 0: as the program was loaded, or cleared
  synced,        \* diag_sync_mask
  table,         \* dci_client_tbl: not allocated, allocated, filled, freed
  client,        \* _client_id # -1
  stream,        \* func_ptr_logs is proxy_log_handler
  armed,         \* the TcpServer has its callback
  handler,       \* the parser is in _log_handlers
  rd, hand,      \* read thread: control, the packet in read_buffer
  cur, ready,    \* external, the driver: its masks, the kinds of packets it has for the process
  registered, streaming,   \* external: its DCI client, the log codes of that client
  bad,           \* history: what was used before it was built or after it was destroyed
  lost,          \* history: the DCI masks wiped by an Init
  leak           \* history: the step whose failure made the set-up return without a client

main   == <<pc, back>>
lib    == <<opened, tries, table, client, stream>>
masks  == <<tab, synced, lost>>
reader == <<rd, hand>>
kernel == <<cur, ready, registered, streaming>>
vars   == <<main, lib, masks, armed, handler, reader, kernel, bad, leak>>

Nothing == [kind |-> "none", val |-> 0]

Init ==
  /\ pc = "open" /\ back = "none"
  /\ opened = FALSE /\ tries = 0 /\ table = "null" /\ client = FALSE /\ stream = FALSE
  /\ tab = [m \in Mask |-> 0] /\ synced = {} /\ lost = {}
  /\ armed = FALSE /\ handler = FALSE
  /\ rd = "none" /\ hand = Nothing
  /\ cur = [m \in Mask |-> 1] /\ ready = {} /\ registered = FALSE /\ streaming = FALSE
  /\ bad = {} /\ leak = "none"

Goto(from, to) == pc = from /\ pc' = to /\ UNCHANGED back

\* The set-up fails; main() ignores that (qscan.cpp 45) and goes on.
GiveUp == pc' = "server" /\ leak' = pc /\ UNCHANGED back

\* Diag_LSM_Init fails and cleans up.
CleanUp == pc' = "ask" /\ back' = "server"

-----------------------------------------------------------------------------
(* Diag_LSM_Init.                                                           *)

I_Open ==
  /\ pc = "open"
  /\ \/ /\ Goto("open", "thread")
        /\ opened' = TRUE
        /\ ready' = Mask          \* the driver has all masks ready for a process that opens it
        /\ UNCHANGED leak
     \/ GiveUp /\ UNCHANGED <<opened, ready>>
  /\ UNCHANGED <<tries, table, client, stream, masks, armed, handler, reader, cur, registered,
                 streaming, bad>>

I_Thread ==
  /\ pc = "thread"
  /\ \/ Goto("thread", "malloc") /\ rd' = "read" /\ UNCHANGED leak
     \/ GiveUp /\ UNCHANGED rd
  /\ UNCHANGED <<lib, masks, armed, handler, hand, kernel, bad>>

\* DiagSvc_Malloc_Init and Diag_LSM_Msg_Init, which may have no memory.
BugI_Memory ==
  /\ \/ Goto("malloc", "initLog") /\ UNCHANGED leak
     \/ Goto("initMsg", "initEvent") /\ UNCHANGED leak
     \/ pc = "malloc" /\ CleanUp /\ UNCHANGED leak
     \/ pc = "initMsg" /\ GiveUp
  /\ UNCHANGED <<lib, masks, armed, handler, reader, kernel, bad>>

I_Memory ==
  /\ \/ Goto("malloc", "initLog")
     \/ Goto("initMsg", "initEvent")
     \/ pc \in {"malloc", "initMsg"} /\ CleanUp
  /\ UNCHANGED <<lib, masks, armed, handler, reader, kernel, bad, leak>>

\* Diag_LSM_Log_Init and Diag_LSM_Event_Init clear the cumulative DCI mask of their service.
Cleared(m) ==
  /\ tab' = [tab EXCEPT ![m] = 0]
  /\ lost' = IF tab[m] = 0 THEN lost ELSE lost \cup {m}
  /\ UNCHANGED synced

I_Clear ==
  /\ \/ Goto("initLog", "initMsg") /\ Cleared("dlog")
     \/ Goto("initEvent", "table") /\ Cleared("devent")
  /\ UNCHANGED <<lib, armed, handler, reader, kernel, bad, leak>>

\* diag_lsm_dci_init: the pointer is global before the table is filled.
I_Table ==
  /\ \/ Goto("table", "fill") /\ table' = "allocated"
     \/ Goto("fill", "sync") /\ table' = "filled"
     \/ pc = "table" /\ CleanUp /\ UNCHANGED table
  /\ UNCHANGED <<opened, tries, client, stream, masks, armed, handler, reader, kernel, bad, leak>>

\* do_mask_sync; a timeout returns without Diag_LSM_DeInit.
I_Sync ==
  /\ pc = "sync"
  /\ \/ synced = SyncMask /\ Goto("sync", "register") /\ UNCHANGED <<tries, leak>>
     \/ synced # SyncMask /\ tries < MaxTries /\ tries' = tries + 1 /\ UNCHANGED <<main, leak>>
     \/ synced # SyncMask /\ tries = MaxTries /\ GiveUp /\ UNCHANGED tries
  /\ UNCHANGED <<opened, table, client, stream, masks, armed, handler, reader, kernel, bad>>

-----------------------------------------------------------------------------
(* The rest of DCI::setup_interface, and main().                            *)

S_Register ==
  /\ pc = "register"
  /\ \/ Goto("register", "list") /\ client' = TRUE /\ registered' = TRUE /\ UNCHANGED leak
     \/ GiveUp /\ UNCHANGED <<client, registered>>
  /\ UNCHANGED <<opened, tries, table, stream, masks, armed, handler, reader, cur, ready, streaming,
                 bad>>

\* diag_get_dci_support_list may fail and then no stream is registered.
S_Stream ==
  /\ \/ Goto("list", "stream") /\ UNCHANGED <<stream, leak>>
     \/ pc = "list" /\ GiveUp /\ UNCHANGED stream
     \/ Goto("stream", "server") /\ stream' = TRUE /\ UNCHANGED leak
  /\ UNCHANGED <<opened, tries, table, client, masks, armed, handler, reader, kernel, bad>>

\* TcpServer and CommandProcessor, set_callback, Parser, add_log_handler.
M_Build ==
  /\ \/ Goto("server", "callback") /\ UNCHANGED <<armed, handler>>
     \/ Goto("callback", "parser") /\ armed' = TRUE /\ UNCHANGED handler
     \/ Goto("parser", "handler") /\ UNCHANGED <<armed, handler>>
     \/ Goto("handler", "loop") /\ handler' = TRUE /\ UNCHANGED armed
  /\ UNCHANGED <<lib, masks, reader, kernel, bad, leak>>

\* dci.set_log_codes, for which the command SET_LOG_CODES is there (qscan sets none yet).
M_SetLogCodes ==
  /\ pc = "loop" /\ client /\ ~streaming
  /\ streaming' = TRUE
  /\ UNCHANGED <<main, lib, masks, armed, handler, reader, cur, ready, registered, bad, leak>>

\* SIGINT; then the destructors of the parser, the processor and the server, which joins its thread.
M_Leave ==
  /\ \/ Goto("loop", "~parser")
     \/ Goto("~parser", "~processor")
     \/ Goto("~processor", "~server")
     \/ Goto("~server", "~dci")
  /\ UNCHANGED <<lib, masks, armed, handler, reader, kernel, bad, leak>>

\* The thread of the server calls CommandProcessor::process_command.
C_Command ==
  /\ armed /\ pc \in {"parser", "handler", "loop", "~parser", "~processor", "~server"}
  /\ bad' = IF pc = "~server" THEN bad \cup {"processor"} ELSE bad
  /\ UNCHANGED <<main, lib, masks, armed, handler, reader, kernel, leak>>

-----------------------------------------------------------------------------
(* DCI::~DCI with diag_release_dci_client and Diag_LSM_DeInit.              *)

D_Release ==
  /\ pc = "~dci"
  /\ \/ /\ ~client
        /\ Goto("~dci", "~handlers")
        /\ UNCHANGED <<registered, streaming>>
     \/ /\ client
        /\ pc' = "ask" /\ back' = "~handlers"
        /\ \/ registered' = FALSE /\ streaming' = FALSE
           \/ UNCHANGED <<registered, streaming>>       \* refused, and the result is ignored
  /\ UNCHANGED <<lib, masks, armed, handler, reader, cur, ready, bad, leak>>

\* ioctl(DIAG_IOCTL_LSM_DEINIT): the driver sends the read thread a DEINIT_TYPE packet.
BugD_Ask ==
  /\ Goto("ask", "join")
  /\ ready' = ready \cup {"deinit"}
  /\ table' = IF table = "null" THEN "null" ELSE "freed"
  /\ UNCHANGED <<opened, tries, client, stream, masks, armed, handler, reader, cur, registered,
                 streaming, bad, leak>>

D_Ask ==
  /\ Goto("ask", "join")
  /\ ready' = ready \cup {"deinit"}
  /\ UNCHANGED <<lib, masks, armed, handler, reader, cur, registered, streaming, bad, leak>>

D_Join ==
  /\ Goto("join", "close")
  /\ rd = "done"
  /\ UNCHANGED <<lib, masks, armed, handler, reader, kernel, bad, leak>>

\* close(fd): the driver forgets the process.
D_Close ==
  /\ Goto("close", "free")
  /\ opened' = FALSE
  /\ ready' = {} /\ registered' = FALSE /\ streaming' = FALSE
  /\ UNCHANGED <<tries, table, client, stream, masks, armed, handler, reader, cur, bad, leak>>

\* diag_lsm_dci_deinit frees the table and keeps the pointer.
D_Free ==
  /\ pc = "free" /\ pc' = back /\ back' = "none"
  /\ table' = IF table = "null" THEN "null" ELSE "freed"
  /\ UNCHANGED <<opened, tries, client, stream, masks, armed, handler, reader, kernel, bad, leak>>

\* The destructor of the base class, with _log_handlers; dci_object still points there.
D_Base ==
  /\ Goto("~handlers", "ended")
  /\ UNCHANGED <<lib, masks, armed, handler, reader, kernel, bad, leak>>

-----------------------------------------------------------------------------
(* The read thread.  The driver sends DEINIT_TYPE before anything else.     *)

BugR_Read ==
  /\ rd = "read"
  /\ \E k \in ready :
       /\ "deinit" \in ready => k = "deinit"
       /\ hand' = [kind |-> k, val |-> IF k \in Mask THEN cur[k] ELSE 0]
       /\ ready' = ready \ {k}
       /\ synced' = synced \cup (SyncMask \cap {k})
  /\ rd' = "handle"
  /\ UNCHANGED <<main, lib, tab, lost, armed, handler, cur, registered, streaming, bad, leak>>

R_Read ==
  /\ rd = "read"
  /\ \E k \in ready :
       /\ "deinit" \in ready => k = "deinit"
       /\ hand' = [kind |-> k, val |-> IF k \in Mask THEN cur[k] ELSE 0]
       /\ ready' = ready \ {k}
  /\ rd' = "handle"
  /\ UNCHANGED <<main, lib, masks, armed, handler, cur, registered, streaming, bad, leak>>

\* read() fails, and the thread ends.
R_Fails ==
  /\ rd = "read" /\ rd' = "done"
  /\ UNCHANGED <<main, lib, masks, armed, handler, hand, kernel, bad, leak>>

BugR_Exit ==
  /\ rd = "handle" /\ hand.kind = "deinit"
  /\ rd' = "read" /\ hand' = Nothing
  /\ UNCHANGED <<main, lib, masks, armed, handler, kernel, bad, leak>>

R_Exit ==
  /\ rd = "handle" /\ hand.kind = "deinit"
  /\ rd' = "done" /\ hand' = Nothing
  /\ UNCHANGED <<main, lib, masks, armed, handler, kernel, bad, leak>>

\* msg_update_mask, log_update_mask, event_update_mask and the two of DCI.
R_Mask ==
  /\ rd = "handle" /\ hand.kind \in Mask
  /\ tab' = [tab EXCEPT ![hand.kind] = hand.val]
  /\ lost' = lost \ {hand.kind}
  /\ IF hand.kind \in SyncMask THEN rd' = "sync" /\ UNCHANGED hand
                               ELSE rd' = "read" /\ hand' = Nothing
  /\ UNCHANGED <<main, lib, synced, armed, handler, kernel, bad, leak>>

\* update_sync_mask.
R_Sync ==
  /\ rd = "sync"
  /\ synced' = synced \cup {hand.kind}
  /\ rd' = "read" /\ hand' = Nothing
  /\ UNCHANGED <<main, lib, tab, lost, armed, handler, kernel, bad, leak>>

\* A log: the client table, its callback, then proxy_log_handler.
R_Table ==
  /\ rd = "handle" /\ hand.kind = "data"
  /\ bad' = bad \cup (IF table = "filled" THEN {} ELSE {"table"})
                \cup (IF stream THEN {} ELSE {"callback"})
  /\ rd' = "call"
  /\ UNCHANGED <<main, lib, masks, armed, handler, hand, kernel, leak>>

\* DCI::_handle_log calls the handlers in its list.
R_Call ==
  /\ rd = "call"
  /\ bad' = bad \cup (IF pc = "ended" THEN {"dci"} ELSE {})
                \cup (IF handler /\ pc \notin Starting \cup {"loop", "~parser"}
                        THEN {"parser"} ELSE {})
  /\ rd' = "read" /\ hand' = Nothing
  /\ UNCHANGED <<main, lib, masks, armed, handler, kernel, leak>>

-----------------------------------------------------------------------------
(* The driver: a mask changes, a log arrives.                               *)

E_Change(m) ==
  /\ opened /\ FoldFunction(+, 0, cur) < Cardinality(Mask) + MaxChanges
  /\ cur' = [cur EXCEPT ![m] = @ + 1]
  /\ ready' = ready \cup {m}
  /\ UNCHANGED <<main, lib, masks, armed, handler, reader, registered, streaming, bad, leak>>

E_Log ==
  /\ registered /\ streaming /\ "data" \notin ready
  /\ ready' = ready \cup {"data"}
  /\ UNCHANGED <<main, lib, masks, armed, handler, reader, cur, registered, streaming, bad, leak>>

Setup == I_Open \/ I_Thread \/ I_Memory \/ I_Clear \/ I_Table \/ I_Sync \/ S_Register \/ S_Stream
Destroy == D_Release \/ D_Ask \/ D_Join \/ D_Close \/ D_Free \/ D_Base
Reader == R_Read \/ R_Exit \/ R_Mask \/ R_Sync \/ R_Table \/ R_Call
Driver == (\E m \in Mask : E_Change(m)) \/ E_Log
Next ==
  \/ Setup \/ M_Build \/ M_SetLogCodes \/ M_Leave \/ C_Command \/ Destroy
  \/ Reader \/ R_Fails \/ Driver

\* Threads that can run do; read() need never fail, the user may never press Ctrl-C, a server may wait for its client for
\* ever.
Spec == Init /\ [][Next]_vars /\ WF_vars(Setup) /\ WF_vars(M_Build) /\ WF_vars(Destroy)
             /\ WF_vars(Reader)

-----------------------------------------------------------------------------
\* Types; and do_mask_sync sleeps at most MAX_MASK_SYNC_COUNT times before it gives up.
TypeOK ==
  /\ pc \in Starting \cup {"loop"} \cup Ending \cup DeIniting /\ back \in {"none", "server", "~handlers"}
  /\ opened \in BOOLEAN /\ tries \in 0..MaxTries /\ client \in BOOLEAN /\ stream \in BOOLEAN
  /\ table \in {"null", "allocated", "filled", "freed"}
  /\ tab \in [Mask -> 0..(MaxChanges + 1)] /\ synced \subseteq SyncMask /\ lost \subseteq DciMask
  /\ armed \in BOOLEAN /\ handler \in BOOLEAN
  /\ rd \in {"none", "read", "handle", "sync", "call", "done"}
  /\ hand \in [kind : Mask \cup {"none", "deinit", "data"}, val : 0..(MaxChanges + 1)]
  /\ cur \in [Mask -> 1..(MaxChanges + 1)] /\ ready \subseteq Mask \cup {"deinit", "data"}
  /\ registered \in BOOLEAN /\ streaming \in BOOLEAN
  /\ bad \subseteq {"table", "callback", "dci", "parser", "processor"}
  /\ leak \in Starting \cup {"none"}

\* What do_mask_sync is for: once Diag_LSM_Init has gone past it, the three masks of the driver are
\* in the tables that log_status and the message and event services consult.  And when the
\* read thread has nothing left to read, the tables are what the driver last sent, whatever
\* initialisation ran meanwhile; a DCI mask that arrived before its service was initialised is the
\* exception: Diag_LSM_Log_Init or Diag_LSM_Event_Init has wiped it.
MasksKept ==
  /\ client \/ pc = "register" => \A m \in SyncMask : tab[m] > 0
  /\ rd = "read" => \A m \in Mask \ ready : tab[m] = cur[m] \/ (m \in lost /\ tab[m] = 0)

\* The read thread and the server's thread use nothing that is not built yet or is destroyed: the
\* client table is there whenever a log is handled and the DCI object is, on every way the
\* set-up can fail.  Excepted are the callback, if the set-up failed before it was registered
\* (main() ignores that), and, while main() returns, the parser and the processor, which it
\* destroys before the threads that call them are stopped.
UsesLive ==
  bad \subseteq (IF leak = "list" THEN {"callback"} ELSE {})
                \cup (IF pc \in Starting \cup {"loop"} THEN {} ELSE {"parser", "processor"})

\* When main() returns, the handle is closed, the read thread has ended and the driver has no client,
\* unless the set-up failed after opening and before registration (thread creation, mask
\* synchronisation, registration): then nobody calls Diag_LSM_DeInit.
Released ==
  pc = "ended" /\ leak \notin {"thread", "sync", "register"}
    => ~opened /\ ~registered /\ rd \in {"none", "done"}

\* The destructor of DCI ends: the read thread comes back from whatever it is doing and is joined.
DestructorEnds == pc = "~dci" ~> pc = "ended"

-----------------------------------------------------------------------------
(* The inductive invariant behind MasksKept, UsesLive and Released.         *)

\* The steps of the set-up, in which nobody but setup_interface and the read thread runs.
InSetup == {"open", "thread", "malloc", "initLog", "initMsg", "initEvent", "table", "fill", "sync",
            "register", "list", "stream"}

Closed == ~opened /\ ~registered /\ rd \in {"none", "done"}

Control ==
  /\ pc \in Starting \cup {"loop"} \cup Ending \cup DeIniting
  /\ IF pc \in DeIniting THEN back \in {"server", "~handlers"} ELSE back = "none"
  /\ rd \in {"none", "read", "handle", "sync", "call", "done"}

\* Objects are built in the order of the steps, and handlers come after the set-up.
Order ==
  /\ pc = "open" => leak = "none" /\ Closed /\ rd = "none"
  /\ pc = "thread" => rd = "none" /\ opened
  /\ pc \in {"sync", "register", "list", "stream"} => table = "filled"
  /\ pc \in InSetup => ~handler /\ bad = {}
  /\ handler => pc \notin Starting
  /\ back = "server" => ~client /\ ~handler /\ bad = {}
  /\ pc \in {"close", "free"} => rd = "done"
  /\ pc = "free" => Closed

\* A client is registered late, and its DCI object outlives the read thread.
Client ==
  /\ registered => client
  /\ pc \in {"list", "stream"} \/ back = "~handlers" => client
  /\ client => pc \notin InSetup \ {"list", "stream"}
  /\ client /\ rd # "done" => table = "filled" /\ pc \notin {"~handlers", "ended"}
  /\ client /\ pc \in {"~handlers", "ended"} => Closed
  /\ client /\ pc \notin {"list", "stream"} => stream \/ leak = "list"

\* Set-up that failed without Diag_LSM_DeInit leaves what it opened behind.
LeftBehind ==
  pc \notin InSetup \cup DeIniting => client \/ leak \in {"thread", "sync", "register"} \/ Closed

\* A log is somewhere on its way.
Data == streaming \/ "data" \in ready \/ (hand.kind = "data" /\ rd \in {"handle", "call"})

Logs ==
  /\ rd = "call" => hand.kind = "data"
  /\ Data => client /\ pc \notin InSetup /\ (stream \/ leak = "list")
  /\ bad # {} => pc \notin InSetup

\* The masks: what is not in the driver's queue is in the hand of the read thread, in the tables,
\* or wiped.
Masks ==
  /\ cur \in [Mask -> Nat \ {0}] /\ tab \in [Mask -> Nat] /\ synced \subseteq SyncMask
  /\ ready \subseteq Mask \cup {"deinit", "data"}
  /\ hand.kind \in Mask => hand.val \in Nat \ {0}
  /\ rd = "sync" => hand.kind \in SyncMask /\ tab[hand.kind] > 0
  /\ \A m \in synced : tab[m] > 0
  /\ client \/ pc = "register" => synced = SyncMask
  /\ pc = "thread" => Mask \subseteq ready
  /\ rd = "handle" /\ hand.kind \in Mask \ ready => hand.val = cur[hand.kind]
  /\ rd \notin {"none", "done"} =>
       \A m \in Mask \ ready : \/ tab[m] = cur[m]
                               \/ m \in lost /\ tab[m] = 0
                               \/ rd = "handle" /\ hand.kind = m

IInv == Control /\ Order /\ Client /\ LeftBehind /\ Logs /\ Masks /\ UsesLive
=============================================================================
