-------------------------------- MODULE Odl --------------------------------
(***************************************************************************)
(* On-device logging of libdiag (include/dci/src/diag_lsm.c).              *)
(*                                                                         *)
(* The read thread (CreateWaitThread) takes packets from the diag driver   *)
(* and fills one of two pools; the write thread (WriteToDisk) empties the  *)
(* other one onto the SD card; an application thread changes the logging   *)
(* mode (diag_switch_logging), which flushes the pools (flush_buffer).     *)
(* One processor's buffer stands for the NUM_PROC buffers of a pool.  Log  *)
(* data is counted in units, numbered as the driver produces them; one     *)
(* read() brings any number of units up to MaxRead, in one or several      *)
(* payloads.  A thread blocked in pthread_cond_wait has a "..._wait" pc; a *)
(* signal moves it to "..._woken", where it competes for the mutex again.  *)
(* Every section under stop_mutex touches nothing that blocks, so it is    *)
(* one step and stop_mutex needs no variable.                              *)
(***************************************************************************)
EXTENDS Integers, Sequences

CONSTANTS
  Threshold,           (* DISK_FLUSH_THRESHOLD, in units                    *)
  BufSize,             (* DISK_BUF_SIZE, in units                           *)
  MaxRead,             (* the most units one read() brings                  *)
  MaxUnit,             (* bound: units of log data the driver produces      *)
  MaxSwitch,           (* bound: calls of diag_switch_logging               *)
  Targets,             (* the modes the application asks for                *)
  IoctlMayFail         (* DIAG_IOCTL_SWITCH_LOGGING may be refused          *)

Modes == {"USB_MODE", "MEMORY_DEVICE_MODE", "CALLBACK_MODE"}

ASSUME OdlAssumption ==
  /\ Threshold \in Nat \ {0} /\ BufSize \in Nat /\ Threshold <= BufSize
  /\ MaxRead \in Nat /\ MaxUnit \in Nat /\ MaxSwitch \in Nat
  /\ Targets \subseteq Modes
  /\ IoctlMayFail \in BOOLEAN

Pool == {0, 1}
Thread == {"reader", "writer"}
None == "none"
Garbage == 0          \* bytes of a pool that no unit was copied to

VARIABLES
  pcR, pcW, pcM,      \* control of the read thread, write thread, application
  wm, rm,             \* owner of pools[p].write_mutex and .read_mutex
  free, ready,        \* pools[p].free, .data_ready
  bytes, ptr, mem,    \* .bytes_in_buff, .buffer_ptr - buffer start, contents
  left,               \* units of the pool that WriteToDisk has still to write
  curr_read, curr_write, flush_log, in_read, write_in_progress,
  logging_mode, log_to_memory,
  target,             \* argument of the diag_switch_logging call in progress
  kmode,              \* external: the mode the driver is in
  sigusr,             \* SIGUSR2 pending for the blocked read()
  size,               \* read_buffer: how many units of log data it holds
  nextUnit,           \* external: the next unit the driver delivers
  switches,           \* calls of diag_switch_logging so far
  refused,            \* history: the driver has refused a mode
  overrun,            \* history: a copy has gone past the end of a pool's buffer
  accepted,           \* history: units fill_pkt_buffer copied, in order
  written             \* history: what log_to_device put on the SD card

pools   == <<free, ready, bytes, ptr, mem>>
locks   == <<wm, rm>>
modes   == <<logging_mode, log_to_memory, target, kmode, switches, refused>>
input   == <<size, nextUnit>>
history == <<overrun, accepted, written>>
flags   == <<flush_log, in_read, write_in_progress, sigusr>>
vars == <<pcR, pcW, pcM, pools, left, locks, curr_read, curr_write, flags, modes,
          input, history>>

Init ==
  /\ pcR = "r_test" /\ pcW = None /\ pcM = "m_idle"
  /\ wm = [p \in Pool |-> None] /\ rm = [p \in Pool |-> None]
  /\ free = [p \in Pool |-> TRUE] /\ ready = [p \in Pool |-> FALSE]
  /\ bytes = [p \in Pool |-> 0] /\ ptr = [p \in Pool |-> 0] /\ left = 0
  /\ mem = [p \in Pool |-> [i \in 1..BufSize |-> Garbage]]
  /\ curr_read = 0 /\ curr_write = 0 /\ flush_log = 0
  /\ in_read = FALSE /\ write_in_progress = FALSE /\ sigusr = FALSE
  /\ logging_mode = "USB_MODE" /\ log_to_memory = FALSE
  /\ target = "USB_MODE" /\ kmode = "USB_MODE" /\ switches = 0
  /\ refused = FALSE
  /\ size = 0 /\ nextUnit = 1
  /\ overrun = FALSE /\ accepted = <<>> /\ written = <<>>

----------------------------------------------------------------------------
(* The read thread: CreateWaitThread and process_diag_payload.             *)

\* The loop test: a flush sends the thread to the drain branch.
R_Test ==
  /\ pcR = "r_test"
  /\ pcR' = IF flush_log # 0 THEN "r_drain" ELSE "r_enter"
  /\ UNCHANGED <<pcW, pcM, pools, left, locks, curr_read, curr_write, flags, modes,
                 input, history>>

\* in_read = 1; the thread is not in read() yet.
R_Enter ==
  /\ pcR = "r_enter" /\ pcR' = "r_call" /\ in_read' = TRUE
  /\ UNCHANGED <<pcW, pcM, pools, left, locks, curr_read, curr_write, flush_log,
                 write_in_progress, sigusr, modes, input, history>>

R_Call ==
  /\ pcR = "r_call" /\ pcR' = "r_read"
  /\ UNCHANGED <<pcW, pcM, pools, left, locks, curr_read, curr_write, flags, modes,
                 input, history>>

\* read() returns with n units in read_buffer.
Returns(next, n) ==
  /\ pcR = "r_read" /\ pcR' = next
  /\ size' = n /\ nextUnit' = nextUnit + n
  /\ in_read' = FALSE /\ sigusr' = FALSE
  /\ UNCHANGED <<pcW, pcM, pools, left, locks, curr_read, curr_write, flush_log,
                 write_in_progress, modes, history>>

\* Log data, none of it or up to MaxRead units for this processor.
R_ReadPkt ==
  /\ kmode # "USB_MODE"
  /\ \E n \in 0..MaxRead : nextUnit + n <= MaxUnit + 1 /\ Returns("r_check", n)

\* read() returns 0 (SIGUSR2, suspend) or a packet that is not log data.
R_ReadOther == Returns("r_test", 0)

\* read() fails or returns DEINIT_TYPE: the read thread ends.
R_End == Returns("r_over", 0)

\* The units in read_buffer: the last ones the driver delivered.
Units == [i \in 1..size |-> nextUnit - size + i - 1]

\* Dispatch of a USER_SPACE_DATA_TYPE packet, unless a flush has begun.  In
\* another mode log_to_device hands it to the application's callback, or drops it.
R_Check ==
  /\ pcR = "r_check"
  /\ pcR' = IF flush_log = 0 /\ logging_mode = "MEMORY_DEVICE_MODE"
            THEN "r_lockw" ELSE "r_test"
  /\ UNCHANGED <<pcW, pcM, pools, left, locks, curr_read, curr_write, flags, modes,
                 input, history>>

\* Lock write_mutex, then read_mutex.
R_LockW ==
  /\ pcR = "r_lockw" /\ wm[curr_read] = None
  /\ wm' = [wm EXCEPT ![curr_read] = "reader"] /\ pcR' = "r_lockr"
  /\ UNCHANGED <<pcW, pcM, pools, left, rm, curr_read, curr_write, flags, modes,
                 input, history>>

\* Mutant: the test of pools[curr_read].free is left out.
BugR_LockR ==
  /\ pcR = "r_lockr" /\ rm[curr_read] = None /\ pcR' = "r_fill"
  /\ UNCHANGED <<pcW, pcM, pools, left, locks, curr_read, curr_write, flags, modes,
                 input, history>>

\* Under both mutexes: if no buffer is free, unlock write_mutex and wait on
\* read_cond (which unlocks read_mutex); otherwise unlock read_mutex.
R_LockR ==
  /\ pcR = "r_lockr" /\ rm[curr_read] = None
  /\ \/ /\ free[curr_read] /\ pcR' = "r_fill" /\ UNCHANGED wm
     \/ /\ ~free[curr_read] /\ pcR' = "r_wait"
        /\ wm' = [wm EXCEPT ![curr_read] = None]
  /\ UNCHANGED <<pcW, pcM, pools, left, rm, curr_read, curr_write, flags, modes,
                 input, history>>

\* pthread_cond_wait returns with read_mutex held ...
R_Woken ==
  /\ pcR = "r_woken" /\ rm[curr_read] = None
  /\ rm' = [rm EXCEPT ![curr_read] = "reader"] /\ pcR' = "r_relock"
  /\ UNCHANGED <<pcW, pcM, pools, left, wm, curr_read, curr_write, flags, modes,
                 input, history>>

\* ... and write_mutex is locked again before read_mutex is unlocked.
R_Relock ==
  /\ pcR = "r_relock" /\ wm[curr_read] = None
  /\ wm' = [wm EXCEPT ![curr_read] = "reader"]
  /\ rm' = [rm EXCEPT ![curr_read] = None] /\ pcR' = "r_fill"
  /\ UNCHANGED <<pcW, pcM, pools, left, curr_read, curr_write, flags, modes, input,
                 history>>

\* pthread_cond_signal(&pools[p].write_cond): only the write thread waits there.
SignalWrite(p) ==
  pcW' = IF pcW = "w_wait" /\ curr_write = p THEN "w_woken" ELSE pcW

\* Mutant: the flush threshold is exclusive.
BugBuffer_full(n) == n > Threshold

\* DISK_FLUSH_THRESHOLD reached: the pool is handed over.
buffer_full(n) == n >= Threshold

\* Every payload of the packet is copied to buffer_ptr of pool p, whatever room
\* is left; what goes past the buffer is lost here (it destroys other memory).
\* valid_token never returns -1, so the early return FALSE is never taken.
fill_pkt_buffer(p) ==
  [mem EXCEPT ![p] = [i \in 1..BufSize |->
     IF ptr[p] < i /\ i <= ptr[p] + size THEN Units[i - ptr[p]] ELSE mem[p][i]]]

\* fill_pkt_buffer, buffer_full and the hand-over of a full pool.
R_Fill ==
  /\ pcR = "r_fill"
  /\ mem' = fill_pkt_buffer(curr_read)
  /\ bytes' = [bytes EXCEPT ![curr_read] = @ + size]
  /\ overrun' = (overrun \/ ptr[curr_read] + size > BufSize)
  /\ accepted' = accepted \o Units
  /\ wm' = [wm EXCEPT ![curr_read] = None] /\ pcR' = "r_test"
  /\ \/ /\ buffer_full(bytes[curr_read] + size)
        /\ ready' = [ready EXCEPT ![curr_read] = TRUE]
        /\ free' = [free EXCEPT ![curr_read] = FALSE]
        /\ ptr' = [ptr EXCEPT ![curr_read] = 0]
        /\ SignalWrite(curr_read)
        /\ curr_read' = 1 - curr_read
     \/ /\ ~buffer_full(bytes[curr_read] + size)
        /\ ptr' = [ptr EXCEPT ![curr_read] = @ + size]
        /\ UNCHANGED <<ready, free, pcW, curr_read>>
  /\ UNCHANGED <<left, pcM, rm, curr_write, flags, modes, input, written>>

\* Drain branch: while (write_in_progress) sleep(1) ...
R_Drain ==
  /\ pcR = "r_drain" /\ ~write_in_progress /\ pcR' = "r_mark"
  /\ UNCHANGED <<pcW, pcM, pools, left, locks, curr_read, curr_write, flags, modes,
                 input, history>>

\* ... then mark the current pool ready without holding its mutex.
R_Mark ==
  /\ pcR = "r_mark"
  /\ ready' = [ready EXCEPT ![curr_read] = TRUE]
  /\ free' = [free EXCEPT ![curr_read] = FALSE]
  /\ ptr' = [ptr EXCEPT ![curr_read] = 0]
  /\ pcR' = "r_dlock"
  /\ UNCHANGED <<left, pcW, pcM, bytes, mem, locks, curr_read, curr_write, flags,
                 modes, input, history>>

R_DrainLock ==
  /\ pcR = "r_dlock" /\ wm[curr_read] = None
  /\ wm' = [wm EXCEPT ![curr_read] = "reader"] /\ pcR' = "r_announce"
  /\ UNCHANGED <<pcW, pcM, pools, left, rm, curr_read, curr_write, flags, modes,
                 input, history>>

\* Mutant: write_cond is not signalled.
BugR_Announce ==
  /\ pcR = "r_announce"
  /\ flush_log' = flush_log + 1
  /\ wm' = [wm EXCEPT ![curr_read] = None] /\ pcR' = "r_flip"
  /\ UNCHANGED <<pcW, pcM, pools, left, rm, curr_read, curr_write, in_read,
                 write_in_progress, sigusr, modes, input, history>>

\* flush_log++ under stop_mutex, signal write_cond, unlock write_mutex.
R_Announce ==
  /\ pcR = "r_announce"
  /\ flush_log' = flush_log + 1
  /\ SignalWrite(curr_read)
  /\ wm' = [wm EXCEPT ![curr_read] = None] /\ pcR' = "r_flip"
  /\ UNCHANGED <<pcM, pools, left, rm, curr_read, curr_write, in_read,
                 write_in_progress, sigusr, modes, input, history>>

R_Flip ==
  /\ pcR = "r_flip" /\ curr_read' = 1 - curr_read /\ pcR' = "r_park"
  /\ UNCHANGED <<pcW, pcM, pools, left, locks, curr_write, flags, modes, input,
                 history>>

\* Under stop_mutex: wait on stop_cond unless the flush is already over.
R_Park ==
  /\ pcR = "r_park"
  /\ pcR' = IF flush_log # 0 THEN "r_parked" ELSE "r_test"
  /\ UNCHANGED <<pcW, pcM, pools, left, locks, curr_read, curr_write, flags, modes,
                 input, history>>

Reader == \/ R_Test \/ R_Enter \/ R_Call \/ R_ReadPkt \/ R_ReadOther \/ R_End \/ R_Check
          \/ R_LockW \/ R_LockR \/ R_Woken \/ R_Relock \/ R_Fill
          \/ R_Drain \/ R_Mark \/ R_DrainLock \/ R_Announce \/ R_Flip \/ R_Park

----------------------------------------------------------------------------
(* The write thread: WriteToDisk.                                          *)

\* Lock write_mutex; wait on write_cond (if, not while) if there is no data.
W_Lock ==
  /\ pcW = "w_lock" /\ wm[curr_write] = None
  /\ \/ /\ ready[curr_write] /\ pcW' = "w_begin"
        /\ wm' = [wm EXCEPT ![curr_write] = "writer"]
     \/ /\ ~ready[curr_write] /\ pcW' = "w_wait" /\ UNCHANGED wm
  /\ UNCHANGED <<pcR, pcM, pools, left, rm, curr_read, curr_write, flags, modes,
                 input, history>>

W_Woken ==
  /\ pcW = "w_woken" /\ wm[curr_write] = None
  /\ wm' = [wm EXCEPT ![curr_write] = "writer"] /\ pcW' = "w_begin"
  /\ UNCHANGED <<pcR, pcM, pools, left, rm, curr_read, curr_write, flags, modes,
                 input, history>>

W_Begin ==
  /\ pcW = "w_begin" /\ write_in_progress' = TRUE /\ pcW' = "w_write"
  /\ left' = bytes[curr_write]
  /\ UNCHANGED <<pcR, pcM, pools, locks, curr_read, curr_write, flush_log,
                 in_read, sigusr, modes, input, history>>

\* The byte buffer_ptr points to.
At(p) == IF ptr[p] < BufSize THEN mem[p][ptr[p] + 1] ELSE Garbage

\* Mutant: buffer_ptr is not advanced between the chunks.
BugW_Chunk ==
  /\ pcW = "w_write" /\ left > 0
  /\ written' = Append(written, At(curr_write)) /\ left' = left - 1
  /\ UNCHANGED <<pcR, pcW, pcM, pools, locks, curr_read, curr_write, flags,
                 modes, input, overrun, accepted>>

\* log_to_device for one chunk of the pool.
W_Chunk ==
  /\ pcW = "w_write" /\ left > 0
  /\ written' = Append(written, At(curr_write)) /\ left' = left - 1
  /\ ptr' = [ptr EXCEPT ![curr_write] = @ + 1]
  /\ UNCHANGED <<pcR, pcW, pcM, free, ready, bytes, mem, locks, curr_read,
                 curr_write, flags, modes, input, overrun, accepted>>

W_Written ==
  /\ pcW = "w_write" /\ left = 0
  /\ write_in_progress' = FALSE /\ pcW' = "w_free"
  /\ UNCHANGED <<pcR, pcM, pools, left, locks, curr_read, curr_write,
                 flush_log, in_read, sigusr, modes, input, history>>

\* pools[curr_write].free = 1 is a step of its own: R_Mark may come between.
W_Free ==
  /\ pcW = "w_free" /\ free' = [free EXCEPT ![curr_write] = TRUE]
  /\ pcW' = "w_clear"
  /\ UNCHANGED <<left, pcR, pcM, ready, bytes, ptr, mem, locks, curr_read,
                 curr_write, flags, modes, input, history>>

\* data_ready = 0, empty the buffer; exit if both steps of a flush are done.
W_Clear ==
  /\ pcW = "w_clear"
  /\ ready' = [ready EXCEPT ![curr_write] = FALSE]
  /\ bytes' = [bytes EXCEPT ![curr_write] = 0]
  /\ ptr' = [ptr EXCEPT ![curr_write] = 0]
  /\ \/ /\ flush_log = 2 /\ pcW' = "w_exit"
        /\ wm' = [wm EXCEPT ![curr_write] = None]
     \/ /\ flush_log # 2 /\ pcW' = "w_signal" /\ UNCHANGED wm
  /\ UNCHANGED <<left, pcR, pcM, free, mem, rm, curr_read, curr_write, flags, modes,
                 input, history>>

W_Exit ==
  /\ pcW = "w_exit" /\ flush_log' = flush_log + 1 /\ pcW' = None
  /\ UNCHANGED <<pcR, pcM, pools, left, locks, curr_read, curr_write, in_read,
                 write_in_progress, sigusr, modes, input, history>>

\* Mutant: the write thread stays on its pool.
BugW_Signal ==
  /\ pcW = "w_signal" /\ rm[curr_write] = None
  /\ pcR' = IF pcR = "r_wait" /\ curr_read = curr_write THEN "r_woken" ELSE pcR
  /\ wm' = [wm EXCEPT ![curr_write] = None] /\ pcW' = "w_lock"
  /\ UNCHANGED <<pcM, pools, left, rm, curr_read, curr_write, flags, modes, input,
                 history>>

\* Signal read_cond under read_mutex, unlock write_mutex, go to the other pool.
W_Signal ==
  /\ pcW = "w_signal" /\ rm[curr_write] = None
  /\ pcR' = IF pcR = "r_wait" /\ curr_read = curr_write THEN "r_woken" ELSE pcR
  /\ wm' = [wm EXCEPT ![curr_write] = None]
  /\ curr_write' = 1 - curr_write /\ pcW' = "w_lock"
  /\ UNCHANGED <<pcM, pools, left, rm, curr_read, flags, modes, input, history>>

Writer == \/ W_Lock \/ W_Woken \/ W_Begin \/ W_Chunk \/ W_Written \/ W_Free \/ W_Clear
          \/ W_Exit \/ W_Signal

----------------------------------------------------------------------------
(* The application thread: diag_switch_logging and flush_buffer(0).        *)

M_Switch(mode) ==
  /\ pcM = "m_idle" /\ switches < MaxSwitch /\ mode # logging_mode
  /\ target' = mode /\ switches' = switches + 1
  /\ pcM' = IF log_to_memory THEN "m_flush" ELSE "m_setup"
  /\ UNCHANGED <<pcR, pcW, pools, left, locks, curr_read, curr_write, flags,
                 logging_mode, log_to_memory, kmode, refused, input, history>>

M_Flush ==
  /\ pcM = "m_flush" /\ flush_log' = 1 /\ pcM' = "m_kick"
  /\ UNCHANGED <<pcR, pcW, pools, left, locks, curr_read, curr_write, in_read,
                 write_in_progress, sigusr, modes, input, history>>

\* if (in_read) pthread_kill(): lost unless the thread is already inside read().
M_Kick ==
  /\ pcM = "m_kick" /\ pcM' = "m_await"
  /\ sigusr' = (in_read /\ pcR = "r_read")
  /\ UNCHANGED <<pcR, pcW, pools, left, locks, curr_read, curr_write, flush_log,
                 in_read, write_in_progress, modes, input, history>>

\* Mutant: the caller waits for the first increment only.
BugFlushDone == flush_log >= 2

\* The caller's loop while (flush_log < 3) is over.
FlushDone == flush_log >= 3

\* while (flush_log < 3) sleep(1); then the clean-up under stop_mutex.
M_Reset ==
  /\ pcM = "m_await" /\ FlushDone
  /\ flush_log' = 0 /\ write_in_progress' = FALSE /\ in_read' = FALSE
  /\ curr_read' = 0 /\ curr_write' = 0
  /\ free' = [p \in Pool |-> TRUE] /\ ready' = [p \in Pool |-> FALSE]
  /\ pcM' = "m_setup"
  /\ UNCHANGED <<left, pcR, pcW, bytes, ptr, mem, locks, sigusr, modes, input,
                 history>>

\* Leave the old mode, prepare the new one (for ODL, create the write thread).
\* The test for an entry of client_tbl with a pid but no callback never fires:
\* the registration sets both.
M_Setup ==
  /\ pcM = "m_setup"
  /\ ptr' = IF logging_mode = "MEMORY_DEVICE_MODE" THEN [p \in Pool |-> 0]
                                                   ELSE ptr
  /\ log_to_memory' = (target = "MEMORY_DEVICE_MODE")
  /\ pcW' = IF target = "MEMORY_DEVICE_MODE" THEN "w_lock" ELSE pcW
  /\ pcM' = "m_ioctl"
  /\ UNCHANGED <<left, pcR, free, ready, bytes, mem, locks, curr_read, curr_write,
                 flags, logging_mode, target, kmode, switches, refused,
                 input, history>>

M_Ioctl ==
  /\ pcM = "m_ioctl"
  /\ \/ /\ kmode' = target /\ UNCHANGED refused
        /\ pcM' = IF logging_mode = "MEMORY_DEVICE_MODE" THEN "m_resume"
                                                         ELSE "m_assign"
     \/ /\ IoctlMayFail /\ pcM' = "m_idle" /\ refused' = TRUE /\ UNCHANGED kmode
  /\ UNCHANGED <<pcR, pcW, pools, left, locks, curr_read, curr_write, flags,
                 logging_mode, log_to_memory, target, switches, input,
                 history>>

\* Mutant: stop_cond is not signalled.
BugM_Resume ==
  /\ pcM = "m_resume" /\ pcM' = "m_assign"
  /\ UNCHANGED <<pcR, pcW, pools, left, locks, curr_read, curr_write, flags, modes,
                 input, history>>

\* Signal stop_cond under stop_mutex.
M_Resume ==
  /\ pcM = "m_resume" /\ pcM' = "m_assign"
  /\ pcR' = IF pcR = "r_parked" THEN "r_test" ELSE pcR
  /\ UNCHANGED <<pcW, pools, left, locks, curr_read, curr_write, flags, modes, input,
                 history>>

M_Assign ==
  /\ pcM = "m_assign" /\ pcM' = "m_idle" /\ logging_mode' = target
  /\ UNCHANGED <<pcR, pcW, pools, left, locks, curr_read, curr_write, flags,
                 log_to_memory, target, kmode, switches, refused, input,
                 history>>

Main == \/ \E mode \in Targets : M_Switch(mode)
        \/ M_Flush \/ M_Kick \/ M_Reset \/ M_Setup \/ M_Ioctl
        \/ M_Resume \/ M_Assign

----------------------------------------------------------------------------
Next == Reader \/ Writer \/ Main

Spec == Init /\ [][Next]_vars

\* The scheduler runs every thread that is not blocked.  A signal ends read();
\* otherwise the driver owes it nothing: it may stay silent for ever.  The calls
\* the application makes (M_Switch) are its own choice.
Fairness == WF_vars(Reader /\ (pcR = "r_read" => sigusr)) /\ WF_vars(Writer)
            /\ WF_vars(Main /\ pcM # "m_idle")

FairSpec == Spec /\ Fairness

----------------------------------------------------------------------------
(* Properties.                                                             *)

ReaderPc == {"r_test", "r_enter", "r_call", "r_read", "r_over", "r_check", "r_lockw", "r_lockr",
             "r_wait", "r_woken", "r_relock", "r_fill", "r_drain", "r_mark",
             "r_dlock", "r_announce", "r_flip", "r_park", "r_parked"}
WriterPc == {None, "w_lock", "w_wait", "w_woken", "w_begin", "w_write",
             "w_free", "w_clear", "w_exit", "w_signal"}
MainPc == {"m_idle", "m_flush", "m_kick", "m_await", "m_setup", "m_ioctl",
           "m_resume", "m_assign"}

TypeControl ==
  /\ pcR \in ReaderPc /\ pcW \in WriterPc /\ pcM \in MainPc
  /\ curr_read \in Pool /\ curr_write \in Pool /\ flush_log \in 0..3
  /\ in_read \in BOOLEAN /\ write_in_progress \in BOOLEAN
  /\ sigusr \in BOOLEAN
  /\ logging_mode \in Modes /\ log_to_memory \in BOOLEAN
  /\ target \in Modes /\ kmode \in Modes /\ switches \in Nat
  /\ refused \in BOOLEAN

TypePools ==
  /\ wm \in [Pool -> Thread \union {None}]
  /\ rm \in [Pool -> Thread \union {None}]
  /\ free \in [Pool -> BOOLEAN] /\ ready \in [Pool -> BOOLEAN]
  /\ bytes \in [Pool -> Nat] /\ ptr \in [Pool -> Nat] /\ left \in Nat

TypeData ==
  /\ mem \in [Pool -> [1..BufSize -> Nat]]
  /\ size \in 0..MaxRead /\ nextUnit \in Nat /\ size < nextUnit
  /\ overrun \in BOOLEAN
  /\ accepted \in Seq(Nat) /\ written \in Seq(Nat)

\* Every variable of the logging threads stays in its declared range; in
\* particular flush_log, which three threads change, never leaves 0..3.
TypeOK == TypeControl /\ TypePools /\ TypeData

\* The write thread is working on the buffer of pools[curr_write].
WriterHolds == {"w_begin", "w_write", "w_free", "w_clear"}

\* process_diag_payload copies a packet only into a pool that is free and that
\* the write thread is not emptying ("Wait if no buffer is free ... One buffer
\* got free continue writting", diag_lsm.c:1488-1499).
FillsFreePool ==
  pcR = "r_fill" => /\ free[curr_read]
                    /\ ~(pcW \in WriterHolds /\ curr_write = curr_read)

\* What fits on top of a pool that has just missed the threshold: 12 KB + 1.
HeadRoom == BufSize - Threshold + 1

\* The unbounded memcpy of fill_pkt_buffer (1395) leaves the pool's buffer only if
\* a single read() brings more than the head room between DISK_FLUSH_THRESHOLD
\* and DISK_BUF_SIZE (READ_BUF_SIZE would allow it): however packets accumulate
\* and pools are handed over, flushed and reset, no smaller packet overruns one.
FillInBounds ==
  pcR = "r_fill" /\ ptr[curr_read] + size > BufSize => size > HeadRoom

\* When flush_buffer resets the pools (1247-1256), which it does without their
\* mutexes, the write thread is gone and the read thread is past its drain:
\* nobody holds or waits for a pool.
ResetQuiescent ==
  [][flush_log # 0 /\ flush_log' = 0
       => /\ pcW = None
          /\ pcR \in {"r_flip", "r_park", "r_parked"}
          /\ \A p \in Pool : wm[p] = None /\ rm[p] = None]_vars

\* What a pool still has to put on the card.
Pending(p) == SubSeq(mem[p], IF pcW \in {"w_write", "w_free", "w_clear"}
                                  /\ curr_write = p
                               THEN bytes[p] - left + 1 ELSE 1, bytes[p])

\* No mode was left yet: no flush has begun.
FirstSession == switches <= 1

\* And no buffer was overrun.
Orderly == FirstSession /\ ~overrun

\* Double buffering loses, repeats and reorders nothing: the card plus the two
\* pools, the write thread's first, hold exactly the accepted data in order, until
\* a flush cuts the hand-over short (process_diag_payload, WriteToDisk) or a read
\* larger than the head room has overrun a buffer.
NothingLost ==
  Orderly =>
    accepted = written \o Pending(curr_write) \o Pending(1 - curr_write)

\* A pool handed over by the read thread is emptied and given back, unless a
\* flush begins: the two threads' pool indices and condition variables never
\* leave the write thread asleep on the other pool.
FullPoolWritten == \A p \in Pool : ready[p] ~> free[p] \/ ~FirstSession

\* flush_buffer "flushes the pending data in the buffers" (diag_lsm.c:1162):
\* when the first flush is over, the card holds every accepted packet, in order.
FlushWritesPending ==
  pcM = "m_await" /\ flush_log = 3 => written = accepted

\* Once the clean-up is over, a read thread that waits for it on stop_cond goes
\* back to reading ("wait for cleanup to complete", diag_lsm.c:3090-3092).
ParkedResumes == pcR = "r_parked" /\ flush_log = 0 ~> pcR # "r_parked" \/ refused

Drained == {"r_flip", "r_park", "r_parked"}

\* The write thread emptied the pool marked for the flush before the read
\* thread's flush_log++ and sleeps on the other pool's write_cond.
Overslept ==
  flush_log = 2 /\ pcR \in Drained /\ pcW = "w_wait" /\ ~ready[curr_write]

\* The flush began after the loop test (3059) and before read() blocked: no
\* SIGUSR2 was sent, or it was lost, and the thread sits in read() until the
\* driver happens to deliver something.
Unkicked == flush_log = 1 /\ pcM = "m_await" /\ pcR = "r_read" /\ ~sigusr

\* The read thread has left its loop: nobody drains.
ReaderGone == flush_log = 1 /\ pcR = "r_over"

\* A mode switch that has begun comes to its end or hangs for ever in one of three
\* places (diag_lsm.c:1245): the write thread overslept, the driver stays silent
\* after a lost SIGUSR2, or the read thread has ended.  Every other order of the
\* three threads completes the handshake, until the driver refuses a mode.
FlushEnds ==
  pcM = "m_flush" ~> pcM = "m_idle" \/ [](Overslept \/ Unkicked \/ ReaderGone) \/ refused

----------------------------------------------------------------------------
(* The inductive invariant behind TypeOK, FillsFreePool, FillInBounds and   *)
(* ResetQuiescent.                                                          *)

\* The two increments of flush_log: the read thread's (1 -> 2) and then the
\* write thread's (2 -> 3), while flush_buffer waits.
Handshake ==
  /\ flush_log # 0 <=> pcM \in {"m_kick", "m_await"}
  /\ flush_log >= 2 => pcR \in Drained
  /\ pcR \in {"r_drain", "r_mark", "r_dlock", "r_announce"} => flush_log = 1
  /\ pcW = "w_exit" => flush_log = 2
  /\ flush_log \in {1, 2} => pcW # None
  /\ flush_log = 3 => pcW = None

\* The write thread lives from M_Setup to the end of the next flush.
WriterLife ==
  /\ pcM = "m_flush" => pcW # None
  /\ pcM = "m_setup" => pcW = None
  /\ pcM \in {"m_idle", "m_ioctl", "m_resume", "m_assign"}
       => (log_to_memory <=> pcW # None)

\* The pc of a thread says which mutex of which pool it holds.
Locks ==
  \A p \in Pool :
    /\ wm[p] = "reader" <=> /\ pcR \in {"r_lockr", "r_fill", "r_announce"}
                            /\ curr_read = p
    /\ wm[p] = "writer" <=> /\ pcW \in WriterHolds \union {"w_signal"}
                            /\ curr_write = p
    /\ rm[p] = "reader" <=> pcR = "r_relock" /\ curr_read = p
    /\ rm[p] # "writer"

\* The pool the reader is about to fill, or is woken for, is free; the one the
\* writer gives back is free unless a drain has just taken it.
FreePools ==
  /\ pcR \in {"r_woken", "r_relock", "r_fill"} => free[curr_read]
  /\ pcW \in {"w_clear", "w_signal"} /\ ~free[curr_write]
       => pcR = "r_dlock" /\ curr_read = curr_write

\* Outside the write thread's loop, buffer_ptr lags behind bytes_in_buff and
\* never reaches the threshold.
Bounded ==
  \A p \in Pool :
    \/ pcW \in {"w_write", "w_free", "w_clear"} /\ curr_write = p
    \/ ptr[p] <= bytes[p] /\ ptr[p] < Threshold

\* What every step of the logging threads preserves.
IInv == TypeOK /\ Handshake /\ WriterLife /\ Locks /\ FreePools /\ Bounded

(* The inductive invariant behind NothingLost: what holds until a second    *)
(* mode is asked for.                                                       *)

\* The one switch so far came from USB_MODE, so it flushes and resets nothing.
FirstSwitch ==
  /\ pcM \in {"m_idle", "m_setup", "m_ioctl", "m_assign"} /\ pcR \notin Drained
  /\ switches = 0 => pcM = "m_idle" /\ ~log_to_memory
  /\ switches = 0 \/ pcM # "m_idle" => logging_mode = "USB_MODE"

\* A pool is free and holds ptr units, or is ready: full, and being emptied from its start.
PoolStates ==
  \A p \in Pool :
    /\ bytes[p] <= BufSize
    /\ ~ready[p] => free[p] /\ ptr[p] = bytes[p]
    /\ ready[p] /\ free[p] => pcW = "w_clear" /\ curr_write = p
    /\ ready[p] => IF pcW \in {"w_write", "w_free", "w_clear"} /\ curr_write = p
                   THEN ptr[p] + left = bytes[p] ELSE ptr[p] = 0

\* Whose turn it is: the threads alternate between the pools, and the reader is ahead of the
\* writer by no, one or two full pools.
Turns ==
  /\ pcW \in WriterHolds \union {"w_woken"} => ready[curr_write]
  /\ pcW \in {"w_free", "w_clear"} => left = 0
  /\ pcW = "w_signal" => ~ready[curr_write] /\ bytes[curr_write] = 0
  /\ IF curr_read = curr_write
     THEN ready[1 - curr_write] <=> ready[curr_write] \/ pcW = "w_signal"
     ELSE ~ready[curr_read] /\ (ready[curr_write] \/ pcW = "w_signal")
  /\ ready[1 - curr_read] \/ bytes[1 - curr_read] = 0

FirstInv ==
  NothingLost /\ (Orderly => FirstSwitch /\ PoolStates /\ Turns)
=============================================================================
