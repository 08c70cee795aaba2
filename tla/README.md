# A verification development for mgcomm

mgcomm connects a TCP client to the diagnostic interface of a Qualcomm modem. It takes commands over
a socket, asks the modem for log packets through `libdiag` (the diag library of the modem vendor, in
`include/dci`), decodes the packets and writes the decoded text back to the client. A second program,
`ut-ModemAt`, talks AT commands to a modem tty.

Line numbers below are those of the repository; `diag_lsm*.c` are in `src/include/dci/src`.

## 1. The system: parts, state, interaction

Threads: in the `qscan` process there are the main thread (`qscan.cpp`), the client thread of
`TcpServer`, and the *read thread* of libdiag (`CreateWaitThread`). On-device logging adds the *write
thread* (`WriteToDisk`). The kernel's diag driver (`/dev/diag`), the socket layer, the tty and the
modem are external.

| part | source | state | operations | what makes it correct |
|---|---|---|---|---|
| On-device logging | `diag_lsm.c` 1171-1578, 1706-1788, 2590-2676, 3039-3117 | two buffer pools with two mutexes and conditions each, `flush_log`, `curr_read`, `curr_write`, `logging_mode` | read a packet, fill a pool, write a pool, flush, switch mode | nothing lost, repeated, reordered or overrun; a flush ends and leaves nothing behind |
| TCP server | `server/TcpServer.cpp` | `clientfd_`, `sockfd_`, `terminate_`, `keeped_`, the static `eol_flag` | accept, receive and cut into commands, `writeline`, destructor | a command reaches the callback once, whole, from the client that sent it; only own descriptors are closed; the destructor ends |
| DCI client table | `diag_lsm_dci.c` | one table entry per processor, the list of tracked requests, the transaction counter | register, release, send request, response, stream configuration | a response reaches the handler of its request once and none after release; entries are freed once |
| Log code set | `dci/DCIBase.cpp`, `dci/DCI.cpp` | `_log_codes`, the mask in the driver | set, add, reset; dispatch of a log | the local set and the driver's mask agree, partial failures included |
| Life of libdiag | `diag_lsm.c` 198-243, 2828-3036, `diag_lsm_*.c` init/deinit | handle, read thread, pools of memory, tables, mask synchronisation flags | `Diag_LSM_Init`, `Diag_LSM_DeInit` | masks that arrive are not lost; init and deinit pair up |
| Service memory | `diagsvc_malloc.c` | two pools of ten buffers | `DiagSvc_Malloc`, `DiagSvc_Free`, init, exit | a buffer is handed out once and returns to its pool |
| Packet dispatch | `diag_lsm_pkt.c` | dispatch table, list of delayed responses | register, process request, allocate, commit, free | a request meets one handler; delayed responses keep their id until the last |
| Log, event, message services | `diag_lsm_log.c`, `diag_lsm_event.c`, `diag_lsm_msg.c` | masks per equipment id / event / SSID, DCI masks | mask update, status query, allocate/commit | what is sent is what the masks allow |
| Circular logging | `diag_lsm.c` 1655-1703, 1790-2044, 2082-2330 | `file_count`, cached list of oldest files, open file | open, rotate, delete the oldest | the number of files stays below the limit; the file in use is never deleted |
| Log parser | `parser/*.cpp` | none | decode by log code | the packet's code selects its decoder |
| Command processor | `CommandProcessor.cpp` | the command stream | process a command | each word of the command is used once |
| AT command port | `atcmd/ModemAt.cpp` | fd, bytes in flight | open, command, read with timeout | the answer returned belongs to the command sent |
| Program | `qscan.cpp` | all of the above, in one scope | start-up, shut-down | no callback reaches an object before it is built or after it is destroyed |
| Not modelled | `mgcomm.sh`, `msg_arrays_i.c`, `ts_linux.c`, `include/dci/include`, `include/log_codes`, unit tests | | | tables, formatting, time stamps, shell menus |

Interaction. `qscan` constructs `DCI`, calls `setup_interface`, then constructs `TcpServer`, whose
thread calls back into `CommandProcessor`; the read thread calls `DCI::_handle_log`, which calls the
handlers added by `add_log_handler`, one of which decodes and calls `TcpServer::writeline`. So two
threads that no lock of mgcomm orders meet in `TcpServer` (`clientfd_`) and in `DCIBase`
(`_log_codes`, the handler list). In libdiag the read thread and the callers of the API share every
table; some are behind a mutex (DCI requests, delayed responses, pools), most are not.

## 2. Plan

Modules, ordered by what can go wrong in them. All but the last line are built.

| module | composes / implements | state |
|---|---|---|
| `Odl`, `OdlProof` | | built, safety proved |
| `TcpServer`, `TcpServerProof` | implements `Framing` | built, safety and refinement proved |
| `DciClient`, `MCDciClient`, `DciClientProof` | | built, safety proved |
| `LogCodes`, `MgcommProof` | | built, safety proved |
| `DiagPool`, `MCDiagPool`, `DiagPoolProof` | | built, safety proved |
| `QScan`, `MgcommProof` | the life times of DCI, libdiag, TcpServer, parser and processor | built, safety proved |
| `ModemAt`, `MgcommProof` | | built, safety proved |
| `CircularLog`, `CircularLogProof` | what `Odl`'s `log_to_device` does with a chunk | built, safety proved |
| `PktDispatch`, `MCPktDispatch`, `PktDispatchProof` | the user table and the list of delayed responses, read thread against application and workers | built, safety proved |
| `Services`, `MCServices`, `ServicesProof` | log, event and message services: what is sent under which mask | built, safety proved |
| `Command` | command words and decoders as operators, against a reference definition | to come; needs a run of its own |

Runs. There is one run per question, with the smallest instance in which the interesting case
happens twice (two flushes, two clients, two processors, two workers).

Theorems. Every safety property of a passing run, the refinement of `Framing` and the action properties
are theorems (section 5); the liveness properties stay with TLC.

## 3. Modules and code

### Odl: on-device logging

One processor's buffer stands for the `NUM_PROC` buffers of a pool. Data is counted in units; one `read()`
brings any number of units up to `MaxRead`, which `fill_pkt_buffer` copies without looking at the end of the
buffer (`overrun` records a copy past it). The two mutexes of each pool are variables (`wm`, `rm`: their owner); a thread in
`pthread_cond_wait` has a control state that ends in `wait`, and a signal moves it to `woken`, where
it competes for the mutex.

| code | actions |
|---|---|
| `CreateWaitThread`, `process_diag_payload`, `fill_pkt_buffer` (read thread) | `R_*` |
| `WriteToDisk` (write thread) | `W_*` |
| `diag_switch_logging`, `flush_buffer` (application) | `M_*` |

The driver delivers log packets in the mode it is in, and other packets; SIGUSR2 is a flag that ends a
blocked `read()` and is lost on a thread that is not in it. `read()` may also fail, or bring
`DEINIT_TYPE`, and then the read thread ends (`R_End`).

### TcpServer and Framing

`TcpServer` has the client thread step by step between system calls, the main thread
(`set_callback`, destructor) and a thread in `writeline`. The process's descriptor table is modelled
with the standard input at 0, because the server passes descriptor 0 to `recv`, `send` and `close`.
`process_buf` is a loop over the bytes of a chunk (`Scan`, one turn is `ScanByte`), with the static
`eol_flag` and `keeped_` as its state between chunks.
`Framing` says what a command is without either: newlines pair up, a command ends at the second of a
pair and reaches the callback when that byte arrives. `ImplementsFraming` is the refinement, with the
bytes received as `stream` and the calls of the callback as `commands`. `Connection` and `Framed`, after
the properties, are the invariants that the proofs use.

### DciClient

The calls of `diag_lsm_dci.c` in steps (`A_*`, `S_*`, `L_*`: application threads; `R_*`: the read
thread), with the heap (`live` entries and buffers) and what is freed as explicit state: `misuse`
becomes true at the step that uses or frees something freed. The driver keeps what it has been asked
and answers in any order, with immediate, delayed and final responses, of right or wrong length.
Logs stand for events too. `OneCaller` is what qscan is: one application thread, which passes ids that it
was given. After an entry was freed, deleting it again writes through its old pointers (`Unlink`): the model
then lets the lists be anything, and `TrackedIsLive` speaks of behaviours up to the first such use.

### LogCodes

`DCIBase::set_log_codes`, `add_log_codes`, `reset_log_codes` and the two halves of
`_manipulate_log_codes` (message to the driver, then the local set) against the driver's mask, the
list of handlers (with the reallocation of `std::vector`) and `DCI::_handle_log`, a range-for over two
iterators. `add_log_handler` may be called at any time, as the code allows. The names that `QScan`
and `ModemAt` have too are prefixed in two of the three (`CodesInit`, `pcC`; `AtInit`, `pcA`), so that
one module can extend all three and prove about each.

### DiagPool

`DiagSvc_Malloc_Init`, `_Exit`, `DiagSvc_Malloc` and `DiagSvc_Free`: the scan under the mutex, the flag
outside it, the heap when a pool is exhausted or the request is large, `malloc` failing at any point.

### QScan

`main()` from the construction of `DCI` to the end of the destructors, with `Diag_LSM_Init` and
`Diag_LSM_DeInit` unfolded into their steps, the read thread that they start and join, and the
driver's masks. Every step of the set-up can fail; `main()` ignores the result, as the code does. A failing
`read()` ends the read thread at any time (`R_Fails`).

### ModemAt

`write_` and `read_` of the constructor, `at_cmd` and the destructor; the tty is a sequence of pieces,
each marked with the command it answers. When the port is opened the tty may hold old pieces, and the modem
may have the end of an old answer still to send: they are marked 0. The modem is as fast or as slow as it
likes, and sends unsolicited lines. AT text has no NUL bytes, at which `result += buf` (94) would stop.

### CircularLog

`log_to_device` in `MEMORY_DEVICE_MODE` with `init_circular_logging`, `create_oldest_file_list`,
`get_oldest_file`, `delete_log`, `close_logging_file`. A file is its second; the directories, the
cached list, `file_count` and the open file of each processor are the state. `now` moves between
any two steps; `unlink`, `open`, `fstat` and a full disk can fail. Only MSM is `ready` at the start (2892);
another processor becomes so with its first packet, which the read thread may meet at any moment
(`R_Ready`, 1344-1390). Lists may have been made for any of the processors. Counting looks at all lists,
rotation passes processors by that are not ready: `foreign` is the number of files that were counted and
cannot be deleted. `X_Close` and `S_Close` are the two closings at the end of a session. `CircularLogAssumption` asks for a limit of
at least two files, and that the files of former runs are older than the clock's bound.

### PktDispatch

`diag_lsm_pkt.c` with its three kinds of threads:

| code | actions |
|---|---|
| `diagpkt_tbl_reg` (application) | `M_*`: a slot is taken, filled, and the driver told |
| `diagpkt_LSM_process_request`, the handler, `diagpkt_commit` (read thread) | `R_*` |
| `diagpkt_subsys_alloc_v2_delay`, `diagpkt_delay_commit` and the list functions (a worker per delayed command) | `W_*` |

The search of the user table takes no lock, so each slot is a step. The list of delayed responses is
searched without its mutex and changed under it: each entry of a walk is a step, adding and unlinking
are one step each, freeing is a step of its own after the mutex. A worker that comes upon a freed entry
is `lost`: from there the behaviour is undefined. Requests, ids, entries and workers have the same
numbers. A handler may also answer with an error response or an empty one, which makes no entry
(`R_Error`). `early`, `raced` and `failed` are history for the properties' exceptions. The application
registers from one thread, a handler commits before it returns, and codes registered under two command
codes have one delay flag (`PktAssumption`), because `diagpkt_with_delay` does not look at the command
code.

### Services

The masks as the senders see them: `process_diag_payload` copies an image into a mask piece by piece
(`R_*`) while `log_submit`, `log_alloc` and `log_commit` or `log_free`, `event_report` and the `msg_send`
family look up their item (`S_*`), and the driver can be closed at any point (`Close`). A position of
the log and event masks is one item; the message mask keeps its layout of rows, because the walk over
the rows depends on the words that the copy is overwriting. The drop count of messages is read, written
and reset in separate steps, as the unlocked code does. `ServicesAssumption` says what the driver sends: images
of one size per mask, in which the rows of the message mask in use come first and have disjoint ranges
(`Formed`). A new message mask keeps the first two words of every row in use (`KeepsRows`).

## 4. Runs

| run | bounds | what it shows |
|---|---|---|
| `odl` | 4 units, reads of up to 3, a head room of 2, 3 mode switches to any mode, refused ioctls, fairness | pools are filled when free, a buffer is overrun only by a read larger than the head room, the unlocked reset meets nobody; nothing lost in the first session, full pools are written, and, while no switch was refused, parked threads resume and flushes end but for three named places where they hang |
| `odl_loses` | 4 units, reads of up to 2, 2 switches | violation: a flush can leave its pool unwritten |
| `tcp_server` | 2 clients, 4 bytes in chunks of up to 3 | commands are framed however they are cut, no descriptor leaks, clients are served |
| `tcp_zero` | 2 clients, 1 byte | violation: a connected client on descriptor 0 |
| `dci_client` | 2 processors, 2 registrations, 2 requests, one delayed response | lists and memory are consistent, responses meet their handlers, requests are answered |
| `codes` | 3 codes, messages of 2, 3 calls, a log | set and mask agree, a set is all or nothing, the handler loop leaves the list only when a handler was added late |
| `pool` | 3 threads, 2 buffers per pool, 5 heap blocks | one owner per buffer, no lost slot, no leak |
| `qscan` | 1 sleep in the mask synchronisation, 1 change of a mask | masks survive the initialisation, nothing is used outside its life time, shut-down ends |
| `modem_at` | 2 iterations of `read_`, 4 commands, 1 unsolicited line, 1 old piece in the tty and the rest of an old answer | bytes are kept in order, answers are in step until a timeout or an old answer ends the flush, reads end |
| `circular` | 2 processors, any of 2 older files each, lists for any of them, 3 files allowed, 1 fault, 2 seconds | the file in use is kept, the count is right, the number of files is bounded, logging goes on while files of processors that are not ready leave room |
| `pkt_dispatch` | 3 tables, 2 slots, 3 requests, 2 delayed responses each, 1 failing call | requests find their table, delayed responses go where their request came from, what a walk without the mutex can meet, entries end, buffers are given back |
| `services` | 2 senders, 2 new masks, 2 failing allocations | a lookup answers by a mask that was in force, the walk stays in the table, drops are reported, buffers come back |

Each module also has its type invariant (`TypeOK`, or the `Type*` parts). Those of `Odl`, `DiagPool`,
`PktDispatch` and `ModemAt` are proved as they stand, and the inductive invariants of the others have as much of the types
as their proofs need. They are not part of the runs.

Why the bounds are enough. `Odl`: two units fill a pool, so four fill both; a read of three units on top of
one that is held overruns a buffer of three, a read of two does not; and three switches make a session, its end, and a second session that finds what the first left. TcpServer:
a pair of newlines, a cut pair, and a command from a second client that continues the first one's
bytes fit into four bytes. DciClient: two registrations are needed for a client to be released and
its processor registered again; two requests for responses out of order. LogCodes: three codes against a
message limit of two separate what fits from what does not; three handlers move the list twice and once not. DiagPool: with two buffers per pool and
three threads the pool is exhausted; the heap of five blocks has room for the pools and one more, so
it is exhausted too. Restarts of the pools are proved, not run (`MaxLives = 1`). QScan: one more mask
message during start-up is the smallest that can overtake an initialisation. ModemAt: an answer of
three pieces against chunks of at most two is always split; one old piece and two still to come are enough
to end the flush before its answer. CircularLog: two processors share the
limit of three files, so that the directories can start above it (up to four files), with or without a processor that is not ready, and
`init_circular_logging` has to delete, in one list or in both; the lists run empty and are made again;
two seconds give two files to the same second or to different ones. PktDispatch: two slots for three
tables leave one without a place; three requests give the list an entry before and one after the entry
that is deleted under a walk; two responses make a worker look twice, with the entry made in between.
Services: two new images reach a lookup twice, with rows of one and two SSIDs and a row that ends the
table; the event masks are left out of the instance, since an event is looked up as a log is; the
senders are symmetric.

Deadlock. Runs with `CHECK_DEADLOCK FALSE` are of systems that stop (the user ends the program, all
packets are delivered, all calls made). `circular` checks it.

Fairness. `Odl`: each thread runs when it can, and the application finishes a call it has begun; nothing
makes it call. A `read()` ends when a signal is pending; the driver owes it nothing else. TcpServer: both threads run, and an accepted client leaves some day. DciClient: the read
thread runs, and the driver answers each request it took (strong fairness, as responses compete with
others). QScan: threads run; nobody has to press Ctrl-C, and no `read()` has to fail. ModemAt: the reading thread runs, nothing is
asked of the modem. These are what a preemptive scheduler gives and what the comments of the code take
for granted of the other side.

## 5. What is proved

By TLAPS, for every value of the constants that satisfies the modules' assumptions. Each proof has an
inductive invariant that TLC checked first, and one lemma for each part of it with a step per action, or
one lemma for each action. Where a theorem has a condition of its own, it is in its statement.

*Odl* (`OdlProof`): `TypeCorrect`, `PoolOwnership` (`FillsFreePool`), `NoOverflow` (`FillInBounds`) and
`ResetIsSafe` (`ResetQuiescent`), all from the invariant `IInv` of `Odl`. None of the four is inductive
alone. The invariant adds the handshake of a flush (`Handshake`: which threads can have added to
`flush_log`, and where they are then), the life of the write thread, which control state holds which
mutex, which pools are free at the steps that rely on it, and that outside the write thread's loop
`buffer_ptr` is below the threshold: so only a read above the head room can overrun a buffer, and
`SmallReadsFit` concludes that none does if the driver never sends more at once. `DoubleBuffering` (`NothingLost`) needs a second invariant,
`FirstInv`, on top of it: until a second mode is asked for or a buffer was overrun, a pool is filled from its start or is full and
being emptied from its start (`PoolStates`), and the two threads alternate between the pools with the
reader ahead by none, one or two full ones (`Turns`).

*TcpServer* (`TcpServerProof`): `CommandsAreFramed` (`ImplementsFraming`) and `ConnectionsAreClosed`
(`NoDescriptorLeak`). The second follows from `Connection`: at each step of the client thread the only
connection that can be open is the one in `ret` or `clientfd_`. For the first, `Framed` says that between
two chunks `eol_flag` is the parity of the run of newlines at the end of the stream and `keeped_` is what
follows its last command. That `process_buf` keeps this for a chunk of any length is a statement about a
loop. The induction theorems of the library cannot be used (they take an operator), so the lemma
`ScansAll` takes the least number of bytes after which the state of the loop is wrong (`Scanned` says what
is right: the commands found so far are those that end so far, and where the next begins), and
`ScansByte` shows that one turn does not make a right state wrong. The least number exists because `<` on
the naturals is well founded (`Least`). The refinement allows what `Trimmed` says, a newline that a chunk
boundary leaves at the end of a command (section 6).

*DciClient* (`DciClientProof`): `ListsHoldTheLive` (`TrackedIsLive`), for any threads and calls and until
something freed is used, from the parts `Calls` and `Lists` of `IInv`: an entry is in the list of its
processor until it is freed. `ListsAlwaysHoldTheLive` has no such exception, for one application thread.
`NothingMisused`
(`NoMisuse`) and `HandlerCorresponds` (`CorrespondingHandler`) hold for one application thread
(`OneCaller`, their hypothesis). Two more parts carry them: `Buffers`, who can find the buffer of a client
and that it is allocated, and `Requests`, that the request, the message in the buffer, the entry and the
response have one transaction id. Both break with a second thread, and so does the code (section 6).

*LogCodes* (`MgcommProof`): `MaskAgreement` (`MaskMatches`) and `SetIsAllOrNothing` (`SetOutcome`) from
`CodesIInv`, which adds what a call knows at each step (`CallState`: no failure before the end; `codes =
before` until the driver agrees; nothing is left when a set begins to add). `LoopStaysInList`
(`LoopInList`) from `LoopInv`: before the first call no log can be on its way, so a list that moves then
meets no loop; after it, a handler that finds room moves nothing, and both iterators point into the
block that the list has now. What remains is `late`: a full list moved after that call, which nothing in
the code prevents.

*QScan* (`MgcommProof`): `MasksAreKept` (`MasksKept`), `OnlyLiveObjects` (`UsesLive`) and `AllReleased`
(`Released`) from `LifeInvariance`. The invariant says in which order things exist (`Order`, `Client`), what a
failed set-up leaves (`LeftBehind`), where a log can be (`Logs`), and that each mask is in the driver's
queue, in the hand of the read thread, in libdiag's tables, or wiped by an initialisation (`Masks`).

*ModemAt* (`MgcommProof`): `BytesAreKept` (`NothingLost`) and `AnswersAreInStep` (`InStep`) from
`PortInvariance`. While no read gave up (`InTime`), all that is on its way belongs to the command that is
read for, and behind the piece that terminates it there are only unsolicited lines; so what a read that
ends in time leaves in the tty is unsolicited; the first read may have old data too (`Due`). After that, or
once an old answer has ended the flush (`Late`), all that is on its way is of the command given up or a
later one.

*CircularLog* (`CircularLogProof`): `CurrentFileKept` (`InUseKept`), `CountIsRight` (`CountMatches`), `NeverTooMany`
(`FilesBounded`) and `LoggingGoesOn` (`KeepsLogging`). The first three are from the parts `Types`, `Started`
and `Counted`, which hold whatever fails. The last needs `Orderly`, which holds while nothing is disturbed:
the cached lists name the oldest files in order, the open file is the newest, files of processors that are
not ready are no more than were found at the start (`Fresh`), and with more files than ready processors and
such files some ready processor has one to spare at a place that the rotation will still reach (`Spare`). The
lemmas on counting say that files are finitely many and what adding or removing one does to their number;
that a directory listed by rank has its oldest files first uses the least number again.

*Services* (`ServicesProof`): `LookupsAreRight` (`LookupRight`), `WalkEndsInMask` (`PastOnlyWhenFull`),
`DropsAreReported` (`DropsReported`) and `BuffersAreReturned` (`BuffersReturned`). A mask in memory is one
image, or during a copy one image up to `pos` and another from there (`Copied`); every image of which a
sender can still read a word is in force for it (`InForce`). A walk over the rows of the message mask knows
that the rows before it are in use and, if a single image was in force, do not hold its SSID (`Walk`);
that `KeepsRows` fixes the first two words of a row is what makes a walk over two images end in one of its
rows. `Counting` says that what a sender read of the drop count is current until two senders overlap.

*DiagPool* (`DiagPoolProof`): `TypeCorrect`, `SingleOwner` (`OneOwner`), `SlotsAccounted` (`PoolAccount`) and
`HeapAccounted` (`HeapAccount`) from `IInv`. The three
properties need one another (a buffer could be handed out twice if a slot were wrongly marked) and what
holds at each step of init and exit: which slots have a buffer, that no two share one, that only
owners have one, and that a busy thread finds the service up. All are conditional on no Exit having
overlapped a use, which `Diag_LSM_DeInit` does not ensure (section 6).

*PktDispatch* (`PktDispatchProof`): `SearchIsSafe` (`SearchFinds`), `DelayedResponsesMatch`
(`DelayedMatches`), `OnlyRacedWalksAreLost` (`LostOnlyWhenRaced`) and `EntriesEnd` (`EntryEnds`), all from
`Invariance`. For the search, the invariant says that slots are filled from the first, that only the last
one in use may be raw (`Slots`), and that the table by which the driver routed the current request lies
at or after the search's position, or found no slot (`Search`). For the list it says that the linked
entries are in the order of their requests and closed (`List`), that entries are made once, unlinked once
and freed once (`Entries`), and that a worker that found its entry has it to itself (`Holders`). The walks
need two sets that no variable holds: a set closed under `next` without freed entries, which every walk
has until a freeing overlaps it, and a set of entries that leads to the worker's own entry, which every
walk has that began when the entry was there (`Walks`). They are existential in the invariant; each
action that touches the list shows how to extend or keep them. The proof is one lemma per conjunct.
`BuffersGivenBack` (`BuffersAccounted`) adds how a step changes the two sets of workers that it counts.

Only model-checked: the liveness properties (`FullPoolWritten`, `ParkedResumes`, `FlushEnds`, `ClientServed`,
`Answered`, `DestructorEnds`, `ReadEnds`), since liveness and ENABLED are out of the prover's reach, and the
two properties that the code violates. The bounds of section 4 limit what TLC shows of these; the theorems
do not depend on them, except that a constant that names such a bound is any natural number there.

## 6. Where the code falls short

Shown by a run:

- *A flush can lose its last pool* (`odl_loses`). `WriteToDisk` tests `flush_log == 2` after any pool
  (`diag_lsm.c` 1760), not the one the flush marked.
- *Descriptor 0* (`tcp_zero`). After an orderly disconnection `receive_` returns 0 and the loop goes on
  with `clientfd_ = 0`: `recv` on the standard input fails, `close(0)` follows, and the next client gets
  descriptor 0, which the header calls disconnected.

Allowed for in a property, or met while modelling and stated here without a run:

- On-device logging. A flush can wait for ever in three places, which `FlushEnds` excepts by name: the write
  thread sleeps on the other pool (`Overslept`); the flush began between the test of `flush_log` (3059) and
  the blocking `read()`, no SIGUSR2 ends that, and the driver stays silent (`Unkicked`); or the read thread
  has ended (`ReaderGone`). A read above 12 KB on a nearly full pool overruns its buffer: `READ_BUF_SIZE`
  allows 100000 bytes, and `memcpy` (1395) has no bound (`FillInBounds` says only such a read does). A
  refused ioctl leaves the read thread parked (2656-2660) and `flush_log` at 1, and a later switch away from
  on-device logging then waits in the flush for ever; `ParkedResumes` and `FlushEnds` therefore speak of
  behaviours in which no switch was refused. The read thread flips `curr_read` after it has let go of every lock (3089);
  after a flush, a next session can start with the two indices apart, hence `FirstSession`. Both waits are
  guarded by `if`: with spurious wake-ups a pool that is not free would be filled. A request for
  `CALLBACK_MODE` without a callback is accepted and its data dropped (2648). `logging_mode` is assigned
  after the driver has switched (2674): packets read in between are handled in the old mode.
- TcpServer. A terminator cut by a chunk boundary leaves its first newline in the command
  (`Trimmed`). `close()` does not wake a blocked `accept()` or `recv()` on Linux, so the destructor joins a
  thread that waits for one more client, against the comment at 65-66. `send()` may raise SIGPIPE, which
  nothing handles.
- DciClient. With two threads that share a client, a request in progress meets the release: `dci_req_buf`
  and the list entry are freed under it, and a failed write frees the entry again (360). The transaction
  counter is shared without a lock (346). `INVALID_DCI_CLIENT` matches every free entry. Handlers are
  never initialised, and one can be called once after the release. A signal is raised with the entry of
  processor 0 for the data of all (1545). `dci_client` is for one thread per client.
- LogCodes. Nothing keeps `push_back` from moving the handler list under the loop of the read thread: a handler
  added to a full list after codes are set can leave the loop in freed memory (`LoopInList` excepts `late`).
  Codes added by several calls can exceed one message; then every reset and set is refused.
  Logs that the driver took before a removal still reach the handlers.
- DiagPool. `Diag_LSM_DeInit` frees the pools before it stops the read thread and does not look at `in_use`:
  after such an overlap a user writes to freed memory, and a buffer can be freed twice or leak.
- QScan. A failure after opening the device and before the registration leaves the handle and the read
  thread, since the destructor looks at `_client_id` only. A failed support list leaves the log callback
  unassigned. The DCI masks that arrive before their service is initialised are wiped. While `main()`
  returns, the parser and the processor are destroyed before the threads that call them are stopped.
- ModemAt. Nothing empties the tty before a command is written: after one timeout each command gets the
  answer of the one before, which `InStep` excepts. The flush of the constructor is an ordinary read, which an
  old `OK` ends at once: then too every answer is out of step, without any timeout, and `InStep` excepts it. `"ERROR\r\n"` never matches, so a refused command takes the whole timeout. A read that returns
  data uses up a tenth of a second too. The descriptor is never closed.
- CircularLog. A full disk deletes without `file_count--` (2189): after enough of them every processor has
  only the file in use, the limit counts as reached, and packets are dropped for ever. Two files of a
  second are one. Files of processors that have sent nothing yet are counted, but rotation passes them by
  (2010-2035, 2108-2114): together with one file in use per ready processor they can fill the limit, and
  packets are dropped without any fault (`KeepsLogging` says exactly from how many files on). Files that were there and in no list are not counted.
- DCI responses are copied under the mutex and handed over after it (`diag_lsm_dci.c` 174), so one call
  can follow the release.
- Packet dispatch. A worker that is faster than the commit looks for an entry that is not there yet: the
  delayed response of a DCI request goes out as one to the tool, and the entry stays (`DelayedMatches`,
  `EntryEnds` except this). A walk can come upon an entry that another worker has just freed
  (`LostOnlyWhenRaced`). Every DCI response of version 2 gets an entry, and those that are not delayed
  (id 0) are never deleted. A table without a free slot is registered with the driver all the same.
  `diagpkt_with_delay` ignores the command code. `diagpkt_tbl_reg` leaves its loop without unlocking the
  mutex, and initialises that mutex again on each call. The copy of a version 2 response takes one of the
  four bytes of `dci_cmd_code` (1374-1375). `Diag_LSM_Pkt_DeInit` reads the next pointer of an entry that
  it has freed, and runs before the read thread is joined.
- Services. When all 24 rows of `read_mask` are in use, the search for an SSID that is in none goes past
  the end of the array (`PastOnlyWhenFull` says only then). A torn message mask is usable only because the
  driver never changes the first two words of a row; a row that vanished would be misread
  (`KeepsRows`). The drop count is changed without a lock (`DropsReported` holds until two senders meet).
  `log_commit` after the driver was closed neither sends nor frees (`BuffersReturned` counts these). An
  event for the tool and a DCI client has the type of one for the DCI client only.
- The socket connection. An HDLC frame that is not complete at the end of a buffer is dropped, and the
  callback is not called again after the socket was closed.

## 7. What is not modelled, and why

- The command processor and the parser. `cmd_set_log_codes` reads its words and collects no code yet; the
  parser picks a decoder by the log code and formats the fields. Both are stateless; what matters of them
  between threads (whole commands, life times) is in `TcpServer` and `QScan`. Planned as operators.
- Packets: `Diag_LSM_Pkt_DeInit`, and responses that another thread than the handler's commits. qscan
  registers no packets (`DCI.cpp` 104-111 is commented out).
- Services: `log_shorten`, payloads, the expansion of a message: data inside the caller's buffer.
- Circular logging: a switch to another directory while files are cached (2668), `rename_dir_name`, a failing
  `mkdir`. On-device logging: the callback of `CALLBACK_MODE`, exit by signal.
- In `diag_lsm.c`: wake locks, qshrink4, the socket connection, mask files, renaming of the directory:
  files and sockets around the modelled core.
- In `diag_lsm_dci.c`: health, status, real-time votes, the support list: one ioctl each, no state kept; and
  the signals that announce data to the application.
- `msg_arrays_i.c`, the log code headers, `ts_linux.c`: tables and formatting. `mgcomm.sh`: a shell menu.
  The unit tests drive the modelled classes from one thread. These tables and headers are two thirds of the
  lines of the repository; the models cover the code with state.
