----------------------------- MODULE TcpServer -----------------------------
(***************************************************************************)
(* server/TcpServer.cpp: the client thread (client_handler), the main      *)
(* thread (constructor done; set_callback, destructor) and a thread that   *)
(* calls writeline.  No lock orders them.  The process's descriptor table  *)
(* is modelled because the server passes 0 to recv, send and close.        *)
(* Descriptors the server never touches are left out: 0 is the standard    *)
(* input, SockFd the listening socket, the rest are free.  A blocked call  *)
(* keeps its file when another thread closes the descriptor (Linux).       *)
(***************************************************************************)
EXTENDS Integers, FiniteSets, Sequences

CONSTANTS
  Client,              (* connections that clients make, each at most once  *)
  Byte, NL,            (* bytes of the protocol, '\n' among them            *)
  MaxChunk,            (* bound: bytes one recv() returns (rcv_buf: 2048)   *)
  MaxBytes,            (* bound: bytes received over the whole run          *)
  MaxFd,               (* bound: largest descriptor                         *)
  MayDestroy,          (* the destructor runs                               *)
  MayWrite             (* writeline is called                               *)

SockFd == 1

ASSUME TcpAssumption ==
  /\ Client \intersect {"none", "stdin", "listen"} = {}
  /\ NL \in Byte /\ MaxChunk \in Nat \ {0} /\ MaxBytes \in Nat
  /\ MaxFd \in Nat /\ MaxFd > SockFd
  /\ MayDestroy \in BOOLEAN /\ MayWrite \in BOOLEAN

Fd == 0..MaxFd

VARIABLES
  pc, held, ret,       \* client thread: control, file of the blocked call, result
  pcM,                 \* main thread
  pcL, logfd,          \* thread in writeline: control, the descriptor it read
  clientfd_, terminate_, callback_, keeped_,
  eol_flag,            \* the function-static flag of process_buf
  file,                \* external: the descriptor table
  peer,                \* external: what each client has done
  alive,               \* the process has not been killed by SIGPIPE
  received, commands   \* history: all bytes received, all calls of callback_

thread  == <<pc, held, ret>>
writer  == <<pcL, logfd>>
fields  == <<clientfd_, terminate_, callback_, keeped_, eol_flag>>
outside == <<file, peer, alive>>
history == <<received, commands>>
vars    == <<thread, pcM, writer, fields, outside, history>>

Init ==
  /\ pc = "test" /\ held = "none" /\ ret = 0
  /\ pcM = "constructed" /\ pcL = "idle" /\ logfd = 0
  /\ clientfd_ = 0 /\ terminate_ = FALSE /\ callback_ = FALSE
  /\ keeped_ = <<>> /\ eol_flag = FALSE
  /\ file = [f \in Fd |-> CASE f = 0 -> "stdin" [] f = SockFd -> "listen" [] OTHER -> "none"]
  /\ peer = [c \in Client |-> "idle"]
  /\ alive = TRUE
  /\ received = <<>> /\ commands = <<>>

FileOf(fd) == IF fd \in Fd THEN file[fd] ELSE "none"

\* close(): an error (a negative or closed descriptor) changes nothing.
Closed(fd) == [f \in Fd |-> IF f = fd THEN "none" ELSE file[f]]

-----------------------------------------------------------------------------
(* The clients: each connects, sends what it likes (C_Received picks the    *)
(* bytes) and goes away.                                                    *)

Listening == held = "listen" \/ file[SockFd] = "listen"

Connect(c) ==
  /\ peer[c] = "idle" /\ Listening
  /\ peer' = [peer EXCEPT ![c] = "pending"]
  /\ UNCHANGED <<thread, pcM, writer, fields, file, alive, history>>

Leave(c) ==
  /\ peer[c] = "open"
  /\ peer' = [peer EXCEPT ![c] = "gone"]
  /\ UNCHANGED <<thread, pcM, writer, fields, file, alive, history>>

-----------------------------------------------------------------------------
(* process_buf: the scan as a function of the chunk's length; start is      *)
(* start_of_chunk, 1-based.                                                 *)

\* The defect a dropped reset of eol_flag would be.
BugScanByte(chunk, s, i) ==
  IF chunk[i] = NL /\ s.eol
  THEN [keep |-> <<>>, eol |-> TRUE, start |-> i + 1,
        out |-> Append(s.out, s.keep \o SubSeq(chunk, s.start, i - 2))]
  ELSE [s EXCEPT !.eol = chunk[i] = NL]

\* One turn of the loop: the second of two newlines ends a command.
ScanByte(chunk, s, i) ==
  IF chunk[i] = NL /\ s.eol
  THEN [keep |-> <<>>, eol |-> FALSE, start |-> i + 1,
        out |-> Append(s.out, s.keep \o SubSeq(chunk, s.start, i - 2))]
  ELSE [s EXCEPT !.eol = chunk[i] = NL]

\* Before the first byte of a chunk.
Unscanned == [keep |-> keeped_, eol |-> eol_flag, start |-> 1, out |-> <<>>]

Scan(chunk) ==
  LET st[i \in 0..Len(chunk)] == IF i = 0 THEN Unscanned ELSE ScanByte(chunk, st[i - 1], i)
  IN  st[Len(chunk)]

process_buf(chunk) ==
  LET end == Scan(chunk)
  IN  /\ commands' = IF callback_ THEN commands \o end.out ELSE commands
      /\ keeped_' = end.keep \o SubSeq(chunk, end.start, Len(chunk))
      /\ eol_flag' = end.eol

-----------------------------------------------------------------------------
(* The client thread.                                                       *)

C_Test ==
  /\ pc = "test"
  /\ pc' = IF terminate_ THEN "done" ELSE "accept"
  /\ UNCHANGED <<held, ret, pcM, writer, fields, outside, history>>

C_Accept ==
  /\ pc = "accept"
  /\ \/ /\ file[SockFd] = "listen"
        /\ held' = "listen" /\ pc' = "accepting" /\ UNCHANGED ret
     \/ /\ file[SockFd] # "listen"            \* EBADF, EINVAL
        /\ ret' = -1 /\ pc' = "store" /\ UNCHANGED held
  /\ UNCHANGED <<pcM, writer, fields, outside, history>>

LowestFree(fd) == file[fd] = "none" /\ \A f \in 0..(fd - 1) : file[f] # "none"

C_Accepted(c) ==
  /\ pc = "accepting" /\ peer[c] = "pending"
  /\ \E fd \in Fd : /\ LowestFree(fd)
                    /\ file' = [file EXCEPT ![fd] = c]
                    /\ ret' = fd
  /\ peer' = [peer EXCEPT ![c] = "open"]
  /\ held' = "none" /\ pc' = "store"
  /\ UNCHANGED <<pcM, writer, fields, alive, received, commands>>

C_Store ==
  /\ pc = "store"
  /\ clientfd_' = ret
  /\ pc' = IF ret >= 0 THEN "recv" ELSE "test"
  /\ UNCHANGED <<held, ret, pcM, writer, terminate_, callback_, keeped_, eol_flag,
                 outside, history>>

C_Recv ==
  /\ pc = "recv"
  /\ \/ /\ FileOf(clientfd_) \in Client
        /\ held' = FileOf(clientfd_) /\ pc' = "receiving" /\ UNCHANGED ret
     \/ /\ FileOf(clientfd_) \notin Client    \* ENOTSOCK, EBADF, ENOTCONN
        /\ ret' = -1 /\ pc' = "close" /\ UNCHANGED held
  /\ UNCHANGED <<pcM, writer, fields, outside, history>>

C_Received(chunk) ==
  /\ pc = "receiving" /\ peer[held] = "open"
  /\ Len(received) + Len(chunk) <= MaxBytes
  /\ received' = received \o chunk
  /\ process_buf(chunk)
  /\ held' = "none" /\ pc' = "recv"
  /\ UNCHANGED <<ret, pcM, writer, clientfd_, terminate_, callback_, outside>>

\* recv() returns 0 (orderly shutdown) or -1 (reset).
C_Disconnected ==
  /\ pc = "receiving" /\ peer[held] = "gone"
  /\ ret' \in {0, -1}
  /\ held' = "none" /\ pc' = "close"
  /\ UNCHANGED <<pcM, writer, fields, outside, history>>

BugC_Close ==
  /\ pc = "close"
  /\ pc' = "reset"
  /\ UNCHANGED <<held, ret, pcM, writer, fields, outside, history>>

C_Close ==
  /\ pc = "close"
  /\ file' = Closed(clientfd_)
  /\ pc' = "reset"
  /\ UNCHANGED <<held, ret, pcM, writer, fields, peer, alive, history>>

BugC_Reset ==
  /\ pc = "reset"
  /\ clientfd_' = 0 /\ pc' = "recv"
  /\ UNCHANGED <<held, ret, pcM, writer, terminate_, callback_, keeped_, eol_flag,
                 outside, history>>

\* receive_ returns ret: the loop of client_handler goes on when it is 0.
C_Reset ==
  /\ pc = "reset"
  /\ clientfd_' = 0
  /\ pc' = IF ret >= 0 THEN "recv" ELSE "test"
  /\ UNCHANGED <<held, ret, pcM, writer, terminate_, callback_, keeped_, eol_flag,
                 outside, history>>

ClientThread ==
  \/ C_Test \/ C_Accept \/ \E c \in Client : C_Accepted(c)
  \/ C_Store \/ C_Recv
  \/ \E n \in 1..MaxChunk : \E chunk \in [1..n -> Byte] : C_Received(chunk)
  \/ C_Disconnected \/ C_Close \/ C_Reset

-----------------------------------------------------------------------------
(* The main thread: set_callback, then the destructor.                      *)

M_SetCallback ==
  /\ pcM = "constructed"
  /\ callback_' = TRUE /\ pcM' = "running"
  /\ UNCHANGED <<thread, writer, clientfd_, terminate_, keeped_, eol_flag, outside, history>>

M_Terminate ==
  /\ pcM = "running" /\ MayDestroy
  /\ terminate_' = TRUE /\ pcM' = "close_client"
  /\ UNCHANGED <<thread, writer, clientfd_, callback_, keeped_, eol_flag, outside, history>>

M_Close(fd, from, to) ==
  /\ pcM = from
  /\ file' = Closed(fd) /\ pcM' = to
  /\ UNCHANGED <<thread, writer, fields, peer, alive, history>>

M_Join ==
  /\ pcM = "join" /\ pc = "done"
  /\ pcM' = "close_client2"
  /\ UNCHANGED <<thread, writer, fields, outside, history>>

Destructor ==
  \/ M_Terminate
  \/ M_Close(clientfd_, "close_client", "close_listen")
  \/ M_Close(SockFd, "close_listen", "join")
  \/ M_Join
  \/ M_Close(clientfd_, "close_client2", "close_listen2")
  \/ M_Close(SockFd, "close_listen2", "destroyed")

Main == M_SetCallback \/ Destructor

-----------------------------------------------------------------------------
(* writeline: clientfd_ is read, then send() is called with flags 0, so a   *)
(* peer that is gone costs the process its life (SIGPIPE).                  *)

L_Begin ==
  /\ pcL = "idle" /\ MayWrite
  /\ logfd' = clientfd_ /\ pcL' = "send"
  /\ UNCHANGED <<thread, pcM, fields, outside, history>>

L_Send ==
  /\ pcL = "send"
  /\ alive' = (FileOf(logfd) \in Client => peer[FileOf(logfd)] # "gone")
  /\ pcL' = "idle" /\ logfd' = 0
  /\ UNCHANGED <<thread, pcM, fields, file, peer, history>>

Log == L_Begin \/ L_Send

-----------------------------------------------------------------------------
Next == alive /\ (ClientThread \/ Main \/ Log \/ \E c \in Client : Connect(c) \/ Leave(c))

Spec == Init /\ [][Next]_vars

\* Both threads are scheduled; a client that was accepted goes away some day.
FairSpec ==
  /\ Spec
  /\ WF_vars(alive /\ ClientThread) /\ WF_vars(alive /\ Destructor)
  /\ \A c \in Client : WF_vars(alive /\ Leave(c))

-----------------------------------------------------------------------------
TypeOK ==
  /\ pc \in {"test", "accept", "accepting", "store", "recv", "receiving", "close", "reset",
             "done"}
  /\ pcM \in {"constructed", "running", "close_client", "close_listen", "join",
              "close_client2", "close_listen2", "destroyed"}
  /\ pcL \in {"idle", "send"}
  /\ held \in Client \cup {"none", "listen"}
  /\ ret \in Fd \cup {-1} /\ logfd \in Fd \cup {-1} /\ clientfd_ \in Fd \cup {-1}
  /\ {terminate_, callback_, eol_flag, alive} \subseteq BOOLEAN
  /\ file \in [Fd -> Client \cup {"none", "stdin", "listen"}]
  /\ peer \in [Client -> {"idle", "pending", "open", "gone"}]
  /\ keeped_ \in Seq(Byte) /\ received \in Seq(Byte) /\ Len(received) <= MaxBytes
  /\ \A i \in 1..Len(commands) : commands[i] \in Seq(Byte)

\* A terminator cut in two by a chunk boundary leaves its first newline behind.
Trimmed(cmd) == IF cmd # <<>> /\ cmd[Len(cmd)] = NL THEN SubSeq(cmd, 1, Len(cmd) - 1) ELSE cmd

Abstract == INSTANCE Framing WITH
  stream <- received, armed <- callback_,
  commands <- [i \in 1..Len(commands) |-> Trimmed(commands[i])]

\* However recv() cuts the stream, and whoever of several clients sent it, the callback gets
\* every command of the stream once and in order, but for a newline a cut terminator leaves
\* (process_buf, keeped_ and eol_flag across calls and across clients).
ImplementsFraming == Abstract!Spec

\* Whenever the client thread waits for the next client, or has ended, no connection is left
\* open in the descriptor table, whatever the destructor closed meanwhile (receive_,
\* client_handler).
NoDescriptorLeak ==
  pc \in {"test", "accept", "accepting", "done"} => \A f \in Fd : file[f] \notin Client

\* A client that connects is accepted, as clients before it leave, unless the server is being
\* destroyed or the process was killed: no way of losing a client makes client_handler stop
\* accepting.
ClientServed ==
  \A c \in Client : peer[c] = "pending" ~> (peer[c] # "pending" \/ terminate_ \/ ~alive)

\* "Client socked descriptor. Disconnected if <= 0" (TcpServer.hh 35).
ConnectedIsPositive ==
  \A c \in Client : pc = "receiving" /\ held = c /\ ~terminate_ => clientfd_ > 0

-----------------------------------------------------------------------------
(* The inductive invariants behind NoDescriptorLeak and ImplementsFraming.  *)

\* The only connection that can be open is that of the descriptor the client thread works on.
Connection ==
  /\ DOMAIN file = Fd
  /\ pc \in {"test", "accept", "accepting", "reset", "done"} => \A f \in Fd : file[f] \notin Client
  /\ pc = "store" => \A f \in Fd : file[f] \in Client => f = ret
  /\ pc \in {"recv", "receiving", "close"} => \A f \in Fd : file[f] \in Client => f = clientfd_

\* e is the last end of a command in s before i, or 0 if there is none.
LastEnd(s, e, i) ==
  /\ e \in 0..(i - 1) /\ (e = 0 \/ e \in Abstract!Ends(s))
  /\ \A j \in Abstract!Ends(s) : j < i => j <= e

\* Between two chunks the server keeps what follows the last command, and whether a pair of
\* newlines has begun.
Framed ==
  /\ received \in Seq(Byte) /\ keeped_ \in Seq(Byte) /\ commands \in Seq(Seq(Byte))
  /\ callback_ \in BOOLEAN /\ eol_flag \in BOOLEAN
  /\ eol_flag <=> Abstract!RunAt(received, Len(received)) % 2 = 1
  /\ \E e \in 0..Len(received) :
       /\ LastEnd(received, e, Len(received) + 1)
       /\ keeped_ = SubSeq(received, e + 1, Len(received))
=============================================================================
