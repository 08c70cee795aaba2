------------------------------ MODULE ModemAt ------------------------------
(***************************************************************************)
(* The AT command port (ModemAt.cpp): a command is written to the modem's  *)
(* tty and the answer is read without blocking, in chunks of any size, until *)
(* a terminator is found or the timeout is over.                           *)
(*                                                                         *)
(* Commands are numbered: 1 and 2 are the constructor's AT and ATE0, the   *)
(* last is the destructor's ATE1;V1.  What the modem sends is a sequence   *)
(* of pieces, each marked with the command it answers; the terminator OK   *)
(* is two pieces, since a chunk may split it.  Command 0 stands for what   *)
(* was asked before the port was opened, -1 for no command at all.         *)
(***************************************************************************)
EXTENDS Integers, Sequences

CONSTANTS
  Ticks,        (* timeout * 10: iterations of read_ after the first        *)
  MaxCmd,       (* bound: calls of at_cmd                                   *)
  MaxUrc,       (* bound: unsolicited lines                                 *)
  MaxOld,       (* bound: pieces the tty holds when it is opened            *)
  Chunk         (* bufsize - 1, in pieces                                   *)

ASSUME ModemAtAssumption ==
  /\ Ticks \in Nat /\ MaxCmd \in Nat /\ MaxUrc \in Nat /\ MaxOld \in Nat
  /\ Chunk \in Nat \ {0}

Cmd   == 1..(MaxCmd + 3)
Parts == {"line", "\r\nO", "K\r\n", "ERROR\n", "ERROR\r\n"}
Unsolicited == [cmd |-> -1, part |-> "line"]
Piece == [cmd : Cmd \cup {0}, part : Parts] \cup {Unsolicited}

\* The forms of an answer: a line and OK, OK alone, an error.
Forms == {<<"line", "\r\nO", "K\r\n">>, <<"\r\nO", "K\r\n">>, <<"ERROR\n">>, <<"ERROR\r\n">>}

Marked(c, form) == [i \in 1..Len(form) |-> [cmd |-> c, part |-> form[i]]]

VARIABLES
  pcA,           \* "open" (constructor), "idle", "read", "closed", "thrown" (an exception)
  up,            \* the constructor has returned, the destructor has not begun
  n,             \* commands written
  tenth, result, \* local variables of read_
  answer,        \* what the last call of read_ returned
  cut,           \* history: the oldest command that may still be answered since a read_ ended
                 \* with the timeout or with an old answer, or -1
  todo, sending, \* external, the modem: commands it got, the rest of the answer it is sending
  urcs,          \* external, the modem: unsolicited lines sent
  input,         \* external: what the tty holds for the next read()
  sent           \* history: what the modem sent, from the first piece of the last answer

port   == <<pcA, up, n, tenth, result, answer, cut>>
modem  == <<todo, sending, urcs>>
atVars == <<port, modem, input, sent>>

AtInit ==
  /\ pcA = "open" /\ up = FALSE /\ n = 0 /\ tenth = 0 /\ result = <<>> /\ answer = <<>> /\ cut = -1
  /\ todo = <<>> /\ urcs = 0
  \* The tty holds anything from before, and the modem may have the end of an answer to send.
  /\ \E k \in 0..MaxOld : input \in [1..k -> [cmd : {0}, part : Parts]]
  /\ sending \in {<<>>, Marked(0, <<"K\r\n">>), Marked(0, <<"\r\nO", "K\r\n">>)}
  /\ sent = input

-----------------------------------------------------------------------------
(* write_ and read_.                                                        *)

\* write_ and the first lines of read_; write() may fall short, and then an exception leaves.
Issue ==
  \/ /\ n' = n + 1
     /\ todo' = Append(todo, n')
     /\ pcA' = "read" /\ tenth' = Ticks /\ result' = <<>>
  \/ pcA' = "thrown" /\ UNCHANGED <<n, tenth, result, todo>>

W_Constructor ==
  /\ pcA = "open" /\ n < 2
  /\ Issue
  /\ UNCHANGED <<up, answer, cut, sending, urcs, input, sent>>

W_AtCmd ==
  /\ pcA = "idle" /\ up /\ n < MaxCmd + 2
  /\ Issue
  /\ UNCHANGED <<up, answer, cut, sending, urcs, input, sent>>

W_Destructor ==
  /\ pcA = "idle" /\ up
  /\ up' = FALSE
  /\ Issue
  /\ UNCHANGED <<answer, cut, sending, urcs, input, sent>>

\* Parts without which nothing is terminated.
Final == {"K\r\n", "ERROR\n"}

\* read_ returns to the constructor, at_cmd or the destructor.
Back == IF up THEN "idle" ELSE IF n = 1 THEN "open" ELSE IF n = 2 THEN "idle" ELSE "closed"

\* The end of an old answer is read, and not yet that of command n.
OldEnd(r) ==
  /\ \E i \in 1..Len(r) : r[i].cmd = 0 /\ r[i].part \in Final
  /\ \A i \in 1..Len(r) : r[i].cmd = n => r[i].part \notin Final

Return(r, timeout) ==
  /\ answer' = r /\ result' = <<>>
  /\ sent' = SubSeq(sent, Len(answer) + 1, Len(sent))
  /\ cut' = IF cut = -1 /\ (timeout \/ OldEnd(r)) THEN IF n = 1 THEN 0 ELSE n ELSE cut
  /\ pcA' = Back /\ up' = (up \/ Back = "idle")

\* while(tenth--)
Tick(r) ==
  \/ tenth > 0 /\ tenth' = tenth - 1 /\ result' = r /\ UNCHANGED <<pcA, up, answer, cut, sent>>
  \/ tenth = 0 /\ Return(r, TRUE) /\ UNCHANGED tenth

BugTerminated(r) == \E i \in 1..Len(r) : r[i].part \in {"\r\nO", "ERROR\n"}

\* find("\r\nOK\r\n") and find("ERROR\n"), in all that was read; "ERROR\r\n" is not found.
Terminated(r) ==
  \/ \E i \in 1..(Len(r) - 1) : r[i].part = "\r\nO" /\ r[i + 1].part = "K\r\n"
  \/ \E i \in 1..Len(r) : r[i].part = "ERROR\n"

BugR_Chunk ==
  /\ pcA = "read"
  /\ \E k \in 1..Chunk :
       /\ k <= Len(input)
       /\ input' = SubSeq(input, k + 1, Len(input))
       /\ LET r == SubSeq(input, 1, k) IN
          IF Terminated(r) THEN Return(r, FALSE) /\ UNCHANGED tenth ELSE Tick(r)
  /\ UNCHANGED <<n, modem>>

\* read() returns between one byte and a full buffer (+= would stop at a NUL, which text has not).
R_Chunk ==
  /\ pcA = "read"
  /\ \E k \in 1..Chunk :
       /\ k <= Len(input)
       /\ input' = SubSeq(input, k + 1, Len(input))
       /\ LET r == result \o SubSeq(input, 1, k) IN
          IF Terminated(r) THEN Return(r, FALSE) /\ UNCHANGED tenth ELSE Tick(r)
  /\ UNCHANGED <<n, modem>>

BugR_Empty == pcA = "read" /\ input = <<>> /\ UNCHANGED atVars

\* Nothing there (EAGAIN): usleep(100000).
R_Empty ==
  /\ pcA = "read" /\ input = <<>>
  /\ Tick(result)
  /\ UNCHANGED <<n, modem, input>>

-----------------------------------------------------------------------------
(* The modem, as fast or slow as it likes.                                  *)

\* The modem takes up the next command.
M_Take ==
  /\ sending = <<>> /\ todo # <<>>
  /\ \E form \in Forms : sending' = Marked(Head(todo), form)
  /\ todo' = Tail(todo)
  /\ UNCHANGED <<port, urcs, input, sent>>

M_Send ==
  /\ sending # <<>>
  /\ input' = Append(input, Head(sending)) /\ sent' = Append(sent, Head(sending))
  /\ sending' = Tail(sending)
  /\ UNCHANGED <<port, todo, urcs>>

\* An unsolicited line, between two lines of an answer.
M_Urc ==
  /\ urcs < MaxUrc
  /\ sending # <<>> => Head(sending).part # "K\r\n"
  /\ input' = Append(input, Unsolicited) /\ sent' = Append(sent, Unsolicited)
  /\ urcs' = urcs + 1
  /\ UNCHANGED <<port, todo, sending>>

Read == R_Chunk \/ R_Empty
\* While there is a reader.
Modem == pcA \in {"open", "idle", "read"} /\ (M_Take \/ M_Send \/ M_Urc)
AtNext == W_Constructor \/ W_AtCmd \/ W_Destructor \/ Read \/ Modem

\* The reading thread runs; nothing is promised about the modem.
AtSpec == AtInit /\ [][AtNext]_atVars /\ WF_atVars(Read)

-----------------------------------------------------------------------------
AtTypeOK ==
  /\ pcA \in {"open", "idle", "read", "closed", "thrown"} /\ up \in BOOLEAN
  /\ n \in 0..(MaxCmd + 3) /\ tenth \in 0..Ticks
  /\ result \in Seq(Piece) /\ answer \in Seq(Piece)
  /\ cut \in Cmd \cup {0, -1}
  /\ todo \in Seq(Cmd) /\ sending \in Seq(Piece) /\ input \in Seq(Piece) /\ sent \in Seq(Piece)
  /\ urcs \in 0..MaxUrc

\* The command the last answer was returned for.
Answered == IF pcA = "read" THEN n - 1 ELSE n

\* read_ returns "whatever been read": the last answer, what read_ holds and what the tty
\* still has are what the modem sent since, nothing missing, twice or out of order.
NothingLost == answer \o result \o input = sent

\* The first read_ flushes the input: it may return old data, and later ones do not.  An answer
\* belongs to the command it is returned for until a read_ gives up, or the first one is ended
\* by an old answer; from then on a call may return answers to earlier commands, but none from
\* before the first one given up, and old data only if that was the first.
InStep ==
  \A i \in 1..Len(answer) :
    LET c == answer[i].cmd IN
    \/ c \in {-1, Answered}
    \/ c = 0 /\ Answered = 1
    \/ cut # -1 /\ cut <= c /\ c < Answered

\* A call of read_ returns, whatever the modem sends or does not send.
ReadEnds == pcA = "read" ~> pcA # "read"

-----------------------------------------------------------------------------
(* The inductive invariant behind NothingLost and InStep.                   *)

\* What was sent since the last answer.
Held == result \o input

Lives ==
  /\ up => n <= MaxCmd + 2
  /\ pcA = "read" => n >= 1
  /\ pcA # "read" => result = <<>>
  /\ n = 0 => pcA \in {"open", "thrown"} /\ ~up /\ todo = <<>>

\* The modem ends an answer with the part that terminates it.
EndsOnce == \A i \in 1..Len(sending) : sending[i].part \in Final => i = Len(sending)

\* What may be under way in time: the command read for, and old data for the flush.
Due == IF n <= 1 THEN {0, n} ELSE {n}

\* Until a read_ gave up, all that is under way belongs to the command that is read for, and
\* nothing of it comes after the part that terminates it.
InTime ==
  cut = -1 =>
    /\ pcA # "read" /\ n # 0 =>
         todo = <<>> /\ sending = <<>> /\ \A i \in 1..Len(input) : input[i] = Unsolicited
    /\ todo = <<>> \/ (todo = <<n>> /\ \A i \in 1..Len(sending) : sending[i].cmd = 0)
    /\ \A i \in 1..Len(sending) : sending[i].cmd \in Due
    /\ \A i \in 1..Len(Held) : Held[i].cmd \in Due \cup {-1}
    /\ \A i \in 1..Len(Held) : Held[i].part \in Final /\ Held[i].cmd # 0 =>
         todo = <<>> /\ sending = <<>> /\ \A j \in (i + 1)..Len(Held) : Held[j] = Unsolicited

\* After that, nothing is from before the command given up.
Late ==
  cut # -1 =>
    /\ cut <= n
    /\ \A i \in 1..Len(todo) : todo[i] \in cut..n
    /\ \A i \in 1..Len(sending) : sending[i].cmd \in cut..n
    /\ \A i \in 1..Len(Held) : Held[i].cmd \in {-1} \cup (cut..n)

AtIInv == AtTypeOK /\ NothingLost /\ InStep /\ Lives /\ EndsOnce /\ InTime /\ Late
=============================================================================
