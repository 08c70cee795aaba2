------------------------------ MODULE Framing ------------------------------
(***************************************************************************)
(* What the text protocol of TcpServer promises, without buffers: bytes    *)
(* arrive in chunks, a pair of newlines ends a command, and each command   *)
(* is delivered when its last byte has arrived, provided a callback is     *)
(* set by then.  How the stream was cut into chunks does not matter.       *)
(***************************************************************************)
EXTENDS Naturals, Sequences

CONSTANTS Byte, NL, MaxChunk

VARIABLES stream, commands, armed

fvars == <<stream, commands, armed>>

Chunk == UNION {[1..n -> Byte] : n \in 1..MaxChunk}

\* Length of the run of newlines that ends at position i of s.
RunAt(s, i) ==
  CHOOSE n \in 0..i : (n = i \/ s[i - n] # NL) /\ \A k \in (i - n + 1)..i : s[k] = NL

\* Positions at which a command of s ends: newlines pair up from the left.
Ends(s) == {i \in 1..Len(s) : s[i] = NL /\ RunAt(s, i) % 2 = 0}

\* What follows the last end before i starts a command.
Start(s, i) ==
  LET before == {j \in Ends(s) : j < i}
  IN  IF before = {} THEN 1 ELSE 1 + CHOOSE j \in before : \A k \in before : k <= j

\* The command that ends at i, without the pair.
CommandAt(s, i) == SubSeq(s, Start(s, i), i - 2)

\* The members of S from the least to the greatest.
Sorted(S) ==
  {q \in UNION {[1..n -> S] : n \in 0..MaxChunk} :
     /\ \A k, l \in DOMAIN q : k < l => q[k] < q[l]
     /\ \A i \in S : \E k \in DOMAIN q : q[k] = i}

Init == stream = <<>> /\ commands = <<>> /\ armed = FALSE

Arm == armed' = TRUE /\ UNCHANGED <<stream, commands>>

Arrive(chunk) ==
  /\ stream' = stream \o chunk
  /\ \E ends \in Sorted({i \in Ends(stream') : i > Len(stream)}) :
       LET completed == [k \in DOMAIN ends |-> CommandAt(stream', ends[k])]
       IN  commands' = IF armed THEN commands \o completed ELSE commands
  /\ UNCHANGED armed

Next == Arm \/ \E chunk \in Chunk : Arrive(chunk)

Spec == Init /\ [][Next]_fvars
=============================================================================
