----------------------------- MODULE MCServices -----------------------------
(* Small instances of Services: two rows of two SSIDs and one log code. The *)
(* event masks are left out: event_alloc does what log_submit does.          *)
EXTENDS Services, TLC

\* The message mask with the given rows, each <<first, last, actual, mask, mask>>.
Table(rows) ==
  [p \in 0..(MsgMaskSize - 1) |-> rows[1 + (p \div RowSize)][1 + (p % RowSize)]]

NoRow == <<0, 0, 0, 0, 0>>
Zero == Table(<<NoRow, NoRow>>)
One  == Table(<<<<3, 4, 4, 0, 1>>, NoRow>>)
Full == Table(<<<<3, 4, 3, 1, 0>>, <<1, 2, 2, 1, 0>>>>)
MCImages ==
  [m \in {"msg", "log", "dci_log"} |->
     IF m = "msg" THEN {Zero, One, Full}
     ELSE IF m = "log" THEN {[p \in {0, 1} |-> p * b] : b \in {0, 1}}
     ELSE {[p \in {0, 1} |-> b] : b \in {0, 1}}]

MCSymmetry == Permutations(Sender)
=============================================================================
