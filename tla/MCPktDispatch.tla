--------------------------- MODULE MCPktDispatch ---------------------------
(* Small instances of PktDispatch. *)
EXTENDS PktDispatch

\* A command of version 2 that is answered at once, one that is delayed, and one of
\* the old format that shares a code with the first and has no function.
MCDesc ==
  <<[cmd_code |-> V2, codes |-> {1}, delay_flag |-> FALSE, func |-> TRUE],
    [cmd_code |-> V2, codes |-> {2}, delay_flag |-> TRUE, func |-> TRUE],
    [cmd_code |-> "DIAG_SUBSYS_CMD_F", codes |-> {1}, delay_flag |-> FALSE,
     func |-> FALSE]>>
=============================================================================
