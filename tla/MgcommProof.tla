---------------------------- MODULE MgcommProof ----------------------------
(***************************************************************************)
(* Proofs about three of mgcomm's own parts, each for every value of its   *)
(* constants.                                                              *)
(*                                                                         *)
(*   - QScan, the life of the qscan process: the tables of libdiag follow  *)
(*     the driver, the threads use only what is there, and main() leaves   *)
(*     nothing open.                                                       *)
(*   - LogCodes, the code set of its DCI object: it agrees with the        *)
(*     driver, set_log_codes is all or nothing, and the read thread's loop *)
(*     over the handlers stays in the list's memory.                       *)
(*   - ModemAt, the AT command port: nothing the modem sends is lost on    *)
(*     the way to at_cmd's caller, and answers go with their commands      *)
(*     until a read_ gives up.                                             *)
(*                                                                         *)
(* Each proof goes through the module's inductive invariant, with a step   *)
(* for each action; the three do not use each other.                       *)
(***************************************************************************)
EXTENDS QScan, LogCodes, ModemAt, SequenceTheorems, TLAPS

-----------------------------------------------------------------------------
(* The life of the qscan process.                                           *)

\* The steps of main(), of Diag_LSM_DeInit and of the read thread stay in their ranges.
LEMMA ControlStep == IInv /\ [Next]_vars => Control'
<1> SUFFICES ASSUME IInv, [Next]_vars PROVE Control'
  OBVIOUS
<1> USE DEF IInv, Control, Starting, Ending, DeIniting, Nothing, main, lib, masks, reader,
            kernel, vars
<1>1. CASE I_Open
  BY <1>1 DEF I_Open, Goto, GiveUp
<1>2. CASE I_Thread
  BY <1>2 DEF I_Thread, Goto, GiveUp
<1>3. CASE I_Memory
  BY <1>3 DEF I_Memory, Goto, CleanUp
<1>4. CASE I_Clear
  BY <1>4 DEF I_Clear, Goto, Cleared
<1>5. CASE I_Table
  BY <1>5 DEF I_Table, Goto, CleanUp
<1>6. CASE I_Sync
  BY <1>6 DEF I_Sync, Goto, GiveUp
<1>7. CASE S_Register
  BY <1>7 DEF S_Register, Goto, GiveUp
<1>8. CASE S_Stream
  BY <1>8 DEF S_Stream, Goto, GiveUp
<1>9. CASE M_Build
  BY <1>9 DEF M_Build, Goto
<1>10. CASE M_SetLogCodes
  BY <1>10 DEF M_SetLogCodes
<1>11. CASE M_Leave
  BY <1>11 DEF M_Leave, Goto
<1>12. CASE C_Command
  BY <1>12 DEF C_Command
<1>13. CASE D_Release
  BY <1>13 DEF D_Release, Goto
<1>14. CASE D_Ask
  BY <1>14 DEF D_Ask, Goto
<1>15. CASE D_Join
  BY <1>15 DEF D_Join, Goto
<1>16. CASE D_Close
  BY <1>16 DEF D_Close, Goto
<1>17. CASE D_Free
  BY <1>17 DEF D_Free
<1>18. CASE D_Base
  BY <1>18 DEF D_Base, Goto
<1>19. CASE R_Read
  BY <1>19 DEF R_Read
<1>20. CASE R_Exit \/ R_Fails
  BY <1>20 DEF R_Exit, R_Fails
<1>21. CASE R_Mask
  BY <1>21 DEF R_Mask
<1>22. CASE R_Sync
  BY <1>22 DEF R_Sync
<1>23. CASE R_Table
  BY <1>23 DEF R_Table
<1>24. CASE R_Call
  BY <1>24 DEF R_Call
<1>25. CASE E_Log
  BY <1>25 DEF E_Log
<1>26. ASSUME NEW m \in Mask, E_Change(m) PROVE Control'
  BY <1>26 DEF E_Change
<1>27. CASE UNCHANGED vars
  BY <1>27
<1>28. QED
  BY <1>1, <1>2, <1>3, <1>4, <1>5, <1>6, <1>7, <1>8, <1>9, <1>10, <1>11, <1>12, <1>13,
     <1>14, <1>15, <1>16, <1>17, <1>18, <1>19, <1>20, <1>21, <1>22, <1>23, <1>24, <1>25,
     <1>26, <1>27
     DEF Next, Setup, Destroy, Reader, Driver

\* Objects are built in the order of Diag_LSM_Init, setup_interface and main(), and a
\* clean-up of Diag_LSM_Init finds no client and no handler.
LEMMA OrderStep == IInv /\ [Next]_vars => Order'
<1> SUFFICES ASSUME IInv, [Next]_vars PROVE Order'
  OBVIOUS
<1> USE DEF IInv, Control, Order, Client, Logs, Closed, UsesLive, Starting, Ending, DeIniting,
            InSetup, Data, Nothing, main, lib, masks, reader, kernel, vars
<1>1. CASE I_Open
  BY <1>1 DEF I_Open, Goto, GiveUp
<1>2. CASE I_Thread
  BY <1>2 DEF I_Thread, Goto, GiveUp
<1>3. CASE I_Memory
  BY <1>3 DEF I_Memory, Goto, CleanUp
<1>4. CASE I_Clear
  BY <1>4 DEF I_Clear, Goto, Cleared
<1>5. CASE I_Table
  BY <1>5 DEF I_Table, Goto, CleanUp
<1>6. CASE I_Sync
  BY <1>6 DEF I_Sync, Goto, GiveUp
<1>7. CASE S_Register
  BY <1>7 DEF S_Register, Goto, GiveUp
<1>8. CASE S_Stream
  BY <1>8 DEF S_Stream, Goto, GiveUp
<1>9. CASE M_Build
  BY <1>9 DEF M_Build, Goto
<1>10. CASE M_SetLogCodes
  BY <1>10 DEF M_SetLogCodes
<1>11. CASE M_Leave
  BY <1>11 DEF M_Leave, Goto
<1>12. CASE C_Command
  BY <1>12 DEF C_Command
<1>13. CASE D_Release
  BY <1>13 DEF D_Release, Goto
<1>14. CASE D_Ask
  BY <1>14 DEF D_Ask, Goto
<1>15. CASE D_Join
  BY <1>15 DEF D_Join, Goto
<1>16. CASE D_Close
  BY <1>16 DEF D_Close, Goto
<1>17. CASE D_Free
  BY <1>17 DEF D_Free
<1>18. CASE D_Base
  BY <1>18 DEF D_Base, Goto
<1>19. CASE R_Read
  BY <1>19 DEF R_Read
<1>20. CASE R_Exit \/ R_Fails
  <2>1. CASE R_Exit
    BY <2>1 DEF R_Exit
  <2>2. CASE R_Fails
    BY <2>2 DEF R_Fails
  <2>3. QED BY <1>20, <2>1, <2>2
<1>21. CASE R_Mask
  BY <1>21 DEF R_Mask
<1>22. CASE R_Sync
  BY <1>22 DEF R_Sync
<1>23. CASE R_Table
  BY <1>23 DEF R_Table
<1>24. CASE R_Call
  BY <1>24 DEF R_Call
<1>25. CASE E_Log
  BY <1>25 DEF E_Log
<1>26. ASSUME NEW m \in Mask, E_Change(m) PROVE Order'
  <2>1. UNCHANGED <<main, lib, handler, reader, registered, streaming, bad, leak>>
    BY <1>26, Zenon DEF E_Change
  <2>2. QED BY <2>1
<1>27. CASE UNCHANGED vars
  BY <1>27
<1>28. QED
  BY <1>1, <1>2, <1>3, <1>4, <1>5, <1>6, <1>7, <1>8, <1>9, <1>10, <1>11, <1>12, <1>13,
     <1>14, <1>15, <1>16, <1>17, <1>18, <1>19, <1>20, <1>21, <1>22, <1>23, <1>24, <1>25,
     <1>26, <1>27
     DEF Next, Setup, Destroy, Reader, Driver

\* The client is registered after the table is filled, and ~DCI joins the read thread
\* before it destroys the handlers.
LEMMA ClientStep == IInv /\ [Next]_vars => Client'
<1> SUFFICES ASSUME IInv, [Next]_vars PROVE Client'
  OBVIOUS
<1> USE DEF IInv, Control, Order, Client, Closed, Starting, Ending, DeIniting, InSetup, Data,
            main, lib, masks, reader, kernel, vars
<1>1. CASE I_Open
  BY <1>1 DEF I_Open, Goto, GiveUp
<1>2. CASE I_Thread
  BY <1>2 DEF I_Thread, Goto, GiveUp
<1>3. CASE I_Memory
  BY <1>3 DEF I_Memory, Goto, CleanUp
<1>4. CASE I_Clear
  BY <1>4 DEF I_Clear, Goto, Cleared
<1>5. CASE I_Table
  BY <1>5 DEF I_Table, Goto, CleanUp
<1>6. CASE I_Sync
  BY <1>6 DEF I_Sync, Goto, GiveUp
<1>7. CASE S_Register
  BY <1>7 DEF S_Register, Goto, GiveUp
<1>8. CASE S_Stream
  BY <1>8 DEF S_Stream, Goto, GiveUp
<1>9. CASE M_Build
  BY <1>9 DEF M_Build, Goto
<1>10. CASE M_SetLogCodes
  BY <1>10 DEF M_SetLogCodes
<1>11. CASE M_Leave
  BY <1>11 DEF M_Leave, Goto
<1>12. CASE C_Command
  BY <1>12 DEF C_Command
<1>13. CASE D_Release
  BY <1>13 DEF D_Release, Goto
<1>14. CASE D_Ask
  BY <1>14 DEF D_Ask, Goto
<1>15. CASE D_Join
  BY <1>15 DEF D_Join, Goto
<1>16. CASE D_Close
  BY <1>16 DEF D_Close, Goto
<1>17. CASE D_Free
  BY <1>17 DEF D_Free
<1>18. CASE D_Base
  BY <1>18 DEF D_Base, Goto
<1>19. CASE R_Read
  BY <1>19 DEF R_Read
<1>20. CASE R_Exit \/ R_Fails
  BY <1>20 DEF R_Exit, R_Fails
<1>21. CASE R_Mask
  BY <1>21 DEF R_Mask
<1>22. CASE R_Sync
  BY <1>22 DEF R_Sync
<1>23. CASE R_Table
  BY <1>23 DEF R_Table
<1>24. CASE R_Call
  BY <1>24 DEF R_Call
<1>25. CASE E_Log
  BY <1>25 DEF E_Log
<1>26. ASSUME NEW m \in Mask, E_Change(m) PROVE Client'
  BY <1>26 DEF E_Change
<1>27. CASE UNCHANGED vars
  BY <1>27
<1>28. QED
  BY <1>1, <1>2, <1>3, <1>4, <1>5, <1>6, <1>7, <1>8, <1>9, <1>10, <1>11, <1>12, <1>13,
     <1>14, <1>15, <1>16, <1>17, <1>18, <1>19, <1>20, <1>21, <1>22, <1>23, <1>24, <1>25,
     <1>26, <1>27
     DEF Next, Setup, Destroy, Reader, Driver

\* A set-up that failed has closed the handle, or never opened it, or failed where nobody
\* calls Diag_LSM_DeInit.
LEMMA LeftBehindStep == IInv /\ [Next]_vars => LeftBehind'
<1> SUFFICES ASSUME IInv, [Next]_vars PROVE LeftBehind'
  OBVIOUS
<1> USE DEF IInv, Control, Order, Client, LeftBehind, Closed, Starting, Ending, DeIniting,
            InSetup, main, lib, masks, reader, kernel, vars
<1>1. CASE I_Open
  BY <1>1 DEF I_Open, Goto, GiveUp
<1>2. CASE I_Thread
  BY <1>2 DEF I_Thread, Goto, GiveUp
<1>3. CASE I_Memory
  BY <1>3 DEF I_Memory, Goto, CleanUp
<1>4. CASE I_Clear
  BY <1>4 DEF I_Clear, Goto, Cleared
<1>5. CASE I_Table
  BY <1>5 DEF I_Table, Goto, CleanUp
<1>6. CASE I_Sync
  BY <1>6 DEF I_Sync, Goto, GiveUp
<1>7. CASE S_Register
  BY <1>7 DEF S_Register, Goto, GiveUp
<1>8. CASE S_Stream
  BY <1>8 DEF S_Stream, Goto, GiveUp
<1>9. CASE M_Build
  BY <1>9 DEF M_Build, Goto
<1>10. CASE M_SetLogCodes
  BY <1>10 DEF M_SetLogCodes
<1>11. CASE M_Leave
  BY <1>11 DEF M_Leave, Goto
<1>12. CASE C_Command
  BY <1>12 DEF C_Command
<1>13. CASE D_Release
  BY <1>13 DEF D_Release, Goto
<1>14. CASE D_Ask
  BY <1>14 DEF D_Ask, Goto
<1>15. CASE D_Join
  BY <1>15 DEF D_Join, Goto
<1>16. CASE D_Close
  BY <1>16 DEF D_Close, Goto
<1>17. CASE D_Free
  BY <1>17 DEF D_Free
<1>18. CASE D_Base
  BY <1>18 DEF D_Base, Goto
<1>19. CASE R_Read
  BY <1>19 DEF R_Read
<1>20. CASE R_Exit \/ R_Fails
  BY <1>20 DEF R_Exit, R_Fails
<1>21. CASE R_Mask
  BY <1>21 DEF R_Mask
<1>22. CASE R_Sync
  BY <1>22 DEF R_Sync
<1>23. CASE R_Table
  BY <1>23 DEF R_Table
<1>24. CASE R_Call
  BY <1>24 DEF R_Call
<1>25. CASE E_Log
  BY <1>25 DEF E_Log
<1>26. ASSUME NEW m \in Mask, E_Change(m) PROVE LeftBehind'
  BY <1>26 DEF E_Change
<1>27. CASE UNCHANGED vars
  BY <1>27
<1>28. QED
  BY <1>1, <1>2, <1>3, <1>4, <1>5, <1>6, <1>7, <1>8, <1>9, <1>10, <1>11, <1>12, <1>13,
     <1>14, <1>15, <1>16, <1>17, <1>18, <1>19, <1>20, <1>21, <1>22, <1>23, <1>24, <1>25,
     <1>26, <1>27
     DEF Next, Setup, Destroy, Reader, Driver

\* The driver, the queue and the read thread hold a log only when there is a client whose
\* stream is registered, except after diag_get_dci_support_list failed.
LEMMA LogsStep == IInv /\ [Next]_vars => Logs'
<1> SUFFICES ASSUME IInv, [Next]_vars PROVE Logs'
  OBVIOUS
<1> USE DEF IInv, Control, Order, Client, Logs, Closed, Starting, Ending, DeIniting, InSetup,
            Data, Nothing, Mask, SyncMask, DciMask, main, lib, masks, reader, kernel, vars
<1>1. CASE I_Open
  BY <1>1 DEF I_Open, Goto, GiveUp
<1>2. CASE I_Thread
  BY <1>2 DEF I_Thread, Goto, GiveUp
<1>3. CASE I_Memory
  BY <1>3 DEF I_Memory, Goto, CleanUp
<1>4. CASE I_Clear
  BY <1>4 DEF I_Clear, Goto, Cleared
<1>5. CASE I_Table
  BY <1>5 DEF I_Table, Goto, CleanUp
<1>6. CASE I_Sync
  BY <1>6 DEF I_Sync, Goto, GiveUp
<1>7. CASE S_Register
  BY <1>7 DEF S_Register, Goto, GiveUp
<1>8. CASE S_Stream
  BY <1>8 DEF S_Stream, Goto, GiveUp
<1>9. CASE M_Build
  BY <1>9 DEF M_Build, Goto
<1>10. CASE M_SetLogCodes
  BY <1>10 DEF M_SetLogCodes
<1>11. CASE M_Leave
  BY <1>11 DEF M_Leave, Goto
<1>12. CASE C_Command
  BY <1>12 DEF C_Command
<1>13. CASE D_Release
  BY <1>13 DEF D_Release, Goto
<1>14. CASE D_Ask
  BY <1>14 DEF D_Ask, Goto
<1>15. CASE D_Join
  BY <1>15 DEF D_Join, Goto
<1>16. CASE D_Close
  BY <1>16 DEF D_Close, Goto
<1>17. CASE D_Free
  BY <1>17 DEF D_Free
<1>18. CASE D_Base
  BY <1>18 DEF D_Base, Goto
<1>19. CASE R_Read
  BY <1>19 DEF R_Read
<1>20. CASE R_Exit \/ R_Fails
  BY <1>20 DEF R_Exit, R_Fails
<1>21. CASE R_Mask
  BY <1>21 DEF R_Mask
<1>22. CASE R_Sync
  BY <1>22 DEF R_Sync
<1>23. CASE R_Table
  BY <1>23 DEF R_Table
<1>24. CASE R_Call
  BY <1>24 DEF R_Call
<1>25. CASE E_Log
  BY <1>25 DEF E_Log
<1>26. ASSUME NEW m \in Mask, E_Change(m) PROVE Logs'
  BY <1>26 DEF E_Change
<1>27. CASE UNCHANGED vars
  BY <1>27
<1>28. QED
  BY <1>1, <1>2, <1>3, <1>4, <1>5, <1>6, <1>7, <1>8, <1>9, <1>10, <1>11, <1>12, <1>13,
     <1>14, <1>15, <1>16, <1>17, <1>18, <1>19, <1>20, <1>21, <1>22, <1>23, <1>24, <1>25,
     <1>26, <1>27
     DEF Next, Setup, Destroy, Reader, Driver

\* What the read thread and the server's thread use is there.
LEMMA LiveStep == IInv /\ [Next]_vars => UsesLive'
<1> SUFFICES ASSUME IInv, [Next]_vars PROVE UsesLive'
  OBVIOUS
<1> USE DEF IInv, Control, Order, Client, Logs, UsesLive, Closed, Starting, Ending, DeIniting,
            InSetup, Data, main, lib, masks, reader, kernel, vars
<1>1. CASE I_Open
  BY <1>1 DEF I_Open, Goto, GiveUp
<1>2. CASE I_Thread
  BY <1>2 DEF I_Thread, Goto, GiveUp
<1>3. CASE I_Memory
  BY <1>3 DEF I_Memory, Goto, CleanUp
<1>4. CASE I_Clear
  BY <1>4 DEF I_Clear, Goto, Cleared
<1>5. CASE I_Table
  BY <1>5 DEF I_Table, Goto, CleanUp
<1>6. CASE I_Sync
  BY <1>6 DEF I_Sync, Goto, GiveUp
<1>7. CASE S_Register
  BY <1>7 DEF S_Register, Goto, GiveUp
<1>8. CASE S_Stream
  BY <1>8 DEF S_Stream, Goto, GiveUp
<1>9. CASE M_Build
  BY <1>9 DEF M_Build, Goto
<1>10. CASE M_SetLogCodes
  BY <1>10 DEF M_SetLogCodes
<1>11. CASE M_Leave
  BY <1>11 DEF M_Leave, Goto
<1>12. CASE C_Command
  BY <1>12 DEF C_Command
<1>13. CASE D_Release
  BY <1>13 DEF D_Release, Goto
<1>14. CASE D_Ask
  BY <1>14 DEF D_Ask, Goto
<1>15. CASE D_Join
  BY <1>15 DEF D_Join, Goto
<1>16. CASE D_Close
  BY <1>16 DEF D_Close, Goto
<1>17. CASE D_Free
  BY <1>17 DEF D_Free
<1>18. CASE D_Base
  BY <1>18 DEF D_Base, Goto
<1>19. CASE R_Read
  BY <1>19 DEF R_Read
<1>20. CASE R_Exit \/ R_Fails
  BY <1>20 DEF R_Exit, R_Fails
<1>21. CASE R_Mask
  BY <1>21 DEF R_Mask
<1>22. CASE R_Sync
  BY <1>22 DEF R_Sync
<1>23. CASE R_Table
  BY <1>23 DEF R_Table
<1>24. CASE R_Call
  BY <1>24 DEF R_Call
<1>25. CASE E_Log
  BY <1>25 DEF E_Log
<1>26. ASSUME NEW m \in Mask, E_Change(m) PROVE UsesLive'
  BY <1>26 DEF E_Change
<1>27. CASE UNCHANGED vars
  BY <1>27
<1>28. QED
  BY <1>1, <1>2, <1>3, <1>4, <1>5, <1>6, <1>7, <1>8, <1>9, <1>10, <1>11, <1>12, <1>13,
     <1>14, <1>15, <1>16, <1>17, <1>18, <1>19, <1>20, <1>21, <1>22, <1>23, <1>24, <1>25,
     <1>26, <1>27
     DEF Next, Setup, Destroy, Reader, Driver

\* A mask is in the driver's queue, in the hand of the read thread or in the tables, or an
\* initialisation of its service has wiped it.
LEMMA MasksStep == IInv /\ [Next]_vars => Masks'
<1> SUFFICES ASSUME IInv, [Next]_vars PROVE Masks'
  OBVIOUS
<1> USE DEF IInv, Control, Order, Client, Masks, Closed, Starting, Ending, DeIniting, InSetup,
            Mask, SyncMask, DciMask, Nothing, main, lib, masks, reader, kernel, vars
<1>1. CASE I_Open
  BY <1>1 DEF I_Open, Goto, GiveUp
<1>2. CASE I_Thread
  BY <1>2 DEF I_Thread, Goto, GiveUp
<1>3. CASE I_Memory
  BY <1>3 DEF I_Memory, Goto, CleanUp
<1>4. CASE I_Clear
  <2>1. ASSUME NEW c \in DciMask, Cleared(c), pc \in {"initLog", "initEvent"},
               pc' \in {"initMsg", "table"}, UNCHANGED <<client, rd, hand, cur, ready>>
        PROVE  Masks'
    <3>1. /\ c \in Mask \ SyncMask
          /\ \A m \in Mask : tab'[m] = IF m = c THEN 0 ELSE tab[m]
          /\ tab' \in [Mask -> Nat] /\ synced' = synced
      BY <2>1 DEF Cleared
    <3>2. \A m \in Mask : m \in lost => m \in lost'
      BY <2>1 DEF Cleared
    <3>3. tab[c] # 0 => c \in lost'
      BY <2>1 DEF Cleared
    <3>4. ASSUME NEW m \in Mask \ ready, rd \notin {"none", "done"}
          PROVE  \/ tab'[m] = cur[m]
                 \/ m \in lost' /\ tab'[m] = 0
                 \/ rd = "handle" /\ hand.kind = m
      <4>1. \/ tab[m] = cur[m]
            \/ m \in lost /\ tab[m] = 0
            \/ rd = "handle" /\ hand.kind = m
        BY <3>4
      <4>2. cur[m] \in Nat \ {0} /\ tab[m] \in Nat
        BY <3>4
      <4>3. m \in Mask
        BY <3>4
      <4>4. QED BY ONLY <3>1, <3>2, <3>3, <4>1, <4>2, <4>3
    <3>5. QED BY ONLY IInv, <2>1, <3>1, <3>4
          DEF IInv, Masks, Mask, SyncMask, DciMask
  <2>2. QED BY <1>4, <2>1 DEF I_Clear, Goto
<1>5. CASE I_Table
  BY <1>5 DEF I_Table, Goto, CleanUp
<1>6. CASE I_Sync
  BY <1>6 DEF I_Sync, Goto, GiveUp
<1>7. CASE S_Register
  BY <1>7 DEF S_Register, Goto, GiveUp
<1>8. CASE S_Stream
  BY <1>8 DEF S_Stream, Goto, GiveUp
<1>9. CASE M_Build
  BY <1>9 DEF M_Build, Goto
<1>10. CASE M_SetLogCodes
  BY <1>10 DEF M_SetLogCodes
<1>11. CASE M_Leave
  BY <1>11 DEF M_Leave, Goto
<1>12. CASE C_Command
  BY <1>12 DEF C_Command
<1>13. CASE D_Release
  BY <1>13 DEF D_Release, Goto
<1>14. CASE D_Ask
  BY <1>14 DEF D_Ask, Goto
<1>15. CASE D_Join
  BY <1>15 DEF D_Join, Goto
<1>16. CASE D_Close
  BY <1>16 DEF D_Close, Goto
<1>17. CASE D_Free
  BY <1>17 DEF D_Free
<1>18. CASE D_Base
  BY <1>18 DEF D_Base, Goto
<1>19. CASE R_Read
  BY <1>19 DEF R_Read
<1>20. CASE R_Exit \/ R_Fails
  <2>1. CASE R_Exit
    BY <2>1 DEF R_Exit
  <2>2. CASE R_Fails
    BY <2>2 DEF R_Fails
  <2>3. QED BY <1>20, <2>1, <2>2
<1>21. CASE R_Mask
  BY <1>21 DEF R_Mask
<1>22. CASE R_Sync
  <2>1. /\ rd = "sync" /\ rd' = "read" /\ hand' = Nothing /\ synced' = synced \cup {hand.kind}
        /\ UNCHANGED <<tab, lost, cur, ready, client, pc>>
    BY <1>22 DEF R_Sync
  <2>2. /\ hand.kind \in SyncMask /\ tab[hand.kind] > 0 /\ synced \subseteq SyncMask
        /\ (client \/ pc = "register" => synced = SyncMask) /\ \A m \in synced : tab[m] > 0
    BY <2>1
  <2>3. /\ synced' \subseteq SyncMask /\ \A m \in synced' : tab'[m] > 0
        /\ client' \/ pc' = "register" => synced' = SyncMask
    BY ONLY <2>1, <2>2
  <2>4. \A m \in Mask \ ready' : tab'[m] = cur'[m] \/ (m \in lost' /\ tab'[m] = 0)
    BY <2>1
  <2>5. QED BY <2>1, <2>3, <2>4
<1>23. CASE R_Table
  BY <1>23 DEF R_Table
<1>24. CASE R_Call
  BY <1>24 DEF R_Call
<1>25. CASE E_Log
  BY <1>25 DEF E_Log
<1>26. ASSUME NEW m \in Mask, E_Change(m) PROVE Masks'
  <2>1. cur' = [cur EXCEPT ![m] = cur[m] + 1] /\ ready' = ready \cup {m}
    BY <1>26, Zenon DEF E_Change
  <2>2. UNCHANGED <<pc, client, tab, synced, lost, rd, hand>>
    BY <1>26, Zenon DEF E_Change
  <2>3. \A k \in Mask : cur'[k] \in Nat \ {0} /\ (k # m => cur'[k] = cur[k])
    BY ONLY IInv, <1>26, <2>1 DEF IInv, Masks
  <2>4. cur' \in [Mask -> Nat \ {0}]
    BY ONLY IInv, <2>1, <2>3 DEF IInv, Masks
  <2>5. QED BY ONLY IInv, <2>1, <2>2, <2>3, <2>4 DEF IInv, Masks
<1>27. CASE UNCHANGED vars
  BY <1>27
<1>28. QED
  BY <1>1, <1>2, <1>3, <1>4, <1>5, <1>6, <1>7, <1>8, <1>9, <1>10, <1>11, <1>12, <1>13,
     <1>14, <1>15, <1>16, <1>17, <1>18, <1>19, <1>20, <1>21, <1>22, <1>23, <1>24, <1>25,
     <1>26, <1>27
     DEF Next, Setup, Destroy, Reader, Driver

-----------------------------------------------------------------------------
(* The invariant, and what it says.                                         *)

\* Before main() does anything, the invariant holds.
LEMMA InitInv == Init => IInv
BY DEF Init, IInv, Control, Order, Client, LeftBehind, Logs, Masks, UsesLive, Closed, Data, Nothing,
       Starting, Ending, DeIniting, InSetup, Mask, SyncMask, DciMask

\* No step of main(), the threads or the driver breaks it.
LEMMA StepInv == IInv /\ [Next]_vars => IInv'
BY ControlStep, OrderStep, ClientStep, LeftBehindStep, LogsStep, MasksStep, LiveStep DEF IInv

\* So it holds all the time, however long the set-up takes and wherever it fails.
THEOREM LifeInvariance == Spec => []IInv
BY InitInv, StepInv, PTL DEF Spec

\* What do_mask_sync is for: after it the three masks are in libdiag's tables, and whenever the
\* read thread has nothing to read the tables are what the driver last sent, but for a DCI mask
\* that the initialisation of its service wiped.
THEOREM MasksAreKept == Spec => []MasksKept
<1>1. ASSUME IInv, client \/ pc = "register", NEW m \in SyncMask PROVE tab[m] > 0
  BY <1>1 DEF IInv, Masks
<1>2. ASSUME IInv, rd = "read", NEW m \in Mask \ ready
      PROVE  tab[m] = cur[m] \/ (m \in lost /\ tab[m] = 0)
  BY <1>2 DEF IInv, Masks
<1>3. IInv => MasksKept
  BY <1>1, <1>2 DEF MasksKept
<1>4. QED BY LifeInvariance, <1>3, PTL

\* The read thread finds the client table filled and the DCI object alive, on every way the set-up
\* can fail; the callback, the parser and the processor are there but for the named exceptions.
THEOREM OnlyLiveObjects == Spec => []UsesLive
<1>1. IInv => UsesLive
  BY DEF IInv
<1>2. QED BY LifeInvariance, <1>1, PTL

\* When main() returns, the handle is closed, the read thread has ended and the driver has no
\* client, unless the set-up failed where nobody calls Diag_LSM_DeInit.
THEOREM AllReleased == Spec => []Released
<1>1. IInv => Released
  BY DEF IInv, Released, LeftBehind, Client, Closed, InSetup, DeIniting
<1>2. QED BY LifeInvariance, <1>1, PTL

-----------------------------------------------------------------------------
(* The log code set.                                                        *)

\* Every step keeps the inductive invariant (_manipulate_log_codes asks the driver first and
\* changes the local set only when the driver agreed).
LEMMA CodesStep == CodesIInv /\ [CodesNext]_codesVars => CodesIInv'
<1> SUFFICES ASSUME CodesIInv, [CodesNext]_codesVars PROVE CodesIInv'
  OBVIOUS
<1>1. CASE DisableNone
  BY <1>1 DEF DisableNone, AfterDisable, CodesIInv, PcOK, MaskMatches, CallState, caller, list,
     dispatch
<1>2. CASE DisableFails
  BY <1>2 DEF DisableFails, CodesIInv, PcOK, MaskMatches, CallState, caller, list, dispatch
<1>3. CASE Disable
  BY <1>3 DEF Disable, CodesIInv, PcOK, MaskMatches, CallState, caller, list, dispatch
<1>4. CASE Erase
  BY <1>4 DEF Erase, AfterDisable, CodesIInv, PcOK, MaskMatches, CallState, caller, list, dispatch
<1>5. CASE EnableNone
  BY <1>5 DEF EnableNone, CodesIInv, PcOK, MaskMatches, CallState, caller, list, dispatch
<1>6. CASE EnableFails
  BY <1>6 DEF EnableFails, CodesIInv, PcOK, MaskMatches, CallState, caller, list, dispatch
<1>7. CASE Enable
  BY <1>7 DEF Enable, CodesIInv, PcOK, MaskMatches, CallState, caller, list, dispatch
<1>8. CASE Insert
  BY <1>8 DEF Insert, CodesIInv, PcOK, MaskMatches, CallState, caller, list, dispatch
<1>9. CASE add_log_handler
  BY <1>9 DEF add_log_handler, CodesIInv, PcOK, MaskMatches, CallState, caller, list, dispatch
<1>10. CASE Dispatch
  BY <1>10 DEF Dispatch, ReadLog, LoopBegin, LoopEnd, CallHandler, CallAnything, LogDone, CodesIInv,
     PcOK, MaskMatches, CallState, caller, list
<1>11. ASSUME NEW S \in SUBSET Code, set_log_codes(S) \/ add_log_codes(S)
    PROVE CodesIInv'
  BY <1>11 DEF set_log_codes, add_log_codes, Begin, CodesIInv, PcOK, MaskMatches, CallState,
     caller, list, dispatch
<1>12. CASE reset_log_codes
  BY <1>12 DEF reset_log_codes, Begin, CodesIInv, PcOK, MaskMatches, CallState, caller, list,
     dispatch
<1>13. ASSUME NEW c \in Code, TakeLog(c)
    PROVE CodesIInv'
  BY <1>13 DEF TakeLog, CodesIInv, PcOK, MaskMatches, CallState, caller, list, dispatch
<1>14. CASE UNCHANGED codesVars
  BY <1>14 DEF codesVars, CodesIInv, PcOK, MaskMatches, CallState, caller, list, dispatch
<1>15. QED
  BY <1>1, <1>2, <1>3, <1>4, <1>5, <1>6, <1>7, <1>8, <1>9, <1>10, <1>11, <1>12, <1>13, <1>14
     DEF CodesNext, Caller

\* In every reachable state the inductive invariant holds.
LEMMA CodesInvariance == CodesSpec => []CodesIInv
<1>1. CodesInit => CodesIInv
  BY DEF CodesInit, CodesIInv, PcOK, MaskMatches, CallState
<1>2. QED
  BY <1>1, CodesStep, PTL DEF CodesSpec

\* Outside the one step between the driver's consent and the local update, _log_codes is the
\* driver's mask, whatever was refused before.
THEOREM MaskAgreement == CodesSpec => []MaskMatches
<1>1. CodesIInv => MaskMatches
  BY DEF CodesIInv
<1>2. QED
  BY <1>1, CodesInvariance, PTL

\* A set_log_codes ends with the codes asked for, or failed with the previous ones or none.
THEOREM SetIsAllOrNothing == CodesSpec => SetOutcome
<1>1. ASSUME CodesIInv, [CodesNext]_codesVars PROVE SetEnds
  <2>1. CASE DisableNone
    BY <1>1, <2>1 DEF DisableNone, AfterDisable, SetEnds, CodesIInv, PcOK, MaskMatches,
       CallState, caller, list, dispatch
  <2>2. CASE DisableFails
    BY <1>1, <2>2 DEF DisableFails, SetEnds, CodesIInv, PcOK, MaskMatches, CallState, caller,
       list, dispatch
  <2>3. CASE Disable
    BY <1>1, <2>3 DEF Disable, SetEnds, CodesIInv, PcOK, MaskMatches, CallState, caller, list,
       dispatch
  <2>4. CASE Erase
    BY <1>1, <2>4 DEF Erase, AfterDisable, SetEnds, CodesIInv, PcOK, MaskMatches, CallState,
       caller, list, dispatch
  <2>5. CASE EnableNone
    BY <1>1, <2>5 DEF EnableNone, SetEnds, CodesIInv, PcOK, MaskMatches, CallState, caller, list,
       dispatch
  <2>6. CASE EnableFails
    BY <1>1, <2>6 DEF EnableFails, SetEnds, CodesIInv, PcOK, MaskMatches, CallState, caller,
       list, dispatch
  <2>7. CASE Enable
    BY <1>1, <2>7 DEF Enable, SetEnds, CodesIInv, PcOK, MaskMatches, CallState, caller, list,
       dispatch
  <2>8. CASE Insert
    BY <1>1, <2>8 DEF Insert, SetEnds, CodesIInv, PcOK, MaskMatches, CallState, caller, list,
       dispatch
  <2>9. CASE add_log_handler
    BY <1>1, <2>9 DEF add_log_handler, SetEnds, CodesIInv, PcOK, MaskMatches, CallState, caller,
       list, dispatch
  <2>10. CASE Dispatch
    BY <1>1, <2>10 DEF Dispatch, ReadLog, LoopBegin, LoopEnd, CallHandler, CallAnything, LogDone,
       SetEnds, CodesIInv, PcOK, MaskMatches, CallState, caller, list
  <2>11. ASSUME NEW S \in SUBSET Code, set_log_codes(S) \/ add_log_codes(S)
      PROVE SetEnds
    BY <1>1, <2>11 DEF set_log_codes, add_log_codes, Begin, SetEnds, CodesIInv, PcOK,
       MaskMatches, CallState, caller, list, dispatch
  <2>12. CASE reset_log_codes
    BY <1>1, <2>12 DEF reset_log_codes, Begin, SetEnds, CodesIInv, PcOK, MaskMatches, CallState,
       caller, list, dispatch
  <2>13. ASSUME NEW c \in Code, TakeLog(c)
      PROVE SetEnds
    BY <1>1, <2>13 DEF TakeLog, SetEnds, CodesIInv, PcOK, MaskMatches, CallState, caller, list,
       dispatch
  <2>14. CASE UNCHANGED codesVars
    BY <1>1, <2>14 DEF codesVars, SetEnds, CodesIInv, PcOK, MaskMatches, CallState, caller, list,
       dispatch
  <2>15. QED
    BY <1>1, <2>1, <2>2, <2>3, <2>4, <2>5, <2>6, <2>7, <2>8, <2>9, <2>10, <2>11, <2>12, <2>13,
       <2>14 DEF CodesNext, Caller
<1>2. CodesIInv /\ [CodesNext]_codesVars => [SetEnds]_codesVars
  BY <1>1
<1>3. QED
  BY <1>2, CodesInvariance, PTL DEF SetOutcome, CodesSpec

\* Every step keeps what ties the read thread's loop to the list: the driver has nothing to
\* send before the first call, and unless the list moved after it, both iterators of the loop
\* point into the memory the list has now, the first not past the second.
LEMMA LoopStep == LoopInv /\ [CodesNext]_codesVars => LoopInv'
<1> SUFFICES ASSUME LoopInv, [CodesNext]_codesVars PROVE LoopInv'
  OBVIOUS
<1> USE DEF LoopInv, BeforeFirstCall, Iterators, caller, list, dispatch
<1>1. CASE DisableNone
  BY <1>1 DEF DisableNone
<1>2. CASE DisableFails
  BY <1>2 DEF DisableFails
<1>3. CASE Disable
  BY <1>3 DEF Disable
<1>4. CASE Erase
  BY <1>4 DEF Erase
<1>5. CASE EnableNone
  BY <1>5 DEF EnableNone
<1>6. CASE EnableFails
  BY <1>6 DEF EnableFails
<1>7. CASE Enable
  BY <1>7 DEF Enable
<1>8. CASE Insert
  BY <1>8 DEF Insert
<1>9. CASE add_log_handler
  <2>1. CASE handlers = capacity
    <3>1. late' \/ (~late /\ ~(calls > 0))
      BY Zenon, <1>9, <2>1 DEF add_log_handler
    <3>2. handlers' = handlers + 1 /\ storage' = storage + 1
      BY <1>9, <2>1 DEF add_log_handler
    <3>3. UNCHANGED <<pcC, op, want, failed, before, calls, codes, mask, logs, pcR, at, end>>
      BY Zenon, <1>9 DEF add_log_handler
    <3>4. CASE late'
      BY <3>2, <3>3, <3>4
    <3>5. CASE ~late /\ ~(calls > 0)
      <4>1. calls = 0
        BY <3>5
      <4>2. QED BY <3>2, <3>3, <4>1
    <3>6. QED BY <3>1, <3>4, <3>5
  <2>2. CASE handlers # capacity
    BY <1>9, <2>2 DEF add_log_handler
  <2>3. QED BY <2>1, <2>2
<1>10. CASE ReadLog
  BY <1>10 DEF ReadLog
<1>11. CASE LoopBegin
  BY <1>11 DEF LoopBegin
<1>12. CASE LoopEnd
  BY <1>12 DEF LoopEnd
<1>13. CASE CallHandler
  <2>1. at = <<at[1], at[2]>> /\ end = <<end[1], end[2]>> /\ at[2] \in Nat /\ end[2] \in Nat
    OBVIOUS
  <2>2. ~late => at[2] + 1 <= end[2]
    BY <1>13, <2>1 DEF CallHandler
  <2>3. QED BY <1>13, <2>1, <2>2 DEF CallHandler
<1>14. CASE CallAnything
  <2>1. at = <<at[1], at[2]>> /\ end = <<end[1], end[2]>> /\ at[2] \in Nat /\ end[2] \in Nat
    OBVIOUS
  <2>2. late
    BY <1>14, <2>1 DEF CallAnything, InList
  <2>3. QED BY <1>14, <2>2 DEF CallAnything
<1>15. CASE LogDone
  BY <1>15 DEF LogDone
<1>16. ASSUME NEW S \in SUBSET Code, set_log_codes(S) \/ add_log_codes(S)
       PROVE  LoopInv'
  BY <1>16 DEF set_log_codes, add_log_codes, Begin
<1>17. CASE reset_log_codes
  BY <1>17 DEF reset_log_codes, Begin
<1>18. ASSUME NEW c \in Code, TakeLog(c)
       PROVE  LoopInv'
  BY <1>18 DEF TakeLog
<1>19. CASE UNCHANGED codesVars
  BY <1>19 DEF codesVars
<1>20. QED
  BY <1>1, <1>2, <1>3, <1>4, <1>5, <1>6, <1>7, <1>8, <1>9, <1>10, <1>11, <1>12, <1>13, <1>14,
     <1>15, <1>16, <1>17, <1>18, <1>19 DEF CodesNext, Caller, Dispatch

\* For any number of handlers, codes and logs, _handle_log leaves the memory of _log_handlers
\* only if push_back moved it after codes were first set: no lock says so, it follows from the
\* driver sending nothing before (DCIBase.cpp 106, DCI.cpp 38).
THEOREM LoopStaysInList == CodesSpec => []LoopInList
<1>1. CodesInit => LoopInv
  BY DEF CodesInit, LoopInv, BeforeFirstCall, Iterators
<1>2. LoopInv => LoopInList
  BY DEF LoopInv, LoopInList
<1>3. QED
  BY <1>1, <1>2, LoopStep, PTL DEF CodesSpec

-----------------------------------------------------------------------------
(* The AT command port.                                                     *)

\* What is read and what is left are what was there.
LEMMA ReadsPart ==
  ASSUME NEW S, NEW x \in Seq(S), NEW y \in Seq(S), NEW k \in 0..Len(y)
  PROVE  /\ x \o SubSeq(y, 1, k) \in Seq(S) /\ SubSeq(y, k + 1, Len(y)) \in Seq(S)
         /\ (x \o SubSeq(y, 1, k)) \o SubSeq(y, k + 1, Len(y)) = x \o y
<1> DEFINE u == SubSeq(y, 1, k)
           v == SubSeq(y, k + 1, Len(y))
<1>1. Len(y) \in Nat /\ \A i \in 1..Len(y) : y[i] \in S
  OBVIOUS
<1>2. u \in Seq(S)
  <2>1. \A i \in 1..k : y[i] \in S
    BY <1>1
  <2>2. QED BY <2>1, SubSeqProperties
<1>3. v \in Seq(S)
  <2>1. \A i \in (k + 1)..Len(y) : y[i] \in S
    BY <1>1
  <2>2. k + 1 \in Int /\ Len(y) \in Int
    BY <1>1
  <2>3. QED BY <2>1, <2>2, SubSeqProperties
<1>4. u \o v = y
  <2>1. 1 \in 1..(Len(y) + 1) /\ k \in (1 - 1)..Len(y) /\ Len(y) \in k..Len(y)
    BY <1>1
  <2>2. SubSeq(y, 1, k) \o SubSeq(y, k + 1, Len(y)) = SubSeq(y, 1, Len(y))
    BY <2>1, ConcatAdjacentSubSeq
  <2>3. QED BY <2>2, SubSeqFull
<1> HIDE DEF u, v
<1>5. x \o u \in Seq(S) /\ (x \o u) \o v = x \o (u \o v)
  BY SMTT(30), <1>2, <1>3, ConcatAssociative, ConcatProperties
<1>6. QED BY <1>3, <1>4, <1>5 DEF u, v

\* Without the first sequence, a concatenation is the second.
LEMMA DropsFirst ==
  ASSUME NEW S, NEW x \in Seq(S), NEW y \in Seq(S)
  PROVE  SubSeq(x \o y, Len(x) + 1, Len(x \o y)) = y
<1> DEFINE z == x \o y
           v == SubSeq(z, Len(x) + 1, Len(z))
<1>1. /\ z \in Seq(S) /\ Len(z) = Len(x) + Len(y) /\ Len(x) \in Nat /\ Len(y) \in Nat
      /\ \A i \in 1..(Len(x) + Len(y)) : z[i] = IF i <= Len(x) THEN x[i] ELSE y[i - Len(x)]
  BY ConcatProperties
<1> HIDE DEF z
<1>2. \A i \in (Len(x) + 1)..Len(z) : z[i] \in S
  BY <1>1
<1>3. /\ v \in Seq(S) /\ Len(v) = IF Len(x) + 1 <= Len(z) THEN Len(z) - (Len(x) + 1) + 1 ELSE 0
      /\ \A i \in 1..(Len(z) - (Len(x) + 1) + 1) : v[i] = z[Len(x) + 1 + i - 1]
  BY <1>1, <1>2, SubSeqProperties
<1> HIDE DEF v
<1>4. Len(v) = Len(y) /\ Len(z) - (Len(x) + 1) + 1 = Len(y)
  BY <1>1, <1>3
<1>5. ASSUME NEW i \in 1..Len(y) PROVE v[i] = y[i]
  <2>1. /\ Len(x) + 1 + i - 1 = Len(x) + i /\ Len(x) + i \in 1..(Len(x) + Len(y))
        /\ ~(Len(x) + i <= Len(x)) /\ Len(x) + i - Len(x) = i
    BY <1>1
  <2>2. QED BY ONLY SMTT(30), <1>1, <1>3, <1>4, <2>1, i \in 1..Len(y)
<1>6. v = y
  BY ONLY <1>3, <1>4, <1>5, y \in Seq(S), SeqEqual
<1>7. QED BY <1>6 DEF v, z

\* Appending to the second appends to the concatenation.
LEMMA AppendsLast ==
  ASSUME NEW S, NEW x \in Seq(S), NEW y \in Seq(S), NEW p \in S
  PROVE  x \o Append(y, p) = Append(x \o y, p)
<1>1. Append(y, p) = y \o <<p>> /\ Append(x \o y, p) = (x \o y) \o <<p>> /\ <<p>> \in Seq(S)
  BY ConcatProperties, AppendIsConcat
<1>2. QED BY <1>1, ConcatAssociative

\* Types of what is under way.
Typed == /\ result \in Seq(Piece) /\ input \in Seq(Piece) /\ answer \in Seq(Piece)
         /\ sent \in Seq(Piece) /\ sending \in Seq(Piece) /\ todo \in Seq(Cmd) /\ n \in Nat
         /\ Held \in Seq(Piece) /\ MaxCmd \in Nat /\ Ticks \in Nat /\ Chunk \in Nat

\* The types that the invariant gives.
LEMMA TypeFacts == ASSUME AtIInv PROVE Typed
<1>1. /\ result \in Seq(Piece) /\ input \in Seq(Piece) /\ answer \in Seq(Piece)
      /\ sent \in Seq(Piece) /\ sending \in Seq(Piece) /\ todo \in Seq(Cmd)
      /\ MaxCmd \in Nat /\ n \in 0..(MaxCmd + 3) /\ Ticks \in Nat /\ Chunk \in Nat
  BY ModemAtAssumption DEF AtIInv, AtTypeOK
<1>2. Held \in Seq(Piece)
  BY ONLY <1>1, ConcatProperties DEF Held
<1>3. QED BY <1>1, <1>2 DEF Typed

\* What is written as one answer and the parts under way, is the answer and what was held.
LEMMA LostNothing == ASSUME Typed PROVE NothingLost <=> answer \o Held = sent
<1>1. answer \in Seq(Piece) /\ result \in Seq(Piece) /\ input \in Seq(Piece)
  BY DEF Typed
<1>2. (answer \o result) \o input = answer \o (result \o input)
  BY ONLY <1>1, ConcatAssociative
<1>3. QED BY <1>2 DEF NothingLost, Held

\* An iteration of read_: r is what was read so far, rest what the tty still holds.
Reads(r, rest) ==
  /\ pcA = "read" /\ r \in Seq(Piece) /\ rest \in Seq(Piece) /\ r \o rest = Held
  /\ input' = rest /\ UNCHANGED <<n, modem>>
  /\ \/ Terminated(r) /\ Return(r, FALSE) /\ UNCHANGED tenth
     \/ Tick(r)

\* A step of read_ reads some pieces, or none.
LEMMA ReadsSome == ASSUME Typed, Read PROVE \E r, rest : Reads(r, rest)
<1>1. CASE R_Chunk
  <2>1. PICK k \in 1..Chunk :
          /\ k <= Len(input) /\ input' = SubSeq(input, k + 1, Len(input))
          /\ LET r == result \o SubSeq(input, 1, k) IN
             IF Terminated(r) THEN Return(r, FALSE) /\ UNCHANGED tenth ELSE Tick(r)
    BY <1>1 DEF R_Chunk
  <2> DEFINE r == result \o SubSeq(input, 1, k)
             rest == SubSeq(input, k + 1, Len(input))
  <2>2. input \in Seq(Piece) /\ result \in Seq(Piece) /\ Len(input) \in Nat /\ Chunk \in Nat
    BY DEF Typed
  <2>3. k \in 0..Len(input)
    BY ONLY <2>1, <2>2
  <2>4. r \in Seq(Piece) /\ rest \in Seq(Piece) /\ r \o rest = Held
    <3>1. /\ result \o SubSeq(input, 1, k) \in Seq(Piece)
          /\ SubSeq(input, k + 1, Len(input)) \in Seq(Piece)
          /\ (result \o SubSeq(input, 1, k)) \o SubSeq(input, k + 1, Len(input)) = result \o input
      <4>1. \A x, y \in Seq(Piece) : \A l \in 0..Len(y) :
              /\ x \o SubSeq(y, 1, l) \in Seq(Piece) /\ SubSeq(y, l + 1, Len(y)) \in Seq(Piece)
              /\ (x \o SubSeq(y, 1, l)) \o SubSeq(y, l + 1, Len(y)) = x \o y
        BY ONLY ReadsPart
      <4>2. QED BY ONLY <2>2, <2>3, <4>1
    <3>2. QED BY ONLY <3>1 DEF Held
  <2>5. pcA = "read" /\ UNCHANGED <<n, modem>>
    BY <1>1 DEF R_Chunk
  <2>6. \/ Terminated(r) /\ Return(r, FALSE) /\ UNCHANGED tenth
        \/ Tick(r)
    BY ONLY <2>1
  <2>7. input' = rest
    BY <2>1
  <2> HIDE DEF r, rest
  <2>8. Reads(r, rest)
    BY ONLY <2>4, <2>5, <2>6, <2>7 DEF Reads
  <2>9. QED BY ONLY <2>8
<1>2. CASE R_Empty
  <2>1. /\ pcA = "read" /\ input = <<>> /\ Tick(result) /\ UNCHANGED <<n, modem, input>>
    BY <1>2 DEF R_Empty
  <2>2. result \in Seq(Piece) /\ input \in Seq(Piece) /\ result \o input = Held
    BY DEF Typed, Held
  <2>3. Reads(result, input)
    BY ONLY <2>1, <2>2 DEF Reads
  <2>4. QED BY ONLY <2>3
<1>3. QED BY <1>1, <1>2 DEF Read

\* A read_ returns r: the parts of the step that the invariant needs.
LEMMA Returned ==
  ASSUME AtIInv, Typed, NEW r, NEW rest, Reads(r, rest), NEW timeout \in BOOLEAN,
         Return(r, timeout)
  PROVE  /\ r \in Seq(Piece) /\ rest \in Seq(Piece) /\ Held = r \o rest
         /\ answer' = r /\ result' = <<>> /\ input' = rest /\ Held' = rest /\ sent' = Held
         /\ cut' = (IF cut = -1 /\ (timeout \/ OldEnd(r)) THEN IF n = 1 THEN 0 ELSE n ELSE cut)
         /\ pcA = "read" /\ pcA' \in {"idle", "open", "closed"} /\ Answered' = n
         /\ up' => (up \/ n = 2)
         /\ n \in Nat /\ n >= 1
         /\ UNCHANGED <<n, todo, sending, urcs>>
<1>1. /\ pcA = "read" /\ r \in Seq(Piece) /\ rest \in Seq(Piece) /\ r \o rest = Held
      /\ input' = rest /\ UNCHANGED <<n, todo, sending, urcs>>
  BY DEF Reads, modem
<1>2. /\ answer' = r /\ result' = <<>>
      /\ sent' = SubSeq(sent, Len(answer) + 1, Len(sent))
      /\ cut' = (IF cut = -1 /\ (timeout \/ OldEnd(r)) THEN IF n = 1 THEN 0 ELSE n ELSE cut)
      /\ pcA' = Back /\ up' = (up \/ Back = "idle")
  BY DEF Return
<1>3. answer \o Held = sent /\ answer \in Seq(Piece) /\ Held \in Seq(Piece) /\ n \in Nat
  BY LostNothing DEF Typed, AtIInv
<1>4. sent' = Held
  <2>1. SubSeq(answer \o Held, Len(answer) + 1, Len(answer \o Held)) = Held
    BY ONLY <1>3, DropsFirst
  <2>2. QED BY ONLY <1>2, <1>3, <2>1
<1>5. Held' = rest
  <2>1. Held' = <<>> \o rest
    BY <1>1, <1>2 DEF Held
  <2>2. QED BY ONLY <1>1, <2>1, ConcatEmptySeq
<1>6. /\ pcA' \in {"idle", "open", "closed"}
      /\ up' => (up \/ n = 2)
  BY <1>2 DEF Back, AtIInv, AtTypeOK
<1>7. Answered' = n
  BY <1>1, <1>6 DEF Answered
<1>8. n >= 1
  BY <1>1 DEF AtIInv, Lives
<1>9. QED BY ONLY <1>1, <1>2, <1>3, <1>4, <1>5, <1>6, <1>7, <1>8

\* A turn that goes on reading holds the same.
LEMMA ReadsOn ==
  ASSUME NEW r, NEW rest, Reads(r, rest), result' = r, tenth > 0, tenth' = tenth - 1,
         UNCHANGED <<pcA, up, answer, cut, sent>>
  PROVE  Held' = Held /\ UNCHANGED <<pcA, up, n, answer, cut, todo, sending, urcs, sent>>
         /\ result' \in Seq(Piece) /\ input' \in Seq(Piece) /\ pcA = "read"
BY DEF Reads, Held, modem

\* The last part is that of a sequence of parts.
LEMMA Tailed ==
  ASSUME NEW S, NEW s \in Seq(S), s # <<>>
  PROVE  /\ Len(s) \in Nat \ {0} /\ Head(s) = s[1] /\ Head(s) \in S
         /\ Tail(s) \in Seq(S) /\ Len(Tail(s)) = Len(s) - 1
         /\ \A i \in 1..Len(Tail(s)) : Tail(s)[i] = s[i + 1] /\ i + 1 \in 1..Len(s)
<1>1. /\ Head(s) \in S /\ Tail(s) \in Seq(S) /\ Len(Tail(s)) = Len(s) - 1
      /\ \A i \in 1..Len(Tail(s)) : Tail(s)[i] = s[i + 1]
  BY HeadTailProperties
<1>2. Len(s) \in Nat \ {0} /\ Head(s) = s[1]
  BY EmptySeq
<1>3. \A i \in 1..(Len(s) - 1) : i + 1 \in 1..Len(s)
  BY <1>2
<1>4. QED BY ONLY <1>1, <1>2, <1>3

\* A part added at the end.
LEMMA Appended ==
  ASSUME NEW S, NEW s \in Seq(S), NEW p \in S
  PROVE  /\ Append(s, p) \in Seq(S) /\ Len(Append(s, p)) = Len(s) + 1 /\ Len(s) \in Nat
         /\ \A i \in 1..Len(s) : Append(s, p)[i] = s[i]
         /\ Append(s, p)[Len(s) + 1] = p
         /\ \A i \in 1..(Len(s) + 1) : i \in 1..Len(s) \/ i = Len(s) + 1
<1>1. Len(s) \in Nat
  OBVIOUS
<1>2. /\ Append(s, p) \in Seq(S) /\ Len(Append(s, p)) = Len(s) + 1
      /\ \A i \in 1..Len(s) : Append(s, p)[i] = s[i]
      /\ Append(s, p)[Len(s) + 1] = p
  BY AppendProperties
<1>3. \A i \in 1..(Len(s) + 1) : i \in 1..Len(s) \/ i = Len(s) + 1
  BY <1>1
<1>4. QED BY ONLY <1>1, <1>2, <1>3

\* When a read_ returns.
LEMMA ReturnKeeps ==
  ASSUME AtIInv, Typed, NEW r, NEW rest, Reads(r, rest), NEW timeout \in BOOLEAN,
         Return(r, timeout),
         timeout \/ Terminated(r), tenth' \in 0..Ticks
  PROVE  AtIInv'
<1>1. /\ r \in Seq(Piece) /\ rest \in Seq(Piece) /\ Held = r \o rest
      /\ answer' = r /\ result' = <<>> /\ input' = rest /\ Held' = rest /\ sent' = Held
      /\ cut' = (IF cut = -1 /\ (timeout \/ OldEnd(r)) THEN IF n = 1 THEN 0 ELSE n ELSE cut)
      /\ pcA = "read" /\ pcA' \in {"idle", "open", "closed"} /\ Answered' = n
      /\ up' => (up \/ n = 2)
      /\ n \in Nat /\ n >= 1
      /\ UNCHANGED <<n, todo, sending, urcs>>
  BY Returned
<1>2. /\ Held \in Seq(Piece) /\ Len(Held) = Len(r) + Len(rest)
      /\ Len(r) \in Nat /\ Len(rest) \in Nat
      /\ \A i \in 1..(Len(r) + Len(rest)) :
           Held[i] = IF i <= Len(r) THEN r[i] ELSE rest[i - Len(r)]
  BY ONLY <1>1, ConcatProperties
<1>3. \A i \in 1..Len(r) : i \in 1..Len(Held) /\ Held[i] = r[i]
  <2>1. \A i \in 1..Len(r) : i \in 1..(Len(r) + Len(rest)) /\ i <= Len(r)
    BY ONLY <1>2
  <2>2. QED BY ONLY <1>2, <2>1
<1>4. \A i \in 1..Len(rest) : Len(r) + i \in 1..Len(Held) /\ Held[Len(r) + i] = rest[i]
  <2>1. \A i \in 1..Len(rest) :
          /\ Len(r) + i \in 1..(Len(r) + Len(rest)) /\ ~(Len(r) + i <= Len(r))
          /\ Len(r) + i - Len(r) = i
    BY ONLY <1>2
  <2>2. QED BY ONLY <1>2, <2>1
<1>5. AtTypeOK /\ Lives /\ EndsOnce /\ InTime /\ Late /\ InStep
  BY DEF AtIInv
<1>6. up' \in BOOLEAN
  BY DEF Return
<1>7. cut \in Nat \cup {-1} /\ n \in Cmd /\ n \in Nat
  BY <1>1, <1>5, ModemAtAssumption DEF AtTypeOK, Cmd
<1>8. AtTypeOK'
  <2>1. result' \in Seq(Piece)
    BY ONLY <1>1, EmptySeq
  <2>2. cut' \in Cmd \cup {0, -1}
    BY <1>1, <1>5, <1>7 DEF AtTypeOK
  <2>3. QED BY <1>1, <1>2, <1>5, <1>6, <2>1, <2>2 DEF AtTypeOK
<1>9. NothingLost'
  <2>1. r \o <<>> = r
    BY ONLY <1>1, ConcatEmptySeq
  <2>2. QED BY ONLY <1>1, <2>1 DEF NothingLost
<1>10. InStep'
  <2> SUFFICES ASSUME NEW i \in 1..Len(r)
               PROVE  \/ r[i].cmd \in {-1, n} \/ (r[i].cmd = 0 /\ n = 1)
                      \/ cut' # -1 /\ cut' <= r[i].cmd /\ r[i].cmd < n
    BY <1>1 DEF InStep
  <2>1. i \in 1..Len(Held) /\ Held[i] = r[i]
    BY <1>3
  <2>2. CASE cut = -1
    <3>1. Held[i].cmd \in Due \cup {-1}
      BY <1>5, <2>1, <2>2 DEF InTime
    <3>2. QED BY ONLY <1>1, <2>1, <3>1 DEF Due
  <2>3. CASE cut # -1
    <3>1. Held[i].cmd \in {-1} \cup (cut..n) /\ cut' = cut
      BY <1>1, <1>5, <2>1, <2>3 DEF Late
    <3>2. QED BY ONLY <1>1, <1>7, <2>1, <2>3, <3>1
  <2>4. QED BY <2>2, <2>3
<1>11. Lives'
  <2>1. up' => n <= MaxCmd + 2
    BY <1>1, <1>5, ModemAtAssumption DEF Lives
  <2>2. n # 0
    BY ONLY <1>1
  <2>3. QED BY ONLY <1>1, <2>1, <2>2 DEF Lives
<1>12. EndsOnce'
  BY ONLY <1>1, <1>5 DEF EndsOnce
<1>13. InTime'
  <2> SUFFICES ASSUME cut' = -1 PROVE InTime'
    BY DEF InTime
  <2>1. cut = -1 /\ ~timeout /\ ~OldEnd(r)
    <3>1. n # -1 /\ 0 # -1
      BY ONLY <1>7
    <3>2. QED BY ONLY <1>1, <3>1, cut' = -1, timeout \in BOOLEAN, Zenon
  <2>2. PICK i \in 1..Len(r) : r[i].part \in Final /\ r[i].cmd # 0
    <3>1. Terminated(r)
      BY <2>1
    <3>2. ASSUME NEW k \in 1..(Len(r) - 1), r[k + 1].part = "K\r\n"
          PROVE  \E i \in 1..Len(r) : r[i].part \in Final
      <4>1. k + 1 \in 1..Len(r)
        BY <1>2
      <4>2. QED BY ONLY <3>2, <4>1 DEF Final
    <3>3. \E i \in 1..Len(r) : r[i].part \in Final
      BY ONLY <3>1, <3>2 DEF Terminated, Final
    <3>4. n # 0
      BY ONLY <1>1
    <3>5. QED BY ONLY <2>1, <3>3, <3>4 DEF OldEnd
  <2>3. /\ todo = <<>> /\ sending = <<>>
        /\ \A j \in (i + 1)..Len(Held) : Held[j] = Unsolicited
    BY <1>3, <1>5, <2>1, <2>2 DEF InTime
  <2>4. \A j \in 1..Len(rest) : rest[j] = Unsolicited
    <3>1. \A j \in 1..Len(rest) : Len(r) + j \in (i + 1)..Len(Held)
      BY ONLY <1>2, i \in 1..Len(r)
    <3>2. QED BY ONLY <1>4, <2>3, <3>1
  <2>5. /\ Unsolicited.cmd = -1 /\ Unsolicited.part \notin Final
    BY DEF Unsolicited, Final
  <2>6. \A j \in 1..Len(rest) : rest[j].cmd \in Due \cup {-1} /\ rest[j].part \notin Final
    BY ONLY <2>4, <2>5
  <2>7. \A j \in 1..Len(sending) : sending[j].cmd \in Due
    BY ONLY <1>5, <2>1 DEF InTime
  <2>8. Due' = Due
    BY ONLY <1>1 DEF Due
  <2>9. QED BY ONLY <1>1, <2>3, <2>4, <2>6, <2>7, <2>8 DEF InTime
<1>14. Late'
  <2> SUFFICES ASSUME cut' # -1 PROVE Late'
    BY DEF Late
  <2>1. CASE cut = -1
    <3>1. cut' = (IF n = 1 THEN 0 ELSE n)
      BY ONLY <1>1, <2>1, cut' # -1
    <3>2. cut' <= n /\ n \in cut'..n /\ \A c \in Due : c \in cut'..n
      BY ONLY <1>1, <3>1 DEF Due
    <3>3. \A j \in 1..Len(todo) : todo[j] = n
      <4>1. todo = <<>> \/ todo = <<n>>
        BY ONLY <1>5, <2>1 DEF InTime
      <4>2. QED BY ONLY <4>1
    <3>4. \A j \in 1..Len(sending) : sending[j].cmd \in Due
      BY ONLY <1>5, <2>1 DEF InTime
    <3>5. \A j \in 1..Len(rest) : rest[j].cmd \in Due \cup {-1}
      BY ONLY <1>4, <1>5, <2>1 DEF InTime
    <3>6. QED BY ONLY <1>1, <3>2, <3>3, <3>4, <3>5 DEF Late
  <2>2. CASE cut # -1
    <3>1. cut' = cut
      BY ONLY <1>1, <2>2
    <3>2. \A j \in 1..Len(rest) : rest[j].cmd \in {-1} \cup (cut..n)
      BY ONLY <1>4, <1>5, <2>2 DEF Late
    <3>3. QED BY ONLY <1>1, <1>5, <2>2, <3>1, <3>2 DEF Late
  <2>3. QED BY ONLY <2>1, <2>2
<1>15. QED BY ONLY <1>8, <1>9, <1>10, <1>11, <1>12, <1>13, <1>14 DEF AtIInv

\* When read_ goes on, or the time is over.
LEMMA ReadKeeps == ASSUME AtIInv, Typed, Read PROVE AtIInv'
<1>1. PICK r, rest : Reads(r, rest)
  BY ReadsSome
<1>2. tenth \in 0..Ticks /\ Ticks \in Nat
  BY ModemAtAssumption DEF AtIInv, AtTypeOK
<1>3. CASE Terminated(r) /\ Return(r, FALSE) /\ UNCHANGED tenth
  BY <1>1, <1>2, <1>3, ReturnKeeps
<1>4. CASE tenth = 0 /\ Return(r, TRUE) /\ UNCHANGED tenth
  BY <1>1, <1>2, <1>4, ReturnKeeps
<1>5. CASE /\ tenth > 0 /\ tenth' = tenth - 1 /\ result' = r
           /\ UNCHANGED <<pcA, up, answer, cut, sent>>
  <2>1. /\ Held' = Held /\ UNCHANGED <<pcA, up, n, answer, cut, todo, sending, urcs, sent>>
        /\ result' \in Seq(Piece) /\ input' \in Seq(Piece) /\ pcA = "read"
    BY <1>1, <1>5, ReadsOn
  <2>2. tenth' \in 0..Ticks
    BY <1>2, <1>5
  <2>3. AtTypeOK /\ NothingLost /\ InStep /\ Lives /\ EndsOnce /\ InTime /\ Late
    BY DEF AtIInv
  <2>4. AtTypeOK'
    BY ONLY <2>1, <2>2, <2>3 DEF AtTypeOK
  <2>5. NothingLost'
    <3>1. Typed'
      BY <2>1, <2>2 DEF Typed
    <3>2. answer' \o Held' = sent'
      BY <2>1, <2>3, LostNothing
    <3>3. answer' \in Seq(Piece) /\ result' \in Seq(Piece) /\ input' \in Seq(Piece)
      BY <2>1 DEF Typed
    <3>4. (answer' \o result') \o input' = answer' \o (result' \o input')
      BY ONLY <3>3, ConcatAssociative
    <3>5. QED BY ONLY <3>2, <3>4 DEF NothingLost, Held
  <2>6. InStep' /\ Lives' /\ EndsOnce' /\ Late'
    BY ONLY <2>1, <2>3 DEF InStep, Answered, Lives, EndsOnce, Late
  <2>7. InTime'
    BY ONLY <2>1, <2>3 DEF InTime, Due
  <2>8. QED BY ONLY <2>3, <2>4, <2>5, <2>6, <2>7 DEF AtIInv
<1>6. QED BY <1>1, <1>3, <1>4, <1>5 DEF Reads, Tick

\* When a command is written, or the writing fails.
LEMMA IssueKeeps ==
  ASSUME AtIInv, Typed, Issue, pcA # "read", n < MaxCmd + 2 \/ ~up', n < MaxCmd + 3, up' => up,
         up' \in BOOLEAN,
         UNCHANGED <<answer, cut, sending, urcs, input, sent>>
  PROVE  AtIInv'
<1>1. /\ AtTypeOK /\ NothingLost /\ InStep /\ Lives /\ EndsOnce /\ InTime /\ Late
      /\ n \in Nat /\ MaxCmd \in Nat /\ todo \in Seq(Cmd) /\ Ticks \in Nat
  BY DEF AtIInv, Typed
<1>2. result = <<>> /\ cut \in Nat \cup {-1}
  BY <1>1 DEF Lives, AtTypeOK, Cmd
<1>3. CASE pcA' = "thrown" /\ UNCHANGED <<n, tenth, result, todo>>
  <2>1. AtTypeOK'
    BY <1>1, <1>3 DEF AtTypeOK
  <2>2. Held' = Held /\ Answered' = Answered
    BY <1>3 DEF Held, Answered
  <2>3. NothingLost' /\ InStep' /\ EndsOnce' /\ Late'
    BY <1>1, <1>3, <2>2 DEF NothingLost, InStep, EndsOnce, Late
  <2>4. InTime' /\ Lives'
    BY <1>1, <1>2, <1>3, <2>2 DEF InTime, Lives, Due
  <2>5. QED BY <2>1, <2>3, <2>4 DEF AtIInv
<1>4. CASE /\ n' = n + 1 /\ todo' = Append(todo, n') /\ pcA' = "read" /\ tenth' = Ticks
           /\ result' = <<>>
  <2>1. n + 1 \in Cmd /\ n + 1 \in 0..(MaxCmd + 3)
    BY <1>1 DEF Cmd
  <2>2. /\ todo' \in Seq(Cmd) /\ Len(todo') = Len(todo) + 1 /\ Len(todo) \in Nat
        /\ \A i \in 1..Len(todo) : todo'[i] = todo[i]
        /\ todo'[Len(todo) + 1] = n + 1
        /\ \A i \in 1..(Len(todo) + 1) : i \in 1..Len(todo) \/ i = Len(todo) + 1
    <3>1. todo' = Append(todo, n + 1)
      BY <1>4
    <3>2. QED BY ONLY <1>1, <2>1, <3>1, Appended
  <2>3. AtTypeOK'
    BY <1>1, <1>2, <1>4, <2>1, <2>2 DEF AtTypeOK
  <2>4. Held' = Held /\ Answered' = Answered
    BY <1>1, <1>2, <1>4 DEF Held, Answered
  <2>5. NothingLost' /\ InStep' /\ EndsOnce'
    BY <1>1, <1>2, <1>4, <2>4 DEF NothingLost, InStep, EndsOnce
  <2>6. Lives'
    BY <1>1, <1>4 DEF Lives
  <2>7. InTime'
    <3> SUFFICES ASSUME cut = -1 PROVE InTime'
      BY DEF InTime
    <3>1. /\ todo = <<>>
          /\ \A i \in 1..Len(sending) : sending[i].cmd \in Due'
          /\ \A i \in 1..Len(sending) : sending[i].cmd = 0
          /\ \A i \in 1..Len(Held) : /\ Held[i].cmd \in Due' \cup {-1}
                                     /\ Held[i].part \in Final => Held[i].cmd = 0
      <4>1. CASE n = 0
        <5>1. Due = {0} /\ Due' = {0, 1}
          BY <1>4, <4>1 DEF Due
        <5>2. /\ \A i \in 1..Len(sending) : sending[i].cmd \in Due
              /\ \A i \in 1..Len(Held) : Held[i].cmd \in Due \cup {-1}
              /\ \A i \in 1..Len(Held) : Held[i].part \in Final /\ Held[i].cmd # 0 =>
                   \A j \in (i + 1)..Len(Held) : Held[j] = Unsolicited
          BY <1>1 DEF InTime
        <5>3. ASSUME NEW i \in 1..Len(Held), Held[i].part \in Final PROVE Held[i].cmd = 0
          <6>1. Held[i] \in Piece /\ Held[i].cmd \in {0, -1}
            <7>1. Held \in Seq(Piece)
              BY DEF Typed
            <7>2. Held[i] \in Piece
              BY ONLY <7>1, i \in 1..Len(Held)
            <7>3. Held[i].cmd \in {0, -1}
              BY ONLY <5>1, <5>2, i \in 1..Len(Held)
            <7>4. QED BY <7>2, <7>3
          <6>2. Held[i].cmd = -1 => Held[i].part = "line"
            BY ONLY <1>1, <6>1 DEF Piece, Unsolicited, Cmd
          <6>3. QED BY <5>3, <6>1, <6>2 DEF Final
        <5>4. todo = <<>>
          BY <1>1, <4>1 DEF Lives
        <5>5. QED BY ONLY <5>1, <5>2, <5>3, <5>4
      <4>2. CASE n # 0
        <5>1. todo = <<>> /\ sending = <<>> /\ \A i \in 1..Len(input) : input[i] = Unsolicited
          BY <1>1, <4>2 DEF InTime
        <5>2. Held = input
          BY <1>2, ConcatEmptySeq DEF Held, Typed
        <5>3. Unsolicited.cmd = -1 /\ Unsolicited.part \notin Final
          BY DEF Unsolicited, Final
        <5>4. Len(sending) = 0
          BY ONLY <5>1, EmptySeq
        <5>5. \A i \in 1..Len(sending) : FALSE
          BY ONLY <5>4
        <5>6. QED BY ONLY <5>1, <5>2, <5>3, <5>5
      <4>3. QED BY <4>1, <4>2
    <3>2. todo' = <<n'>>
      BY <1>4, <3>1
    <3>3. UNCHANGED sending /\ pcA' = "read"
      BY <1>4
    <3>4. QED BY ONLY <2>4, <3>1, <3>2, <3>3 DEF InTime
  <2>8. Late'
    <3> SUFFICES ASSUME cut # -1 PROVE Late'
      BY DEF Late
    <3>1. /\ cut <= n
          /\ \A i \in 1..Len(todo) : todo[i] \in cut..n
          /\ \A i \in 1..Len(sending) : sending[i].cmd \in cut..n
          /\ \A i \in 1..Len(Held) : Held[i].cmd \in {-1} \cup (cut..n)
      BY <1>1 DEF Late
    <3>2. /\ cut <= n + 1 /\ n + 1 \in cut..(n + 1)
          /\ \A c \in cut..n : c \in cut..(n + 1)
      BY ONLY <1>1, <1>2, <3>1
    <3>3. \A i \in 1..Len(todo') : todo'[i] \in cut..(n + 1)
      BY ONLY <2>2, <3>1, <3>2
    <3>4. \A i \in 1..Len(Held) : Held[i].cmd \in {-1} \cup (cut..(n + 1))
      BY ONLY <3>1, <3>2
    <3>5. \A i \in 1..Len(sending) : sending[i].cmd \in cut..(n + 1)
      BY ONLY <3>1, <3>2
    <3>6. n' = n + 1 /\ UNCHANGED <<cut, sending>>
      BY <1>4
    <3>7. QED BY ONLY <2>4, <3>2, <3>3, <3>4, <3>5, <3>6 DEF Late
  <2>9. QED BY ONLY <2>3, <2>5, <2>6, <2>7, <2>8 DEF AtIInv
<1>5. QED BY <1>3, <1>4 DEF Issue

\* Each form ends with the part that terminates it, if any does.
LEMMA FormsEnd ==
  ASSUME NEW form \in Forms
  PROVE  /\ form \in Seq(Parts) /\ Len(form) \in Nat
         /\ \A i \in 1..Len(form) : form[i] \in Parts /\ (form[i] \in Final => i = Len(form))
<1>1. CASE form = <<"line", "\r\nO", "K\r\n">>
  BY <1>1 DEF Parts, Final
<1>2. CASE form = <<"\r\nO", "K\r\n">>
  BY <1>2 DEF Parts, Final
<1>3. CASE form = <<"ERROR\n">>
  BY <1>3 DEF Parts, Final
<1>4. CASE form = <<"ERROR\r\n">>
  BY <1>4 DEF Parts, Final
<1>5. QED BY <1>1, <1>2, <1>3, <1>4 DEF Forms

\* When the modem takes up a command.
LEMMA TakeKeeps == ASSUME AtIInv, Typed, M_Take PROVE AtIInv'
<1>1. /\ AtTypeOK /\ NothingLost /\ InStep /\ Lives /\ EndsOnce /\ InTime /\ Late
      /\ n \in Nat /\ todo \in Seq(Cmd)
  BY DEF AtIInv, Typed
<1>2. /\ sending = <<>> /\ todo # <<>> /\ todo' = Tail(todo)
      /\ UNCHANGED <<pcA, up, n, tenth, result, answer, cut, urcs, input, sent>>
  BY DEF M_Take, port
<1> DEFINE c == Head(todo)
<1>3. PICK form \in Forms : sending' = [i \in 1..Len(form) |-> [cmd |-> c, part |-> form[i]]]
  BY DEF M_Take, Marked
<1>4. /\ Len(todo) \in Nat \ {0} /\ c = todo[1] /\ c \in Cmd
      /\ todo' \in Seq(Cmd) /\ Len(todo') = Len(todo) - 1
      /\ \A i \in 1..Len(todo') : todo'[i] = todo[i + 1] /\ i + 1 \in 1..Len(todo)
  BY ONLY <1>1, <1>2, Tailed
<1> HIDE DEF c
<1>5. /\ Len(form) \in Nat
      /\ \A i \in 1..Len(form) : form[i] \in Parts /\ (form[i] \in Final => i = Len(form))
  BY FormsEnd
<1>6. \A i \in 1..Len(form) : [cmd |-> c, part |-> form[i]] \in Piece
  BY ONLY <1>4, <1>5 DEF Piece
<1>7. /\ sending' \in Seq(Piece) /\ Len(sending') = Len(form)
      /\ \A i \in 1..Len(form) : sending'[i].cmd = c /\ sending'[i].part = form[i]
  <2>1. sending' \in [1..Len(form) -> Piece]
    BY ONLY <1>3, <1>6
  <2>2. sending' \in Seq(Piece) /\ Len(sending') = Len(form)
    BY ONLY <1>5, <2>1
  <2>3. \A i \in 1..Len(form) : sending'[i] = [cmd |-> c, part |-> form[i]]
    BY ONLY <1>3
  <2>4. ASSUME NEW i \in 1..Len(form) PROVE sending'[i].cmd = c /\ sending'[i].part = form[i]
    <3>1. sending'[i] = [cmd |-> c, part |-> form[i]]
      BY ONLY <2>3, i \in 1..Len(form)
    <3>2. QED BY <3>1
  <2>5. QED BY ONLY <2>2, <2>4
<1>8. Held' = Held /\ Answered' = Answered
  BY <1>2 DEF Held, Answered
<1>9. AtTypeOK'
  BY <1>1, <1>2, <1>4, <1>7 DEF AtTypeOK
<1>10. NothingLost' /\ InStep' /\ Lives'
  BY <1>1, <1>2, <1>8 DEF NothingLost, InStep, Lives
<1>11. EndsOnce'
  BY ONLY <1>5, <1>7 DEF EndsOnce
<1>12. InTime'
  <2> SUFFICES ASSUME cut = -1 PROVE InTime'
    BY <1>2 DEF InTime
  <2>1. /\ pcA = "read" \/ n = 0
        /\ todo = <<n>>
        /\ \A i \in 1..Len(Held) : /\ Held[i].cmd \in Due \cup {-1}
                                   /\ ~(Held[i].part \in Final /\ Held[i].cmd # 0)
    BY ONLY <1>1, <1>2, cut = -1 DEF InTime
  <2>2. todo' = <<>> /\ c = n
    BY <1>2, <2>1 DEF c
  <2>3. Due' = Due /\ n \in Due /\ \A i \in 1..Len(sending') : sending'[i].cmd \in Due
    BY ONLY <1>2, <1>7, <2>2 DEF Due
  <2>4. n # 0
    BY ONLY <1>1, <1>2 DEF Lives
  <2>5. QED BY ONLY <1>2, <1>8, <2>1, <2>2, <2>3, <2>4 DEF InTime
<1>13. Late'
  <2> SUFFICES ASSUME cut # -1 PROVE Late'
    BY <1>2 DEF Late
  <2>1. /\ cut <= n
        /\ \A i \in 1..Len(todo) : todo[i] \in cut..n
        /\ \A i \in 1..Len(Held) : Held[i].cmd \in {-1} \cup (cut..n)
    BY ONLY <1>1, cut # -1 DEF Late
  <2>2. c \in cut..n
    <3>1. 1 \in 1..Len(todo)
      BY ONLY <1>4
    <3>2. QED BY ONLY <1>4, <2>1, <3>1
  <2>3. \A i \in 1..Len(sending') : sending'[i].cmd \in cut..n
    BY ONLY <1>7, <2>2
  <2>4. \A i \in 1..Len(todo') : todo'[i] \in cut..n
    BY ONLY <1>4, <2>1
  <2>5. QED BY ONLY <1>2, <1>8, <2>1, <2>3, <2>4 DEF Late
<1>14. QED BY ONLY <1>9, <1>10, <1>11, <1>12, <1>13 DEF AtIInv

\* A part that the modem sends: what the tty holds, and what is held, end with it.
LEMMA Arrives ==
  ASSUME Typed, NothingLost, NEW p \in Piece, input' = Append(input, p), sent' = Append(sent, p),
         UNCHANGED <<result, answer>>
  PROVE  /\ input' \in Seq(Piece) /\ sent' \in Seq(Piece) /\ NothingLost'
         /\ Len(Held) \in Nat /\ Len(Held') = Len(Held) + 1
         /\ \A i \in 1..Len(Held) : Held'[i] = Held[i]
         /\ Held'[Len(Held) + 1] = p
         /\ \A i \in 1..(Len(Held) + 1) : i \in 1..Len(Held) \/ i = Len(Held) + 1
<1>1. /\ result \in Seq(Piece) /\ input \in Seq(Piece) /\ answer \in Seq(Piece)
      /\ sent \in Seq(Piece) /\ Held \in Seq(Piece)
  BY DEF Typed
<1>2. Held' = Append(Held, p)
  <2>1. result \o Append(input, p) = Append(result \o input, p)
    BY ONLY <1>1, p \in Piece, AppendsLast
  <2>2. QED BY <2>1 DEF Held
<1>3. input' \in Seq(Piece) /\ sent' \in Seq(Piece)
  BY <1>1
<1>4. NothingLost'
  <2>1. (answer \o result) \o Append(input, p) = Append((answer \o result) \o input, p)
    <3>1. answer \o result \in Seq(Piece)
      BY ONLY <1>1, ConcatProperties
    <3>2. QED BY ONLY <1>1, <3>1, p \in Piece, AppendsLast
  <2>2. QED BY <2>1 DEF NothingLost
<1>5. /\ Len(Append(Held, p)) = Len(Held) + 1 /\ Len(Held) \in Nat
      /\ \A i \in 1..Len(Held) : Append(Held, p)[i] = Held[i]
      /\ Append(Held, p)[Len(Held) + 1] = p
      /\ \A i \in 1..(Len(Held) + 1) : i \in 1..Len(Held) \/ i = Len(Held) + 1
  BY ONLY <1>1, p \in Piece, Appended
<1>6. QED BY ONLY <1>2, <1>3, <1>4, <1>5

\* When the modem sends a part of an answer.
LEMMA SendKeeps == ASSUME AtIInv, Typed, M_Send PROVE AtIInv'
<1>1. /\ AtTypeOK /\ NothingLost /\ InStep /\ Lives /\ EndsOnce /\ InTime /\ Late
      /\ n \in Nat /\ sending \in Seq(Piece)
  BY DEF AtIInv, Typed
<1> DEFINE p == Head(sending)
<1>2. /\ sending # <<>> /\ input' = Append(input, p) /\ sent' = Append(sent, p)
      /\ sending' = Tail(sending)
      /\ UNCHANGED <<pcA, up, n, tenth, result, answer, cut, todo, urcs>>
  BY DEF M_Send, port
<1>3. /\ Len(sending) \in Nat \ {0} /\ p = sending[1] /\ p \in Piece
      /\ sending' \in Seq(Piece) /\ Len(sending') = Len(sending) - 1
      /\ \A i \in 1..Len(sending') : sending'[i] = sending[i + 1] /\ i + 1 \in 1..Len(sending)
  BY ONLY <1>1, <1>2, Tailed
<1> HIDE DEF p
<1>4. /\ input' \in Seq(Piece) /\ sent' \in Seq(Piece) /\ NothingLost'
      /\ Len(Held) \in Nat /\ Len(Held') = Len(Held) + 1
      /\ \A i \in 1..Len(Held) : Held'[i] = Held[i]
      /\ Held'[Len(Held) + 1] = p
      /\ \A i \in 1..(Len(Held) + 1) : i \in 1..Len(Held) \/ i = Len(Held) + 1
  BY <1>1, <1>2, <1>3, Arrives
<1>5. 1 \in 1..Len(sending)
  BY ONLY <1>3
<1>6. AtTypeOK'
  BY <1>1, <1>2, <1>3, <1>4 DEF AtTypeOK
<1>7. InStep' /\ Lives'
  BY ONLY <1>1, <1>2 DEF InStep, Answered, Lives
<1>8. EndsOnce'
  <2> SUFFICES ASSUME NEW i \in 1..Len(sending'), sending'[i].part \in Final
               PROVE  i = Len(sending')
    BY DEF EndsOnce
  <2>1. sending[i + 1].part \in Final /\ i + 1 \in 1..Len(sending)
    BY <1>3
  <2>2. i + 1 = Len(sending)
    BY <1>1, <2>1 DEF EndsOnce
  <2>3. QED BY <1>3, <2>2
<1>9. InTime'
  <2> SUFFICES ASSUME cut = -1 PROVE InTime'
    BY <1>2 DEF InTime
  <2>1. /\ pcA = "read" \/ n = 0
        /\ todo = <<>> \/ (todo = <<n>> /\ \A i \in 1..Len(sending) : sending[i].cmd = 0)
        /\ \A i \in 1..Len(sending) : sending[i].cmd \in Due
        /\ \A i \in 1..Len(Held) : /\ Held[i].cmd \in Due \cup {-1}
                                   /\ ~(Held[i].part \in Final /\ Held[i].cmd # 0)
    BY ONLY <1>1, <1>2, cut = -1 DEF InTime
  <2>2. Due' = Due
    BY ONLY <1>2 DEF Due
  <2>3. /\ \A i \in 1..Len(sending') : sending'[i].cmd \in Due
        /\ todo = <<>> \/ (todo = <<n>> /\ \A i \in 1..Len(sending') : sending'[i].cmd = 0)
    BY ONLY <1>3, <2>1
  <2>4. \A i \in 1..Len(Held') : Held'[i].cmd \in Due \cup {-1}
    <3>1. p.cmd \in Due
      BY ONLY <1>3, <1>5, <2>1
    <3>2. QED BY ONLY <1>4, <2>1, <3>1
  <2>5. ASSUME NEW i \in 1..Len(Held'), Held'[i].part \in Final, Held'[i].cmd # 0
        PROVE  i = Len(Held') /\ sending' = <<>> /\ todo = <<>>
    <3>1. i = Len(Held) + 1
      BY ONLY <1>4, <2>1, <2>5
    <3>2. sending[1].part \in Final /\ sending[1].cmd # 0
      BY ONLY <1>3, <1>4, <2>5, <3>1
    <3>3. Len(sending) = 1
      BY ONLY <1>1, <1>5, <3>2 DEF EndsOnce
    <3>4. Len(sending') = 0
      BY ONLY <1>3, <3>3
    <3>5. sending' = <<>>
      BY ONLY <1>3, <3>4, EmptySeq
    <3>6. todo = <<>>
      BY ONLY <1>5, <2>1, <3>2
    <3>7. QED BY ONLY <1>4, <3>1, <3>5, <3>6
  <2>6. \A i \in 1..Len(Held') : Held'[i].part \in Final /\ Held'[i].cmd # 0 =>
          todo' = <<>> /\ sending' = <<>> /\ \A j \in (i + 1)..Len(Held') : Held'[j] = Unsolicited
    <3>1. (Len(Held') + 1)..Len(Held') = {}
      BY ONLY <1>4
    <3>2. QED BY ONLY <1>2, <2>5, <3>1
  <2>7. QED BY ONLY <1>2, <2>1, <2>2, <2>3, <2>4, <2>6 DEF InTime
<1>10. Late'
  <2> SUFFICES ASSUME cut # -1 PROVE Late'
    BY <1>2 DEF Late
  <2>1. /\ cut <= n
        /\ \A i \in 1..Len(todo) : todo[i] \in cut..n
        /\ \A i \in 1..Len(sending) : sending[i].cmd \in cut..n
        /\ \A i \in 1..Len(Held) : Held[i].cmd \in {-1} \cup (cut..n)
    BY ONLY <1>1, cut # -1 DEF Late
  <2>2. \A i \in 1..Len(sending') : sending'[i].cmd \in cut..n
    BY ONLY <1>3, <2>1
  <2>3. \A i \in 1..Len(Held') : Held'[i].cmd \in {-1} \cup (cut..n)
    BY ONLY <1>3, <1>4, <1>5, <2>1
  <2>4. QED BY ONLY <1>2, <2>1, <2>2, <2>3 DEF Late
<1>11. QED BY ONLY <1>4, <1>6, <1>7, <1>8, <1>9, <1>10 DEF AtIInv

\* When the modem sends an unsolicited line.
LEMMA UrcKeeps == ASSUME AtIInv, Typed, M_Urc PROVE AtIInv'
<1>1. /\ AtTypeOK /\ NothingLost /\ InStep /\ Lives /\ EndsOnce /\ InTime /\ Late /\ n \in Nat
      /\ input \in Seq(Piece) /\ MaxUrc \in Nat
  BY ModemAtAssumption DEF AtIInv, Typed
<1>2. /\ input' = Append(input, Unsolicited) /\ sent' = Append(sent, Unsolicited)
      /\ UNCHANGED <<pcA, up, n, tenth, result, answer, cut, todo, sending>>
      /\ urcs < MaxUrc /\ urcs' = urcs + 1
  BY DEF M_Urc, port
<1>3. /\ Unsolicited \in Piece /\ Unsolicited.cmd = -1 /\ Unsolicited.part \notin Final
  BY DEF Unsolicited, Piece, Parts, Final
<1>4. /\ input' \in Seq(Piece) /\ sent' \in Seq(Piece) /\ NothingLost'
      /\ Len(Held) \in Nat /\ Len(Held') = Len(Held) + 1
      /\ \A i \in 1..Len(Held) : Held'[i] = Held[i]
      /\ Held'[Len(Held) + 1] = Unsolicited
      /\ \A i \in 1..(Len(Held) + 1) : i \in 1..Len(Held) \/ i = Len(Held) + 1
  BY <1>1, <1>2, <1>3, Arrives
<1>5. AtTypeOK'
  <2>1. urcs' \in 0..MaxUrc
    BY ONLY <1>1, <1>2 DEF AtTypeOK
  <2>2. QED BY ONLY <1>1, <1>2, <1>4, <2>1 DEF AtTypeOK
<1>6. InStep' /\ Lives' /\ EndsOnce'
  BY ONLY <1>1, <1>2 DEF InStep, Answered, Lives, EndsOnce
<1>7. InTime'
  <2> SUFFICES ASSUME cut = -1 PROVE InTime'
    BY <1>2 DEF InTime
  <2>1. /\ pcA # "read" /\ n # 0 =>
             todo = <<>> /\ sending = <<>> /\ \A i \in 1..Len(input) : input[i] = Unsolicited
        /\ todo = <<>> \/ (todo = <<n>> /\ \A i \in 1..Len(sending) : sending[i].cmd = 0)
        /\ \A i \in 1..Len(sending) : sending[i].cmd \in Due
        /\ \A i \in 1..Len(Held) : Held[i].cmd \in Due \cup {-1}
        /\ \A i \in 1..Len(Held) : Held[i].part \in Final /\ Held[i].cmd # 0 =>
             todo = <<>> /\ sending = <<>> /\ \A j \in (i + 1)..Len(Held) : Held[j] = Unsolicited
    BY ONLY <1>1, cut = -1 DEF InTime
  <2>2. pcA # "read" /\ n # 0 => \A i \in 1..Len(input') : input'[i] = Unsolicited
    <3>1. /\ Len(input') = Len(input) + 1
          /\ \A i \in 1..Len(input) : input'[i] = input[i]
          /\ input'[Len(input) + 1] = Unsolicited
          /\ \A i \in 1..(Len(input) + 1) : i \in 1..Len(input) \/ i = Len(input) + 1
      BY ONLY <1>1, <1>2, <1>3, Appended
    <3>2. QED BY ONLY <2>1, <3>1
  <2>3. \A i \in 1..Len(Held') : Held'[i].cmd \in Due \cup {-1}
    BY ONLY <1>3, <1>4, <2>1
  <2>4. ASSUME NEW i \in 1..Len(Held'), Held'[i].part \in Final, Held'[i].cmd # 0
        PROVE  /\ todo = <<>> /\ sending = <<>>
               /\ \A j \in (i + 1)..Len(Held') : Held'[j] = Unsolicited
    <3>1. i \in 1..Len(Held) /\ Held[i].part \in Final /\ Held[i].cmd # 0
      BY ONLY <1>3, <1>4, <2>4
    <3>2. /\ todo = <<>> /\ sending = <<>>
          /\ \A j \in (i + 1)..Len(Held) : Held[j] = Unsolicited
      BY ONLY <2>1, <3>1
    <3>3. \A j \in (i + 1)..Len(Held') : j = Len(Held) + 1
                                         \/ (j \in (i + 1)..Len(Held) /\ j \in 1..Len(Held))
      BY ONLY <1>4, <3>1
    <3>4. QED BY ONLY <1>4, <3>2, <3>3
  <2>5. Due' = Due
    BY ONLY <1>2 DEF Due
  <2>6. QED BY ONLY <1>2, <2>1, <2>2, <2>3, <2>4, <2>5 DEF InTime
<1>8. Late'
  BY ONLY <1>1, <1>2, <1>3, <1>4 DEF Late
<1>9. QED BY ONLY <1>4, <1>5, <1>6, <1>7, <1>8 DEF AtIInv

\* Each step keeps the invariant.
LEMMA PortStep == AtIInv /\ [AtNext]_atVars => AtIInv'
<1> SUFFICES ASSUME AtIInv, [AtNext]_atVars PROVE AtIInv'
  OBVIOUS
<1>1. Typed
  BY TypeFacts
<1>2. /\ up \in BOOLEAN /\ n \in Nat /\ MaxCmd \in Nat /\ (up => n <= MaxCmd + 2)
  BY <1>1 DEF Typed, AtIInv, AtTypeOK, Lives
<1>3. CASE W_Constructor
  <2>1. /\ pcA = "open" /\ n < 2 /\ Issue
        /\ UNCHANGED <<up, answer, cut, sending, urcs, input, sent>>
    BY <1>3 DEF W_Constructor
  <2>2. /\ pcA # "read" /\ (n < MaxCmd + 2 \/ ~up') /\ n < MaxCmd + 3 /\ (up' => up)
        /\ up' \in BOOLEAN
    BY ONLY <1>2, <2>1
  <2>3. QED BY <1>1, <2>1, <2>2, IssueKeeps
<1>4. CASE W_AtCmd
  <2>1. /\ pcA = "idle" /\ n < MaxCmd + 2 /\ Issue
        /\ UNCHANGED <<up, answer, cut, sending, urcs, input, sent>>
    BY <1>4 DEF W_AtCmd
  <2>2. /\ pcA # "read" /\ (n < MaxCmd + 2 \/ ~up') /\ n < MaxCmd + 3 /\ (up' => up)
        /\ up' \in BOOLEAN
    BY ONLY <1>2, <2>1
  <2>3. QED BY <1>1, <2>1, <2>2, IssueKeeps
<1>5. CASE W_Destructor
  <2>1. /\ pcA = "idle" /\ up /\ up' = FALSE /\ Issue
        /\ UNCHANGED <<answer, cut, sending, urcs, input, sent>>
    BY <1>5 DEF W_Destructor
  <2>2. /\ pcA # "read" /\ (n < MaxCmd + 2 \/ ~up') /\ n < MaxCmd + 3 /\ (up' => up)
        /\ up' \in BOOLEAN
    <3>1. n <= MaxCmd + 2
      BY <1>2, <2>1, Zenon
    <3>2. n < MaxCmd + 3
      BY ONLY <1>2, <3>1
    <3>3. QED BY <2>1, <3>2, Zenon
  <2>3. QED BY <1>1, <2>1, <2>2, IssueKeeps
<1>6. CASE Read
  BY <1>1, <1>6, ReadKeeps
<1>7. CASE Modem
  BY <1>1, <1>7, TakeKeeps, SendKeeps, UrcKeeps DEF Modem
<1>8. CASE UNCHANGED atVars
  <2>1. UNCHANGED <<pcA, up, n, tenth, result, answer, cut, todo, sending, urcs, input, sent>>
    BY <1>8 DEF atVars, port, modem
  <2>2. Held' = Held /\ Answered' = Answered
    BY <2>1 DEF Held, Answered
  <2>3. AtTypeOK' /\ NothingLost' /\ InStep' /\ Lives' /\ EndsOnce' /\ InTime' /\ Late'
    BY <2>1, <2>2 DEF AtIInv, AtTypeOK, NothingLost, InStep, Lives, EndsOnce, InTime, Late,
       Due
  <2>4. QED BY <2>3 DEF AtIInv
<1>9. QED BY <1>3, <1>4, <1>5, <1>6, <1>7, <1>8 DEF AtNext

\* In every reachable state of the port the invariant holds.
LEMMA PortInvariance == AtSpec => []AtIInv
<1>1. AtInit => AtIInv
  <2> SUFFICES ASSUME AtInit PROVE AtIInv
    OBVIOUS
  <2>1. /\ pcA = "open" /\ up = FALSE /\ n = 0 /\ tenth = 0 /\ result = <<>> /\ answer = <<>>
        /\ cut = -1 /\ todo = <<>> /\ urcs = 0 /\ sent = input
    BY DEF AtInit
  <2>2. <<>> \in Seq(Piece) /\ <<>> \in Seq(Cmd) /\ Len(<<>>) = 0
    BY EmptySeq
  <2>3. input \in Seq(Piece) /\ \A i \in 1..Len(input) : input[i].cmd = 0
    <3>1. PICK k \in 0..MaxOld : input \in [1..k -> [cmd : {0}, part : Parts]]
      BY DEF AtInit
    <3>2. k \in Nat
      BY ModemAtAssumption
    <3>3. \A p \in [cmd : {0}, part : Parts] : p \in Piece /\ p.cmd = 0
      BY DEF Piece
    <3>4. \A i \in 1..k : input[i] \in [cmd : {0}, part : Parts]
      BY <3>1
    <3>5. input \in [1..k -> Piece]
      BY <3>1, <3>3, Zenon
    <3>6. input \in Seq(Piece) /\ Len(input) = k
      BY ONLY <3>2, <3>5
    <3>7. QED BY <3>3, <3>4, <3>6
  <2>4. sending \in Seq(Piece) /\ EndsOnce /\ \A i \in 1..Len(sending) : sending[i].cmd = 0
    <3>1. CASE sending = <<>>
      BY <2>2, <3>1 DEF EndsOnce
    <3>2. CASE sending = Marked(0, <<"K\r\n">>)
      <4>1. sending = <<[cmd |-> 0, part |-> "K\r\n"]>>
        BY <3>2 DEF Marked
      <4>2. [cmd |-> 0, part |-> "K\r\n"] \in Piece
        BY DEF Piece, Parts
      <4>3. QED BY <4>1, <4>2 DEF EndsOnce
    <3>3. CASE sending = Marked(0, <<"\r\nO", "K\r\n">>)
      <4>1. sending = <<[cmd |-> 0, part |-> "\r\nO"], [cmd |-> 0, part |-> "K\r\n"]>>
        BY <3>3 DEF Marked
      <4>2. [cmd |-> 0, part |-> "K\r\n"] \in Piece /\ [cmd |-> 0, part |-> "\r\nO"] \in Piece
        BY DEF Piece, Parts
      <4>3. QED BY <4>1, <4>2 DEF EndsOnce, Final
    <3>4. QED BY <3>1, <3>2, <3>3 DEF AtInit
  <2>5. AtTypeOK
    <3>1. /\ MaxCmd \in Nat /\ Ticks \in Nat /\ MaxUrc \in Nat
          /\ 0 \in 0..(MaxCmd + 3) /\ 0 \in 0..Ticks /\ 0 \in 0..MaxUrc
      BY ModemAtAssumption
    <3>2. QED BY ONLY <2>1, <2>2, <2>3, <2>4, <3>1 DEF AtTypeOK
  <2>6. Held = input /\ NothingLost
    <3>1. <<>> \o <<>> = <<>> /\ <<>> \o input = input
      BY <2>2, <2>3, ConcatEmptySeq
    <3>2. QED BY <2>1, <3>1 DEF Held, NothingLost
  <2>7. InTime
    <3>1. Due = {0}
      BY <2>1 DEF Due
    <3>2. QED BY <2>1, <2>3, <2>4, <2>6, <3>1 DEF InTime
  <2>8. InStep /\ Lives /\ Late
    BY <2>1, <2>2, ModemAtAssumption DEF InStep, Lives, Late
  <2>9. QED BY <2>4, <2>5, <2>6, <2>7, <2>8 DEF AtIInv
<1>2. QED BY <1>1, PortStep, PTL DEF AtSpec

\* The answers returned, what read_ holds and what the tty holds are what was sent.
THEOREM BytesAreKept == AtSpec => []NothingLost
<1>1. AtIInv => NothingLost
  BY DEF AtIInv
<1>2. QED BY <1>1, PortInvariance, PTL

\* Until a read_ gives up or the flush ends with an old answer, an answer belongs to its
\* command; then it may be an earlier one, but none from before the first one given up.
THEOREM AnswersAreInStep == AtSpec => []InStep
<1>1. AtIInv => InStep
  BY DEF AtIInv
<1>2. QED BY <1>1, PortInvariance, PTL

=============================================================================
