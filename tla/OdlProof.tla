------------------------------ MODULE OdlProof ------------------------------
(***************************************************************************)
(* The read/write/flush protocol of Odl.tla for every buffer size, read    *)
(* size and sequence of mode switches: IInv is inductive, and TypeOK,      *)
(* FillsFreePool, FillInBounds and ResetQuiescent follow from it.  One     *)
(* lemma per conjunct of IInv, one step per action.  FirstInv, on top of   *)
(* IInv, gives NothingLost.                                                *)
(***************************************************************************)
EXTENDS Odl, SequenceTheorems, TLAPS

\* What WriteToDisk puts on the card is a unit or garbage.
LEMMA AtType ==
  ASSUME TypeControl, TypePools, TypeData
  PROVE  At(curr_write) \in Nat
<1>1. ptr[curr_write] \in Nat /\ mem[curr_write] \in [1..BufSize -> Nat]
  BY DEF TypeControl, TypePools, TypeData, Pool
<1>2. QED BY <1>1, OdlAssumption DEF OdlAssumption, At, Garbage

\* What fill_pkt_buffer copies: the units of the last read.
LEMMA UnitsType ==
  ASSUME TypeData
  PROVE  Units \in Seq(Nat) /\ Len(Units) = size /\ size \in Nat
<1>1. size \in Nat /\ nextUnit - size \in Nat
  BY OdlAssumption DEF TypeData, OdlAssumption
<1>2. \A i \in 1..size : nextUnit - size + i - 1 \in Nat
  BY <1>1
<1>3. QED BY <1>1, <1>2 DEF Units

\* The initial state satisfies the invariant.
LEMMA InitInv == Init => IInv
<1> SUFFICES ASSUME Init PROVE IInv
  OBVIOUS
<1> USE DEF Init
<1>1. TypeControl
  <2>1. /\ in_read \in BOOLEAN /\ write_in_progress \in BOOLEAN
        /\ sigusr \in BOOLEAN /\ log_to_memory \in BOOLEAN
        /\ refused \in BOOLEAN
    BY Zenon
  <2>2. QED BY <2>1 DEF TypeControl, Pool, None, Modes, ReaderPc, WriterPc,
                        MainPc
<1>2. TypePools
  BY DEF TypePools, Pool, Thread, None
<1>3. TypeData
  <2>1. accepted \in Seq(Nat) /\ written \in Seq(Nat)
    OBVIOUS
  <2>2. mem \in [Pool -> [1..BufSize -> Nat]]
    BY DEF Garbage
  <2>3. size \in 0..MaxRead /\ overrun \in BOOLEAN
    <3>1. size \in 0..MaxRead
      BY OdlAssumption DEF OdlAssumption
    <3>2. QED BY <3>1, Zenon
  <2>4. QED BY <2>1, <2>2, <2>3 DEF TypeData, Garbage
<1>4. Handshake /\ WriterLife
  BY DEF Handshake, WriterLife, Drained, None
<1>5. Locks /\ FreePools
  BY DEF Locks, FreePools, None, WriterHolds
<1>6. Bounded
  BY OdlAssumption DEF Bounded, OdlAssumption
<1>7. QED BY <1>1, <1>2, <1>3, <1>4, <1>5, <1>6 DEF IInv, TypeOK

\* Type correctness of the control variables: flush_log stays in 0..3 because
\* the handshake allows exactly one increment per thread.
LEMMA TypeControlStep == IInv /\ [Next]_vars => TypeControl'
<1> SUFFICES ASSUME IInv, [Next]_vars PROVE TypeControl'
  OBVIOUS
<1> USE OdlAssumption DEF IInv, TypeOK, TypeControl, Handshake, Modes, Pool,
    None, ReaderPc, WriterPc, MainPc, OdlAssumption, vars, pools, locks,
    modes, input, history, flags
<1>1. CASE R_Test
  BY <1>1 DEF R_Test
<1>2. CASE R_Enter
  BY <1>2 DEF R_Enter
<1>3. CASE R_ReadPkt
  <2>1. in_read' \in BOOLEAN /\ sigusr' \in BOOLEAN
    BY <1>3, Zenon DEF R_ReadPkt, Returns
  <2>2. QED BY <1>3, <2>1 DEF R_ReadPkt, Returns
<1>4. CASE R_ReadOther
  <2>1. in_read' \in BOOLEAN /\ sigusr' \in BOOLEAN
    BY <1>4, Zenon DEF R_ReadOther, Returns
  <2>2. QED BY <1>4, <2>1 DEF R_ReadOther, Returns
<1>5. CASE R_Check
  BY <1>5 DEF R_Check
<1>6. CASE R_LockW
  BY <1>6 DEF R_LockW
<1>7. CASE R_LockR
  BY <1>7 DEF R_LockR
<1>8. CASE R_Woken
  BY <1>8 DEF R_Woken
<1>9. CASE R_Relock
  BY <1>9 DEF R_Relock
<1>10. CASE R_Fill
  BY <1>10 DEF R_Fill, SignalWrite, buffer_full
<1>11. CASE R_Drain
  BY <1>11 DEF R_Drain
<1>12. CASE R_Mark
  BY <1>12 DEF R_Mark
<1>13. CASE R_DrainLock
  BY <1>13 DEF R_DrainLock
<1>14. CASE R_Announce
  BY <1>14 DEF R_Announce, SignalWrite
<1>15. CASE R_Flip
  BY <1>15 DEF R_Flip
<1>16. CASE R_Park
  BY <1>16 DEF R_Park
<1>17. CASE W_Lock
  BY <1>17 DEF W_Lock
<1>18. CASE W_Woken
  BY <1>18 DEF W_Woken
<1>19. CASE W_Begin
  BY <1>19 DEF W_Begin
<1>20. CASE W_Chunk
  BY <1>20 DEF W_Chunk
<1>21. CASE W_Written
  <2>1. write_in_progress' \in BOOLEAN
    BY <1>21, Zenon DEF W_Written
  <2>2. QED BY <1>21, <2>1 DEF W_Written
<1>22. CASE W_Free
  BY <1>22 DEF W_Free
<1>23. CASE W_Clear
  BY <1>23 DEF W_Clear
<1>24. CASE W_Exit
  BY <1>24 DEF W_Exit
<1>25. CASE W_Signal
  BY <1>25 DEF W_Signal
<1>26. CASE R_Call \/ R_End
  <2>1. in_read' \in BOOLEAN /\ sigusr' \in BOOLEAN
    BY <1>26, Zenon DEF R_Call, R_End, Returns
  <2>2. QED BY <1>26, <2>1 DEF R_Call, R_End, Returns
<1>27. CASE M_Flush
  BY <1>27 DEF M_Flush
<1>28. CASE M_Kick
  BY <1>28 DEF M_Kick
<1>29. CASE M_Reset
  <2>1. write_in_progress' \in BOOLEAN /\ in_read' \in BOOLEAN
    BY <1>29, Zenon DEF M_Reset
  <2>2. QED BY <1>29, <2>1 DEF M_Reset, FlushDone
<1>30. CASE M_Setup
  BY <1>30 DEF M_Setup
<1>31. CASE M_Ioctl
  <2>1. refused' \in BOOLEAN
    BY <1>31, Zenon DEF M_Ioctl
  <2>2. QED BY <1>31, <2>1 DEF M_Ioctl
<1>32. CASE M_Resume
  BY <1>32 DEF M_Resume
<1>33. CASE M_Assign
  BY <1>33 DEF M_Assign
<1>34. CASE \E mode \in Targets : M_Switch(mode)
  BY <1>34 DEF M_Switch
<1>35. CASE UNCHANGED vars
  BY <1>35
<1>36. QED BY <1>1, <1>2, <1>3, <1>4, <1>5, <1>6, <1>7, <1>8, <1>9, <1>10,
          <1>11, <1>12, <1>13, <1>14, <1>15, <1>16, <1>17, <1>18, <1>19,
          <1>20, <1>21, <1>22, <1>23, <1>24, <1>25, <1>26, <1>27, <1>28,
          <1>29, <1>30, <1>31, <1>32, <1>33, <1>34, <1>35 DEF Next, Reader,
          Writer, Main

\* Type correctness of the pools' bookkeeping and mutexes.
LEMMA TypePoolsStep == IInv /\ [Next]_vars => TypePools'
<1> SUFFICES ASSUME IInv, [Next]_vars PROVE TypePools'
  OBVIOUS
<1> USE DEF IInv, TypeOK, TypeControl, TypePools, Pool, Thread, None, vars,
    pools, locks, modes, input, history, flags
<1>1. CASE R_Test
  BY <1>1 DEF R_Test
<1>2. CASE R_Enter
  BY <1>2 DEF R_Enter
<1>3. CASE R_ReadPkt
  BY <1>3 DEF R_ReadPkt, Returns
<1>4. CASE R_ReadOther
  BY <1>4 DEF R_ReadOther, Returns
<1>5. CASE R_Check
  BY <1>5 DEF R_Check
<1>6. CASE R_LockW
  BY <1>6 DEF R_LockW
<1>7. CASE R_LockR
  BY <1>7 DEF R_LockR
<1>8. CASE R_Woken
  BY <1>8 DEF R_Woken
<1>9. CASE R_Relock
  BY <1>9 DEF R_Relock
<1>10. CASE R_Fill
  <2>1. free' \in [Pool -> BOOLEAN]
    <3>1. free' = free \/ free' = [free EXCEPT ![curr_read] = FALSE]
      BY <1>10, Zenon DEF R_Fill
    <3>2. QED BY <3>1
  <2>2. ready' \in [Pool -> BOOLEAN]
    <3>1. ready' = ready \/ ready' = [ready EXCEPT ![curr_read] = TRUE]
      BY <1>10, Zenon DEF R_Fill
    <3>2. QED BY <3>1
  <2>3. wm' \in [Pool -> Thread \union {None}]
    <3>1. wm' = [wm EXCEPT ![curr_read] = None]
      BY <1>10, Zenon DEF R_Fill
    <3>2. QED BY <3>1
  <2>4. bytes' \in [Pool -> Nat]
    <3>1. bytes' = [bytes EXCEPT ![curr_read] = bytes[curr_read] + size]
      BY <1>10, Zenon DEF R_Fill
    <3>2. QED BY <3>1 DEF TypeData
  <2>5. \/ ptr' = [ptr EXCEPT ![curr_read] = 0]
        \/ ptr' = [ptr EXCEPT ![curr_read] = ptr[curr_read] + size]
    BY <1>10, Zenon DEF R_Fill
  <2>6. ptr' \in [Pool -> Nat]
    BY <2>5 DEF TypeData
  <2>7. QED BY <1>10, <2>1, <2>2, <2>3, <2>4, <2>6 DEF R_Fill
<1>11. CASE R_Drain
  BY <1>11 DEF R_Drain
<1>12. CASE R_Mark
  BY <1>12 DEF R_Mark
<1>13. CASE R_DrainLock
  BY <1>13 DEF R_DrainLock
<1>14. CASE R_Announce
  BY <1>14 DEF R_Announce, SignalWrite
<1>15. CASE R_Flip
  BY <1>15 DEF R_Flip
<1>16. CASE R_Park
  BY <1>16 DEF R_Park
<1>17. CASE W_Lock
  BY <1>17 DEF W_Lock
<1>18. CASE W_Woken
  BY <1>18 DEF W_Woken
<1>19. CASE W_Begin
  BY <1>19 DEF W_Begin
<1>20. CASE W_Chunk
  BY <1>20 DEF W_Chunk
<1>21. CASE W_Written
  BY <1>21 DEF W_Written
<1>22. CASE W_Free
  BY <1>22 DEF W_Free
<1>23. CASE W_Clear
  BY <1>23 DEF W_Clear
<1>24. CASE W_Exit
  BY <1>24 DEF W_Exit
<1>25. CASE W_Signal
  BY <1>25 DEF W_Signal
<1>26. CASE R_Call \/ R_End
  BY <1>26 DEF R_Call, R_End, Returns
<1>27. CASE M_Flush
  BY <1>27 DEF M_Flush
<1>28. CASE M_Kick
  BY <1>28 DEF M_Kick
<1>29. CASE M_Reset
  BY <1>29 DEF M_Reset, FlushDone
<1>30. CASE M_Setup
  BY <1>30 DEF M_Setup
<1>31. CASE M_Ioctl
  BY <1>31 DEF M_Ioctl
<1>32. CASE M_Resume
  BY <1>32 DEF M_Resume
<1>33. CASE M_Assign
  BY <1>33 DEF M_Assign
<1>34. CASE \E mode \in Targets : M_Switch(mode)
  BY <1>34 DEF M_Switch
<1>35. CASE UNCHANGED vars
  BY <1>35
<1>36. QED BY <1>1, <1>2, <1>3, <1>4, <1>5, <1>6, <1>7, <1>8, <1>9, <1>10,
          <1>11, <1>12, <1>13, <1>14, <1>15, <1>16, <1>17, <1>18, <1>19,
          <1>20, <1>21, <1>22, <1>23, <1>24, <1>25, <1>26, <1>27, <1>28,
          <1>29, <1>30, <1>31, <1>32, <1>33, <1>34, <1>35 DEF Next, Reader,
          Writer, Main

\* Type correctness of packets, buffer contents and histories.
LEMMA TypeDataStep == IInv /\ [Next]_vars => TypeData'
<1> SUFFICES ASSUME IInv, [Next]_vars PROVE TypeData'
  OBVIOUS
<1> USE DEF IInv, TypeOK, TypeControl, TypePools, TypeData, Pool, Garbage,
    vars, pools, locks, modes, input, history, flags
<1>1. CASE R_Test
  BY <1>1 DEF R_Test
<1>2. CASE R_Enter
  BY <1>2 DEF R_Enter
<1>3. CASE R_ReadPkt
  BY <1>3, OdlAssumption DEF R_ReadPkt, Returns, OdlAssumption
<1>4. CASE R_ReadOther
  BY <1>4, OdlAssumption DEF R_ReadOther, Returns, OdlAssumption
<1>5. CASE R_Check
  BY <1>5 DEF R_Check
<1>6. CASE R_LockW
  BY <1>6 DEF R_LockW
<1>7. CASE R_LockR
  BY <1>7 DEF R_LockR
<1>8. CASE R_Woken
  BY <1>8 DEF R_Woken
<1>9. CASE R_Relock
  BY <1>9 DEF R_Relock
<1>10. CASE R_Fill
  <2>1. mem' \in [Pool -> [1..BufSize -> Nat]]
    <3> DEFINE NewMem(p) == [i \in 1..BufSize |->
                 IF ptr[p] < i /\ i <= ptr[p] + size THEN Units[i - ptr[p]] ELSE mem[p][i]]
    <3>1. curr_read \in Pool /\ mem' = [mem EXCEPT ![curr_read] = NewMem(curr_read)]
      BY <1>10 DEF R_Fill, fill_pkt_buffer
    <3>2. ASSUME NEW p \in Pool, NEW i \in 1..BufSize
          PROVE  (IF ptr[p] < i /\ i <= ptr[p] + size THEN Units[i - ptr[p]] ELSE mem[p][i]) \in Nat
      <4>1. ptr[p] \in Nat /\ mem[p][i] \in Nat
        OBVIOUS
      <4>2. CASE ptr[p] < i /\ i <= ptr[p] + size
        <5>1. i - ptr[p] \in 1..size
          BY <4>1, <4>2
        <5>2. QED BY <4>2, <5>1, UnitsType, ElementOfSeq
      <4>3. QED BY <4>1, <4>2
    <3>3. ASSUME NEW p \in Pool PROVE NewMem(p) \in [1..BufSize -> Nat]
      BY <3>2
    <3> HIDE DEF NewMem
    <3>4. QED BY <3>1, <3>3
  <2>2. accepted' \in Seq(Nat)
    BY <1>10, UnitsType, ConcatProperties DEF R_Fill
  <2>3. overrun' \in BOOLEAN
    BY <1>10, Zenon DEF R_Fill
  <2>4. QED BY <1>10, <2>1, <2>2, <2>3 DEF R_Fill
<1>11. CASE R_Drain
  BY <1>11 DEF R_Drain
<1>12. CASE R_Mark
  BY <1>12 DEF R_Mark
<1>13. CASE R_DrainLock
  BY <1>13 DEF R_DrainLock
<1>14. CASE R_Announce
  BY <1>14 DEF R_Announce, SignalWrite
<1>15. CASE R_Flip
  BY <1>15 DEF R_Flip
<1>16. CASE R_Park
  BY <1>16 DEF R_Park
<1>17. CASE W_Lock
  BY <1>17 DEF W_Lock
<1>18. CASE W_Woken
  BY <1>18 DEF W_Woken
<1>19. CASE W_Begin
  BY <1>19 DEF W_Begin
<1>20. CASE W_Chunk
  <2>1. Append(written, At(curr_write)) \in Seq(Nat)
    BY AtType, AppendProperties
  <2>2. written' \in Seq(Nat)
    BY <1>20, <2>1 DEF W_Chunk
  <2>3. QED BY <1>20, <2>2 DEF W_Chunk
<1>21. CASE W_Written
  BY <1>21 DEF W_Written
<1>22. CASE W_Free
  BY <1>22 DEF W_Free
<1>23. CASE W_Clear
  BY <1>23 DEF W_Clear
<1>24. CASE W_Exit
  BY <1>24 DEF W_Exit
<1>25. CASE W_Signal
  BY <1>25 DEF W_Signal
<1>26. CASE R_Call \/ R_End
  <2>1. CASE R_Call
    BY <2>1 DEF R_Call
  <2>2. CASE R_End
    BY <2>2, OdlAssumption DEF R_End, Returns, OdlAssumption
  <2>3. QED BY <1>26, <2>1, <2>2
<1>27. CASE M_Flush
  BY <1>27 DEF M_Flush
<1>28. CASE M_Kick
  BY <1>28 DEF M_Kick
<1>29. CASE M_Reset
  BY <1>29 DEF M_Reset, FlushDone
<1>30. CASE M_Setup
  BY <1>30 DEF M_Setup
<1>31. CASE M_Ioctl
  BY <1>31 DEF M_Ioctl
<1>32. CASE M_Resume
  BY <1>32 DEF M_Resume
<1>33. CASE M_Assign
  BY <1>33 DEF M_Assign
<1>34. CASE \E mode \in Targets : M_Switch(mode)
  BY <1>34 DEF M_Switch
<1>35. CASE UNCHANGED vars
  BY <1>35
<1>36. QED BY <1>1, <1>2, <1>3, <1>4, <1>5, <1>6, <1>7, <1>8, <1>9, <1>10,
          <1>11, <1>12, <1>13, <1>14, <1>15, <1>16, <1>17, <1>18, <1>19,
          <1>20, <1>21, <1>22, <1>23, <1>24, <1>25, <1>26, <1>27, <1>28,
          <1>29, <1>30, <1>31, <1>32, <1>33, <1>34, <1>35 DEF Next, Reader,
          Writer, Main

\* The two increments of flush_log happen once each, in order, per flush.
LEMMA HandshakeStep == IInv /\ [Next]_vars => Handshake'
<1> SUFFICES ASSUME IInv, [Next]_vars PROVE Handshake'
  OBVIOUS
<1> USE DEF IInv, TypeOK, TypeControl, Handshake, WriterLife, Drained,
    ReaderPc, WriterPc, MainPc, None, vars, pools, locks, modes,
    input, history, flags
<1>1. CASE R_Test
  BY <1>1 DEF R_Test
<1>2. CASE R_Enter
  BY <1>2 DEF R_Enter
<1>3. CASE R_ReadPkt
  BY <1>3 DEF R_ReadPkt, Returns
<1>4. CASE R_ReadOther
  BY <1>4 DEF R_ReadOther, Returns
<1>5. CASE R_Check
  BY <1>5 DEF R_Check
<1>6. CASE R_LockW
  BY <1>6 DEF R_LockW
<1>7. CASE R_LockR
  BY <1>7 DEF R_LockR
<1>8. CASE R_Woken
  BY <1>8 DEF R_Woken
<1>9. CASE R_Relock
  BY <1>9 DEF R_Relock
<1>10. CASE R_Fill
  BY <1>10 DEF R_Fill, SignalWrite, buffer_full
<1>11. CASE R_Drain
  BY <1>11 DEF R_Drain
<1>12. CASE R_Mark
  BY <1>12 DEF R_Mark
<1>13. CASE R_DrainLock
  BY <1>13 DEF R_DrainLock
<1>14. CASE R_Announce
  BY <1>14 DEF R_Announce, SignalWrite
<1>15. CASE R_Flip
  BY <1>15 DEF R_Flip
<1>16. CASE R_Park
  BY <1>16 DEF R_Park
<1>17. CASE W_Lock
  BY <1>17 DEF W_Lock
<1>18. CASE W_Woken
  BY <1>18 DEF W_Woken
<1>19. CASE W_Begin
  BY <1>19 DEF W_Begin
<1>20. CASE W_Chunk
  BY <1>20 DEF W_Chunk
<1>21. CASE W_Written
  BY <1>21 DEF W_Written
<1>22. CASE W_Free
  BY <1>22 DEF W_Free
<1>23. CASE W_Clear
  BY <1>23 DEF W_Clear
<1>24. CASE W_Exit
  BY <1>24 DEF W_Exit
<1>25. CASE W_Signal
  BY <1>25 DEF W_Signal
<1>26. CASE R_Call \/ R_End
  BY <1>26 DEF R_Call, R_End, Returns
<1>27. CASE M_Flush
  BY <1>27 DEF M_Flush
<1>28. CASE M_Kick
  BY <1>28 DEF M_Kick
<1>29. CASE M_Reset
  BY <1>29 DEF M_Reset, FlushDone
<1>30. CASE M_Setup
  BY <1>30 DEF M_Setup
<1>31. CASE M_Ioctl
  BY <1>31 DEF M_Ioctl
<1>32. CASE M_Resume
  BY <1>32 DEF M_Resume
<1>33. CASE M_Assign
  BY <1>33 DEF M_Assign
<1>34. CASE \E mode \in Targets : M_Switch(mode)
  BY <1>34 DEF M_Switch
<1>35. CASE UNCHANGED vars
  BY <1>35
<1>36. QED BY <1>1, <1>2, <1>3, <1>4, <1>5, <1>6, <1>7, <1>8, <1>9, <1>10,
          <1>11, <1>12, <1>13, <1>14, <1>15, <1>16, <1>17, <1>18, <1>19,
          <1>20, <1>21, <1>22, <1>23, <1>24, <1>25, <1>26, <1>27, <1>28,
          <1>29, <1>30, <1>31, <1>32, <1>33, <1>34, <1>35 DEF Next, Reader,
          Writer, Main

\* A flush is only ever started while a write thread exists.
LEMMA WriterLifeStep == IInv /\ [Next]_vars => WriterLife'
<1> SUFFICES ASSUME IInv, [Next]_vars PROVE WriterLife'
  OBVIOUS
<1> USE DEF IInv, TypeOK, TypeControl, Handshake, WriterLife, MainPc,
    WriterPc, None, vars, pools, locks, modes, input, history, flags
<1>1. CASE R_Test
  BY <1>1 DEF R_Test
<1>2. CASE R_Enter
  BY <1>2 DEF R_Enter
<1>3. CASE R_ReadPkt
  BY <1>3 DEF R_ReadPkt, Returns
<1>4. CASE R_ReadOther
  BY <1>4 DEF R_ReadOther, Returns
<1>5. CASE R_Check
  BY <1>5 DEF R_Check
<1>6. CASE R_LockW
  BY <1>6 DEF R_LockW
<1>7. CASE R_LockR
  BY <1>7 DEF R_LockR
<1>8. CASE R_Woken
  BY <1>8 DEF R_Woken
<1>9. CASE R_Relock
  BY <1>9 DEF R_Relock
<1>10. CASE R_Fill
  BY <1>10 DEF R_Fill, SignalWrite, buffer_full
<1>11. CASE R_Drain
  BY <1>11 DEF R_Drain
<1>12. CASE R_Mark
  BY <1>12 DEF R_Mark
<1>13. CASE R_DrainLock
  BY <1>13 DEF R_DrainLock
<1>14. CASE R_Announce
  BY <1>14 DEF R_Announce, SignalWrite
<1>15. CASE R_Flip
  BY <1>15 DEF R_Flip
<1>16. CASE R_Park
  BY <1>16 DEF R_Park
<1>17. CASE W_Lock
  BY <1>17 DEF W_Lock
<1>18. CASE W_Woken
  BY <1>18 DEF W_Woken
<1>19. CASE W_Begin
  BY <1>19 DEF W_Begin
<1>20. CASE W_Chunk
  BY <1>20 DEF W_Chunk
<1>21. CASE W_Written
  BY <1>21 DEF W_Written
<1>22. CASE W_Free
  BY <1>22 DEF W_Free
<1>23. CASE W_Clear
  BY <1>23 DEF W_Clear
<1>24. CASE W_Exit
  BY <1>24 DEF W_Exit
<1>25. CASE W_Signal
  BY <1>25 DEF W_Signal
<1>26. CASE R_Call \/ R_End
  BY <1>26 DEF R_Call, R_End, Returns
<1>27. CASE M_Flush
  BY <1>27 DEF M_Flush
<1>28. CASE M_Kick
  BY <1>28 DEF M_Kick
<1>29. CASE M_Reset
  BY <1>29 DEF M_Reset, FlushDone
<1>30. CASE M_Setup
  BY <1>30 DEF M_Setup
<1>31. CASE M_Ioctl
  BY <1>31 DEF M_Ioctl
<1>32. CASE M_Resume
  BY <1>32 DEF M_Resume
<1>33. CASE M_Assign
  BY <1>33 DEF M_Assign
<1>34. CASE \E mode \in Targets : M_Switch(mode)
  BY <1>34 DEF M_Switch
<1>35. CASE UNCHANGED vars
  BY <1>35
<1>36. QED BY <1>1, <1>2, <1>3, <1>4, <1>5, <1>6, <1>7, <1>8, <1>9, <1>10,
          <1>11, <1>12, <1>13, <1>14, <1>15, <1>16, <1>17, <1>18, <1>19,
          <1>20, <1>21, <1>22, <1>23, <1>24, <1>25, <1>26, <1>27, <1>28,
          <1>29, <1>30, <1>31, <1>32, <1>33, <1>34, <1>35 DEF Next, Reader,
          Writer, Main

\* The pc of a thread determines the mutexes it holds.
LEMMA LocksStep == IInv /\ [Next]_vars => Locks'
<1> SUFFICES ASSUME IInv, [Next]_vars PROVE Locks'
  OBVIOUS
<1> USE DEF IInv, TypeOK, TypeControl, TypePools, Handshake, WriterLife,
    Locks, Pool, Thread, None, WriterHolds, Drained, vars, pools, locks,
    modes, input, history, flags
<1>1. CASE R_Test
  BY <1>1 DEF R_Test
<1>2. CASE R_Enter
  BY <1>2 DEF R_Enter
<1>3. CASE R_ReadPkt
  BY <1>3 DEF R_ReadPkt, Returns
<1>4. CASE R_ReadOther
  BY <1>4 DEF R_ReadOther, Returns
<1>5. CASE R_Check
  BY <1>5 DEF R_Check
<1>6. CASE R_LockW
  BY <1>6 DEF R_LockW
<1>7. CASE R_LockR
  BY <1>7 DEF R_LockR
<1>8. CASE R_Woken
  BY <1>8 DEF R_Woken
<1>9. CASE R_Relock
  BY <1>9 DEF R_Relock
<1>10. CASE R_Fill
  BY <1>10 DEF R_Fill, SignalWrite, buffer_full
<1>11. CASE R_Drain
  BY <1>11 DEF R_Drain
<1>12. CASE R_Mark
  BY <1>12 DEF R_Mark
<1>13. CASE R_DrainLock
  BY <1>13 DEF R_DrainLock
<1>14. CASE R_Announce
  BY <1>14 DEF R_Announce, SignalWrite
<1>15. CASE R_Flip
  BY <1>15 DEF R_Flip
<1>16. CASE R_Park
  BY <1>16 DEF R_Park
<1>17. CASE W_Lock
  BY <1>17 DEF W_Lock
<1>18. CASE W_Woken
  BY <1>18 DEF W_Woken
<1>19. CASE W_Begin
  BY <1>19 DEF W_Begin
<1>20. CASE W_Chunk
  BY <1>20 DEF W_Chunk
<1>21. CASE W_Written
  BY <1>21 DEF W_Written
<1>22. CASE W_Free
  BY <1>22 DEF W_Free
<1>23. CASE W_Clear
  BY <1>23 DEF W_Clear
<1>24. CASE W_Exit
  BY <1>24 DEF W_Exit
<1>25. CASE W_Signal
  BY <1>25 DEF W_Signal
<1>26. CASE R_Call \/ R_End
  BY <1>26 DEF R_Call, R_End, Returns
<1>27. CASE M_Flush
  BY <1>27 DEF M_Flush
<1>28. CASE M_Kick
  BY <1>28 DEF M_Kick
<1>29. CASE M_Reset
  BY <1>29 DEF M_Reset, FlushDone
<1>30. CASE M_Setup
  BY <1>30 DEF M_Setup
<1>31. CASE M_Ioctl
  BY <1>31 DEF M_Ioctl
<1>32. CASE M_Resume
  BY <1>32 DEF M_Resume
<1>33. CASE M_Assign
  BY <1>33 DEF M_Assign
<1>34. CASE \E mode \in Targets : M_Switch(mode)
  BY <1>34 DEF M_Switch
<1>35. CASE UNCHANGED vars
  BY <1>35
<1>36. QED BY <1>1, <1>2, <1>3, <1>4, <1>5, <1>6, <1>7, <1>8, <1>9, <1>10,
          <1>11, <1>12, <1>13, <1>14, <1>15, <1>16, <1>17, <1>18, <1>19,
          <1>20, <1>21, <1>22, <1>23, <1>24, <1>25, <1>26, <1>27, <1>28,
          <1>29, <1>30, <1>31, <1>32, <1>33, <1>34, <1>35 DEF Next, Reader,
          Writer, Main

\* The pool to be filled is free.
LEMMA FreePoolsStep == IInv /\ [Next]_vars => FreePools'
<1> SUFFICES ASSUME IInv, [Next]_vars PROVE FreePools'
  OBVIOUS
<1> USE DEF IInv, TypeOK, TypeControl, TypePools, Handshake, WriterLife,
    Locks, FreePools, Pool, Thread, None, WriterHolds, Drained, vars, pools,
    locks, modes, input, history, flags
<1>1. CASE R_Test
  BY <1>1 DEF R_Test
<1>2. CASE R_Enter
  BY <1>2 DEF R_Enter
<1>3. CASE R_ReadPkt
  BY <1>3 DEF R_ReadPkt, Returns
<1>4. CASE R_ReadOther
  BY <1>4 DEF R_ReadOther, Returns
<1>5. CASE R_Check
  BY <1>5 DEF R_Check
<1>6. CASE R_LockW
  BY <1>6 DEF R_LockW
<1>7. CASE R_LockR
  BY <1>7 DEF R_LockR
<1>8. CASE R_Woken
  BY <1>8 DEF R_Woken
<1>9. CASE R_Relock
  BY <1>9 DEF R_Relock
<1>10. CASE R_Fill
  BY <1>10 DEF R_Fill, SignalWrite, buffer_full
<1>11. CASE R_Drain
  BY <1>11 DEF R_Drain
<1>12. CASE R_Mark
  BY <1>12 DEF R_Mark
<1>13. CASE R_DrainLock
  BY <1>13 DEF R_DrainLock
<1>14. CASE R_Announce
  BY <1>14 DEF R_Announce, SignalWrite
<1>15. CASE R_Flip
  BY <1>15 DEF R_Flip
<1>16. CASE R_Park
  BY <1>16 DEF R_Park
<1>17. CASE W_Lock
  BY <1>17 DEF W_Lock
<1>18. CASE W_Woken
  BY <1>18 DEF W_Woken
<1>19. CASE W_Begin
  BY <1>19 DEF W_Begin
<1>20. CASE W_Chunk
  BY <1>20 DEF W_Chunk
<1>21. CASE W_Written
  BY <1>21 DEF W_Written
<1>22. CASE W_Free
  BY <1>22 DEF W_Free
<1>23. CASE W_Clear
  BY <1>23 DEF W_Clear
<1>24. CASE W_Exit
  BY <1>24 DEF W_Exit
<1>25. CASE W_Signal
  BY <1>25 DEF W_Signal
<1>26. CASE R_Call \/ R_End
  BY <1>26 DEF R_Call, R_End, Returns
<1>27. CASE M_Flush
  BY <1>27 DEF M_Flush
<1>28. CASE M_Kick
  BY <1>28 DEF M_Kick
<1>29. CASE M_Reset
  BY <1>29 DEF M_Reset, FlushDone
<1>30. CASE M_Setup
  BY <1>30 DEF M_Setup
<1>31. CASE M_Ioctl
  BY <1>31 DEF M_Ioctl
<1>32. CASE M_Resume
  BY <1>32 DEF M_Resume
<1>33. CASE M_Assign
  BY <1>33 DEF M_Assign
<1>34. CASE \E mode \in Targets : M_Switch(mode)
  BY <1>34 DEF M_Switch
<1>35. CASE UNCHANGED vars
  BY <1>35
<1>36. QED BY <1>1, <1>2, <1>3, <1>4, <1>5, <1>6, <1>7, <1>8, <1>9, <1>10,
          <1>11, <1>12, <1>13, <1>14, <1>15, <1>16, <1>17, <1>18, <1>19,
          <1>20, <1>21, <1>22, <1>23, <1>24, <1>25, <1>26, <1>27, <1>28,
          <1>29, <1>30, <1>31, <1>32, <1>33, <1>34, <1>35 DEF Next, Reader,
          Writer, Main

\* The fill position stays below the threshold.
LEMMA BoundedStep == IInv /\ [Next]_vars => Bounded'
<1> SUFFICES ASSUME IInv, [Next]_vars PROVE Bounded'
  OBVIOUS
<1> USE OdlAssumption DEF IInv, TypeOK, TypeControl, TypePools, Handshake,
    WriterLife, Bounded, Pool, None, OdlAssumption, vars, pools, locks,
    modes, input, history, flags
<1>1. CASE R_Test
  BY <1>1 DEF R_Test
<1>2. CASE R_Enter
  BY <1>2 DEF R_Enter
<1>3. CASE R_ReadPkt
  BY <1>3 DEF R_ReadPkt, Returns
<1>4. CASE R_ReadOther
  BY <1>4 DEF R_ReadOther, Returns
<1>5. CASE R_Check
  BY <1>5 DEF R_Check
<1>6. CASE R_LockW
  BY <1>6 DEF R_LockW
<1>7. CASE R_LockR
  BY <1>7 DEF R_LockR
<1>8. CASE R_Woken
  BY <1>8 DEF R_Woken
<1>9. CASE R_Relock
  BY <1>9 DEF R_Relock
<1>10. CASE R_Fill
  <2>1. /\ curr_read \in Pool /\ size \in Nat /\ \A p \in Pool : ptr[p] \in Nat /\ bytes[p] \in Nat
    BY DEF TypeData
  <2>2. \A p \in Pool : bytes'[p] = IF p = curr_read THEN bytes[p] + size ELSE bytes[p]
    BY <1>10, <2>1 DEF R_Fill
  <2>3. \A p \in Pool : ptr'[p] = IF p # curr_read THEN ptr[p]
                                   ELSE IF bytes[p] + size >= Threshold THEN 0 ELSE ptr[p] + size
    <3>1. CASE buffer_full(bytes[curr_read] + size)
      BY <1>10, <2>1, <3>1 DEF R_Fill, buffer_full
    <3>2. CASE ~buffer_full(bytes[curr_read] + size)
      BY <1>10, <2>1, <3>2 DEF R_Fill, buffer_full
    <3>3. QED BY <3>1, <3>2
  <2>4. /\ curr_write' = curr_write
        /\ pcW \in {"w_write", "w_free", "w_clear"} => pcW' = pcW
    BY <1>10 DEF R_Fill, SignalWrite
  <2>5. SUFFICES ASSUME NEW p \in Pool,
                        ~(pcW' \in {"w_write", "w_free", "w_clear"} /\ curr_write' = p)
                 PROVE  ptr'[p] <= bytes'[p] /\ ptr'[p] < Threshold
    OBVIOUS
  <2>6. ptr[p] <= bytes[p] /\ ptr[p] < Threshold
    BY <2>4, <2>5
  <2>7. ptr[p] \in Nat /\ bytes[p] \in Nat /\ size \in Nat /\ Threshold \in Nat \ {0}
    BY <2>1
  <2>8. QED BY ONLY <2>2, <2>3, <2>5, <2>6, <2>7
<1>11. CASE R_Drain
  BY <1>11 DEF R_Drain
<1>12. CASE R_Mark
  BY <1>12 DEF R_Mark
<1>13. CASE R_DrainLock
  BY <1>13 DEF R_DrainLock
<1>14. CASE R_Announce
  BY <1>14 DEF R_Announce, SignalWrite
<1>15. CASE R_Flip
  BY <1>15 DEF R_Flip
<1>16. CASE R_Park
  BY <1>16 DEF R_Park
<1>17. CASE W_Lock
  BY <1>17 DEF W_Lock
<1>18. CASE W_Woken
  BY <1>18 DEF W_Woken
<1>19. CASE W_Begin
  BY <1>19 DEF W_Begin
<1>20. CASE W_Chunk
  BY <1>20 DEF W_Chunk
<1>21. CASE W_Written
  BY <1>21 DEF W_Written
<1>22. CASE W_Free
  BY <1>22 DEF W_Free
<1>23. CASE W_Clear
  BY <1>23 DEF W_Clear
<1>24. CASE W_Exit
  BY <1>24 DEF W_Exit
<1>25. CASE W_Signal
  BY <1>25 DEF W_Signal
<1>26. CASE R_Call \/ R_End
  BY <1>26 DEF R_Call, R_End, Returns
<1>27. CASE M_Flush
  BY <1>27 DEF M_Flush
<1>28. CASE M_Kick
  BY <1>28 DEF M_Kick
<1>29. CASE M_Reset
  BY <1>29 DEF M_Reset, FlushDone
<1>30. CASE M_Setup
  BY <1>30 DEF M_Setup
<1>31. CASE M_Ioctl
  BY <1>31 DEF M_Ioctl
<1>32. CASE M_Resume
  BY <1>32 DEF M_Resume
<1>33. CASE M_Assign
  BY <1>33 DEF M_Assign
<1>34. CASE \E mode \in Targets : M_Switch(mode)
  BY <1>34 DEF M_Switch
<1>35. CASE UNCHANGED vars
  BY <1>35
<1>36. QED BY <1>1, <1>2, <1>3, <1>4, <1>5, <1>6, <1>7, <1>8, <1>9, <1>10,
          <1>11, <1>12, <1>13, <1>14, <1>15, <1>16, <1>17, <1>18, <1>19,
          <1>20, <1>21, <1>22, <1>23, <1>24, <1>25, <1>26, <1>27, <1>28,
          <1>29, <1>30, <1>31, <1>32, <1>33, <1>34, <1>35 DEF Next, Reader,
          Writer, Main

\* The invariant holds in every state of every behaviour of the three threads.
THEOREM Invariance == Spec => []IInv
<1>1. Init => IInv
  BY InitInv
<1>2. IInv /\ [Next]_vars => IInv'
  BY TypeControlStep, TypePoolsStep, TypeDataStep, HandshakeStep,
     WriterLifeStep, LocksStep, FreePoolsStep, BoundedStep DEF IInv, TypeOK
<1>3. QED BY <1>1, <1>2, PTL DEF Spec

\* Type correctness of the logging threads (diag_lsm.c 1171-1788, 2590-2676,
\* 3039-3117) for all buffer sizes.
THEOREM TypeCorrect == Spec => []TypeOK
<1>1. IInv => TypeOK
  BY DEF IInv
<1>2. QED BY <1>1, Invariance, PTL

\* process_diag_payload copies packets only into a free pool that the write
\* thread is not emptying, mode switches and flushes included.
THEOREM PoolOwnership == Spec => []FillsFreePool
<1>1. IInv => FillsFreePool
  BY DEF IInv, TypeOK, TypeControl, TypePools, FreePools, Locks, FillsFreePool,
         WriterHolds, Pool, None
<1>2. QED BY <1>1, Invariance, PTL

\* fill_pkt_buffer runs past the end of a pool's buffer only when one read() brings
\* more than the head room above the threshold.
THEOREM NoOverflow == Spec => []FillInBounds
<1>1. IInv => FillInBounds
  <2> SUFFICES ASSUME IInv, pcR = "r_fill", ptr[curr_read] + size > BufSize
               PROVE  size > HeadRoom
    BY DEF FillInBounds
  <2>1. curr_read \in Pool /\ ptr[curr_read] \in Nat /\ size \in Nat
    BY DEF IInv, TypeOK, TypeControl, TypePools, TypeData
  <2>2. ptr[curr_read] < Threshold
    BY <2>1 DEF IInv, TypeOK, TypeControl, TypePools, Locks, WriterHolds, Bounded, Pool, None
  <2>3. QED BY <2>1, <2>2, OdlAssumption DEF OdlAssumption, HeadRoom
<1>2. QED BY <1>1, Invariance, PTL

\* If the driver never sends more than the head room at once, no buffer is ever
\* overrun: DISK_FLUSH_THRESHOLD is then low enough for the unbounded memcpy.
THEOREM SmallReadsFit ==
  ASSUME MaxRead <= HeadRoom
  PROVE  Spec => []~overrun
<1>1. Init => ~overrun
  BY DEF Init
<1>2. ASSUME IInv, FillInBounds, ~overrun, [Next]_vars
      PROVE  ~overrun'
  <2> USE <1>2 DEF vars, history
  <2>1. CASE R_Fill
    <3>1. ptr[curr_read] + size <= BufSize
      <4>1. curr_read \in Pool /\ ptr[curr_read] \in Nat /\ size \in Nat /\ size <= MaxRead
        BY DEF IInv, TypeOK, TypeControl, TypePools, TypeData
      <4>2. QED BY <2>1, <4>1, OdlAssumption
                DEF FillInBounds, R_Fill, HeadRoom, OdlAssumption
    <3>2. ~(ptr[curr_read] + size > BufSize)
      <4>1. ptr[curr_read] + size \in Int /\ BufSize \in Int
        BY OdlAssumption DEF OdlAssumption, IInv, TypeOK, TypeControl, TypePools, TypeData
      <4>2. QED BY <3>1, <4>1
    <3>3. QED BY <2>1, <3>2, Zenon DEF R_Fill
  <2>2. CASE Reader /\ ~R_Fill
    BY <2>2 DEF Reader, R_Test, R_Enter, R_Call, R_ReadPkt, R_ReadOther, R_End, Returns, R_Check,
                R_LockW, R_LockR, R_Woken, R_Relock, R_Drain, R_Mark, R_DrainLock, R_Announce,
                R_Flip, R_Park
  <2>3. CASE Writer
    BY <2>3 DEF Writer, W_Lock, W_Woken, W_Begin, W_Chunk, W_Written, W_Free, W_Clear, W_Exit,
                W_Signal
  <2>4. CASE Main
    BY <2>4 DEF Main, M_Switch, M_Flush, M_Kick, M_Reset, M_Setup, M_Ioctl, M_Resume, M_Assign
  <2>5. QED BY <2>1, <2>2, <2>3, <2>4 DEF Next
<1>3. QED BY <1>1, <1>2, Invariance, NoOverflow, PTL DEF Spec

\* flush_buffer resets the pools without their mutexes only when no other
\* thread holds one or is about to use one.
THEOREM ResetIsSafe == Spec => ResetQuiescent
<1> DEFINE Quiet == /\ pcW = None
                    /\ pcR \in {"r_flip", "r_park", "r_parked"}
                    /\ \A p \in Pool : wm[p] = None /\ rm[p] = None
<1>1. IInv /\ flush_log = 3 => Quiet
  BY DEF IInv, TypeOK, TypeControl, TypePools, Handshake, Locks, WriterHolds,
         Drained, Pool, Thread, None
<1>2. IInv /\ [Next]_vars /\ flush_log # 0 /\ flush_log' = 0 => Quiet
  <2> SUFFICES ASSUME IInv, [Next]_vars, flush_log # 0, flush_log' = 0
               PROVE  flush_log = 3
    BY <1>1
  <2> USE DEF IInv, TypeOK, TypeControl, vars, flags
  <2>1. CASE Reader
    BY <2>1 DEF Reader, R_Test, R_Enter, R_Call, R_ReadPkt, R_ReadOther, R_End,
                Returns, R_Check, R_LockW, R_LockR, R_Woken, R_Relock, R_Fill, R_Drain,
                R_Mark, R_DrainLock, R_Announce, R_Flip, R_Park
  <2>2. CASE Writer
    BY <2>2 DEF Writer, W_Lock, W_Woken, W_Begin, W_Chunk, W_Written,
                W_Free, W_Clear, W_Exit, W_Signal
  <2>3. CASE Main
    BY <2>3 DEF Main, M_Switch, M_Flush, M_Kick, M_Reset,
                FlushDone, M_Setup, M_Ioctl, M_Resume, M_Assign
  <2>4. QED BY <2>1, <2>2, <2>3 DEF Next
<1>3. QED BY <1>2, Invariance, PTL DEF Spec, ResetQuiescent

-----------------------------------------------------------------------------
(* NothingLost: until a second mode is asked for, the card and the pools    *)
(* hold the accepted packets in order.                                      *)

\* What a step of the first session may do: the steps that touch a pool or the write thread's
\* control, and all the others, which leave both alone.
Aside == UNCHANGED <<pcW, pools, left, curr_read, curr_write, accepted, written>>

\* A step that stays in the first session is one of these.
LEMMA FirstKinds ==
  ASSUME IInv, FirstInv, Orderly', [Next]_vars
  PROVE  /\ Orderly /\ FirstSwitch /\ FirstSwitch' /\ flush_log = 0
         /\ \/ R_Fill \/ W_Lock \/ W_Woken \/ W_Begin \/ W_Chunk \/ W_Written
            \/ W_Free \/ W_Clear \/ W_Signal
            \/ M_Setup /\ pcW = None /\ logging_mode = "USB_MODE"
            \/ Aside
<1> USE DEF Orderly, FirstSession, FirstSwitch, Aside, IInv, TypeOK, TypeControl, Handshake, WriterLife,
    Drained, None, vars, pools, locks, modes, input, history, flags
<1>1. ASSUME Orderly
      PROVE  FirstSwitch /\ flush_log = 0
  BY <1>1 DEF FirstInv
<1>2. CASE R_Test
  BY <1>1, <1>2 DEF R_Test
<1>3. CASE R_Enter
  BY <1>1, <1>3 DEF R_Enter
<1>4. CASE R_ReadPkt
  BY <1>1, <1>4 DEF R_ReadPkt, Returns
<1>5. CASE R_ReadOther
  BY <1>1, <1>5 DEF R_ReadOther, Returns
<1>6. CASE R_Check
  BY <1>1, <1>6 DEF R_Check
<1>7. CASE R_LockW
  BY <1>1, <1>7 DEF R_LockW
<1>8. CASE R_LockR
  BY <1>1, <1>8 DEF R_LockR
<1>9. CASE R_Woken
  BY <1>1, <1>9 DEF R_Woken
<1>10. CASE R_Relock
  BY <1>1, <1>10 DEF R_Relock
<1>11. CASE R_Fill
  <2>1. ~overrun
    BY <1>11, Zenon DEF R_Fill, Orderly
  <2>2. QED BY <1>1, <1>11, <2>1 DEF R_Fill
<1>12. CASE R_Drain \/ R_Mark \/ R_DrainLock \/ R_Announce \/ R_Flip \/ R_Park
  BY <1>1, <1>12 DEF R_Drain, R_Mark, R_DrainLock, R_Announce, R_Flip, R_Park
<1>13. CASE W_Lock \/ W_Woken \/ W_Begin \/ W_Chunk \/ W_Written \/ W_Free \/ W_Clear
  BY <1>1, <1>13 DEF W_Lock, W_Woken, W_Begin, W_Chunk, W_Written, W_Free, W_Clear
<1>14. CASE W_Signal
  BY <1>1, <1>14 DEF W_Signal
<1>15. CASE W_Exit
  BY <1>1, <1>15 DEF W_Exit
<1>16. CASE R_Call \/ R_End
  BY <1>1, <1>16 DEF R_Call, R_End, Returns
<1>17. CASE M_Flush \/ M_Kick \/ M_Reset
  BY <1>1, <1>17 DEF M_Flush, M_Kick, M_Reset
<1>18. CASE M_Setup
  BY <1>1, <1>18 DEF M_Setup
<1>19. CASE M_Ioctl
  BY <1>1, <1>19 DEF M_Ioctl
<1>20. CASE M_Resume
  BY <1>1, <1>20 DEF M_Resume
<1>21. CASE M_Assign
  BY <1>1, <1>21 DEF M_Assign
<1>22. ASSUME NEW mode \in Targets, M_Switch(mode)
       PROVE  /\ Orderly /\ FirstSwitch /\ FirstSwitch' /\ flush_log = 0
              /\ Aside
  BY <1>1, <1>22 DEF M_Switch
<1>23. CASE UNCHANGED vars
  BY <1>1, <1>23
<1>24. QED
  BY <1>2, <1>3, <1>4, <1>5, <1>6, <1>7, <1>8, <1>9, <1>10, <1>11, <1>12, <1>13, <1>14, <1>15,
     <1>16, <1>17, <1>18, <1>19, <1>20, <1>21, <1>22, <1>23 DEF Next, Reader, Writer, Main

\* The threads hand the pools over in turn: what the state of a pool says stays true.
LEMMA PoolStatesStep ==
  ASSUME IInv, FirstInv, Orderly', [Next]_vars
  PROVE  PoolStates'
<1>1. /\ Orderly /\ PoolStates /\ Turns /\ TypePools /\ Locks /\ FreePools /\ Bounded
      /\ curr_read \in Pool /\ curr_write \in Pool /\ flush_log = 0
      /\ Threshold \in Nat \ {0} /\ Threshold <= BufSize /\ BufSize \in Nat
      /\ size \in Nat
  BY FirstKinds, OdlAssumption
     DEF FirstInv, IInv, TypeOK, TypeControl, TypeData, OdlAssumption
<1> USE DEF PoolStates, TypePools, Pool, pools, locks
<1>2. CASE R_Fill
  <2>1. ~(ptr[curr_read] + size > BufSize)
    BY <1>2, Zenon DEF R_Fill, Orderly
  <2>2. /\ free[curr_read] /\ ~ready[curr_read] /\ ptr[curr_read] = bytes[curr_read]
        /\ ~(pcW \in WriterHolds /\ curr_write = curr_read)
    BY ONLY <1>1, <1>2
       DEF R_Fill, PoolStates, TypePools, Pool, Locks, FreePools, WriterHolds, None, Thread
  <2>3. /\ left' = left /\ curr_write' = curr_write
        /\ pcW \in WriterHolds => pcW' = pcW
        /\ pcW' \in WriterHolds => pcW' = pcW
        /\ \A p \in Pool : bytes'[p] = IF p = curr_read THEN bytes[p] + size ELSE bytes[p]
    BY ONLY <1>1, <1>2 DEF R_Fill, SignalWrite, WriterHolds, TypePools
  <2>4. \/ /\ ready' = [ready EXCEPT ![curr_read] = TRUE]
           /\ free' = [free EXCEPT ![curr_read] = FALSE]
           /\ ptr' = [ptr EXCEPT ![curr_read] = 0]
        \/ /\ UNCHANGED <<ready, free>>
           /\ ptr' = [ptr EXCEPT ![curr_read] = ptr[curr_read] + size]
    BY <1>2, Zenon DEF R_Fill
  <2>5. SUFFICES ASSUME NEW p \in Pool
                 PROVE  /\ bytes'[p] <= BufSize
                        /\ ~ready'[p] => free'[p] /\ ptr'[p] = bytes'[p]
                        /\ ready'[p] /\ free'[p] => pcW' = "w_clear" /\ curr_write' = p
                        /\ ready'[p] =>
                             IF pcW' \in {"w_write", "w_free", "w_clear"} /\ curr_write' = p
                             THEN ptr'[p] + left' = bytes'[p] ELSE ptr'[p] = 0
    OBVIOUS
  <2>6. bytes[p] \in Nat /\ ptr[p] \in Nat
    BY <1>1
  <2>7. CASE p = curr_read
    <3>1. \/ ready'[p] /\ ~free'[p] /\ ptr'[p] = 0
          \/ ~ready'[p] /\ free'[p] /\ ptr'[p] = ptr[p] + size
      BY ONLY <1>1, <2>2, <2>4, <2>7 DEF TypePools
    <3>2. bytes'[p] = bytes[p] + size /\ bytes[p] = ptr[p]
      BY <2>2, <2>3, <2>7
    <3>3. bytes'[p] <= BufSize
      BY <1>1, <2>1, <2>6, <2>7, <3>2
    <3>4. ~(pcW' \in {"w_write", "w_free", "w_clear"} /\ curr_write' = p)
      BY ONLY <2>2, <2>3, <2>7 DEF WriterHolds
    <3>5. QED BY ONLY <3>1, <3>2, <3>3, <3>4
  <2>8. CASE p # curr_read
    <3>1. /\ ready'[p] = ready[p] /\ free'[p] = free[p] /\ ptr'[p] = ptr[p]
          /\ bytes'[p] = bytes[p]
      BY ONLY <1>1, <2>3, <2>4, <2>5, <2>8 DEF TypePools
    <3>2. /\ pcW' = "w_clear" <=> pcW = "w_clear"
          /\ pcW' \in {"w_write", "w_free", "w_clear"}
               <=> pcW \in {"w_write", "w_free", "w_clear"}
      BY ONLY <2>3 DEF WriterHolds
    <3>3. /\ bytes[p] <= BufSize
          /\ ~ready[p] => free[p] /\ ptr[p] = bytes[p]
          /\ ready[p] /\ free[p] => pcW = "w_clear" /\ curr_write = p
          /\ ready[p] => IF pcW \in {"w_write", "w_free", "w_clear"} /\ curr_write = p
                         THEN ptr[p] + left = bytes[p] ELSE ptr[p] = 0
      BY <1>1
    <3>4. left' = left /\ curr_write' = curr_write
      BY <2>3
    <3>5. QED BY ONLY <3>1, <3>2, <3>3, <3>4
  <2>9. QED BY <2>7, <2>8
<1>3. CASE W_Lock \/ W_Woken
  BY <1>1, <1>3 DEF W_Lock, W_Woken
<1>4. CASE W_Begin
  BY <1>1, <1>4 DEF W_Begin, Turns, WriterHolds
<1>5. CASE W_Chunk
  <2>1. /\ pcW = "w_write" /\ left' = left - 1 /\ ready[curr_write]
        /\ \A p \in Pool : ptr'[p] = IF p = curr_write THEN ptr[p] + 1 ELSE ptr[p]
        /\ UNCHANGED <<pcW, ready, free, bytes, curr_write>>
    BY <1>1, <1>5 DEF W_Chunk, Turns, WriterHolds
  <2>2. SUFFICES ASSUME NEW p \in Pool
                 PROVE  /\ bytes[p] <= BufSize
                        /\ ~ready[p] => free[p] /\ ptr'[p] = bytes[p]
                        /\ ready[p] /\ free[p] => curr_write # p /\ FALSE
                        /\ ready[p] => IF curr_write = p THEN ptr'[p] + left' = bytes[p]
                                                         ELSE ptr'[p] = 0
    BY <2>1
  <2>3. bytes[p] \in Nat /\ ptr[p] \in Nat /\ left \in Nat
    BY <1>1
  <2>4. /\ bytes[p] <= BufSize
        /\ ~ready[p] => free[p] /\ ptr[p] = bytes[p]
        /\ ready[p] => ~free[p]
        /\ ready[p] => IF curr_write = p THEN ptr[p] + left = bytes[p] ELSE ptr[p] = 0
    BY <1>1, <2>1
  <2>5. ptr'[p] = IF p = curr_write THEN ptr[p] + 1 ELSE ptr[p]
    BY <2>1
  <2>6. QED BY ONLY <2>1, <2>3, <2>4, <2>5
<1>6. CASE W_Written
  BY <1>1, <1>6 DEF W_Written
<1>7. CASE W_Free
  BY <1>1, <1>7 DEF W_Free, Turns, WriterHolds
<1>8. CASE W_Clear
  <2>1. /\ pcW = "w_clear" /\ left = 0 /\ pcW' = "w_signal" /\ ready[curr_write]
        /\ \A p \in Pool : /\ ptr'[p] = IF p = curr_write THEN 0 ELSE ptr[p]
                           /\ bytes'[p] = IF p = curr_write THEN 0 ELSE bytes[p]
                           /\ ready'[p] = IF p = curr_write THEN FALSE ELSE ready[p]
        /\ UNCHANGED <<free, left, curr_write>>
    BY <1>1, <1>8 DEF W_Clear, Turns, WriterHolds
  <2>2. free[curr_write]
    BY <1>1, <2>1 DEF FreePools, IInv, Handshake
  <2>3. SUFFICES ASSUME NEW p \in Pool
                 PROVE  /\ bytes'[p] <= BufSize
                        /\ ~ready'[p] => free[p] /\ ptr'[p] = bytes'[p]
                        /\ ready'[p] => ~free[p] /\ ptr'[p] = 0
    BY <2>1
  <2>4. /\ bytes[p] <= BufSize
        /\ ~ready[p] => free[p] /\ ptr[p] = bytes[p]
        /\ ready[p] /\ curr_write # p => ~free[p] /\ ptr[p] = 0
    BY <1>1, <2>1
  <2>5. /\ ptr'[p] = IF p = curr_write THEN 0 ELSE ptr[p]
        /\ bytes'[p] = IF p = curr_write THEN 0 ELSE bytes[p]
        /\ ready'[p] = IF p = curr_write THEN FALSE ELSE ready[p]
    BY <2>1
  <2>6. QED BY ONLY <1>1, <2>2, <2>4, <2>5
<1>9. CASE W_Signal
  BY <1>1, <1>9 DEF W_Signal, Turns
<1>10. CASE M_Setup /\ pcW = None /\ logging_mode = "USB_MODE"
  BY <1>1, <1>10 DEF M_Setup, None
<1>11. CASE Aside
  BY <1>1, <1>11 DEF Aside
<1>12. QED
  BY FirstKinds, <1>2, <1>3, <1>4, <1>5, <1>6, <1>7, <1>8, <1>9, <1>10, <1>11

\* And whose turn it is.
LEMMA TurnsStep ==
  ASSUME IInv, FirstInv, Orderly', [Next]_vars
  PROVE  Turns'
<1>1. /\ Orderly /\ PoolStates /\ Turns /\ TypePools /\ Locks /\ FreePools
      /\ curr_read \in Pool /\ curr_write \in Pool /\ flush_log = 0
      /\ Threshold \in Nat \ {0} /\ Threshold <= BufSize /\ BufSize \in Nat
      /\ size \in Nat
  BY FirstKinds, OdlAssumption
     DEF FirstInv, IInv, TypeOK, TypeControl, TypeData, OdlAssumption
<1> USE DEF Turns, WriterHolds, TypePools, Pool, pools, locks
<1>2. CASE R_Fill
  BY ONLY <1>1, <1>2, SMTT(30)
     DEF R_Fill, SignalWrite, buffer_full, PoolStates, TypePools, Pool, Locks,
         FreePools, Turns, WriterHolds, None, Thread
<1>3. CASE W_Lock \/ W_Woken
  BY <1>1, <1>3 DEF W_Lock, W_Woken
<1>4. CASE W_Begin
  BY <1>1, <1>4 DEF W_Begin
<1>5. CASE W_Chunk
  BY <1>1, <1>5 DEF W_Chunk
<1>6. CASE W_Written
  BY <1>1, <1>6 DEF W_Written
<1>7. CASE W_Free
  BY <1>1, <1>7 DEF W_Free
<1>8. CASE W_Clear
  BY <1>1, <1>8 DEF W_Clear
<1>9. CASE W_Signal
  BY <1>1, <1>9 DEF W_Signal
<1>10. CASE M_Setup /\ pcW = None /\ logging_mode = "USB_MODE"
  BY <1>1, <1>10 DEF M_Setup, None
<1>11. CASE Aside
  BY <1>1, <1>11 DEF Aside
<1>12. QED
  BY FirstKinds, <1>2, <1>3, <1>4, <1>5, <1>6, <1>7, <1>8, <1>9, <1>10, <1>11

\* A segment of a pool's memory is a sequence of packets.
LEMMA SegmentType ==
  ASSUME NEW m \in [1..BufSize -> Nat], NEW a \in Nat \ {0}, NEW n \in Nat, n <= BufSize
  PROVE  SubSeq(m, a, n) \in Seq(Nat)
<1>1. \A i \in a..n : m[i] \in Nat
  BY OdlAssumption DEF OdlAssumption
<1>2. a \in Int /\ n \in Int
  OBVIOUS
<1>3. QED BY <1>1, <1>2, SubSeqProperties

\* The memory mm is m with the units u copied behind position n.
Copied(mm, m, n, u) ==
  \A i \in 1..BufSize : mm[i] = IF n < i /\ i <= n + Len(u) THEN u[i - n] ELSE m[i]

\* fill_pkt_buffer at buffer_ptr appends the packet's units to the segment before it.
LEMMA SegmentFilled ==
  ASSUME NEW m \in [1..BufSize -> Nat], NEW n \in Nat, NEW u \in Seq(Nat),
         n + Len(u) <= BufSize, NEW mm \in [1..BufSize -> Nat], Copied(mm, m, n, u)
  PROVE  SubSeq(mm, 1, n + Len(u)) = SubSeq(m, 1, n) \o u
<1> USE DEF Copied
<1> DEFINE k == Len(u)
           s == SubSeq(m, 1, n)
           t == SubSeq(mm, 1, n + k)
<1>1. BufSize \in Nat /\ k \in Nat
  BY OdlAssumption DEF OdlAssumption
<1>2. /\ s \in Seq(Nat) /\ Len(s) = n /\ \A i \in 1..n : s[i] = m[i]
  <2>1. \A i \in 1..n : m[i] \in Nat
    BY <1>1
  <2>2. QED BY <2>1, SubSeqProperties, SMT
<1>3. /\ t \in Seq(Nat) /\ Len(t) = n + k /\ \A i \in 1..(n + k) : t[i] = mm[i]
  <2>1. \A i \in 1..(n + k) : mm[i] \in Nat
    BY <1>1
  <2>2. n + k \in Nat
    OBVIOUS
  <2>3. QED BY <2>1, <2>2, SubSeqProperties, SMT
<1> HIDE DEF s, t
<1>4. /\ s \o u \in Seq(Nat) /\ Len(s \o u) = n + k
      /\ \A i \in 1..(n + k) : (s \o u)[i] = IF i <= n THEN s[i] ELSE u[i - n]
  BY <1>2, ConcatProperties
<1>5. ASSUME NEW i \in 1..(n + k) PROVE t[i] = (s \o u)[i]
  <2>1. i \in 1..BufSize
    BY <1>1
  <2>2. mm[i] = IF i <= n THEN m[i] ELSE u[i - n]
    BY <2>1
  <2>3. CASE i <= n
    BY <1>2, <1>3, <1>4, <2>2, <2>3
  <2>4. CASE ~(i <= n)
    BY <1>3, <1>4, <2>2, <2>4
  <2>5. QED BY <2>3, <2>4
<1>6. t = s \o u
  <2>1. n + k \in Nat
    BY <1>1
  <2>2. QED BY ONLY <1>3, <1>4, <1>5, <2>1, SeqEqual
<1>7. QED BY <1>6 DEF s, t

\* Append as a concatenation.
LEMMA Appended ==
  \A s \in Seq(Nat), x \in Nat : Append(s, x) = s \o <<x>> /\ <<x>> \in Seq(Nat)
BY AppendIsConcat

\* Where the parentheses stand in a concatenation does not matter.
LEMMA Regroup == \A a, b, c \in Seq(Nat) : (a \o b) \o c = a \o (b \o c)
BY ConcatAssociative, SMTT(30)

\* log_to_device takes the first packet of a segment.
LEMMA SegmentTaken ==
  ASSUME NEW m \in [1..BufSize -> Nat], NEW n \in Nat, n <= BufSize, NEW a \in 1..n
  PROVE  SubSeq(m, a, n) = <<m[a]>> \o SubSeq(m, a + 1, n)
<1>1. BufSize \in Nat /\ m \in Seq(Nat) /\ Len(m) = BufSize
  BY OdlAssumption DEF OdlAssumption
<1>2. a \in 1..Len(m) /\ n \in a..Len(m)
  BY <1>1
<1>3. QED BY <1>1, <1>2, SubSeqRecursiveFirst, Zenon

\* Where a pool's pending segment begins and ends.
LEMMA PendingFacts ==
  ASSUME IInv, Orderly, FirstInv
  PROVE  /\ curr_write \in Pool /\ 1 - curr_write \in Pool /\ 1 - curr_write # curr_write
         /\ \A p \in Pool : /\ mem[p] \in [1..BufSize -> Nat] /\ bytes[p] \in Nat
                            /\ bytes[p] <= BufSize /\ ptr[p] \in Nat /\ left \in Nat
                            /\ Pending(p) \in Seq(Nat)
         /\ written \in Seq(Nat) /\ accepted \in Seq(Nat)
         /\ accepted = written \o Pending(curr_write) \o Pending(1 - curr_write)
<1>1. /\ curr_write \in Pool /\ 1 - curr_write \in Pool /\ 1 - curr_write # curr_write
      /\ written \in Seq(Nat) /\ accepted \in Seq(Nat)
      /\ accepted = written \o Pending(curr_write) \o Pending(1 - curr_write)
  BY SMTT(30) DEF IInv, TypeOK, TypeControl, TypeData, Pool, FirstInv, NothingLost, Orderly
<1>2. ASSUME NEW p \in Pool
      PROVE  /\ mem[p] \in [1..BufSize -> Nat] /\ bytes[p] \in Nat
             /\ bytes[p] <= BufSize /\ ptr[p] \in Nat /\ left \in Nat
             /\ Pending(p) \in Seq(Nat)
  <2>1. /\ mem[p] \in [1..BufSize -> Nat] /\ bytes[p] \in Nat
        /\ ptr[p] \in Nat /\ left \in Nat
    BY DEF IInv, TypeOK, TypeData, TypePools
  <2>2. bytes[p] <= BufSize
    BY <2>1, OdlAssumption DEF OdlAssumption, FirstInv, PoolStates
  <2>3. CASE pcW \in {"w_write", "w_free", "w_clear"} /\ curr_write = p
    <3>1. ptr[p] + left = bytes[p]
      BY <2>3 DEF FirstInv, PoolStates, Turns, WriterHolds
    <3>2. bytes[p] - left + 1 \in Nat \ {0}
      BY <2>1, <3>1
    <3>3. Pending(p) = SubSeq(mem[p], bytes[p] - left + 1, bytes[p])
      BY <2>3 DEF Pending
    <3>4. QED BY ONLY <2>1, <2>2, <3>2, <3>3, SegmentType
  <2>4. CASE ~(pcW \in {"w_write", "w_free", "w_clear"} /\ curr_write = p)
    <3>1. Pending(p) = SubSeq(mem[p], 1, bytes[p])
      BY <2>4 DEF Pending
    <3>2. 1 \in Nat \ {0}
      OBVIOUS
    <3>3. QED BY ONLY <2>1, <2>2, <3>1, <3>2, SegmentType
  <2>5. QED BY <2>1, <2>2, <2>3, <2>4
<1>3. QED BY <1>1, <1>2

\* The accepted packets stay the card's, then the write thread's pool's, then the other's.
LEMMA NothingLostStep ==
  ASSUME IInv, FirstInv, Orderly', [Next]_vars
  PROVE  NothingLost'
<1>1. /\ Orderly /\ PoolStates /\ Turns /\ TypePools /\ flush_log = 0
  BY FirstKinds DEF FirstInv, IInv, TypeOK
<1>2. PICK w \in Pool, o \in Pool : w = curr_write /\ o = 1 - w /\ o # w /\ w = 1 - o
  BY DEF IInv, TypeOK, TypeControl, Pool
<1>3. /\ \A p \in Pool : /\ mem[p] \in [1..BufSize -> Nat] /\ bytes[p] \in Nat
                         /\ bytes[p] <= BufSize /\ ptr[p] \in Nat /\ left \in Nat
                         /\ Pending(p) \in Seq(Nat)
      /\ written \in Seq(Nat) /\ accepted \in Seq(Nat)
      /\ accepted = written \o Pending(w) \o Pending(o)
  BY <1>1, <1>2, PendingFacts
<1>4. SUFFICES curr_write' \in Pool /\
               accepted' = written' \o Pending(curr_write)' \o Pending(1 - curr_write)'
  BY DEF NothingLost
<1>5. ASSUME curr_write' = w, written' = written, Pending(w)' = Pending(w),
             Pending(o)' = Pending(o), accepted' = accepted
      PROVE  accepted' = written' \o Pending(curr_write)' \o Pending(1 - curr_write)'
  BY <1>2, <1>3, <1>5
<1> USE DEF WriterHolds
<1>6. CASE R_Fill
  <2>1. PICK r \in Pool : r = curr_read
    BY DEF IInv, TypeOK, TypeControl
  <2>2. /\ wm[r] = "reader" /\ free[r]
        /\ ~(pcW \in WriterHolds \union {"w_signal"} /\ w = r)
    BY <1>2, <1>6, <2>1
       DEF R_Fill, IInv, TypeOK, TypePools, Locks, FreePools, Thread, None
  <2>3. ~ready[r] /\ ptr[r] = bytes[r] /\ bytes[r] + size <= BufSize
    <3>1. ~ready[r] /\ ptr[r] = bytes[r]
      BY <1>1, <1>2, <2>2 DEF PoolStates
    <3>2. ~(ptr[r] + size > BufSize)
      BY <1>6, <2>1, Zenon DEF R_Fill, Orderly
    <3>3. ptr[r] + size \in Int /\ BufSize \in Int
      BY <1>3, UnitsType, OdlAssumption DEF OdlAssumption, IInv, TypeOK
    <3>4. QED BY <3>1, <3>2, <3>3
  <2>4. /\ mem'[r] \in [1..BufSize -> Nat]
        /\ \A i \in 1..BufSize :
             mem'[r][i] = IF bytes[r] < i /\ i <= bytes[r] + size THEN Units[i - bytes[r]]
                                                                 ELSE mem[r][i]
        /\ bytes'[r] = bytes[r] + size
        /\ \A p \in Pool \ {r} : mem'[p] = mem[p] /\ bytes'[p] = bytes[p]
        /\ accepted' = accepted \o Units
        /\ left' = left /\ written' = written /\ curr_write' = curr_write
    <3>1. mem \in [Pool -> [1..BufSize -> Nat]] /\ bytes \in [Pool -> Nat]
      BY DEF IInv, TypeOK, TypeData, TypePools
    <3>2. mem' \in [Pool -> [1..BufSize -> Nat]]
      BY TypeDataStep DEF TypeData
    <3>3. QED BY <1>6, <2>1, <2>3, <3>1, <3>2 DEF R_Fill, fill_pkt_buffer
  <2>5. pcW' = pcW \/ (pcW = "w_wait" /\ pcW' = "w_woken")
    BY <1>6 DEF R_Fill, SignalWrite
  <2>6. Pending(r) = SubSeq(mem[r], 1, bytes[r])
    BY <1>2, <2>2 DEF Pending
  <2>7. Pending(r)' = Pending(r) \o Units
    <3>1. SubSeq(mem'[r], 1, bytes[r] + size) = SubSeq(mem[r], 1, bytes[r]) \o Units
      <4>1. Units \in Seq(Nat) /\ Len(Units) = size /\ size \in Nat
        BY UnitsType DEF IInv, TypeOK
      <4>2. mem[r] \in [1..BufSize -> Nat] /\ bytes[r] \in Nat
        BY <1>3
      <4>3. Copied(mem'[r], mem[r], bytes[r], Units)
        BY <2>4, <4>1 DEF Copied
      <4>4. mem'[r] \in [1..BufSize -> Nat] /\ bytes[r] + Len(Units) <= BufSize
        BY <2>3, <2>4, <4>1
      <4>5. SubSeq(mem'[r], 1, bytes[r] + Len(Units)) = SubSeq(mem[r], 1, bytes[r]) \o Units
        BY ONLY <4>1, <4>2, <4>3, <4>4, SegmentFilled
      <4>6. QED BY <4>1, <4>5
    <3>2. QED BY <1>2, <2>2, <2>4, <2>5, <2>6, <3>1 DEF Pending
  <2>8. ASSUME NEW p \in Pool, p # r
        PROVE  Pending(p)' = Pending(p)
    BY <2>4, <2>5, <2>8 DEF Pending
  <2>9. Units \in Seq(Nat)
    BY UnitsType DEF IInv, TypeOK
  <2>10. CASE r = w
    <3>1. ~ready[o] /\ bytes[o] = 0
      BY <1>1, <1>2, <2>1, <2>2, <2>3, <2>10 DEF Turns
    <3>2. Pending(o) = <<>>
      BY <1>2, <3>1, SubSeqEmpty DEF Pending
    <3>3. accepted = written \o Pending(w)
      BY <1>3, <3>2, ConcatEmptySeq, ConcatProperties
    <3>4. accepted' = written \o Pending(w)'
      <4>1. (written \o Pending(w)) \o Units = written \o (Pending(w) \o Units)
        <5>1. written \in Seq(Nat) /\ Pending(w) \in Seq(Nat)
          BY <1>3
        <5>2. QED BY ONLY <2>9, <5>1, Regroup
      <4>2. QED BY <2>4, <2>7, <2>10, <3>3, <4>1
    <3>5. Pending(o)' = <<>>
      BY <1>2, <2>8, <2>10, <3>2
    <3>6. written \o Pending(w)' \in Seq(Nat)
      BY <1>3, <2>7, <2>9, <2>10, ConcatProperties
    <3>7. accepted' = written \o Pending(w)' \o Pending(o)'
      BY <3>4, <3>5, <3>6, ConcatEmptySeq
    <3>8. QED BY <1>2, <2>4, <3>7
  <2>11. CASE r = o
    <3>1. Pending(w)' = Pending(w)
      BY <1>2, <2>8, <2>11
    <3>2. written \o Pending(w) \in Seq(Nat)
      BY <1>3, ConcatProperties
    <3>3. accepted' = written \o Pending(w) \o Pending(o)'
      <4>1. ((written \o Pending(w)) \o Pending(o)) \o Units
              = (written \o Pending(w)) \o (Pending(o) \o Units)
        <5>1. Pending(o) \in Seq(Nat)
          BY <1>3
        <5>2. QED BY ONLY <2>9, <3>2, <5>1, Regroup
      <4>2. QED BY <1>3, <2>4, <2>7, <2>11, <4>1
    <3>4. QED BY <1>2, <2>4, <3>1, <3>3
  <2>12. QED BY <1>2, <2>10, <2>11 DEF Pool
<1>7. CASE W_Lock \/ W_Woken
  <2>1. /\ pcW \in {"w_lock", "w_woken"} /\ pcW' \in {"w_begin", "w_wait"}
        /\ UNCHANGED <<mem, bytes, left, written, accepted, curr_write>>
    BY <1>7 DEF W_Lock, W_Woken, pools, history
  <2>2. Pending(w)' = Pending(w) /\ Pending(o)' = Pending(o)
    BY <2>1 DEF Pending
  <2>3. QED BY <1>2, <1>5, <2>1, <2>2
<1>8. CASE W_Begin
  <2>1. /\ pcW = "w_begin" /\ pcW' = "w_write" /\ left' = bytes[w]
        /\ UNCHANGED <<mem, bytes, written, accepted, curr_write>>
    BY <1>2, <1>8 DEF W_Begin, pools, history
  <2>2. bytes[w] - bytes[w] + 1 = 1
    BY <1>3
  <2>3. Pending(w)' = Pending(w) /\ Pending(o)' = Pending(o)
    BY <1>2, <2>1, <2>2 DEF Pending
  <2>4. QED BY <1>2, <1>5, <2>1, <2>3
<1>9. CASE W_Chunk
  <2>1. /\ pcW = "w_write" /\ pcW' = pcW /\ left > 0 /\ left' = left - 1
        /\ written' = Append(written, At(w))
        /\ UNCHANGED <<mem, bytes, accepted, curr_write>>
    BY <1>2, <1>9 DEF W_Chunk
  <2>2. ptr[w] + left = bytes[w]
    BY <1>1, <1>2, <2>1 DEF PoolStates, Turns
  <2>3. /\ ptr[w] < BufSize /\ bytes[w] - left + 1 = ptr[w] + 1
        /\ bytes[w] - (left - 1) + 1 = (ptr[w] + 1) + 1
        /\ ptr[w] + 1 \in 1..bytes[w] /\ ptr[w] + 1 \in 1..BufSize
    <3>1. bytes[w] \in Nat /\ bytes[w] <= BufSize /\ ptr[w] \in Nat /\ left \in Nat /\ left > 0
      BY <1>3, <2>1
    <3>2. BufSize \in Nat
      BY OdlAssumption DEF OdlAssumption
    <3>3. QED BY ONLY <2>2, <3>1, <3>2
  <2>4. At(w) = mem[w][ptr[w] + 1] /\ At(w) \in Nat
    BY <1>3, <2>3 DEF At
  <2>5. /\ Pending(w) = SubSeq(mem[w], ptr[w] + 1, bytes[w])
        /\ Pending(w)' = SubSeq(mem[w], (ptr[w] + 1) + 1, bytes[w])
    BY <1>2, <2>1, <2>3 DEF Pending
  <2>6. Pending(w) = <<At(w)>> \o Pending(w)'
    BY <1>3, <2>3, <2>4, <2>5, SegmentTaken
  <2>7. Pending(w)' \in Seq(Nat)
    <3>1. (ptr[w] + 1) + 1 \in Nat \ {0} /\ bytes[w] \in Nat /\ bytes[w] <= BufSize
      BY <1>3
    <3>2. mem[w] \in [1..BufSize -> Nat]
      BY <1>3
    <3>3. QED BY ONLY <2>5, <3>1, <3>2, SegmentType
  <2>8. Pending(o)' = Pending(o)
    BY <1>2, <2>1 DEF Pending
  <2>9. written' = written \o <<At(w)>> /\ <<At(w)>> \in Seq(Nat)
    <3>1. written \in Seq(Nat)
      BY <1>3
    <3>2. QED BY ONLY <2>1, <2>4, <3>1, Appended
  <2>10. written' \o Pending(w)' = written \o Pending(w)
    <3>1. (written \o <<At(w)>>) \o Pending(w)' = written \o (<<At(w)>> \o Pending(w)')
      <4>1. written \in Seq(Nat)
        BY <1>3
      <4>2. QED BY ONLY <2>7, <2>9, <4>1, Regroup
    <3>2. QED BY <2>6, <2>9, <3>1
  <2>11. QED BY <1>2, <1>3, <2>1, <2>8, <2>10
<1>10. CASE W_Written \/ W_Free
  <2>1. /\ pcW \in {"w_write", "w_free"} /\ pcW' \in {"w_free", "w_clear"}
        /\ UNCHANGED <<mem, bytes, left, written, accepted, curr_write>>
    BY <1>10 DEF W_Written, W_Free, pools, history
  <2>2. Pending(w)' = Pending(w) /\ Pending(o)' = Pending(o)
    BY <2>1 DEF Pending
  <2>3. QED BY <1>2, <1>5, <2>1, <2>2
<1>11. CASE W_Clear
  <2>1. /\ pcW = "w_clear" /\ pcW' = "w_signal" /\ left = 0 /\ left' = left
        /\ bytes'[w] = 0 /\ bytes'[o] = bytes[o]
        /\ UNCHANGED <<mem, written, accepted, curr_write>>
    BY <1>1, <1>2, <1>11 DEF W_Clear, Turns, TypePools, history
  <2>2. Pending(w) = <<>> /\ Pending(w)' = <<>>
    <3>1. Pending(w) = SubSeq(mem[w], bytes[w] - left + 1, bytes[w])
      BY <1>2, <2>1 DEF Pending
    <3>2. bytes[w] - left + 1 \in Int /\ bytes[w] \in Int /\ bytes[w] < bytes[w] - left + 1
      BY <1>3, <2>1
    <3>3. Pending(w)' = SubSeq(mem[w], 1, 0)
      BY <1>2, <2>1 DEF Pending
    <3>4. QED BY <3>1, <3>2, <3>3, SubSeqEmpty
  <2>3. Pending(o)' = Pending(o)
    BY <1>2, <2>1 DEF Pending
  <2>4. QED BY <1>2, <1>5, <2>1, <2>2, <2>3
<1>12. CASE W_Signal
  <2>1. /\ pcW = "w_signal" /\ pcW' = "w_lock" /\ curr_write' = o
        /\ UNCHANGED <<mem, bytes, left, written, accepted>>
    BY <1>2, <1>12 DEF W_Signal, pools, history
  <2>2. Pending(w)' = Pending(w) /\ Pending(o)' = Pending(o)
    BY <2>1 DEF Pending
  <2>3. bytes[w] = 0
    BY <1>1, <1>2, <2>1 DEF Turns
  <2>4. Pending(w) = <<>>
    BY <1>2, <2>1, <2>3, SubSeqEmpty DEF Pending
  <2>5. accepted = written \o Pending(o) \o Pending(w)
    BY <1>3, <2>4, ConcatEmptySeq, ConcatProperties
  <2>6. QED BY <1>2, <2>1, <2>2, <2>5
<1>13. CASE M_Setup /\ pcW = None /\ logging_mode = "USB_MODE"
  <2>1. /\ pcW = None /\ pcW' \in {None, "w_lock"}
        /\ UNCHANGED <<mem, bytes, left, written, accepted, curr_write>>
    BY <1>13 DEF M_Setup, history
  <2>2. Pending(w)' = Pending(w) /\ Pending(o)' = Pending(o)
    BY <2>1 DEF Pending, None
  <2>3. QED BY <1>2, <1>5, <2>1, <2>2
<1>14. CASE Aside
  <2>1. Pending(w)' = Pending(w) /\ Pending(o)' = Pending(o)
    BY <1>14 DEF Pending, Aside, pools
  <2>2. QED BY <1>2, <1>5, <1>14, <2>1 DEF Aside
<1>15. QED
  BY FirstKinds, <1>6, <1>7, <1>8, <1>9, <1>10, <1>11, <1>12, <1>13, <1>14

\* In every reachable state the first session's invariant holds beside IInv.
LEMMA FirstInvariance == Spec => []FirstInv
<1>1. Init => FirstInv
  <2> SUFFICES ASSUME Init PROVE FirstInv
    OBVIOUS
  <2>1. FirstSwitch /\ PoolStates /\ Turns
    BY OdlAssumption
       DEF Init, FirstSwitch, PoolStates, Turns, Drained, Pool, WriterHolds, None, OdlAssumption
  <2>2. \A p \in Pool : Pending(p) = <<>>
    BY SubSeqEmpty DEF Init, Pending, Pool, None
  <2>3. accepted = written \o Pending(curr_write) \o Pending(1 - curr_write)
    BY <2>2 DEF Init, Pool
  <2>4. QED BY <2>1, <2>3 DEF FirstInv, NothingLost
<1>2. IInv /\ FirstInv /\ [Next]_vars => FirstInv'
  <2> SUFFICES ASSUME IInv, FirstInv, [Next]_vars PROVE FirstInv'
    OBVIOUS
  <2>1. CASE Orderly'
    BY <2>1, FirstKinds, PoolStatesStep, TurnsStep, NothingLostStep DEF FirstInv
  <2>2. CASE ~Orderly'
    BY <2>2 DEF FirstInv, NothingLost
  <2>3. QED BY <2>1, <2>2
<1>3. QED BY <1>1, <1>2, Invariance, PTL DEF Spec

\* process_diag_payload and WriteToDisk lose, repeat and reorder no packet until the first
\* flush, for every buffer size, threshold and number of packets.
THEOREM DoubleBuffering == Spec => []NothingLost
<1>1. FirstInv => NothingLost
  BY DEF FirstInv
<1>2. QED BY <1>1, FirstInvariance, PTL
=============================================================================
