------------------------------ MODULE LogCodes ------------------------------
(***************************************************************************)
(* The set of log codes a DCI object catches (dci/DCIBase.cpp), the mask   *)
(* the driver keeps for its client (dci/DCI.cpp, _dci_configure_logs) and  *)
(* the dispatch of logs on the read thread (DCI::_handle_log), which no    *)
(* lock orders with the thread that changes codes and handlers.            *)
(***************************************************************************)
EXTENDS Naturals, FiniteSets, Sequences

CONSTANTS
  Code,                (* log codes                                         *)
  MaxCodes,            (* codes that fit in DCI_MAX_REQ_BUF_SIZE            *)
  MaxCalls,            (* bound: calls of set, add and reset                *)
  MaxLogs,             (* bound: logs the driver holds for the read thread  *)
  MaxHandlers          (* bound: calls of add_log_handler                   *)

ASSUME LogCodesAssumption ==
  /\ MaxCodes \in Nat \ {0} /\ MaxCalls \in Nat /\ MaxLogs \in Nat /\ MaxHandlers \in Nat

VARIABLES
  pcC, op, want, failed,\* the calling thread: control, the call, its argument, its result
  codes,                \* _log_codes
  mask,                 \* external: the driver's mask for this client
  logs,                 \* external: logs taken under the mask, not yet read
  handlers, capacity,   \* _log_handlers: size and capacity
  storage,              \* the memory block of _log_handlers: a reallocation gives a new one
  pcR,                  \* read thread: waiting, at begin() or end(), in the loop, or outside it
  at, end,              \* its two iterators, each a memory block and a slot in it
  before, calls,        \* history: codes when the call began; calls so far
  late                  \* history: the list has moved after the first of those calls

caller    == <<pcC, op, want, failed, before, calls>>
list      == <<handlers, capacity, storage, late>>
dispatch  == <<pcR, at, end>>
codesVars == <<caller, codes, mask, logs, list, dispatch>>

\* The defect of turning the codes on while the interface is set up.
BugCodesInit ==
  /\ pcC = "idle" /\ op = "none" /\ want = {} /\ failed = FALSE /\ before = {} /\ calls = 0
  /\ codes = Code /\ mask = Code /\ logs = <<>>
  /\ handlers = 0 /\ capacity = 0 /\ storage = 0 /\ late = FALSE
  /\ pcR = "wait" /\ at = <<0, 0>> /\ end = <<0, 0>>

CodesInit ==
  /\ pcC = "idle" /\ op = "none" /\ want = {} /\ failed = FALSE /\ before = {} /\ calls = 0
  /\ codes = {} /\ mask = {} /\ logs = <<>>
  /\ handlers = 0 /\ capacity = 0 /\ storage = 0 /\ late = FALSE
  /\ pcR = "wait" /\ at = <<0, 0>> /\ end = <<0, 0>>

-----------------------------------------------------------------------------
(* set_log_codes, add_log_codes, reset_log_codes.                           *)

Begin(o, S) ==
  /\ pcC = "idle" /\ calls < MaxCalls
  /\ op' = o /\ want' = S /\ failed' = FALSE
  /\ before' = codes /\ calls' = calls + 1
  /\ pcC' = IF o = "add" THEN "enable" ELSE "disable"
  /\ UNCHANGED <<codes, mask, logs, list, dispatch>>

set_log_codes(S) == Begin("set", S)
add_log_codes(S) == Begin("add", S)
reset_log_codes  == Begin("reset", {})

BugAfterDisable == "idle"

AfterDisable == IF op = "set" THEN "enable" ELSE "idle"

\* _manipulate_log_codes(_log_codes, DISABLE) of an empty set: nothing to do.
DisableNone ==
  /\ pcC = "disable" /\ codes = {}
  /\ pcC' = AfterDisable
  /\ UNCHANGED <<op, want, failed, before, calls, codes, mask, logs, list, dispatch>>

\* The message is too long, or the driver refuses it.
DisableFails ==
  /\ pcC = "disable" /\ codes # {}
  /\ failed' = TRUE /\ pcC' = "idle"
  /\ UNCHANGED <<op, want, before, calls, codes, mask, logs, list, dispatch>>

Disable ==
  /\ pcC = "disable" /\ codes # {} /\ Cardinality(codes) <= MaxCodes
  /\ mask' = mask \ codes
  /\ pcC' = "erase"
  /\ UNCHANGED <<op, want, failed, before, calls, codes, logs, list, dispatch>>

Erase ==
  /\ pcC = "erase"
  /\ codes' = {}
  /\ pcC' = AfterDisable
  /\ UNCHANGED <<op, want, failed, before, calls, mask, logs, list, dispatch>>

EnableNone ==
  /\ pcC = "enable" /\ want = {}
  /\ pcC' = "idle"
  /\ UNCHANGED <<op, want, failed, before, calls, codes, mask, logs, list, dispatch>>

BugEnableFails ==
  /\ pcC = "enable" /\ want # {}
  /\ failed' = TRUE /\ pcC' = "insert"
  /\ UNCHANGED <<op, want, before, calls, codes, mask, logs, list, dispatch>>

EnableFails ==
  /\ pcC = "enable" /\ want # {}
  /\ failed' = TRUE /\ pcC' = "idle"
  /\ UNCHANGED <<op, want, before, calls, codes, mask, logs, list, dispatch>>

Enable ==
  /\ pcC = "enable" /\ want # {} /\ Cardinality(want) <= MaxCodes
  /\ mask' = mask \cup want
  /\ pcC' = "insert"
  /\ UNCHANGED <<op, want, failed, before, calls, codes, logs, list, dispatch>>

Insert ==
  /\ pcC = "insert"
  /\ codes' = codes \cup want
  /\ pcC' = "idle"
  /\ UNCHANGED <<op, want, failed, before, calls, mask, logs, list, dispatch>>

\* push_back moves a full vector to a new block.  Nothing says when a handler may be added.
add_log_handler ==
  /\ pcC = "idle" /\ handlers < MaxHandlers
  /\ handlers' = handlers + 1
  /\ IF handlers = capacity
     THEN /\ capacity' = (IF capacity = 0 THEN 1 ELSE 2 * capacity)
          /\ storage' = storage + 1
          /\ late' = (late \/ calls > 0)
     ELSE UNCHANGED <<capacity, storage, late>>
  /\ UNCHANGED <<caller, codes, mask, logs, dispatch>>

Caller ==
  \/ \E S \in SUBSET Code : set_log_codes(S) \/ add_log_codes(S)
  \/ reset_log_codes
  \/ DisableNone \/ DisableFails \/ Disable \/ Erase
  \/ EnableNone \/ EnableFails \/ Enable \/ Insert
  \/ add_log_handler

-----------------------------------------------------------------------------
(* External: the driver takes a log its mask lets through.                  *)

TakeLog(c) ==
  /\ c \in mask /\ Len(logs) < MaxLogs
  /\ logs' = Append(logs, c)
  /\ UNCHANGED <<caller, codes, mask, list, dispatch>>

(* DCI::_handle_log on the read thread: a range-for, which takes begin() and *)
(* end() of the list one after the other and then compares and dereferences *)
(* nothing but those two iterators.                                          *)

ReadLog ==
  /\ pcR = "wait" /\ logs # <<>>
  /\ logs' = Tail(logs)
  /\ pcR' = "begin"
  /\ UNCHANGED <<caller, codes, mask, list, at, end>>

LoopBegin ==
  /\ pcR = "begin"
  /\ at' = <<storage, 0>>
  /\ pcR' = "end"
  /\ UNCHANGED <<caller, codes, mask, logs, list, end>>

LoopEnd ==
  /\ pcR = "end"
  /\ end' = <<storage, handlers>>
  /\ pcR' = "loop"
  /\ UNCHANGED <<caller, codes, mask, logs, list, at>>

\* The iterator points to an element of the list as it is now.
InList == at[1] = storage /\ at[2] < handlers

CallHandler ==
  /\ pcR = "loop" /\ at # end /\ InList
  /\ at' = <<at[1], at[2] + 1>>
  /\ UNCHANGED <<caller, codes, mask, logs, list, pcR, end>>

\* Memory that is freed, or no element: what runs now is undefined.
CallAnything ==
  /\ pcR = "loop" /\ at # end /\ ~InList
  /\ pcR' = "astray"
  /\ UNCHANGED <<caller, codes, mask, logs, list, at, end>>

LogDone ==
  /\ pcR = "loop" /\ at = end
  /\ pcR' = "wait"
  /\ UNCHANGED <<caller, codes, mask, logs, list, at, end>>

Dispatch == ReadLog \/ LoopBegin \/ LoopEnd \/ CallHandler \/ CallAnything \/ LogDone

CodesNext ==
  \/ Caller
  \/ \E c \in Code : TakeLog(c)
  \/ Dispatch

CodesSpec == CodesInit /\ [][CodesNext]_codesVars

-----------------------------------------------------------------------------
CodesTypeOK ==
  /\ pcC \in {"idle", "disable", "erase", "enable", "insert"}
  /\ op \in {"none", "set", "add", "reset"}
  /\ want \subseteq Code /\ codes \subseteq Code /\ mask \subseteq Code /\ before \subseteq Code
  /\ failed \in BOOLEAN
  /\ logs \in Seq(Code) /\ pcR \in {"wait", "begin", "end", "loop", "astray"}
  /\ calls \in Nat /\ handlers \in Nat /\ capacity \in Nat /\ storage \in Nat
  /\ at \in Nat \X Nat /\ end \in Nat \X Nat /\ late \in BOOLEAN
  /\ handlers <= capacity

\* Between calls, and while the driver is being asked, the local set is the driver's mask;
\* only the local update that follows the driver's consent separates them.  A refusal at
\* either half of set_log_codes keeps them together (_manipulate_log_codes).
MaskMatches ==
  /\ pcC \in {"idle", "disable", "enable"} => mask = codes
  /\ pcC = "erase"  => mask = {}
  /\ pcC = "insert" => mask = codes \cup want

SetEnds ==
  op = "set" /\ pcC # "idle" /\ pcC' = "idle" =>
    codes' = IF ~failed' THEN want ELSE IF pcC = "disable" THEN before ELSE {}

\* A set_log_codes that succeeds leaves exactly the codes asked for; one that fails leaves the
\* previous codes or none, never a mixture (set_log_codes).
SetOutcome == [][SetEnds]_codesVars

\* No lock keeps push_back from moving the list under the read thread's loop; what keeps the
\* loop inside it is the caller's order alone.  The loop goes astray only after a push_back
\* that found the list full and came after the first call that sets codes: the handlers added
\* before that call, and those added later to a list with room, are safe
\* (DCI::_handle_log, DCIBase::add_log_handler).
LoopInList == pcR = "astray" => late

-----------------------------------------------------------------------------
(* The inductive invariant behind MaskMatches and SetOutcome.               *)

PcOK == pcC \in {"idle", "disable", "erase", "enable", "insert"}

\* What a call knows at each of its steps.
CallState ==
  /\ pcC # "idle" => ~failed
  /\ pcC = "disable" => codes = before
  /\ pcC \in {"enable", "insert"} /\ op = "set" => codes = {}

CodesIInv == PcOK /\ MaskMatches /\ CallState

\* Behind LoopInList: before the first call there is no mask, so no log can be on its way; and
\* until the list moves late, both iterators point into the block it has now.
BeforeFirstCall == calls = 0 => pcC = "idle" /\ mask = {} /\ logs = <<>> /\ pcR = "wait"

Iterators ==
  /\ pcR \in {"end", "loop"} => at[1] = storage
  /\ pcR = "end"  => at[2] <= handlers
  /\ pcR = "loop" => end[1] = storage /\ at[2] <= end[2] /\ end[2] <= handlers

LoopInv ==
  /\ calls \in Nat /\ handlers \in Nat
  /\ at \in Nat \X Nat /\ end \in Nat \X Nat /\ storage \in Nat
  /\ BeforeFirstCall
  /\ ~late => Iterators /\ pcR # "astray"
=============================================================================
