---------------------------- MODULE CircularLog ----------------------------
(***************************************************************************)
(* The files of on-device logging (diag_lsm.c, log_to_device in            *)
(* MEMORY_DEVICE_MODE and what it calls): a file per processor is written  *)
(* until it is full, the oldest files are deleted when there are too many  *)
(* (file_count) or the disk is full, and the names of the oldest are       *)
(* cached (file_list).                                                     *)
(*                                                                         *)
(* A file is named by the second it was opened in.  One thread runs this   *)
(* code (the write thread, and after it the thread that switches modes);   *)
(* the steps of a call are separate so that the clock can move, the file   *)
(* system can fail and the read thread can meet the first packet of a      *)
(* processor between them (which makes that processor READY).              *)
(***************************************************************************)
EXTENDS Integers, FiniteSets, Sequences, SequencesExt, FiniteSetsExt

CONSTANTS
  NumProc,       (* processors, numbered from MSM                          *)
  MaxFiles,      (* max_file_num                                           *)
  MaxSize, MinSize,   (* max_file_size, min_file_size, in packets          *)
  MaxList,       (* MAX_FILES_IN_FILE_LIST, without . and ..               *)
  Old,           (* files that may be there at the start, by name          *)
  MaxTime,       (* bound: the clock                                       *)
  MaxFaults      (* bound: failures of unlink, open, fstat and full disks  *)

MSM  == 1
Proc == MSM..NumProc
Name == 0..MaxTime

ASSUME CircularLogAssumption ==
  /\ NumProc \in Nat \ {0} /\ MaxFiles \in Nat /\ MaxFiles > 1 /\ MaxList \in Nat \ {0}
  /\ MaxSize \in Nat /\ MinSize \in Nat /\ MaxTime \in Nat \ {0} /\ MaxFaults \in Nat
  /\ Old \subseteq 1..(MaxTime - 1)

VARIABLES
  pc, who,       \* the step of log_to_device, its type
  z, rc, num,    \* loop variable, a deletion succeeded, num_lists
  dir,           \* the logging files in output_dir[p]
  cur,           \* file_name_curr[p]; 0: none yet
  open,          \* fd_md[p] >= 0
  size,          \* count_written_bytes[p]
  list,          \* file_list[p] from file_list_index[p]; empty: NULL
  count,         \* file_count
  ready,         \* the processors with buffer_init READY
  inited,        \* circular_logging_inited
  rename,        \* rename_file_names
  now, faults,   \* the clock, the failures so far
  disturbed,     \* history: file_count may differ from the number of files
  gaveUp,        \* history: a packet was dropped for want of a file to delete
  unlisted,      \* history: files that init_circular_logging did not count
  foreign,       \* history: files that it counted of processors that were not READY
  excess         \* history: files that it counted, found too many and could not delete

ctl   == <<pc, who, z, rc, num>>
files == <<dir, cur, open, size>>
env   == <<rename, now, excess>>
known == <<unlisted, foreign>>
vars  == <<ctl, files, list, count, ready, inited, env, faults, disturbed, gaveUp, known>>

BugScan(p) ==
  LET d == dir[p] IN
  [i \in 1..Min({Cardinality(d), MaxList}) |->
     CHOOSE n \in d : Cardinality({m \in d : m > n}) = i - 1]

\* The file of a directory that i - 1 others are older than.
Nth(d, i) == CHOOSE n \in d : Cardinality({m \in d : m < n}) = i - 1

\* alphasort, and the limit on the list.
Scan(p) == [i \in 1..Min({Cardinality(dir[p]), MaxList}) |-> Nth(dir[p], i)]

\* The files that the directories d have of the processors P, and of all.
StoredOf(d, P) == UNION {{p} \X d[p] : p \in P}
Stored(d) == StoredOf(d, Proc)
NumFiles == Cardinality(Stored(dir))

\* The sum of file_list_size.
ListedOf(P) == StoredOf([p \in Proc |-> DOMAIN list[p]], P)
Listed == ListedOf(Proc)

\* Before logging starts, get_circular_logging_info made a list for each processor whose mask
\* file was read.
Init ==
  /\ pc = "idle" /\ who = 1 /\ z = 1 /\ rc = FALSE /\ num = 0
  /\ dir \in [Proc -> SUBSET Old]
  /\ cur = [p \in Proc |-> 0] /\ open = [p \in Proc |-> FALSE] /\ size = [p \in Proc |-> 0]
  /\ \E made \in SUBSET Proc : list = [p \in Proc |-> IF p \in made THEN Scan(p) ELSE <<>>]
  /\ count = 0 /\ ready = {MSM} /\ inited = FALSE /\ rename \in BOOLEAN
  /\ now = Max(Old \cup {0}) + 1 /\ faults = 0
  /\ disturbed = FALSE /\ gaveUp = FALSE /\ unlisted = 0 /\ foreign = 0 /\ excess = 0

-----------------------------------------------------------------------------
(* delete_log, with get_oldest_file and create_oldest_file_list.            *)

Candidates(p) == IF list[p] = <<>> THEN Scan(p) ELSE list[p]

\* The oldest file of p is deleted.  Until p is READY its directory has no name yet: no file is
\* found.
BugDeletes(p) ==
  LET l == Candidates(p) IN
  /\ p \in ready /\ l # <<>> /\ Head(l) \in dir[p]
  /\ dir' = [dir EXCEPT ![p] = @ \ {Head(l)}]
  /\ list' = [list EXCEPT ![p] = Tail(l)]
  /\ UNCHANGED faults

Deletes(p) ==
  LET l == Candidates(p) IN
  /\ p \in ready /\ l # <<>> /\ Head(l) # cur[p] /\ Head(l) \in dir[p]
  /\ dir' = [dir EXCEPT ![p] = @ \ {Head(l)}]
  /\ list' = [list EXCEPT ![p] = Tail(l)]
  /\ UNCHANGED faults

\* Nothing is deleted: no file, the current one, one that is gone, or unlink() fails.  The
\* list has moved on all the same.
Refuses(p) ==
  LET l == Candidates(p) IN
  /\ UNCHANGED dir
  /\ list' = [list EXCEPT ![p] = IF l = <<>> THEN l ELSE Tail(l)]
  /\ IF p \notin ready \/ l = <<>> \/ Head(l) = cur[p] \/ Head(l) \notin dir[p]
       THEN UNCHANGED faults
       ELSE faults < MaxFaults /\ faults' = faults + 1

\* close_logging_file; with rename_file_names the file gets the name of the second t.
Close(p, t) ==
  /\ open' = [open EXCEPT ![p] = FALSE]
  /\ IF rename /\ cur[p] # 0
       THEN /\ cur' = [cur EXCEPT ![p] = t]
            /\ dir' = [dir EXCEPT ![p] = IF cur[p] \in @ THEN (@ \ {cur[p]}) \cup {t} ELSE @]
            /\ disturbed' = (disturbed \/ (cur[p] \in dir[p] \ {t} /\ t \in dir[p]))
       ELSE UNCHANGED <<cur, dir, disturbed>>

\* Of the second before now, if logging goes on (ODL_IN_PROGRESS).
InProgress == now - 1

-----------------------------------------------------------------------------
(* log_to_device.                                                           *)

L_Call(p) ==
  /\ pc = "idle" /\ p \in ready
  /\ who' = p /\ pc' = "device"
  /\ UNCHANGED <<z, rc, num, files, list, count, ready, inited, env, faults, disturbed, gaveUp,
                 known>>

\* The file is open, or one has to be opened.
L_Device ==
  /\ pc = "device"
  /\ pc' = IF open[who] THEN "write" ELSE IF inited THEN "check" ELSE "init"
  /\ UNCHANGED <<who, z, rc, num, files, list, count, ready, inited, env, faults, disturbed,
                 gaveUp, known>>

\* init_circular_logging counts the files in the lists.
I_Count ==
  /\ pc = "init"
  /\ inited' = TRUE
  /\ count' = Cardinality(Listed)
  /\ unlisted' = NumFiles - count'
  /\ foreign' = Cardinality(ListedOf(Proc \ ready))
  /\ IF count' >= MaxFiles /\ \E p \in Proc : list[p] # <<>>
       THEN pc' = "reduce" /\ z' = 1 /\ num' = 0
       ELSE pc' = "check" /\ UNCHANGED <<z, num>>
  /\ UNCHANGED <<who, rc, files, list, ready, env, faults, disturbed, gaveUp>>

\* It deletes one file of every list in turn, until there are few enough; an error ends the turn.
I_Reduce ==
  /\ pc = "reduce" /\ z <= NumProc
  /\ \/ list[z] = <<>> /\ z' = z + 1 /\ UNCHANGED <<num, dir, list, count, faults>>
     \/ list[z] # <<>> /\ Deletes(z) /\ count' = count - 1 /\ num' = num + 1 /\ z' = z + 1
     \/ list[z] # <<>> /\ Refuses(z) /\ z' = NumProc + 1 /\ UNCHANGED <<num, count>>
  /\ UNCHANGED <<pc, who, rc, cur, open, size, ready, inited, env, disturbed, gaveUp, known>>

I_Turn ==
  /\ pc = "reduce" /\ z > NumProc
  /\ IF count >= MaxFiles /\ num > 0
       THEN z' = 1 /\ num' = 0 /\ UNCHANGED <<pc, excess>>
       ELSE pc' = "check" /\ excess' = Max({0, count - MaxFiles}) /\ UNCHANGED <<z, num>>
  /\ UNCHANGED <<who, rc, files, list, count, ready, inited, rename, now, faults, disturbed,
                 gaveUp,
                 known>>

BugC_Check ==
  /\ pc = "check"
  /\ IF count > MaxFiles THEN pc' = "rotate" /\ z' = 1 /\ rc' = FALSE
                         ELSE pc' = "create" /\ UNCHANGED <<z, rc>>
  /\ UNCHANGED <<who, num, files, list, count, ready, inited, env, faults, disturbed, gaveUp,
                 known>>

C_Check ==
  /\ pc = "check"
  /\ IF count >= MaxFiles THEN pc' = "rotate" /\ z' = 1 /\ rc' = FALSE
                          ELSE pc' = "create" /\ UNCHANGED <<z, rc>>
  /\ UNCHANGED <<who, num, files, list, count, ready, inited, env, faults, disturbed, gaveUp,
                 known>>

BugC_Rotate ==
  /\ pc = "rotate" /\ z <= NumProc /\ z' = z + 1
  /\ \/ z \in ready /\ Deletes(z) /\ rc' = TRUE /\ count' = IF rc THEN count ELSE count - 1
     \/ z \in ready /\ Refuses(z) /\ UNCHANGED <<rc, count>>
     \/ z \notin ready /\ UNCHANGED <<rc, dir, list, count, faults>>
  /\ UNCHANGED <<pc, who, num, cur, open, size, ready, inited, env, disturbed, gaveUp, known>>

\* The oldest file of every READY processor is deleted.
C_Rotate ==
  /\ pc = "rotate" /\ z <= NumProc /\ z' = z + 1
  /\ \/ z \in ready /\ Deletes(z) /\ count' = count - 1 /\ rc' = TRUE
     \/ z \in ready /\ Refuses(z) /\ UNCHANGED <<rc, count>>
     \/ z \notin ready /\ UNCHANGED <<rc, dir, list, count, faults>>
  /\ UNCHANGED <<pc, who, num, cur, open, size, ready, inited, env, disturbed, gaveUp, known>>

\* If no deletion succeeded, the packet is dropped.
C_Rotated ==
  /\ pc = "rotate" /\ z > NumProc
  /\ pc' = IF rc THEN "create" ELSE "idle"
  /\ gaveUp' = (gaveUp \/ ~rc)
  /\ UNCHANGED <<who, z, rc, num, files, list, count, ready, inited, env, faults, disturbed,
                 known>>

\* open(O_CREAT | O_TRUNC): a second file of the same second is the same file.
C_Create ==
  /\ pc = "create"
  /\ cur' = [cur EXCEPT ![who] = now]
  /\ \/ /\ open' = [open EXCEPT ![who] = TRUE]
        /\ dir' = [dir EXCEPT ![who] = @ \cup {now}]
        /\ disturbed' = (disturbed \/ now \in dir[who])
        /\ count' = count + 1
        /\ pc' = "write" /\ UNCHANGED faults
     \/ /\ faults < MaxFaults /\ faults' = faults + 1
        /\ pc' = "idle" /\ UNCHANGED <<open, dir, disturbed, count>>
  /\ UNCHANGED <<who, z, rc, num, size, list, ready, inited, env, gaveUp, known>>

W_Write ==
  /\ pc = "write"
  /\ pc' = "idle"
  /\ IF size[who] + 1 >= MaxSize
       THEN Close(who, InProgress) /\ size' = [size EXCEPT ![who] = 0]
       ELSE size' = [size EXCEPT ![who] = @ + 1] /\ UNCHANGED <<dir, cur, open, disturbed>>
  /\ UNCHANGED <<who, z, rc, num, list, count, ready, inited, env, faults, gaveUp, known>>

\* fstat() fails: the file is closed and neither renamed nor its count of bytes reset.
W_Stat ==
  /\ pc = "write" /\ faults < MaxFaults
  /\ pc' = "idle" /\ faults' = faults + 1
  /\ open' = [open EXCEPT ![who] = FALSE]
  /\ UNCHANGED <<who, z, rc, num, dir, cur, size, list, count, ready, inited, env, disturbed,
                 gaveUp, known>>

\* ENOSPC.
W_Full ==
  /\ pc = "write" /\ faults < MaxFaults
  /\ pc' = "full" /\ z' = 1 /\ rc' = FALSE /\ faults' = faults + 1
  /\ UNCHANGED <<who, num, files, list, count, ready, inited, env, disturbed, gaveUp, known>>

\* The oldest file of every READY processor is deleted, here without file_count--.
F_Delete ==
  /\ pc = "full" /\ z <= NumProc /\ z' = z + 1
  /\ \/ z \in ready /\ Deletes(z) /\ rc' = TRUE /\ disturbed' = TRUE
     \/ z \in ready /\ Refuses(z) /\ UNCHANGED <<rc, disturbed>>
     \/ z \notin ready /\ UNCHANGED <<rc, dir, list, faults, disturbed>>
  /\ UNCHANGED <<pc, who, num, cur, open, size, count, ready, inited, env, gaveUp, known>>

\* The same packet again, in a new file if this one is big enough.
F_Again ==
  /\ pc = "full" /\ z > NumProc
  /\ pc' = IF rc THEN "device" ELSE "idle"
  /\ IF rc /\ size[who] > MinSize
       THEN Close(who, InProgress) /\ size' = [size EXCEPT ![who] = 0]
       ELSE UNCHANGED <<dir, cur, open, size, disturbed>>
  /\ UNCHANGED <<who, z, rc, num, list, count, ready, inited, env, faults, gaveUp, known>>

\* The end of the write thread closes the file, open or not (ODL_EXITING).
X_Close(p) ==
  /\ pc = "idle" /\ p \in ready
  /\ Close(p, now)
  /\ UNCHANGED <<ctl, size, list, count, ready, inited, env, faults, gaveUp, known>>

\* diag_switch_logging closes it once more.
S_Close(p) ==
  /\ pc = "idle" /\ p \in ready
  /\ Close(p, InProgress) /\ size' = [size EXCEPT ![p] = 0]
  /\ UNCHANGED <<ctl, list, count, ready, inited, env, faults, gaveUp, known>>

\* The read thread has the first packet of p: the directory gets its name and is made.
R_Ready(p) ==
  /\ p \notin ready /\ ready' = ready \cup {p}
  /\ UNCHANGED <<ctl, files, list, count, inited, env, faults, disturbed, gaveUp, known>>

T_Tick ==
  /\ now < MaxTime /\ now' = now + 1
  /\ UNCHANGED <<ctl, files, list, count, ready, inited, rename, excess, faults, disturbed,
                 gaveUp, known>>

LogToDevice == L_Device \/ I_Count \/ I_Reduce \/ I_Turn \/ C_Check \/ C_Rotate \/ C_Rotated
                 \/ C_Create \/ W_Write \/ W_Stat \/ W_Full \/ F_Delete \/ F_Again
Next == (\E p \in Proc : L_Call(p) \/ X_Close(p) \/ S_Close(p) \/ R_Ready(p))
          \/ LogToDevice \/ T_Tick
Spec == Init /\ [][Next]_vars

-----------------------------------------------------------------------------
TypeOK ==
  /\ pc \in {"idle", "device", "init", "reduce", "check", "rotate", "create", "write", "full"}
  /\ who \in Proc /\ z \in 1..(NumProc + 1) /\ rc \in BOOLEAN /\ num \in 0..NumProc
  /\ dir \in [Proc -> SUBSET Name] /\ cur \in [Proc -> Name] /\ open \in [Proc -> BOOLEAN]
  /\ size \in [Proc -> 0..MaxSize] /\ list \in [Proc -> Seq(Name)] /\ count \in Nat
  /\ inited \in BOOLEAN /\ rename \in BOOLEAN /\ now \in Name /\ faults \in 0..MaxFaults
  /\ disturbed \in BOOLEAN /\ gaveUp \in BOOLEAN /\ unlisted \in Nat /\ excess \in Nat
  /\ ready \subseteq Proc /\ MSM \in ready /\ foreign \in Nat

\* The file that is being written is never deleted, by a full directory, a full disk or an old
\* list.
InUseKept == \A p \in Proc : open[p] => cur[p] \in dir[p]

\* file_count is the number of files in all directories, plus those that were there before and in
\* no list; until a full disk deletes a file (the code then does not count down), or a second
\* file of the same second replaces the first.
CountMatches == inited /\ ~disturbed => count + unlisted = NumFiles

\* When a packet is written there are never more than max_file_num files, besides those that were
\* there before logging and were not listed or could not be deleted at its start.
FilesBounded == pc = "write" => NumFiles <= MaxFiles + unlisted + excess

\* A packet is dropped for want of a file to delete only after a fault or when file_count
\* was wrong, if closed files keep their names and more files are allowed than there are READY
\* processors and files that were counted although their processor had sent nothing yet.
\* (Rotation passes such a processor by: its files fill the limit, and cannot be deleted.)
KeepsLogging ==
  gaveUp => disturbed \/ faults > 0 \/ rename \/ MaxFiles <= Cardinality(ready) + foreign

-----------------------------------------------------------------------------
(* The inductive invariant behind the four properties.                      *)

Types ==
  /\ pc \in {"idle", "device", "init", "reduce", "check", "rotate", "create", "write", "full"}
  /\ who \in Proc /\ z \in 1..(NumProc + 1) /\ rc \in BOOLEAN
  /\ dir \in [Proc -> SUBSET Name] /\ cur \in [Proc -> Name] /\ open \in [Proc -> BOOLEAN]
  /\ list \in [Proc -> Seq(Name)] /\ count \in Int /\ unlisted \in Int /\ excess \in Nat
  /\ now \in Name \ {0} /\ faults \in Nat
  /\ inited \in BOOLEAN /\ disturbed \in BOOLEAN /\ gaveUp \in BOOLEAN
  /\ ready \subseteq Proc /\ foreign \in Nat

\* Logging to a file comes after the count, and a file is only created where none is open; the
\* processor is READY.
Started ==
  /\ pc \notin {"idle", "device", "init"} \/ (\E p \in Proc : open[p]) => inited
  /\ pc \in {"init", "reduce", "check", "rotate", "create"} => ~open[who]
  /\ pc = "init" => ~inited
  /\ ~inited => foreign = 0
  /\ pc # "idle" => who \in ready
  /\ \A p \in Proc \ ready : cur[p] = 0 /\ ~open[p]

\* There are never more files than counted, and a new one is only created below the limit.
Counted ==
  inited => /\ NumFiles <= count + unlisted
            /\ disturbed \/ NumFiles = count + unlisted
            /\ pc # "reduce" => count <= MaxFiles + excess
            /\ pc = "create" \/ (pc = "rotate" /\ rc) => count < MaxFiles + excess

\* As KeepsLogging has it.
Quiet ==
  ~disturbed /\ faults = 0 /\ ~rename /\ MaxFiles > Cardinality(ready) + foreign

\* The list l names files of the directory d in order; if it names the current file c it names
\* all that are older.
OldestOf(l, d, c) ==
  /\ \A i, j \in DOMAIN l : i < j => l[i] < l[j]
  /\ \A i \in DOMAIN l : l[i] \in d /\ (l[i] = c => \A n \in d : n < c => n \in ToSet(l))

\* The current file is the newest.
NewestLast(p) ==
  /\ \A n \in dir[p] : 0 < n /\ n <= now
  /\ cur[p] # 0 => cur[p] <= now /\ \A n \in dir[p] : n <= cur[p]

Tidy == \A p \in Proc : OldestOf(list[p], dir[p], cur[p]) /\ NewestLast(p)

\* The files of processors that are not READY were counted at the start or not listed.
Fresh == inited => Cardinality(StoredOf(dir, Proc \ ready)) <= foreign + unlisted

\* While nothing is disturbed, some processor has a file to spare that rotation will reach.
Spare ==
  pc = "rotate" /\ ~rc => \E p \in (z..NumProc) \cap ready : \E m, n \in dir[p] : m < n

NoneTwice == inited => unlisted >= 0
GoesOn == pc # "full" /\ ~gaveUp

Orderly == Tidy /\ NoneTwice /\ Fresh /\ Spare /\ GoesOn

IInv == Types /\ Started /\ Counted /\ InUseKept /\ (Quiet => Orderly)
=============================================================================
