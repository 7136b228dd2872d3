--------------------------- MODULE ProcessLemmas ----------------------------
(***************************************************************************)
(* Facts shared by the proofs that IInv of ProcessInv is inductive; and    *)
(* the initial state, the step of the boot code that turns paging on, and  *)
(* the system calls that do not change the process on the CPU: entering    *)
(* halt and the executes that fail.                                        *)
(***************************************************************************)
EXTENDS ProcessInv, TLAPS

USE SizesAssumption DEF Pids, Roots, Nil, EnterProgram, AfterFree, Booting

-----------------------------------------------------------------------------
(* Facts used by several actions. *)

(* The argument of halt fits into a uint8_t. *)
LEMMA ByteType == \A arg \in Int : arg % 256 \in 0 .. 255
OBVIOUS

(* The fields of what a halting process passes on. *)
LEMMA HaltRecordFields ==
  ASSUME NEW r \in HaltRecords
  PROVE  /\ r.why \in {"none", "exit", "exception"}
         /\ r.status \in 0 .. 255 /\ r.status \in Int
BY DEF HaltRecords

(* The process on the CPU is live once the boot code is done, and its      *)
(* parent is a process.                                                    *)
LEMMA CurrentIsLive ==
  ASSUME IInv, loc[cur] \notin Booting
  PROVE  /\ cur \in Pids /\ cur \in Live /\ cur \notin Waiting
         /\ parent[cur] \in Pids
<1>1. cur \in Pids /\ cur \in Live /\ cur \notin Waiting
  BY DEF IInv, CurrentInv, Live, Waiting, HaltHead, HaltTail
<1>2. parent[cur] \in Pids
  BY <1>1 DEF IInv, ChainInv, Live, TypeOK
<1> QED BY <1>1, <1>2

(* A process other than a root shell has a parent that waits. *)
LEMMA ParentWaits ==
  ASSUME IInv, loc[cur] \notin Booting
  PROVE  parent[cur] = cur \/ loc[parent[cur]] = "execute"
<1>1. cur \in Live
  BY CurrentIsLive
<1> QED BY <1>1 DEF IInv, ChainInv, Waiting

(* What a failing execute returns. *)
LEMMA FailureType == [why |-> "failure", val |-> -1] \in Results
BY DEF Results

(* A process that does not run keeps its place while its own state is left *)
(* alone, and, if it waits, is active when halt is about to return to it.  *)
LEMMA OtherKept ==
  ASSUME OthersInv, NEW p \in Pids, p # cur,
         loc'[p] = loc[p], proc_id_used'[p] = proc_id_used[p],
         user_mem'[p] = user_mem[p], halt_arg'[p] = halt_arg[p],
         loc[p] # "idle" => esp'[p] = esp[p] /\ esp0'[p] = esp0[p],
         loc[p] # "execute" => active'[p] = active[p],
         loc[p] = "execute" =>
           (active'[p] <=> /\ p = parent'[cur']
                           /\ loc'[cur'] \in {"halt_tss", "halt_return"})
  PROVE  p \in Gone' \cup Interrupted' \cup Suspended'
<1>1. CASE p \in Gone
  BY <1>1 DEF Gone
<1>2. CASE p \in Interrupted
  <2>1. loc[p] # "idle" /\ loc[p] # "execute"
    BY <1>2 DEF Interrupted, HaltHead
  <2> QED BY <1>2, <2>1 DEF Interrupted, Intact
<1>3. CASE p \in Suspended
  <2>1. loc[p] = "execute"
    BY <1>3 DEF Suspended
  <2> QED BY <1>3, <2>1 DEF Suspended, Intact
<1> QED BY <1>1, <1>2, <1>3 DEF OthersInv

(* What is known of a process that waits. *)
LEMMA SuspendedFacts ==
  ASSUME OthersInv, NEW p \in Pids, p # cur, loc[p] = "execute"
  PROVE  /\ proc_id_used[p] /\ user_mem[p] = "program"
         /\ esp[p] = "execute" /\ esp0[p] = p
         /\ active[p] <=> /\ p = parent[cur]
                          /\ loc[cur] \in {"halt_tss", "halt_return"}
BY DEF OthersInv, Gone, Interrupted, Suspended, HaltHead, Intact

(* What is known of one that was interrupted. *)
LEMMA InterruptedFacts ==
  ASSUME OthersInv, NEW p \in Pids, p # cur, loc[p] # "execute",
         proc_id_used[p] \/ active[p]
  PROVE  /\ loc[p] \in {"user"} \cup HaltHead
         /\ proc_id_used[p] /\ active[p]
         /\ esp[p] = loc[p]
         /\ user_mem[p] = "program" <=> loc[p] \in {"user", "halt_clear"}
BY DEF OthersInv, Gone, Interrupted, Suspended, Intact

(* What is known of a free pid. *)
LEMMA GoneFacts ==
  ASSUME OthersInv, NEW p \in Pids, p # cur, ~proc_id_used[p]
  PROVE  loc[p] = "idle" /\ ~active[p] /\ user_mem[p] = "zero"
BY DEF OthersInv, Gone, Interrupted, Suspended

(* A step that leaves alone who is live, who waits, and the PCBs of the    *)
(* live processes, leaves the shape of the process tree alone.             *)
LEMMA ShapeKept ==
  ASSUME IInv, loc[cur] \notin Booting,
         Live' = Live, Waiting' = Waiting,
         \A p \in Live : /\ parent'[p] = parent[p]
                         /\ terminal_id'[p] = terminal_id[p],
         shells_started' = shells_started
  PROVE  ChainInv' /\ ForegroundInv' /\ ShellInv'
<1> USE DEF IInv
<1>1. ChainInv'
  <2>1. \A p \in Live' : terminal_id'[p] \in Live'
    BY DEF ChainInv
  <2>2. \A p \in Live' \cap Roots : parent'[p] = p /\ terminal_id'[p] = p
    BY DEF ChainInv
  <2>3. ASSUME NEW p \in Live' \ Roots
        PROVE  /\ parent'[p] \in Live' \cap Waiting'
               /\ parent'[p] # p
               /\ terminal_id'[parent'[p]] = terminal_id'[p]
    <3>1. parent'[p] = parent[p] /\ terminal_id'[p] = terminal_id[p]
      BY <2>3
    <3>2. /\ parent[p] \in Live \cap Waiting
          /\ parent[p] # p
          /\ terminal_id[parent[p]] = terminal_id[p]
      BY <2>3 DEF ChainInv
    <3> QED BY <3>1, <3>2
  <2>4. \A p, q \in Live' \ Roots : parent'[p] = parent'[q] => p = q
    BY DEF ChainInv
  <2>5. \A p \in Waiting' : \E c \in Live' \ Roots : parent'[c] = p
    BY DEF ChainInv
  <2> QED BY <2>1, <2>2, <2>3, <2>4, <2>5 DEF ChainInv
<1>2. ForegroundInv'
  BY DEF ForegroundInv, Foreground
<1>3. ShellInv'
  BY DEF ShellInv
<1> QED BY <1>1, <1>2, <1>3

(* The effect of a successful execute on the types. *)
LEMMA StartProgramType ==
  ASSUME TypeOK, cur \in Pids, NEW pid \in Pids,
         NEW act \in [Pids -> BOOLEAN], NEW saved \in [Pids -> Contexts],
         NEW l \in [Pids -> Locs], NEW frame \in Contexts,
         StartProgram(pid, cur, act, saved, l, frame),
         shells_started' \in 1 .. NUM_TERMS, ret' = ret
  PROVE  TypeOK'
<1> USE DEF TypeOK, StartProgram
<1>1. NoArg \in HaltRecords
  BY DEF NoArg, HaltRecords
<1>2. NoEsp \in Contexts /\ NestedFrame \in Contexts
  BY <1>1 DEF NoEsp, NestedFrame, Contexts
<1>3. loc' \in [Pids -> Locs]
  BY DEF Locs
<1>4. halt_arg' \in [Pids -> HaltRecords]
  BY <1>1
<1>5. esp' \in [Pids -> Contexts]
  BY <1>2
<1>6. /\ proc_id_used' \in [Pids -> BOOLEAN]
      /\ active' \in [Pids -> BOOLEAN]
      /\ parent' \in [Pids -> Pids \cup {Nil}]
      /\ terminal_id' \in [Pids -> Roots]
      /\ esp0' \in [Pids -> Pids \cup {Nil}]
      /\ user_mem' \in [Pids -> {"zero", "program"}]
  OBVIOUS
<1> QED BY <1>3, <1>4, <1>5, <1>6

(* Who may come next: the saved contexts of all the processes are typed.   *)
LEMMA FrameTypes ==
  /\ NoArg \in HaltRecords
  /\ NoEsp \in Contexts /\ NestedFrame \in Contexts
  /\ "execute" \in Contexts /\ "sched_execute" \in Contexts
BY DEF NoArg, HaltRecords, NoEsp, NestedFrame, Contexts, Locs, InSched

-----------------------------------------------------------------------------
(* The initial state. *)

(* The boot state satisfies the invariant. *)
LEMMA InitIInv == Init => IInv
<1> SUFFICES ASSUME Init PROVE IInv
  OBVIOUS
<1> USE DEF Init
<1>1. TypeOK
  <2>1. loc \in [Pids -> Locs] /\ ret \in Results
    BY DEF Locs, Results
  <2>2. halt_arg \in [Pids -> HaltRecords] /\ esp \in [Pids -> Contexts]
    BY FrameTypes
  <2>3. /\ proc_id_used \in [Pids -> BOOLEAN] /\ active \in [Pids -> BOOLEAN]
        /\ parent \in [Pids -> Pids \cup {Nil}]
        /\ terminal_id \in [Pids -> Roots]
        /\ esp0 \in [Pids -> Pids \cup {Nil}]
        /\ user_mem \in [Pids -> {"zero", "program"}]
    OBVIOUS
  <2>4. /\ cur \in Pids \cup {Nil} /\ cr3 \in Pids \cup {Nil}
        /\ tss_esp0 \in Pids \cup {Nil} /\ shells_started \in 1 .. NUM_TERMS
    OBVIOUS
  <2>5. paging \in BOOLEAN /\ IFlag \in BOOLEAN
    BY Zenon
  <2> HIDE DEF Init
  <2> QED BY <2>1, <2>2, <2>3, <2>4, <2>5 DEF TypeOK
<1>2. CurrentInv
  BY DEF CurrentInv
<1>3. OthersInv /\ ArgInv
  BY DEF OthersInv, Gone, ArgInv
<1>4. Live = {} /\ Waiting = {}
  BY DEF Live, Waiting, HaltTail
<1>5. ChainInv
  BY <1>4 DEF ChainInv
<1>6. ForegroundInv
  BY <1>4 DEF ForegroundInv, Foreground
<1>7. ShellInv
  BY DEF ShellInv
<1> QED BY <1>1, <1>2, <1>3, <1>5, <1>6, <1>7 DEF IInv

(* Turning paging on keeps the invariant: there is no process yet. *)
LEMMA EnablePagingIInv == IInv /\ EnablePaging => IInv'
<1> SUFFICES ASSUME IInv, EnablePaging PROVE IInv'
  OBVIOUS
<1>1. /\ loc[cur] = "boot_unpaged" /\ loc' = [loc EXCEPT ![cur] = "boot"]
      /\ cr3' = Nil /\ paging' = TRUE
      /\ UNCHANGED <<proc_id_used, active, parent, terminal_id, esp0, esp>>
      /\ UNCHANGED <<halt_arg, cur, tss_esp0, IFlag, user_mem>>
      /\ UNCHANGED <<shells_started, ret>>
  BY DEF EnablePaging, tables, pcbs
<1>2. /\ cur \in Pids /\ loc \in [Pids -> Locs]
      /\ loc'[cur] = "boot" /\ \A p \in Pids \ {cur} : loc'[p] = loc[p]
  BY <1>1 DEF IInv, CurrentInv, TypeOK
<1>3. TypeOK'
  <2>1. loc' \in [Pids -> Locs]
    BY <1>1, <1>2 DEF Locs
  <2> QED BY <1>1, <2>1 DEF IInv, TypeOK
<1>4. CurrentInv'
  BY <1>1, <1>2 DEF IInv, CurrentInv
<1>5. ArgInv'
  BY <1>1, <1>2 DEF IInv, ArgInv, HaltHead, HaltTail
<1>6. OthersInv'
  <2>1. ASSUME NEW p \in Pids, p # cur PROVE p \in Gone'
    <3>1. ~proc_id_used[p]
      BY <1>1 DEF IInv, CurrentInv
    <3> QED BY <1>1, <1>2, <2>1, <3>1, GoneFacts DEF IInv, Gone
  <2> QED BY <1>1, <2>1 DEF OthersInv
<1>7. Live' = Live /\ Waiting' = Waiting
  BY <1>1, <1>2 DEF Live, Waiting, HaltTail
<1>8. ChainInv' /\ ForegroundInv' /\ ShellInv'
  BY <1>1, <1>2, <1>7
     DEF IInv, ChainInv, ForegroundInv, Foreground, ShellInv
<1> QED BY <1>3, <1>4, <1>5, <1>6, <1>8 DEF IInv

-----------------------------------------------------------------------------
(* The system calls that do not switch. *)

(* Entering halt through the system call keeps the invariant. *)
LEMMA HaltCallIInv == IInv /\ HaltCall => IInv'
<1> SUFFICES ASSUME IInv, HaltCall PROVE IInv'
  OBVIOUS
<1> USE DEF HaltCall, InProgram, tables, pcbs, cpu, HaltHead, HaltTail
<1>1. loc[cur] \notin Booting /\ shells_started' = shells_started /\ cur' = cur
  OBVIOUS
<1>2. cur \in Pids /\ cur \in Live /\ parent[cur] \in Pids
  BY <1>1, CurrentIsLive
<1>3. TypeOK'
  <2>1. halt_arg' \in [Pids -> HaltRecords]
    BY <1>2, ByteType, HaltArgsAssumption DEF IInv, TypeOK, HaltRecords
  <2>2. loc' \in [Pids -> Locs]
    BY <1>2 DEF IInv, TypeOK, Locs
  <2>3. UNCHANGED <<proc_id_used, active, parent, terminal_id, esp0, esp, cur,
                    cr3, tss_esp0, paging, IFlag, user_mem, shells_started, ret>>
    OBVIOUS
  <2> HIDE DEF HaltCall
  <2> QED BY <2>1, <2>2, <2>3 DEF IInv, TypeOK
<1>4. CurrentInv'
  BY <1>2 DEF IInv, CurrentInv, TypeOK
<1>5. ArgInv'
  BY <1>2 DEF IInv, ArgInv, TypeOK
<1>6. OthersInv'
  <2>1. ASSUME NEW p \in Pids, p # cur
        PROVE  /\ loc'[p] = loc[p] /\ proc_id_used'[p] = proc_id_used[p]
               /\ user_mem'[p] = user_mem[p] /\ halt_arg'[p] = halt_arg[p]
               /\ loc[p] # "idle" => esp'[p] = esp[p] /\ esp0'[p] = esp0[p]
    BY <1>2, <2>1 DEF IInv, TypeOK
  <2>2. ASSUME NEW p \in Pids, p # cur
        PROVE  /\ loc[p] # "execute" => active'[p] = active[p]
               /\ loc[p] = "execute" =>
                    (active'[p] <=>
                       /\ p = parent'[cur]
                       /\ loc'[cur] \in {"halt_tss", "halt_return"})
    BY <1>2, <2>2, SuspendedFacts DEF IInv, TypeOK
  <2> QED BY <1>1, <2>1, <2>2, OtherKept DEF IInv, OthersInv
<1>7. Live' = Live /\ Waiting' = Waiting
  BY <1>1, <1>2, <1>6 DEF IInv, Live, Waiting, CurrentInv, TypeOK
<1>8. \A p \in Live : parent'[p] = parent[p] /\ terminal_id'[p] = terminal_id[p]
  BY <1>2 DEF IInv, Live, TypeOK
<1>9. ChainInv' /\ ForegroundInv' /\ ShellInv'
  BY <1>1, <1>7, <1>8, ShapeKept
<1> QED BY <1>3, <1>4, <1>5, <1>6, <1>9 DEF IInv

(* Entering halt from an exception keeps the invariant. *)
LEMMA ExceptionIInv == IInv /\ Exception => IInv'
<1> SUFFICES ASSUME IInv, Exception PROVE IInv'
  OBVIOUS
<1> USE DEF Exception, InProgram, tables, pcbs, cpu, HaltHead, HaltTail
<1>1. loc[cur] \notin Booting /\ shells_started' = shells_started /\ cur' = cur
  OBVIOUS
<1>2. cur \in Pids /\ cur \in Live /\ parent[cur] \in Pids
  BY <1>1, CurrentIsLive
<1>3. TypeOK'
  <2>1. (-1) % 256 \in 0 .. 255
    <3>1. -1 \in Int
      OBVIOUS
    <3> QED BY <3>1, ByteType
  <2>2. [why |-> "exception", status |-> (-1) % 256] \in HaltRecords
    BY <2>1 DEF HaltRecords
  <2>3. halt_arg' \in [Pids -> HaltRecords]
    BY <1>2, <2>2 DEF IInv, TypeOK
  <2> QED BY <1>2, <2>3 DEF IInv, TypeOK, Locs
<1>4. CurrentInv'
  BY <1>2 DEF IInv, CurrentInv, TypeOK
<1>5. ArgInv'
  BY <1>2 DEF IInv, ArgInv, TypeOK
<1>6. OthersInv'
  <2>1. ASSUME NEW p \in Pids, p # cur
        PROVE  /\ loc'[p] = loc[p] /\ proc_id_used'[p] = proc_id_used[p]
               /\ user_mem'[p] = user_mem[p] /\ halt_arg'[p] = halt_arg[p]
               /\ loc[p] # "idle" => esp'[p] = esp[p] /\ esp0'[p] = esp0[p]
    BY <1>2, <2>1 DEF IInv, TypeOK
  <2>2. ASSUME NEW p \in Pids, p # cur
        PROVE  /\ loc[p] # "execute" => active'[p] = active[p]
               /\ loc[p] = "execute" =>
                    (active'[p] <=>
                       /\ p = parent'[cur]
                       /\ loc'[cur] \in {"halt_tss", "halt_return"})
    BY <1>2, <2>2, SuspendedFacts DEF IInv, TypeOK
  <2> QED BY <1>1, <2>1, <2>2, OtherKept DEF IInv, OthersInv
<1>7. Live' = Live /\ Waiting' = Waiting
  BY <1>1, <1>2, <1>6 DEF IInv, Live, Waiting, CurrentInv, TypeOK
<1>8. \A p \in Live : parent'[p] = parent[p] /\ terminal_id'[p] = terminal_id[p]
  BY <1>2 DEF IInv, Live, TypeOK
<1>9. ChainInv' /\ ForegroundInv' /\ ShellInv'
  BY <1>1, <1>7, <1>8, ShapeKept
<1> QED BY <1>3, <1>4, <1>5, <1>6, <1>9 DEF IInv

(* An execute that fails on its file keeps the invariant. *)
LEMMA ExecuteBadFileIInv == IInv /\ ExecuteBadFile => IInv'
<1> SUFFICES ASSUME IInv, ExecuteBadFile PROVE IInv'
  OBVIOUS
<1>1. PICK pid \in Pids :
        /\ ~proc_id_used[pid]
        /\ parent' = [parent EXCEPT ![pid] = IF pid = 0 THEN 0 ELSE Nil]
        /\ terminal_id' = [terminal_id EXCEPT ![pid] = 0]
        /\ esp0' = [esp0 EXCEPT ![pid] = Nil]
        /\ esp' = [esp EXCEPT ![pid] = NoEsp]
  BY DEF ExecuteBadFile, IsNewPid
<1>2. /\ loc[cur] = "user" /\ shells_started' = shells_started /\ cur' = cur
      /\ ret' = [why |-> "failure", val |-> -1]
      /\ UNCHANGED <<proc_id_used, active, loc, halt_arg, cr3, tss_esp0>>
      /\ UNCHANGED <<paging, IFlag, user_mem>>
  BY DEF ExecuteBadFile, InProgram, tables, cpu
<1>3. cur \in Pids /\ cur \in Live /\ proc_id_used[cur]
  BY <1>2, CurrentIsLive DEF Live, HaltTail
<1>4. pid # cur /\ loc[pid] = "idle"
  BY <1>1, <1>3, GoneFacts DEF IInv
<1>5. \A p \in Pids \ {pid} :
        /\ parent'[p] = parent[p] /\ terminal_id'[p] = terminal_id[p]
        /\ esp0'[p] = esp0[p] /\ esp'[p] = esp[p]
  BY <1>1 DEF IInv, TypeOK
<1>6. TypeOK'
  <2>1. /\ parent' \in [Pids -> Pids \cup {Nil}]
        /\ terminal_id' \in [Pids -> Roots]
        /\ esp0' \in [Pids -> Pids \cup {Nil}]
    BY <1>1 DEF IInv, TypeOK
  <2>2. esp' \in [Pids -> Contexts]
    BY <1>1, FrameTypes DEF IInv, TypeOK
  <2> QED BY <1>2, <2>1, <2>2, FailureType DEF IInv, TypeOK
<1>7. CurrentInv'
  BY <1>2, <1>3, <1>4, <1>5 DEF IInv, CurrentInv, HaltTail
<1>8. ArgInv'
  BY <1>2 DEF IInv, ArgInv
<1>9. OthersInv'
  <2>1. ASSUME NEW p \in Pids, p # cur
        PROVE  /\ loc[p] # "idle" => esp'[p] = esp[p] /\ esp0'[p] = esp0[p]
               /\ loc[p] = "execute" => ~active'[p]
    BY <1>2, <1>4, <1>5, <2>1, SuspendedFacts DEF IInv
  <2> QED BY <1>2, <2>1, OtherKept DEF IInv, OthersInv
<1>10. Live' = Live /\ Waiting' = Waiting
  BY <1>2 DEF Live, Waiting
<1>11. \A p \in Live : /\ parent'[p] = parent[p]
                       /\ terminal_id'[p] = terminal_id[p]
  BY <1>1, <1>2, <1>5 DEF Live, HaltTail
<1>12. ChainInv' /\ ForegroundInv' /\ ShellInv'
  BY <1>2, <1>10, <1>11, ShapeKept
<1> QED BY <1>6, <1>7, <1>8, <1>9, <1>12 DEF IInv

(* An execute without a command or a free pid keeps the invariant. *)
LEMMA ExecuteRefusedIInv == IInv /\ ExecuteRefused => IInv'
<1> SUFFICES ASSUME IInv, ExecuteRefused PROVE IInv'
  OBVIOUS
<1> USE DEF ExecuteRefused, InProgram, tables, pcbs, cpu, HaltHead, HaltTail
<1>1. loc[cur] \notin Booting /\ shells_started' = shells_started /\ cur' = cur
  OBVIOUS
<1>2. cur \in Pids /\ cur \in Live /\ parent[cur] \in Pids
  BY <1>1, CurrentIsLive
<1>3. TypeOK'
  BY <1>2, FailureType DEF IInv, TypeOK
<1>4. CurrentInv'
  BY <1>2 DEF IInv, CurrentInv, TypeOK
<1>5. ArgInv'
  BY <1>2 DEF IInv, ArgInv, TypeOK
<1>6. OthersInv'
  <2>1. ASSUME NEW p \in Pids, p # cur
        PROVE  /\ loc'[p] = loc[p] /\ proc_id_used'[p] = proc_id_used[p]
               /\ user_mem'[p] = user_mem[p] /\ halt_arg'[p] = halt_arg[p]
               /\ loc[p] # "idle" => esp'[p] = esp[p] /\ esp0'[p] = esp0[p]
    BY <1>2, <2>1 DEF IInv, TypeOK
  <2>2. ASSUME NEW p \in Pids, p # cur
        PROVE  /\ loc[p] # "execute" => active'[p] = active[p]
               /\ loc[p] = "execute" =>
                    (active'[p] <=>
                       /\ p = parent'[cur]
                       /\ loc'[cur] \in {"halt_tss", "halt_return"})
    BY <1>2, <2>2, SuspendedFacts DEF IInv, TypeOK
  <2> QED BY <1>1, <2>1, <2>2, OtherKept DEF IInv, OthersInv
<1>7. Live' = Live /\ Waiting' = Waiting
  BY <1>1, <1>2, <1>6 DEF IInv, Live, Waiting, CurrentInv, TypeOK
<1>8. \A p \in Live : parent'[p] = parent[p] /\ terminal_id'[p] = terminal_id[p]
  BY <1>2 DEF IInv, Live, TypeOK
<1>9. ChainInv' /\ ForegroundInv' /\ ShellInv'
  BY <1>1, <1>7, <1>8, ShapeKept
<1> QED BY <1>3, <1>4, <1>5, <1>6, <1>9 DEF IInv

=============================================================================
