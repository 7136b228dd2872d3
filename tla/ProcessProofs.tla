--------------------------- MODULE ProcessProofs ----------------------------
(***************************************************************************)
(* Proofs that the properties of Process hold for every size of the        *)
(* process table and every number of terminals, as long as the environment *)
(* stays out of the windows (Windows = {}).  IInv of ProcessInv is shown   *)
(* to be inductive, one lemma per action; the properties follow from it.   *)
(***************************************************************************)
EXTENDS ProcessHaltProofs, ProcessReturnProofs

USE SizesAssumption DEF Pids, Roots, Nil, EnterProgram, AfterFree, Booting

-----------------------------------------------------------------------------
(* Every step. *)

(* A step that changes nothing keeps IInv. *)
LEMMA StutterIInv == IInv /\ UNCHANGED vars => IInv'
<1> SUFFICES ASSUME IInv, UNCHANGED vars PROVE IInv'
  OBVIOUS
<1>1. /\ UNCHANGED <<proc_id_used, active, parent, terminal_id, esp0, esp>>
      /\ UNCHANGED <<loc, halt_arg, cur, cr3, tss_esp0, paging, IFlag>>
      /\ UNCHANGED <<user_mem, shells_started, ret>>
  BY DEF vars, tables, pcbs, cpu
<1>2. TypeOK' /\ CurrentInv' /\ ArgInv'
  <2>1. TypeOK'
    BY <1>1 DEF IInv, TypeOK
  <2>2. CurrentInv'
    BY <1>1 DEF IInv, CurrentInv
  <2>3. ArgInv'
    BY <1>1 DEF IInv, ArgInv
  <2> QED BY <2>1, <2>2, <2>3
<1>3. OthersInv'
  <2>1. Gone' = Gone
    BY <1>1 DEF Gone
  <2>2. Interrupted' = Interrupted
    BY <1>1 DEF Interrupted
  <2>3. Suspended' = Suspended
    BY <1>1 DEF Suspended
  <2> QED BY <1>1, <2>1, <2>2, <2>3 DEF IInv, OthersInv
<1>4. Live' = Live /\ Waiting' = Waiting
  BY <1>1 DEF Live, Waiting
<1>5. ChainInv' /\ ForegroundInv' /\ ShellInv'
  BY <1>1, <1>4 DEF IInv, ChainInv, ForegroundInv, Foreground, ShellInv
<1> QED BY <1>2, <1>3, <1>5 DEF IInv

(* With the windows closed, switching the terminal loads the page          *)
(* directory that is loaded already.                                       *)
LEMMA SwitchTerminalsStutters ==
  ASSUME Windows = {}, IInv, SwitchTerminals
  PROVE  UNCHANGED vars
<1>1. loc[cur] \in {"user"} \cup HaltHead
  BY DEF SwitchTerminals, Interruptible, InProgram, IInv, CurrentInv, HaltHead,
         HaltTail
<1>2. cr3 = cur
  BY <1>1 DEF IInv, CurrentInv, HaltHead, HaltTail
<1> QED BY <1>1, <1>2 DEF SwitchTerminals, HaltHead, vars, tables, pcbs, cpu

(* IInv is inductive: no step of the kernel or of a program leaves it.     *)
LEMMA NextIInv == ASSUME Windows = {} PROVE IInv /\ [Next]_vars => IInv'
<1> SUFFICES ASSUME IInv, [Next]_vars PROVE IInv'
  OBVIOUS
<1>1. CASE Boot
  BY <1>1, BootIInv
<1>2. CASE Execute
  BY <1>2, ExecuteIInv
<1>3. CASE ExecuteBadFile
  BY <1>3, ExecuteBadFileIInv
<1>4. CASE ExecuteRefused
  BY <1>4, ExecuteRefusedIInv
<1>5. CASE HaltCall
  BY <1>5, HaltCallIInv
<1>6. CASE Exception
  BY <1>6, ExceptionIInv
<1>7. CASE HaltSteps
  BY <1>7, HaltClearIInv, HaltPagingIInv, HaltFreeIInv, HaltDeactivateIInv,
     HaltWakeIInv, HaltTssIInv, HaltRestartIInv, HaltReturnIInv DEF HaltSteps
<1>8. CASE Tick
  BY <1>8, TickStartShellIInv, TickSwitchIInv DEF Tick
<1>9. CASE SchedGoOn
  BY <1>9 DEF SchedGoOn, IInv, CurrentInv, HaltHead, HaltTail
<1>10. CASE SwitchTerminals
  BY <1>10, SwitchTerminalsStutters, StutterIInv
<1>11. CASE EnablePaging
  BY <1>11, EnablePagingIInv
<1>12. CASE UNCHANGED vars
  BY <1>12, StutterIInv
<1> QED BY <1>1, <1>2, <1>3, <1>4, <1>5, <1>6, <1>7, <1>8, <1>9, <1>10, <1>11,
           <1>12 DEF Next

(* The kernel never leaves IInv: the tables, the saved contexts and the    *)
(* process tree stay consistent through every execute, halt and tick.      *)
THEOREM InvariantHolds == ASSUME Windows = {} PROVE Spec => []IInv
<1>1. Init => IInv
  BY InitIInv
<1>2. IInv /\ [Next]_vars => IInv'
  BY NextIInv
<1> QED BY <1>1, <1>2, PTL DEF Spec

(* Every variable keeps its type.                                          *)
THEOREM TypeCorrect == ASSUME Windows = {} PROVE Spec => []TypeOK
<1>1. IInv => TypeOK
  BY DEF IInv
<1> QED BY <1>1, InvariantHolds, PTL

(* sched and halt always load the stack of a process (scheduler.c:48,      *)
(* syscall.c:188).                                                         *)
THEOREM SwitchSafe == ASSUME Windows = {} PROVE Spec => []SwitchesToProcess
<1>1. IInv => SwitchesToProcess
  BY DEF IInv, CurrentInv, SwitchesToProcess
<1> QED BY <1>1, InvariantHolds, PTL

(* A program always runs on its own page directory, memory and kernel      *)
(* stack, and the tables know it (execute, halt, sched).                   *)
THEOREM ContextSafe == ASSUME Windows = {} PROVE Spec => []RunsInOwnContext
<1>1. IInv => RunsInOwnContext
  BY DEF IInv, CurrentInv, RunsInOwnContext, Running, HaltHead, HaltTail,
      TypeOK
<1> QED BY <1>1, InvariantHolds, PTL

(* Each terminal that is up has exactly one process sched may pick         *)
(* (the writes to active[] in execute, halt and sched).                    *)
THEOREM ActiveSafe == ASSUME Windows = {} PROVE Spec => []OneActivePerTerminal
<1>1. ASSUME IInv, Running PROVE OneActivePerTerminal
  <2> USE <1>1 DEF IInv, Running
  <2>1. /\ cur \in Pids /\ loc[cur] = "user" /\ proc_id_used[cur] /\ active[cur]
        /\ Live = {p \in Pids : proc_id_used[p]}
    BY DEF CurrentInv, Live, HaltTail, HaltHead
  <2>2. \A p \in Pids : active[p] <=> p \in Foreground
    <3> SUFFICES ASSUME NEW p \in Pids PROVE active[p] <=> p \in Foreground
      OBVIOUS
    <3>1. CASE p = cur
      BY <2>1, <3>1 DEF Foreground, Waiting
    <3>2. CASE p # cur /\ loc[p] = "execute"
      BY <2>1, <3>2, SuspendedFacts DEF Foreground, Waiting
    <3>3. CASE p # cur /\ loc[p] # "execute"
      BY <2>1, <3>3, InterruptedFacts DEF Foreground, Waiting
    <3> QED BY <3>1, <3>2, <3>3
  <2>3. \A p \in Pids : active[p] => proc_id_used[p]
    BY <2>1, <2>2 DEF Foreground
  <2>4. ASSUME NEW t \in Roots, proc_id_used[t]
        PROVE  \E p \in Pids :
                 /\ active[p] /\ terminal_id[p] = t
                 /\ \A q \in Pids : active[q] /\ terminal_id[q] = t => q = p
    <3>1. PICK p \in Foreground : terminal_id[p] = t
      BY <2>1, <2>4 DEF ForegroundInv
    <3>2. p \in Pids
      BY <3>1 DEF Foreground, Live
    <3> QED BY <3>1, <3>2, <2>2 DEF ForegroundInv
  <2> QED BY <2>3, <2>4 DEF OneActivePerTerminal
<1>2. IInv => OneActivePerTerminal
  BY <1>1 DEF OneActivePerTerminal
<1> QED BY <1>2, InvariantHolds, PTL

(* Whoever does not run can be continued: where the timer interrupted it   *)
(* or where it waits for the one program it executed (sched, execute).     *)
THEOREM OthersSafe == ASSUME Windows = {} PROVE Spec => []OthersCanContinue
<1>1. ASSUME IInv, Running PROVE OthersCanContinue
  <2> USE <1>1 DEF IInv, Running
  <2>1. /\ loc[cur] = "user"
        /\ Live = {p \in Pids : proc_id_used[p]}
    BY DEF CurrentInv, Live, HaltTail, HaltHead
  <2>2. ASSUME NEW p \in Pids \ {cur}, loc[p] = "execute"
        PROVE  \E c \in Pids \ Roots :
                 /\ proc_id_used[c] /\ parent[c] = p
                 /\ terminal_id[c] = terminal_id[p]
                 /\ \A d \in Pids \ Roots :
                      proc_id_used[d] /\ parent[d] = p => d = c
    <3>1. PICK c \in Live \ Roots : parent[c] = p
      BY <2>2 DEF ChainInv, Waiting
    <3>2. c \in Pids \ Roots /\ proc_id_used[c] /\ terminal_id[c] = terminal_id[p]
      BY <2>1, <3>1 DEF ChainInv
    <3>3. \A d \in Pids \ Roots : proc_id_used[d] /\ parent[d] = p => d = c
      BY <2>1, <3>1 DEF ChainInv
    <3> QED BY <3>1, <3>2, <3>3
  <2>3. ASSUME NEW p \in Pids \ {cur}, proc_id_used[p]
        PROVE  \/ active[p] /\ loc[p] # "execute" /\ Intact(p, esp, loc)
               \/ /\ ~active[p] /\ loc[p] = "execute"
                  /\ Intact(p, esp, loc) /\ esp0[p] = p
    <3>1. CASE loc[p] = "execute"
      BY <2>1, <2>3, <3>1, SuspendedFacts DEF Intact
    <3>2. CASE loc[p] # "execute"
      BY <2>3, <3>2, InterruptedFacts DEF Intact
    <3> QED BY <3>1, <3>2
  <2> QED BY <2>2, <2>3 DEF OthersCanContinue
<1>2. IInv => OthersCanContinue
  BY <1>1 DEF OthersCanContinue
<1> QED BY <1>2, InvariantHolds, PTL

(* The page of a free pid has been zeroed (the memset of halt).            *)
THEOREM MemorySafe == ASSUME Windows = {} PROVE Spec => []ClearedWhenFree
<1>1. IInv => ClearedWhenFree
  <2> SUFFICES ASSUME IInv, NEW p \in Pids, ~proc_id_used[p]
               PROVE  user_mem[p] = "zero"
    BY DEF ClearedWhenFree
  <2>1. CASE p = cur
    BY <2>1 DEF IInv, CurrentInv, HaltHead, HaltTail, TypeOK
  <2>2. CASE p # cur
    BY <2>2, GoneFacts DEF IInv
  <2> QED BY <2>1, <2>2
<1> QED BY <1>1, InvariantHolds, PTL

(* The shells sched has counted are up (shells_started in sched).          *)
THEOREM ShellsSafe == ASSUME Windows = {} PROVE Spec => []ShellsAreStarted
<1>1. IInv => ShellsAreStarted
  BY DEF IInv, ShellInv, ShellsAreStarted, Running, Live, HaltTail
<1> QED BY <1>1, InvariantHolds, PTL

(* With the windows closed no tick interrupts the last step of halt.       *)
LEMMA NoTickThere ==
  ASSUME Windows = {}, IInv, loc[cur] = "halt_return"
  PROVE  ~Preemptible
BY TickPlace DEF HaltHead

(* halt ends in the waiting parent, or in a new shell on the pid of the    *)
(* root shell, with the right page directory and kernel stack (syscall.c   *)
(* lines 172 to 195).                                                      *)
THEOREM HaltSafe == ASSUME Windows = {} PROVE Spec => HaltReturnsToParent
<1> DEFINE Step ==
      cur # Nil /\ loc[cur] = "halt_return" /\ loc'[cur] # "halt_return" =>
       /\ cur' = parent[cur] /\ loc'[cur'] = "user"
       /\ cr3' = cur' /\ tss_esp0' = cur'
       /\ cur' # cur => loc[cur'] = "execute"
<1>1. ASSUME IInv, [Next]_vars PROVE Step
  <2> SUFFICES ASSUME loc[cur] = "halt_return", loc'[cur] # "halt_return"
               PROVE  /\ cur' = parent[cur] /\ loc'[cur'] = "user"
                      /\ cr3' = cur' /\ tss_esp0' = cur'
                      /\ cur' # cur => loc[cur'] = "execute"
    OBVIOUS
  <2> USE <1>1
  <2>1. HaltRestart \/ HaltReturn
    BY NoTickThere DEF Next, EnablePaging, Boot, Execute, ExecuteBadFile,
       ExecuteRefused, InProgram, HaltCall, Exception, HaltSteps, HaltClear,
       HaltPaging, HaltFree, HaltDeactivate, HaltWake, HaltTss, HaltStep, Tick,
       TickStartShell, TickSwitch, SchedGoOn, SwitchTerminals, vars
  <2>2. CASE HaltRestart
    <3>1. PICK pid \in Pids :
            /\ IsNewPid(pid)
            /\ StartProgram(pid, cur, active, esp,
                            [loc EXCEPT ![cur] = "idle"], NestedFrame)
      BY <2>2 DEF HaltRestart
    <3>2. pid = cur /\ parent[cur] = cur
      BY <2>2, <3>1, RestartPid DEF HaltRestart
    <3> QED BY <3>1, <3>2 DEF StartProgram, IInv, TypeOK
  <2>3. CASE HaltReturn
    <3>1. cr3 = parent[cur] /\ tss_esp0 = esp0[parent[cur]]
      BY DEF IInv, CurrentInv, HaltTail
    <3>2. cr3' = cr3 /\ tss_esp0' = tss_esp0
      BY <2>3 DEF HaltReturn
    <3>3. /\ cur' = parent[cur] /\ parent[cur] \in Pids
          /\ loc' = [loc EXCEPT ![cur] = "idle", ![parent[cur]] = "user"]
          /\ loc[parent[cur]] = "execute" /\ esp0[parent[cur]] = parent[cur]
      BY <2>3, ReturnTarget
    <3>4. loc'[parent[cur]] = "user"
      BY <3>3 DEF IInv, TypeOK
    <3> QED BY <3>1, <3>2, <3>3, <3>4
  <2> QED BY <2>1, <2>2, <2>3
<1> QED BY <1>1, InvariantHolds, PTL DEF Spec, HaltReturnsToParent

(* What execute returns tells a failure from a program's exit status       *)
(* (syscall.c lines 29 to 32, 61 to 64, 84 to 87 and 188 to 194).          *)
THEOREM ResultSafe == ASSUME Windows = {} PROVE Spec => []ResultRange
<1>1. Init => ResultRange
  BY DEF Init, ResultRange
<1>2. ASSUME IInv, ResultRange, [Next]_vars PROVE ResultRange'
  <2> USE <1>2
  <2>1. CASE ret' = ret
    BY <2>1 DEF ResultRange
  <2>2. CASE ExecuteBadFile \/ ExecuteRefused
    <3>1. ret' = [why |-> "failure", val |-> -1]
      BY <2>2 DEF ExecuteBadFile, ExecuteRefused
    <3>2. ret'.why = "failure" /\ ret'.val = -1
      BY <3>1
    <3> QED BY <3>2 DEF ResultRange
  <2>3. CASE HaltReturn
    <3>1. cur \in Pids /\ halt_arg[cur] \in HaltRecords
      BY <2>3, ReturnTarget DEF IInv, TypeOK
    <3>2. /\ halt_arg[cur].why \in {"none", "exit", "exception"}
          /\ halt_arg[cur].status \in 0 .. 255
      BY ONLY <3>1, HaltRecordFields, Zenon
    <3>3. ret' = [why |-> halt_arg[cur].why, val |-> halt_arg[cur].status]
      BY <2>3, ReturnTarget DEF HaltReturn
    <3>4. ret'.why \notin {"failure", "leftover"} /\ ret'.val \in 0 .. 255
      BY <3>2, <3>3
    <3> QED BY <3>4 DEF ResultRange
  <2>4. CASE TickSwitch
    BY <2>1, <2>4, SwitchKeepsResult
  <2>5. ~SchedGoOn
    BY DEF SchedGoOn, IInv, CurrentInv, HaltHead, HaltTail
  <2> QED BY <2>1, <2>2, <2>3, <2>4, <2>5
      DEF Next, EnablePaging, Boot, Execute, HaltCall, Exception, HaltSteps,
          HaltClear, HaltPaging, HaltFree, HaltDeactivate, HaltWake, HaltTss,
          HaltStep, HaltRestart, Tick, TickStartShell, SwitchTerminals, vars
<1> QED BY <1>1, <1>2, InvariantHolds, PTL DEF Spec

=============================================================================
