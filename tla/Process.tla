------------------------------ MODULE Process ------------------------------
(***************************************************************************)
(* The process table and the context switches of the kernel: execute and   *)
(* halt (syscall.c), sched and get_next_proc (scheduler.c), the exception  *)
(* handlers and the timer handler (idt.c), the reload of the page          *)
(* directory when the terminal is switched (keyboard.c), and the boot code *)
(* from its first sti to the first shell (kernel.c).                       *)
(*                                                                         *)
(* One CPU runs on one kernel stack at a time.  The stack identifies the   *)
(* process (cur_pcb masks esp), so `cur' is the pid whose stack esp points *)
(* into, and loc[p] is where the code on the stack of p stands.  A saved   *)
(* esp/ebp pair names the place its frame belongs to; it can be continued  *)
(* as long as the stack still stands there.                                *)
(* execute and sched run with interrupts masked and are single steps.      *)
(* halt called through the trap gate of int 0x80 runs with interrupts      *)
(* enabled, so each of its writes to shared state is a step.               *)
(*                                                                         *)
(* Windows names the places where the environment is allowed to interfere  *)
(* although the code is not prepared for it:                               *)
(*   "unpaged"  a timer tick between the sti of keyboard_install           *)
(*              (keyboard.c:68) and enablePaging (kernel.c:325)            *)
(*   "boot"     a timer tick between enablePaging and the cli of the first *)
(*              execute (kernel.c:373)                                     *)
(*   "startup"  a program runs execute before all shells are up            *)
(*   "halt"     a timer tick after halt has loaded the parent's page       *)
(*              directory (syscall.c:172) and before it has left           *)
(*   "switch"   a key that switches the terminal, in the same part of halt *)
(*              or while the kernel boots                                  *)
(*                                                                         *)
(* A program that runs outside its own context (see RunsInOwnContext)      *)
(* executes memory that is not its own: what it does is not followed.      *)
(*                                                                         *)
(* A definition marked "Fault:" is a variant of the one below it with a    *)
(* plausible programming error.  No specification uses it; it serves to    *)
(* show which property would notice the error.                             *)
(***************************************************************************)
EXTENDS Integers

CONSTANTS
  MAX_USER_PROG,   \* size of the process table
  NUM_TERMS,       \* terminals; pids 0 .. NUM_TERMS-1 are their root shells
  HaltArgs,        \* arguments programs pass to the halt system call
  Windows          \* see above

ASSUME SizesAssumption ==
  /\ MAX_USER_PROG \in Nat
  /\ NUM_TERMS \in Nat \ {0}
  /\ NUM_TERMS <= MAX_USER_PROG
ASSUME HaltArgsAssumption == HaltArgs \subseteq Int
ASSUME WindowsAssumption ==
  Windows \subseteq {"unpaged", "boot", "startup", "halt", "switch"}

Pids == 0 .. MAX_USER_PROG - 1
Roots == 0 .. NUM_TERMS - 1
Nil == -1                        \* a null pointer; as cur: esp is garbage

VARIABLES
  proc_id_used,    \* [Pids -> BOOLEAN]
  active,          \* [Pids -> BOOLEAN]
  parent,          \* pcb->parent, as a pid
  terminal_id,     \* pcb->terminal_id
  esp0,            \* pcb->esp0, as the pid whose stack top it is
  esp,             \* pcb->esp and pcb->ebp
  loc,             \* where the code on each kernel stack stands
  halt_arg,        \* the status a halting process passes on, and why it halts
  cur,             \* cur_pcb: the pid whose kernel stack is in use
  cr3,             \* the pid whose page directory is loaded, Nil: the kernel's
  tss_esp0,        \* tss.esp0, as the pid whose stack top it is
  paging,          \* is paging enabled (cr0)?
  IFlag,           \* the interrupt flag
  user_mem,        \* the 4MB user page of each pid
  shells_started,
  ret              \* what execute last returned to a program

tables == <<proc_id_used, active>>
pcbs == <<parent, terminal_id, esp0, esp>>
cpu == <<cur, cr3, tss_esp0, paging, IFlag>>
vars == <<tables, pcbs, loc, halt_arg, cpu, user_mem, shells_started, ret>>

-----------------------------------------------------------------------------
(* Types. *)

HaltHead == {"halt_clear", "halt_paging"}
AfterFree == {"halt_deactivate", "halt_wake", "halt_tss", "halt_return"}
HaltTail == {"halt_free"} \cup AfterFree
Booting == {"boot_unpaged", "boot"}

(* "execute" and "sched_execute": in an execute that the program or sched  *)
(* has called.  "sched": in sched, after such an execute has returned.     *)
(* "left": sched has left the stack from there without saving it again.    *)
InSched == {"sched_execute", "sched", "left"}
Locs == {"idle", "user", "execute"} \cup InSched
          \cup Booting \cup HaltHead \cup HaltTail

NoArg == [why |-> "none", status |-> 0]
HaltRecords == [why : {"none", "exit", "exception"}, status : 0 .. 255]

(* A saved esp/ebp pair is the place its frame belongs to.  NoEsp is the   *)
(* null esp of a cleared PCB.  NestedFrame is a frame of an execute that   *)
(* halt or the boot code has called, which the new program overwrites, or  *)
(* one that lies on another process's stack.                               *)
NoEsp == "none"
NestedFrame == "nested"
Contexts == Locs \cup {NoEsp, NestedFrame}

Results == [why : {"none", "failure", "exit", "exception", "leftover"},
            val : Int]

TypeOK ==
  /\ proc_id_used \in [Pids -> BOOLEAN]
  /\ active \in [Pids -> BOOLEAN]
  /\ parent \in [Pids -> Pids \cup {Nil}]
  /\ terminal_id \in [Pids -> Roots]
  /\ esp0 \in [Pids -> Pids \cup {Nil}]
  /\ esp \in [Pids -> Contexts]
  /\ loc \in [Pids -> Locs]
  /\ halt_arg \in [Pids -> HaltRecords]
  /\ cur \in Pids \cup {Nil}
  /\ cr3 \in Pids \cup {Nil}
  /\ tss_esp0 \in Pids \cup {Nil}
  /\ paging \in BOOLEAN
  /\ IFlag \in BOOLEAN
  /\ user_mem \in [Pids -> {"zero", "program"}]
  /\ shells_started \in 1 .. NUM_TERMS
  /\ ret \in Results

-----------------------------------------------------------------------------
(* kernel.c: keyboard_install has just enabled interrupts, and the timer's *)
(* line is unmasked.  The boot code runs on the stack of pid 0; paging is  *)
(* still off.                                                              *)

Init ==
  /\ proc_id_used = [p \in Pids |-> FALSE]
  /\ active = [p \in Pids |-> FALSE]
  /\ parent = [p \in Pids |-> Nil]
  /\ terminal_id = [p \in Pids |-> 0]
  /\ esp0 = [p \in Pids |-> Nil]
  /\ esp = [p \in Pids |-> NoEsp]
  /\ loc = [p \in Pids |-> IF p = 0 THEN "boot_unpaged" ELSE "idle"]
  /\ halt_arg = [p \in Pids |-> NoArg]
  /\ cur = 0
  /\ cr3 = Nil
  /\ tss_esp0 = 0
  /\ paging = FALSE
  /\ IFlag = TRUE
  /\ user_mem = [p \in Pids |-> "zero"]
  /\ shells_started = 1
  /\ ret = [why |-> "none", val |-> 0]

-----------------------------------------------------------------------------
(* execute *)

(* A program runs, in its own context: the actions of programs. *)
InProgram ==
  /\ cur # Nil /\ loc[cur] = "user"
  /\ paging /\ cr3 = cur /\ tss_esp0 = cur

(* Fault: the search consults active instead of proc_id_used. *)
IsNewPidActive(pid) ==
  /\ ~active[pid]
  /\ \A q \in Pids : q < pid => active[q]

(* The search loop takes the lowest pid that is not in use. *)
IsNewPid(pid) ==
  /\ ~proc_id_used[pid]
  /\ \A q \in Pids : q < pid => proc_id_used[q]

TableFull == \A p \in Pids : proc_id_used[p]

(* Fault: the interrupt flag is not set in the flags that iret loads. *)
EnterProgramMasked(pid) ==
  /\ cur' = pid /\ cr3' = pid /\ tss_esp0' = pid /\ IFlag' = FALSE
  /\ UNCHANGED paging

(* Paging, TSS and iret: the program runs on the stack of its pid. *)
EnterProgram(pid) ==
  /\ cur' = pid /\ cr3' = pid /\ tss_esp0' = pid /\ IFlag' = TRUE
  /\ UNCHANGED paging

(* The rest of a successful execute, up to and including iret.  caller is  *)
(* the process on whose stack it runs; act, saved and l are `active', the  *)
(* saved contexts and loc as the caller leaves them; frame is the frame of *)
(* this execute.  The pids of the root shells are their own parents, and   *)
(* the frame they save lies on the caller's stack; everyone else's parent  *)
(* is the caller.  With paging off the program is not loaded into its page.*)
StartProgram(pid, caller, act, saved, l, frame) ==
  LET par == IF pid \in Roots THEN pid ELSE caller
  IN  /\ proc_id_used' = [proc_id_used EXCEPT ![pid] = TRUE]
      /\ parent' = [parent EXCEPT ![pid] = par]
      /\ terminal_id' = [terminal_id EXCEPT
           ![pid] = IF pid \in Roots THEN pid ELSE terminal_id[caller]]
      /\ esp0' = [esp0 EXCEPT ![pid] = Nil, ![par] = tss_esp0]
      /\ active' = [act EXCEPT ![par] = FALSE, ![pid] = TRUE]
      /\ esp' = [saved EXCEPT ![pid] = NoEsp,
           ![par] = IF pid \in Roots THEN NestedFrame ELSE frame]
      /\ loc' = [l EXCEPT ![pid] = "user"]
      /\ halt_arg' = [p \in Pids |->
           IF p # pid /\ l[p] \in HaltHead \cup HaltTail THEN halt_arg[p]
           ELSE NoArg]
      /\ user_mem' = [user_mem EXCEPT ![pid] = IF paging THEN "program" ELSE @]
      /\ EnterProgram(pid)

(* Running a program: the execute system call. *)
Execute ==
  /\ InProgram
  /\ shells_started = NUM_TERMS \/ "startup" \in Windows
  /\ \E pid \in Pids :
       /\ IsNewPid(pid)
       /\ StartProgram(pid, cur, active, esp,
                       [loc EXCEPT ![cur] = "execute"], "execute")
  /\ UNCHANGED <<shells_started, ret>>

(* Fault: a failing execute frees the pid of its caller as well. *)
ExecuteBadFileFreesCaller ==
  /\ InProgram
  /\ \E pid \in Pids : IsNewPid(pid)
  /\ proc_id_used' = [proc_id_used EXCEPT ![cur] = FALSE]
  /\ ret' = [why |-> "failure", val |-> -1]
  /\ UNCHANGED <<active, pcbs, loc, halt_arg, cpu, user_mem, shells_started>>

(* Fault: the saved esp survives when the PCB is cleared. *)
ExecuteBadFileKeepsEsp ==
  /\ InProgram
  /\ \E pid \in Pids :
       /\ IsNewPid(pid)
       /\ parent' = [parent EXCEPT ![pid] = IF pid = 0 THEN 0 ELSE Nil]
       /\ terminal_id' = [terminal_id EXCEPT ![pid] = 0]
       /\ esp0' = [esp0 EXCEPT ![pid] = Nil]
  /\ ret' = [why |-> "failure", val |-> -1]
  /\ UNCHANGED <<esp, tables, loc, halt_arg, cpu, user_mem, shells_started>>

(* The file does not exist or is no ELF image: the PCB has been cleared,   *)
(* the pid is given back and the caller gets -1.                           *)
ExecuteBadFile ==
  /\ InProgram
  /\ \E pid \in Pids :
       /\ IsNewPid(pid)
       /\ parent' = [parent EXCEPT ![pid] = IF pid = 0 THEN 0 ELSE Nil]
       /\ terminal_id' = [terminal_id EXCEPT ![pid] = 0]
       /\ esp0' = [esp0 EXCEPT ![pid] = Nil]
       /\ esp' = [esp EXCEPT ![pid] = NoEsp]
  /\ ret' = [why |-> "failure", val |-> -1]
  /\ UNCHANGED <<tables, loc, halt_arg, cpu, user_mem, shells_started>>

(* Fault: a full table is reported as success. *)
ExecuteRefusedZero ==
  /\ InProgram
  /\ TableFull
  /\ ret' = [why |-> "failure", val |-> 0]
  /\ UNCHANGED <<tables, pcbs, loc, halt_arg, cpu, user_mem, shells_started>>

(* The command is a null pointer, or no pid is free. *)
ExecuteRefused ==
  /\ InProgram
  /\ \E command \in {"NULL", "name"} : command = "NULL" \/ TableFull
  /\ ret' = [why |-> "failure", val |-> -1]
  /\ UNCHANGED <<tables, pcbs, loc, halt_arg, cpu, user_mem, shells_started>>

(* init_kernel_pd, the kernel's page directory, enablePaging. *)
EnablePaging ==
  /\ cur # Nil /\ loc[cur] = "boot_unpaged"
  /\ loc' = [loc EXCEPT ![cur] = "boot"]
  /\ cr3' = Nil
  /\ paging' = TRUE
  /\ UNCHANGED <<tables, pcbs, halt_arg, cur, tss_esp0, IFlag, user_mem,
                 shells_started, ret>>

(* The boot code starts the first shell. *)
Boot ==
  /\ cur # Nil /\ loc[cur] = "boot"
  /\ \E pid \in Pids :
       /\ IsNewPid(pid)
       /\ StartProgram(pid, cur, active, esp, loc, NestedFrame)
  /\ UNCHANGED <<shells_started, ret>>

-----------------------------------------------------------------------------
(* sched, called by the timer handler *)

(* The places an interrupt may come, for the windows that are open; window *)
(* is the one that admits it in the last part of halt.                     *)
Interruptible(window) ==
  /\ cur # Nil /\ IFlag
  /\ \/ InProgram
     \/ loc[cur] \in HaltHead \cup {"sched"}
     \/ loc[cur] \in HaltTail /\ window \in Windows

Preemptible ==
  \/ Interruptible("halt")
  \/ /\ cur # Nil /\ IFlag
     /\ \/ loc[cur] = "boot_unpaged" /\ "unpaged" \in Windows
        \/ loc[cur] = "boot" /\ "boot" \in Windows

(* get_next_proc: the active pid that the cyclic search from curr + 1      *)
(* reaches in the fewest steps.                                            *)
SearchSteps(curr, q) == (q - curr - 1) % MAX_USER_PROG

(* Fault: the search always starts at pid 0. *)
IsNextProcFromZero(next, curr, act) ==
  act[next] /\ \A q \in Pids : act[q] => next <= q

(* Fault: the search wraps around one pid too early. *)
IsNextProcWrapsEarly(next, curr, act) ==
  /\ act[next] /\ next < MAX_USER_PROG - 1
  /\ \A q \in Pids : act[q] /\ q < MAX_USER_PROG - 1
                       => SearchSteps(curr, next) <= SearchSteps(curr, q)

IsNextProc(next, curr, act) ==
  /\ act[next]
  /\ \A q \in Pids : act[q] => SearchSteps(curr, next) <= SearchSteps(curr, q)

(* Does the stack of p still stand where its saved frame belongs? *)
Intact(p, saved, l) == saved[p] = l[p]

(* Loading the saved esp and ebp of p and returning: from the timer        *)
(* interrupt to the place it interrupted, from execute to the program that *)
(* called it, or from execute to sched.  If the frame is gone, the return  *)
(* goes astray.  l is loc as the caller leaves it.                         *)
Resume(p, saved, l) ==
  \/ /\ ~Intact(p, saved, l)
     /\ cur' = Nil /\ loc' = l
  \/ /\ Intact(p, saved, l)
     /\ cur' = p
     /\ loc' = [l EXCEPT ![p] = CASE @ = "execute" -> "user"
                                  [] @ = "sched_execute" -> "sched"
                                  [] OTHER -> @]

(* Does loading the frame of p make an execute return to its program? *)
ReturnsFromExecute(p, saved, l) == Intact(p, saved, l) /\ l[p] = "execute"

(* The rest of sched.  An execute that returns this way returns what       *)
(* happens to be in eax: -1 stands for a value that the caller takes for a *)
(* failure, 0 for one that it takes for an exit status.                    *)
SwitchTo(next, saved, l) ==
  /\ cr3' = next
  /\ tss_esp0' = next
  /\ Resume(next, saved, l)
  /\ IFlag' = TRUE
  /\ \/ ReturnsFromExecute(next, saved, l)
          /\ ret' \in [why : {"leftover"}, val : {-1, 0}]
     \/ ~ReturnsFromExecute(next, saved, l) /\ UNCHANGED ret
  /\ UNCHANGED <<paging, user_mem, proc_id_used, parent, terminal_id, esp0,
                 halt_arg>>

(* What sched has done to the tables before it looks at shells_started. *)
SchedActive == [active EXCEPT ![cur] = TRUE]

(* Fault: sched does not save esp and ebp. *)
SchedNotSaved == esp

SchedSaved == [esp EXCEPT ![cur] = loc[cur]]

(* A tick while not all shells are up: sched executes another shell.  If   *)
(* that gets the pid of a root, sched's own frame stays the saved one;     *)
(* otherwise the frame of execute below it replaces it.                    *)
TickStartShell ==
  /\ Preemptible
  /\ shells_started < NUM_TERMS
  /\ shells_started' = shells_started + 1
  /\ \E pid \in Pids :
       /\ IsNewPid(pid)
       /\ StartProgram(pid, cur, SchedActive, SchedSaved,
                       IF pid \in Roots THEN loc
                       ELSE [loc EXCEPT ![cur] = "sched_execute"],
                       "sched_execute")
  /\ UNCHANGED ret

(* A tick that switches to the next process; if shells are missing and the *)
(* table is full, execute fails first and is counted all the same.         *)
TickSwitch ==
  /\ Preemptible
  /\ \/ shells_started = NUM_TERMS /\ UNCHANGED shells_started
     \/ /\ shells_started < NUM_TERMS /\ TableFull
        /\ shells_started' = shells_started + 1
  /\ active' = SchedActive
  /\ esp' = SchedSaved
  /\ \E next \in Pids :
       IsNextProc(next, cur, SchedActive) /\ SwitchTo(next, SchedSaved, loc)

(* sched goes on after its execute has returned: it switches, and does not *)
(* save the stack again.                                                   *)
SchedGoOn ==
  /\ cur # Nil /\ loc[cur] = "sched"
  /\ \E next \in Pids :
       /\ IsNextProc(next, cur, active)
       /\ SwitchTo(next, esp, [loc EXCEPT ![cur] = "left"])
  /\ UNCHANGED <<active, esp, shells_started>>

Tick == TickStartShell \/ TickSwitch

-----------------------------------------------------------------------------
(* halt *)

(* Fault: the argument of halt is not truncated. *)
HaltCallUntruncated ==
  /\ InProgram
  /\ loc' = [loc EXCEPT ![cur] = "halt_clear"]
  /\ \E arg \in HaltArgs :
       halt_arg' = [halt_arg EXCEPT
                      ![cur] = [why |-> "exit", status |-> arg]]
  /\ UNCHANGED <<tables, pcbs, cpu, user_mem, shells_started, ret>>

(* The halt system call; the argument is truncated to uint8_t. *)
HaltCall ==
  /\ InProgram
  /\ loc' = [loc EXCEPT ![cur] = "halt_clear"]
  /\ \E arg \in HaltArgs :
       halt_arg' = [halt_arg EXCEPT
                      ![cur] = [why |-> "exit", status |-> arg % 256]]
  /\ UNCHANGED <<tables, pcbs, cpu, user_mem, shells_started, ret>>

(* An exception: the handler masks interrupts and calls halt(-1). *)
Exception ==
  /\ InProgram
  /\ loc' = [loc EXCEPT ![cur] = "halt_clear"]
  /\ halt_arg' = [halt_arg EXCEPT
                    ![cur] = [why |-> "exception", status |-> (-1) % 256]]
  /\ IFlag' = FALSE
  /\ UNCHANGED <<tables, pcbs, cur, cr3, tss_esp0, paging, user_mem,
                 shells_started, ret>>

(* One statement of halt, running on the stack of cur. *)
HaltStep(from, to) ==
  /\ cur # Nil /\ loc[cur] = from
  /\ loc' = [loc EXCEPT ![cur] = to]
  /\ UNCHANGED <<pcbs, halt_arg, cur, paging, IFlag, shells_started, ret>>

(* Fault: the page is not cleared. *)
HaltClearForgotten ==
  /\ HaltStep("halt_clear", "halt_paging")
  /\ UNCHANGED <<tables, user_mem, cr3, tss_esp0>>

(* Fault: the pid is given back at the start of halt. *)
HaltClearFreesFirst ==
  /\ HaltStep("halt_clear", "halt_paging")
  /\ user_mem' = [p \in Pids |-> IF p = cr3 THEN "zero" ELSE user_mem[p]]
  /\ proc_id_used' = [proc_id_used EXCEPT ![cur] = FALSE]
  /\ UNCHANGED <<active, cr3, tss_esp0>>

(* memset of the user page that is mapped (halt is entered from a program  *)
(* in its own context, so paging is on)                                    *)
HaltClear ==
  /\ HaltStep("halt_clear", "halt_paging")
  /\ user_mem' = [p \in Pids |-> IF p = cr3 THEN "zero" ELSE user_mem[p]]
  /\ UNCHANGED <<tables, cr3, tss_esp0>>

(* Fault: the page directory of the halting process stays loaded. *)
HaltPagingForgotten ==
  /\ HaltStep("halt_paging", "halt_free")
  /\ UNCHANGED <<tables, cr3, tss_esp0, user_mem>>

(* the parent's page directory; the file descriptors are closed *)
HaltPaging ==
  /\ HaltStep("halt_paging", "halt_free")
  /\ cr3' = parent[cur]
  /\ UNCHANGED <<tables, tss_esp0, user_mem>>

HaltFree ==
  /\ HaltStep("halt_free", "halt_deactivate")
  /\ proc_id_used' = [proc_id_used EXCEPT ![cur] = FALSE]
  /\ UNCHANGED <<active, cr3, tss_esp0, user_mem>>

(* Fault: the halting process stays active. *)
HaltDeactivateForgotten ==
  /\ HaltStep("halt_deactivate", "halt_wake")
  /\ UNCHANGED <<tables, cr3, tss_esp0, user_mem>>

HaltDeactivate ==
  /\ HaltStep("halt_deactivate", "halt_wake")
  /\ active' = [active EXCEPT ![cur] = FALSE]
  /\ UNCHANGED <<proc_id_used, cr3, tss_esp0, user_mem>>

(* Fault: the parent is not made active. *)
HaltWakeForgotten ==
  /\ HaltStep("halt_wake", "halt_tss")
  /\ UNCHANGED <<tables, cr3, tss_esp0, user_mem>>

HaltWake ==
  /\ HaltStep("halt_wake", "halt_tss")
  /\ active' = [active EXCEPT ![parent[cur]] = TRUE]
  /\ UNCHANGED <<proc_id_used, cr3, tss_esp0, user_mem>>

(* Fault: the TSS is left alone. *)
HaltTssForgotten ==
  /\ HaltStep("halt_tss", "halt_return")
  /\ UNCHANGED <<tables, cr3, tss_esp0, user_mem>>

HaltTss ==
  /\ HaltStep("halt_tss", "halt_return")
  /\ tss_esp0' = esp0[parent[cur]]
  /\ UNCHANGED <<tables, cr3, user_mem>>

(* A root process is its own parent and executes a new shell in its place. *)
HaltRestart ==
  /\ cur # Nil /\ loc[cur] = "halt_return"
  /\ parent[cur] = cur
  /\ \E pid \in Pids :
       /\ IsNewPid(pid)
       /\ StartProgram(pid, cur, active, esp,
                       [loc EXCEPT ![cur] = "idle"], NestedFrame)
  /\ UNCHANGED <<shells_started, ret>>

(* Everyone else loads the frame of its parent, as does a root process     *)
(* that finds the table full.  If that is the frame of the execute that    *)
(* started it, execute returns the status; the iret of the system call, or *)
(* of the timer's handler, enables interrupts.                             *)
HaltReturn ==
  /\ cur # Nil /\ loc[cur] = "halt_return"
  /\ parent[cur] = cur => TableFull
  /\ LET par == parent[cur]
         l == [loc EXCEPT ![cur] = "idle"]
     IN  /\ Resume(par, esp, l)
         /\ ret' = IF ReturnsFromExecute(par, esp, l)
                   THEN [why |-> halt_arg[cur].why, val |-> halt_arg[cur].status]
                   ELSE ret
         /\ IFlag' = (IFlag \/ l[par] # "sched_execute")
  /\ halt_arg' = [halt_arg EXCEPT ![cur] = NoArg]
  /\ UNCHANGED <<tables, pcbs, cr3, tss_esp0, paging, user_mem, shells_started>>

HaltSteps ==
  \/ HaltClear \/ HaltPaging \/ HaltFree
  \/ HaltDeactivate \/ HaltWake \/ HaltTss \/ HaltRestart \/ HaltReturn

-----------------------------------------------------------------------------
(* keyboard.c *)

(* switch_terminals, called by the keyboard's handler, loads the page      *)
(* directory of the process whose stack is in use.  While the kernel boots *)
(* that is the directory of pid 0, still empty: with paging on, the next   *)
(* instruction faults for good.                                            *)
SwitchTerminals ==
  /\ \/ Interruptible("switch")
     \/ cur # Nil /\ IFlag /\ loc[cur] \in Booting /\ "switch" \in Windows
  /\ cr3' = cur
  /\ cur' = IF loc[cur] = "boot" THEN Nil ELSE cur
  /\ UNCHANGED <<tables, pcbs, loc, halt_arg, tss_esp0, paging, IFlag,
                 user_mem, shells_started, ret>>

-----------------------------------------------------------------------------
Next ==
  \/ EnablePaging \/ Boot
  \/ Execute \/ ExecuteBadFile \/ ExecuteRefused
  \/ HaltCall \/ Exception
  \/ HaltSteps
  \/ Tick \/ SchedGoOn
  \/ SwitchTerminals

Spec == Init /\ [][Next]_vars

(* The CPU goes on executing the boot code, and a process in halt that     *)
(* gets the CPU again and again executes its next statement: between two   *)
(* ticks there is time for many instructions.  The PIT raises IRQ 0        *)
(* periodically and the PIC holds a request until interrupts are enabled,  *)
(* so a tick cannot be enabled again and again without being taken.  No    *)
(* fairness is assumed of programs: they need not make any system call.    *)
Fairness ==
  /\ WF_vars(EnablePaging \/ Boot)
  /\ \A p \in Pids : SF_vars(cur = p /\ HaltSteps)
  /\ SF_vars(Tick)

FairSpec == Spec /\ Fairness

-----------------------------------------------------------------------------
(* Properties. *)

Running == cur # Nil /\ loc[cur] = "user"

(* Whenever a program runs, the tables say that it does, its own page      *)
(* directory is loaded and in effect, its memory holds its program, and    *)
(* its next system call or interrupt will enter the kernel on its own      *)
(* stack: cur_pcb will find its PCB.                                       *)
RunsInOwnContext ==
  Running => /\ proc_id_used[cur] /\ active[cur]
             /\ paging /\ cr3 = cur /\ tss_esp0 = cur
             /\ user_mem[cur] = "program"

(* Whenever a program runs, every terminal whose shell is up has exactly   *)
(* one process that sched may pick, and sched may pick only live ones.     *)
OneActivePerTerminal ==
  Running =>
    /\ \A p \in Pids : active[p] => proc_id_used[p]
    /\ \A t \in Roots : proc_id_used[t] =>
         \E p \in Pids :
           /\ active[p] /\ terminal_id[p] = t
           /\ \A q \in Pids : active[q] /\ terminal_id[q] = t => q = p

(* Whenever a program runs, every other live process can be continued: it  *)
(* is active and was interrupted where its stack still stands, or it waits *)
(* in execute, with the frame of that execute and its own kernel stack     *)
(* saved, for the one process whose parent it is.                          *)
OthersCanContinue ==
  Running =>
    \A p \in Pids \ {cur} : proc_id_used[p] =>
      \/ active[p] /\ loc[p] # "execute" /\ Intact(p, esp, loc)
      \/ /\ ~active[p] /\ loc[p] = "execute"
         /\ Intact(p, esp, loc) /\ esp0[p] = p
         /\ \E c \in Pids \ Roots :
              /\ proc_id_used[c] /\ parent[c] = p
              /\ terminal_id[c] = terminal_id[p]
              /\ \A d \in Pids \ Roots :
                   proc_id_used[d] /\ parent[d] = p => d = c

(* No program leaves its memory behind: the page of a free pid is zero.    *)
ClearedWhenFree == \A p \in Pids : ~proc_id_used[p] => user_mem[p] = "zero"

(* Whenever a program runs, the shells that sched has counted are up.      *)
ShellsAreStarted ==
  Running => \A r \in Roots : r < shells_started => proc_id_used[r]

(* execute returns -1 for a failure or what the program's halt passes on,  *)
(* never what happens to be in eax; and what a program passes to halt      *)
(* comes back within 0..255, so that it is never mistaken for a failure.   *)
ResultRange ==
  /\ ret.why # "leftover"
  /\ ret.why = "failure" => ret.val = -1
  /\ ret.why = "exit" => ret.val \in 0 .. 255

(* execute returns 256 when the program was ended by an exception.         *)
ExceptionReported == ret.why = "exception" => ret.val = 256

(* With any of the windows open: execute takes a pid whose kernel stack is *)
(* still in use in two cases only.  The code that calls execute, which is  *)
(* the boot code or a process past the point where halt frees its pid      *)
(* (syscall.c:178), is replaced on its own stack; or a tick interrupted    *)
(* the owner past that point and before it had left the stack.             *)
StackNotReused ==
  [][\A p \in Pids :
       ~proc_id_used[p] /\ proc_id_used'[p] /\ loc[p] # "idle" =>
         \/ p = cur /\ cur' = p /\ loc[p] \in Booting \cup AfterFree \cup InSched
         \/ p # cur /\ loc[p] \in AfterFree \cup InSched /\ "halt" \in Windows]_vars

(* With any of the windows open: halt finds the parent in its PCB at every *)
(* statement, although the last ones read it after the pid has been given  *)
(* back and an execute may have cleared it.                                *)
HaltFindsParent ==
  cur # Nil /\ loc[cur] \in HaltHead \cup HaltTail => parent[cur] # Nil

(* halt "closes pcb, restores process back to parent": once begun it is    *)
(* left only by its own steps; no step of another process takes its stack. *)
HaltUndisturbed ==
  [][\A p \in Pids : p # cur /\ loc[p] \in HaltHead \cup HaltTail
                        => loc'[p] = loc[p]]_vars

(* A process that leaves through halt hands the CPU to its parent, where   *)
(* the parent waits for it in execute, with the parent's page directory    *)
(* and kernel stack; a root shell is followed by a shell on its own pid.   *)
HaltReturnsToParent ==
  [][cur # Nil /\ loc[cur] = "halt_return" /\ loc'[cur] # "halt_return" =>
       /\ cur' = parent[cur] /\ loc'[cur'] = "user"
       /\ cr3' = cur' /\ tss_esp0' = cur'
       /\ cur' # cur => loc[cur'] = "execute"]_vars

(* Every switch ends on the stack of a process, never on a null esp or in  *)
(* a frame that belongs to no program: sched "switches to the next active  *)
(* process".                                                               *)
SwitchesToProcess == cur # Nil

(* All the shells come up. *)
ShellsComeUp == <>(\A r \in Roots : proc_id_used[r])

(* Round robin starves nobody: an active process gets the CPU. *)
EveryActiveRuns == \A p \in Pids : (active[p] ~> cur = p)

(* A halt ends: the parent, or the new root shell, runs its program.       *)
HaltEnds ==
  \A p, q \in Pids :
    (proc_id_used[p] /\ loc[p] = "halt_clear" /\ parent[p] = q)
      ~> (cur = q /\ loc[q] = "user")

=============================================================================
