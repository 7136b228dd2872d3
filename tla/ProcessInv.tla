----------------------------- MODULE ProcessInv -----------------------------
(***************************************************************************)
(* The inductive invariants behind the safety properties of Process: IInv, *)
(* for the case that the environment stays out of the windows (Windows =   *)
(* {}), and RaceInv, which holds whichever windows are open.               *)
(***************************************************************************)
EXTENDS Process

(* The processes that own their pid, or are giving it back in the last     *)
(* steps of halt.                                                          *)
Live == {p \in Pids : proc_id_used[p] \/ (p = cur /\ loc[p] \in HaltTail)}

(* The processes whose execute has not returned yet. *)
Waiting == {p \in Pids : loc[p] = "execute"}

(* The processes their terminals are running. *)
Foreground == Live \ Waiting

(* Only the process on the CPU is in the last steps of halt, and there the *)
(* tables, page directory and kernel stack change one after the other.     *)
CurrentInv ==
  LET at == loc[cur]
      par == parent[cur]
  IN /\ cur \in Pids
     /\ at \in {"user"} \cup Booting \cup HaltHead \cup HaltTail
     /\ paging <=> at # "boot_unpaged"
     /\ at \in Booting =>
          /\ cur = 0 /\ shells_started = 1 /\ tss_esp0 = 0
          /\ \A p \in Pids : ~proc_id_used[p] /\ ~active[p]
          /\ user_mem[cur] = "zero"
     /\ at \notin Booting =>
          /\ proc_id_used[cur] <=> at \in {"user", "halt_free"} \cup HaltHead
          /\ active[cur] <=>
               \/ at \in {"user", "halt_free", "halt_deactivate"} \cup HaltHead
               \/ at \in {"halt_tss", "halt_return"} /\ par = cur
          /\ cr3 = IF at \in HaltTail THEN par ELSE cur
          /\ tss_esp0 = IF at = "halt_return" THEN esp0[par] ELSE cur
          /\ user_mem[cur] = "program" <=> at \in {"user", "halt_clear"}

(* The pids that nobody has. *)
Gone ==
  {p \in Pids : /\ loc[p] = "idle"
                /\ ~proc_id_used[p] /\ ~active[p] /\ user_mem[p] = "zero"}

(* The processes a tick has interrupted: sched will resume them there. *)
Interrupted ==
  {p \in Pids : /\ loc[p] \in {"user"} \cup HaltHead
                /\ proc_id_used[p] /\ active[p]
                /\ Intact(p, esp, loc)
                /\ user_mem[p] = "program" <=> loc[p] \in {"user", "halt_clear"}}

(* The processes that wait in execute, with all that halt needs to resume  *)
(* them; halt makes one active just before it returns to it.               *)
Suspended ==
  {p \in Pids : /\ loc[p] = "execute"
                /\ proc_id_used[p]
                /\ active[p] <=> /\ p = parent[cur]
                                 /\ loc[cur] \in {"halt_tss", "halt_return"}
                /\ Intact(p, esp, loc) /\ esp0[p] = p
                /\ user_mem[p] = "program"}

(* Everyone else is gone, interrupted, or waiting in execute. *)
OthersInv == Pids \ {cur} \subseteq Gone \cup Interrupted \cup Suspended

(* Nothing is left of the argument of halt outside halt. *)
ArgInv ==
  \A p \in Pids : loc[p] \notin HaltHead \cup HaltTail => halt_arg[p] = NoArg

(* The programs of a terminal form a chain that starts at its root shell:  *)
(* each one but the last waits for exactly one other.                      *)
ChainInv ==
  /\ \A p \in Live : terminal_id[p] \in Live
  /\ \A p \in Live \cap Roots : parent[p] = p /\ terminal_id[p] = p
  /\ \A p \in Live \ Roots :
       /\ parent[p] \in Live \cap Waiting
       /\ parent[p] # p
       /\ terminal_id[parent[p]] = terminal_id[p]
  /\ \A p, q \in Live \ Roots : parent[p] = parent[q] => p = q
  /\ \A p \in Waiting : \E c \in Live \ Roots : parent[c] = p

(* Each terminal that is up is running exactly one program. *)
ForegroundInv ==
  /\ \A p, q \in Foreground : terminal_id[p] = terminal_id[q] => p = q
  /\ \A t \in Live \cap Roots : \E p \in Foreground : terminal_id[p] = t

(* The shells come up in the order of their pids, one by one. *)
ShellInv ==
  loc[cur] \notin Booting => \A r \in Roots : r \in Live <=> r < shells_started

(* The inductive invariant for Windows = {}. *)
IInv ==
  /\ TypeOK
  /\ CurrentInv
  /\ OthersInv
  /\ ArgInv
  /\ ChainInv
  /\ ForegroundInv
  /\ ShellInv

-----------------------------------------------------------------------------
(* Whichever windows are open. *)

(* Only the code on the boot stack boots, before there is any process. *)
BootInv ==
  \A p \in Pids : loc[p] \in Booting =>
    /\ p = 0 /\ cur \in {0, Nil}
    /\ \A q \in Pids : ~proc_id_used[q] /\ (active[q] => q = 0)

(* The stack of a free pid is unused, or in the hands of the boot code, of *)
(* a halt that has freed the pid, or of a tick that interrupted such a     *)
(* halt; and the last one needs the window.                                *)
FreeInv ==
  \A p \in Pids : ~proc_id_used[p] =>
    /\ loc[p] \in {"idle"} \cup Booting \cup AfterFree \cup InSched
    /\ loc[p] \in InSched \/ (loc[p] \in AfterFree /\ p # cur)
         => "halt" \in Windows

(* A PCB names its parent as long as its process owns the pid, and beyond  *)
(* that as long as halt can still be running or be resumed.                *)
PcbInv ==
  \A p \in Pids :
    \/ proc_id_used[p]
    \/ loc[p] \in AfterFree /\ (p = cur \/ Intact(p, esp, loc))
    => parent[p] \in Pids

RaceTypes ==
  /\ proc_id_used \in [Pids -> BOOLEAN]
  /\ active \in [Pids -> BOOLEAN]
  /\ parent \in [Pids -> Pids \cup {Nil}]
  /\ esp \in [Pids -> Contexts]
  /\ loc \in [Pids -> Locs]
  /\ cur \in Pids \cup {Nil}

(* The inductive invariant for every value of Windows. *)
RaceInv == RaceTypes /\ BootInv /\ FreeInv /\ PcbInv

=============================================================================
