------------------------ MODULE ProcessSwitchProofs -------------------------
(***************************************************************************)
(* The steps that switch to another process keep IInv of ProcessInv: a     *)
(* successful execute and the ticks.                                       *)
(***************************************************************************)
EXTENDS ProcessLemmas

USE SizesAssumption DEF Pids, Roots, Nil, EnterProgram, AfterFree, Booting

-----------------------------------------------------------------------------
(* The actions that start programs. *)

(* What a successful execute, with paging on, does to the process it       *)
(* starts, to its caller, and to everyone else.                            *)
Started(pid, caller, act, saved, l, frame) ==
  /\ cur' = pid /\ cr3' = pid /\ tss_esp0' = pid /\ paging'
  /\ proc_id_used'[pid] /\ active'[pid] /\ loc'[pid] = "user"
  /\ halt_arg'[pid] = NoArg /\ user_mem'[pid] = "program"
  /\ pid \in Roots => parent'[pid] = pid /\ terminal_id'[pid] = pid
  /\ pid \notin Roots => /\ parent'[pid] = caller
                        /\ terminal_id'[pid] = terminal_id[caller]
  /\ pid \notin Roots /\ pid # caller =>
       ~active'[caller] /\ esp'[caller] = frame /\ esp0'[caller] = tss_esp0
  /\ \A p \in Pids \ {pid} :
       /\ proc_id_used'[p] = proc_id_used[p] /\ loc'[p] = l[p]
       /\ parent'[p] = parent[p] /\ terminal_id'[p] = terminal_id[p]
       /\ user_mem'[p] = user_mem[p]
       /\ halt_arg'[p] = IF l[p] \in HaltHead \cup HaltTail
                         THEN halt_arg[p] ELSE NoArg
  /\ \A p \in Pids \ {pid} :
       pid \in Roots \/ p # caller =>
         active'[p] = act[p] /\ esp'[p] = saved[p] /\ esp0'[p] = esp0[p]

(* StartProgram does that. *)
LEMMA StartEffect ==
  ASSUME TypeOK, paging, NEW caller \in Pids, NEW pid \in Pids,
         NEW act \in [Pids -> BOOLEAN], NEW saved \in [Pids -> Contexts],
         NEW l \in [Pids -> Locs], NEW frame,
         StartProgram(pid, caller, act, saved, l, frame)
  PROVE  Started(pid, caller, act, saved, l, frame)
<1> USE DEF TypeOK, StartProgram
<1>1. /\ cur' = pid /\ cr3' = pid /\ tss_esp0' = pid /\ paging'
      /\ proc_id_used'[pid] /\ active'[pid] /\ loc'[pid] = "user"
      /\ halt_arg'[pid] = NoArg /\ user_mem'[pid] = "program"
  OBVIOUS
<1>2. /\ pid \in Roots => parent'[pid] = pid /\ terminal_id'[pid] = pid
      /\ pid \notin Roots => /\ parent'[pid] = caller
                            /\ terminal_id'[pid] = terminal_id[caller]
  OBVIOUS
<1>3. pid \notin Roots /\ pid # caller =>
        ~active'[caller] /\ esp'[caller] = frame /\ esp0'[caller] = tss_esp0
  OBVIOUS
<1>4. \A p \in Pids \ {pid} :
        /\ proc_id_used'[p] = proc_id_used[p] /\ loc'[p] = l[p]
        /\ parent'[p] = parent[p] /\ terminal_id'[p] = terminal_id[p]
        /\ user_mem'[p] = user_mem[p]
        /\ halt_arg'[p] = IF l[p] \in HaltHead \cup HaltTail
                          THEN halt_arg[p] ELSE NoArg
  OBVIOUS
<1>5. \A p \in Pids \ {pid} :
        pid \in Roots \/ p # caller =>
          active'[p] = act[p] /\ esp'[p] = saved[p] /\ esp0'[p] = esp0[p]
  OBVIOUS
<1> QED BY <1>1, <1>2, <1>3, <1>4, <1>5 DEF Started

(* A process that starts or continues its program satisfies CurrentInv.    *)
LEMMA EnteredCurrent ==
  ASSUME cur' \in Pids, loc'[cur'] = "user",
         proc_id_used'[cur'], active'[cur'],
         paging', cr3' = cur', tss_esp0' = cur',
         user_mem'[cur'] = "program"
  PROVE  CurrentInv'
BY DEF CurrentInv, HaltHead, HaltTail

(* Starting the first shell keeps the invariant. *)
LEMMA BootIInv == IInv /\ Boot => IInv'
<1> SUFFICES ASSUME IInv, Boot PROVE IInv'
  OBVIOUS
<1>1. PICK pid \in Pids :
        /\ IsNewPid(pid)
        /\ StartProgram(pid, cur, active, esp, loc, NestedFrame)
  BY DEF Boot
<1>2. /\ loc[cur] = "boot" /\ cur = 0 /\ cur \in Pids
      /\ shells_started = 1 /\ shells_started' = 1 /\ ret' = ret
      /\ paging /\ \A p \in Pids : ~proc_id_used[p]
  BY DEF Boot, IInv, CurrentInv
<1>3. pid = 0
  BY <1>1, <1>2 DEF IsNewPid
<1>4. /\ TypeOK
      /\ active \in [Pids -> BOOLEAN] /\ esp \in [Pids -> Contexts]
      /\ loc \in [Pids -> Locs]
  BY DEF IInv, TypeOK
<1>5. TypeOK'
  BY <1>1, <1>2, <1>4, FrameTypes, StartProgramType
<1>s. Started(0, 0, active, esp, loc, NestedFrame)
  BY <1>1, <1>2, <1>3, <1>4, StartEffect
<1>6. /\ cur' = 0 /\ cr3' = 0 /\ tss_esp0' = 0 /\ paging'
      /\ proc_id_used'[0] /\ active'[0] /\ loc'[0] = "user"
      /\ halt_arg'[0] = NoArg /\ user_mem'[0] = "program"
      /\ parent'[0] = 0 /\ terminal_id'[0] = 0
      /\ \A p \in Pids \ {0} :
           /\ proc_id_used'[p] = proc_id_used[p] /\ loc'[p] = loc[p]
           /\ active'[p] = active[p] /\ user_mem'[p] = user_mem[p]
  BY <1>s DEF Started
<1>7. CurrentInv'
  BY <1>2, <1>6, EnteredCurrent
<1>8. \A p \in Pids \ {0} : /\ loc[p] = "idle" /\ ~active[p]
                            /\ user_mem[p] = "zero"
  BY <1>2, GoneFacts DEF IInv
<1>9. OthersInv'
  BY <1>2, <1>6, <1>8 DEF OthersInv, Gone
<1>10. ArgInv'
  <2>1. \A p \in Pids \ {0} : halt_arg'[p] = NoArg
    <3>1. \A p \in Pids \ {0} :
            halt_arg'[p] = IF loc[p] \in HaltHead \cup HaltTail
                           THEN halt_arg[p] ELSE NoArg
      BY <1>s DEF Started
    <3> QED BY <1>8, <3>1 DEF HaltHead, HaltTail
  <2> QED BY <1>6, <2>1 DEF ArgInv
<1>11. Live' = {0} /\ Waiting' = {}
  BY <1>2, <1>6, <1>8 DEF Live, Waiting
<1>12. ChainInv'
  BY <1>6, <1>11 DEF ChainInv
<1>13. ForegroundInv'
  BY <1>6, <1>11 DEF ForegroundInv, Foreground
<1>14. ShellInv'
  BY <1>2, <1>11 DEF ShellInv
<1> QED BY <1>5, <1>7, <1>9, <1>10, <1>12, <1>13, <1>14 DEF IInv

(* A successful execute keeps the invariant. *)
LEMMA ExecuteIInv == ASSUME Windows = {} PROVE IInv /\ Execute => IInv'
<1> SUFFICES ASSUME IInv, Execute PROVE IInv'
  OBVIOUS
<1> DEFINE l == [loc EXCEPT ![cur] = "execute"]
<1>1. PICK pid \in Pids :
        /\ IsNewPid(pid)
        /\ StartProgram(pid, cur, active, esp, l, "execute")
  BY DEF Execute
<1>2. /\ cur \in Pids /\ cur \in Live /\ cur \notin Waiting
      /\ loc[cur] = "user" /\ shells_started = NUM_TERMS
      /\ shells_started' = shells_started /\ ret' = ret
      /\ Live = {p \in Pids : proc_id_used[p]}
  BY CurrentIsLive DEF Live, Execute, InProgram, HaltTail
<1>3. pid \notin Roots /\ pid \notin Live /\ pid # cur /\ loc[pid] = "idle"
  <2>1. ~proc_id_used[pid] /\ pid \notin Live
    BY <1>1, <1>2 DEF IsNewPid
  <2>2. \A r \in Roots : r \in Live
    BY <1>2 DEF IInv, ShellInv
  <2>3. pid \notin Roots /\ pid # cur
    BY <1>2, <2>1, <2>2
  <2> QED BY <2>1, <2>3, GoneFacts DEF IInv
<1>4. /\ TypeOK /\ l \in [Pids -> Locs]
      /\ active \in [Pids -> BOOLEAN] /\ esp \in [Pids -> Contexts]
      /\ shells_started' \in 1 .. NUM_TERMS
      /\ l[cur] = "execute" /\ \A p \in Pids \ {cur} : l[p] = loc[p]
  BY <1>2 DEF IInv, TypeOK, Locs
<1>5. /\ tss_esp0 = cur /\ user_mem[cur] = "program" /\ proc_id_used[cur]
      /\ paging
  BY <1>2 DEF IInv, CurrentInv, HaltTail
<1> HIDE DEF l
<1>6. TypeOK'
  BY <1>1, <1>2, <1>4, FrameTypes, StartProgramType
<1>s. Started(pid, cur, active, esp, l, "execute")
  BY <1>1, <1>2, <1>4, <1>5, StartEffect
<1>7. /\ cur' = pid /\ cr3' = pid /\ tss_esp0' = pid /\ paging'
      /\ proc_id_used'[pid] /\ active'[pid] /\ loc'[pid] = "user"
      /\ halt_arg'[pid] = NoArg /\ user_mem'[pid] = "program"
      /\ parent'[pid] = cur /\ terminal_id'[pid] = terminal_id[cur]
      /\ ~active'[cur] /\ esp'[cur] = "execute" /\ esp0'[cur] = cur
  BY <1>s, <1>3, <1>5 DEF Started
<1>8. \A p \in Pids \ {pid} :
        /\ proc_id_used'[p] = proc_id_used[p] /\ loc'[p] = l[p]
        /\ parent'[p] = parent[p] /\ terminal_id'[p] = terminal_id[p]
        /\ user_mem'[p] = user_mem[p]
        /\ halt_arg'[p] = IF l[p] \in HaltHead \cup HaltTail
                          THEN halt_arg[p] ELSE NoArg
  BY <1>s DEF Started
<1>e. /\ loc'[cur] = "execute"
      /\ \A p \in Pids \ {pid, cur} :
           /\ loc'[p] = loc[p] /\ active'[p] = active[p]
           /\ esp'[p] = esp[p] /\ esp0'[p] = esp0[p]
  <2>1. \A p \in Pids \ {pid, cur} :
          active'[p] = active[p] /\ esp'[p] = esp[p] /\ esp0'[p] = esp0[p]
    BY <1>s DEF Started
  <2> QED BY <1>2, <1>3, <1>4, <1>8, <2>1
<1>a. CurrentInv'
  BY <1>7, EnteredCurrent
<1>b. ArgInv'
  BY <1>7, <1>8 DEF ArgInv
<1>c. OthersInv'
  <2>1. cur \in Suspended'
    BY <1>2, <1>3, <1>5, <1>7, <1>8, <1>e DEF Suspended, Intact
  <2>2. ASSUME NEW p \in Pids, p # cur, p # pid
        PROVE  p \in Gone' \cup Interrupted' \cup Suspended'
    <3>1. halt_arg'[p] = halt_arg[p]
      BY <1>4, <1>8, <2>2 DEF IInv, ArgInv
    <3>2. loc[p] = "execute" => ~active[p]
      BY <1>2, <2>2, SuspendedFacts DEF IInv
    <3>3. /\ loc'[p] = loc[p] /\ proc_id_used'[p] = proc_id_used[p]
          /\ user_mem'[p] = user_mem[p] /\ active'[p] = active[p]
          /\ esp'[p] = esp[p] /\ esp0'[p] = esp0[p]
          /\ loc'[cur'] = "user"
      BY <1>7, <1>8, <1>e, <2>2
    <3> QED BY <2>2, <3>1, <3>2, <3>3, OtherKept DEF IInv
  <2> QED BY <1>7, <2>1, <2>2 DEF OthersInv
<1>d. Live' = Live \cup {pid} /\ Waiting' = Waiting \cup {cur}
  <2>1. Live' = {p \in Pids : proc_id_used'[p]}
    BY <1>7 DEF Live
  <2>2. Live' = Live \cup {pid}
    BY <1>2, <1>7, <1>8, <2>1
  <2> QED BY <1>2, <1>3, <1>7, <1>e, <2>2 DEF Waiting
<1>9. \A p \in Live : /\ p \in Pids /\ p # pid
                      /\ parent'[p] = parent[p] /\ terminal_id'[p] = terminal_id[p]
  BY <1>2, <1>3, <1>8
<1>10. parent'[pid] = cur /\ terminal_id'[pid] = terminal_id[cur]
  BY <1>7
<1> USE DEF IInv
<1>11. ChainInv'
  <2>1. \A p \in Live' : terminal_id'[p] \in Live'
    BY <1>2, <1>d, <1>9, <1>10 DEF ChainInv
  <2>2. \A p \in Live' \cap Roots : parent'[p] = p /\ terminal_id'[p] = p
    BY <1>3, <1>d, <1>9 DEF ChainInv
  <2>3. ASSUME NEW p \in Live' \ Roots
        PROVE  /\ parent'[p] \in Live' \cap Waiting'
               /\ parent'[p] # p
               /\ terminal_id'[parent'[p]] = terminal_id'[p]
    <3>1. CASE p = pid
      BY <3>1, <1>2, <1>3, <1>d, <1>9, <1>10
    <3>2. CASE p \in Live \ Roots
      BY <3>2, <1>d, <1>9 DEF ChainInv
    <3> QED BY <3>1, <3>2, <2>3, <1>d
  <2>4. \A p \in Live \ Roots : parent[p] # cur
    BY <1>2 DEF ChainInv
  <2>5. \A p, q \in Live' \ Roots : parent'[p] = parent'[q] => p = q
    BY <2>4, <1>d, <1>9, <1>10 DEF ChainInv
  <2>6. \A p \in Waiting' : \E c \in Live' \ Roots : parent'[c] = p
    BY <1>3, <1>d, <1>9, <1>10 DEF ChainInv
  <2> QED BY <2>1, <2>2, <2>3, <2>5, <2>6 DEF ChainInv
<1>12. ForegroundInv'
  <2>1. Foreground' = (Foreground \ {cur}) \cup {pid} /\ cur \in Foreground
    BY <1>2, <1>3, <1>d DEF Foreground, Waiting
  <2>2. \A p, q \in Foreground' : terminal_id'[p] = terminal_id'[q] => p = q
    BY <2>1, <1>9, <1>10 DEF ForegroundInv, Foreground
  <2>3. \A t \in Live' \cap Roots : \E p \in Foreground' : terminal_id'[p] = t
    BY <2>1, <1>3, <1>d, <1>9, <1>10 DEF ForegroundInv, Foreground
  <2> QED BY <2>2, <2>3 DEF ForegroundInv
<1>13. ShellInv'
  BY <1>2, <1>3, <1>d DEF ShellInv
<1> QED BY <1>6, <1>a, <1>b, <1>c, <1>11, <1>12, <1>13

(* sched finds the process it interrupts active, *)
LEMMA SchedKeepsActive ==
  ASSUME IInv, cur \in Pids, loc[cur] \in {"user"} \cup HaltHead
  PROVE  SchedActive = active
<1>1. active[cur] = TRUE
  BY DEF IInv, CurrentInv, TypeOK, HaltHead, HaltTail
<1> QED BY <1>1 DEF SchedActive, IInv, TypeOK

(* saves where it stands, *)
LEMMA SavedInterrupted ==
  ASSUME IInv, cur \in Pids, loc[cur] \in {"user"} \cup HaltHead
  PROVE  /\ SchedSaved[cur] = loc[cur]
         /\ proc_id_used[cur] /\ active[cur]
         /\ user_mem[cur] = "program" <=> loc[cur] \in {"user", "halt_clear"}
<1>1. SchedSaved[cur] = loc[cur]
  BY DEF SchedSaved, IInv, TypeOK
<1> QED BY <1>1 DEF IInv, CurrentInv, HaltHead, HaltTail

(* leaves the others' contexts alone, *)
LEMMA SavedOthers ==
  ASSUME IInv, NEW p \in Pids, p # cur
  PROVE  SchedSaved[p] = esp[p]
BY DEF SchedSaved, IInv, TypeOK

(* and what it saves is a context. *)
LEMMA SavedType ==
  ASSUME IInv, cur \in Pids
  PROVE  SchedSaved \in [Pids -> Contexts]
BY DEF SchedSaved, Contexts, IInv, TypeOK

(* With the windows closed, a tick interrupts a program or the first part  *)
(* of halt.                                                                *)
LEMMA TickPlace ==
  ASSUME Windows = {}, IInv, Preemptible
  PROVE  loc[cur] \in {"user"} \cup HaltHead
BY DEF Preemptible, Interruptible, InProgram, IInv, CurrentInv, HaltHead, HaltTail

(* A tick that starts a root shell keeps the invariant. *)
LEMMA TickStartShellIInv ==
  ASSUME Windows = {} PROVE IInv /\ TickStartShell => IInv'
<1> SUFFICES ASSUME IInv, TickStartShell PROVE IInv'
  OBVIOUS
<1>0. PICK pid \in Pids :
        /\ IsNewPid(pid)
        /\ StartProgram(pid, cur, SchedActive, SchedSaved,
                        IF pid \in Roots THEN loc
                        ELSE [loc EXCEPT ![cur] = "sched_execute"],
                        "sched_execute")
  BY DEF TickStartShell
<1>2. /\ loc[cur] \in {"user"} \cup HaltHead
      /\ shells_started < NUM_TERMS /\ shells_started' = shells_started + 1
      /\ ret' = ret
  BY TickPlace DEF TickStartShell
<1>3. /\ cur \in Pids /\ cur \in Live /\ cur \notin Waiting
      /\ Live = {p \in Pids : proc_id_used[p]}
  BY <1>2, CurrentIsLive DEF Live, HaltHead, HaltTail
<1>4. pid = shells_started /\ pid \in Roots
  <2>1. shells_started \in Roots
    BY <1>2 DEF IInv, TypeOK
  <2>2. \A r \in Roots : proc_id_used[r] <=> r < shells_started
    BY <1>2, <1>3 DEF IInv, ShellInv, HaltHead
  <2>3. ~proc_id_used[pid] /\ \A q \in Pids : q < pid => proc_id_used[q]
    BY <1>0 DEF IsNewPid
  <2> QED BY <2>1, <2>2, <2>3
<1>1. /\ IsNewPid(pid) /\ paging
      /\ StartProgram(pid, cur, SchedActive, SchedSaved, loc, "sched_execute")
  BY <1>0, <1>2, <1>4 DEF IInv, CurrentInv, HaltHead
<1>5. pid \notin Live /\ pid # cur /\ loc[pid] = "idle"
  BY <1>1, <1>3, GoneFacts DEF IInv, IsNewPid
<1>6. SchedActive = active
  BY <1>2, <1>3, SchedKeepsActive
<1>7. /\ TypeOK /\ SchedSaved \in [Pids -> Contexts]
      /\ active \in [Pids -> BOOLEAN] /\ loc \in [Pids -> Locs]
      /\ shells_started' \in 1 .. NUM_TERMS
  <2>1. SchedSaved \in [Pids -> Contexts]
    BY <1>3, SavedType
  <2> QED BY <1>2, <2>1 DEF IInv, TypeOK
<1>8. TypeOK'
  BY <1>1, <1>2, <1>3, <1>6, <1>7, FrameTypes, StartProgramType
<1>s. Started(pid, cur, active, SchedSaved, loc, "sched_execute")
  BY <1>1, <1>3, <1>6, <1>7, StartEffect
<1>9. /\ cur' = pid /\ cr3' = pid /\ tss_esp0' = pid /\ paging'
      /\ proc_id_used'[pid] /\ active'[pid] /\ loc'[pid] = "user"
      /\ halt_arg'[pid] = NoArg /\ user_mem'[pid] = "program"
      /\ parent'[pid] = pid /\ terminal_id'[pid] = pid
  BY <1>s, <1>4 DEF Started
<1>10. \A p \in Pids \ {pid} :
         /\ proc_id_used'[p] = proc_id_used[p] /\ loc'[p] = loc[p]
         /\ parent'[p] = parent[p] /\ terminal_id'[p] = terminal_id[p]
         /\ user_mem'[p] = user_mem[p] /\ active'[p] = active[p]
         /\ esp'[p] = SchedSaved[p] /\ esp0'[p] = esp0[p]
         /\ halt_arg'[p] = IF loc[p] \in HaltHead \cup HaltTail
                           THEN halt_arg[p] ELSE NoArg
  BY <1>s, <1>4 DEF Started
<1>11. \A p \in Pids \ {pid} : halt_arg'[p] = halt_arg[p]
  BY <1>10 DEF IInv, ArgInv
<1>a. CurrentInv'
  BY <1>9, EnteredCurrent
<1>b. ArgInv'
  BY <1>9, <1>10 DEF ArgInv
<1>c. OthersInv'
  <2>1. cur \in Interrupted'
    BY <1>2, <1>3, <1>5, <1>10, <1>11, SavedInterrupted DEF Interrupted, Intact
  <2>2. ASSUME NEW p \in Pids, p # cur, p # pid
        PROVE  p \in Gone' \cup Interrupted' \cup Suspended'
    <3>1. esp'[p] = esp[p]
      BY <1>3, <1>10, <2>2, SavedOthers
    <3>2. loc[p] = "execute" => ~active[p]
      BY <1>2, <2>2, SuspendedFacts DEF IInv, HaltHead
    <3>3. /\ loc'[p] = loc[p] /\ proc_id_used'[p] = proc_id_used[p]
          /\ user_mem'[p] = user_mem[p] /\ active'[p] = active[p]
          /\ esp0'[p] = esp0[p] /\ halt_arg'[p] = halt_arg[p]
          /\ loc'[cur'] = "user"
      BY <1>9, <1>10, <1>11, <2>2
    <3> QED BY <2>2, <3>1, <3>2, <3>3, OtherKept DEF IInv
  <2> QED BY <1>9, <2>1, <2>2 DEF OthersInv
<1>d. Live' = Live \cup {pid} /\ Waiting' = Waiting
  <2>1. Live' = {p \in Pids : proc_id_used'[p]}
    BY <1>9 DEF Live, HaltTail
  <2>2. Live' = Live \cup {pid}
    BY <1>3, <1>9, <1>10, <2>1
  <2> QED BY <1>5, <1>9, <1>10, <2>2 DEF Waiting
<1>12. /\ \A p \in Live : /\ p \in Pids /\ p # pid
                          /\ parent'[p] = parent[p]
                          /\ terminal_id'[p] = terminal_id[p]
       /\ parent'[pid] = pid /\ terminal_id'[pid] = pid
  BY <1>3, <1>5, <1>9, <1>10
<1> USE DEF IInv
<1>13. ChainInv'
  <2>1. \A p \in Live' : terminal_id'[p] \in Live'
    BY <1>d, <1>12 DEF ChainInv
  <2>2. \A p \in Live' \cap Roots : parent'[p] = p /\ terminal_id'[p] = p
    BY <1>d, <1>12 DEF ChainInv
  <2>3. ASSUME NEW p \in Live' \ Roots
        PROVE  /\ parent'[p] \in Live' \cap Waiting'
               /\ parent'[p] # p
               /\ terminal_id'[parent'[p]] = terminal_id'[p]
    <3>1. p \in Live \ Roots
      BY <2>3, <1>4, <1>d
    <3> QED BY <3>1, <1>d, <1>12 DEF ChainInv
  <2>4. \A p, q \in Live' \ Roots : parent'[p] = parent'[q] => p = q
    BY <1>4, <1>d, <1>12 DEF ChainInv
  <2>5. \A p \in Waiting' : \E c \in Live' \ Roots : parent'[c] = p
    BY <1>d, <1>12 DEF ChainInv
  <2> QED BY <2>1, <2>2, <2>3, <2>4, <2>5 DEF ChainInv
<1>14. ForegroundInv'
  <2>1. Foreground' = Foreground \cup {pid}
    BY <1>5, <1>d DEF Foreground, Waiting
  <2>2. \A p \in Live : terminal_id[p] # pid
    BY <1>5 DEF ChainInv
  <2>3. \A p, q \in Foreground' : terminal_id'[p] = terminal_id'[q] => p = q
    BY <2>1, <2>2, <1>12 DEF ForegroundInv, Foreground
  <2>4. \A t \in Live' \cap Roots : \E p \in Foreground' : terminal_id'[p] = t
    BY <2>1, <1>d, <1>12 DEF ForegroundInv, Foreground
  <2> QED BY <2>3, <2>4 DEF ForegroundInv
<1>15. ShellInv'
  BY <1>2, <1>3, <1>4, <1>d DEF ShellInv, TypeOK, HaltHead
<1> QED BY <1>8, <1>a, <1>b, <1>c, <1>13, <1>14, <1>15

(* A tick that switches processes keeps the invariant. *)
LEMMA TickSwitchIInv ==
  ASSUME Windows = {} PROVE IInv /\ TickSwitch => IInv'
<1> SUFFICES ASSUME IInv, TickSwitch PROVE IInv'
  OBVIOUS
<1>1. loc[cur] \in {"user"} \cup HaltHead /\ loc[cur] \notin Booting /\ paging
  BY TickPlace DEF TickSwitch, HaltHead, IInv, CurrentInv
<1>2. /\ cur \in Pids /\ cur \in Live /\ cur \notin Waiting
      /\ Live = {p \in Pids : proc_id_used[p]}
  BY <1>1, CurrentIsLive DEF Live, HaltHead, HaltTail
<1>3. shells_started' = shells_started
  <2>1. SUFFICES ASSUME shells_started < NUM_TERMS, TableFull PROVE FALSE
    BY DEF TickSwitch
  <2>2. shells_started \in Roots /\ shells_started \in Pids
    BY <2>1 DEF IInv, TypeOK
  <2>3. shells_started \notin Live
    BY <1>1, <2>2 DEF IInv, ShellInv, TypeOK
  <2> QED BY <1>2, <2>1, <2>2, <2>3 DEF TableFull
<1>4. SchedActive = active
  BY <1>1, <1>2, SchedKeepsActive
<1>5. PICK next \in Pids : active[next] /\ SwitchTo(next, SchedSaved, loc)
  BY <1>4 DEF TickSwitch, IsNextProc
<1>6. /\ active' = active /\ esp' = SchedSaved /\ IFlag' = TRUE
      /\ cr3' = next /\ tss_esp0' = next /\ paging' = paging
      /\ UNCHANGED <<proc_id_used, parent, terminal_id, esp0, user_mem, halt_arg>>
  BY <1>4, <1>5 DEF TickSwitch, SwitchTo
<1>7. /\ SchedSaved[next] = loc[next]
      /\ loc[next] \in {"user"} \cup HaltHead
      /\ proc_id_used[next]
      /\ user_mem[next] = "program" <=> loc[next] \in {"user", "halt_clear"}
  <2>1. CASE next = cur
    BY <1>1, <1>2, <2>1, SavedInterrupted
  <2>2. CASE next # cur
    <3>1. loc[next] # "execute"
      BY <1>1, <1>5, <2>2, SuspendedFacts DEF IInv, HaltHead
    <3> QED BY <1>2, <1>5, <2>2, <3>1, InterruptedFacts, SavedOthers DEF IInv
  <2> QED BY <2>1, <2>2
<1>8. cur' = next /\ loc' = loc /\ ret' = ret
  <2>1. Intact(next, SchedSaved, loc) /\ loc[next] \notin {"execute", "sched_execute"}
    BY <1>7 DEF Intact, HaltHead
  <2>2. cur' = next /\ loc' = [loc EXCEPT ![next] = @] /\ ret' = ret
    BY <1>5, <2>1 DEF SwitchTo, Resume, ReturnsFromExecute
  <2>3. loc \in [Pids -> Locs]
    BY DEF IInv, TypeOK
  <2> QED BY <2>2, <2>3
<1>9. SchedSaved \in [Pids -> Contexts]
  BY <1>2, SavedType
<1>10. TypeOK'
  <2>1. /\ esp' \in [Pids -> Contexts] /\ IFlag' \in BOOLEAN
        /\ cur' \in Pids /\ cr3' \in Pids /\ tss_esp0' \in Pids
    BY <1>5, <1>6, <1>8, <1>9
  <2> QED BY <1>3, <1>6, <1>8, <2>1 DEF IInv, TypeOK
<1>11. CurrentInv'
  BY <1>1, <1>5, <1>6, <1>7, <1>8 DEF CurrentInv, HaltHead, HaltTail
<1>12. ArgInv'
  BY <1>6, <1>8 DEF IInv, ArgInv
<1>13. OthersInv'
  <2>1. cur \in Interrupted'
    BY <1>1, <1>2, <1>6, <1>8, SavedInterrupted DEF Interrupted, Intact
  <2>2. ASSUME NEW p \in Pids, p # cur
        PROVE  p \in Gone' \cup Interrupted' \cup Suspended'
    <3>1. esp'[p] = esp[p]
      BY <1>2, <1>6, <2>2, SavedOthers
    <3>2. loc[p] = "execute" => ~active[p]
      BY <1>1, <2>2, SuspendedFacts DEF IInv, HaltHead
    <3>3. loc'[cur'] \notin {"halt_tss", "halt_return"}
      BY <1>7, <1>8 DEF HaltHead
    <3> QED BY <1>6, <1>8, <2>2, <3>1, <3>2, <3>3, OtherKept DEF IInv
  <2> QED BY <2>1, <2>2 DEF OthersInv
<1>14. Live' = Live /\ Waiting' = Waiting
  BY <1>2, <1>6, <1>7, <1>8 DEF Live, Waiting, HaltHead, HaltTail
<1>15. ChainInv' /\ ForegroundInv' /\ ShellInv'
  BY <1>1, <1>3, <1>6, <1>14, ShapeKept
<1> QED BY <1>10, <1>11, <1>12, <1>13, <1>15 DEF IInv

(* A tick resumes nobody in execute, so none returns what is left in eax.  *)
LEMMA SwitchKeepsResult ==
  ASSUME Windows = {}, IInv, TickSwitch
  PROVE  ret' = ret
<1>1. cur \in Pids /\ loc[cur] \in {"user"} \cup HaltHead
  BY TickPlace DEF TickSwitch, IInv, CurrentInv
<1>2. PICK next \in Pids : active[next] /\ SwitchTo(next, SchedSaved, loc)
  BY <1>1, SchedKeepsActive DEF TickSwitch, IsNextProc
<1>3. loc[next] # "execute"
  BY <1>1, <1>2, SuspendedFacts DEF IInv, HaltHead
<1> QED BY <1>2, <1>3 DEF SwitchTo, ReturnsFromExecute

=============================================================================
