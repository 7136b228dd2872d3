------------------------- MODULE ProcessRaceProofs --------------------------
(***************************************************************************)
(* What holds of Process whichever windows are open: RaceInv of ProcessInv *)
(* is inductive, so that halt always finds its parent, and execute takes a *)
(* kernel stack that is in use only where StackNotReused says.             *)
(***************************************************************************)
EXTENDS ProcessInv, TLAPS

USE SizesAssumption DEF Pids, Roots, Nil, AfterFree, Booting, InSched

-----------------------------------------------------------------------------
(* Facts about the process on the CPU. *)

(* Whoever is neither booting nor past the freeing of its pid owns it. *)
LEMMA OwnsPid ==
  ASSUME RaceInv, NEW p \in Pids,
         loc[p] \in {"user", "execute", "halt_free"} \cup HaltHead
  PROVE  proc_id_used[p]
BY DEF RaceInv, FreeInv, HaltHead

(* Nobody boots while another stack than the boot code's is in use. *)
LEMMA NobodyBoots ==
  ASSUME RaceInv, cur \in Pids, loc[cur] \notin Booting
  PROVE  \A p \in Pids : loc[p] \notin Booting
BY DEF RaceInv, BootInv

(* halt finds its parent. *)
LEMMA HaltHasParent ==
  ASSUME RaceInv, cur \in Pids, loc[cur] \in HaltHead \cup HaltTail
  PROVE  parent[cur] \in Pids
<1>1. CASE loc[cur] \in AfterFree
  BY <1>1 DEF RaceInv, PcbInv
<1>2. CASE loc[cur] \notin AfterFree
  BY <1>2, OwnsPid DEF RaceInv, PcbInv, HaltTail
<1> QED BY <1>1, <1>2

(* A tick after halt has freed the pid needs the window. *)
LEMMA TickNeedsWindow ==
  ASSUME RaceInv, Preemptible
  PROVE  /\ cur \in Pids /\ loc[cur] # "idle"
         /\ loc[cur] \in AfterFree => "halt" \in Windows
BY DEF RaceInv, RaceTypes, Preemptible, Interruptible, InProgram, HaltHead,
       HaltTail

-----------------------------------------------------------------------------
(* Steps that start a program or resume a process. *)

(* What the invariant asks of the stack that is left, when its code stands *)
(* at place.                                                               *)
LeavesWell(place) ==
  ~proc_id_used[cur] =>
    /\ place \in {"idle"} \cup Booting \cup AfterFree \cup InSched
    /\ place \in AfterFree \cup InSched => "halt" \in Windows
    /\ place \in AfterFree => parent[cur] \in Pids

(* A successful execute keeps the invariant if the caller's stack is left  *)
(* well.                                                                   *)
LEMMA StartRace ==
  ASSUME RaceInv, cur \in Pids, NEW pid \in Pids, ~proc_id_used[pid],
         NEW act \in [Pids -> BOOLEAN], NEW saved \in [Pids -> Contexts],
         NEW l \in [Pids -> Locs],
         NEW frame \in {"execute", "sched_execute", NestedFrame},
         \A p \in Pids \ {cur} : saved[p] = esp[p] /\ l[p] = loc[p],
         pid # cur => LeavesWell(l[cur]),
         \A p \in Pids : l[p] \in Booting => p = pid,
         StartProgram(pid, cur, act, saved, l, frame)
  PROVE  RaceInv'
<1>1. /\ cur' = pid
      /\ proc_id_used' = [proc_id_used EXCEPT ![pid] = TRUE]
      /\ \E par \in {pid, cur} :
           /\ parent' = [parent EXCEPT ![pid] = par]
           /\ active' = [act EXCEPT ![par] = FALSE, ![pid] = TRUE]
           /\ \E fr \in {frame, NestedFrame} :
                esp' = [saved EXCEPT ![pid] = NoEsp, ![par] = fr]
      /\ loc' = [l EXCEPT ![pid] = "user"]
  BY DEF StartProgram, EnterProgram
<1>2. RaceTypes'
  <2>1. {NoEsp, NestedFrame, frame} \subseteq Contexts
    BY DEF Contexts, Locs, NoEsp
  <2>2. esp' \in [Pids -> Contexts]
    BY <1>1, <2>1
  <2>3. loc' \in [Pids -> Locs]
    BY <1>1 DEF Locs
  <2>4. proc_id_used' \in [Pids -> BOOLEAN] /\ cur' \in Pids
    BY <1>1 DEF RaceInv, RaceTypes
  <2>5. active' \in [Pids -> BOOLEAN]
    BY <1>1
  <2>6. parent' \in [Pids -> Pids \cup {Nil}]
    BY <1>1 DEF RaceInv, RaceTypes
  <2> QED BY <2>2, <2>3, <2>4, <2>5, <2>6 DEF RaceTypes
<1>3. /\ loc'[pid] = "user" /\ parent'[pid] \in Pids
      /\ \A p \in Pids \ {pid} :
           /\ loc'[p] = l[p] /\ parent'[p] = parent[p]
           /\ proc_id_used'[p] = proc_id_used[p]
           /\ p # cur => esp'[p] = esp[p]
  BY <1>1 DEF RaceInv, RaceTypes
<1>4. BootInv'
  BY <1>3 DEF BootInv
<1>5. FreeInv'
  <2> SUFFICES ASSUME NEW p \in Pids, ~proc_id_used'[p]
               PROVE  /\ loc'[p] \in {"idle"} \cup Booting \cup AfterFree \cup InSched
                      /\ loc'[p] \in AfterFree \cup InSched => "halt" \in Windows
    BY DEF FreeInv
  <2>1. p # pid /\ loc'[p] = l[p] /\ ~proc_id_used[p]
    BY <1>1, <1>3 DEF RaceInv, RaceTypes
  <2>2. CASE p = cur
    BY <2>1, <2>2 DEF LeavesWell
  <2>3. CASE p # cur
    BY <2>1, <2>3 DEF RaceInv, FreeInv
  <2> QED BY <2>2, <2>3
<1>6. PcbInv'
  <2> SUFFICES ASSUME NEW p \in Pids, p # pid,
                      \/ proc_id_used'[p]
                      \/ loc'[p] \in AfterFree /\ Intact(p, esp', loc')
               PROVE  parent[p] \in Pids
    BY <1>1, <1>3 DEF PcbInv, Intact
  <2>1. CASE proc_id_used[p]
    BY <2>1 DEF RaceInv, PcbInv
  <2>2. CASE ~proc_id_used[p] /\ p = cur
    BY <1>3, <2>2 DEF LeavesWell
  <2>3. CASE ~proc_id_used[p] /\ p # cur
    BY <1>3, <2>3 DEF RaceInv, PcbInv, Intact
  <2> QED BY <2>1, <2>2, <2>3
<1> QED BY <1>2, <1>4, <1>5, <1>6 DEF RaceInv

(* So does loading the frame of a process. *)
LEMMA ResumeRace ==
  ASSUME RaceInv, cur \in Pids, NEW next \in Pids,
         NEW saved \in [Pids -> Contexts], NEW l \in [Pids -> Locs],
         \A p \in Pids \ {cur} : saved[p] = esp[p] /\ l[p] = loc[p],
         LeavesWell(l[cur]),
         \A p \in Pids : l[p] \in Booting =>
           /\ p = 0 /\ next = 0
           /\ \A q \in Pids : ~proc_id_used[q] /\ (active'[q] => q = 0),
         Resume(next, saved, l),
         esp' = saved, active' \in [Pids -> BOOLEAN],
         proc_id_used' = proc_id_used, parent' = parent
  PROVE  RaceInv'
<1>1. /\ cur' \in {next, Nil}
      /\ cur' = next => Intact(next, saved, l)
      /\ \A p \in Pids :
           \/ loc'[p] = l[p]
           \/ l[p] = "execute" /\ loc'[p] = "user"
           \/ l[p] = "sched_execute" /\ loc'[p] = "sched"
  BY DEF Resume
<1>2. RaceTypes'
  <2>1. loc' \in [Pids -> Locs]
    BY DEF Resume, Locs
  <2> QED BY <1>1, <2>1 DEF RaceInv, RaceTypes
<1>3. BootInv'
  BY <1>1 DEF BootInv
<1>4. FreeInv'
  <2> SUFFICES ASSUME NEW p \in Pids, ~proc_id_used[p]
               PROVE  /\ loc'[p] \in {"idle"} \cup Booting \cup AfterFree \cup InSched
                      /\ loc'[p] \in AfterFree \cup InSched => "halt" \in Windows
    BY DEF FreeInv
  <2>1. /\ l[p] \in {"idle"} \cup Booting \cup AfterFree \cup InSched
        /\ l[p] \in AfterFree \cup InSched => "halt" \in Windows
    <3>1. CASE p = cur
      BY <3>1 DEF LeavesWell
    <3>2. CASE p # cur
      BY <3>2 DEF RaceInv, FreeInv
    <3> QED BY <3>1, <3>2
  <2> QED BY <1>1, <2>1
<1>5. PcbInv'
  <2> SUFFICES ASSUME NEW p \in Pids,
                      \/ proc_id_used[p]
                      \/ /\ loc'[p] \in AfterFree
                         /\ p = cur' \/ Intact(p, saved, loc')
               PROVE  parent[p] \in Pids
    BY DEF PcbInv, Intact
  <2>1. CASE proc_id_used[p]
    BY <2>1 DEF RaceInv, PcbInv
  <2>2. CASE ~proc_id_used[p]
    <3>1. l[p] \in AfterFree /\ Intact(p, saved, l)
      BY <1>1, <2>2 DEF Intact
    <3>2. CASE p = cur
      BY <2>2, <3>1, <3>2 DEF LeavesWell
    <3>3. CASE p # cur
      BY <3>1, <3>3 DEF RaceInv, PcbInv, Intact
    <3> QED BY <3>2, <3>3
  <2> QED BY <2>1, <2>2
<1> QED BY <1>2, <1>3, <1>4, <1>5 DEF RaceInv

-----------------------------------------------------------------------------
(* One lemma per kind of step. *)

(* The initial state. *)
LEMMA InitRace == Init => RaceInv
<1> SUFFICES ASSUME Init PROVE RaceInv
  OBVIOUS
<1> USE DEF Init
<1>1. RaceTypes
  BY DEF RaceTypes, Locs, Contexts
<1>2. BootInv /\ FreeInv /\ PcbInv
  BY DEF BootInv, FreeInv, PcbInv
<1> QED BY <1>1, <1>2 DEF RaceInv

(* A program executes another. *)
LEMMA ExecuteRace == RaceInv /\ Execute => RaceInv'
<1> SUFFICES ASSUME RaceInv, Execute PROVE RaceInv'
  OBVIOUS
<1> DEFINE l == [loc EXCEPT ![cur] = "execute"]
<1>1. PICK pid \in Pids : /\ ~proc_id_used[pid]
                          /\ StartProgram(pid, cur, active, esp, l, "execute")
  BY DEF Execute, IsNewPid
<1>2. cur \in Pids /\ loc[cur] = "user"
  BY DEF Execute, InProgram, RaceInv, RaceTypes
<1>3. proc_id_used[cur] /\ \A p \in Pids : loc[p] \notin Booting
  BY <1>2, OwnsPid, NobodyBoots
<1>4. /\ l \in [Pids -> Locs] /\ active \in [Pids -> BOOLEAN]
      /\ esp \in [Pids -> Contexts]
      /\ l[cur] = "execute" /\ \A p \in Pids \ {cur} : l[p] = loc[p]
  BY <1>2 DEF RaceInv, RaceTypes, Locs
<1> HIDE DEF l
<1>5. LeavesWell(l[cur]) /\ \A p \in Pids : l[p] \notin Booting
  BY <1>3, <1>4 DEF LeavesWell
<1> QED BY <1>1, <1>2, <1>4, <1>5, StartRace

(* The boot code executes the first shell, on its own stack. *)
LEMMA BootRace == RaceInv /\ Boot => RaceInv'
<1> SUFFICES ASSUME RaceInv, Boot PROVE RaceInv'
  OBVIOUS
<1>1. PICK pid \in Pids : /\ IsNewPid(pid)
                          /\ StartProgram(pid, cur, active, esp, loc, NestedFrame)
  BY DEF Boot
<1>2. cur \in Pids /\ loc[cur] = "boot"
  BY DEF Boot, RaceInv, RaceTypes
<1>3. /\ cur = 0 /\ ~proc_id_used[cur]
      /\ \A p \in Pids : loc[p] \in Booting => p = cur
  BY <1>2 DEF RaceInv, BootInv
<1>4. pid = cur /\ ~proc_id_used[pid]
  BY <1>1, <1>3 DEF IsNewPid
<1>5. /\ loc \in [Pids -> Locs] /\ active \in [Pids -> BOOLEAN]
      /\ esp \in [Pids -> Contexts]
  BY DEF RaceInv, RaceTypes
<1> QED BY <1>1, <1>2, <1>3, <1>4, <1>5, StartRace

(* halt restarts a root shell. *)
LEMMA HaltRestartRace == RaceInv /\ HaltRestart => RaceInv'
<1> SUFFICES ASSUME RaceInv, HaltRestart PROVE RaceInv'
  OBVIOUS
<1> DEFINE l == [loc EXCEPT ![cur] = "idle"]
<1>1. PICK pid \in Pids : /\ ~proc_id_used[pid]
                          /\ StartProgram(pid, cur, active, esp, l, NestedFrame)
  BY DEF HaltRestart, IsNewPid
<1>2. cur \in Pids /\ loc[cur] = "halt_return"
  BY DEF HaltRestart, RaceInv, RaceTypes
<1>3. \A p \in Pids : loc[p] \notin Booting
  BY <1>2, NobodyBoots
<1>4. /\ l \in [Pids -> Locs] /\ active \in [Pids -> BOOLEAN]
      /\ esp \in [Pids -> Contexts]
      /\ l[cur] = "idle" /\ \A p \in Pids \ {cur} : l[p] = loc[p]
  BY <1>2 DEF RaceInv, RaceTypes, Locs
<1> HIDE DEF l
<1>5. LeavesWell(l[cur]) /\ \A p \in Pids : l[p] \notin Booting
  BY <1>3, <1>4 DEF LeavesWell
<1> QED BY <1>1, <1>2, <1>4, <1>5, StartRace

(* What sched saves. *)
LEMMA SchedRace ==
  ASSUME RaceInv, cur \in Pids
  PROVE  /\ SchedSaved \in [Pids -> Contexts]
         /\ SchedActive \in [Pids -> BOOLEAN]
         /\ \A p \in Pids \ {cur} : SchedSaved[p] = esp[p]
         /\ \A p \in Pids : SchedActive[p] => active[p] \/ p = cur
BY DEF RaceInv, RaceTypes, SchedSaved, SchedActive, Contexts

(* The stack a tick leaves is left well. *)
LEMMA TickLeavesWell ==
  ASSUME RaceInv, Preemptible
  PROVE  LeavesWell(loc[cur])
<1>1. /\ cur \in Pids /\ loc[cur] # "idle"
      /\ loc[cur] \in AfterFree => "halt" \in Windows
  BY TickNeedsWindow
<1> QED BY <1>1 DEF LeavesWell, RaceInv, FreeInv, PcbInv

(* A tick that starts a shell. *)
LEMMA TickStartShellRace == RaceInv /\ TickStartShell => RaceInv'
<1> SUFFICES ASSUME RaceInv, TickStartShell PROVE RaceInv'
  OBVIOUS
<1>1. PICK pid \in Pids :
        /\ IsNewPid(pid)
        /\ StartProgram(pid, cur, SchedActive, SchedSaved,
                        IF pid \in Roots THEN loc
                        ELSE [loc EXCEPT ![cur] = "sched_execute"],
                        "sched_execute")
  BY DEF TickStartShell
<1> DEFINE l == IF pid \in Roots THEN loc
                ELSE [loc EXCEPT ![cur] = "sched_execute"]
<1>2. /\ cur \in Pids /\ ~proc_id_used[pid]
      /\ \A q \in Pids : q < pid => proc_id_used[q]
  BY <1>1, TickNeedsWindow DEF TickStartShell, IsNewPid
<1>3. /\ l \in [Pids -> Locs]
      /\ l[cur] \in {loc[cur], "sched_execute"}
      /\ \A p \in Pids \ {cur} : l[p] = loc[p]
  BY <1>2 DEF RaceInv, RaceTypes, Locs
<1>4. StartProgram(pid, cur, SchedActive, SchedSaved, l, "sched_execute")
  BY <1>1
<1> HIDE DEF l
<1>5. pid # cur => LeavesWell(l[cur]) /\ loc[cur] \notin Booting
  <2>1. loc[cur] \in Booting => cur = 0 /\ ~proc_id_used[cur]
    BY <1>2 DEF RaceInv, BootInv
  <2>2. pid # cur => loc[cur] \notin Booting
    BY <1>2, <2>1
  <2>3. LeavesWell(loc[cur])
    BY TickLeavesWell DEF TickStartShell
  <2>4. ~proc_id_used[cur] /\ pid # cur => "halt" \in Windows
    BY <1>2, <2>2, TickNeedsWindow DEF TickStartShell, RaceInv, FreeInv
  <2> QED BY <1>3, <2>2, <2>3, <2>4 DEF LeavesWell
<1>6. \A p \in Pids : l[p] \in Booting => p = pid
  <2>1. CASE pid = cur
    BY <1>2, <1>3, <2>1 DEF RaceInv, BootInv
  <2>2. CASE pid # cur
    BY <1>2, <1>3, <1>5, <2>2, NobodyBoots
  <2> QED BY <2>1, <2>2
<1> QED BY <1>2, <1>3, <1>4, <1>5, <1>6, SchedRace, StartRace

(* A tick that switches. *)
LEMMA TickSwitchRace == RaceInv /\ TickSwitch => RaceInv'
<1> SUFFICES ASSUME RaceInv, TickSwitch PROVE RaceInv'
  OBVIOUS
<1>1. PICK next \in Pids : SchedActive[next] /\ SwitchTo(next, SchedSaved, loc)
  BY DEF TickSwitch, IsNextProc
<1>2. /\ active' = SchedActive /\ esp' = SchedSaved
      /\ proc_id_used' = proc_id_used /\ parent' = parent
      /\ Resume(next, SchedSaved, loc)
  BY <1>1 DEF TickSwitch, SwitchTo
<1>3. cur \in Pids /\ LeavesWell(loc[cur])
  BY TickNeedsWindow, TickLeavesWell DEF TickSwitch
<1>4. ASSUME NEW p \in Pids, loc[p] \in Booting
      PROVE  /\ p = 0 /\ next = 0
             /\ \A q \in Pids : ~proc_id_used[q] /\ (active'[q] => q = 0)
  <2>1. /\ p = 0 /\ cur = 0
        /\ \A q \in Pids : ~proc_id_used[q] /\ (active[q] => q = 0)
    BY <1>3, <1>4 DEF RaceInv, BootInv
  <2> QED BY <1>1, <1>2, <1>3, <2>1, SchedRace
<1>5. loc \in [Pids -> Locs]
  BY DEF RaceInv, RaceTypes
<1> QED BY <1>2, <1>3, <1>4, <1>5, SchedRace, ResumeRace

(* sched goes on after its execute. *)
LEMMA SchedGoOnRace == RaceInv /\ SchedGoOn => RaceInv'
<1> SUFFICES ASSUME RaceInv, SchedGoOn PROVE RaceInv'
  OBVIOUS
<1> DEFINE l == [loc EXCEPT ![cur] = "left"]
<1>1. PICK next \in Pids : SwitchTo(next, esp, l)
  BY DEF SchedGoOn
<1>2. /\ active' = active /\ esp' = esp
      /\ proc_id_used' = proc_id_used /\ parent' = parent
      /\ Resume(next, esp, l)
  BY <1>1 DEF SchedGoOn, SwitchTo
<1>3. cur \in Pids /\ loc[cur] = "sched"
  BY DEF SchedGoOn, RaceInv, RaceTypes
<1>4. /\ l \in [Pids -> Locs] /\ esp \in [Pids -> Contexts]
      /\ active \in [Pids -> BOOLEAN]
      /\ l[cur] = "left" /\ \A p \in Pids \ {cur} : l[p] = loc[p]
  BY <1>3 DEF RaceInv, RaceTypes, Locs
<1> HIDE DEF l
<1>5. LeavesWell(l[cur])
  BY <1>3, <1>4 DEF LeavesWell, RaceInv, FreeInv
<1>6. \A p \in Pids : l[p] \notin Booting
  BY <1>3, <1>4, NobodyBoots
<1> QED BY <1>2, <1>3, <1>4, <1>5, <1>6, ResumeRace

(* halt leaves its stack for the parent's. *)
LEMMA HaltReturnRace == RaceInv /\ HaltReturn => RaceInv'
<1> SUFFICES ASSUME RaceInv, HaltReturn PROVE RaceInv'
  OBVIOUS
<1> DEFINE l == [loc EXCEPT ![cur] = "idle"]
<1>1. /\ active' = active /\ esp' = esp
      /\ proc_id_used' = proc_id_used /\ parent' = parent
      /\ Resume(parent[cur], esp, l)
  BY DEF HaltReturn, tables, pcbs
<1>2. cur \in Pids /\ loc[cur] = "halt_return"
  BY DEF HaltReturn, RaceInv, RaceTypes
<1>3. parent[cur] \in Pids
  BY <1>2, HaltHasParent DEF HaltTail
<1>4. /\ l \in [Pids -> Locs] /\ esp \in [Pids -> Contexts]
      /\ active \in [Pids -> BOOLEAN]
      /\ l[cur] = "idle" /\ \A p \in Pids \ {cur} : l[p] = loc[p]
  BY <1>2 DEF RaceInv, RaceTypes, Locs
<1> HIDE DEF l
<1>5. LeavesWell(l[cur])
  BY <1>4 DEF LeavesWell
<1>6. \A p \in Pids : l[p] \notin Booting
  BY <1>2, <1>4, NobodyBoots
<1> QED BY <1>1, <1>2, <1>3, <1>4, <1>5, <1>6, ResumeRace

(* A statement of halt that goes on to the next one, or its beginning. *)
LEMMA HaltStepRace ==
  ASSUME RaceInv, cur \in Pids, cur' = cur,
         NEW to \in HaltHead \cup HaltTail, loc' = [loc EXCEPT ![cur] = to],
         loc[cur] \in {"user"} \cup HaltHead \cup HaltTail,
         parent' = parent, esp' = esp, active' \in [Pids -> BOOLEAN],
         \/ proc_id_used' = proc_id_used /\ (to \in AfterFree \/ proc_id_used[cur])
         \/ proc_id_used' = [proc_id_used EXCEPT ![cur] = FALSE] /\ to \in AfterFree
  PROVE  RaceInv'
<1>1. /\ loc'[cur] = to
      /\ \A p \in Pids \ {cur} : /\ loc'[p] = loc[p]
                                 /\ proc_id_used'[p] = proc_id_used[p]
      /\ to \notin AfterFree => proc_id_used'[cur]
  BY DEF RaceInv, RaceTypes
<1>2. RaceTypes'
  <2>1. loc' \in [Pids -> Locs]
    BY DEF RaceInv, RaceTypes, Locs
  <2> QED BY <2>1 DEF RaceInv, RaceTypes
<1>3. \A p \in Pids : loc'[p] \notin Booting
  BY <1>1, NobodyBoots DEF HaltHead, HaltTail
<1>4. BootInv'
  BY <1>3 DEF BootInv
<1>5. FreeInv'
  BY <1>1 DEF RaceInv, FreeInv
<1>6. parent[cur] \in Pids
  BY OwnsPid, HaltHasParent DEF RaceInv, PcbInv
<1>7. PcbInv'
  BY <1>1, <1>6 DEF RaceInv, PcbInv, Intact
<1> QED BY <1>2, <1>4, <1>5, <1>7 DEF RaceInv

(* halt, up to its last step. *)
LEMMA HaltRace ==
  ASSUME RaceInv,
         \/ HaltCall \/ Exception \/ HaltClear \/ HaltPaging \/ HaltFree
         \/ HaltDeactivate \/ HaltWake \/ HaltTss
  PROVE  RaceInv'
<1>1. active \in [Pids -> BOOLEAN] /\ cur \in Pids \cup {Nil}
  BY DEF RaceInv, RaceTypes
<1>2. CASE HaltCall \/ Exception
  <2>1. /\ cur \in Pids /\ cur' = cur /\ loc[cur] = "user"
        /\ loc' = [loc EXCEPT ![cur] = "halt_clear"]
        /\ UNCHANGED <<parent, esp, active, proc_id_used>>
    BY <1>1, <1>2 DEF HaltCall, Exception, InProgram, tables, pcbs, cpu
  <2> QED BY <1>1, <2>1, OwnsPid, HaltStepRace DEF HaltHead
<1>3. CASE HaltClear \/ HaltPaging
  <2>1. /\ cur \in Pids /\ cur' = cur /\ loc[cur] \in HaltHead
        /\ \E to \in {"halt_paging", "halt_free"} : loc' = [loc EXCEPT ![cur] = to]
        /\ UNCHANGED <<parent, esp, active, proc_id_used>>
    BY <1>1, <1>3 DEF HaltClear, HaltPaging, HaltStep, HaltHead, tables, pcbs
  <2> QED BY <1>1, <2>1, OwnsPid, HaltStepRace DEF HaltHead, HaltTail
<1>4. CASE HaltFree
  <2>1. /\ cur \in Pids /\ cur' = cur /\ loc[cur] = "halt_free"
        /\ loc' = [loc EXCEPT ![cur] = "halt_deactivate"]
        /\ proc_id_used' = [proc_id_used EXCEPT ![cur] = FALSE]
        /\ UNCHANGED <<parent, esp, active>>
    BY <1>1, <1>4 DEF HaltFree, HaltStep, pcbs
  <2> QED BY <1>1, <2>1, HaltStepRace DEF HaltTail
<1>5. CASE HaltDeactivate \/ HaltWake \/ HaltTss
  <2>1. /\ cur \in Pids /\ cur' = cur /\ loc[cur] \in HaltTail
        /\ \E to \in AfterFree : loc' = [loc EXCEPT ![cur] = to]
        /\ UNCHANGED <<parent, esp, proc_id_used>>
        /\ active' \in [Pids -> BOOLEAN]
    BY <1>1, <1>5 DEF HaltDeactivate, HaltWake, HaltTss, HaltStep, HaltTail,
                      tables, pcbs
  <2> QED BY <2>1, HaltStepRace DEF HaltTail
<1> QED BY <1>2, <1>3, <1>4, <1>5

(* A failing execute clears the PCB of a free pid. *)
LEMMA ExecuteBadFileRace == RaceInv /\ ExecuteBadFile => RaceInv'
<1> SUFFICES ASSUME RaceInv, ExecuteBadFile PROVE RaceInv'
  OBVIOUS
<1>1. PICK pid \in Pids :
        /\ ~proc_id_used[pid]
        /\ parent' = [parent EXCEPT ![pid] = IF pid = 0 THEN 0 ELSE Nil]
        /\ esp' = [esp EXCEPT ![pid] = NoEsp]
  BY DEF ExecuteBadFile, IsNewPid
<1>2. /\ cur \in Pids /\ loc[cur] = "user"
      /\ UNCHANGED <<proc_id_used, active, loc, cur>>
  BY DEF ExecuteBadFile, InProgram, tables, cpu, RaceInv, RaceTypes
<1>3. pid # cur
  BY <1>1, <1>2, OwnsPid
<1>4. RaceTypes'
  <2>1. esp' \in [Pids -> Contexts]
    BY <1>1 DEF RaceInv, RaceTypes, Contexts
  <2>2. parent' \in [Pids -> Pids \cup {Nil}]
    BY <1>1 DEF RaceInv, RaceTypes
  <2> QED BY <1>2, <2>1, <2>2 DEF RaceInv, RaceTypes
<1>5. BootInv' /\ FreeInv'
  BY <1>2 DEF RaceInv, BootInv, FreeInv
<1>6. PcbInv'
  <2>1. esp'[pid] # loc[pid] \/ loc[pid] \notin AfterFree
    BY <1>1 DEF RaceInv, RaceTypes, NoEsp
  <2>2. \A p \in Pids \ {pid} : parent'[p] = parent[p] /\ esp'[p] = esp[p]
    BY <1>1 DEF RaceInv, RaceTypes
  <2> QED BY <1>1, <1>2, <1>3, <2>1, <2>2 DEF RaceInv, PcbInv, Intact
<1> QED BY <1>4, <1>5, <1>6 DEF RaceInv

(* Paging is turned on; the terminal is switched; nothing changes. *)
LEMMA OtherRace ==
  ASSUME RaceInv,
         EnablePaging \/ SwitchTerminals \/ ExecuteRefused \/ UNCHANGED vars
  PROVE  RaceInv'
<1>1. UNCHANGED <<proc_id_used, active, parent, esp>>
  BY DEF EnablePaging, SwitchTerminals, ExecuteRefused, vars, tables, pcbs
<1>2. CASE EnablePaging
  <2>1. /\ cur \in Pids /\ cur' = cur /\ loc[cur] \in Booting
        /\ loc' = [loc EXCEPT ![cur] = "boot"]
    BY <1>2 DEF EnablePaging, RaceInv, RaceTypes
  <2>2. loc'[cur] = "boot" /\ \A p \in Pids \ {cur} : loc'[p] = loc[p]
    BY <2>1 DEF RaceInv, RaceTypes
  <2>3. RaceTypes'
    BY <1>1, <2>1 DEF RaceInv, RaceTypes, Locs
  <2>4. BootInv' /\ FreeInv' /\ PcbInv'
    BY <1>1, <2>1, <2>2 DEF RaceInv, BootInv, FreeInv, PcbInv, Intact
  <2> QED BY <2>3, <2>4 DEF RaceInv
<1>3. CASE loc' = loc /\ cur' = cur
  BY <1>1, <1>3 DEF RaceInv, RaceTypes, BootInv, FreeInv, PcbInv, Intact
<1>4. CASE loc' = loc /\ cur' = Nil /\ cur \in Pids /\ loc[cur] = "boot"
  BY <1>1, <1>4 DEF RaceInv, RaceTypes, BootInv, FreeInv, PcbInv, Intact
<1>5. CASE SwitchTerminals
  <2>1. cur \in Pids /\ loc' = loc
    BY <1>5 DEF SwitchTerminals, Interruptible, RaceInv, RaceTypes
  <2> QED BY <1>3, <1>4, <1>5, <2>1 DEF SwitchTerminals
<1> QED BY <1>2, <1>3, <1>5 DEF ExecuteRefused, vars, cpu

(* Every step keeps the invariant. *)
LEMMA NextRace == RaceInv /\ [Next]_vars => RaceInv'
BY ExecuteRace, BootRace, HaltRestartRace, TickStartShellRace, TickSwitchRace,
   SchedGoOnRace, HaltReturnRace, HaltRace, ExecuteBadFileRace, OtherRace
   DEF Next, HaltSteps, Tick

-----------------------------------------------------------------------------
(* The theorems. *)

(* Whatever interferes, RaceInv holds: the stack of a free pid is unused,  *)
(* or its code is past the point where halt gives the pid back.            *)
THEOREM RaceInvariantHolds == Spec => []RaceInv
BY InitRace, NextRace, PTL DEF Spec

(* halt never follows a null parent (syscall.c lines 172 and 180 to 193),  *)
(* whichever of the windows are open.                                      *)
THEOREM ParentFound == Spec => []HaltFindsParent
<1>1. RaceInv => HaltFindsParent
  BY HaltHasParent DEF HaltFindsParent, RaceInv, RaceTypes
<1> QED BY <1>1, RaceInvariantHolds, PTL

(* The pid search of execute takes a stack in use only if that is the      *)
(* stack it runs on, or belongs to a halt that a tick interrupted after it *)
(* had given back the pid; without the "halt" window never the latter.     *)
THEOREM StackSafe == Spec => StackNotReused
<1> DEFINE Step == \A p \in Pids :
       ~proc_id_used[p] /\ proc_id_used'[p] /\ loc[p] # "idle" =>
         \/ p = cur /\ cur' = p /\ loc[p] \in Booting \cup AfterFree \cup InSched
         \/ p # cur /\ loc[p] \in AfterFree \cup InSched /\ "halt" \in Windows
<1>1. ASSUME RaceInv, [Next]_vars PROVE Step
  <2> SUFFICES ASSUME NEW p \in Pids, ~proc_id_used[p], proc_id_used'[p],
                      loc[p] # "idle"
               PROVE  \/ /\ p = cur /\ cur' = p
                         /\ loc[p] \in Booting \cup AfterFree \cup InSched
                      \/ /\ p # cur /\ loc[p] \in AfterFree \cup InSched
                         /\ "halt" \in Windows
    OBVIOUS
  <2> USE <1>1
  <2>1. Execute \/ Boot \/ TickStartShell \/ HaltRestart
    BY DEF Next, EnablePaging, Tick, TickSwitch, SchedGoOn, SwitchTo, HaltSteps,
       SwitchTerminals, ExecuteBadFile, ExecuteRefused, HaltCall, Exception,
       HaltStep, HaltClear, HaltPaging, HaltFree, HaltDeactivate, HaltWake,
       HaltTss, HaltReturn, tables, vars, RaceInv, RaceTypes
  <2>2. PICK pid \in Pids : /\ cur' = pid
                            /\ proc_id_used' = [proc_id_used EXCEPT ![pid] = TRUE]
    BY <2>1 DEF Execute, Boot, TickStartShell, HaltRestart, StartProgram,
       EnterProgram
  <2>3. cur' = p
    BY <2>2 DEF RaceInv, RaceTypes
  <2>4. cur \in Pids
    BY <2>1 DEF Execute, InProgram, Boot, TickStartShell, Preemptible,
       Interruptible, HaltRestart, RaceInv, RaceTypes
  <2>5. loc[p] \in Booting \cup AfterFree \cup InSched
    BY DEF RaceInv, FreeInv
  <2>6. p # cur => loc[p] \notin Booting /\ "halt" \in Windows
    BY <2>4, <2>5 DEF RaceInv, FreeInv, BootInv
  <2> QED BY <2>3, <2>5, <2>6
<1> QED BY <1>1, RaceInvariantHolds, PTL DEF Spec, StackNotReused

=============================================================================
