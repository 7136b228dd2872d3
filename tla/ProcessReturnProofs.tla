------------------------ MODULE ProcessReturnProofs -------------------------
(***************************************************************************)
(* The last step of halt, the return to the parent or the start of a new   *)
(* root shell, keeps IInv of ProcessInv.                                   *)
(***************************************************************************)
EXTENDS ProcessSwitchProofs

USE SizesAssumption DEF Pids, Roots, Nil, EnterProgram, AfterFree, Booting

-----------------------------------------------------------------------------
(* The last step of halt. *)

(* A root shell that halts finds its own pid, and no lower one, free.      *)
LEMMA RestartPid ==
  ASSUME IInv, HaltRestart, NEW pid \in Pids, IsNewPid(pid)
  PROVE  pid = cur /\ cur \in Roots
<1> USE DEF IInv, HaltTail
<1>1. loc[cur] = "halt_return" /\ parent[cur] = cur
  BY DEF HaltRestart
<1>2. /\ cur \in Pids /\ cur \in Live /\ cur \notin Waiting
      /\ Live = {p \in Pids : proc_id_used[p]} \cup {cur}
      /\ ~proc_id_used[cur]
  BY <1>1, CurrentIsLive DEF Live, CurrentInv, HaltHead
<1>3. cur \in Roots
  BY <1>1, <1>2 DEF ChainInv
<1>4. \A r \in Roots : r < cur => r \in Live
  BY <1>1, <1>2, <1>3 DEF ShellInv, TypeOK
<1>5. \A r \in Pids : r < cur => proc_id_used[r]
  BY <1>2, <1>3, <1>4
<1>6. ~proc_id_used[pid] /\ \A q \in Pids : q < pid => proc_id_used[q]
  BY DEF IsNewPid
<1> QED BY <1>2, <1>3, <1>5, <1>6

(* Anyone else returns to a parent that waits in execute with everything   *)
(* saved.                                                                  *)
LEMMA ReturnTarget ==
  ASSUME IInv, HaltReturn
  PROVE  /\ cur \in Pids /\ cur \notin Roots
         /\ parent[cur] \in Live /\ parent[cur] \in Waiting
         /\ parent[cur] \in Pids /\ parent[cur] # cur
         /\ terminal_id[parent[cur]] = terminal_id[cur]
         /\ loc[parent[cur]] = "execute" /\ proc_id_used[parent[cur]]
         /\ active[parent[cur]] /\ user_mem[parent[cur]] = "program"
         /\ esp[parent[cur]] = "execute" /\ esp0[parent[cur]] = parent[cur]
         /\ cur' = parent[cur]
         /\ loc' = [loc EXCEPT ![cur] = "idle", ![parent[cur]] = "user"]
         /\ ReturnsFromExecute(parent[cur], esp, [loc EXCEPT ![cur] = "idle"])
<1> USE DEF IInv, HaltTail
<1>1. /\ loc[cur] = "halt_return"
      /\ parent[cur] = cur => TableFull
      /\ Resume(parent[cur], esp, [loc EXCEPT ![cur] = "idle"])
  BY DEF HaltReturn
<1>2. cur \in Pids /\ cur \in Live /\ ~proc_id_used[cur]
  BY <1>1, CurrentIsLive DEF Live, CurrentInv, HaltHead
<1>3. cur \notin Roots
  BY <1>1, <1>2 DEF TableFull, ChainInv
<1>4. /\ parent[cur] \in Live /\ parent[cur] \in Waiting
      /\ parent[cur] \in Pids /\ parent[cur] # cur
      /\ terminal_id[parent[cur]] = terminal_id[cur]
  BY <1>2, <1>3 DEF ChainInv, Live
<1>5. /\ loc[parent[cur]] = "execute" /\ proc_id_used[parent[cur]]
      /\ active[parent[cur]] /\ user_mem[parent[cur]] = "program"
      /\ esp[parent[cur]] = "execute" /\ esp0[parent[cur]] = parent[cur]
  BY <1>1, <1>4, SuspendedFacts DEF Waiting
<1> DEFINE l == [loc EXCEPT ![cur] = "idle"]
<1>6. l[parent[cur]] = "execute" /\ l \in [Pids -> Locs]
  BY <1>2, <1>4, <1>5 DEF TypeOK, Locs
<1>7. Intact(parent[cur], esp, l)
  BY <1>5, <1>6 DEF Intact
<1> HIDE DEF l
<1>8. cur' = parent[cur] /\ loc' = [l EXCEPT ![parent[cur]] = "user"]
  <2>1. Resume(parent[cur], esp, l)
    BY <1>1 DEF l
  <2> QED BY <1>6, <1>7, <2>1 DEF Resume
<1>9. ReturnsFromExecute(parent[cur], esp, l)
  BY <1>6, <1>7 DEF ReturnsFromExecute
<1> USE DEF l
<1> QED BY <1>2, <1>3, <1>4, <1>5, <1>8, <1>9

(* A root shell that restarts itself in halt keeps the invariant. *)
LEMMA HaltRestartIInv ==
  ASSUME Windows = {} PROVE IInv /\ HaltRestart => IInv'
<1> SUFFICES ASSUME IInv, HaltRestart PROVE IInv'
  OBVIOUS
<1> DEFINE l == [loc EXCEPT ![cur] = "idle"]
<1>1. PICK pid \in Pids :
        /\ IsNewPid(pid)
        /\ StartProgram(pid, cur, active, esp, l, NestedFrame)
  BY DEF HaltRestart
<1>2. /\ loc[cur] = "halt_return" /\ parent[cur] = cur /\ paging
      /\ shells_started' = shells_started /\ ret' = ret
  BY DEF HaltRestart, IInv, CurrentInv
<1>3. /\ cur \in Pids /\ cur \in Live /\ cur \notin Waiting
      /\ Live = {p \in Pids : proc_id_used[p]} \cup {cur}
  BY <1>2, CurrentIsLive DEF Live, HaltTail
<1>4. cur \in Roots /\ pid = cur
  BY <1>1, RestartPid
<1>5. /\ TypeOK /\ l \in [Pids -> Locs]
      /\ active \in [Pids -> BOOLEAN] /\ esp \in [Pids -> Contexts]
      /\ shells_started' \in 1 .. NUM_TERMS
      /\ \A p \in Pids \ {cur} : l[p] = loc[p]
  BY <1>2, <1>3 DEF IInv, TypeOK, Locs
<1> HIDE DEF l
<1>6. TypeOK'
  BY <1>1, <1>2, <1>3, <1>5, FrameTypes, StartProgramType
<1>s. Started(cur, cur, active, esp, l, NestedFrame)
  BY <1>1, <1>2, <1>3, <1>4, <1>5, StartEffect
<1>7. /\ cur' = cur /\ cr3' = cur /\ tss_esp0' = cur /\ paging'
      /\ proc_id_used'[cur] /\ active'[cur] /\ loc'[cur] = "user"
      /\ halt_arg'[cur] = NoArg /\ user_mem'[cur] = "program"
      /\ parent'[cur] = cur /\ terminal_id'[cur] = cur
  BY <1>s, <1>4 DEF Started
<1>8. \A p \in Pids \ {cur} :
        /\ proc_id_used'[p] = proc_id_used[p] /\ loc'[p] = l[p]
        /\ parent'[p] = parent[p] /\ terminal_id'[p] = terminal_id[p]
        /\ user_mem'[p] = user_mem[p] /\ active'[p] = active[p]
        /\ esp'[p] = esp[p] /\ esp0'[p] = esp0[p]
        /\ halt_arg'[p] = IF l[p] \in HaltHead \cup HaltTail
                          THEN halt_arg[p] ELSE NoArg
  BY <1>s, <1>4 DEF Started
<1>9. \A p \in Pids \ {cur} : loc'[p] = loc[p] /\ halt_arg'[p] = halt_arg[p]
  BY <1>5, <1>8 DEF IInv, ArgInv
<1>10. CurrentInv'
  BY <1>3, <1>7, EnteredCurrent
<1>11. ArgInv'
  BY <1>7, <1>8 DEF ArgInv
<1>12. OthersInv'
  <2>1. ASSUME NEW p \in Pids, p # cur
        PROVE  p \in Gone' \cup Interrupted' \cup Suspended'
    <3>1. loc[p] = "execute" => ~active[p]
      BY <1>2, <2>1, SuspendedFacts DEF IInv
    <3>2. /\ proc_id_used'[p] = proc_id_used[p] /\ active'[p] = active[p]
          /\ user_mem'[p] = user_mem[p] /\ esp'[p] = esp[p]
          /\ esp0'[p] = esp0[p] /\ loc'[cur'] = "user"
      BY <1>7, <1>8, <2>1
    <3> QED BY <1>9, <2>1, <3>1, <3>2, OtherKept DEF IInv
  <2> QED BY <1>7, <2>1 DEF OthersInv
<1>13. Live' = Live /\ Waiting' = Waiting
  <2>1. Live' = {p \in Pids : proc_id_used'[p]}
    BY <1>7 DEF Live, HaltTail
  <2>2. Live' = Live
    BY <1>3, <1>7, <1>8, <2>1
  <2> QED BY <1>2, <1>7, <1>9, <2>2 DEF Waiting
<1>14. \A p \in Live : parent'[p] = parent[p] /\ terminal_id'[p] = terminal_id[p]
  <2>1. terminal_id[cur] = cur
    BY <1>3, <1>4 DEF IInv, ChainInv
  <2> QED BY <1>2, <1>3, <1>7, <1>8, <2>1
<1>15. ChainInv' /\ ForegroundInv' /\ ShellInv'
  BY <1>2, <1>13, <1>14, ShapeKept
<1> QED BY <1>6, <1>10, <1>11, <1>12, <1>15 DEF IInv

(* Returning from halt into the parent's execute keeps the invariant. *)
LEMMA HaltReturnIInv ==
  ASSUME Windows = {} PROVE IInv /\ HaltReturn => IInv'
<1> SUFFICES ASSUME IInv, HaltReturn PROVE IInv'
  OBVIOUS
<1> USE DEF IInv
<1> DEFINE q == parent[cur]
<1>1. /\ loc[cur] = "halt_return"
      /\ parent[cur] = cur => TableFull
      /\ ret' = [why |-> halt_arg[cur].why, val |-> halt_arg[cur].status]
      /\ IFlag' \in BOOLEAN
      /\ halt_arg' = [halt_arg EXCEPT ![cur] = NoArg]
      /\ UNCHANGED <<tables, pcbs, cr3, tss_esp0, paging, user_mem, shells_started>>
  BY ReturnTarget DEF HaltReturn
<1>2. /\ cur \in Pids /\ cur \in Live /\ cur \notin Waiting
      /\ Live = {p \in Pids : proc_id_used[p]} \cup {cur}
      /\ ~proc_id_used[cur]
  BY <1>1, CurrentIsLive DEF Live, CurrentInv, HaltHead, HaltTail
<1>3. cur \notin Roots
  BY ReturnTarget
<1>4. /\ q \in Live /\ q \in Waiting /\ q \in Pids /\ q # cur
      /\ terminal_id[q] = terminal_id[cur]
  BY ReturnTarget
<1>5. /\ loc[q] = "execute" /\ proc_id_used[q] /\ active[q]
      /\ esp[q] = "execute" /\ esp0[q] = q /\ user_mem[q] = "program"
  BY ReturnTarget
<1>6. /\ cur' = q
      /\ loc' = [loc EXCEPT ![cur] = "idle", ![q] = "user"]
  BY ReturnTarget
<1> HIDE DEF q
<1>7. TypeOK'
  <2>1. loc' \in [Pids -> Locs]
    BY <1>6 DEF TypeOK, Locs
  <2>2. halt_arg' \in [Pids -> HaltRecords]
    BY <1>1, FrameTypes DEF TypeOK
  <2>3. ret' \in Results
    <3>1. halt_arg[cur] \in HaltRecords
      BY <1>2 DEF TypeOK
    <3>2. /\ halt_arg[cur].why \in {"none", "exit", "exception"}
          /\ halt_arg[cur].status \in Int
      BY ONLY <3>1, HaltRecordFields, Zenon
    <3> QED BY <1>1, <3>2 DEF Results
  <2>4. cur' \in Pids
    BY <1>4, <1>6
  <2> QED BY <1>1, <2>1, <2>2, <2>3, <2>4 DEF TypeOK, tables, pcbs
<1>8. UNCHANGED <<proc_id_used, active, user_mem, esp, esp0, parent, terminal_id,
                  cr3, tss_esp0, paging>>
  BY <1>1 DEF tables, pcbs
<1>a. /\ ~proc_id_used[cur] /\ ~active[cur] /\ user_mem[cur] = "zero"
      /\ cr3 = q /\ tss_esp0 = q /\ paging
  BY <1>1, <1>2, <1>4, <1>5 DEF CurrentInv, TypeOK, HaltHead, HaltTail, q
<1>b. /\ loc'[cur] = "idle" /\ loc'[q] = "user"
      /\ halt_arg'[cur] = NoArg
      /\ \A p \in Pids \ {cur} : halt_arg'[p] = halt_arg[p]
      /\ \A p \in Pids \ {cur, q} : loc'[p] = loc[p]
  <2>1. loc \in [Pids -> Locs] /\ halt_arg \in [Pids -> HaltRecords]
    BY DEF TypeOK
  <2> QED BY <1>1, <1>2, <1>4, <1>6, <2>1
<1> HIDE DEF IInv
<1>c. CurrentInv'
  BY <1>4, <1>5, <1>6, <1>8, <1>a, <1>b, EnteredCurrent
<1>d. ArgInv'
  BY <1>5, <1>b DEF IInv, ArgInv, HaltHead, HaltTail
<1>9. OthersInv'
  <2>1. cur \in Gone'
    BY <1>2, <1>8, <1>a, <1>b DEF Gone
  <2>2. ASSUME NEW p \in Pids, p # cur, p # q
        PROVE  p \in Gone' \cup Interrupted' \cup Suspended'
    <3>1. loc[p] = "execute" => ~active[p]
      BY <2>2, SuspendedFacts DEF IInv, q
    <3> QED BY <1>6, <1>8, <1>b, <2>2, <3>1, OtherKept DEF IInv
  <2> QED BY <1>6, <2>1, <2>2 DEF OthersInv
<1> USE DEF IInv
<1>10. Live' = Live \ {cur} /\ Waiting' = Waiting \ {q}
  <2>1. Live' = {p \in Pids : proc_id_used'[p]}
    BY <1>6, <1>b DEF Live, HaltTail
  <2>2. Live' = Live \ {cur}
    BY <1>2, <1>8, <2>1
  <2> QED BY <1>1, <1>b, <2>2 DEF Waiting
<1>11. parent' = parent /\ terminal_id' = terminal_id
  BY <1>8
<1>12. ChainInv'
  <2>1. \A p \in Live : p # cur => parent[p] # q \/ p \in Roots
    BY <1>2, <1>3 DEF ChainInv, q
  <2>2. \A p \in Live' : terminal_id'[p] \in Live'
    <3>1. \A p \in Live : terminal_id[p] \in Live
      BY DEF ChainInv
    <3>2. \A p \in Live : p \in Pids
      BY DEF Live
    <3>3. \A p \in Pids : terminal_id[p] \in Roots
      BY DEF TypeOK
    <3> QED BY <3>1, <3>2, <3>3, <1>3, <1>10, <1>11
  <2>3. \A p \in Live' \cap Roots : parent'[p] = p /\ terminal_id'[p] = p
    BY <1>10, <1>11 DEF ChainInv
  <2>4. ASSUME NEW p \in Live' \ Roots
        PROVE  /\ parent'[p] \in Live' \cap Waiting'
               /\ parent'[p] # p
               /\ terminal_id'[parent'[p]] = terminal_id'[p]
    <3>1. p \in Live \ Roots /\ p # cur /\ parent[p] # q
      BY <1>10, <2>1, <2>4
    <3>2. parent[p] # cur
      BY <3>1, <1>2 DEF ChainInv
    <3> QED BY <3>1, <3>2, <1>10, <1>11 DEF ChainInv
  <2>5. \A p, r \in Live' \ Roots : parent'[p] = parent'[r] => p = r
    BY <1>10, <1>11 DEF ChainInv
  <2>6. ASSUME NEW p \in Waiting'
        PROVE  \E c \in Live' \ Roots : parent'[c] = p
    <3>1. p \in Waiting /\ p # q
      BY <1>10, <2>6
    <3>2. PICK c \in Live \ Roots : parent[c] = p
      BY <3>1 DEF ChainInv
    <3>3. c # cur
      BY <3>1, <3>2 DEF q
    <3> QED BY <3>2, <3>3, <1>10, <1>11
  <2> QED BY <2>2, <2>3, <2>4, <2>5, <2>6 DEF ChainInv
<1>13. ForegroundInv'
  <2>1. Foreground' = (Foreground \ {cur}) \cup {q} /\ cur \in Foreground
    BY <1>2, <1>4, <1>10 DEF Foreground
  <2>2. \A p, r \in Foreground' : terminal_id'[p] = terminal_id'[r] => p = r
    BY <2>1, <1>4, <1>11 DEF ForegroundInv
  <2>3. \A t \in Live' \cap Roots : \E p \in Foreground' : terminal_id'[p] = t
    BY <2>1, <1>4, <1>10, <1>11 DEF ForegroundInv
  <2> QED BY <2>2, <2>3 DEF ForegroundInv
<1>14. ShellInv'
  BY <1>1, <1>3, <1>10 DEF ShellInv
<1> QED BY <1>7, <1>9, <1>c, <1>d, <1>12, <1>13, <1>14

=============================================================================
