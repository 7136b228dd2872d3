------------------------- MODULE ProcessHaltProofs --------------------------
(***************************************************************************)
(* The statements of halt up to its last one keep IInv of ProcessInv.      *)
(***************************************************************************)
EXTENDS ProcessLemmas

USE SizesAssumption DEF Pids, Roots, Nil, EnterProgram, AfterFree, Booting

-----------------------------------------------------------------------------
(* Clearing the user page keeps the invariant. *)
LEMMA HaltClearIInv == IInv /\ HaltClear => IInv'
<1> SUFFICES ASSUME IInv, HaltClear PROVE IInv'
  OBVIOUS
<1> USE DEF HaltClear, HaltStep, tables, pcbs, cpu, HaltHead, HaltTail
<1>1. loc[cur] \notin Booting /\ shells_started' = shells_started /\ cur' = cur
  OBVIOUS
<1>2. cur \in Pids /\ cur \in Live /\ parent[cur] \in Pids
  BY <1>1, CurrentIsLive
<1>3. TypeOK'
  BY <1>2 DEF IInv, TypeOK, Locs
<1>4. CurrentInv'
  BY <1>2 DEF IInv, CurrentInv, TypeOK
<1>5. ArgInv'
  BY <1>2 DEF IInv, ArgInv, TypeOK
<1>6. OthersInv'
  <2>1. ASSUME NEW p \in Pids, p # cur
        PROVE  /\ loc'[p] = loc[p] /\ proc_id_used'[p] = proc_id_used[p]
               /\ user_mem'[p] = user_mem[p] /\ halt_arg'[p] = halt_arg[p]
               /\ loc[p] # "idle" => esp'[p] = esp[p] /\ esp0'[p] = esp0[p]
    BY <1>2, <2>1 DEF IInv, TypeOK, CurrentInv
  <2>2. ASSUME NEW p \in Pids, p # cur
        PROVE  /\ loc[p] # "execute" => active'[p] = active[p]
               /\ loc[p] = "execute" =>
                    (active'[p] <=>
                       /\ p = parent'[cur]
                       /\ loc'[cur] \in {"halt_tss", "halt_return"})
    BY <1>2, <2>2, SuspendedFacts DEF IInv, TypeOK
  <2> QED BY <1>1, <2>1, <2>2, OtherKept DEF IInv, OthersInv
<1>7. Live' = Live /\ Waiting' = Waiting
  BY <1>1, <1>2, <1>6 DEF IInv, Live, Waiting, CurrentInv, TypeOK
<1>8. \A p \in Live : parent'[p] = parent[p] /\ terminal_id'[p] = terminal_id[p]
  BY <1>2 DEF IInv, Live, TypeOK
<1>9. ChainInv' /\ ForegroundInv' /\ ShellInv'
  BY <1>1, <1>7, <1>8, ShapeKept
<1> QED BY <1>3, <1>4, <1>5, <1>6, <1>9 DEF IInv

(* Loading the parent's page directory keeps the invariant. *)
LEMMA HaltPagingIInv == IInv /\ HaltPaging => IInv'
<1> SUFFICES ASSUME IInv, HaltPaging PROVE IInv'
  OBVIOUS
<1> USE DEF HaltPaging, HaltStep, tables, pcbs, cpu, HaltHead, HaltTail
<1>1. loc[cur] \notin Booting /\ shells_started' = shells_started /\ cur' = cur
  OBVIOUS
<1>2. cur \in Pids /\ cur \in Live /\ parent[cur] \in Pids
  BY <1>1, CurrentIsLive
<1>3. TypeOK'
  BY <1>2 DEF IInv, TypeOK, Locs
<1>4. CurrentInv'
  BY <1>2 DEF IInv, CurrentInv, TypeOK
<1>5. ArgInv'
  BY <1>2 DEF IInv, ArgInv, TypeOK
<1>6. OthersInv'
  <2>1. ASSUME NEW p \in Pids, p # cur
        PROVE  /\ loc'[p] = loc[p] /\ proc_id_used'[p] = proc_id_used[p]
               /\ user_mem'[p] = user_mem[p] /\ halt_arg'[p] = halt_arg[p]
               /\ loc[p] # "idle" => esp'[p] = esp[p] /\ esp0'[p] = esp0[p]
    BY <1>2, <2>1 DEF IInv, TypeOK
  <2>2. ASSUME NEW p \in Pids, p # cur
        PROVE  /\ loc[p] # "execute" => active'[p] = active[p]
               /\ loc[p] = "execute" =>
                    (active'[p] <=>
                       /\ p = parent'[cur]
                       /\ loc'[cur] \in {"halt_tss", "halt_return"})
    BY <1>2, <2>2, SuspendedFacts DEF IInv, TypeOK
  <2> QED BY <1>1, <2>1, <2>2, OtherKept DEF IInv, OthersInv
<1>7. Live' = Live /\ Waiting' = Waiting
  BY <1>1, <1>2, <1>6 DEF IInv, Live, Waiting, CurrentInv, TypeOK
<1>8. \A p \in Live : parent'[p] = parent[p] /\ terminal_id'[p] = terminal_id[p]
  BY <1>2 DEF IInv, Live, TypeOK
<1>9. ChainInv' /\ ForegroundInv' /\ ShellInv'
  BY <1>1, <1>7, <1>8, ShapeKept
<1> QED BY <1>3, <1>4, <1>5, <1>6, <1>9 DEF IInv

(* Giving the pid back keeps the invariant. *)
LEMMA HaltFreeIInv == IInv /\ HaltFree => IInv'
<1> SUFFICES ASSUME IInv, HaltFree PROVE IInv'
  OBVIOUS
<1> USE DEF HaltFree, HaltStep, tables, pcbs, cpu, HaltHead, HaltTail
<1>1. loc[cur] \notin Booting /\ shells_started' = shells_started /\ cur' = cur
  OBVIOUS
<1>2. cur \in Pids /\ cur \in Live /\ parent[cur] \in Pids
  BY <1>1, CurrentIsLive
<1>3. TypeOK'
  BY <1>2 DEF IInv, TypeOK, Locs
<1>4. CurrentInv'
  BY <1>2 DEF IInv, CurrentInv, TypeOK
<1>5. ArgInv'
  BY <1>2 DEF IInv, ArgInv, TypeOK
<1>6. OthersInv'
  <2>1. ASSUME NEW p \in Pids, p # cur
        PROVE  /\ loc'[p] = loc[p] /\ proc_id_used'[p] = proc_id_used[p]
               /\ user_mem'[p] = user_mem[p] /\ halt_arg'[p] = halt_arg[p]
               /\ loc[p] # "idle" => esp'[p] = esp[p] /\ esp0'[p] = esp0[p]
    BY <1>2, <2>1 DEF IInv, TypeOK
  <2>2. ASSUME NEW p \in Pids, p # cur
        PROVE  /\ loc[p] # "execute" => active'[p] = active[p]
               /\ loc[p] = "execute" =>
                    (active'[p] <=>
                       /\ p = parent'[cur]
                       /\ loc'[cur] \in {"halt_tss", "halt_return"})
    BY <1>2, <2>2, SuspendedFacts DEF IInv, TypeOK
  <2> QED BY <1>1, <2>1, <2>2, OtherKept DEF IInv, OthersInv
<1>7. Live' = Live /\ Waiting' = Waiting
  BY <1>1, <1>2, <1>6 DEF IInv, Live, Waiting, CurrentInv, TypeOK
<1>8. \A p \in Live : parent'[p] = parent[p] /\ terminal_id'[p] = terminal_id[p]
  BY <1>2 DEF IInv, Live, TypeOK
<1>9. ChainInv' /\ ForegroundInv' /\ ShellInv'
  BY <1>1, <1>7, <1>8, ShapeKept
<1> QED BY <1>3, <1>4, <1>5, <1>6, <1>9 DEF IInv

(* Clearing halt's own active flag keeps the invariant. *)
LEMMA HaltDeactivateIInv == IInv /\ HaltDeactivate => IInv'
<1> SUFFICES ASSUME IInv, HaltDeactivate PROVE IInv'
  OBVIOUS
<1> USE DEF HaltDeactivate, HaltStep, tables, pcbs, cpu, HaltHead, HaltTail
<1>1. loc[cur] \notin Booting /\ shells_started' = shells_started /\ cur' = cur
  OBVIOUS
<1>2. cur \in Pids /\ cur \in Live /\ parent[cur] \in Pids
  BY <1>1, CurrentIsLive
<1>3. TypeOK'
  BY <1>2 DEF IInv, TypeOK, Locs
<1>4. CurrentInv'
  BY <1>2 DEF IInv, CurrentInv, TypeOK
<1>5. ArgInv'
  BY <1>2 DEF IInv, ArgInv, TypeOK
<1>6. OthersInv'
  <2>1. ASSUME NEW p \in Pids, p # cur
        PROVE  /\ loc'[p] = loc[p] /\ proc_id_used'[p] = proc_id_used[p]
               /\ user_mem'[p] = user_mem[p] /\ halt_arg'[p] = halt_arg[p]
               /\ loc[p] # "idle" => esp'[p] = esp[p] /\ esp0'[p] = esp0[p]
    BY <1>2, <2>1 DEF IInv, TypeOK
  <2>2. ASSUME NEW p \in Pids, p # cur
        PROVE  /\ loc[p] # "execute" => active'[p] = active[p]
               /\ loc[p] = "execute" =>
                    (active'[p] <=>
                       /\ p = parent'[cur]
                       /\ loc'[cur] \in {"halt_tss", "halt_return"})
    BY <1>2, <2>2, SuspendedFacts DEF IInv, TypeOK
  <2> QED BY <1>1, <2>1, <2>2, OtherKept DEF IInv, OthersInv
<1>7. Live' = Live /\ Waiting' = Waiting
  BY <1>1, <1>2, <1>6 DEF IInv, Live, Waiting, CurrentInv, TypeOK
<1>8. \A p \in Live : parent'[p] = parent[p] /\ terminal_id'[p] = terminal_id[p]
  BY <1>2 DEF IInv, Live, TypeOK
<1>9. ChainInv' /\ ForegroundInv' /\ ShellInv'
  BY <1>1, <1>7, <1>8, ShapeKept
<1> QED BY <1>3, <1>4, <1>5, <1>6, <1>9 DEF IInv

(* Making the parent active keeps the invariant. *)
LEMMA HaltWakeIInv == IInv /\ HaltWake => IInv'
<1> SUFFICES ASSUME IInv, HaltWake PROVE IInv'
  OBVIOUS
<1> USE DEF HaltWake, HaltStep, tables, pcbs, cpu, HaltHead, HaltTail
<1>1. loc[cur] \notin Booting /\ shells_started' = shells_started /\ cur' = cur
  OBVIOUS
<1>2. cur \in Pids /\ cur \in Live /\ parent[cur] \in Pids
  BY <1>1, CurrentIsLive
<1>3. TypeOK'
  BY <1>2 DEF IInv, TypeOK, Locs
<1>4. CurrentInv'
  BY <1>2 DEF IInv, CurrentInv, TypeOK
<1>5. ArgInv'
  BY <1>2 DEF IInv, ArgInv, TypeOK
<1>6. OthersInv'
  <2>1. ASSUME NEW p \in Pids, p # cur
        PROVE  /\ loc'[p] = loc[p] /\ proc_id_used'[p] = proc_id_used[p]
               /\ user_mem'[p] = user_mem[p] /\ halt_arg'[p] = halt_arg[p]
               /\ loc[p] # "idle" => esp'[p] = esp[p] /\ esp0'[p] = esp0[p]
    BY <1>2, <2>1 DEF IInv, TypeOK
  <2>2. ASSUME NEW p \in Pids, p # cur
        PROVE  /\ loc[p] # "execute" => active'[p] = active[p]
               /\ loc[p] = "execute" =>
                    (active'[p] <=>
                       /\ p = parent'[cur]
                       /\ loc'[cur] \in {"halt_tss", "halt_return"})
    <3>1. /\ p = parent[cur] => active'[p]
          /\ p # parent[cur] => active'[p] = active[p]
      BY <1>2, <2>2 DEF IInv, TypeOK
    <3>2. /\ loc[cur] = "halt_wake" /\ parent'[cur] = parent[cur]
          /\ loc'[cur] = "halt_tss"
      BY <1>2 DEF IInv, TypeOK
    <3> HIDE DEF HaltWake
    <3>3. p = parent[cur] => loc[p] = "execute"
      BY <1>1, <2>2, ParentWaits
    <3>4. loc[p] = "execute" => ~active[p]
      BY <2>2, <3>2, SuspendedFacts DEF IInv
    <3>5. CASE p = parent[cur]
      BY <3>1, <3>2, <3>3, <3>5
    <3>6. CASE p # parent[cur]
      BY <3>1, <3>2, <3>4, <3>6
    <3> QED BY <3>5, <3>6
  <2> HIDE DEF HaltWake
  <2> QED BY <1>1, <2>1, <2>2, OtherKept DEF IInv, OthersInv
<1>7. Live' = Live /\ Waiting' = Waiting
  BY <1>1, <1>2, <1>6 DEF IInv, Live, Waiting, CurrentInv, TypeOK
<1>8. \A p \in Live : parent'[p] = parent[p] /\ terminal_id'[p] = terminal_id[p]
  BY <1>2 DEF IInv, Live, TypeOK
<1>9. ChainInv' /\ ForegroundInv' /\ ShellInv'
  BY <1>1, <1>7, <1>8, ShapeKept
<1> QED BY <1>3, <1>4, <1>5, <1>6, <1>9 DEF IInv

(* Setting the parent's kernel stack keeps the invariant. *)
LEMMA HaltTssIInv == IInv /\ HaltTss => IInv'
<1> SUFFICES ASSUME IInv, HaltTss PROVE IInv'
  OBVIOUS
<1> USE DEF HaltTss, HaltStep, tables, pcbs, cpu, HaltHead, HaltTail
<1>1. loc[cur] \notin Booting /\ shells_started' = shells_started /\ cur' = cur
  OBVIOUS
<1>2. cur \in Pids /\ cur \in Live /\ parent[cur] \in Pids
  BY <1>1, CurrentIsLive
<1>3. TypeOK'
  BY <1>2 DEF IInv, TypeOK, Locs
<1>4. CurrentInv'
  BY <1>2 DEF IInv, CurrentInv, TypeOK
<1>5. ArgInv'
  BY <1>2 DEF IInv, ArgInv, TypeOK
<1>6. OthersInv'
  <2>1. ASSUME NEW p \in Pids, p # cur
        PROVE  /\ loc'[p] = loc[p] /\ proc_id_used'[p] = proc_id_used[p]
               /\ user_mem'[p] = user_mem[p] /\ halt_arg'[p] = halt_arg[p]
               /\ loc[p] # "idle" => esp'[p] = esp[p] /\ esp0'[p] = esp0[p]
    BY <1>2, <2>1 DEF IInv, TypeOK
  <2>2. ASSUME NEW p \in Pids, p # cur
        PROVE  /\ loc[p] # "execute" => active'[p] = active[p]
               /\ loc[p] = "execute" =>
                    (active'[p] <=>
                       /\ p = parent'[cur]
                       /\ loc'[cur] \in {"halt_tss", "halt_return"})
    BY <1>2, <2>2, SuspendedFacts DEF IInv, TypeOK
  <2> QED BY <1>1, <2>1, <2>2, OtherKept DEF IInv, OthersInv
<1>7. Live' = Live /\ Waiting' = Waiting
  BY <1>1, <1>2, <1>6 DEF IInv, Live, Waiting, CurrentInv, TypeOK
<1>8. \A p \in Live : parent'[p] = parent[p] /\ terminal_id'[p] = terminal_id[p]
  BY <1>2 DEF IInv, Live, TypeOK
<1>9. ChainInv' /\ ForegroundInv' /\ ShellInv'
  BY <1>1, <1>7, <1>8, ShapeKept
<1> QED BY <1>3, <1>4, <1>5, <1>6, <1>9 DEF IInv

=============================================================================
