------------------------------ MODULE RtcProofs ------------------------------
(* Proofs about the clock driver, for any set of terminals and any rates.  *)
(* Where a theorem assumes ~Overlap, one program at a time is inside       *)
(* RTC_open or RTC_write.                                                  *)
EXTENDS Rtc, TLAPS

USE RatesAssumption, StackAssumption DEF Bytes, Registers, InitB, SetA, Inside

(* The chip and the driver's flags start in the invariant. *)
LEMMA InitInv == Init => Inv
<1> SUFFICES ASSUME Init PROVE Inv
  OBVIOUS
<1>1. {5, 2, 1} \in SUBSET (0 .. 7) /\ {1} \in SUBSET (0 .. 7)
  OBVIOUS
<1>2. reg["A"] = {5, 2, 1} /\ reg["B"] = {1} /\ reg["C"] = {}
  BY DEF Init
<1>3. reg \in [{"A", "B", "C"} -> SUBSET (0 .. 7)]
  BY <1>1, <1>2 DEF Init
<1>4. {} \in SUBSET (0 .. 7)
  OBVIOUS
<1>5. TypeOK
  <2>1. /\ val \in [Terms -> SUBSET (0 .. 7)]
        /\ rate \in [Terms -> SUBSET (0 .. 7)]
    BY <1>4 DEF Init
  <2>2. /\ rtc_interrupt_occured \in [Terms -> 0 .. 1]
        /\ opened \in [Terms -> BOOLEAN]
        /\ ticked \in [Terms -> BOOLEAN]
    BY DEF Init
  <2>3. /\ pc \in [Terms -> Inside \cup {"idle", "wait"}]
        /\ op \in [Terms -> {"RTC_open", "RTC_write", "RTC_read"}]
    BY DEF Init
  <2>4. index \in {"A", "B", "C"} /\ irq8 \in BOOLEAN
    BY DEF Init
  <2>5. unsupported \in BOOLEAN
    BY Zenon DEF Init
  <2> HIDE DEF Init
  <2> QED BY <1>3, <2>1, <2>2, <2>3, <2>4, <2>5, Zenon DEF TypeOK
<1>6. \A t \in Terms : pc[t] = "idle" /\ opened[t] = FALSE
  BY DEF Init
<1>7. index = "A" /\ irq8 = FALSE
  BY DEF Init
<1> QED BY <1>5, <1>6, <1>7 DEF Inv, WaitsForNextTick

(* Selecting a register and reading it keep the invariant. *)
LEMMA ReadPortsInv ==
  ASSUME Inv, NEW t \in Terms, InitReadB(t) \/ ReadA(t)
  PROVE  Inv'
<1>1. CASE Select(t, "b_select", "b_read", "B")
  BY <1>1 DEF Inv, TypeOK, WaitsForNextTick, Select, Go
<1>2. CASE ReadByte(t, "b_read", "b_select2")
  BY <1>2 DEF Inv, TypeOK, WaitsForNextTick, ReadByte, Go
<1>3. CASE Select(t, "b_select2", "b_write", "B")
  BY <1>3 DEF Inv, TypeOK, WaitsForNextTick, Select, Go
<1>4. CASE Select(t, "a_select", "a_read", "A")
  BY <1>4 DEF Inv, TypeOK, WaitsForNextTick, Select, Go
<1>5. CASE ReadByte(t, "a_read", "a_select2")
  BY <1>5 DEF Inv, TypeOK, WaitsForNextTick, ReadByte, Go
<1>6. CASE Select(t, "a_select2", "a_write", "A")
  BY <1>6 DEF Inv, TypeOK, WaitsForNextTick, Select, Go
<1> QED BY <1>1, <1>2, <1>3, <1>4, <1>5, <1>6 DEF InitReadB, ReadA

(* RTC_init's write of register B keeps the invariant: it reaches B, or    *)
(* goes to C once the interrupt is on already.                             *)
LEMMA InitWriteBInv ==
  ASSUME Inv, NEW t \in Terms, InitWriteB(t)
  PROVE  Inv'
<1>1. (val[t] \cup MASKBIT6) \in SUBSET (0 .. 7)
  BY DEF Inv, TypeOK, MASKBIT6
<1>2. reg' \in [{"A", "B", "C"} -> SUBSET (0 .. 7)]
  BY <1>1 DEF Inv, TypeOK, InitWriteB, WriteByte
<1>3. MASKBIT6 \subseteq reg'["B"]
  <2>1. CASE index = "B"
    BY <2>1 DEF Inv, TypeOK, InitWriteB, WriteByte
  <2>2. CASE index = "C"
    BY <2>2 DEF Inv, TypeOK, InitWriteB, WriteByte
  <2>3. index # "A"
    BY DEF Inv, InitWriteB, WriteByte, Go
  <2> QED BY <2>1, <2>2, <2>3 DEF Inv, TypeOK
<1> QED
  BY <1>2, <1>3 DEF Inv, TypeOK, WaitsForNextTick, InitWriteB, WriteByte, Go

(* The write of register A keeps the invariant: it does not reach B. *)
LEMMA WriteAInv ==
  ASSUME Inv, NEW t \in Terms, WriteA(t)
  PROVE  Inv'
<1>1. ((val[t] \cap RATEMASK) \cup rate[t]) \in SUBSET (0 .. 7)
  BY DEF Inv, TypeOK
<1>2. reg' \in [{"A", "B", "C"} -> SUBSET (0 .. 7)]
  BY <1>1 DEF Inv, TypeOK, WriteA, WriteByte
<1>3. MASKBIT6 \subseteq reg["B"]
  BY DEF Inv, WriteA, WriteByte, Go
<1>4. reg'["B"] = reg["B"]
  BY DEF Inv, TypeOK, WriteA, WriteByte, Go
<1> QED
  BY <1>2, <1>3, <1>4 DEF Inv, TypeOK, WaitsForNextTick, WriteA, WriteByte, Go

(* Entering and leaving RTC_open, RTC_write and RTC_read keep the          *)
(* invariant.                                                              *)
LEMMA CallsInv ==
  ASSUME ~Overlap, Inv, NEW t \in Terms,
         \/ OpenCall(t) \/ WriteCall(t) \/ ReadCall(t)
         \/ OpenReturn(t) \/ ReadReturn(t)
  PROVE  Inv'
<1>1. CASE OpenCall(t)
  <2>1. RTC_DEFAULT_RATE \in SUBSET (0 .. 7)
    BY DEF RTC_DEFAULT_RATE
  <2> QED BY <1>1, <2>1 DEF Inv, TypeOK, WaitsForNextTick, OpenCall, MayEnter
<1>2. CASE WriteCall(t)
  <2>1. PICK r \in Rates \cup StackBytes : rate' = [rate EXCEPT ![t] = r]
    BY <1>2, Zenon DEF WriteCall
  <2>2. r \in SUBSET (0 .. 7)
    OBVIOUS
  <2>3. unsupported' \in BOOLEAN
    BY <1>2, Zenon DEF WriteCall, Inv, TypeOK
  <2>4. /\ MayEnter(t) /\ opened[t]
        /\ pc' = [pc EXCEPT ![t] = "a_select"]
        /\ op' = [op EXCEPT ![t] = "RTC_write"]
        /\ UNCHANGED <<index, reg, irq8, rtc_interrupt_occured, val, opened,
                       ticked>>
    BY <1>2, Zenon DEF WriteCall
  <2> QED
    BY <2>1, <2>2, <2>3, <2>4 DEF Inv, TypeOK, WaitsForNextTick, MayEnter
<1>3. CASE ReadCall(t)
  BY <1>3 DEF Inv, TypeOK, WaitsForNextTick, ReadCall, Go
<1>4. CASE OpenReturn(t)
  BY <1>4 DEF Inv, TypeOK, WaitsForNextTick, OpenReturn, Go
<1>5. CASE ReadReturn(t)
  BY <1>5 DEF Inv, TypeOK, WaitsForNextTick, ReadReturn, Go
<1> QED BY <1>1, <1>2, <1>3, <1>4, <1>5

(* The handler keeps the invariant. *)
LEMMA RtcIrqInv ==
  ASSUME Inv, RtcIrq
  PROVE  Inv'
BY DEF Inv, TypeOK, WaitsForNextTick, RtcIrq, Ticking, locals

(* The inductive invariant of the driver, RTC_init, RTC_read, RTC_write    *)
(* and rtc_irq_handler together, holds in every reachable state.           *)
THEOREM RtcInvariant ==
  ASSUME ~Overlap
  PROVE  Spec => []Inv
<1>1. ASSUME Inv, [Next]_vars PROVE Inv'
  <2>1. CASE UNCHANGED vars
    BY <1>1, <2>1 DEF Inv, TypeOK, WaitsForNextTick, vars, locals
  <2>2. ASSUME NEW t \in Terms, OpenCall(t) \/ WriteCall(t) \/ ReadCall(t)
        PROVE  Inv'
    BY <1>1, <2>2, CallsInv
  <2>3. ASSUME NEW t \in Terms, Program(t) PROVE Inv'
    BY <1>1, <2>3, CallsInv, ReadPortsInv, InitWriteBInv, WriteAInv DEF Program
  <2>4. CASE RtcIrq
    BY <1>1, <2>4, RtcIrqInv
  <2> QED BY <1>1, <2>1, <2>2, <2>3, <2>4 DEF Next
<1> QED BY <1>1, InitInv, PTL DEF Spec

(* RTC_read waits for exactly the next tick, whatever other terminals do   *)
(* with the device at the same time.                                       *)
THEOREM ReadWaits == Spec => []WaitsForNextTick
<1> DEFINE J ==
      /\ pc \in [Terms -> Inside \cup {"idle", "wait"}]
      /\ rtc_interrupt_occured \in [Terms -> 0 .. 1]
      /\ ticked \in [Terms -> BOOLEAN]
      /\ WaitsForNextTick
<1>1. Init => J
  BY DEF Init, WaitsForNextTick
<1>2. ASSUME J, [Next]_vars PROVE J'
  <2>1. CASE UNCHANGED vars
    BY <1>2, <2>1 DEF WaitsForNextTick, vars, locals
  <2>2. ASSUME NEW t \in Terms, OpenCall(t) \/ WriteCall(t) PROVE J'
    BY <1>2, <2>2 DEF WaitsForNextTick, OpenCall, WriteCall
  <2>3. ASSUME NEW t \in Terms, ReadCall(t) PROVE J'
    BY <1>2, <2>3 DEF WaitsForNextTick, ReadCall, Go
  <2>4. ASSUME NEW t \in Terms, InitReadB(t) \/ ReadA(t) PROVE J'
    BY <1>2, <2>4 DEF WaitsForNextTick, InitReadB, ReadA, Select, ReadByte, Go
  <2>5. ASSUME NEW t \in Terms, InitWriteB(t) \/ WriteA(t) PROVE J'
    BY <1>2, <2>5 DEF WaitsForNextTick, InitWriteB, WriteA, WriteByte, Go
  <2>6. ASSUME NEW t \in Terms, OpenReturn(t) \/ ReadReturn(t) PROVE J'
    BY <1>2, <2>6 DEF WaitsForNextTick, OpenReturn, ReadReturn, Go
  <2>7. CASE RtcIrq
    BY <1>2, <2>7 DEF WaitsForNextTick, RtcIrq, locals
  <2> QED
    BY <1>2, <2>1, <2>2, <2>3, <2>4, <2>5, <2>6, <2>7 DEF Next, Program
<1>3. J => WaitsForNextTick
  OBVIOUS
<1> HIDE DEF J
<1> QED BY <1>1, <1>2, <1>3, PTL DEF Spec

(* The periodic interrupt that RTC_open turns on stays on. *)
THEOREM InterruptsSafe ==
  ASSUME ~Overlap
  PROVE  Spec => []InterruptsStayOn
<1>1. Inv => InterruptsStayOn
  BY DEF Inv, InterruptsStayOn
<1> QED BY <1>1, RtcInvariant, PTL

=============================================================================
