-------------------------------- MODULE Rtc --------------------------------
(***************************************************************************)
(* The real-time clock driver (RTC.c): open, write and read as programs on *)
(* the terminals call them, and the interrupt handler.                     *)
(*                                                                         *)
(* The system calls enter through a trap gate and run with interrupts      *)
(* enabled, so the handler, and the drivers' code on behalf of other       *)
(* terminals, can run between any two port accesses.  The handler runs     *)
(* behind an interrupt gate and is one step.  The chip's registers are     *)
(* reached through a pair of ports: one selects a register, the other      *)
(* reads or writes the selected one.  A byte is the set of its 1 bits.     *)
(* RTC_close does nothing and has no action.  The registers of interrupted *)
(* code are taken to survive the handlers, which do not save eax, ecx, edx.*)
(***************************************************************************)
EXTENDS Integers

CONSTANTS
  Terms,       \* the terminals
  Rates,       \* rates of the frequencies programs ask for, as sets of bits
  StackBytes,  \* what an uninitialized byte may hold, as sets of bits
  Overlap      \* may two terminals be inside RTC_open or RTC_write at once?

Bytes == SUBSET (0 .. 7)
RATEMASK == 4 .. 7
MASKBIT6 == {6}
RTC_DEFAULT_RATE == 0 .. 3
DividerReset == {5, 6}

ASSUME RatesAssumption == Rates \subseteq (SUBSET (0 .. 3)) \ {{}}
ASSUME StackAssumption == StackBytes \subseteq Bytes
ASSUME OverlapAssumption == Overlap \in BOOLEAN

VARIABLES
  index,                  \* the register the index port selects
  reg,                    \* registers A, B and C of the chip
  irq8,                   \* is IRQ 8 unmasked at the interrupt controller?
  rtc_interrupt_occured,  \* one flag per terminal
  pc,                     \* where the terminal's program is in the driver
  op,                     \* the function it has called
  val,                    \* local: the byte read from the chip
  rate,                   \* local: the rate to set
  opened,                 \* has a program on the terminal opened the device?
  ticked,                 \* history: has an interrupt been handled since
                          \* the terminal's current RTC_read began?
  unsupported             \* history: has RTC_write been called with a
                          \* frequency that is not in its list?

locals == <<pc, op, val, rate>>
vars == <<index, reg, irq8, rtc_interrupt_occured, locals, opened, ticked,
          unsupported>>

Registers == {"A", "B", "C"}
InitB == {"b_select", "b_read", "b_select2", "b_write"}
SetA == {"a_select", "a_read", "a_select2", "a_write"}
Inside == InitB \cup SetA \cup {"enable"}

TypeOK ==
  /\ index \in Registers
  /\ reg \in [Registers -> Bytes]
  /\ irq8 \in BOOLEAN
  /\ rtc_interrupt_occured \in [Terms -> 0 .. 1]
  /\ pc \in [Terms -> Inside \cup {"idle", "wait"}]
  /\ op \in [Terms -> {"RTC_open", "RTC_write", "RTC_read"}]
  /\ val \in [Terms -> Bytes]
  /\ rate \in [Terms -> Bytes]
  /\ opened \in [Terms -> BOOLEAN]
  /\ ticked \in [Terms -> BOOLEAN]
  /\ unsupported \in BOOLEAN

(* As the firmware leaves the chip: divider 010, no periodic interrupt.    *)
(* Register C reads as zero: it is read only after the handler, which      *)
(* selects it, and the handler has just acknowledged its flags.            *)
Init ==
  /\ index = "A"
  /\ reg = [r \in Registers |->
              CASE r = "A" -> {5, 2, 1} [] r = "B" -> {1} [] r = "C" -> {}]
  /\ irq8 = FALSE
  /\ rtc_interrupt_occured = [t \in Terms |-> 0]
  /\ pc = [t \in Terms |-> "idle"]
  /\ op = [t \in Terms |-> "RTC_read"]
  /\ val = [t \in Terms |-> {}]
  /\ rate = [t \in Terms |-> {}]
  /\ opened = [t \in Terms |-> FALSE]
  /\ ticked = [t \in Terms |-> FALSE]
  /\ unsupported = FALSE

-----------------------------------------------------------------------------
(* Port accesses of the program on terminal t. *)

Go(t, from, to) == pc[t] = from /\ pc' = [pc EXCEPT ![t] = to]

Select(t, from, to, r) ==
  /\ Go(t, from, to)
  /\ index' = r
  /\ UNCHANGED <<reg, irq8, rtc_interrupt_occured, op, val, rate, opened,
                 ticked, unsupported>>

ReadByte(t, from, to) ==
  /\ Go(t, from, to)
  /\ val' = [val EXCEPT ![t] = reg[index]]
  /\ UNCHANGED <<index, reg, irq8, rtc_interrupt_occured, op, rate, opened,
                 ticked, unsupported>>

(* Register C is read-only.  The byte read before is not used again. *)
WriteByte(t, from, to, byte) ==
  /\ Go(t, from, to)
  /\ reg' = IF index = "C" THEN reg ELSE [reg EXCEPT ![index] = byte]
  /\ val' = [val EXCEPT ![t] = {}]
  /\ UNCHANGED <<index, irq8, rtc_interrupt_occured, op, rate, opened, ticked,
                 unsupported>>

-----------------------------------------------------------------------------
(* RTC_open, which is RTC_init *)

MayEnter(t) ==
  /\ pc[t] = "idle"
  /\ Overlap \/ \A u \in Terms : pc[u] \notin Inside

OpenCall(t) ==
  /\ MayEnter(t)
  /\ pc' = [pc EXCEPT ![t] = "b_select"]
  /\ op' = [op EXCEPT ![t] = "RTC_open"]
  /\ rate' = [rate EXCEPT ![t] = RTC_DEFAULT_RATE]
  /\ UNCHANGED <<index, reg, irq8, rtc_interrupt_occured, val, opened, ticked,
                 unsupported>>

InitReadB(t) ==
  \/ Select(t, "b_select", "b_read", "B")
  \/ ReadByte(t, "b_read", "b_select2")
  \/ Select(t, "b_select2", "b_write", "B")

(* Fault: the bit that enables the periodic interrupt is masked out. *)
InitWriteBMasked(t) ==
  WriteByte(t, "b_write", "a_select", val[t] \ MASKBIT6)

InitWriteB(t) ==
  WriteByte(t, "b_write", "a_select", val[t] \cup MASKBIT6)

ReadA(t) ==
  \/ Select(t, "a_select", "a_read", "A")
  \/ ReadByte(t, "a_read", "a_select2")
  \/ Select(t, "a_select2", "a_write", "A")

(* The last port access; RTC_write returns after it. *)
WriteA(t) ==
  WriteByte(t, "a_write", IF op[t] = "RTC_open" THEN "enable" ELSE "idle",
            (val[t] \cap RATEMASK) \cup rate[t])

OpenReturn(t) ==
  /\ Go(t, "enable", "idle")
  /\ irq8' = TRUE
  /\ opened' = [opened EXCEPT ![t] = TRUE]
  /\ UNCHANGED <<index, reg, rtc_interrupt_occured, op, val, rate, ticked,
                 unsupported>>

(* RTC_write: a frequency that is not in the list leaves rate              *)
(* uninitialized; a length other than 4 returns -1 and changes nothing.    *)
WriteCall(t) ==
  /\ MayEnter(t) /\ opened[t]
  /\ pc' = [pc EXCEPT ![t] = "a_select"]
  /\ op' = [op EXCEPT ![t] = "RTC_write"]
  /\ \/ /\ \E r \in Rates : rate' = [rate EXCEPT ![t] = r]
        /\ UNCHANGED unsupported
     \/ /\ \E r \in StackBytes : rate' = [rate EXCEPT ![t] = r]
        /\ unsupported' = TRUE
  /\ UNCHANGED <<index, reg, irq8, rtc_interrupt_occured, val, opened, ticked>>

-----------------------------------------------------------------------------
(* RTC_read *)

(* Fault: one flag for all the terminals. *)
ReadCallShared(t) ==
  /\ Go(t, "idle", "wait")
  /\ opened[t]
  /\ op' = [op EXCEPT ![t] = "RTC_read"]
  /\ rtc_interrupt_occured' = [u \in Terms |-> 0]
  /\ ticked' = [ticked EXCEPT ![t] = FALSE]
  /\ UNCHANGED <<index, reg, irq8, val, rate, opened, unsupported>>

(* Fault: reads count ticks down instead of clearing the flag. *)
ReadCallDecrements(t) ==
  /\ Go(t, "idle", "wait")
  /\ opened[t]
  /\ op' = [op EXCEPT ![t] = "RTC_read"]
  /\ rtc_interrupt_occured' = [rtc_interrupt_occured EXCEPT ![t] = @ - 1]
  /\ ticked' = [ticked EXCEPT ![t] = FALSE]
  /\ UNCHANGED <<index, reg, irq8, val, rate, opened, unsupported>>

(* Interrupts are masked while the flag is cleared. *)
ReadCall(t) ==
  /\ Go(t, "idle", "wait")
  /\ opened[t]
  /\ op' = [op EXCEPT ![t] = "RTC_read"]
  /\ rtc_interrupt_occured' = [rtc_interrupt_occured EXCEPT ![t] = 0]
  /\ ticked' = [ticked EXCEPT ![t] = FALSE]
  /\ UNCHANGED <<index, reg, irq8, val, rate, opened, unsupported>>

(* The busy loop sees the flag. *)
ReadReturn(t) ==
  /\ Go(t, "wait", "idle")
  /\ rtc_interrupt_occured[t] # 0
  /\ UNCHANGED <<index, reg, irq8, rtc_interrupt_occured, op, val, rate,
                 opened, ticked, unsupported>>

-----------------------------------------------------------------------------
(* The chip raises the periodic interrupt while it is enabled, the rate is *)
(* not 0 and the divider is not held in reset (bits 6 and 5 both set; the  *)
(* other divider settings only change how fast it ticks).                  *)
Ticking ==
  /\ MASKBIT6 \subseteq reg["B"]
  /\ reg["A"] \ RATEMASK # {}
  /\ ~(DividerReset \subseteq reg["A"])
  /\ irq8

(* Fault: the loop of the handler leaves out one terminal. *)
RtcIrqSkipsOne ==
  /\ Ticking
  /\ index' = "C"
  /\ \E s \in Terms : rtc_interrupt_occured' =
       [t \in Terms |-> IF t = s THEN rtc_interrupt_occured[t] ELSE 1]
  /\ ticked' = [t \in Terms |-> TRUE]
  /\ UNCHANGED <<reg, irq8, locals, opened, unsupported>>

(* The handler acknowledges through register C and sets all the flags. *)
RtcIrq ==
  /\ Ticking
  /\ index' = "C"
  /\ rtc_interrupt_occured' = [t \in Terms |-> 1]
  /\ ticked' = [t \in Terms |-> TRUE]
  /\ UNCHANGED <<reg, irq8, locals, opened, unsupported>>

Program(t) ==
  \/ InitReadB(t) \/ InitWriteB(t) \/ ReadA(t) \/ WriteA(t) \/ OpenReturn(t)
  \/ ReadReturn(t)

Next ==
  \/ \E t \in Terms : OpenCall(t) \/ WriteCall(t) \/ ReadCall(t) \/ Program(t)
  \/ RtcIrq

Spec == Init /\ [][Next]_vars

(* The scheduler gives every terminal the CPU again and again, so a call   *)
(* in progress goes on; the chip goes on ticking.  Programs need not make  *)
(* any call.                                                               *)
Fairness == WF_vars(RtcIrq) /\ \A t \in Terms : WF_vars(Program(t))

FairSpec == Spec /\ Fairness

-----------------------------------------------------------------------------
(* Properties. *)

(* RTC_read waits for the next tick, no more and no less: while it waits,  *)
(* its terminal's flag is set exactly if an interrupt has been handled     *)
(* since the call, whatever other terminals do with the device.            *)
WaitsForNextTick ==
  \A t \in Terms :
    pc[t] = "wait" => (rtc_interrupt_occured[t] = 1 <=> ticked[t])

(* Once an RTC_open has returned, the periodic interrupt stays enabled at  *)
(* the chip and at the interrupt controller, whatever the later calls and  *)
(* interrupts do to the selected register.                                 *)
InterruptsStayOn ==
  (\E t \in Terms : opened[t]) => irq8 /\ MASKBIT6 \subseteq reg["B"]

(* The inductive invariant (for Overlap = FALSE).  With one program in     *)
(* RTC_open or RTC_write at a time, only the handler moves the index under *)
(* it, and the handler runs only once the interrupt is on: a misdirected   *)
(* write goes to register C, never from A to B or back.                    *)
Inv ==
  /\ TypeOK
  /\ \A t, u \in Terms : pc[t] \in Inside /\ pc[u] \in Inside => t = u
  /\ index = "C" => irq8
  /\ irq8 => MASKBIT6 \subseteq reg["B"]
  /\ \A t \in Terms :
       /\ opened[t] => irq8
       /\ pc[t] = "b_write" => index # "A"
       /\ pc[t] = "a_write" => index # "B"
       /\ pc[t] \in SetA \cup {"enable"} => MASKBIT6 \subseteq reg["B"]
  /\ WaitsForNextTick

(* RTC_read returns as long as every RTC_write, on whatever terminal, has  *)
(* been given a frequency of its list: whichever register the handler      *)
(* leaves selected, no misdirected read or write stops the clock.  After   *)
(* an unsupported frequency nothing is promised: the uninitialized rate    *)
(* may stop the clock for everybody.                                       *)
ReadReturns ==
  \A t \in Terms : pc[t] = "wait" ~> (pc[t] # "wait" \/ unsupported)

(* When RTC_write returns 0, the chip ticks at the frequency that was      *)
(* passed in.                                                              *)
FrequencySet ==
  [][\A t \in Terms :
       pc[t] = "a_write" /\ pc'[t] = "idle"
         => reg'["A"] \ RATEMASK = rate[t]]_vars

=============================================================================
