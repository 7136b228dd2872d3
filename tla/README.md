# A TLA+ model of bOSs

bOSs is a small x86 kernel: three terminals, each with a shell that runs
programs, a timer-driven round-robin scheduler, a keyboard, a real-time clock
and a read-only file system. This directory holds TLA+ models of it, TLC
configurations, and proofs checked by TLAPS. Paths below are relative to
`src/student-distrib/` unless they say otherwise.

## The system and what is modelled

| Part | Source | State | Actors | Module | Status |
|---|---|---|---|---|---|
| Processes | `syscall.c` (execute, halt), `scheduler.c`, `idt.c`, `types.h` | `proc_id_used`, `active`, the PCBs, `tss.esp0`, cr3, IF, `shells_started` | programs, timer, exceptions | `Process` | modelled (not the command parser and loader) |
| Boot | `kernel.c`, `boot.S` | paging on or off | boot code, timer, keyboard | `Process` (from the `sti` in `keyboard_install` on) | partly |
| Real-time clock | `RTC.c`, `RTC.h` | the chip's registers and index, `rtc_interrupt_occured` | programs, clock | `Rtc` | modelled |
| Keyboard, line input | `keyboard.c` | line buffers, history, modifiers, `typingLine` | keyboard, readers | - | planned |
| Terminals, video | `keyboard.c`, `lib.c`, `paging.c` | screens, cursors, `cur_terminal`, video mappings | writers, keyboard | cr3 reload of `switch_terminals` in `Process` | planned |
| File system | `filesystem.c` | the image (constant), file positions | programs | - | planned |
| File descriptors | `syscall.c` (open, close, read, write, getargs, vidmap) | `pcb->fd` | programs | - | planned |
| Interrupt controller | `i8259.c` | masks, in-service bits | handlers | mask of IRQ 8 in `Rtc` | planned |
| Paging | `paging.c` | page directories | - | which directory is loaded, in `Process` | partly |
| User programs | `src/syscalls`, `src/fish` | - | - | the environment | planned for shell, cat, grep |
| Descriptor tables, image tools, host emulation | `x86_desc.S`, `src/createfs`, ... | none at run time | - | - | left out |

`PROJECT.json` lists the parts, the lines each definition translates, the
hazards of the code and which property covers each, and the findings.

### How the parts interact

Programs enter the kernel through `int 0x80`. Its gate, like those of the
exceptions, is a *trap* gate: interrupts stay enabled in system calls, so the
timer can switch to another process in the middle of one. Interrupt handlers
have interrupt gates and are not interrupted until they execute `sti` or
`iret`. A process is identified by its kernel stack: `cur_pcb` masks `esp`.
A terminal runs one chain of processes: a root shell (pids 0 to 2), the program
it executes, the program that one executes; all but the last wait in `execute`.

## Process

State: `proc_id_used` and `active` are the tables of the same names; `parent`,
`terminal_id`, `esp0`, `esp` the fields of the PCBs (`esp` stands for esp and
ebp, and says where the stack continues when they are loaded); `cr3`,
`tss_esp0`, `paging`, `IFlag` the CPU; `cur` the process whose kernel stack is in
use, or `Nil` when the CPU has returned through a null or overwritten frame;
`loc[p]` is where the code on p's stack stands; `user_mem[p]` says whether p's
4 MB page has been cleared.

| Action | Code |
|---|---|
| `EnablePaging`, `Boot` | `kernel.c`: the kernel's page directory and `enablePaging`; the first `execute("shell")` |
| `Execute`, `ExecuteBadFile`, `ExecuteRefused` | `execute`: success, bad file, null command or full table (one step: it masks interrupts first) |
| `HaltCall`, `Exception` | entering `halt` from a program or an exception handler, which masks interrupts |
| `HaltClear`, `HaltPaging`, `HaltFree`, `HaltDeactivate`, `HaltWake`, `HaltTss`, `HaltRestart`, `HaltReturn` | the statements of `halt` that write shared state, in order |
| `TickStartShell`, `TickSwitch` | `pit_irq_handler` and `sched`: start a missing shell, or switch |
| `SchedGoOn` | the rest of `sched` after its `execute` has returned |
| `SwitchTerminals` | `switch_terminals`: it reloads cr3 for the process on whose stack it runs |

**Saved frames.** A saved esp/ebp pair is represented by the place its frame
belongs to. It can be continued only while the stack still stands there
(`Intact`); `Resume` then goes on at that place. Otherwise the frame has been
overwritten, the return goes astray and `cur` becomes `Nil`: on the machine a
crash, and the end of the behaviour. A frame that `execute` saves for a root pid
lies on the caller's stack and is overwritten at once (`NestedFrame`). When
`sched` resumes a process that waits in `execute`, the call returns whatever is
in eax (`ret.why = "leftover"`).

**Windows.** The code is exposed to interference in five places. The constant
`Windows` says which of them the environment uses:

| Window | Interference |
|---|---|
| `"unpaged"` | a tick between the `sti` of `keyboard_install` (`keyboard.c:68`) and `enablePaging` |
| `"boot"` | a tick between `enablePaging` and the first `execute` |
| `"startup"` | a command before all shells are up |
| `"halt"` | a tick after `halt` has loaded the parent's page directory (`syscall.c:172`) |
| `"switch"` | a terminal switch in the same part of `halt`, or during boot |

With no window open the safety properties of the run `process` hold, and this is
proved. What goes wrong
in the windows is shown by runs of their own; what holds even with all of them
open is proved too. A tick or a terminal switch before `halt` touches shared
state (`halt_clear`, `halt_paging`) is always possible.

**Abstractions.** `loc = "user"` stands for the program and for its system calls
other than execute and halt. A program that runs outside its own context (the
negation of `RunsInOwnContext`) executes memory that is not its own, and the
model does not follow it: `InProgram` guards the actions of programs. In
particular a shell started in the window `"unpaged"` violates
`RunsInOwnContext` at once. A tick between `sti` in `sched` and the `iret`
behaves like one after the `iret`. Exceptions in kernel mode are not modelled.
The interrupt handlers do not save eax, ecx and edx; the models take these
registers of interrupted code to survive, and `PROJECT.json` lists this as a
hazard.

## Rtc

A byte is the set of its 1 bits, so that `&` and `|` are intersection and union.
`RTC_init` and `RTC_write` are split into their port accesses (`Select`,
`ReadByte`, `WriteByte`): between any two of them the clock's handler or another
process may run. `RTC_read` clears its terminal's flag with interrupts masked
(`ReadCall`) and waits (`ReadReturn`). `RtcIrq` is the handler. The chip ticks
while its periodic interrupt is enabled, the rate is not 0, the divider is not
held in reset and IRQ 8 is unmasked (`Ticking`, which models the chip). Register
C is taken to read as zero: only the handler selects it, and has just
acknowledged its flags. `RTC_write` of an unsupported frequency uses an
uninitialized byte: any member of `StackBytes`. `Overlap` says whether programs
on different terminals may be inside `RTC_open` or `RTC_write` at the same time.
`ticked` and `unsupported` (has an unsupported frequency been written?) are
history variables. `ReadReturns` is stated for the time before `unsupported`:
afterwards the clock may have stopped, and a reader then waits for ever.

## Runs

| Run | Result | What it shows |
|---|---|---|
| `process` | passes | the safety properties of processes with no window open |
| `process_live` | passes | the shells come up, nobody starves, every halt ends |
| `process_early` | passes | with the boot and start-up windows: until a lost frame is loaded, what runs does so in its own context |
| `process_race` | passes | with all windows: a stack in use is taken only in the two cases `StackNotReused` names, and `halt` finds its parent |
| `halt_tick` | violation | a tick inside `halt`: the parent resumes with the wrong page directory and TSS |
| `halt_reuse` | violation | a tick after `halt` has given back its pid: another `execute` takes its stack |
| `boot_tick` | violation | a tick before the first shell, paging on or off: one shell is never started |
| `early_command` | violation | a command before all shells are up takes a root shell's pid |
| `exception_status` | violation | `execute` returns 255 after an exception; its comment says 256 |
| `rtc` | passes | a read waits for exactly the next tick; the periodic interrupt stays on; reads return while only supported frequencies are set |
| `rtc_frequency` | violation | an interrupt makes `RTC_write` miss register A |
| `rtc_overlap` | violation | two `RTC_open` at once turn the periodic interrupt off |

**Bounds.** The kernel has 6 pids and 3 terminals. The process runs use 4 pids
and 2 terminals (3 and 2 for liveness and with all windows): this has two
terminals that interleave, chains of three processes on one of them, a full
table and every order in which pids become free. 6 and 3 are out of reach (more
than 60 million states); the theorems cover them. The only status passed to
`halt` is 256, which the truncation changes. The clock runs use two terminals,
the default rate and one other; the run `rtc` has two uninitialized bytes, one
for each way they stop the clock: 0x00, which selects no rate, and 0x51, which
turns the divider 010 into 111, reset. The theorems cover every byte.

**Deadlock** is checked where the system must go on. It is not checked with open
windows, where a behaviour may end with `cur = Nil` or in a program outside its
own context, nor in `rtc` and `rtc_overlap`, where an unsupported frequency or
overlapping calls can stop the clock and readers wait for ever.

**Fairness.** `Process`: the boot code goes on (weak fairness); the timer ticks
again and again and the interrupt controller holds a request until interrupts
are enabled, so ticks are strongly fair; a process that gets the CPU again and
again in `halt` executes its next statement, since there is time for many
instructions between two ticks (strong fairness, per process). Programs need not
make any call. `Rtc`: the clock ticks while it is on, and a program inside the
driver goes on, since the scheduler starves nobody (`EveryActiveRuns`).

Definitions marked *Fault* are variants of the definition below them with a
plausible programming error; for each property there is one that breaks it.

## Proofs

`ProcessProofs` proves, for any size of the table, any number of terminals up to
that size and any status values, with `Windows = {}`: the type invariant and
every safety and action property of the run `process`. The properties are not
inductive. `IInv` (`ProcessInv`) is. Its parts:

- `CurrentInv`: only the running process is in the tail of `halt`, and where it
  stands there determines its table entries, cr3 and `tss.esp0`;
- `OthersInv`: everyone else is gone, was interrupted where its saved stack
  says, or waits in `execute`;
- `ChainInv`, `ForegroundInv`: the processes of a terminal form a chain from
  its root shell, and exactly one of them does not wait. This makes the parent
  that `halt` returns to a process that waits for just this child;
- `ShellInv`: the root shells come up in the order of their pids, so that no
  other program ever gets a root's pid;
- `ArgInv`: the status of `halt` does not outlive it.

One lemma per action shows that it keeps `IInv`: `ProcessLemmas` has the facts
they share and the calls that leave the process on the CPU alone,
`ProcessHaltProofs` the statements of `halt` but the last, `ProcessSwitchProofs` a
successful `execute` and the ticks, `ProcessReturnProofs` the end of `halt`.
`NextIInv` in `ProcessProofs` combines them, and the
theorems follow. In the windows `IInv` fails, as the violation runs show.

`ProcessRaceProofs` proves, for the same constants and *every* value of
`Windows`, two properties that survive the interference: `StackNotReused`, which
names the only two cases in which `execute` takes a stack that is in use, and
`HaltFindsParent`. The second case, a tick after `syscall.c:178`, is a real
defect (run `halt_reuse`), and the theorem says that it is the only one. The
inductive invariant is `RaceInv`:

- `BootInv`: the boot code runs only on the stack of pid 0, before any pid is
  taken;
- `FreeInv`: the stack of a free pid is unused, or stands in the boot code, in
  `halt` after the pid was freed, or in a tick that interrupted such a `halt`;
- `PcbInv`: a PCB names a parent as long as its process owns the pid or its
  `halt` can still be resumed. An `execute` that clears the PCB of a freed pid
  clears the saved esp with it, so that the `halt` is not resumed.

`RtcProofs` proves, for any set of terminals and any rates, that a read waits
for exactly the next tick (`ReadWaits`, with no restriction on overlapping
calls), and with `Overlap = FALSE` that the periodic interrupt stays on
(`InterruptsSafe`). The invariant `Inv` says that with one program in the
driver only the handler moves the index, and only once the interrupt is on: a
misdirected write goes to register C, never from A to B.

Only model-checked: all liveness properties, which TLAPS does not reach, and the
runs with open windows other than `process_race`.

## Plan

1. *Line input*: `key_irq_handler` and `terminal_read`. Type-ahead, Enter
   racing the reader, the limit of the buffer, the history keys; the comments at
   `keyboard.c:160`, `370` and `373` as properties; a reader of each terminal
   eventually gets its line.
2. *Terminals*: screens, cursors, `terminal_write`, `switch_terminals`, `vidmap`
   and the mappings, as a refinement of one independent screen per terminal.
3. *File system and descriptors*: directory search, `read_data`, `file_read`,
   `dir_read` against reference definitions; `open` and `close` at the limit.
4. *Interrupt controller*: masks, in-service bits and end-of-interrupt when
   `switch_terminals` or `sched` enables interrupts inside a handler.
5. *Sessions*: an abstract specification with one stack of programs per
   terminal, and a proof that `Process` implements it.
6. *Programs*: shell, cat and grep as clients of 1 and 3; registers across
   interrupts.
7. Proofs for the modules of 1 to 4: their type and safety invariants, and the
   refinements.
