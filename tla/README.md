# A TLA+ model of riscmulator

riscmulator is a RV64 emulator in C. A machine has one or more harts, each run
by a host thread of its own; RAM and memory-mapped devices are shared. This
directory models the parts of it in which threads meet, in which state of one
component decides what another does, or in which long sequences of legal
instructions matter, and checks and proves what the code promises about them.
Paths below are relative to `emulator/` unless they begin with `src/`, the root
of the repository; the source is `src/emulator/src`, the headers
`src/emulator/include`.

- [1. Inventory of the system](#1-inventory-of-the-system)
- [2. The modules](#2-the-modules)
- [3. What the runs check](#3-what-the-runs-check)
- [4. What is proved](#4-what-is-proved)
- [5. Divergences found](#5-divergences-found)
- [6. What is not modelled](#6-what-is-not-modelled)
- [7. Plan](#7-plan)

## 1. Inventory of the system

| Component | State it keeps | Operations | Talks to |
|---|---|---|---|
| Machine (`src/emu_machine.c`) | RAM, array of MMIO regions, harts, `atomic_lock`, `reservations[]` | init, add_mmio, run (one thread per hart), `rv_access_phys` | everything: calls `rv_step`, `rv_clint_check_timer`, device callbacks |
| Hart (`src/cpu/rv_cpu.c`) | registers, `pc`, `epc`, `privilege`, `mem_privilege`, `irq_pending` | `rv_step`, `rv_step_insn` | decoder, instructions, traps |
| Traps and interrupts (`src/cpu/rv_privileged.c`) | mstatus, xepc, xcause, xtval, delegation | `rv_do_trap`, `rv_trap`, `rv_check_interrupts`, mret and sret (`rv_impl/base.c`) | reads `irq_pending`, which devices of other threads change |
| CSR file (`src/cpu/rv_csr.c`) | the CSRs, some of them views of others | `rv_csr_read`, `rv_csr_write` | hart, PLIC (mip and sip share `irq_pending`), paging (satp), PMP |
| CLINT (`src/device/rv_clint.c`) | epoch, `mtimecmp[]`, `deadline_ns[]`, lock; `clint_timer_armed` and MTIP, MSIP of each hart | MMIO reads and stores, `rv_clint_check_timer` | polled by each hart's thread, written by any |
| PLIC (`src/device/rv_plic.c`) | priorities, pending and enable bits, thresholds, lock; MEIP, SEIP of each hart | `rv_plic_set_pending`, MMIO stores, claim, complete | called by device threads and harts |
| Atomics (`src/cpu/rv_impl/atomics.c`) | the machine's `atomic_lock` and `reservations[]` | LR, SC, AMOs on words and double words | memory, shared by all harts |
| Paging (`src/cpu/rv_paging.c`) | each hart's TLB | lookup and page walk, fence, page-boundary accesses | page tables in RAM that every hart may write, PMP |
| PMP (`src/cpu/rv_pmp.c`) | `pmpcfg`, `pmpaddr` (in the CSR file) | `rv_pmp_check` | called by physical accesses and by the page walk |
| Base instructions (`src/cpu/rv_impl/base.c`), multiplication (`muldiv.c`) | registers | operations, branches, jumps, loads and stores; SYSTEM instructions | traps, CSRs, memory |
| Compressed instructions (`src/cpu/rv_decompress.c`) | - | a 32-bit instruction for each 16-bit one | called by the fetch |
| Floating point (`src/cpu/rv_impl/float.c`) | fregs, fcsr; rounding mode and exceptions of the host's thread | arithmetic, conversions, comparisons, classification | the host's `<fenv.h>` and `<math.h>`, mstatus.FS |
| Command-line program (`src/main/src/main.c`) | - | sets up one hart and runs it | hart |

What is hard, and what makes each component correct:

- **CLINT.** No ticker thread exists: a store of mtimecmp computes a deadline on
  the host clock and sets a flag, and the hart polls. The flag, the deadline, MTIP
  and the epoch are separate atomic variables, stored one after another, part of
  them outside the lock. A timer must be neither early nor lost, and the deadlines
  must agree with the registers. uint64_t arithmetic wraps.
- **PLIC.** It drives bits of a word that harts rewrite with compare-and-swap
  loops, from values read earlier, and drives one line after another while other
  threads wait. Each line must follow the registers; a claim must return an
  enabled source, once.
- **Traps.** Nested traps over two modes, returns, CSR writes and MPRV in any
  order. The saved context must come back; `mem_privilege`, a cache, must agree
  with mstatus and privilege; interrupts must respect the modes, in spite of
  devices that change `irq_pending` between the step's parts.
- **Atomics.** An AMO is a load and a store to memory with a lock around them;
  reservations are kept by address and not by byte. LR, SC and AMOs must be
  indivisible and the lock must be released on every path.
- **Paging.** The walk's read of a PTE and its update of A and D are separate;
  the TLB outlives changes of tables, modes and address spaces. A translation
  must be the page table's unless software omitted a fence.
- **Physical memory.** An access may cross RAM, devices and holes, which may meet; it must move
  exactly its bytes, once, or none. addr + size wraps.
- **PMP.** First match by address, with locks; the check looks at two addresses
  of an access. Locked decisions must stay.
- **CSR instructions.** Read and write are two steps, between which devices change
  mip; one register has several names, each with masks of its own. A write must
  change what the instruction names and the privilege owns, at the reserved privilege
  too, and what was read must be good for writing back.
- **Instructions.** Widths, signs and immediates in pieces; `epc` is set on each path of
  the fetch and used after `pc` has moved on. A trap must leave everything as it was.
- **Floating point.** The host's thread keeps a rounding mode and its exceptions, which are
  sticky, from one instruction to the next; NaNs, zeros and overflows are the host's until the code
  makes them RISC-V's.
- **Machine.** The loop of a thread looks at interrupts and at the timer at different
  places of a step, and a deadline must get through all the same.

`PROJECT.json` lists the hazards at their lines, with the property that covers it
or the reason why none does.

## 2. The modules

State variables and actions carry the names of the code's variables and
functions. One action is one critical section or one access to shared memory of
the code, whichever is smaller that another thread can come between; the local
variables of a function in progress, and a program counter where it has several
steps, are state. Operators whose name has a suffix
(`ClearMtip_Forgotten`) are variants of the operator before the underscore with a
plausible slip, and are used nowhere: they document which slip each property
notices.

| Module | Models | Each state component stands for |
|---|---|---|
| `Clint` | `rv_clint.c`, `cpu_thread` of `emu_machine.c` | the CLINT's registers, the hart's flag and MTIP and MSIP, `now_ns` the host clock; `pc`, `target`, `value`, `n`, `word`, `index` where each thread is in a store or a check; `requested` and `set` are history |
| `Timers` | what timers promise: the abstract specification of `Clint` | the clock, each timer's phase (off, setting, waiting, fired) and the instant it is for |
| `Plic` | `rv_plic.c`, mip and sip of `rv_csr.c`, csrrw/s/c of `rv_impl/base.c` | registers; `cursor`, the loop counter of `plic_update_harts`; `wdata`, `mask`, `old`, the CSR instruction in progress; `inService` is history |
| `InterruptLines` | what the lines of an interrupt controller promise: the abstract specification of `Plic` | the lines that are asked to be high, those that are, whether a change of registers is being carried out |
| `Hart` | `rv_privileged.c`, `rv_cpu.c`, the returns and CSR writes | the hart's mode and CSRs; `step`, which half of `rv_step` is next; `mtrap`, `strap` record what the last trap interrupted (history) |
| `Machine` | the loop of `cpu_thread` with `Hart` and `Timers`: one hart from reset to the join | `loop`, where the thread is, `halted`; everything else is the parts' |
| `AtomicMemory` | what LR, SC, AMOs promise: the abstract specification | memory by words, reservations, rd |
| `Atomics` | `rv_impl/atomics.c` | the same plus the lock and `running`, the locals of the operation that each hart is in |
| `Paging` | `rv_paging.c`, satp and sfence.vma | PTEs, each hart's TLB and lookup in progress; `dirty` is history: pages whose PTEs changed since the hart's last fence of them |
| `PhysMem` | `rv_access_phys` and what it calls, `rv_access_virt_pageboundary` | bytes of RAM and devices, the caller's buffer, the position in the loop; `touched`, `before` are history |
| `Pmp` | `rv_pmp.c`, pmpcfg and pmpaddr of `rv_csr.c` | the CSRs and the hart's privileges |
| `Csr` | `do_csr` of `rv_impl/base.c`, `rv_csr_read`, `rv_csr_write` | registers and values as sets of their bits; `at`, the instruction between its read and its write; `privilege` has all four values |
| `Encoding`, `Decompress`, `Arithmetic` | `rv_insn.h` and the encoders; `rv_decompress.c`; `rv_base_op`, `rv_base_branch`, `muldiv.c` | no state: operators |
| `Core` | the fetch of `rv_cpu.c` and the instructions of `rv_impl/base.c` | registers, memory, `step` of the one instruction in progress and how it ended |
| `Ieee` | the host's floating point, as `float.c` uses it (external) | no state: values of two small formats, and rounding |
| `Float` | `rv_impl/float.c`, fcsr | fregs as boxed singles or doubles, fcsr; `host` and `excepts`, the thread's rounding mode and sticky exceptions |

Eight `...Proofs` modules extend these with theorems. `MachineProofs` is about `Hart` and `Machine`, which inherits what is proved of `Hart`;
`WordProofs` about `Core` and `Pmp`, which share lemmas on the bits of words; `MemoryProofs` about `PhysMem` and `Atomics`; the others are
named after their module. The `MC...` modules give constants their values.

How actions correspond to code:

- **Clint.** A store of mtimecmp is `ClearMtip`, `StoreMtimecmp`, `StoreDeadline`,
  `ArmTimer` (`rv_clint_set_mtimecmp`); a store of mtime `SampleClock`,
  `StoreEpoch`, `LockForDeadlines`, `MoveDeadline` once per hart,
  `UnlockDeadlines` (`clint_write`); the check `TestArmed`, `LoadDeadline`,
  `SetMtip` and `DisarmTimer`, or `NotDue`. `OtherInsn` is an instruction that does
  not touch the CLINT. Loads from the CLINT change nothing and have no action;
  memory order is sequential consistency.
- **Plic.** `SetPending`, `WritePriority`, `WriteEnable`, `WriteThreshold`,
  `Claim`, `Complete` take the lock and change a register; `DriveLine` then drives
  one line after the other and `Unlock` ends the update. A CSR instruction is
  `CsrRead` (`rv_csr_read`), `CsrLoad` (the load before the loop) and `CsrCas`,
  or `CsrRetry` when the exchange fails. The CLINT's bits of the word are left out:
  a CAS that fails because of them is one more retry.
- **Hart.** One instruction is `FetchFault`, `BadCompressed` or one of `Insn`, and
  then the check is `TakeInterrupt` or `NoInterrupt`; `Device` raises or lowers an
  interrupt between them. `Exception` is `rv_trap` with its hook, `EnterMachine`
  and `EnterSupervisor` the branches of `rv_do_trap`. Programs are places that
  follow each other in a circle: only which place a trap saves and returns to
  matters. xcause, xtval and the vectored offset only inform software.
- **Atomics.** `Lock` takes the lock for an operation. What follows is an action for each way
  through `rv_atomic_op`, each with its own release of the lock: `LoadReserved`, `StoreConditional`,
  `AmoLoad` and then `AmoStore`, and the exits `LrLoadFaults`, `ScStoreFaults`, `AmoLoadFaults`,
  `AmoStoreFaults`, of words and of double words, and `AmoUndefined`. `Store` is a plain store.
- **Paging.** `TlbHit` or `TlbMiss` begin a lookup; each step of the walk is
  `Descend`, `PageFault`, `AccessFault`, `ReadLeaf` or `ReadLeafToUpdate`,
  and after the latter `UpdatePte`. `Sfence`, `WriteSatp` and `WritePte` are
  software's. An access across two pages is two lookups.
- **PhysMem.** `DirectRam` and `AlignedMmio` are the ways of `rv_access_phys` that
  need no loop, `Misaligned` and `TwoPages` begin one; `CheckPart`, `CommitPart`,
  `RefusedPart`, `NothingHere` are iterations of `misaligned_access`, `SecondPass`,
  `NextPiece`, `Complete` what follows a loop; `Denied` is the PMP's refusal.
- **Machine.** `RunStep` is a half of `rv_step` (a step of `Hart`), `CheckTimer` is
  `rv_clint_check_timer` in the loop, `StoreDeadline` and `FinishStore` the store of
  mtimecmp, `Join` the end of the loop. `Clock` and `Controller` are the host's clock and
  the PLIC. `Clint` shows that the accesses behind `CheckTimer` and the store may be taken as one
  (`ImplementsTimers`), and `Plic` that a line follows its registers.
- **Csr.** `Read` and `RefuseRead` are the first half of `do_csr`, `Finish` and `RefuseWrite` the
  second; `Device` is the CLINT or the PLIC, and `ChangePrivilege` a trap or a return
  (`Hart`), to any of the four privileges: a write of mstatus may leave the reserved 2 in MPP, and mret enters it.
- **Core.** `FetchFault`, `BadCompressed`, `FetchCompressed`, `FetchFull` are the ways through
  `rv_step_insn`, and each opcode is an action. An instruction is followed by `Stop`: since
  the states it starts from are chosen freely, what follows is another start.
- **Float.** One action for each case of `rv_opfp` and one for the fused operations; `WriteFcsr` are
  the CSR instructions. An instruction that comes before another matters through `host`, `excepts`, fcsr and
  the registers: an operation adds to `excepts` (`Raise`) what is left of them after `feclearexcept` (`Cleared`), and
  all that is there goes into fcsr (`Accrue`).
- **Pmp.** `WritePmpcfg` and `WritePmpaddr` are the CSR writes, `PmpCheck` is
  `rv_pmp_check`.

## 3. What the runs check

States are distinct states. With two workers each run takes at most three minutes.

| Run | States | Shows |
|---|---|---|
| `ClintOwn` | 82 032 | every hart programs its own timer: never early, never lost; the accesses of the threads implement `Timers`, liveness included |
| `ClintBootHart` | 1 410 765 | one hart programs all timers and mtime, to values beyond the uptime too: deadlines agree with registers, and mtime reads exactly as the value stored plus the time since |
| `Plic` | 1 998 744 | beside claims, and sip writes that leave SEIP out, MEIP and SEIP of two harts implement `InterruptLines`: they follow the registers and never change to another level than these ask for |
| `HartTraps` | 410 752 | nested traps return, no borrowed privilege, `mem_privilege` in step |
| `Machine` | 231 648 | a hart with its timer and a controller: interrupts respect modes, none due is left over, a deadline interrupts the guest, and MTIP is pending exactly when the timer has fired |
| `Instructions` | 300 078 | all 49 152 compressed words expand as the manual's tables say; products, remainders, calls of the base and M instructions; every trap reports the address of its instruction and the tval its cause is due |
| `Float` | 154 564 | rounding in the mode asked for, exact flags whatever exceptions the host has from earlier instructions, saturating conversions, canonical NaNs, minima and maxima, in sequences of two instructions |
| `Csr` | 402 856 | at every privilege: what a CSR reads as can be written back through any of its names and changes nothing; CSR instructions give no privilege, and change what they name |
| `Atomics` | 188 568 | implements `AtomicMemory`; every way out of an operation, the failed loads and stores and the undefined operation included, releases the lock |
| `Tlb` | 919 752 | two address spaces, superpages, global pages, fences: translations are current, A and D recorded |
| `PhysMem` | 32 446 | accesses of all sizes at all addresses over RAM, devices that meet, hide each other and refuse, and holes; page pairs: what reaches a hole moves nothing, no byte is moved twice, and an access that is not cut moves exactly its bytes |
| `Pmp` | 2 880 | with the regions of pmpaddr as written, the check is the first-match rule; what locked entries decide stays |

Further properties hold in the same models and can be put into the configurations named:
`TypeOK` (every module that has one), `SeipMatchesPlic` (`Plic`), `TimersInStep` (`ClintOwn`), `HaltEnds` (`Machine`), `FloatStateGuarded`
(`Csr`), `DisabledIsEmpty` and `PteWritesSurvive` (`Tlb`). `InstructionsMore.cfg` and `FloatMore.cfg`
check `ExpansionsAreLegal`, `WordsAreNarrow`, `BranchesOrder`, `StoredIsLoaded`, and `ClassIsUnique`,
`UnboxedIsNan`, `OffTouchesNothing`. `TlbTwoHarts.cfg` (47 596 states): two harts that change a shared table see a
stale translation only until their own fence.

Properties of instructions are stated apart from the code's way of computing:
`ExpandsAsManual` cuts the immediate out of the word as the manual's diagrams list its bits, `DivisionLaw` and `ProductLaw` are the
laws of quotients and products, `RoundsAsAsked` compares a result with its neighbours of the format, and `PreciseTraps` lists for each
cause what tval may be (`Reported`): the halfword that could not be fetched, the word or the expanded instruction, the address that base and immediate give.

**Bounds.** Names as in the .cfg files.

- Clint: `N` = 2 harts, so that one may write what the other polls; `Modulus` = 64
  stands for 2^64 and `NsPerTick` = 2 for 100; the clock stops at `MaxNow`, and `TickValues`
  0, 1, 2 give deadlines that are past, at once and later than any of
  the other two. `FarFuture` is the largest register value.
- Plic: two harts (four contexts); one device thread, one source, two priorities and
  thresholds, so that it can lose to the threshold. Source 0, which must be ignored, is
  one of those the devices raise. The theorems of section 4 are of any number of sources.
  `NumSources` is larger than any used source except where section 5 changes it.
- Hart: two to four places, among them the handlers, one that cannot be fetched and
  one that does not decode; four values of mstatus that between them set and clear every
  bit. An unbounded depth of nesting is covered: only the last trap to each mode is saved.
- Machine: one hart, one deadline and a clock that reaches it, MTIP and SEIP, so that one can be delegated and
  the other not. Time stops at `MaxNow`; the timer may be set again and again.
- Instructions: `XLEN` = 8 for 64, words of 4 bits for 32, so that every boundary of both widths is among 13
  operands; instruction words have their real 32 and 16 bits. RAM is a few bytes round 128, with holes
  on both sides.
- Float: formats of 3 to 4 bits of significand with subnormals, infinities and the three kinds of NaN; words of
  2 and 4 bits for 32 and 64, so that both overflow; 23 register values in all pairs, and sequences of two instructions
  from four registers, beginning with and without host exceptions. The end of a sequence is the end of a behaviour, hence no check of deadlock.
- Csr: three instructions, values that set and clear every field, devices that toggle MEIP and SEIP, privileges 0 to 3.
- Atomics: two harts, `Base` = 2 values per word, three words; a pair accessed as words and as a
  double word, by every operation and by one that is undefined; any access may fault.
- Paging: two levels of tables of two PTEs (three of 512 in the code), two rows of one column, or one
  row, so that replacement happens; `MaxWrites` PTE stores, one or two. `Tlb.cfg` and
  `TlbTwoHarts.cfg` divide the question: address spaces and levels, or harts.
- PhysMem: 64 addresses, accesses up to `MaxSize` = 4 bytes for 8; a device right behind the RAM, two that meet and
  one that hides a part of another, holes on both sides of them; `MaxStores` = 1 for each
  behaviour, since loads see only the values and each store is checked against
  the memory before it.
- Pmp: two entries of 64, `AddressBits` = 6, regions of 8, 16 and 32 bytes and of everything, where a page has
  `PageSize` = 32: the code decides by regions below a page, though its header says that it does not (section 5).

**Deadlocks** are checked, except in `Float` and in `Tlb`, where a hart whose replacement counter has
passed the columns stops: what the array's overrun does is undefined, and section 5
tells how to see it.

**Fairness.** Each hart is a pthread (`emu_machine_run`) which the host keeps
scheduling, so its step is weakly fair where a property needs it:
`ClintOwn` (every hart's thread, and the clock advances) and `Machine` (the thread of the hart; strong
fairness is not needed, since the loop looks at the timer and at the interrupts in every round).
Critical sections contain no wait, so `Atomics` assumes only that a hart inside an LR, an SC or an AMO
goes on. No fairness is assumed of devices, of the guest's choices, or of who gets a lock.

## 4. What is proved

For every value of the constants that satisfies the modules' assumptions, which
state their types, and of page tables that their pointers lead to page tables:

| Module | Theorem | Under | Says |
|---|---|---|---|
| `ClintProofs` | `TypeCorrect` | - | `TypeOK` |
| | `NeverEarly`, `NotLost` | `OwnTimersOnly`, `NoDeadlineWraps` | `TimerNeverEarly`, `TimerNotLost` |
| | `ClintIsTimers` | the same | `Clint` implements the safety part of `Timers` (`TimersInStep`) |
| | `DeadlinesAgreeWithRegisters` | `WritesDoNotRace` | `DeadlinesAgree` |
| | `MtimeIsReadBack` | `NoMtimeWraps` | `MtimeReadsBack`, an equality |
| `PlicProofs` | `TypeCorrect` | - | `TypeOK` |
| | `MeipIsPlics` | `LastSourceUnused` | `MeipMatchesPlic` |
| | `SeipIsPlics` | also `NoCsrWriteOfSeip` | `SeipMatchesPlic` |
| | `PlicIsWires` | the same | `Plic` implements `InterruptLines` (`LinesFollow`) |
| `MachineProofs`, of `Hart` | `TypeCorrect`, `MemPrivilegeSynced`, `NothingBorrowed` | `BootMemPrivilege = 3` | `TypeOK`, `MemPrivilegeInSync`, `NoBorrowedPrivilege` |
| | `MachineTrapReturns`, `SupervisorTrapReturns` | the same | `MachineReturns`, `SupervisorReturns` |
| | `CheckLeavesNothing`, `ModesRespected` | the same | `NothingLeftToTake`, `InterruptsRespectModes` |
| `MemoryProofs`, of `Atomics` | `TypeCorrect` | - | `TypeOK` |
| | `LockMakesIndivisible` | `NoMixing` | `Atomics` implements `AtomicMemory` |
| `CsrProofs` | `TypeCorrect` | - | `TypeOK` |
| | `SavedValuesRestore`, `PrivilegeHolds`, `FloatStateHidden` | - | `SavedRestores`, `NoEscalation`, `FloatStateGuarded` |
| | `OthersBitsAreKept` | - | `OnlyNamedBits` |
| `MachineProofs`, of `Machine` | `MachineIsHart`, `MachineIsTimer` | `BootMemPrivilege = 3` | `Machine` implements `Hart` and the safety part of `Timers` |
| | `PendingIsFired`, `MachineLeavesNothing`, `MachineRespectsModes` | the same | `PendingMeansFired`, `NothingLeftToTake`, `InterruptsRespectModes` |
| `PagingProofs` | `TypeCorrect`, `AccessesRecorded`, `EmptyWhileDisabled` | - | `TypeOK`, `AccessRecorded`, `DisabledIsEmpty` |
| | `TranslationsCurrent` | `NoAliases` | `TranslationCurrent` |
| `MemoryProofs`, of `PhysMem` | `MovedOnce` | `NoAccessWraps`, `PiecesApart` | `EachByteOnce` |
| | `FaultsAreClean` | the same | `HolesUntouched` |
| `WordProofs`, of `Pmp` | `PmpTypeCorrect` | - | `PmpTypeOK` |
| | `CheckDecides`, `LockedDecisions` | `AddressesExist`, `AccessesAreNarrow` | `CheckIsFirstMatch`, `LockedDecisionsStay` |
| `WordProofs`, of `Core` | `CoreTypeCorrect`, `TrapsArePrecise` | - | `TypeOK`, `PreciseTraps` |
| | `Divides`, `Multiplies` | - | `DivisionLaw`, `ProductLaw` |
| | `CallsComeBack`, `BranchesAgree` | - | `CallsReturn`, `BranchesOrder` |
| | `LoadsReturnStores` | - | `StoredIsLoaded` |
| | `ExpansionsExecute` | - | `ExpansionsAreLegal` |
| `FloatProofs` | `FloatTypeCorrect`, `ClassCorrect` | - | `TypeOK`, `ClassIsUnique` |
| | `RoundingIsAsked`, `FlagsCorrect` | - | `RoundsAsAsked`, `FlagsAreExact` |
| | `ConversionsCorrect` | - | `ConversionsSaturate` |
| | `NansCorrect`, `MinMaxCorrect`, `BoxesCorrect` | - | `NansAreCanonical`, `MinMaxOrders`, `UnboxedIsNan` |
| | `OffCorrect` | - | `OffTouchesNothing` |

The named assumptions are not modelling conveniences. Most exclude exactly what section 5 shows to go wrong:
`OwnTimersOnly` and `WritesDoNotRace` the stores that race, `NoDeadlineWraps`, `NoMtimeWraps`, `NoAccessWraps` and
`AddressesExist` the wraps, `LastSourceUnused` source 64, `NoCsrWriteOfSeip` the stale SEIP, `NoAliases` bit 38, `AccessesAreNarrow` the check of a whole page.
`NoMixing` is what `src/PLAN.md:354` accepts, and `PiecesApart` the geometry of pages. `BootMemPrivilege = 3` is
what `emu_machine_init` does and the command-line program does not. The runs keep to them: TLC has evaluated
each one that a property of a run is proved under on that run's configuration.

Where no name is given, the modules' own assumptions are enough. Those of `Arithmetic` say that the width of a register is a
multiple of eight and that `&`, `|` and `^` of two registers is a register: the three are constant operators, to which `MCCore` gives those of
the library, and no theorem needs more of them. `FloatAssumption` says what the fields of an instruction may be (rs2 is a register or
selects a type), that what the registers hold at first is of their types (and a class, if one is there, a single class), and that a NaN the host computes is quiet. The
theorems of `Float` are of every width of the integers, every set of registers and instructions and every choice of NaNs by the
host; the two floating-point formats are those of `Ieee`, which are small, with the rounding rules of IEEE 754.

The arguments:

- **Clint** (`TimerInductive`). The property alone is not inductive. For each hart the
  invariant adds where its thread is: inside a store of mtimecmp MTIP is clear and
  nobody else writes the timer; outside, the deadline is the exact integer instant at which
  mtime reaches mtimecmp; and after the comparison in the check the deadline really has
  passed. The clock only moves forward, so it stays passed. `ClintIsTimers` maps the same places to the
  phases of `Timers` (`PhaseOf`): a timer is being set until its flag is stored, waits while the flag
  stands, and has fired with the store of MTIP; the store that lowers the flag is a stutter.
  `DeadlinesAgreeWithRegisters` has an invariant of its own, `AgreeInv`, because its harts may program others' timers: a deadline
  agrees with the registers unless some hart is on its way to store it (`Moving`), with the right values in its hands (`Carried`).
- **Plic** (`LockInductive`, then `LineStep`). The lock's holder is the one thread
  at its update, and a line is right once the cursor has passed it or the lock is free. Every step either
  leaves registers and words alone, or drives one line, or takes the lock (which
  asks nothing), or is a CAS; and a CAS keeps every bit outside its mask, because it fails when the word has changed.
  `PlicIsWires` maps the scan of a context to one abstract line that follows, the CAS to a stutter, and the release of the lock, with all lines right, to
  the end of the change (`StepMovesLines`).
- **Hart** (`HartInductive`). `HartInv` adds to the types `Access`, that MPRV is only ever set in
  machine mode and `mem_privilege` is in step, and `Saved`, that the CSRs hold what the last trap to
  each mode interrupted: a trap to supervisor mode touches none of the machine's fields and
  a trap to machine mode none of the supervisor's, though both live in mstatus.
- **Machine** (`MachineInv`, `StepsOfBoth`). A step of the composition is a step of the hart and a step of
  the timer, or a stutter of either: `CheckTimer` is a device of `Hart`, and the hart's own steps never touch
  the timer's bit. What is proved of `Hart` then holds of the machine without being proved again.
- **Atomics** (`StepIsIndivisible`). The refinement maps memory, reservations and rd to
  themselves. An AMO's load is a stutter and its store the abstract AMO, for
  which `Loaded` is needed: the value loaded is still in memory while the lock is held, since LR, SC and
  AMOs wait for the lock and plain stores go elsewhere (`NoMixing`). An exit that failed is a stutter (`Trap`).
- **Csr** (`Typed`). Between the two halves of an instruction its operands and the privilege stay; every
  register is replaced through a mask, and the masks are compared with what each privilege owns. That set and
  clear keep other bits (`SetOrClear`) is carried through the shifted and masked views of their registers that sstatus, sip, frm and fflags are.
  `SavedValuesRestore` takes the same bounds with what was read as the value written, for which the fields that are hardwired must read as they are forced.
- **Paging** (`PagingInv`, then `CurrentInv`). A walk is at a place its address leads to: a table of its level, so
  that it stays within the tables (the assumption on what software stores says that pointers lead to tables), and a PTE in its hands is one that
  memory holds or held since the hart's last fence. An entry of the TLB translates every page with its tag as some
  such PTE does; a fence drops the entries of the pages whose history it forgets. `NoAliases` is used once: two pages with
  one tag are one page.
- **PhysMem** (`OnceInductive`). What is left of a piece begins at `addr` and ends where the piece does, so that an
  iteration takes bytes that are ahead of it (`PartFits`, with the first region at an address as the least of
  a set of numbers); the checking pass moves nothing, and the second piece is apart from the first.
  `HolesInductive` adds that what the first pass of a one-page access has behind it is mapped (`Seen`) and that nothing is moved
  before the pass has seen the whole, so that a hole, wherever it is, ends the access first: the regions may meet or hide each other, and refuse.
- **Pmp** (`PmpInv`). One more than a pmpaddr is an odd number times a power of two in one way only (`OddPartIsUnique`), and from the two the
  region is the aligned interval that the manual draws (`RegionIs`), which the comparison under a mask decides (`MatchesRegion`). Regions have 8 bytes or
  more, so that one which meets an access of at most 8 holds its first or its last byte (`EndsTell`): those are what the code looks at. That `2^n` doubles is proved by
  counting the subsets of `1..n`. A locked entry does not change, and the loop looks no further than the one that decides.
- **Core** (`CoreInv`). Neither the types nor `PreciseTraps` are inductive: after the fetch `pc` has moved on, and what a trap
  reports has to be tied to `epc`. The invariant says for each step of the instruction where `pc` and `epc` are (`pc` is `at`
  until the fetch, then `epc` is, and `pc` is `at` plus the length), and that there is no trap before the step that may cause it. Under it, each opcode is shown
  to stay within words and bytes, which needs the fields of the instruction: that every expansion of a compressed word has fields of
  their widths is proved encoder by encoder. Products and quotients are about signed readings of words: `Unsigned` and `Signed` are
  inverse up to a multiple of the power (`RemainderIsUnique`), so the halves of a product fit together, and truncated division is the floor of the magnitudes. A store
  writes byte `j` of its data at the address that is `j` beyond the first, also where the address space ends between them (`DistanceIs`); each byte is what the remainder of
  the data gains at its position (`DigitIs`), so that what a load adds up telescopes to the data's remainder (`WrittenIsRead`), and extension looks at nothing else
  (`ExtendedLow`). `LegalInv` ties the instruction to its word: a word has one expansion or none, which is one that the selected function accepts.
- **Float** (`Fine`, `Rightly`). For each operation the exact result is a fraction `n / d` with a sign, and every comparison
  of it with a number of the format is one of `n` with a multiple of `d` (`Exact`): for the root, which is no fraction, one with the denominator 4 that lies on the
  same side of every number of the format (`SqrtIsExact`), whose floor exists because the squares above `n` have a least element. `Neighbours` gives the numbers
  of the format on both sides of `n / d`, also where the spacing changes, and `RoundedIs` that rounding takes one of them; the lower is the floor,
  the upper the ceiling (the other way round for a negative number), and `NearerIs` compares with their midpoint. Overflow is the number or the
  infinity beyond the largest. A step then adds what is the instruction's: that the host's exceptions are cleared before the operation adds its own, so that `fflags` gains
  these alone, that `Applied` is the mode that is asked for whatever `host` was, that NaNs are canonized, that
  saturation picks the end of the type (`ToIntegerIs`) and that sign extension keeps the low bits (`SignedToIs`).

Model-checked only: `TransferIsExact` of `PhysMem`; liveness (`ImplementsTimers` beyond `TimersInStep`, `DeadlineInterrupts`, `DueTaken`, `HaltEnds`,
`LockReleased`), which is out of the prover's reach; and `ExpandsAsManual`, an invariant of `Core` that no state enters: it compares two operators
on the 49 152 compressed words, at their real width, and TLC has evaluated it on every one of them. `WordsAreNarrow` of
`InstructionsMore.cfg` stays with TLC too: that AND, OR and XOR of the lower halves are the lower halves of the results is not assumed of them. Every other property of a run is stated by a
theorem.

What the proofs changed in the models: `MulAdd`, `Div` and `Sqrt` of `Ieee` had been written as CASEs whose guards overlap (a NaN beside an infinity
and a zero, the root of a negative zero), of which TLC takes the first and the language any; their order is now explicit. `FloatAssumption` gained the fields of instructions, without which a
register of no type could be named.

## 5. Divergences found

What a comment, a document, a test or the architecture says and the code does not do. Each is seen
with TLC as the middle column says: a configuration of this directory (`tlc -config TlbAlias.cfg MCPaging`), or a run's
configuration in which the constants named are changed and the property named is checked instead. No run
of `PROJECT.json` depends on them: the runs and theorems are about what the code does keep.

| What happens | Configuration | Property |
|---|---|---|
| another hart's new deadline is disarmed by the owner's check of the old one (`rv_clint.c:99`) | `ClintCrossHart` | `TimerNotLost` |
| a store to mtime beside one to mtimecmp leaves a deadline of the old epoch (`rv_clint.c:90`) | `ClintBootHart`, `TimerTargets <- Own` | `DeadlinesAgree` |
| a far-future mtimecmp wraps and fires at once (`rv_clint.c:85`) | `ClintOwn`, `TickValues <- FarFuture` | `TimerNeverEarly` |
| a large mtime does not read back (`rv_clint.c:145`) | `ClintBootHart`, `TickValues <- FarFuture` | `MtimeReadsBack` |
| csrrs of SSIP in mip writes back a stale SEIP (`rv_csr.c:144`) | `PlicSeipOverwritten` | `SeipMatchesPlic` |
| a source in service is claimed again (`rv_plic.c:179`) | `Plic` | `NoClaimInService` |
| source 64 uses a word behind its arrays (`rv_plic.c:43`) | `Plic`, `UsedSources = {1, 2}` | `ClaimsEnabledOnly` |
| a write of mstatus leaves the reserved 2 in MPP (`rv_csr.c:135`), and then an ecall reaches `abort()` (`base.c:313`) | `HartEcallAborts` | `MppLegal`, `NeverAborts` |
| faults of the fetch skip the interrupt check, for ever (`rv_cpu.c:59`) | `HartTraps`, `FairSpec` | `InterruptTaken` |
| the command-line program starts with `mem_privilege` 0 (`src/main/src/main.c:47`) | `HartTraps`, `BootMemPrivilege = 0` | `MemPrivilegeInSync` |
| csrrsi and csrrci write back although their immediate is zero (`base.c:224`) | `Csr` | `NothingNamedNothingWritten` |
| reservations outlive AMOs that write their bytes at another address (`atomics.c:263`, under the comment "Invalidate any reservation that overlaps the written address") and the SC of others (`atomics.c:155`) | `Atomics` | `OverlapCancels`, `ScCancels` |
| the update of A and D overwrites another hart's PTE (`rv_paging.c:126`) | `TlbPteLost` | `PteWritesSurvive` |
| bit 38 of an address is not compared (`rv_paging.c:166`) | `TlbAlias` | `TranslationCurrent` |
| hits check no permissions (`rv_paging.c:181`) | `TlbAlias`, `TagLimit = 4`, `Accesses <- LoadsOfBoth` | `AccessPermitted` |
| the replacement counter leaves the array (`rv_paging.c:208`) | `Tlb` | `NeverOverrun` |
| parts of an access reuse the first bytes (`emu_machine.c:151`) | `PhysMem` | `EveryTransferExact` |
| a store is half done when a device refuses its part (`emu_machine.c:267`), or when the second page is a hole (`rv_paging.c:250`) | `PhysMem` | `FaultTouchesNothing` |
| addr + size wraps, and the access is taken for one to RAM (`emu_machine.c:241`) | `PhysMem`, `Wholes <- Top` | `RamBoundsHold` |
| an entry inside a page is overlooked (`rv_pmp.c:41`) | `Pmp`, `AddrWrites <- Amid`, `Accesses <- PageAccesses` | `CheckIsFirstMatch` |
| two bytes of a page have different permissions (`rv_pmp.c:17`): `rv_csr.h:11` says "PMP check granularity: Page sized.", but writes and checks take pmpaddr as it is, and only reads of it are masked to the grain (`rv_csr.c:104`) | `Pmp` | `PageGrained` |
| satp is open under TVM at the reserved privilege 2 (`rv_csr.c:190` compares with 1), which the MPP above leads to | `Csr` | `TvmHolds` |
| data is checked with the hart's own privilege under MPRV (`emu_machine.c:188`) | `Pmp` | `DataCheckedAsEffective` |
| the least of two positive zeros is a negative zero (`float.c:628`) | `Float` | `MinMaxPicks` |
| fclass of a signalling NaN may raise NV (`float.c:423`) | `Float` | `ClassifyRaisesNothing` |
| a fused multiply-add leaves a NaN of the host in the register | `Float` | `FusedNansAreCanonical` |

Smaller ones, which the models follow and no property is about: round to nearest, ties away, and the reserved
rounding modes leave the mode as it was instead of being illegal; minima with a reserved funct3 raise NV before they are
refused; shifts of `x0` in the compressed form are refused though they are hints; the word opcodes
execute functions that have no word form, and stores with funct3 of 4 and more execute; writes to read-only CSRs are ignored
instead of being illegal; mstatus.FS never becomes dirty, whatever `rv_csr.h:73-76` says of its states; `sie` is a register of its own that the interrupt
check never reads; bits 62 and 63 of a pmpaddr
are kept when it is read and lost in its region (`rv_pmp.c:22`).

## 6. What is not modelled

- Hart: xcause, xtval, writes of xtvec and vectored entry; `wfi`'s check of TW. `sie` is in `Csr`; `Hart` has mie alone, as the interrupt check does.
- CLINT and PLIC loads that change nothing. C memory orders weaker than sequential consistency: `emu_machine.c:28` loads the
  flag relaxed, and a weakly ordered host may show it before the deadline.
- Atomics: bitwise AMOs (only the operator differs); address translation is the identity, so a reservation that
  survives a change of address space is not seen. Devices as the target of an AMO: no device takes `atomic_lock`, so
  the two locks are only ever taken in one order.
- Paging: each ASID has a fixed root table; PMP and bus errors of a walk are a nondeterministic
  access fault; a fence of one page of a superpage clears that page's entry only, as in the code, and history follows it.
  PMP permissions that are cached with a translation stay until a fence, which the architecture asks software for.
- PhysMem: one access at a time; devices are register files that may refuse.
- Pmp: reads of the CSRs, which mask pmpaddr to the grain (`rv_csr.c:104-107`, tested by `src/test/src/pmp.c`) and so show other regions than the check decides by. TOR and NA4 exist as the code stores them, as OFF and NAPOT.
- Csr: the names of CSRs; registers that only keep what they are given stand for each other.
- Floating point: the branches that call Berkeley SoftFloat, which `rv_float_exact_math` guards and nothing enables. IEEE 754
  itself is external (`Ieee`).
- `emu_machine_add_mmio`, failing allocations and `emu_machine_destroy`, which run on one thread before or after the harts.
- Vectors: declarations only. UART, VirtIO and SBI: planned in `src/PLAN.md`, not written.

## 7. Plan

Done, in this order: the components in which threads meet (Clint, the only lock-free protocol, Plic, Hart, Atomics with
its abstraction, Paging, PhysMem, Pmp); Timers, InterruptLines and the refinements; the composition Machine; CSR
instructions; base, M and compressed instructions; floating point; the proofs of section 4.

What would come next:

1. **Atomics over Paging**: reservations by virtual address over changes of address space. **Pmp with Paging**: cached
   permissions against fences. **Atomics over PhysMem and devices**: the order of locks.
2. **Machine over the lines**: `Controller` as a step of `InterruptLines`, so that an external interrupt is followed from the source to the trap.
3. **Proofs**: the composition of 2; `Float` over formats that are parameters; `ExpandsAsManual`, encoder by encoder.
4. **Store buffers** for the relaxed loads of the run loop, if a host with weak memory is a target.
