------------------------------ MODULE Machine -------------------------------
(***************************************************************************)
(* A hart at work: the loop of its thread (cpu_thread of                   *)
(* emulator/src/emu_machine.c), which runs the steps of module Hart and    *)
(* then looks at the timer, with the timer as module Timers specifies it   *)
(* (Clint implements it) and an interrupt controller that drives the other *)
(* bits of irq_pending.                                                    *)
(***************************************************************************)
EXTENDS Hart, Timers

CONSTANTS
    Me,         \* the hart
    MaxNow      \* bound: the clock stops here

VARIABLES
    loop,       \* where the thread is: "step" (rv_step_insn), "timer", or "joined"
    halted      \* cpu->halted

machineVars == <<vars, timerVars, loop, halted>>

ASSUME MachineAssumption == Owners = {Me} /\ MaxNow \in Nat /\ "MTIP" \in Irqs

MachineInit ==
    /\ Init
    /\ now = 0
    /\ phase = [o \in Owners |-> "off"]
    /\ due = [o \in Owners |-> Never]
    /\ loop = "step"
    /\ halted = FALSE

\* What Hart calls vars, but for the interrupts and for the pc.
registers == <<step, privilege, mem_privilege, mstatus, delegation, mepc, sepc, mtrap, strap>>

\* No store to mtimecmp is under way.
Free == phase[Me] # "setting"

\* The timer is looked at only while nothing is pending.
AfterStep_WhenQuiet == IF step' = "insn" /\ irq_pending' = {} THEN "timer" ELSE "step"

\* rv_step_insn returns after its check of the interrupts, or early (Hart).
AfterStep == IF step' = "insn" THEN "timer" ELSE "step"

\* A trap hook swallows an ecall and halts the hart, as those of the tests do.
HookHalts ==
    /\ "ecall_m" \in HookedCauses
    /\ Execute
    /\ privilege = 3
    /\ Swallowed(NextPc)
    /\ halted' = TRUE
    /\ UNCHANGED <<delegation, irq_pending>>

\* halted is not tested.
RunStep_Regardless ==
    /\ loop = "step"
    /\ Free
    /\ HookHalts \/ (HartStep /\ UNCHANGED halted)
    /\ loop' = AfterStep
    /\ UNCHANGED timerVars

RunStep ==
    /\ loop = "step"
    /\ Free
    /\ halted => step = "check"
    /\ HookHalts \/ (HartStep /\ UNCHANGED halted)
    /\ loop' = AfterStep
    /\ UNCHANGED timerVars

\* A store to mtimecmp, and its end: the timer is armed anew, and MTIP has dropped.
StoreDeadline(d) ==
    /\ loop = "step"
    /\ Free
    /\ ~halted
    /\ Jump(NextPc)
    /\ Ask(Me, d)
    /\ UNCHANGED <<loop, halted>>

\* The interrupt stays pending.
FinishStore_KeepsPending ==
    /\ Settle(Me)
    /\ UNCHANGED <<vars, loop, halted>>

FinishStore ==
    /\ Settle(Me)
    /\ irq_pending' = irq_pending \ {"MTIP"}
    /\ UNCHANGED <<registers, pc, loop, halted>>

\* rv_clint_check_timer, which the loop calls if the timer is armed
CheckTimer ==
    /\ loop = "timer"
    /\ loop' = "step"
    /\ \/ Fire(Me) /\ irq_pending' = irq_pending \cup {"MTIP"}
       \/ ~(phase[Me] = "waiting" /\ now >= due[Me]) /\ UNCHANGED <<timerVars, irq_pending>>
    /\ UNCHANGED <<registers, pc, halted>>

\* The loop ends, and emu_machine_run joins the thread.
Join ==
    /\ loop = "step" /\ step = "insn"
    /\ halted
    /\ loop' = "joined"
    /\ UNCHANGED <<vars, timerVars, halted>>

Thread ==
    \/ RunStep \/ FinishStore \/ CheckTimer \/ Join
    \/ \E d \in Deadlines : StoreDeadline(d)

Clock == now < MaxNow /\ now' = now + 1 /\ Advance /\ UNCHANGED <<vars, loop, halted>>

Controller(irq) == Device(irq) /\ UNCHANGED <<timerVars, loop, halted>>

MachineNext == Thread \/ Clock \/ \E irq \in Irqs \ {"MTIP"} : Controller(irq)

\* The operating system keeps running the hart's thread.
MachineSpec == MachineInit /\ [][MachineNext]_machineVars /\ WF_machineVars(Thread)

-----------------------------------------------------------------------------
(* Properties                                                              *)

\* Outside a store to mtimecmp, MTIP is pending exactly when the timer has fired: no
\* interrupt for a deadline that is yet to come, or that the guest has dismissed,
\* whatever the hart's traps and returns (rv_clint_check_timer, rv_check_interrupts).
PendingMeansFired ==
    /\ Free => ("MTIP" \in irq_pending <=> phase[Me] = "fired")
    /\ phase[Me] = "fired" => now >= due[Me]

\* The guest wants the interrupt of the deadline, and the deadline has come.
DeadlineCame ==
    /\ phase[Me] \in {"waiting", "fired"} /\ now >= due[Me]
    /\ "MTIP" \in mie
    /\ IF "MTIP" \in mideleg
       THEN privilege = 0 \/ (privilege = 1 /\ SIE \in mstatus)
       ELSE privilege < 3 \/ MIE \in mstatus

\* A deadline interrupts the guest, whatever it executes and whatever else is pending,
\* unless it masks the interrupt, asks for another deadline or halts: the loop looks at
\* the timer after every step, and the step after that at the interrupts.
DeadlineInterrupts == DeadlineCame ~> (~DeadlineCame \/ loop = "joined")

\* Every interrupt that is due is taken, or stops being due, unless the hart halts.
DueTaken == \A irq \in Irqs : Due(irq) ~> (~Due(irq) \/ loop = "joined")

\* A hart that a hook has halted leaves its loop, so emu_machine_run returns
\* (emu_machine.c 25-27, 64-66): no interrupt that is taken meanwhile revives it.
HaltEnds == halted ~> loop = "joined"
=============================================================================
