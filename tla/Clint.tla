-------------------------------- MODULE Clint --------------------------------
(***************************************************************************)
(* The core-local interruptor (emulator/src/device/rv_clint.c) together    *)
(* with the part of each hart's thread that drives it: the run loop        *)
(* cpu_thread of emulator/src/emu_machine.c, which executes one            *)
(* instruction and then, if clint_timer_armed is set, checks the timer.    *)
(*                                                                         *)
(* There is no ticker thread.  A write of mtimecmp computes an absolute    *)
(* host-clock deadline and arms a flag; the hart that owns the timer polls *)
(* the flag after each instruction.  Every access to memory that another   *)
(* thread may touch is a step of its own, so a write by one hart           *)
(* interleaves with a check by another.                                    *)
(*                                                                         *)
(* Integers are uint64_t in the code: arithmetic on them wraps at Modulus. *)
(***************************************************************************)
EXTENDS Integers

CONSTANTS
    N,              \* the number of harts
    NsPerTick,      \* CLINT_NS_PER_TICK: nanoseconds in a tick of mtime
    Modulus,        \* 2^64: where uint64_t arithmetic wraps
    BootNs,         \* the host clock when rv_clint_init reads it
    MaxNow,         \* bound: the host clock stops here
    TickValues,     \* the values the guest writes to mtimecmp and to mtime
    TimerTargets,   \* <<h, t>>: the guest code of hart h writes mtimecmp[t]
    MsipTargets,    \* <<h, t>>: the guest code of hart h writes MSIP[t]
    MtimeWriters    \* the harts whose guest code writes mtime

Harts == 0..(N - 1)
NoHart == -1
Words == 0..(Modulus - 1)

ASSUME ClintAssumption ==
    /\ N \in Nat \ {0}
    /\ NsPerTick \in Nat \ {0}
    /\ Modulus \in Nat \ {0}
    /\ BootNs \in Words
    /\ MaxNow \in Nat
    /\ TickValues \subseteq Words
    /\ TimerTargets \subseteq Harts \X Harts
    /\ MsipTargets \subseteq Harts \X Harts
    /\ MtimeWriters \subseteq Harts

VARIABLES
    now_ns,             \* CLOCK_MONOTONIC
    epoch_ns,           \* clint->epoch_ns
    mtimecmp,           \* clint->mtimecmp[]
    deadline_ns,        \* clint->deadline_ns[]
    lock,               \* clint->lock: its holder, or NoHart
    clint_timer_armed,  \* cpu->clint_timer_armed, per hart
    irq_pending,        \* the CLINT's bits of cpu->irq_pending, per hart
    pc,                 \* where each hart's thread is
    target, value, n, word, index,
                        \* local variables of each hart's thread: the hart and
                        \* the value of the store in progress, the clock as
                        \* clint_write has read it, the deadline or epoch just
                        \* computed or loaded, the loop counter
    requested,          \* history: mtimecmp[h] has been written
    set                 \* history: what epoch_ns was computed from, a value
                        \* of mtime and an instant of the clock

device == <<epoch_ns, set, mtimecmp, deadline_ns>>
flags == <<clint_timer_armed, irq_pending>>
locals == <<target, value, n, word, index>>
vars == <<now_ns, device, lock, flags, pc, locals, requested>>

-----------------------------------------------------------------------------
(* uint64_t arithmetic, and the registers as a guest reads them.           *)

\* The arithmetic done in signed integers.
Wrap_Signed(x) == x

Wrap(x) == x % Modulus

DeadlineFor(epoch, ticks) == Wrap(epoch + ticks * NsPerTick)

\* rv_clint_mtime
Mtime == Wrap(now_ns - epoch_ns) \div NsPerTick

\* The value rv_clint_init leaves, so that an unarmed check never fires.
NeverDue == Modulus - 1

Goto(h, label) == pc' = [pc EXCEPT ![h] = label]

-----------------------------------------------------------------------------
TypeOK ==
    /\ now_ns \in Nat
    /\ epoch_ns \in Words
    /\ mtimecmp \in [Harts -> TickValues \cup {0}]
    /\ deadline_ns \in [Harts -> Words]
    /\ lock \in Harts \cup {NoHart}
    /\ clint_timer_armed \in [Harts -> BOOLEAN]
    /\ irq_pending \in [Harts -> SUBSET {"MSIP", "MTIP"}]
    /\ pc \in [Harts -> {"insn", "cmp_lock", "cmp_deadline", "cmp_arm",
                         "mtime_epoch", "mtime_lock", "mtime_loop",
                         "timer_test", "timer_load", "timer_compare",
                         "timer_disarm"}]
    /\ target \in [Harts -> Harts]
    /\ value \in [Harts -> TickValues \cup {0}]
    /\ n \in [Harts -> Nat]
    /\ word \in [Harts -> Words]
    /\ index \in [Harts -> 0..N]
    /\ requested \in [Harts -> BOOLEAN]
    /\ set \in [mtime : TickValues \cup {0}, instant : Nat]

Init ==
    /\ now_ns = BootNs
    /\ epoch_ns = BootNs
    /\ mtimecmp = [h \in Harts |-> 0]
    /\ deadline_ns = [h \in Harts |-> NeverDue]
    /\ lock = NoHart
    /\ clint_timer_armed = [h \in Harts |-> FALSE]
    /\ irq_pending = [h \in Harts |-> {}]
    /\ pc = [h \in Harts |-> "insn"]
    /\ target = [h \in Harts |-> h]
    /\ value = [h \in Harts |-> 0]
    /\ n = [h \in Harts |-> BootNs]
    /\ word = [h \in Harts |-> 0]
    /\ index = [h \in Harts |-> 0]
    /\ requested = [h \in Harts |-> FALSE]
    /\ set = [mtime |-> 0, instant |-> BootNs]

-----------------------------------------------------------------------------
(* rv_step_insn: the instruction either leaves the CLINT alone or is a     *)
(* store that reaches clint_write.                                         *)

OtherInsn(h) ==
    /\ pc[h] = "insn"
    /\ Goto(h, "timer_test")
    /\ UNCHANGED <<now_ns, device, lock, flags, locals, requested>>

WriteMsip(h, t, on) ==
    /\ pc[h] = "insn"
    /\ irq_pending' = [irq_pending EXCEPT
                        ![t] = IF on THEN @ \cup {"MSIP"} ELSE @ \ {"MSIP"}]
    /\ Goto(h, "timer_test")
    /\ UNCHANGED <<now_ns, device, lock, clint_timer_armed, locals, requested>>

\* MTIP is left pending from the previous deadline.
ClearMtip_Forgotten(h, t, v) ==
    /\ pc[h] = "insn"
    /\ target' = [target EXCEPT ![h] = t]
    /\ value' = [value EXCEPT ![h] = v]
    /\ Goto(h, "cmp_lock")
    /\ UNCHANGED <<now_ns, device, lock, flags, requested, n, word, index>>

\* rv_clint_set_mtimecmp, first statement: MTIP is cleared before anything else.
ClearMtip(h, t, v) ==
    /\ pc[h] = "insn"
    /\ irq_pending' = [irq_pending EXCEPT ![t] = @ \ {"MTIP"}]
    /\ target' = [target EXCEPT ![h] = t]
    /\ value' = [value EXCEPT ![h] = v]
    /\ Goto(h, "cmp_lock")
    /\ UNCHANGED <<now_ns, device, lock, clint_timer_armed, requested, n, word,
                   index>>

\* The new value reaches the deadline but not the register.
StoreMtimecmp_DeadlineOnly(h) ==
    /\ pc[h] = "cmp_lock"
    /\ lock = NoHart
    /\ word' = [word EXCEPT ![h] = DeadlineFor(epoch_ns, value[h])]
    /\ Goto(h, "cmp_deadline")
    /\ UNCHANGED <<now_ns, device, lock, flags, requested, target, value, n, index>>

\* The critical section.  mtimecmp is only read under the lock, so storing it
\* and loading epoch_ns (the one access another thread can interleave) are one
\* step, taken when the lock is free.
StoreMtimecmp(h) ==
    /\ pc[h] = "cmp_lock"
    /\ lock = NoHart
    /\ mtimecmp' = [mtimecmp EXCEPT ![target[h]] = value[h]]
    /\ word' = [word EXCEPT ![h] = DeadlineFor(epoch_ns, value[h])]
    /\ Goto(h, "cmp_deadline")
    /\ UNCHANGED <<now_ns, epoch_ns, set, deadline_ns, lock, flags, requested,
                   target, value, n, index>>

\* After the unlock: deadline_ns, then the flag.
StoreDeadline(h) ==
    /\ pc[h] = "cmp_deadline"
    /\ deadline_ns' = [deadline_ns EXCEPT ![target[h]] = word[h]]
    /\ Goto(h, "cmp_arm")
    /\ UNCHANGED <<now_ns, epoch_ns, set, mtimecmp, lock, flags, locals, requested>>

\* The flag armed only for a deadline in the future, as PLAN.md words it.
ArmTimer_OnlyFuture(h) ==
    /\ pc[h] = "cmp_arm"
    /\ clint_timer_armed' = [clint_timer_armed EXCEPT
                              ![target[h]] = word[h] > now_ns]
    /\ requested' = [requested EXCEPT ![target[h]] = TRUE]
    /\ Goto(h, "timer_test")
    /\ UNCHANGED <<now_ns, device, lock, irq_pending, locals>>

ArmTimer(h) ==
    /\ pc[h] = "cmp_arm"
    /\ clint_timer_armed' = [clint_timer_armed EXCEPT ![target[h]] = TRUE]
    /\ requested' = [requested EXCEPT ![target[h]] = TRUE]
    /\ Goto(h, "timer_test")
    /\ UNCHANGED <<now_ns, device, lock, irq_pending, locals>>

-----------------------------------------------------------------------------
(* clint_write, offset 0xBFF8: mtime is moved by moving the epoch, which is *)
(* stored before the lock is taken; the loop recomputes every deadline.     *)

\* The written value is taken for nanoseconds.
SampleClock_Nanoseconds(h, v) ==
    /\ pc[h] = "insn"
    /\ value' = [value EXCEPT ![h] = v]
    /\ n' = [n EXCEPT ![h] = now_ns]
    /\ word' = [word EXCEPT ![h] = Wrap(now_ns - v)]
    /\ Goto(h, "mtime_epoch")
    /\ UNCHANGED <<now_ns, device, lock, flags, requested, target, index>>

SampleClock(h, v) ==
    /\ pc[h] = "insn"
    /\ value' = [value EXCEPT ![h] = v]
    /\ n' = [n EXCEPT ![h] = now_ns]
    /\ word' = [word EXCEPT ![h] = Wrap(now_ns - v * NsPerTick)]
    /\ Goto(h, "mtime_epoch")
    /\ UNCHANGED <<now_ns, device, lock, flags, requested, target, index>>

StoreEpoch(h) ==
    /\ pc[h] = "mtime_epoch"
    /\ epoch_ns' = word[h]
    /\ set' = [mtime |-> value[h], instant |-> n[h]]
    /\ Goto(h, "mtime_lock")
    /\ UNCHANGED <<now_ns, mtimecmp, deadline_ns, lock, flags, locals,
                   requested>>

LockForDeadlines(h) ==
    /\ pc[h] = "mtime_lock"
    /\ lock = NoHart
    /\ lock' = h
    /\ index' = [index EXCEPT ![h] = 0]
    /\ Goto(h, "mtime_loop")
    /\ UNCHANGED <<now_ns, device, flags, requested, target, value, n, word>>

\* The loop recomputes the deadlines of the armed timers only.
MoveDeadline_SkipUnarmed(h) ==
    LET i == index[h] IN
    /\ pc[h] = "mtime_loop"
    /\ i < N
    /\ deadline_ns' = IF clint_timer_armed[i]
                      THEN [deadline_ns EXCEPT
                             ![i] = DeadlineFor(word[h], mtimecmp[i])]
                      ELSE deadline_ns
    /\ index' = [index EXCEPT ![h] = i + 1]
    /\ UNCHANGED <<now_ns, epoch_ns, set, mtimecmp, lock, flags, pc, requested,
                   target, value, n, word>>

MoveDeadline(h) ==
    LET i == index[h] IN
    /\ pc[h] = "mtime_loop"
    /\ i < N
    /\ deadline_ns' = [deadline_ns EXCEPT
                        ![i] = DeadlineFor(word[h], mtimecmp[i])]
    /\ index' = [index EXCEPT ![h] = i + 1]
    /\ UNCHANGED <<now_ns, epoch_ns, set, mtimecmp, lock, flags, pc, requested,
                   target, value, n, word>>

UnlockDeadlines(h) ==
    /\ pc[h] = "mtime_loop"
    /\ index[h] = N
    /\ lock' = NoHart
    /\ Goto(h, "timer_test")
    /\ UNCHANGED <<now_ns, device, flags, locals, requested>>

-----------------------------------------------------------------------------
(* cpu_thread after the instruction, and rv_clint_check_timer.             *)

TestArmed(h) ==
    /\ pc[h] = "timer_test"
    /\ Goto(h, IF clint_timer_armed[h] THEN "timer_load" ELSE "insn")
    /\ UNCHANGED <<now_ns, device, lock, flags, locals, requested>>

LoadDeadline(h) ==
    /\ pc[h] = "timer_load"
    /\ word' = [word EXCEPT ![h] = deadline_ns[h]]
    /\ Goto(h, "timer_compare")
    /\ UNCHANGED <<now_ns, device, lock, flags, requested, target, value, n,
                   index>>

SetMtip(h) ==
    /\ pc[h] = "timer_compare"
    /\ now_ns >= word[h]
    /\ irq_pending' = [irq_pending EXCEPT ![h] = @ \cup {"MTIP"}]
    /\ Goto(h, "timer_disarm")
    /\ UNCHANGED <<now_ns, device, lock, clint_timer_armed, locals, requested>>

\* A check that finds nothing due disarms the timer all the same.
NotDue_Disarms(h) ==
    /\ pc[h] = "timer_compare"
    /\ now_ns < word[h]
    /\ clint_timer_armed' = [clint_timer_armed EXCEPT ![h] = FALSE]
    /\ Goto(h, "insn")
    /\ UNCHANGED <<now_ns, device, lock, irq_pending, locals, requested>>

NotDue(h) ==
    /\ pc[h] = "timer_compare"
    /\ now_ns < word[h]
    /\ Goto(h, "insn")
    /\ UNCHANGED <<now_ns, device, lock, flags, locals, requested>>

DisarmTimer(h) ==
    /\ pc[h] = "timer_disarm"
    /\ clint_timer_armed' = [clint_timer_armed EXCEPT ![h] = FALSE]
    /\ Goto(h, "insn")
    /\ UNCHANGED <<now_ns, device, lock, irq_pending, locals, requested>>

-----------------------------------------------------------------------------
\* The host clock.
Tick ==
    /\ now_ns < MaxNow
    /\ now_ns' = now_ns + 1
    /\ UNCHANGED <<device, lock, flags, pc, locals, requested>>

ClintStore(h) ==
    \/ \E t \in Harts, on \in BOOLEAN :
           <<h, t>> \in MsipTargets /\ WriteMsip(h, t, on)
    \/ \E t \in Harts, v \in TickValues :
           <<h, t>> \in TimerTargets /\ ClearMtip(h, t, v)
    \/ StoreMtimecmp(h)
    \/ StoreDeadline(h)
    \/ ArmTimer(h)
    \/ \E v \in TickValues : h \in MtimeWriters /\ SampleClock(h, v)
    \/ StoreEpoch(h)
    \/ LockForDeadlines(h)
    \/ MoveDeadline(h)
    \/ UnlockDeadlines(h)

CheckTimer(h) ==
    TestArmed(h) \/ LoadDeadline(h) \/ SetMtip(h) \/ NotDue(h) \/ DisarmTimer(h)

HartStep(h) == OtherInsn(h) \/ ClintStore(h) \/ CheckTimer(h)

Next == Tick \/ \E h \in Harts : HartStep(h)

Spec == Init /\ [][Next]_vars

\* Every hart is a pthread of its own, which the host keeps scheduling, and
\* CLOCK_MONOTONIC advances.
FairSpec == Spec /\ WF_vars(Tick) /\ \A h \in Harts : WF_vars(HartStep(h))

-----------------------------------------------------------------------------
(* Assumptions about the guest and the values, under which the properties  *)
(* below are stated.                                                       *)

\* Each hart writes its own mtimecmp and nobody writes mtime.
OwnTimersOnly ==
    /\ \A h, t \in Harts : <<h, t>> \in TimerTargets => h = t
    /\ MtimeWriters = {}

\* No deadline the guest asks for wraps.
NoDeadlineWraps ==
    \A v \in TickValues \cup {0} : BootNs + v * NsPerTick < Modulus

\* Each mtimecmp has one writer, and a hart that writes mtime is the only writer
\* of anything: the guest keeps its stores to timers apart, as OwnTimersOnly does
\* and as a boot hart does that programs all of them.
WritesDoNotRace ==
    /\ \A a, b \in TimerTargets : a[2] = b[2] => a[1] = b[1]
    /\ \A w \in MtimeWriters :
         MtimeWriters = {w} /\ \A a \in TimerTargets : a[1] = w

\* No time the guest sets mtime to wraps while the clock runs.
NoMtimeWraps ==
    \A v \in TickValues \cup {0} :
        v * NsPerTick < Modulus /\ MaxNow - BootNs + v * NsPerTick < Modulus

\* The instant at which mtime reaches mtimecmp[h], as an integer.
DueTime(h) == epoch_ns + mtimecmp[h] * NsPerTick

\* Hart w is somewhere inside rv_clint_set_mtimecmp(hart = h).
Setting(w, h) ==
    pc[w] \in {"cmp_lock", "cmp_deadline", "cmp_arm"} /\ target[w] = h

BeingSet(h) == \E w \in Harts : Setting(w, h)

-----------------------------------------------------------------------------
(* Properties.                                                             *)

\* A timer interrupt is never early: while MTIP is pending, mtime has reached
\* mtimecmp.  rv_clint_set_mtimecmp clears MTIP before it stores the new value,
\* and only the owner's check, against that value's deadline, sets it again.
TimerNeverEarly ==
    \A h \in Harts : "MTIP" \in irq_pending[h] => now_ns >= DueTime(h)

\* A timer that has been set is never forgotten: unless mtimecmp is being
\* rewritten right now, either the run loop still polls it or MTIP is pending.
\* rv_clint_set_mtimecmp (76-92) arms, rv_clint_check_timer (94-101) disarms.
TimerNotLost ==
    \A h \in Harts :
        requested[h] /\ ~BeingSet(h)
            => clint_timer_armed[h] \/ "MTIP" \in irq_pending[h]

\* Whenever no write is in progress, each deadline is the one that mtimecmp and
\* the epoch stand for (rv_clint.h 32-35), or the timer was never touched.
DeadlinesAgree ==
    (\A w \in Harts : pc[w] \in {"insn", "timer_test", "timer_load",
                                 "timer_compare", "timer_disarm"})
        => \A h \in Harts :
               \/ deadline_ns[h] = DeadlineFor(epoch_ns, mtimecmp[h])
               \/ ~requested[h] /\ deadline_ns[h] = NeverDue

\* At every instant mtime is the value it was last set to and what the clock has
\* advanced since the instant at which the store read it, no less and no more: whoever
\* stored meanwhile, however late the epoch was stored, and also when the value is more
\* than the uptime, so that the epoch is before the clock's zero (clint_write 142-154).
MtimeReadsBack == Mtime = set.mtime + (now_ns - set.instant) \div NsPerTick

-----------------------------------------------------------------------------
(* The timers as the guest sees them, when every hart keeps to its own.     *)

PhaseOf(h) ==
    IF BeingSet(h) THEN "setting"
    ELSE IF ~requested[h] THEN "off"
    ELSE IF "MTIP" \in irq_pending[h] THEN "fired" ELSE "waiting"

AskedFor(h) ==
    IF BeingSet(h) THEN BootNs + value[h] * NsPerTick
    ELSE IF requested[h] THEN DueTime(h) ELSE -1

Guest ==
    INSTANCE Timers WITH
        Owners <- Harts,
        Deadlines <- {BootNs + v * NsPerTick : v \in TickValues},
        now <- now_ns,
        phase <- [h \in Harts |-> PhaseOf(h)],
        due <- [h \in Harts |-> AskedFor(h)]

\* The accesses of a store to mtimecmp and of a check, interleaved with those of
\* the other harts and the clock, amount to timers that are set in one go, keep
\* the deadline they were given, and fire no sooner (rv_clint.h 51-59).
TimersInStep == Guest!TimersSafety

\* And every request is carried out, and a timer whose time has come fires unless
\* the guest sets it anew (cpu_thread 26-30).
ImplementsTimers == Guest!TimersSpec
=============================================================================
