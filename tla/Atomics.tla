------------------------------- MODULE Atomics -------------------------------
(***************************************************************************)
(* The A extension (emulator/src/cpu/rv_impl/atomics.c) on several harts.  *)
(*                                                                         *)
(* machine->atomic_lock is to serialise LR, SC and the AMOs: each takes it, *)
(* makes its accesses to memory, one or two, and releases it on the way out *)
(* it takes.  Nothing but where the lock is taken keeps two harts apart, and *)
(* plain stores do not take it.  rd is written after the lock is released; *)
(* as no other hart sees it, that is part of the step that releases it.  An *)
(* access that is misaligned traps before the lock and is left out.        *)
(***************************************************************************)
EXTENDS Integers

CONSTANTS Harts, NumWords, Base, AtomicAccesses, StoreAccesses, Operands

NoHart == -1

VARIABLES
    mem,            \* machine->ram, by 32-bit words
    reservations,   \* machine->reservations[]
    rd,             \* the value last written to rd, per hart
    atomic_lock,    \* its holder, or NoHart
    running         \* rv_atomic_op of each hart: its local variables, and whether
                    \* the load of an AMO has been made

M == INSTANCE AtomicMemory

ASSUME AtomicsAssumption ==
    /\ M!MemoryAssumption
    /\ NoHart \notin Harts

vars == <<mem, reservations, rd, atomic_lock, running>>

-----------------------------------------------------------------------------
\* "undefined" stands for a funct5 that is no operation.
AmoOps == M!AmoOps \cup {"undefined"}
Ops == {"lr", "sc"} \cup AmoOps

NotRunning ==
    [op |-> "none", addr |-> 0, wide |-> FALSE, rs2val |-> 0, loaded |-> FALSE, old |-> 0]
InOperation ==
    [op : Ops, addr : M!Addresses, wide : BOOLEAN, rs2val : Operands, loaded : BOOLEAN,
     old : M!DoubleWords]

TypeOK ==
    /\ mem \in [M!Addresses -> M!Words]
    /\ reservations \in [Harts -> [addr : M!Addresses \cup {0}, valid : BOOLEAN]]
    /\ rd \in [Harts -> M!DoubleWords]
    /\ atomic_lock \in Harts \cup {NoHart}
    /\ running \in [Harts -> InOperation \cup {NotRunning}]

Init ==
    /\ M!Init
    /\ atomic_lock = NoHart
    /\ running = [h \in Harts |-> NotRunning]

-----------------------------------------------------------------------------
\* The lock is taken for operation o.
Lock(h, o, a, w, v) ==
    /\ running[h] = NotRunning
    /\ atomic_lock = NoHart /\ atomic_lock' = h
    /\ running' = [running EXCEPT ![h] = [op |-> o, addr |-> a, wide |-> w, rs2val |-> v,
                                          loaded |-> FALSE, old |-> 0]]
    /\ UNCHANGED <<mem, reservations, rd>>

Unlock(h) == atomic_lock' = NoHart /\ running' = [running EXCEPT ![h] = NotRunning]

\* rv_do_trap or rv_do_iillegal after unlocking
Trap(h) == Unlock(h) /\ UNCHANGED <<mem, reservations, rd>>

BeforeLoad(h, ops) == running[h].op \in ops /\ ~running[h].loaded
AfterLoad(h, ops) == running[h].op \in ops /\ running[h].loaded

LrLoadFaults(h, w) == BeforeLoad(h, {"lr"}) /\ running[h].wide = w /\ Trap(h)

LoadReserved(h) ==
    /\ BeforeLoad(h, {"lr"})
    /\ M!LoadReserved(h, running[h].addr, running[h].wide)
    /\ Unlock(h)

\* The reservation is kept.
ScStoreFaults(h, w) ==
    /\ BeforeLoad(h, {"sc"}) /\ running[h].wide = w
    /\ M!Reserved(h, running[h].addr)
    /\ Trap(h)

StoreConditional(h) ==
    LET d == running[h] IN
    /\ BeforeLoad(h, {"sc"})
    /\ M!StoreConditional(h, d.addr, d.wide, d.rs2val)
    /\ Unlock(h)

AmoLoadFaults(h, w) == BeforeLoad(h, AmoOps) /\ running[h].wide = w /\ Trap(h)

\* The lock is released while the old value is in use.
AmoLoad_Unlocks(h) ==
    /\ BeforeLoad(h, AmoOps)
    /\ running' = [running EXCEPT ![h].loaded = TRUE,
                     ![h].old = M!Read(mem, running[h].addr, running[h].wide)]
    /\ atomic_lock' = NoHart
    /\ UNCHANGED <<mem, reservations, rd>>

AmoLoad(h) ==
    /\ BeforeLoad(h, AmoOps)
    /\ running' = [running EXCEPT ![h].loaded = TRUE,
                     ![h].old = M!Read(mem, running[h].addr, running[h].wide)]
    /\ UNCHANGED <<mem, reservations, rd, atomic_lock>>

AmoUndefined(h) == AfterLoad(h, {"undefined"}) /\ Trap(h)

\* The exit of the double words leaves without unlocking.
AmoStoreFaults_WideKeepsLock(h, w) ==
    /\ AfterLoad(h, M!AmoOps) /\ running[h].wide = w
    /\ running' = [running EXCEPT ![h] = NotRunning]
    /\ atomic_lock' = IF w THEN atomic_lock ELSE NoHart
    /\ UNCHANGED <<mem, reservations, rd>>

AmoStoreFaults(h, w) == AfterLoad(h, M!AmoOps) /\ running[h].wide = w /\ Trap(h)

\* The new value is stored, and the reservations at its address are invalidated.
AmoStore(h) ==
    LET d == running[h] IN
    /\ AfterLoad(h, M!AmoOps)
    /\ mem' = M!Write(mem, d.addr, d.wide, M!Apply(d.op, d.old, d.rs2val, d.wide))
    /\ M!EndReservations(d.addr)
    /\ M!Return(h, M!Extend(d.old, d.wide))
    /\ Unlock(h)

\* A store instruction takes no lock and ends no reservation.
Store(a, w, v) ==
    /\ M!Store(a, w, v)
    /\ UNCHANGED <<atomic_lock, running>>

-----------------------------------------------------------------------------
\* What a hart does under the lock
Step(h) ==
    \/ LoadReserved(h) \/ StoreConditional(h)
    \/ AmoLoad(h) \/ AmoUndefined(h) \/ AmoStore(h)
    \/ \E w \in BOOLEAN : \/ LrLoadFaults(h, w) \/ ScStoreFaults(h, w)
                           \/ AmoLoadFaults(h, w) \/ AmoStoreFaults(h, w)

Next ==
    \/ \E h \in Harts, o \in Ops, acc \in AtomicAccesses, v \in Operands :
         Lock(h, o, acc[1], acc[2], v)
    \/ \E h \in Harts : Step(h)
    \/ \E acc \in StoreAccesses, v \in Operands : Store(acc[1], acc[2], v)

Spec == Init /\ [][Next]_vars

\* A hart inside an atomic instruction keeps running.
FairSpec == Spec /\ \A h \in Harts : WF_vars(Step(h))

-----------------------------------------------------------------------------
(* Properties.                                                             *)

\* Plain stores and atomic operations use different words.
NoMixing ==
    \A s \in StoreAccesses, a \in AtomicAccesses : ~M!Overlap(s, a)

\* LR, SC and the AMOs are indivisible although an AMO is two accesses, and each
\* returns what memory held at its step (emu_machine.h 80: the lock serialises
\* all LR/SC/AMO operations across CPUs).
Indivisible == M!Spec

\* Every way out of an LR, an SC or an AMO releases the lock, those of each failed
\* access and of an undefined operation included (atomics.c 73-268).
LockReleased == atomic_lock # NoHart ~> atomic_lock = NoHart

\* The bytes that hart h accesses include the word at which the LR of hart g was.
Covers(h, g) ==
    M!Overlap(<<running[h].addr, running[h].wide>>, <<reservations[g].addr, FALSE>>)

\* No reservation outlives an AMO that wrote to the reserved bytes: "Invalidate any
\* reservation that overlaps the written address" (atomics.c 261; violated: only a
\* reservation at the same address is invalidated).
OverlapCancels ==
    [][\A h, g \in Harts : AmoStore(h) /\ Covers(h, g) => ~reservations'[g].valid]_vars

\* A reservation does not survive another hart's SC to the reserved bytes, so
\* of two harts that reserved the same word only one SC succeeds.
\* (The architecture's rule; violated: an SC ends its own hart's reservation alone.)
ScCancels ==
    [][\A h, g \in Harts :
         (h # g /\ StoreConditional(h) /\ M!Reserved(h, running[h].addr) /\ Covers(h, g))
           => ~reservations'[g].valid]_vars
=============================================================================
