-------------------------------- MODULE Plic --------------------------------
(***************************************************************************)
(* The platform-level interrupt controller (emulator/src/device/rv_plic.c) *)
(* and the word it shares with everybody else: cpu->irq_pending, whose MEIP *)
(* and SEIP bits the PLIC drives while the mip and sip CSR writes of        *)
(* emulator/src/cpu/rv_csr.c replace other bits of the same word with a     *)
(* compare-and-swap loop.                                                   *)
(*                                                                         *)
(* Registers are read and written under plic->lock.  plic_update_harts     *)
(* drives the lines one context at a time while the lock is held; the      *)
(* harts read and CAS irq_pending without the lock, so each line, each CSR *)
(* read, each load and each CAS is a step of its own.                      *)
(***************************************************************************)
EXTENDS Integers, FiniteSets

CONSTANTS
    N,              \* the number of harts
    Devices,        \* threads that call rv_plic_set_pending
    NumSources,     \* RV_PLIC_NUM_SOURCES; source NumSources has no bit in
                    \* the RV_PLIC_REG_WORDS words of an enable register
    UsedSources,    \* the sources the devices raise and the guest configures
    Priorities,     \* the values the guest writes to a priority register
    Thresholds,     \* the values the guest writes to a threshold register
    EnableWords,    \* the sets of sources the guest enables in a context
    CsrHarts,       \* the harts whose guest code writes mip or sip
    CsrOps,         \* what it writes: <<instruction, mask, operand>>, where
                    \* mask holds the bits that rv_csr_write replaces
                    \* (RV_SIP_WMASK for mip, mideleg & RV_SIP_WMASK for sip)
    BeyondContexts  \* the bit found behind the last element of contexts[]

Harts == 0..(N - 1)
Contexts == 0..(2 * N - 1)
Actors == Harts \cup Devices
NoActor == -1
Sources == 1..NumSources
CsrBits == {"SSIP", "STIP", "SEIP"}     \* RV_SIP_WMASK
IrqBits == CsrBits \cup {"MEIP"}
CsrInsns == {"csrrw", "csrrs", "csrrc"}

ASSUME PlicAssumption ==
    /\ N \in Nat \ {0}
    /\ NumSources \in Nat \ {0}
    /\ NoActor \notin Devices
    /\ UsedSources \subseteq Nat
    /\ Priorities \subseteq Nat
    /\ Thresholds \subseteq Nat
    /\ EnableWords \subseteq SUBSET (1..(NumSources - 1))
    /\ CsrHarts \subseteq Harts
    /\ CsrOps \subseteq CsrInsns \X (SUBSET CsrBits) \X (SUBSET CsrBits)
    /\ BeyondContexts \in BOOLEAN

VARIABLES
    priority,       \* plic->priority[]
    pending,        \* plic->pending[], as the set of pending sources
    enable,         \* contexts[].enable[], as a set of sources
    threshold,      \* contexts[].threshold
    lock,           \* plic->lock: its holder, or NoActor
    cursor,         \* the loop counter of plic_update_harts
    irq_pending,    \* cpu->irq_pending, per hart, without the CLINT's bits
    pc,             \* where each thread is
    wdata,          \* rv_csr_write: the value to write
    mask,           \* rv_csr_write: the bits it replaces
    old,            \* rv_csr_write: the value the CAS expects
    inService       \* history: sources claimed and not yet completed

registers == <<priority, pending, enable, threshold>>
csr == <<wdata, mask, old>>
vars == <<registers, lock, cursor, irq_pending, pc, csr, inService>>

-----------------------------------------------------------------------------
\* Source 0 is taken for a source like the others.
ValidSource_Zero(src) == src <= NumSources

\* Writes and interrupts of sources that do not exist are ignored.
ValidSource(src) == src \in Sources

\* Both contexts of a hart look at the enable bits of its machine context.
Enabled_PerHart(ctx, src) == src \in enable[2 * (ctx \div 2)]

\* (c->enable[word] >> bit) & 1.  For source NumSources the word is behind the
\* end of enable[], where the threshold of the next context is stored.
Enabled(ctx, src) ==
    IF src < NumSources THEN src \in enable[ctx]
    ELSE IF ctx + 1 \in Contexts THEN threshold[ctx + 1] % 2 = 1
    ELSE BeyondContexts

\* A priority equal to the threshold is let through.
Claimable_AtThreshold(ctx) ==
    {src \in pending : Enabled(ctx, src) /\ priority[src] >= threshold[ctx]}

Claimable(ctx) ==
    {src \in pending : Enabled(ctx, src) /\ priority[src] > threshold[ctx]}

\* plic_do_claim: the highest priority, the lowest number among equals.
IsBest(src, ctx) ==
    /\ src \in Claimable(ctx)
    /\ \A s \in Claimable(ctx) :
         \/ priority[s] < priority[src]
         \/ priority[s] = priority[src] /\ src <= s

Line(ctx) == IF ctx % 2 = 0 THEN "MEIP" ELSE "SEIP"

SetBit(word, bit, on) == IF on THEN word \cup {bit} ELSE word \ {bit}

-----------------------------------------------------------------------------
TypeOK ==
    /\ priority \in [Sources -> Priorities \cup {0}]
    /\ pending \subseteq Sources
    /\ enable \in [Contexts -> EnableWords \cup {{}}]
    /\ threshold \in [Contexts -> Thresholds \cup {0}]
    /\ lock \in Actors \cup {NoActor}
    /\ cursor \in 0..(2 * N)
    /\ irq_pending \in [Harts -> SUBSET IrqBits]
    /\ pc \in [Actors -> {"idle", "update", "csr_load", "csr_cas"}]
    /\ wdata \in [Harts -> SUBSET IrqBits]
    /\ mask \in [Harts -> SUBSET CsrBits]
    /\ old \in [Harts -> SUBSET IrqBits]
    /\ inService \subseteq Sources

Init ==
    /\ priority = [src \in Sources |-> 0]
    /\ pending = {}
    /\ enable = [ctx \in Contexts |-> {}]
    /\ threshold = [ctx \in Contexts |-> 0]
    /\ lock = NoActor
    /\ cursor = 0
    /\ irq_pending = [h \in Harts |-> {}]
    /\ pc = [a \in Actors |-> "idle"]
    /\ wdata = [h \in Harts |-> {}]
    /\ mask = [h \in Harts |-> {}]
    /\ old = [h \in Harts |-> {}]
    /\ inService = {}

-----------------------------------------------------------------------------
(* Operations under the lock: each changes a register and then calls        *)
(* plic_update_harts before it unlocks.                                     *)

Locked(a) ==
    /\ pc[a] = "idle"
    /\ lock = NoActor
    /\ lock' = a
    /\ pc' = [pc EXCEPT ![a] = "update"]
    /\ UNCHANGED <<cursor, irq_pending, csr>>

\* rv_plic_set_pending, called by a device's thread.
SetPending(d, src) ==
    /\ ValidSource(src)
    /\ Locked(d)
    /\ pending' = pending \cup {src}
    /\ UNCHANGED <<priority, enable, threshold, inService>>

WritePriority(h, src, p) ==
    /\ ValidSource(src)
    /\ Locked(h)
    /\ priority' = [priority EXCEPT ![src] = p]
    /\ UNCHANGED <<pending, enable, threshold, inService>>

WriteEnable(h, ctx, word) ==
    /\ Locked(h)
    /\ enable' = [enable EXCEPT ![ctx] = word]
    /\ UNCHANGED <<priority, pending, threshold, inService>>

WriteThreshold(h, ctx, t) ==
    /\ Locked(h)
    /\ threshold' = [threshold EXCEPT ![ctx] = t]
    /\ UNCHANGED <<priority, pending, enable, inService>>

\* A read of the claim register that finds a source (one that finds none
\* changes nothing and returns 0).
Claim(h, ctx, src) ==
    /\ IsBest(src, ctx)
    /\ Locked(h)
    /\ pending' = pending \ {src}
    /\ inService' = inService \cup {src}
    /\ UNCHANGED <<priority, enable, threshold>>

\* A write of the claim register changes no state of the PLIC.
Complete(h, src) ==
    /\ pc[h] = "idle"
    /\ lock = NoActor
    /\ inService' = inService \ {src}
    /\ UNCHANGED <<registers, lock, cursor, irq_pending, pc, csr>>

\* plic_update_harts, one iteration: fetch_or or fetch_and of one line.
DriveLine(a) ==
    /\ pc[a] = "update"
    /\ cursor < 2 * N
    /\ irq_pending' = [irq_pending EXCEPT
                        ![cursor \div 2] =
                            SetBit(@, Line(cursor), Claimable(cursor) # {})]
    /\ cursor' = cursor + 1
    /\ UNCHANGED <<registers, lock, pc, csr, inService>>

Unlock(a) ==
    /\ pc[a] = "update"
    /\ cursor = 2 * N
    /\ lock' = NoActor
    /\ cursor' = 0
    /\ pc' = [pc EXCEPT ![a] = "idle"]
    /\ UNCHANGED <<registers, irq_pending, csr, inService>>

-----------------------------------------------------------------------------
(* do_csr on mip or sip: CSRRS and CSRRC read the register first (CSRRW    *)
(* writes the operand), then rv_csr_write loads the word and tries to      *)
(* exchange it.                                                            *)

CsrRead(h, op, m, bits) ==
    /\ pc[h] = "idle"
    /\ wdata' = [wdata EXCEPT ![h] = CASE op = "csrrw" -> bits
                                      [] op = "csrrs" -> irq_pending[h] \cup bits
                                      [] op = "csrrc" -> irq_pending[h] \ bits]
    /\ mask' = [mask EXCEPT ![h] = m]
    /\ pc' = [pc EXCEPT ![h] = "csr_load"]
    /\ UNCHANGED <<registers, lock, cursor, irq_pending, old, inService>>

CsrLoad(h) ==
    /\ pc[h] = "csr_load"
    /\ old' = [old EXCEPT ![h] = irq_pending[h]]
    /\ pc' = [pc EXCEPT ![h] = "csr_cas"]
    /\ UNCHANGED <<registers, lock, cursor, irq_pending, wdata, mask, inService>>

\* The local variables of the finished call are dead.
ForgetLocals(h) ==
    /\ wdata' = [wdata EXCEPT ![h] = {}]
    /\ mask' = [mask EXCEPT ![h] = {}]
    /\ old' = [old EXCEPT ![h] = {}]

\* A plain store in place of the compare-and-swap.
CsrCas_PlainStore(h) ==
    /\ pc[h] = "csr_cas"
    /\ irq_pending' = [irq_pending EXCEPT
                        ![h] = (old[h] \ mask[h]) \cup (wdata[h] \cap mask[h])]
    /\ pc' = [pc EXCEPT ![h] = "idle"]
    /\ ForgetLocals(h)
    /\ UNCHANGED <<registers, lock, cursor, inService>>

CsrCas(h) ==
    /\ pc[h] = "csr_cas"
    /\ irq_pending[h] = old[h]
    /\ irq_pending' = [irq_pending EXCEPT
                        ![h] = (old[h] \ mask[h]) \cup (wdata[h] \cap mask[h])]
    /\ pc' = [pc EXCEPT ![h] = "idle"]
    /\ ForgetLocals(h)
    /\ UNCHANGED <<registers, lock, cursor, inService>>

\* compare_exchange_weak failed: because the word changed, or spuriously.
CsrRetry(h) ==
    /\ pc[h] = "csr_cas"
    /\ pc' = [pc EXCEPT ![h] = "csr_load"]
    /\ old' = [old EXCEPT ![h] = {}]
    /\ UNCHANGED <<registers, lock, cursor, irq_pending, wdata, mask, inService>>

-----------------------------------------------------------------------------
RegisterOp(h) ==
    \/ \E src \in UsedSources, p \in Priorities : WritePriority(h, src, p)
    \/ \E ctx \in Contexts, word \in EnableWords : WriteEnable(h, ctx, word)
    \/ \E ctx \in Contexts, t \in Thresholds : WriteThreshold(h, ctx, t)
    \/ \E ctx \in Contexts, src \in Sources : Claim(h, ctx, src)
    \/ \E src \in inService : Complete(h, src)

CsrOp(h) ==
    \/ \E op \in CsrOps : h \in CsrHarts /\ CsrRead(h, op[1], op[2], op[3])
    \/ CsrLoad(h)
    \/ CsrCas(h)
    \/ CsrRetry(h)

Update(a) == DriveLine(a) \/ Unlock(a)

Next ==
    \/ \E d \in Devices, src \in UsedSources : SetPending(d, src)
    \/ \E h \in Harts : RegisterOp(h) \/ CsrOp(h)
    \/ \E a \in Actors : Update(a)

Spec == Init /\ [][Next]_vars

-----------------------------------------------------------------------------
(* What the registers ask for, stated without the code's bit arithmetic: a *)
(* context has an interrupt if a source it enabled is pending with a       *)
(* priority above its threshold.                                           *)

Wanted(ctx) ==
    \E src \in pending : src \in enable[ctx] /\ priority[src] > threshold[ctx]

\* Source RV_PLIC_NUM_SOURCES, which the registers have no bit for, is unused.
LastSourceUnused == NumSources \notin UsedSources

\* No mip or sip write replaces SEIP: mideleg leaves it out of every sip write.
NoCsrWriteOfSeip == \A op \in CsrOps : "SEIP" \notin op[2]

-----------------------------------------------------------------------------
(* Properties.                                                             *)

\* Whenever nobody is updating the PLIC, every hart's MEIP bit says exactly
\* whether its machine context has an interrupt, whatever the CAS loops of mip
\* and sip writes do to the same word meanwhile (plic_update_harts 29-57).
MeipMatchesPlic ==
    lock = NoActor => \A h \in Harts : "MEIP" \in irq_pending[h] <=> Wanted(2 * h)

\* The same of SEIP and the supervisor context: rv_cpu.h says that the PLIC owns
\* MEIP and SEIP.
SeipMatchesPlic ==
    lock = NoActor => \A h \in Harts : "SEIP" \in irq_pending[h] <=> Wanted(2 * h + 1)

\* A source is claimed only through a context that enabled it.  Not so for source
\* RV_PLIC_NUM_SOURCES, though rv_plic.h counts it among the valid ones: its enable
\* bit is looked up past enable[] (plic_do_claim 73).
ClaimsEnabledOnly ==
    [][\A src \in pending \ pending', ctx \in Contexts :
         (\E h \in Harts : Claim(h, ctx, src)) => src \in enable[ctx]]_vars

\* A source that is being served is not claimed again before it is completed.
NoClaimInService ==
    [][\A src \in Sources :
         (\E h \in Harts, ctx \in Contexts : Claim(h, ctx, src))
             => src \notin inService]_vars

-----------------------------------------------------------------------------
(* The lines as the harts see them.                                        *)

Wires ==
    INSTANCE InterruptLines WITH
        Lines <- Contexts,
        asked <- {ctx \in Contexts : Wanted(ctx)},
        high <- {ctx \in Contexts : Line(ctx) \in irq_pending[ctx \div 2]},
        settled <- (lock = NoActor)

\* The scans and the single bits that plic_update_harts sets and clears, between
\* the loads and exchanges of the harts, amount to lines that follow the registers
\* without ever changing to a level that these do not ask for.
LinesFollow == Wires!LinesSpec
=============================================================================
