----------------------------- MODULE ClintProofs -----------------------------
(***************************************************************************)
(* Proofs about Clint for any number of harts, any clock and any values.   *)
(***************************************************************************)
EXTENDS Clint, TLAPS

-----------------------------------------------------------------------------
(* uint64_t arithmetic.                                                    *)

\* A wrapped value is a machine word.
LEMMA WrapInWords ==
    ASSUME NEW x \in Int
    PROVE  Wrap(x) \in Words
  BY ClintAssumption DEF Wrap, Words

\* A value that fits is not changed by wrapping.
LEMMA WrapSmall ==
    ASSUME NEW x \in Nat, x < Modulus
    PROVE  Wrap(x) = x
  BY ClintAssumption DEF Wrap, Words

\* The instant a register value stands for, before it is wrapped.
LEMMA DueInNat ==
    ASSUME NEW e \in Words, NEW v \in TickValues \cup {0}
    PROVE  e + v * NsPerTick \in Nat
  <1>1. v \in Nat /\ NsPerTick \in Nat /\ e \in Nat
    BY ClintAssumption DEF Words
  <1>2. v * NsPerTick \in Nat
    BY <1>1
  <1>. QED
    BY <1>1, <1>2

\* Deadlines are machine words.
LEMMA DeadlineInWords ==
    ASSUME NEW e \in Words, NEW v \in TickValues \cup {0}
    PROVE  DeadlineFor(e, v) \in Words
  BY DueInNat, WrapInWords DEF DeadlineFor

-----------------------------------------------------------------------------
(* Type correctness holds for every guest.                                 *)

\* Every register, flag and local variable keeps its type: what the code stores
\* in a uint64_t is always a machine word, whatever the guest writes.
THEOREM TypeCorrect == Spec => []TypeOK
<1>1. Init => TypeOK
  BY ClintAssumption DEF Init, TypeOK, NeverDue, Words
<1>2. TypeOK /\ [Next]_vars => TypeOK'
  <2> SUFFICES ASSUME TypeOK, [Next]_vars PROVE TypeOK'
    OBVIOUS
  <2> USE ClintAssumption DEF TypeOK, Goto
  <2>1. CASE Tick
    BY <2>1 DEF Tick, device, flags, locals
  <2>2. CASE \E h \in Harts : HartStep(h)
    <3> PICK h \in Harts : HartStep(h)
      BY <2>2
    <3>1. CASE OtherInsn(h)
      BY <3>1 DEF OtherInsn, device, flags, locals
    <3>2. ASSUME NEW t \in Harts, NEW on \in BOOLEAN, WriteMsip(h, t, on)
          PROVE  TypeOK'
      BY <3>2 DEF WriteMsip, device, locals
    <3>3. ASSUME NEW t \in Harts, NEW v \in TickValues, ClearMtip(h, t, v)
          PROVE  TypeOK'
      BY <3>3 DEF ClearMtip, device
    <3>4. CASE StoreMtimecmp(h)
      <4>1. DeadlineFor(epoch_ns, value[h]) \in Words
        BY DeadlineInWords
      <4>. QED
        BY <3>4, <4>1 DEF StoreMtimecmp, flags
    <3>5. CASE StoreDeadline(h)
      BY <3>5 DEF StoreDeadline, flags, locals
    <3>6. CASE ArmTimer(h)
      BY <3>6 DEF ArmTimer, device, locals
    <3>7. ASSUME NEW v \in TickValues, SampleClock(h, v)
          PROVE  TypeOK'
      <4>1. now_ns - v * NsPerTick \in Int
        BY ClintAssumption DEF Words
      <4>2. Wrap(now_ns - v * NsPerTick) \in Words
        BY <4>1, WrapInWords
      <4>. QED
        BY <3>7, <4>2 DEF SampleClock, device, flags, locals
    <3>8. CASE StoreEpoch(h)
      BY <3>8 DEF StoreEpoch, flags, locals
    <3>9. CASE LockForDeadlines(h)
      BY <3>9 DEF LockForDeadlines, device, flags, locals
    <3>10. CASE MoveDeadline(h)
      <4>. DEFINE i == index[h]
      <4>0. i \in 0..N /\ i < N
        BY <3>10 DEF MoveDeadline
      <4>. HIDE DEF i
      <4>1. i \in 0..(N - 1) /\ i + 1 \in 0..N
        BY <4>0
      <4>. USE DEF i
      <4>2. i \in Harts /\ mtimecmp[i] \in TickValues \cup {0} /\ word[h] \in Words
        BY <4>1 DEF Harts
      <4>3. DeadlineFor(word[h], mtimecmp[i]) \in Words
        BY <4>2, DeadlineInWords
      <4>. QED
        BY <3>10, <4>1, <4>2, <4>3 DEF MoveDeadline, flags
    <3>11. CASE UnlockDeadlines(h)
      BY <3>11 DEF UnlockDeadlines, device, flags, locals
    <3>12. CASE TestArmed(h)
      BY <3>12 DEF TestArmed, device, flags, locals
    <3>13. CASE LoadDeadline(h)
      BY <3>13 DEF LoadDeadline, device, flags, locals
    <3>14. CASE SetMtip(h)
      BY <3>14 DEF SetMtip, device, locals
    <3>15. CASE NotDue(h)
      BY <3>15 DEF NotDue, device, flags, locals
    <3>16. CASE DisarmTimer(h)
      BY <3>16 DEF DisarmTimer, device, locals
    <3>. QED
      BY <3>1, <3>2, <3>3, <3>4, <3>5, <3>6, <3>7, <3>8, <3>9, <3>10, <3>11,
         <3>12, <3>13, <3>14, <3>15, <3>16, ZenonT(120)
         DEF HartStep, ClintStore, CheckTimer
  <2>3. CASE UNCHANGED vars
    BY <2>3 DEF vars, device, flags, locals
  <2>. QED
    BY <2>1, <2>2, <2>3 DEF Next
<1>. QED
  BY <1>1, <1>2, PTL DEF Spec

-----------------------------------------------------------------------------
(* Under OwnTimersOnly and NoDeadlineWraps a timer is neither early nor    *)
(* lost.                                                                   *)

\* A deadline that fits is the instant at which mtime reaches the value.
LEMMA DeadlineExact ==
    ASSUME NoDeadlineWraps, NEW v \in TickValues \cup {0}
    PROVE  DeadlineFor(BootNs, v) = BootNs + v * NsPerTick
  <1>1. BootNs + v * NsPerTick \in Nat
    BY ClintAssumption, DueInNat
  <1>. QED
    BY <1>1, WrapSmall DEF DeadlineFor, NoDeadlineWraps

CmpPcs == {"cmp_lock", "cmp_deadline", "cmp_arm"}

\* What one hart's thread, flags and registers have to do with each other.
TimerInv(h) ==
    /\ pc[h] \notin {"mtime_epoch", "mtime_lock", "mtime_loop"}
    /\ pc[h] \in CmpPcs => target[h] = h /\ "MTIP" \notin irq_pending[h]
    /\ pc[h] \in {"cmp_deadline", "cmp_arm"}
            => word[h] = DueTime(h) /\ mtimecmp[h] = value[h]
    /\ (\/ clint_timer_armed[h]
        \/ "MTIP" \in irq_pending[h]
        \/ pc[h] \in {"timer_load", "timer_compare", "timer_disarm"})
            => requested[h]
    /\ (requested[h] \/ pc[h] = "cmp_arm") /\ pc[h] # "cmp_deadline"
            => deadline_ns[h] = DueTime(h)
    /\ pc[h] = "timer_compare" => word[h] = deadline_ns[h]
    /\ pc[h] = "timer_disarm" => "MTIP" \in irq_pending[h]
    /\ "MTIP" \in irq_pending[h] => now_ns >= DueTime(h)
    /\ requested[h] /\ pc[h] \notin CmpPcs
            => clint_timer_armed[h] \/ "MTIP" \in irq_pending[h]

IInv == TypeOK /\ epoch_ns = BootNs /\ \A h \in Harts : TimerInv(h)

\* The invariant holds initially and no step of any hart breaks it.
LEMMA TimerInductive ==
    ASSUME OwnTimersOnly, NoDeadlineWraps
    PROVE  Spec => []IInv
<1>1. Init => IInv
  <2> SUFFICES ASSUME Init PROVE IInv
    OBVIOUS
  <2>1. TypeOK
    BY ClintAssumption DEF Init, TypeOK, NeverDue, Words
  <2>2. ASSUME NEW h \in Harts PROVE TimerInv(h)
    BY DEF Init, TimerInv, CmpPcs
  <2>. QED
    BY <2>1, <2>2 DEF IInv, Init
<1>2. IInv /\ TypeOK' /\ [Next]_vars => IInv'
  <2> SUFFICES ASSUME IInv, TypeOK', [Next]_vars PROVE IInv'
    OBVIOUS
  <2>1. CASE Tick
    <3>1. epoch_ns' = BootNs
      BY <2>1 DEF Tick, device, IInv
    <3>2. ASSUME NEW g \in Harts PROVE TimerInv(g)'
      <4>0. TimerInv(g) /\ now_ns \in Nat /\ epoch_ns \in Words
              /\ mtimecmp[g] \in TickValues \cup {0}
        BY DEF IInv, TypeOK
      <4>1. TimerInv(g) /\ now_ns \in Nat /\ DueTime(g) \in Nat
        BY <4>0, DueInNat DEF DueTime
      <4>2. DueTime(g)' = DueTime(g)
        BY <2>1 DEF Tick, device, DueTime
      <4>. QED
        BY <2>1, <4>1, <4>2 DEF Tick, device, flags, locals, TimerInv
    <3>. QED
      BY <3>1, <3>2 DEF IInv
  <2>2. CASE UNCHANGED vars
    BY <2>2 DEF IInv, TimerInv, DueTime, vars, device, flags, locals
  <2>3. ASSUME NEW h \in Harts, HartStep(h) PROVE IInv'
    <3>1. epoch_ns' = BootNs
      BY <2>3 DEF HartStep, ClintStore, CheckTimer, OtherInsn, WriteMsip,
         ClearMtip, StoreMtimecmp, StoreDeadline, ArmTimer, SampleClock,
         StoreEpoch, LockForDeadlines, MoveDeadline, UnlockDeadlines,
         TestArmed, LoadDeadline, SetMtip, NotDue, DisarmTimer,
         device, IInv, TimerInv
    <3>2. ASSUME NEW g \in Harts PROVE TimerInv(g)'
      <4> USE <2>3 DEF Goto
      <4>1. TypeOK /\ TimerInv(g) /\ TimerInv(h) /\ epoch_ns = BootNs
        BY DEF IInv
      <4>2. CASE OtherInsn(h)
        BY <4>1, <4>2 DEF OtherInsn, TypeOK, TimerInv, CmpPcs, DueTime,
           device, flags, locals
      <4>3. ASSUME NEW t \in Harts, NEW on \in BOOLEAN, WriteMsip(h, t, on)
            PROVE  TimerInv(g)'
        <5>1. ("MTIP" \in irq_pending'[g]) <=> ("MTIP" \in irq_pending[g])
          BY <4>1, <4>3 DEF WriteMsip, TypeOK
        <5>. QED
          BY <4>1, <4>3, <5>1 DEF WriteMsip, TypeOK, TimerInv, CmpPcs, DueTime,
             device, locals
      <4>4. ASSUME NEW t \in Harts, NEW v \in TickValues,
                   <<h, t>> \in TimerTargets, ClearMtip(h, t, v)
            PROVE  TimerInv(g)'
        <5>1. t = h
          BY <4>4 DEF OwnTimersOnly
        <5>. QED
          BY <4>1, <4>4, <5>1 DEF ClearMtip, TypeOK, TimerInv, CmpPcs, DueTime,
             device
      <4>5. CASE StoreMtimecmp(h)
        <5>1. target[h] = h /\ value[h] \in TickValues \cup {0}
          BY <4>1, <4>5 DEF StoreMtimecmp, TimerInv, CmpPcs, TypeOK
        <5>2. DeadlineFor(epoch_ns, value[h]) = epoch_ns + value[h] * NsPerTick
          BY <4>1, <5>1, DeadlineExact
        <5>3. word' = [word EXCEPT ![h] = epoch_ns + value[h] * NsPerTick]
          BY <4>5, <5>2 DEF StoreMtimecmp
        <5>4. DueTime(h)' = epoch_ns + value[h] * NsPerTick
          BY <4>1, <4>5, <5>1 DEF StoreMtimecmp, DueTime, TypeOK
        <5>5. g # h => DueTime(g)' = DueTime(g)
          BY <4>1, <4>5, <5>1 DEF StoreMtimecmp, DueTime, TypeOK
        <5>. QED
          BY <4>1, <4>5, <5>1, <5>3, <5>4, <5>5
             DEF StoreMtimecmp, TypeOK, TimerInv, CmpPcs, flags
      <4>6. CASE StoreDeadline(h)
        BY <4>1, <4>6 DEF StoreDeadline, TypeOK, TimerInv, CmpPcs, DueTime,
           flags, locals
      <4>7. CASE ArmTimer(h)
        BY <4>1, <4>7 DEF ArmTimer, TypeOK, TimerInv, CmpPcs, DueTime,
           device, locals
      <4>8. CASE TestArmed(h)
        BY <4>1, <4>8 DEF TestArmed, TypeOK, TimerInv, CmpPcs, DueTime,
           device, flags, locals
      <4>9. CASE LoadDeadline(h)
        BY <4>1, <4>9 DEF LoadDeadline, TypeOK, TimerInv, CmpPcs, DueTime,
           device, flags
      <4>10. CASE SetMtip(h)
        BY <4>1, <4>10 DEF SetMtip, TypeOK, TimerInv, CmpPcs, DueTime,
           device, locals
      <4>11. CASE NotDue(h)
        BY <4>1, <4>11 DEF NotDue, TypeOK, TimerInv, CmpPcs, DueTime,
           device, flags, locals
      <4>12. CASE DisarmTimer(h)
        BY <4>1, <4>12 DEF DisarmTimer, TypeOK, TimerInv, CmpPcs, DueTime,
           device, locals
      <4>13. h \notin MtimeWriters
        BY DEF OwnTimersOnly
      <4>14. ~StoreEpoch(h) /\ ~LockForDeadlines(h) /\ ~MoveDeadline(h)
                /\ ~UnlockDeadlines(h)
        BY <4>1 DEF StoreEpoch, LockForDeadlines, MoveDeadline,
           UnlockDeadlines, TimerInv
      <4>. QED
        BY <4>2, <4>3, <4>4, <4>5, <4>6, <4>7, <4>8, <4>9, <4>10, <4>11,
           <4>12, <4>13, <4>14 DEF HartStep, ClintStore, CheckTimer
    <3>. QED
      BY <3>1, <3>2 DEF IInv
  <2>. QED
    BY <2>1, <2>2, <2>3 DEF Next
<1>. QED
  BY <1>1, <1>2, TypeCorrect, PTL DEF Spec

\* No hart sees its timer interrupt before mtime has reached mtimecmp.
THEOREM NeverEarly ==
    ASSUME OwnTimersOnly, NoDeadlineWraps
    PROVE  Spec => []TimerNeverEarly
<1>1. IInv => TimerNeverEarly
  BY DEF IInv, TimerInv, TimerNeverEarly
<1>. QED
  BY <1>1, TimerInductive, PTL

\* A timer that has been set stays polled until its interrupt is pending.
THEOREM NotLost ==
    ASSUME OwnTimersOnly, NoDeadlineWraps
    PROVE  Spec => []TimerNotLost
<1>1. IInv => TimerNotLost
  <2> SUFFICES ASSUME IInv, NEW h \in Harts, requested[h], ~BeingSet(h)
               PROVE  clint_timer_armed[h] \/ "MTIP" \in irq_pending[h]
    BY DEF TimerNotLost
  <2>1. TimerInv(h)
    BY DEF IInv
  <2>2. pc[h] \notin CmpPcs
    BY <2>1 DEF BeingSet, Setting, TimerInv, CmpPcs
  <2>. QED
    BY <2>1, <2>2 DEF TimerInv
<1>. QED
  BY <1>1, TimerInductive, PTL

-----------------------------------------------------------------------------
(* Under the same assumptions Clint implements Timers.                     *)

\* A timer is being set exactly while its owner is inside the function.
LEMMA OwnerSets ==
    ASSUME IInv, NEW h \in Harts
    PROVE  BeingSet(h) <=> pc[h] \in CmpPcs
  <1>1. \A w \in Harts : TimerInv(w)
    BY DEF IInv
  <1>. QED
    BY <1>1 DEF BeingSet, Setting, TimerInv, CmpPcs

\* The abstract state of a timer, by where its owner is.
LEMMA PhaseByPc ==
    ASSUME IInv, NEW h \in Harts
    PROVE  /\ pc[h] \in CmpPcs
                => PhaseOf(h) = "setting"
                   /\ AskedFor(h) = BootNs + value[h] * NsPerTick
           /\ pc[h] \notin CmpPcs /\ ~requested[h]
                => PhaseOf(h) = "off" /\ AskedFor(h) = -1
           /\ pc[h] \notin CmpPcs /\ requested[h]
                => /\ PhaseOf(h) = IF "MTIP" \in irq_pending[h]
                                   THEN "fired" ELSE "waiting"
                   /\ AskedFor(h) = BootNs + mtimecmp[h] * NsPerTick
  BY OwnerSets DEF PhaseOf, AskedFor, DueTime, IInv

\* A hart's step leaves the timers of the others alone.
LEMMA OthersKept ==
    ASSUME OwnTimersOnly, IInv, IInv', NEW h \in Harts, HartStep(h),
           NEW g \in Harts, g # h
    PROVE  PhaseOf(g)' = PhaseOf(g) /\ AskedFor(g)' = AskedFor(g)
<1>1. TypeOK /\ TimerInv(g) /\ TimerInv(h) /\ TimerInv(g)'
  BY DEF IInv
<1>. DEFINE Kept == /\ pc'[g] = pc[g] /\ requested'[g] = requested[g]
                    /\ value'[g] = value[g] /\ mtimecmp'[g] = mtimecmp[g]
                    /\ "MTIP" \in irq_pending'[g] <=> "MTIP" \in irq_pending[g]
<1>2. Kept
  <2> USE <1>1 DEF Goto
  <2>0. TypeOK
    BY <1>1
  <2>1. CASE OtherInsn(h) \/ TestArmed(h) \/ NotDue(h) \/ LoadDeadline(h)
    BY <2>0, <2>1 DEF TypeOK, OtherInsn, TestArmed, NotDue, LoadDeadline,
       device, flags, locals
  <2>2. ASSUME NEW t \in Harts, NEW on \in BOOLEAN, WriteMsip(h, t, on)
        PROVE  Kept
    BY <2>0, <2>2 DEF TypeOK, WriteMsip, device, locals
  <2>3. ASSUME NEW t \in Harts, NEW v \in TickValues,
               <<h, t>> \in TimerTargets, ClearMtip(h, t, v)
        PROVE  Kept
    <3>1. t = h
      BY <2>3 DEF OwnTimersOnly
    <3>. QED
      BY <2>0, <2>3, <3>1 DEF TypeOK, ClearMtip, device
  <2>4. CASE StoreMtimecmp(h)
    <3>1. target[h] = h
      BY <2>4 DEF StoreMtimecmp, TimerInv, CmpPcs
    <3>. QED
      BY <2>0, <2>4, <3>1 DEF TypeOK, StoreMtimecmp, flags
  <2>5. CASE StoreDeadline(h)
    BY <2>0, <2>5 DEF TypeOK, StoreDeadline, flags, locals
  <2>6. CASE ArmTimer(h)
    <3>1. target[h] = h
      BY <2>6 DEF ArmTimer, TimerInv, CmpPcs
    <3>. QED
      BY <2>0, <2>6, <3>1 DEF TypeOK, ArmTimer, device, locals
  <2>7. CASE SetMtip(h) \/ DisarmTimer(h)
    BY <2>0, <2>7 DEF TypeOK, SetMtip, DisarmTimer, device, locals
  <2>8. h \notin MtimeWriters
    BY DEF OwnTimersOnly
  <2>9. ~StoreEpoch(h) /\ ~LockForDeadlines(h) /\ ~MoveDeadline(h)
          /\ ~UnlockDeadlines(h)
    BY DEF StoreEpoch, LockForDeadlines, MoveDeadline, UnlockDeadlines, TimerInv
  <2>. HIDE DEF Kept
  <2>. QED
    BY <2>1, <2>2, <2>3, <2>4, <2>5, <2>6, <2>7, <2>8, <2>9
       DEF HartStep, ClintStore, CheckTimer
<1>3. pc'[g] \in CmpPcs \/ (pc'[g] \notin CmpPcs /\ requested'[g])
        \/ (pc'[g] \notin CmpPcs /\ ~requested'[g])
  OBVIOUS
<1>4. /\ pc'[g] \in CmpPcs
           => PhaseOf(g)' = "setting"
              /\ AskedFor(g)' = BootNs + value'[g] * NsPerTick
      /\ pc'[g] \notin CmpPcs /\ ~requested'[g]
           => PhaseOf(g)' = "off" /\ AskedFor(g)' = -1
      /\ pc'[g] \notin CmpPcs /\ requested'[g]
           => /\ PhaseOf(g)' = IF "MTIP" \in irq_pending'[g]
                               THEN "fired" ELSE "waiting"
              /\ AskedFor(g)' = BootNs + mtimecmp'[g] * NsPerTick
  <2>0. \A w \in Harts : TimerInv(w)'
    BY DEF IInv
  <2>1. BeingSet(g)' <=> pc'[g] \in CmpPcs
    BY <2>0 DEF BeingSet, Setting, TimerInv, CmpPcs
  <2>. QED
    BY <2>1 DEF PhaseOf, AskedFor, DueTime, IInv
<1>. QED
  BY <1>2, <1>3, <1>4, PhaseByPc

\* What a step of its owner does to a timer.
LEMMA OwnerStep ==
    ASSUME OwnTimersOnly, NoDeadlineWraps, IInv, IInv', NEW h \in Harts, HartStep(h)
    PROVE  \/ PhaseOf(h)' = PhaseOf(h) /\ AskedFor(h)' = AskedFor(h)
           \/ /\ PhaseOf(h) # "setting" /\ PhaseOf(h)' = "setting"
              /\ AskedFor(h)' \in {BootNs + v * NsPerTick : v \in TickValues}
           \/ /\ PhaseOf(h) = "setting" /\ PhaseOf(h)' = "waiting"
              /\ AskedFor(h)' = AskedFor(h)
           \/ /\ PhaseOf(h) = "waiting" /\ PhaseOf(h)' = "fired"
              /\ AskedFor(h)' = AskedFor(h) /\ now_ns >= AskedFor(h)
<1>1. TypeOK /\ TimerInv(h) /\ TimerInv(h)' /\ epoch_ns = BootNs
  BY DEF IInv
<1>2. /\ pc'[h] \in CmpPcs
           => PhaseOf(h)' = "setting"
              /\ AskedFor(h)' = BootNs + value'[h] * NsPerTick
      /\ pc'[h] \notin CmpPcs /\ ~requested'[h]
           => PhaseOf(h)' = "off" /\ AskedFor(h)' = -1
      /\ pc'[h] \notin CmpPcs /\ requested'[h]
           => /\ PhaseOf(h)' = IF "MTIP" \in irq_pending'[h]
                               THEN "fired" ELSE "waiting"
              /\ AskedFor(h)' = BootNs + mtimecmp'[h] * NsPerTick
  <2>0. \A w \in Harts : TimerInv(w)'
    BY DEF IInv
  <2>1. BeingSet(h)' <=> pc'[h] \in CmpPcs
    BY <2>0 DEF BeingSet, Setting, TimerInv, CmpPcs
  <2>. QED
    BY <2>1 DEF PhaseOf, AskedFor, DueTime, IInv
<1> USE DEF Goto, CmpPcs
<1>3. CASE OtherInsn(h) \/ TestArmed(h) \/ NotDue(h) \/ LoadDeadline(h)
           \/ DisarmTimer(h)
  <2>1. /\ pc[h] \notin CmpPcs /\ pc'[h] \notin CmpPcs
        /\ UNCHANGED <<requested, mtimecmp, irq_pending>>
    BY <1>1, <1>3 DEF OtherInsn, TestArmed, NotDue, LoadDeadline, DisarmTimer,
       TypeOK, device, flags, locals
  <2>. QED
    BY <2>1, <1>2, PhaseByPc
<1>4. ASSUME NEW t \in Harts, NEW on \in BOOLEAN, WriteMsip(h, t, on)
      PROVE  PhaseOf(h)' = PhaseOf(h) /\ AskedFor(h)' = AskedFor(h)
  <2>1. /\ pc[h] \notin CmpPcs /\ pc'[h] \notin CmpPcs
        /\ UNCHANGED <<requested, mtimecmp>>
        /\ "MTIP" \in irq_pending'[h] <=> "MTIP" \in irq_pending[h]
    BY <1>1, <1>4 DEF WriteMsip, TypeOK, device, locals
  <2>. QED
    BY <2>1, <1>2, PhaseByPc
<1>5. ASSUME NEW t \in Harts, NEW v \in TickValues,
             <<h, t>> \in TimerTargets, ClearMtip(h, t, v)
      PROVE  /\ PhaseOf(h) # "setting" /\ PhaseOf(h)' = "setting"
             /\ AskedFor(h)' \in {BootNs + u * NsPerTick : u \in TickValues}
  <2>1. pc[h] \notin CmpPcs /\ pc'[h] \in CmpPcs /\ value'[h] = v
    BY <1>1, <1>5 DEF ClearMtip, TypeOK
  <2>2. PhaseOf(h) # "setting"
    BY <2>1, PhaseByPc
  <2>. QED
    BY <2>1, <2>2, <1>2
<1>6. CASE StoreMtimecmp(h) \/ StoreDeadline(h)
  <2>1. pc[h] \in CmpPcs /\ pc'[h] \in CmpPcs /\ value' = value
    BY <1>1, <1>6 DEF StoreMtimecmp, StoreDeadline, TypeOK, locals
  <2>. QED
    BY <2>1, <1>2, PhaseByPc
<1>7. CASE ArmTimer(h)
  <2>1. /\ pc[h] \in CmpPcs /\ pc'[h] \notin CmpPcs /\ requested'[h]
        /\ mtimecmp'[h] = value[h] /\ "MTIP" \notin irq_pending'[h]
    BY <1>1, <1>7 DEF ArmTimer, TypeOK, TimerInv, device, locals
  <2>. QED
    BY <2>1, <1>2, PhaseByPc
<1>8. CASE SetMtip(h)
  <2>1. /\ pc[h] \notin CmpPcs /\ pc'[h] \notin CmpPcs
        /\ requested[h] /\ requested'[h] /\ mtimecmp' = mtimecmp
        /\ "MTIP" \in irq_pending'[h]
        /\ now_ns >= BootNs + mtimecmp[h] * NsPerTick
    BY <1>1, <1>8 DEF SetMtip, TypeOK, TimerInv, DueTime, device, locals
  <2>. QED
    BY <2>1, <1>2, PhaseByPc
<1>9. h \notin MtimeWriters
  BY DEF OwnTimersOnly
<1>10. ~StoreEpoch(h) /\ ~LockForDeadlines(h) /\ ~MoveDeadline(h)
         /\ ~UnlockDeadlines(h)
  BY <1>1 DEF StoreEpoch, LockForDeadlines, MoveDeadline, UnlockDeadlines, TimerInv
<1>. QED
  BY <1>3, <1>4, <1>5, <1>6, <1>7, <1>8, <1>9, <1>10
     DEF HartStep, ClintStore, CheckTimer

\* When every hart programs its own timer and no deadline wraps, the CLINT and
\* the run loops are timers: asked once, fired once, never before their time.
THEOREM ClintIsTimers ==
    ASSUME OwnTimersOnly, NoDeadlineWraps
    PROVE  Spec => TimersInStep
<1>1. Init => Guest!TimersInit
  <2> SUFFICES ASSUME Init PROVE Guest!TimersInit
    OBVIOUS
  <2>1. ASSUME NEW h \in Harts PROVE ~BeingSet(h)
    BY DEF Init, BeingSet, Setting
  <2>2. now_ns \in Int
    BY ClintAssumption DEF Init, Words
  <2>3. [h \in Harts |-> PhaseOf(h)] = [h \in Harts |-> "off"]
    BY <2>1 DEF Init, PhaseOf
  <2>4. [h \in Harts |-> AskedFor(h)] = [h \in Harts |-> -1]
    BY <2>1 DEF Init, AskedFor
  <2>. QED
    BY <2>2, <2>3, <2>4 DEF Guest!TimersInit, Guest!Never
<1>2. IInv /\ IInv' /\ [Next]_vars => [Guest!TimersNext]_(Guest!timerVars)
  <2> SUFFICES ASSUME IInv, IInv', [Next]_vars
               PROVE  [Guest!TimersNext]_(Guest!timerVars)
    OBVIOUS
  <2>1. CASE Tick
    <3>1. now_ns' > now_ns
      BY <2>1 DEF Tick, IInv, TypeOK
    <3>2. ASSUME NEW h \in Harts
          PROVE  PhaseOf(h)' = PhaseOf(h) /\ AskedFor(h)' = AskedFor(h)
      BY <2>1 DEF Tick, device, flags, locals, PhaseOf, AskedFor, BeingSet,
         Setting, DueTime
    <3>. QED
      BY <3>1, <3>2 DEF Guest!TimersNext, Guest!Advance
  <2>2. CASE UNCHANGED vars
    <3>1. ASSUME NEW h \in Harts
          PROVE  PhaseOf(h)' = PhaseOf(h) /\ AskedFor(h)' = AskedFor(h)
      BY <2>2 DEF vars, device, flags, locals, PhaseOf, AskedFor, BeingSet,
         Setting, DueTime
    <3>. QED
      BY <2>2, <3>1 DEF Guest!timerVars, vars
  <2>3. ASSUME NEW h \in Harts, HartStep(h)
        PROVE  [Guest!TimersNext]_(Guest!timerVars)
    <3>. DEFINE phases == [g \in Harts |-> PhaseOf(g)]
                dues == [g \in Harts |-> AskedFor(g)]
    <3>1. now_ns' = now_ns
      BY <2>3 DEF HartStep, ClintStore, CheckTimer, OtherInsn, WriteMsip,
         ClearMtip, StoreMtimecmp, StoreDeadline, ArmTimer, SampleClock,
         StoreEpoch, LockForDeadlines, MoveDeadline, UnlockDeadlines,
         TestArmed, LoadDeadline, SetMtip, NotDue, DisarmTimer
    <3>2. \A g \in Harts \ {h} :
              PhaseOf(g)' = PhaseOf(g) /\ AskedFor(g)' = AskedFor(g)
      BY <2>3, OthersKept
    <3>3. /\ phases' = [phases EXCEPT ![h] = PhaseOf(h)']
          /\ dues' = [dues EXCEPT ![h] = AskedFor(h)']
          /\ phases[h] = PhaseOf(h) /\ dues[h] = AskedFor(h)
      BY <3>2
    <3>4. CASE PhaseOf(h)' = PhaseOf(h) /\ AskedFor(h)' = AskedFor(h)
      <4>1. phases' = phases /\ dues' = dues
        BY <3>3, <3>4
      <4>. QED
        BY <3>1, <4>1 DEF Guest!timerVars
    <3>5. CASE /\ PhaseOf(h) # "setting" /\ PhaseOf(h)' = "setting"
               /\ AskedFor(h)' \in {BootNs + v * NsPerTick : v \in TickValues}
      BY <3>1, <3>3, <3>5 DEF Guest!TimersNext, Guest!Ask
    <3>6. CASE /\ PhaseOf(h) = "setting" /\ PhaseOf(h)' = "waiting"
               /\ AskedFor(h)' = AskedFor(h)
      <4>1. dues' = dues
        BY <3>3, <3>6
      <4>. QED
        BY <3>1, <3>3, <3>6, <4>1 DEF Guest!TimersNext, Guest!Settle
    <3>7. CASE /\ PhaseOf(h) = "waiting" /\ PhaseOf(h)' = "fired"
               /\ AskedFor(h)' = AskedFor(h) /\ now_ns >= AskedFor(h)
      <4>1. dues' = dues
        BY <3>3, <3>7
      <4>. QED
        BY <3>1, <3>3, <3>7, <4>1 DEF Guest!TimersNext, Guest!Fire
    <3>. QED
      BY <2>3, <3>4, <3>5, <3>6, <3>7, OwnerStep
  <2>. QED
    BY <2>1, <2>2, <2>3 DEF Next
<1>. QED
  BY <1>1, <1>2, TimerInductive, PTL
     DEF Spec, TimersInStep, Guest!TimersSafety
-----------------------------------------------------------------------------
(* With stores that do not race, deadlines agree with the registers, and a  *)
(* value stored to mtime is read back.                                     *)

\* Hart w is about to replace the deadline of timer t.
Moving(w, t) ==
    \/ pc[w] = "cmp_deadline" /\ target[w] = t
    \/ pc[w] = "mtime_lock"
    \/ pc[w] = "mtime_loop" /\ index[w] <= t

Agrees(t) ==
    \/ deadline_ns[t] = DeadlineFor(epoch_ns, mtimecmp[t])
    \/ ~requested[t] /\ deadline_ns[t] = NeverDue

\* The values that a thread carries between its accesses.
Carried(w) ==
    /\ pc[w] \in CmpPcs => <<w, target[w]>> \in TimerTargets
    /\ pc[w] \in {"mtime_epoch", "mtime_lock", "mtime_loop"} => w \in MtimeWriters
    /\ pc[w] = "cmp_deadline" => word[w] = DeadlineFor(epoch_ns, mtimecmp[target[w]])
    /\ pc[w] = "cmp_arm" =>
         deadline_ns[target[w]] = DeadlineFor(epoch_ns, mtimecmp[target[w]])
    /\ pc[w] \in {"mtime_lock", "mtime_loop"} => word[w] = epoch_ns

AgreeInv ==
    /\ TypeOK
    /\ \A w \in Harts : Carried(w)
    /\ \A t \in Harts : Agrees(t) \/ \E w \in Harts : Moving(w, t)

\* Two threads that store to one timer are one thread.
LEMMA OneWriter ==
    ASSUME WritesDoNotRace, NEW v, NEW w, NEW t,
           <<v, t>> \in TimerTargets, <<w, t>> \in TimerTargets
    PROVE  v = w
<1>1. <<v, t>>[2] = <<w, t>>[2] => <<v, t>>[1] = <<w, t>>[1]
  BY DEF WritesDoNotRace
<1>. QED
  BY <1>1

\* A thread that stores to mtime is the only one that stores.
LEMMA LoneWriter ==
    ASSUME WritesDoNotRace, NEW v \in MtimeWriters, NEW w, NEW t,
           <<w, t>> \in TimerTargets \/ w \in MtimeWriters
    PROVE  w = v
<1>1. CASE <<w, t>> \in TimerTargets
  <2>1. <<w, t>>[1] = v
    BY <1>1 DEF WritesDoNotRace
  <2>. QED
    BY <2>1
<1>2. CASE w \in MtimeWriters
  BY <1>2 DEF WritesDoNotRace
<1>. QED
  BY <1>1, <1>2

\* What a thread carries is not made stale by another thread.
LEMMA CarriedStep ==
    ASSUME WritesDoNotRace, TypeOK, \A w \in Harts : Carried(w),
           NEW h \in Harts, HartStep(h), NEW w \in Harts
    PROVE  Carried(w)'
<1> USE DEF Goto, TypeOK, Carried, CmpPcs
<1>1. CASE OtherInsn(h)
  BY <1>1 DEF OtherInsn, device, flags, locals
<1>2. ASSUME NEW t \in Harts, NEW on \in BOOLEAN, WriteMsip(h, t, on) PROVE Carried(w)'
  BY <1>2 DEF WriteMsip, device, locals
<1>3. ASSUME NEW t \in Harts, NEW v \in TickValues, <<h, t>> \in TimerTargets,
             ClearMtip(h, t, v)
      PROVE  Carried(w)'
  BY <1>3 DEF ClearMtip, device
<1>4. CASE StoreMtimecmp(h)
  <2>1. w # h /\ pc[w] \in CmpPcs => target[w] # target[h]
    BY <1>4, OneWriter DEF StoreMtimecmp
  <2>2. w # h /\ pc[w] \in CmpPcs => mtimecmp'[target[w]] = mtimecmp[target[w]]
    BY <1>4, <2>1 DEF StoreMtimecmp
  <2>3. w # h => Carried(w)'
    BY <1>4, <2>2 DEF StoreMtimecmp, flags
  <2>4. Carried(h)'
    <3>1. /\ pc'[h] = "cmp_deadline" /\ target' = target /\ epoch_ns' = epoch_ns
          /\ word'[h] = DeadlineFor(epoch_ns, value[h])
          /\ mtimecmp'[target[h]] = value[h] /\ pc[h] = "cmp_lock"
      BY <1>4 DEF StoreMtimecmp
    <3>. QED
      BY <3>1
  <2>. QED
    BY <2>3, <2>4
<1>5. CASE StoreDeadline(h)
  <2>1. w # h /\ pc[w] \in CmpPcs => target[w] # target[h]
    BY <1>5, OneWriter DEF StoreDeadline
  <2>2. w # h /\ pc[w] \in CmpPcs => deadline_ns'[target[w]] = deadline_ns[target[w]]
    BY <1>5, <2>1 DEF StoreDeadline
  <2>. QED
    BY <1>5, <2>2 DEF StoreDeadline, flags, locals
<1>6. CASE ArmTimer(h)
  BY <1>6 DEF ArmTimer, device, locals
<1>7. ASSUME NEW v \in TickValues, h \in MtimeWriters, SampleClock(h, v) PROVE Carried(w)'
  BY <1>7 DEF SampleClock, device, flags
<1>8. CASE StoreEpoch(h)
  <2>1. w # h => pc[w] \notin CmpPcs \cup {"mtime_epoch", "mtime_lock", "mtime_loop"}
    BY <1>8, LoneWriter DEF StoreEpoch
  <2>. QED
    BY <1>8, <2>1 DEF StoreEpoch, flags, locals
<1>9. CASE LockForDeadlines(h)
  BY <1>9 DEF LockForDeadlines, device, flags
<1>10. CASE MoveDeadline(h)
  <2>1. w # h => pc[w] \notin CmpPcs \cup {"mtime_epoch", "mtime_lock", "mtime_loop"}
    BY <1>10, LoneWriter DEF MoveDeadline
  <2>. QED
    BY <1>10, <2>1 DEF MoveDeadline, flags
<1>11. CASE UnlockDeadlines(h)
  BY <1>11 DEF UnlockDeadlines, device, flags, locals
<1>12. CASE TestArmed(h)
  BY <1>12 DEF TestArmed, device, flags, locals
<1>13. CASE LoadDeadline(h)
  BY <1>13 DEF LoadDeadline, device, flags
<1>14. CASE SetMtip(h) \/ NotDue(h) \/ DisarmTimer(h)
  BY <1>14 DEF SetMtip, NotDue, DisarmTimer, device, flags, locals
<1>. QED
  BY <1>1, <1>2, <1>3, <1>4, <1>5, <1>6, <1>7, <1>8, <1>9, <1>10, <1>11, <1>12, <1>13,
     <1>14, ZenonT(60) DEF HartStep, ClintStore, CheckTimer

\* A step either leaves a timer's deadline right, or announces that it will move it.
LEMMA AgreesStep ==
    ASSUME TypeOK, \A w \in Harts : Carried(w), NEW h \in Harts, HartStep(h),
           NEW t \in Harts, Agrees(t) \/ \E w \in Harts : Moving(w, t)
    PROVE  Agrees(t)' \/ \E w \in Harts : Moving(w, t)'
<1> USE DEF Goto, TypeOK, Moving
\* Every other thread is where it was.
<1>0. \A w \in Harts : w # h /\ Moving(w, t) => Moving(w, t)'
  BY ZenonT(60)
     DEF HartStep, ClintStore, CheckTimer, OtherInsn, WriteMsip, ClearMtip, StoreMtimecmp,
         StoreDeadline, ArmTimer, SampleClock, StoreEpoch, LockForDeadlines, MoveDeadline,
         UnlockDeadlines, TestArmed, LoadDeadline, SetMtip, NotDue, DisarmTimer, locals
<1>1. CASE pc[h] \in {"insn", "timer_test", "timer_load", "timer_compare", "timer_disarm"}
  <2>1. UNCHANGED <<device, requested>>
    BY <1>1 DEF HartStep, ClintStore, CheckTimer, OtherInsn, WriteMsip, ClearMtip,
                StoreMtimecmp, StoreDeadline, ArmTimer, SampleClock, StoreEpoch,
                LockForDeadlines, MoveDeadline, UnlockDeadlines, TestArmed, LoadDeadline,
                SetMtip, NotDue, DisarmTimer
  <2>. QED
    BY <1>0, <1>1, <2>1 DEF Agrees, device
<1>2. CASE StoreMtimecmp(h)
  <2>1. target[h] = t => Moving(h, t)'
    BY <1>2 DEF StoreMtimecmp
  <2>2. target[h] # t => (Agrees(t) => Agrees(t)')
    BY <1>2 DEF StoreMtimecmp, Agrees
  <2>. QED
    BY <1>0, <1>2, <2>1, <2>2 DEF StoreMtimecmp
<1>3. CASE StoreDeadline(h)
  <2>1. target[h] = t => Agrees(t)'
    BY <1>3 DEF StoreDeadline, Agrees, Carried
  <2>2. target[h] # t => (Agrees(t) => Agrees(t)') /\ ~Moving(h, t)
    BY <1>3 DEF StoreDeadline, Agrees
  <2>. QED
    BY <1>0, <2>1, <2>2
<1>4. CASE ArmTimer(h)
  <2>1. target[h] = t => Agrees(t)'
    BY <1>4 DEF ArmTimer, Agrees, Carried, device
  <2>2. target[h] # t => (Agrees(t) => Agrees(t)') /\ ~Moving(h, t)
    BY <1>4 DEF ArmTimer, Agrees, device
  <2>. QED
    BY <1>0, <2>1, <2>2
<1>5. CASE StoreEpoch(h)
  BY <1>5 DEF StoreEpoch
<1>6. CASE LockForDeadlines(h)
  <2>1. Moving(h, t)'
    BY <1>6 DEF LockForDeadlines, Harts
  <2>. QED
    BY <2>1
<1>7. CASE MoveDeadline(h)
  <2> DEFINE i == index[h]
  <2>1. i \in Nat /\ t \in Nat
    BY SMTT(30) DEF Harts
  <2>2. t = i => Agrees(t)'
    BY <1>7 DEF MoveDeadline, Agrees, Carried
  <2>3. t # i => (Agrees(t) => Agrees(t)')
    BY <1>7 DEF MoveDeadline, Agrees
  <2>4. t # i /\ i <= t => Moving(h, t)'
    <3>1. pc'[h] = "mtime_loop" /\ index'[h] = i + 1
      BY <1>7 DEF MoveDeadline
    <3>. HIDE DEF i
    <3>2. t # i /\ i <= t => i + 1 <= t
      BY <2>1
    <3>. QED
      BY <3>1, <3>2
  <2>5. Moving(h, t) => i <= t
    BY <1>7 DEF MoveDeadline
  <2>. QED
    BY <1>0, <2>2, <2>3, <2>4, <2>5
<1>8. CASE UnlockDeadlines(h)
  <2>1. ~Moving(h, t)
    BY <1>8, ClintAssumption DEF UnlockDeadlines, Harts
  <2>. QED
    BY <1>0, <1>8, <2>1 DEF UnlockDeadlines, Agrees, device
<1>. QED
  BY <1>1, <1>2, <1>3, <1>4, <1>5, <1>6, <1>7, <1>8
     DEF HartStep, ClintStore, CheckTimer, OtherInsn, WriteMsip, ClearMtip, SampleClock,
         TestArmed, LoadDeadline, SetMtip, NotDue, DisarmTimer

\* Whenever nobody is storing, the deadlines that the run loops poll are those that the
\* registers stand for: rv_clint_set_mtimecmp and the loop of clint_write leave none
\* behind, as long as the guest's stores do not race.
THEOREM DeadlinesAgreeWithRegisters ==
    ASSUME WritesDoNotRace
    PROVE  Spec => []DeadlinesAgree
<1>1. Init => AgreeInv
  <2> SUFFICES ASSUME Init PROVE AgreeInv
    OBVIOUS
  <2>1. TypeOK
    BY ClintAssumption DEF Init, TypeOK, NeverDue, Words
  <2>. QED
    BY <2>1 DEF Init, AgreeInv, Carried, Agrees, CmpPcs
<1>2. AgreeInv /\ TypeOK' /\ [Next]_vars => AgreeInv'
  <2> SUFFICES ASSUME AgreeInv, TypeOK', [Next]_vars PROVE AgreeInv'
    OBVIOUS
  <2>1. CASE Tick \/ UNCHANGED vars
    <3>1. UNCHANGED <<device, flags, pc, locals, requested>>
      BY <2>1 DEF Tick, vars
    <3>. QED
      BY <3>1 DEF AgreeInv, Carried, Agrees, Moving, device, locals
  <2>2. CASE \E h \in Harts : HartStep(h)
    BY <2>2, CarriedStep, AgreesStep DEF AgreeInv
  <2>. QED
    BY <2>1, <2>2 DEF Next
<1>3. AgreeInv => DeadlinesAgree
  BY DEF AgreeInv, Agrees, Moving, DeadlinesAgree
<1>. QED
  BY <1>1, <1>2, <1>3, TypeCorrect, PTL DEF Spec

-----------------------------------------------------------------------------
(* Arithmetic modulo a power of two, or whatever Modulus is.               *)

\* Only one remainder is smaller than the modulus.
LEMMA RemainderIsUnique ==
    ASSUME NEW m \in Nat \ {0}, NEW c \in 0..(m - 1), NEW q \in Int
    PROVE  (c + m * q) % m = c
  OBVIOUS

\* A number is its quotient and its remainder.
LEMMA DivisionGives ==
    ASSUME NEW b \in Int, NEW m \in Nat \ {0}
    PROVE  b \div m \in Int /\ b = m * (b \div m) + (b % m)
  OBVIOUS

\* A difference is not changed by wrapping what is subtracted.
LEMMA WrapDifference ==
    ASSUME NEW a \in Int, NEW b \in Int, 0 <= a - b, a - b < Modulus
    PROVE  Wrap(a - Wrap(b)) = a - b
<1>. DEFINE q == b \div Modulus
<1>1. Modulus \in Nat \ {0} /\ q \in Int /\ b = Modulus * q + (b % Modulus)
  BY DivisionGives, ClintAssumption
<1>2. b % Modulus \in Int
  BY <1>1
<1>3. a - (b % Modulus) = (a - b) + Modulus * q
  <2>. DEFINE x == Modulus * q
             r == b % Modulus
  <2>1. x \in Int /\ r \in Int /\ b = x + r
    BY <1>1, <1>2
  <2>. HIDE DEF x, r
  <2>2. a - r = (a - b) + x
    BY <2>1
  <2>. QED
    BY <2>2 DEF x, r
<1>4. ((a - b) + Modulus * q) % Modulus = a - b
  <2>. DEFINE c == a - b
  <2>1. c \in 0..(Modulus - 1)
    BY <1>1
  <2>. HIDE DEF c
  <2>2. (c + Modulus * q) % Modulus = c
    BY <1>1, <2>1, RemainderIsUnique
  <2>. QED
    BY <2>2 DEF c
<1>. QED
  BY <1>3, <1>4 DEF Wrap

\* epoch makes mtime v at the instant i, which has been.
EpochOf(epoch, v, i) ==
    /\ epoch = Wrap(i - v * NsPerTick)
    /\ BootNs <= i /\ i <= now_ns
    /\ v \in TickValues \cup {0}

\* A store to mtime carries the epoch of its value and of the clock it has read.
Sampled(w) == pc[w] = "mtime_epoch" => EpochOf(word[w], value[w], n[w])

ClockInv ==
    /\ TypeOK
    /\ BootNs <= now_ns /\ (now_ns <= MaxNow \/ now_ns = BootNs)
    /\ EpochOf(epoch_ns, set.mtime, set.instant)
    /\ \A w \in Harts : Sampled(w)

\* A step leaves the other threads where they are, with what they carry, and the epoch
\* alone unless it stores it.
LEMMA OthersCarry ==
    ASSUME TypeOK, NEW h \in Harts, HartStep(h)
    PROVE  /\ now_ns' = now_ns
           /\ StoreEpoch(h) \/ UNCHANGED <<epoch_ns, set>>
           /\ \A w \in Harts : w # h => /\ pc'[w] = pc[w] /\ word'[w] = word[w]
                                       /\ value'[w] = value[w] /\ n'[w] = n[w]
<1> USE DEF TypeOK, Goto, locals, device
<1>1. CASE ClintStore(h)
  BY <1>1, ZenonT(60) DEF ClintStore, WriteMsip, ClearMtip, StoreMtimecmp, StoreDeadline,
     ArmTimer, SampleClock, StoreEpoch, LockForDeadlines, MoveDeadline, UnlockDeadlines
<1>2. CASE OtherInsn(h) \/ CheckTimer(h)
  BY <1>2 DEF OtherInsn, CheckTimer, TestArmed, LoadDeadline, SetMtip, NotDue, DisarmTimer
<1>. QED
  BY <1>1, <1>2 DEF HartStep

LEMMA ClockInductive == Spec => []ClockInv
<1>0. BootNs \in Nat /\ MaxNow \in Nat /\ NsPerTick \in Nat /\ TickValues \subseteq Nat
  BY ClintAssumption DEF Words
<1>1. Init => ClockInv
  <2> SUFFICES ASSUME Init PROVE ClockInv
    OBVIOUS
  <2>1. TypeOK
    BY ClintAssumption DEF Init, TypeOK, NeverDue, Words
  <2>2. BootNs - 0 * NsPerTick = BootNs /\ BootNs = Wrap(BootNs)
    BY <1>0, WrapSmall, ClintAssumption DEF Words
  <2>. QED
    BY <1>0, <2>1, <2>2 DEF Init, ClockInv, Sampled, EpochOf
<1>2. ClockInv /\ TypeOK' /\ [Next]_vars => ClockInv'
  <2> SUFFICES ASSUME ClockInv, TypeOK', [Next]_vars PROVE ClockInv'
    OBVIOUS
  <2>0. now_ns \in Nat /\ n \in [Harts -> Nat] /\ set.instant \in Nat
    BY DEF ClockInv, TypeOK
  <2>1. CASE Tick
    <3>1. /\ now_ns' = now_ns + 1 /\ now_ns < MaxNow
          /\ UNCHANGED <<epoch_ns, set, pc, word, value, n>>
      BY <2>1 DEF Tick, locals, device
    <3>. QED
      BY <1>0, <2>0, <3>1 DEF ClockInv, Sampled, EpochOf
  <2>2. CASE UNCHANGED vars
    BY <2>2 DEF ClockInv, Sampled, EpochOf, vars, locals, device
  <2>3. ASSUME NEW h \in Harts, HartStep(h) PROVE ClockInv'
    <3>1. now_ns' = now_ns
      BY <2>3, OthersCarry DEF ClockInv
    <3>2. EpochOf(epoch_ns, set.mtime, set.instant)'
      <4>1. CASE StoreEpoch(h)
        <5>1. /\ pc[h] = "mtime_epoch" /\ epoch_ns' = word[h]
              /\ set'.mtime = value[h] /\ set'.instant = n[h]
          BY <4>1 DEF StoreEpoch
        <5>. QED
          BY <3>1, <5>1 DEF ClockInv, Sampled, EpochOf
      <4>2. CASE UNCHANGED <<epoch_ns, set>>
        BY <3>1, <4>2 DEF ClockInv, EpochOf
      <4>. QED
        BY <2>3, <4>1, <4>2, OthersCarry DEF ClockInv
    <3>3. ASSUME NEW w \in Harts PROVE Sampled(w)'
      <4>1. ASSUME NEW v \in TickValues, SampleClock(h, v), w = h PROVE Sampled(w)'
        <5>1. /\ word'[w] = Wrap(now_ns - v * NsPerTick) /\ value'[w] = v
              /\ n'[w] = now_ns
          BY <4>1 DEF SampleClock, ClockInv, TypeOK
        <5>. QED
          BY <1>0, <2>0, <3>1, <5>1 DEF Sampled, EpochOf, ClockInv
      <4>2. CASE w = h /\ ~\E v \in TickValues : SampleClock(h, v)
        <5>1. pc'[h] # "mtime_epoch"
          BY <2>3, <4>2, ZenonT(60) DEF Goto, ClockInv, TypeOK, HartStep, ClintStore, CheckTimer,
             OtherInsn, WriteMsip, ClearMtip, StoreMtimecmp, StoreDeadline, ArmTimer,
             StoreEpoch, LockForDeadlines, MoveDeadline, UnlockDeadlines, TestArmed,
             LoadDeadline, SetMtip, NotDue, DisarmTimer
        <5>. QED
          BY <4>2, <5>1 DEF Sampled
      <4>3. CASE w # h
        <5>1. /\ pc'[w] = pc[w] /\ word'[w] = word[w]
              /\ value'[w] = value[w] /\ n'[w] = n[w]
          BY <2>3, <4>3, OthersCarry DEF ClockInv
        <5>. QED
          BY <3>1, <5>1 DEF Sampled, EpochOf, ClockInv
      <4>. QED
        BY <4>1, <4>2, <4>3
    <3>. QED
      BY <3>1, <3>2, <3>3 DEF ClockInv
  <2>. QED
    BY <2>1, <2>2, <2>3 DEF Next
<1>. QED
  BY <1>1, <1>2, TypeCorrect, PTL DEF Spec

\* Whoever writes mtime, and whatever the others write meanwhile, mtime is what it was
\* last set to and what has passed since: the arithmetic of clint_write on uint64_t goes
\* through zero and back for a value larger than the uptime, and comes out right.
THEOREM MtimeIsReadBack ==
    ASSUME NoMtimeWraps
    PROVE  Spec => []MtimeReadsBack
<1>1. ClockInv => MtimeReadsBack
  <2> SUFFICES ASSUME ClockInv PROVE MtimeReadsBack
    OBVIOUS
  <2>. DEFINE v == set.mtime
              since == now_ns - set.instant
              ahead == v * NsPerTick
  <2>1. /\ NsPerTick \in Nat \ {0} /\ v \in Nat /\ now_ns \in Nat
        /\ BootNs \in Nat /\ MaxNow \in Nat /\ Modulus \in Nat
        /\ v \in TickValues \cup {0} /\ set.instant \in Nat
    <3>1. BootNs \in Nat /\ \A t \in TickValues \cup {0} : t \in Nat
      BY ClintAssumption DEF Words
    <3>2. set \in [mtime : TickValues \cup {0}, instant : Nat]
      BY DEF ClockInv, TypeOK
    <3>3. set.mtime \in TickValues \cup {0} /\ set.instant \in Nat
      BY <3>2
    <3>4. now_ns \in Nat
      BY DEF ClockInv, TypeOK
    <3>5. NsPerTick \in Nat \ {0} /\ MaxNow \in Nat /\ Modulus \in Nat
      BY ClintAssumption
    <3>6. v \in Nat
      BY <3>1, <3>3
    <3>. QED
      BY <3>1, <3>3, <3>4, <3>5, <3>6
  <2>2. /\ (since \in Nat /\ since <= MaxNow - BootNs) \/ since = 0
        /\ epoch_ns = Wrap(set.instant - ahead)
    BY <2>1 DEF ClockInv, EpochOf
  <2>3. ahead \in Nat /\ ahead < Modulus /\ MaxNow - BootNs + ahead < Modulus
    BY <2>1 DEF NoMtimeWraps
  <2>4. Wrap(now_ns - Wrap(set.instant - ahead)) = since + ahead
    <3>. HIDE DEF ahead
    <3>1. set.instant - ahead \in Int /\ now_ns - (set.instant - ahead) = since + ahead
      BY <2>1, <2>3
    <3>2. 0 <= since + ahead /\ since + ahead < Modulus
      BY <2>1, <2>2, <2>3
    <3>. QED
      BY <2>1, <3>1, <3>2, WrapDifference
  <2>5. Mtime = (since + v * NsPerTick) \div NsPerTick
    BY <2>2, <2>4 DEF Mtime
  <2>6. since \in Int
    BY <2>1
  <2>. HIDE DEF v, since
  <2>7. (since + v * NsPerTick) \div NsPerTick = v + since \div NsPerTick
    BY <2>1, <2>6
  <2>. QED
    BY <2>5, <2>7 DEF MtimeReadsBack, v, since
<1>. QED
  BY <1>1, ClockInductive, PTL
=============================================================================
