-------------------------------- MODULE Core --------------------------------
(***************************************************************************)
(* One instruction of a hart: rv_step_insn fetches it, expands it when it  *)
(* is compressed, and rv_forcefeed_insn runs the function that its opcode  *)
(* selects (emulator/src/cpu/rv_cpu.c, rv_impl/base.c, rv_impl/muldiv.c).  *)
(*                                                                         *)
(* Every instruction is run from every state of interest, chosen in Init;  *)
(* what follows it is another instruction in another state.  The AMOs, the *)
(* floating-point operations, the privileged and the CSR instructions, and *)
(* what a trap does, are in Atomics, Float, Hart, Paging and Csr.          *)
(***************************************************************************)
EXTENDS Decompress, Arithmetic, Sequences, FiniteSetsExt

CONSTANTS
    Cases,          \* the states an instruction is run from: records of the
                    \* sets codes (pairs of halfwords, the second one NoCode
                    \* where its fetch faults), pcs, odds and evens (what odd
                    \* and even registers hold) and units (mstatus.FS # 0)
    Handler,        \* mtvec: where a trap continues
    UpperShift,     \* 12: the position of the immediate of LUI in its result
    Ram,            \* the addresses of bytes that can be accessed
    RamByte         \* what such a byte holds

Halfwords == 0..65535
NoCode == -1
Regs == 0..31
ByteLen == XLEN \div 8
Bytes == 0..(2^ByteLen - 1)

ASSUME CoreAssumption ==
    /\ \A c \in Cases :
         /\ c.codes \subseteq Halfwords \X (Halfwords \cup {NoCode})
         /\ \A a \in c.pcs : a \in Words /\ (a % 2) = 0
         /\ c.odds \cup c.evens \subseteq Words
         /\ c.units \subseteq BOOLEAN
    /\ Handler \in Words
    /\ UpperShift \in 0..HalfLen
    /\ Ram \subseteq Words
    /\ RamByte \in [Ram -> Bytes]

VARIABLES
    at,         \* history: the address of the instruction
    step,       \* "fetch", "execute" or "done"
    code,       \* the two halfwords at pc
    insn,       \* the decoded instruction, in a set
    pc, epc, xregs, fregs,  \* the fields of struct rv_cpu
    fs,         \* mstatus.FS is not zero
    ram,        \* what rv_access_virt reads and writes
    trap        \* what rv_do_trap was called with, in a set

vars == <<at, step, code, insn, pc, epc, xregs, fregs, fs, ram, trap>>
machine == <<xregs, fregs, fs, ram>>

TypeOK ==
    /\ step \in {"fetch", "execute", "done"}
    /\ code \in Halfwords \X (Halfwords \cup {NoCode})
    /\ insn \subseteq Insns
    /\ {at, pc, epc} \subseteq Words
    /\ xregs \in [Regs -> Words] /\ xregs[0] = 0
    /\ fregs \in [Regs -> Words]
    /\ fs \in BOOLEAN
    /\ ram \in [Ram -> Bytes]

Init ==
    \E c \in Cases : \E odd \in c.odds, even \in c.evens :
        /\ step = "fetch"
        /\ code \in c.codes
        /\ insn = {}
        /\ pc \in c.pcs
        /\ at = pc
        /\ epc = 0
        /\ xregs = [r \in Regs |-> IF r = 0 THEN 0
                                   ELSE IF (r % 2) = 1 THEN odd ELSE even]
        /\ fregs = [r \in Regs |-> IF (r % 2) = 1 THEN even ELSE odd]
        /\ fs \in c.units
        /\ ram = RamByte
        /\ trap = {}

-----------------------------------------------------------------------------
(* rv_step_insn                                                            *)

\* rv_do_trap: nothing else happens to the registers or to memory.
Trap(cause, where, tval) ==
    /\ trap' = {[cause |-> cause, epc |-> where, tval |-> tval]}
    /\ pc' = Handler
    /\ step' = "done"
    /\ UNCHANGED <<at, code, insn, machine>>

Compressed == (code[1] % 4) # 3

FetchFault ==
    /\ step = "fetch"
    /\ \/ Trap("fetch", pc, <<"address", pc>>)
       \/ ~Compressed /\ code[2] = NoCode
            /\ Trap("fetch", pc, <<"address", Unsigned(pc + 2)>>)
    /\ UNCHANGED epc

BadCompressed ==
    /\ step = "fetch"
    /\ Compressed
    /\ DecompressWord(code[1]) = {}
    /\ epc' = pc
    /\ Trap("illegal", pc, <<"word", code[1]>>)

\* epc stays that of the last instruction.
Decode_KeepsEpc(decoded, length) ==
    /\ step = "fetch"
    /\ insn' = decoded
    /\ pc' = Unsigned(pc + length)
    /\ step' = "execute"
    /\ UNCHANGED <<at, code, epc, machine, trap>>

\* The instruction is decoded, and pc moved past it.
Decode(decoded, length) ==
    /\ step = "fetch"
    /\ insn' = decoded
    /\ epc' = pc
    /\ pc' = Unsigned(pc + length)
    /\ step' = "execute"
    /\ UNCHANGED <<at, code, machine, trap>>

FetchCompressed ==
    /\ Compressed
    /\ DecompressWord(code[1]) # {}
    /\ Decode(DecompressWord(code[1]), 2)

FetchFull ==
    /\ ~Compressed
    /\ code[2] # NoCode
    /\ Decode({Joined(code[1], code[2])}, 4)

-----------------------------------------------------------------------------
(* rv_forcefeed_insn                                                       *)

Selected(i, opcodes) == step = "execute" /\ i.opcode \in opcodes

Finish(target) ==
    /\ pc' = target
    /\ step' = "done"
    /\ UNCHANGED <<at, code, insn, epc, trap>>

\* rv_do_iillegal
Illegal(i) == Trap("illegal", epc, <<"insn", i>>) /\ UNCHANGED epc

\* x0 is a register like the others.
WriteX_Zero(r, v) == xregs' = [xregs EXCEPT ![r] = v]

\* rv_xreg_write
WriteX(r, v) == xregs' = IF r = 0 THEN xregs ELSE [xregs EXCEPT ![r] = v]

\* rv_base_op
Operand2(i) == IF IsRegister(i) THEN xregs[i.rs2] ELSE Unsigned(Imm12(i))

BaseOp(i) ==
    /\ Selected(i, {OP, OP_IMM, OP_32, OP_IMM_32})
    /\ ~(IsRegister(i) /\ i.funct7 = 1)
    /\ WriteX(i.rd, BaseResult(i, xregs[i.rs1], Operand2(i)))
    /\ Finish(pc)
    /\ UNCHANGED <<fregs, fs, ram>>

\* rv_muldiv_op
MulDiv(i) ==
    /\ Selected(i, {OP, OP_32})
    /\ i.funct7 = 1
    /\ \/ MulDivIllegal(i) /\ Illegal(i)
       \/ /\ ~MulDivIllegal(i)
          /\ WriteX(i.rd, MulDivResult(i, xregs[i.rs1], xregs[i.rs2]))
          /\ Finish(pc)
          /\ UNCHANGED <<fregs, fs, ram>>

-----------------------------------------------------------------------------
(* rv_base_load and rv_base_store.  rv_access_virt either faults or moves  *)
(* the bytes in little-endian order.                                       *)

Span(addr, size) == {Unsigned(addr + i) : i \in 0..(2^size - 1)}
Accessible(addr, size) == Span(addr, size) \subseteq Ram

\* The value of 2^size bytes.
ReadRam(m, addr, size) ==
    LET Part(i) == IF i < 2^size THEN m[Unsigned(addr + i)] * 2^(i * ByteLen) ELSE 0
    IN  Part(0) + Part(1) + Part(2) + Part(3) + Part(4) + Part(5) + Part(6) + Part(7)

WriteRam(m, addr, size, v) ==
    [a \in Ram |-> IF a \in Span(addr, size)
                   THEN Bits(v, Unsigned(a - addr) * ByteLen, ByteLen)
                   ELSE m[a]]

IsFloat(i) == i.opcode \in {LOAD_FP, STORE_FP}
FloatIllegal(i) == IsFloat(i) /\ (~fs \/ i.funct3 \notin {2, 3})

LoadAddr(i) == Unsigned(xregs[i.rs1] + Imm12(i))
StoreAddr(i) == Unsigned(xregs[i.rs1] + SImm12(i))

\* LBU and LHU are sign-extended too.
Extended_Always(funct3, data) ==
    Unsigned(SignExtend(data, ByteLen * 2^(funct3 % 4)))

\* The low size bytes of data, sign-extended for funct3 below 3.
Extended(funct3, data) ==
    IF funct3 < 3 THEN Unsigned(SignExtend(data, ByteLen * 2^funct3)) ELSE data

\* FLW fills the upper half with ones.
Boxed(funct3, data) ==
    IF funct3 = 2 THEN 2^XLEN - 2^HalfLen + (data % 2^HalfLen) ELSE data

Load(i) ==
    LET size == i.funct3 % 4
        data == Extended(i.funct3, ReadRam(ram, LoadAddr(i), size))
    IN
    /\ Selected(i, {LOAD, LOAD_FP})
    /\ \/ (FloatIllegal(i) \/ i.funct3 = 7) /\ Illegal(i)
       \/ /\ ~FloatIllegal(i) /\ i.funct3 # 7
          /\ \/ /\ ~Accessible(LoadAddr(i), size)
                /\ Trap("load", epc, <<"address", LoadAddr(i)>>)
                /\ UNCHANGED epc
             \/ /\ Accessible(LoadAddr(i), size)
                /\ \/ /\ IsFloat(i)
                      /\ fregs' = [fregs EXCEPT ![i.rd] = Boxed(i.funct3, data)]
                      /\ UNCHANGED xregs
                   \/ ~IsFloat(i) /\ WriteX(i.rd, data) /\ UNCHANGED fregs
                /\ Finish(pc)
                /\ UNCHANGED <<fs, ram>>

\* The size is the low bits of funct3, whatever the third one says.
Store(i) ==
    LET size == i.funct3 % 4
        data == IF IsFloat(i) THEN fregs[i.rs2] ELSE xregs[i.rs2]
    IN
    /\ Selected(i, {STORE, STORE_FP})
    /\ \/ FloatIllegal(i) /\ Illegal(i)
       \/ /\ ~FloatIllegal(i)
          /\ \/ /\ ~Accessible(StoreAddr(i), size)
                /\ Trap("store", epc, <<"address", StoreAddr(i)>>)
                /\ UNCHANGED epc
             \/ /\ Accessible(StoreAddr(i), size)
                /\ ram' = WriteRam(ram, StoreAddr(i), size, data)
                /\ Finish(pc)
                /\ UNCHANGED <<xregs, fregs, fs>>

-----------------------------------------------------------------------------
(* rv_base_jal, rv_base_jalr, rv_base_lui, rv_base_branch                  *)

Jal(i) ==
    /\ Selected(i, {JAL})
    /\ WriteX(i.rd, pc)
    /\ Finish(Unsigned(epc + JImm(i)))
    /\ UNCHANGED <<fregs, fs, ram>>

\* The link is written before the target is read.
Jalr_LinkFirst(i) ==
    /\ Selected(i, {JALR})
    /\ WriteX(i.rd, pc)
    /\ LET target == Unsigned(xregs'[i.rs1] + Imm12(i))
       IN  Finish(target - (target % 2))
    /\ UNCHANGED <<fregs, fs, ram>>

Jalr(i) ==
    /\ Selected(i, {JALR})
    /\ WriteX(i.rd, pc)
    /\ LET target == Unsigned(xregs[i.rs1] + Imm12(i))
       IN  Finish(target - (target % 2))
    /\ UNCHANGED <<fregs, fs, ram>>

Lui(i) ==
    LET upper == SignedHalf(UImm20(i) * 2^UpperShift)
    IN
    /\ Selected(i, {LUI, AUIPC})
    /\ WriteX(i.rd, Unsigned(IF i.opcode = AUIPC THEN upper + epc ELSE upper))
    /\ Finish(pc)
    /\ UNCHANGED <<fregs, fs, ram>>

Branch(i) ==
    /\ Selected(i, {BRANCH})
    /\ \/ BranchIllegal(i) /\ Illegal(i)
       \/ /\ ~BranchIllegal(i)
          /\ Finish(IF Taken(i, xregs[i.rs1], xregs[i.rs2])
                    THEN Unsigned(epc + BImm(i)) ELSE pc)
          /\ UNCHANGED machine

\* rv_base_miscmem: fences order what other threads see, which is not here.
MiscMem(i) ==
    /\ Selected(i, {MISC_MEM})
    /\ Finish(pc)
    /\ UNCHANGED machine

\* The part of rv_base_system that is about this instruction alone.
System(i) ==
    LET Is(insn_) == i = insn_
    IN
    /\ Selected(i, {SYSTEM})
    /\ i.funct3 = 0
    /\ UNCHANGED epc
    /\ \/ Is(EncI(0, 0, 0, 0, SYSTEM)) /\ Trap("ecall", epc, <<"none">>)
       \/ Is(EncI(1, 0, 0, 0, SYSTEM)) /\ Trap("ebreak", epc, <<"none">>)

\* The default of the switch.
NoOpcode(i) ==
    /\ step = "execute"
    /\ i.opcode \in {2, 7, 10, 15, 21, 22, 23, 26, 29, 30, 31}
    /\ Illegal(i)

Execute(i) ==
    \/ BaseOp(i) \/ MulDiv(i) \/ Load(i) \/ Store(i) \/ Jal(i) \/ Jalr(i)
    \/ Lui(i) \/ Branch(i) \/ MiscMem(i) \/ System(i) \/ NoOpcode(i)

\* The next instruction is one of another behaviour.
Stop == step = "done" /\ UNCHANGED vars

Next ==
    \/ FetchFault \/ BadCompressed \/ FetchCompressed \/ FetchFull
    \/ \E i \in insn : Execute(i)
    \/ Stop

Spec == Init /\ [][Next]_vars

-----------------------------------------------------------------------------
(* The immediates of compressed instructions, as the instruction tables of *)
(* the unprivileged specification list them: the bits of the immediate that *)
(* the bits of the word hold, from the highest down.                       *)

Ones(hi, lo) == [k \in 1..(hi - lo + 1) |-> hi - k + 1]

Scattered(hw, from, to) ==
    MapThenSumSet(LAMBDA k : Bits(hw, from[k], 1) * 2^to[k], DOMAIN to)

LowFields == Ones(12, 10) \o Ones(6, 5)
WordFields == <<12>> \o Ones(6, 2)

ManualImmediate(hw) ==
    LET f == Funct3(hw)
    IN  CASE hw % 4 = 0 /\ f = 0 -> Scattered(hw, Ones(12, 5), <<5, 4, 9, 8, 7, 6, 2, 3>>)
          [] hw % 4 = 0 /\ f \in {2, 6} -> Scattered(hw, LowFields, <<5, 4, 3, 2, 6>>)
          [] hw % 4 = 0 /\ f \in {1, 3, 5, 7} -> Scattered(hw, LowFields, <<5, 4, 3, 7, 6>>)
          [] hw % 4 = 1 /\ f = 3 /\ Rd(hw) = 2 ->
               SignExtend(Scattered(hw, WordFields, <<9, 4, 6, 8, 7, 5>>), 10)
          [] hw % 4 = 1 /\ f = 4 /\ Bits(hw, 10, 2) = 3 -> 0
          [] hw % 4 = 1 /\ f = 5 ->
               SignExtend(Scattered(hw, Ones(12, 2),
                                    <<11, 4, 9, 8, 10, 6, 7, 3, 2, 1, 5>>), 12)
          [] hw % 4 = 1 /\ f \in {6, 7} ->
               SignExtend(Scattered(hw, LowFields \o Ones(4, 2),
                                    <<8, 4, 3, 7, 6, 2, 1, 5>>), 9)
          [] hw % 4 = 1 /\ f = 4 /\ Bits(hw, 10, 2) < 2 ->
               Scattered(hw, WordFields, Ones(5, 0))
          [] hw % 4 = 1 /\ IF f = 3 THEN Rd(hw) # 2
                           ELSE f < 3 \/ (f = 4 /\ Bits(hw, 10, 2) = 2) ->
               SignExtend(Scattered(hw, WordFields, Ones(5, 0)), 6)
          [] hw % 4 = 2 /\ f = 0 -> Scattered(hw, WordFields, Ones(5, 0))
          [] hw % 4 = 2 /\ f \in {1, 3} -> Scattered(hw, WordFields, <<5, 4, 3, 8, 7, 6>>)
          [] hw % 4 = 2 /\ f = 2 -> Scattered(hw, WordFields, <<5, 4, 3, 2, 7, 6>>)
          [] hw % 4 = 2 /\ f = 4 -> 0
          [] hw % 4 = 2 /\ f \in {5, 7} -> Scattered(hw, Ones(12, 7), <<5, 4, 3, 8, 7, 6>>)
          [] hw % 4 = 2 /\ f = 6 -> Scattered(hw, Ones(12, 7), <<5, 4, 3, 2, 7, 6>>)

\* The immediate that the expansion will be executed with.
Immediate(i) ==
    CASE i.opcode \in {STORE, STORE_FP} -> SImm12(i)
      [] i.opcode = BRANCH -> BImm(i)
      [] i.opcode = JAL -> JImm(i)
      [] i.opcode = LUI -> SignExtend(UImm20(i), 20)
      [] i.opcode = OP_IMM /\ i.funct3 \in {1, 5} -> UImm12(i) % 64
      [] i.opcode \in {OP, OP_32, SYSTEM} -> 0
      [] OTHER -> Imm12(i)

-----------------------------------------------------------------------------
(* Properties.                                                             *)

\* A compressed instruction is executed with the immediate its word holds: no
\* bit is lost, swapped or taken twice on the way from the word through the
\* 32-bit encoding to the operand (rv_decompress.c, rv_decompress.h, base.c).
ExpandsAsManual ==
    step = "execute" /\ Compressed
        => \A i \in insn : Immediate(i) = ManualImmediate(code[1])

\* What a compressed word expands to is never itself an illegal instruction,
\* unless it is one of the floating-point unit while that is switched off.
ExpansionsAreLegal ==
    Compressed /\ (\E t \in trap : t.cause = "illegal")
        => \A i \in insn : IsFloat(i) /\ ~fs

\* What a trap of the instruction at this address has to report: the halfword
\* that could not be fetched, the access that failed, or the word that is no
\* instruction.  A compressed word that expands, but not to an instruction that
\* can be executed, is reported as its expansion (rv_do_iillegal gets no other).
Reported(cause) ==
    CASE cause = "fetch" ->
           {<<"address", at>>} \cup
             (IF Compressed \/ code[2] # NoCode THEN {}
              ELSE {<<"address", Unsigned(at + 2)>>})
      [] cause = "illegal" ->
           IF Compressed
           THEN IF DecompressWord(code[1]) = {} THEN {<<"word", code[1]>>}
                ELSE {<<"insn", i>> : i \in DecompressWord(code[1])}
           ELSE {<<"insn", Joined(code[1], code[2])>>}
      [] cause \in {"load", "store"} ->
           {<<"address", Unsigned(xregs[i.rs1] + Immediate(i))>> : i \in insn}
      [] OTHER -> {<<"none">>}

\* A trap reports the address of its own instruction, and the access or the
\* instruction that caused it, though pc has moved on and, for a compressed
\* one, by another length (rv_step_insn, the users of cpu->epc).
PreciseTraps == \A t \in trap : t.epc = at /\ t.tval \in Reported(t.cause)

\* Division and remainder agree for every pair of operands: the dividend is
\* the quotient times the divisor plus the remainder, which is smaller than the
\* divisor and has the dividend's sign; a zero divisor gives -1 and the
\* dividend, and the quotient that does not fit gives the dividend and 0.
DivisionLaw ==
    [][\A i \in insn : MulDiv(i) /\ i.funct3 >= 4 /\ i.rd # 0 =>
         LET signed == i.funct3 \in {4, 6}
             Number(v) == IF signed THEN Value(i, v) ELSE Low(i, v)
             x == Number(xregs[i.rs1])
             y == Number(xregs[i.rs2])
             Of(f) == Number(IF i.funct3 = f THEN xregs'[i.rd]
                             ELSE MulDivResult([i EXCEPT !.funct3 = f],
                                               xregs[i.rs1], xregs[i.rs2]))
             q == Of(IF signed THEN 4 ELSE 5)
             r == Of(IF signed THEN 6 ELSE 7)
         IN  CASE y = 0 -> q = Number(2^XLEN - 1) /\ r = x
               [] signed /\ x = Lowest(i) /\ y = -1 -> q = x /\ r = 0
               [] OTHER -> /\ x = q * y + r
                           /\ Magnitude(r) < Magnitude(y)
                           /\ r = 0 \/ (r < 0 <=> x < 0)]_vars

\* MULH, MULHSU and MULHU are the upper half of a product whose lower half is
\* MUL, for the signedness each name says (rv_muldiv_op 44-61).
ProductLaw ==
    [][\A i \in insn : MulDiv(i) /\ i.funct3 \in 1..3 /\ ~IsWord(i) /\ i.rd # 0 =>
         LET a == xregs[i.rs1]
             b == xregs[i.rs2]
             low == MulDivResult([i EXCEPT !.funct3 = 0], a, b)
             product == (IF i.funct3 = 3 THEN a ELSE Signed(a))
                        * (IF i.funct3 = 1 THEN Signed(b) ELSE b)
         IN  (IF i.funct3 = 3 THEN xregs'[i.rd] ELSE Signed(xregs'[i.rd])) * 2^XLEN + low
             = product]_vars

\* A *W instruction is the full one on operands extended from their lower
\* halves, with its result extended from its lower half: the upper halves of
\* the registers are never seen (rv_base_op 39-47 and 77-80, rv_muldiv_op).
WordsAreNarrow ==
    [][\A i \in insn : step' = "done" /\ IsWord(i) /\ trap' = {} /\ i.rd # 0 =>
         LET division == i.opcode = OP_32 /\ i.funct7 = 1
             full == [i EXCEPT !.opcode = IF @ = OP_32 THEN OP ELSE OP_IMM]
             extends == IF division THEN i.funct3 \in {0, 4, 6}
                        ELSE i.funct3 # 5 \/ Bits(i.funct7, 5, 1) = 1
             Extend(v) == IF extends THEN Unsigned(SignedHalf(v)) ELSE v % 2^HalfLen
             a == Extend(xregs[i.rs1])
             b == Operand2(i)
         IN  xregs'[i.rd] =
               Unsigned(SignedHalf(
                 IF division THEN MulDivResult(full, a, Extend(b))
                 ELSE BaseResult(full, a, IF i.funct3 \in {1, 5} THEN b % HalfLen
                                          ELSE Extend(b))))]_vars

\* A branch goes where SUB, SLT and SLTU of the same registers say it should,
\* from its own address, whatever its length (rv_base_branch, rv_base_op).
BranchesOrder ==
    [][\A i \in insn : Branch(i) /\ trap' = {} =>
         LET Compare(funct7, funct3) ==
                 BaseResult(EncR(funct7, i.rs2, i.rs1, funct3, 0, OP),
                            xregs[i.rs1], xregs[i.rs2])
             holds == CASE i.funct3 < 2 -> Compare(32, 0) = 0
                        [] i.funct3 \in {4, 5} -> Compare(0, 2) = 1
                        [] i.funct3 \in {6, 7} -> Compare(0, 3) = 1
             taken == ((i.funct3 % 2) = 0) <=> holds
         IN  pc' = IF taken THEN Unsigned(at + Immediate(i))
                   ELSE Unsigned(at + (IF Compressed THEN 2 ELSE 4))]_vars

\* A call goes to the sum it was given before it overwrote the register, and a
\* return through the link reaches the instruction after the call.
CallsReturn ==
    [][\A i \in insn : Jal(i) \/ Jalr(i) =>
         LET base == IF i.opcode = JAL THEN at ELSE xregs[i.rs1]
         IN  /\ pc' \in {Unsigned(base + Immediate(i)), Unsigned(base + Immediate(i) - 1)}
             /\ (pc' % 2) = 0
             /\ i.rd # 0 => xregs'[i.rd] = Unsigned(at + (IF Compressed THEN 2 ELSE 4))]_vars

\* What has been stored is what a load of the same bytes returns, extended as
\* its name says, and no other byte has changed.
StoredIsLoaded ==
    [][\A i \in insn : Store(i) /\ trap' = {} =>
         LET addr == StoreAddr(i)
             size == i.funct3 % 4
             data == IF IsFloat(i) THEN fregs[i.rs2] ELSE xregs[i.rs2]
             width == ByteLen * 2^size
             Loaded(funct3) == Extended(funct3, ReadRam(ram', addr, size))
         IN  /\ Loaded(size) = Unsigned(SignExtend(data, width))
             /\ size < 3 => Loaded(size + 4) = data % 2^width
             /\ IsFloat(i) /\ size = 2 => Boxed(2, Loaded(2)) = Boxed(2, data)
             /\ \A b \in Ram \ Span(addr, size) : ram'[b] = ram[b]]_vars
=============================================================================
