-------------------------------- MODULE Pmp --------------------------------
(* Physical memory protection: the PMP CSRs (rv_csr.c) and what            *)
(* rv_pmp_check decides with them (rv_pmp.c).                              *)
EXTENDS Integers, FiniteSetsExt

CONSTANTS
    NumEntries,     \* 64 in the code
    PerWord,        \* entries that one pmpcfg register packs: 8
    AddressBits,    \* 64 in the code
    PageSize,       \* bytes of a page, 4096 in the code
    CfgWrites,      \* configurations that software writes
    AddrWrites,     \* addresses that software writes
    Accesses        \* set of <<address, size>>: the accesses the properties are about

ASSUME PmpAssumption ==
    /\ NumEntries \in Nat \ {0} /\ PerWord \in Nat \ {0}
    /\ AddressBits \in Nat /\ AddressBits > 3
    /\ PageSize \in Nat \ {0}
    /\ CfgWrites \subseteq [perm : SUBSET {"R", "W", "X"}, a : 0..3, l : BOOLEAN]
    /\ AddrWrites \subseteq 0..(2^AddressBits - 1)
    /\ Accesses \subseteq Nat \X Nat
    /\ \A acc \in Accesses : acc[2] >= 1 /\ acc[1] + acc[2] <= 2^AddressBits

VARIABLES
    pmpcfg,          \* per entry: permissions, address matching, locked
    pmpaddr,         \* per entry: its address register
    privilege,       \* of the hart
    mem_privilege    \* of its data accesses

pmpVars == <<pmpcfg, pmpaddr, privilege, mem_privilege>>

Entries == 0..(NumEntries - 1)
AddressLimit == 2^AddressBits
Powers == {2^n : n \in 0..AddressBits}
Addresses == 0..(AddressLimit - 1)
OFF == 0
NAPOT == 3
All == {"R", "W", "X"}
Cfg == [perm : SUBSET All, a : {OFF, NAPOT}, l : BOOLEAN]

PmpTypeOK ==
    /\ pmpcfg \in [Entries -> Cfg]
    /\ pmpaddr \in [Entries -> Addresses]
    /\ privilege \in {0, 1, 3}
    /\ mem_privilege \in {0, 1, 3}

PmpInit ==
    /\ pmpcfg = [i \in Entries |-> [perm |-> {}, a |-> OFF, l |-> FALSE]]
    /\ pmpaddr = [i \in Entries |-> 0]
    /\ privilege = 3
    /\ mem_privilege = 3

-----------------------------------------------------------------------------
(* rv_pmp_check.                                                           *)

\* The bytes that the trailing ones of a pmpaddr value select: 8 for none, twice
\* as many for every one.
RegionSize[x \in Addresses] ==
    Min({8 * Max({k \in Powers : (x + 1) % k = 0}), AddressLimit})

Base[x \in Addresses] == (4 * x - ((4 * x) % RegionSize[x])) % AddressLimit
Matches(paddr, x) == paddr - (paddr % RegionSize[x]) = Base[x]

Enabled(i) == pmpcfg[i].a >= 2

\* Entries that bind accesses of this privilege.
Binding(m_mode) == {i \in Entries : Enabled(i) /\ (m_mode => pmpcfg[i].l)}

\* Entries whose region holds the first byte; the last is not looked at.
Met_FirstByte(paddr, size, m_mode) ==
    {i \in Binding(m_mode) : Matches(paddr, pmpaddr[i])}

\* Entries whose region holds the first or the last byte.
Met(paddr, size, m_mode) ==
    {i \in Binding(m_mode) :
        \/ Matches(paddr, pmpaddr[i])
        \/ Matches((paddr + size - 1) % AddressLimit, pmpaddr[i])}

\* The permissions of the first entry met, none if it does not hold both ends.
PmpCheck(paddr, size, m_mode) ==
    LET met == Met(paddr, size, m_mode) IN
    IF met = {} THEN IF m_mode THEN All ELSE {}
    ELSE LET x == pmpaddr[Min(met)] IN
         IF Matches(paddr, x) /\ Matches((paddr + size - 1) % AddressLimit, x)
         THEN pmpcfg[Min(met)].perm ELSE {}

\* do_pmp_check, for a data access.
DataCheck(paddr, size) == PmpCheck(paddr, size, privilege = 3)

-----------------------------------------------------------------------------
(* CSR writes, which are machine mode's.                                   *)

\* Address matching is stored as it was written.
Normal_AsWritten(cfg) == cfg

\* TOR becomes OFF and NA4 becomes NAPOT.
Normal(cfg) == [cfg EXCEPT !.a = IF @ >= 2 THEN NAPOT ELSE OFF]

\* One register's entries are written together; those that are locked keep theirs.
WritePmpcfg(word, values) ==
    /\ privilege = 3
    /\ pmpcfg' = [i \in Entries |-> IF i \div PerWord = word /\ ~pmpcfg[i].l
                                    THEN Normal(values[i]) ELSE pmpcfg[i]]
    /\ UNCHANGED <<pmpaddr, privilege, mem_privilege>>

\* A locked entry's address is written all the same.
WritePmpaddr_Locked(i, value) ==
    /\ privilege = 3
    /\ pmpaddr' = [pmpaddr EXCEPT ![i] = value]
    /\ UNCHANGED <<pmpcfg, privilege, mem_privilege>>

\* A locked entry's address stays.
WritePmpaddr(i, value) ==
    /\ privilege = 3
    /\ ~pmpcfg[i].l
    /\ pmpaddr' = [pmpaddr EXCEPT ![i] = value]
    /\ UNCHANGED <<pmpcfg, privilege, mem_privilege>>

\* Traps, returns and writes of MPRV (module Hart: NoBorrowedPrivilege).
ChangePrivilege(to, data) ==
    /\ to < 3 => data = to
    /\ privilege' = to
    /\ mem_privilege' = data
    /\ UNCHANGED <<pmpcfg, pmpaddr>>

CfgWords == {i \div PerWord : i \in Entries}

PmpNext ==
    \/ \E word \in CfgWords :
         \E values \in [{i \in Entries : i \div PerWord = word} -> CfgWrites] :
           WritePmpcfg(word, values)
    \/ \E i \in Entries, value \in AddrWrites : WritePmpaddr(i, value)
    \/ \E to, data \in {0, 1, 3} : ChangePrivilege(to, data)

PmpSpec == PmpInit /\ [][PmpNext]_pmpVars

-----------------------------------------------------------------------------
(* Properties.                                                             *)

\* A value of pmpaddr stands for the naturally aligned power of two bytes, 8 or
\* more, that it is a quarter of the middle of, less one ("where N trailing 1s ->
\* size = 2^(N+3) bytes", rv_pmp.c).
Region[x \in Addresses] ==
    UNION {region[1]..(region[1] + region[2] - 1) : region \in
             {r \in (0..(4 * x)) \X {8 * k : k \in Powers} :
                r[1] % r[2] = 0 /\ 4 * x = r[1] + (r[2] \div 2) - 4}}

BytesOf(acc) == acc[1]..(acc[1] + acc[2] - 1)
Deciding(acc, m_mode) ==
    {i \in Binding(m_mode) : BytesOf(acc) \cap Region[pmpaddr[i]] # {}}

\* "Contained in this range", "spans edge of this PMP range; access is always
\* forbidden" (rv_pmp_check): the first entry that any byte of the access meets
\* decides, and forbids it unless it holds every byte. The entries are those that the
\* registers as written stand for, down to 8 bytes: the check does not know the
\* grain of a page (PageGrained). An access that has an entry strictly inside it is
\* not among Accesses here.
CheckIsFirstMatch ==
    \A acc \in Accesses, m_mode \in BOOLEAN :
      LET met == Deciding(acc, m_mode) IN
      PmpCheck(acc[1], acc[2], m_mode) =
        IF met = {} THEN IF m_mode THEN All ELSE {}
        ELSE IF BytesOf(acc) \subseteq Region[pmpaddr[Min(met)]]
             THEN pmpcfg[Min(met)].perm ELSE {}

\* What a locked entry has decided stays decided, for machine mode too, once the
\* entries before it are locked ("Locked bytes are not modified", rv_csr.c).
LockedDecisionsStay ==
    [][\A acc \in Accesses, m_mode \in BOOLEAN :
         LET met == Deciding(acc, m_mode) IN
         (met # {} /\ \A i \in 0..Min(met) : pmpcfg[i].l) =>
           PmpCheck(acc[1], acc[2], m_mode)' = PmpCheck(acc[1], acc[2], m_mode)]_pmpVars

\* "PMP check granularity: Page sized." (rv_csr.h): the bytes of a page have the same
\* permissions, so that the check of a page stands for each of its bytes.
PageGrained ==
    \A a, b \in Addresses, m_mode \in BOOLEAN :
      a \div PageSize = b \div PageSize => PmpCheck(a, 1, m_mode) = PmpCheck(b, 1, m_mode)

\* "Effective privilege level for data memory accesses (MPRV-adjusted)" (rv_cpu.h):
\* a data access has the permissions of mem_privilege.
DataCheckedAsEffective ==
    \A acc \in Accesses :
      DataCheck(acc[1], acc[2]) = PmpCheck(acc[1], acc[2], mem_privilege = 3)
=============================================================================
