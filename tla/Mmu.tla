-------------------------------- MODULE Mmu ---------------------------------
(***************************************************************************)
(* arch/arm64/mmu.cc: EL2's own translation tables, which BootFromEl2      *)
(* (boot_el2.cc) builds before anything else runs: two guest regions, then *)
(* seven regions of the kernel, each mapped with the largest blocks that   *)
(* fit.  A step is one turn of InitXlatTables' loop.  Addresses and sizes  *)
(* are counted in pages.                                                   *)
(***************************************************************************)
EXTENDS Integers, Sequences, FiniteSets

CONSTANTS
  XLAT_TABLE_ENTRIES,          \* entries of a table (512 in the code)
  NUM_BASE_LEVEL_ENTRIES,      \* entries of the first one (64)
  CONFIG_MMU_MAX_XLAT_TABLES,  \* tables in the pool (14)
  Layouts,                     \* the regions, in the order they are mapped
  GuestRegions                 \* how many of them are guest regions (2)

CONFIG_MMU_TABLE_LEVEL_MAX == 3

PAGE_TABLE_BASE_LEVEL == 1

Levels == PAGE_TABLE_BASE_LEVEL .. CONFIG_MMU_TABLE_LEVEL_MAX

\* Pages an entry stands for.
LevelSize ==
  [l \in Levels |-> CASE l = 3 -> 1 [] l = 2 -> XLAT_TABLE_ENTRIES
                      [] l = 1 -> XLAT_TABLE_ENTRIES * XLAT_TABLE_ENTRIES]

VaPages == NUM_BASE_LEVEL_ENTRIES * LevelSize[1]

Entries == 0 .. XLAT_TABLE_ENTRIES - 1

Tables == 0 .. CONFIG_MMU_MAX_XLAT_TABLES

\* What a region may be: a place and its attributes, in any of the memory types.
MmuRegions ==
  [base_va : Nat, base_pa : Nat, size : Nat,
   attrs : [mem : 0 .. 5, rw : BOOLEAN, ns : BOOLEAN, xn : BOOLEAN]]

\* A kernel region is inside the address space, and a region's physical address
\* is aligned as its virtual one: in the program both are the same.
ASSUME MmuAssumption ==
  /\ XLAT_TABLE_ENTRIES \in Nat \ {0, 1}
  /\ NUM_BASE_LEVEL_ENTRIES \in 1 .. XLAT_TABLE_ENTRIES
  /\ CONFIG_MMU_MAX_XLAT_TABLES \in Nat
  /\ GuestRegions \in Nat
  /\ Layouts \subseteq Seq(MmuRegions)
  /\ \A rs \in Layouts : rs # <<>> /\ GuestRegions <= Len(rs)
  /\ \A rs \in Layouts : \A k \in 1 .. Len(rs) :
       /\ k > GuestRegions => rs[k].base_va + rs[k].size <= VaPages
       /\ (rs[k].base_pa - rs[k].base_va) % LevelSize[1] = 0

VARIABLES
  regions,  \* what is mapped
  r,        \* the region InitXlatTables is called for
  va,       \* what is left of it
  size,
  level,    \* where the loop looks for the next entry
  xlat,     \* s_base_xlat_table, as table 0, and s_xlat_tables
  idx,      \* tables taken from the pool
  panic     \* an assertion stopped EL2

vars == <<regions, r, va, size, level, xlat, idx, panic>>

-----------------------------------------------------------------------------
(* Descriptors *)

PTE_INVALID_DESC == 0
PTE_BLOCK_DESC == 1
PTE_TABLE_DESC == 3
PTE_PAGE_DESC == 3

kDevicenGnRnE == 0
kNormalNC == 3
kNormal == 4

Device == {0, 1, 2}

\* The attributes of a region: memory type, kRW, kNonSecure and kExecuteNever.
\* In the descriptor: what is not writable is read-only, device memory is never
\* executed, and normal memory has PXN set when it is not to be executed.
Attributes(attrs) ==
  [mem |-> attrs.mem, ro |-> ~attrs.rw, ns |-> attrs.ns,
   share |-> IF attrs.mem = kNormal THEN "inner" ELSE "outer",
   pxn |-> attrs.mem \in Device \/ attrs.xn,
   uxn |-> attrs.mem \in Device]

Desc(type, addr, attrs) == [type |-> type, addr |-> addr, attrs |-> attrs]

Plain == [mem |-> kDevicenGnRnE, rw |-> TRUE, ns |-> FALSE, xn |-> FALSE]

Zero == Desc(PTE_INVALID_DESC, 0, Attributes(Plain))

GetVaIndex(a, l) == (a \div LevelSize[l]) % XLAT_TABLE_ENTRIES

\* The table of each level on the way to an address: FindPteIndex follows the
\* entries above without looking further when it has come to the level.
Path(tabs, a) ==
  LET t[l \in Levels] ==
        IF l = PAGE_TABLE_BASE_LEVEL THEN 0
        ELSE LET pte == tabs[t[l - 1]][GetVaIndex(a, l - 1)]
             IN  IF pte.type = PTE_TABLE_DESC /\ pte.addr \in Tables THEN pte.addr ELSE 0
  IN  t

FindPteIndex(a, l) == <<Path(xlat, a)[l], GetVaIndex(a, l)>>

-----------------------------------------------------------------------------
(* What is mapped *)

\* A place is <<first page, pages>>; virtual and physical address are the same.
MmuMapRegion(place, mem, rw, xn) ==
  [base_va |-> place[1], base_pa |-> place[1], size |-> place[2],
   attrs |-> [mem |-> mem, rw |-> rw, ns |-> FALSE, xn |-> xn]]

\* linker.ld: the hypervisor's sections, one behind the other.  That of the stack is
\* empty, though its symbols are 64MB apart: the heap begins where the stack does.
Sections(start, text, rodata, data, bss, heap, uncached, user) ==
  LET end == start + text + rodata + data + bss
  IN  [text |-> <<start, text>>,
       rodata |-> <<start + text, rodata>>,
       data |-> <<start + text + rodata, data>>,
       bss |-> <<end - bss, bss>>,
       stack |-> <<end, heap>>,
       heap |-> <<end, heap>>,
       uncached |-> <<end + heap, uncached>>,
       user |-> <<end + heap + uncached, user>>]

kMmuGuestRegions(device_io, ld) ==
  <<MmuMapRegion(device_io, kDevicenGnRnE, TRUE, FALSE),
    MmuMapRegion(ld.user, kNormalNC, TRUE, FALSE)>>

kMmuKernelRegions(ld) ==
  <<MmuMapRegion(ld.text, kNormal, FALSE, FALSE),
    MmuMapRegion(ld.rodata, kNormal, FALSE, TRUE),
    MmuMapRegion(ld.data, kNormal, TRUE, FALSE),
    MmuMapRegion(ld.bss, kNormal, TRUE, FALSE),
    MmuMapRegion(ld.stack, kNormal, TRUE, FALSE),
    MmuMapRegion(ld.heap, kNormal, TRUE, FALSE),
    MmuMapRegion(ld.uncached, kNormalNC, TRUE, FALSE)>>

BootFromEl2(device_io, ld) == kMmuGuestRegions(device_io, ld) \o kMmuKernelRegions(ld)

-----------------------------------------------------------------------------
(* InitXlatTables *)

Region == regions[r]

\* CheckMmuConfigs looks at the guest regions only.
CheckMmuConfigs(rs) ==
  \A k \in 1 .. GuestRegions : rs[k].base_va + rs[k].size <= VaPages

Init ==
  /\ regions \in Layouts
  /\ r = 1
  /\ va = regions[1].base_va
  /\ size = regions[1].size
  /\ level = PAGE_TABLE_BASE_LEVEL
  /\ xlat = [t \in Tables |-> [e \in Entries |-> Zero]]
  /\ idx = 0
  /\ panic = ~CheckMmuConfigs(regions)

Pte == FindPteIndex(va, level)

OldDesc == xlat[Pte[1]][Pte[2]]

SetPte(tabs, desc) == [tabs EXCEPT ![Pte[1]][Pte[2]] = desc]

\* Faulty: a region that is just as large as a block is not given one.
FitsStrictly ==
  /\ size > LevelSize[level] \/ (level = 3 /\ size > 0)
  /\ va % LevelSize[level] = 0

Fits == size >= LevelSize[level] /\ va % LevelSize[level] = 0

\* The entry's range is wholly in the region: a block or a page, whatever was there.
MapBlock ==
  /\ Fits
  /\ LET pa == Region.base_pa + (va - Region.base_va)
     IN  xlat' = SetPte(xlat, Desc(IF level = 3 THEN PTE_PAGE_DESC ELSE PTE_BLOCK_DESC,
                                   pa, Attributes(Region.attrs)))
  /\ va' = va + LevelSize[level]
  /\ size' = size - LevelSize[level]
  /\ level' = PAGE_TABLE_BASE_LEVEL
  /\ UNCHANGED <<idx, panic>>

\* NewXlatTablesEntry, when the pool is empty.
NoTable ==
  /\ idx = CONFIG_MMU_MAX_XLAT_TABLES
  /\ panic' = TRUE
  /\ UNCHANGED <<va, size, level, xlat, idx>>

\* Faulty: the pool's index stays.
NewTableAgain ==
  /\ ~Fits /\ OldDesc.type = PTE_INVALID_DESC
  /\ \/ /\ idx < CONFIG_MMU_MAX_XLAT_TABLES
        /\ xlat' = SetPte(xlat, Desc(PTE_TABLE_DESC, idx + 1, Attributes(Plain)))
        /\ level' = level + 1
        /\ UNCHANGED <<va, size, idx, panic>>
     \/ NoTable

\* An empty entry gets a table; NewXlatTablesEntry's tables are all zero.
NewTable ==
  /\ ~Fits /\ OldDesc.type = PTE_INVALID_DESC
  /\ \/ /\ idx < CONFIG_MMU_MAX_XLAT_TABLES
        /\ idx' = idx + 1
        /\ xlat' = SetPte(xlat, Desc(PTE_TABLE_DESC, idx', Attributes(Plain)))
        /\ level' = level + 1
        /\ UNCHANGED <<va, size, panic>>
     \/ NoTable

\* Faulty: the entries of the new table all have the block's own address.
SplitFlat == [e \in Entries |-> [OldDesc EXCEPT !.type = IF level = 2 THEN PTE_PAGE_DESC ELSE @]]

\* The block's descriptor, once for every entry of the level below.
Split ==
  [e \in Entries |-> [OldDesc EXCEPT !.addr = @ + e * LevelSize[level + 1],
                                     !.type = IF level = 2 THEN PTE_PAGE_DESC ELSE @]]

SplitPteBlockDesc ==
  /\ ~Fits /\ OldDesc.type = PTE_BLOCK_DESC
  /\ \/ /\ idx < CONFIG_MMU_MAX_XLAT_TABLES
        /\ idx' = idx + 1
        /\ xlat' = SetPte([xlat EXCEPT ![idx'] = Split],
                          Desc(PTE_TABLE_DESC, idx', Attributes(Plain)))
        /\ level' = level + 1
        /\ UNCHANGED <<va, size, panic>>
     \/ NoTable

\* Faulty: the loop looks at the same entry again.
SameLevel ==
  /\ ~Fits /\ OldDesc.type = PTE_TABLE_DESC
  /\ UNCHANGED <<va, size, level, xlat, idx, panic>>

NextLevel ==
  /\ ~Fits /\ OldDesc.type = PTE_TABLE_DESC
  /\ level' = level + 1
  /\ UNCHANGED <<va, size, xlat, idx, panic>>

InitXlatTables ==
  /\ ~panic /\ size > 0
  /\ MapBlock \/ NewTable \/ SplitPteBlockDesc \/ NextLevel
  /\ UNCHANGED <<regions, r>>

NextRegion ==
  /\ ~panic /\ size = 0 /\ r < Len(regions)
  /\ r' = r + 1
  /\ va' = regions[r + 1].base_va
  /\ size' = regions[r + 1].size
  /\ level' = PAGE_TABLE_BASE_LEVEL
  /\ UNCHANGED <<regions, xlat, idx, panic>>

Next == InitXlatTables \/ NextRegion

Spec == Init /\ [][Next]_vars /\ WF_vars(Next)

-----------------------------------------------------------------------------
(* Properties *)

\* What the MMU makes of an address: the output address and attributes, or <<>>.
Walk(a) ==
  LET t == Path(xlat, a)
      d(l) == xlat[t[l]][GetVaIndex(a, l)]
      Out(l) == <<d(l).addr + (a % LevelSize[l]), d(l).attrs>>
  IN  CASE d(1).type = PTE_BLOCK_DESC -> Out(1)
        [] d(1).type = PTE_TABLE_DESC ->
             CASE d(2).type = PTE_BLOCK_DESC -> Out(2)
               [] d(2).type = PTE_TABLE_DESC ->
                    IF d(3).type = PTE_PAGE_DESC THEN Out(3) ELSE <<>>
               [] OTHER -> <<>>
        [] OTHER -> <<>>

\* Region k's part that is mapped so far.
Mapped(k) ==
  CASE k < r -> regions[k].base_va .. regions[k].base_va + regions[k].size - 1
    [] k = r -> regions[k].base_va .. va - 1
    [] OTHER -> {}

\* At every moment of the construction an address translates as the last region
\* that covers it says, and no other address translates: splitting a block or
\* replacing a table never moves, loses or exposes a page of another region.
TranslatesAsLastRegion ==
  ~panic =>
  \A a \in 0 .. VaPages - 1 :
    LET covering == {k \in 1 .. Len(regions) : a \in Mapped(k)}
    IN  IF covering = {} THEN Walk(a) = <<>>
        ELSE LET k == CHOOSE x \in covering : \A y \in covering : y <= x
             IN  Walk(a) = <<regions[k].base_pa + (a - regions[k].base_va),
                             Attributes(regions[k].attrs)>>

\* The level of each table in use.
IsTable(t, e) == xlat[t][e].type = PTE_TABLE_DESC

Below(t) == {xlat[t][e].addr : e \in {x \in Entries : IsTable(t, x)}}

Middle == Below(0)

\* Every table has one place in the tree, nothing is linked that was not taken from
\* the pool, and FindPteIndex never comes to an entry that leads nowhere.
TablesAreATree ==
  LET links == {p \in ({0} \cup Middle) \X Entries : IsTable(p[1], p[2])}
  IN  /\ Middle \subseteq 1 .. idx
      /\ \A p \in links : xlat[p[1]][p[2]].addr \in 1 .. idx
      /\ \A p, q \in links : xlat[p[1]][p[2]].addr = xlat[q[1]][q[2]].addr => p = q
      /\ size > 0 /\ ~panic =>
           \A l \in 1 .. level - 1 :
             LET p == FindPteIndex(va, l) IN IsTable(p[1], p[2])

\* The blocks a region covers in part need a table: <<level, number>>.  They are
\* among the first and the last one of a level.
Partial(reg) ==
  {b \in {<<l, a \div LevelSize[l]>> : l \in {1, 2}, a \in {reg.base_va, reg.base_va + reg.size - 1}} :
     LET first == b[2] * LevelSize[b[1]]
         last == first + LevelSize[b[1]] - 1
     IN  reg.size > 0 /\ (first < reg.base_va \/ reg.base_va + reg.size <= last)}

TablesFor(rs) == Cardinality(UNION {Partial(rs[k]) : k \in 1 .. Len(rs)})

\* No region covers a block that an earlier one has a table for.
NoneReplaced(rs) ==
  \A j, k \in 1 .. Len(rs) : j < k =>
    \A b \in Partial(rs[j]) : ~(\A a \in 0 .. LevelSize[b[1]] - 1 :
      LET p == b[2] * LevelSize[b[1]] + a
      IN  rs[k].base_va <= p /\ p < rs[k].base_va + rs[k].size)

\* The pool's demand: regions that end in the same block share its table, so the
\* number taken is that of the blocks covered in part, whatever the order; only a
\* region that replaces a table loses it.
TablesAreShared ==
  size = 0 /\ ~panic =>
    LET done == SubSeq(regions, 1, r)
    IN  NoneReplaced(done) => idx = TablesFor(done)

\* The loop comes to an end: every turn descends or maps something.
BootEnds == <>(panic \/ (r = Len(regions) /\ size = 0))
=============================================================================
