----------------------------- MODULE MmuProofs ------------------------------
(***************************************************************************)
(* EL2's translation tables while they are built, for any regions, any     *)
(* size of tables and any pool.                                            *)
(***************************************************************************)
EXTENDS Mmu, FiniteSetTheorems, TLAPS

-----------------------------------------------------------------------------
(* Addresses, blocks and indices *)

\* Quotient and remainder.
LEMMA DivMod ==
  ASSUME NEW a \in Nat, NEW n \in Nat \ {0}
  PROVE  /\ a \div n \in Nat /\ a % n \in 0 .. n - 1
         /\ a = n * (a \div n) + (a % n)
<1>1. a % n \in 0 .. n - 1
  OBVIOUS
<1>2. a \div n \in Nat
  OBVIOUS
<1>3. a = n * (a \div n) + (a % n)
  OBVIOUS
<1> QED
  BY <1>1, <1>2, <1>3

\* There is only one.
LEMMA DivModUnique ==
  ASSUME NEW n \in Nat \ {0}, NEW q \in Nat, NEW s \in 0 .. n - 1
  PROVE  (n * q + s) \div n = q /\ (n * q + s) % n = s
<1> DEFINE a == n * q + s
<1> DEFINE p == a \div n
<1> DEFINE t == a % n
<1>0. a \in Nat
  OBVIOUS
<1> HIDE DEF a
<1>1. a \in Nat /\ p \in Nat /\ t \in 0 .. n - 1 /\ a = n * p + t
  BY <1>0, DivMod
<1>2. n * p + t = n * q + s
  BY <1>1 DEF a
<1> HIDE DEF p, t
<1>3. ~ p < q
  <2> SUFFICES ASSUME p < q PROVE FALSE
    OBVIOUS
  <2>1. PICK d \in Nat : q = p + 1 + d
    <3>1. q - p - 1 \in Nat /\ q = p + 1 + (q - p - 1)
      BY <1>1
    <3> QED
      BY <3>1
  <2>2. n * q = n * p + n + n * d
    BY <2>1, <1>1
  <2>3. n * d \in Nat /\ n * p \in Nat
    BY <1>1
  <2> QED
    BY <1>1, <1>2, <2>2, <2>3
<1>4. ~ q < p
  <2> SUFFICES ASSUME q < p PROVE FALSE
    OBVIOUS
  <2>1. PICK d \in Nat : p = q + 1 + d
    <3>1. p - q - 1 \in Nat /\ p = q + 1 + (p - q - 1)
      BY <1>1
    <3> QED
      BY <3>1
  <2>2. n * p = n * q + n + n * d
    BY <2>1, <1>1
  <2>3. n * d \in Nat /\ n * q \in Nat
    BY <1>1
  <2> QED
    BY <1>1, <1>2, <2>2, <2>3
<1>5. p = q
  BY <1>1, <1>3, <1>4
<1>6. n * p \in Nat
  BY <1>1
<1>7. t = s
  BY <1>1, <1>2, <1>5, <1>6
<1> QED
  BY <1>5, <1>7 DEF p, t, a

\* Products of two factors, each of them larger than another one.
LEMMA Product ==
  ASSUME NEW a \in Nat, NEW b \in Nat, NEW n \in Nat, a < b
  PROVE  n * a + n <= n * b
<1>1. PICK d \in Nat : b = a + 1 + d
  <2>1. b - a - 1 \in Nat /\ b = a + 1 + (b - a - 1)
    OBVIOUS
  <2> QED
    BY <2>1
<1>2. n * b = n * a + n + n * d
  BY <1>1
<1>3. n * a \in Nat /\ n * d \in Nat
  BY <1>1
<1> QED
  BY <1>2, <1>3

NX == XLAT_TABLE_ENTRIES

Pages == 0 .. VaPages - 1

\* The entries of a level stand for as much as a table of the next one.
LEMMA LevelSizes ==
  /\ NX \in Nat \ {0, 1}
  /\ LevelSize[1] = NX * NX /\ LevelSize[2] = NX /\ LevelSize[3] = 1
  /\ \A l \in Levels : LevelSize[l] \in Nat \ {0}
  /\ \A l \in {1, 2} : LevelSize[l] = LevelSize[l + 1] * NX
  /\ Levels = {1, 2, 3}
<1>1. NX \in Nat \ {0, 1}
  BY MmuAssumption DEF NX
<1>2. Levels = {1, 2, 3}
  BY DEF Levels, PAGE_TABLE_BASE_LEVEL, CONFIG_MMU_TABLE_LEVEL_MAX
<1>3. LevelSize[1] = NX * NX /\ LevelSize[2] = NX /\ LevelSize[3] = 1
  BY <1>2 DEF LevelSize, NX
<1>4. NX * NX \in Nat /\ NX * NX # 0
  <2>1. NX * 0 + NX <= NX * NX
    BY <1>1, Product
  <2> QED
    BY <1>1, <2>1
<1>5. \A l \in Levels : LevelSize[l] \in Nat \ {0}
  BY <1>1, <1>2, <1>3, <1>4
<1>6. \A l \in {1, 2} : LevelSize[l] = LevelSize[l + 1] * NX
  BY <1>1, <1>3
<1> QED
  BY <1>1, <1>2, <1>3, <1>5, <1>6

LEMMA PagesAre == VaPages \in Nat /\ VaPages = NUM_BASE_LEVEL_ENTRIES * LevelSize[1]
<1>1. LevelSize[1] \in Nat /\ NUM_BASE_LEVEL_ENTRIES \in Nat
  BY LevelSizes, MmuAssumption
<1> QED
  BY <1>1 DEF VaPages

LEMMA IndexIsEntry ==
  ASSUME NEW a \in Nat, NEW l \in Levels
  PROVE  GetVaIndex(a, l) \in Entries
<1>1. a \div LevelSize[l] \in Nat
  BY DivMod, LevelSizes
<1>2. (a \div LevelSize[l]) % NX \in 0 .. NX - 1
  BY <1>1, DivMod, LevelSizes
<1> QED
  BY <1>2 DEF GetVaIndex, Entries, NX

\* A block's number is that of the block around it and its index there; what is behind
\* the number, the index and the offset in the smaller block.
LEMMA Digits ==
  ASSUME NEW a \in Nat, NEW l \in {1, 2}
  PROVE  /\ a \div LevelSize[l + 1] = NX * (a \div LevelSize[l]) + GetVaIndex(a, l + 1)
         /\ a % LevelSize[l] = GetVaIndex(a, l + 1) * LevelSize[l + 1] + (a % LevelSize[l + 1])
<1> DEFINE n == LevelSize[l + 1]
           q == a \div n
           s == a % n
           p == q \div NX
           e == q % NX
<1>1. n \in Nat \ {0} /\ NX \in Nat \ {0} /\ LevelSize[l] = n * NX
  BY LevelSizes
<1>2. q \in Nat /\ s \in 0 .. n - 1 /\ a = n * q + s
  BY <1>1, DivMod
<1>3. e = GetVaIndex(a, l + 1)
  BY DEF GetVaIndex, NX
<1> HIDE DEF n, q, s
<1>4. p \in Nat /\ e \in 0 .. NX - 1 /\ q = NX * p + e
  BY <1>1, <1>2, DivMod
<1> HIDE DEF p, e
<1>5. e * n + s \in 0 .. (n * NX) - 1
  <2>1. n * e + n <= n * NX
    BY <1>1, <1>4, Product
  <2>2. n * e \in Nat /\ n * NX \in Nat /\ n * e = e * n
    BY <1>1, <1>4
  <2> QED
    BY <1>2, <1>1, <2>1, <2>2
<1>6. a = (n * NX) * p + (e * n + s)
  <2>1. n * (NX * p + e) = (n * NX) * p + e * n
    BY <1>1, <1>4
  <2>2. (n * NX) * p \in Nat /\ e * n \in Nat
    BY <1>1, <1>4
  <2> QED
    BY <2>1, <2>2, <1>2, <1>4
<1>7. n * NX \in Nat \ {0}
  BY <1>1, LevelSizes
<1>8. /\ ((n * NX) * p + (e * n + s)) \div (n * NX) = p
      /\ ((n * NX) * p + (e * n + s)) % (n * NX) = e * n + s
  BY <1>4, <1>5, <1>7, DivModUnique
<1>9. a \div LevelSize[l] = p /\ a % LevelSize[l] = e * n + s
  BY <1>1, <1>6, <1>8
<1> QED
  BY <1>3, <1>4, <1>9 DEF n, q, s

\* Two addresses in one block of a level.
SameBlock(l, a, b) == a \div LevelSize[l] = b \div LevelSize[l]

LEMMA SameIsIndices ==
  ASSUME NEW a \in Pages, NEW b \in Pages
  PROVE  /\ SameBlock(1, a, b) <=> GetVaIndex(a, 1) = GetVaIndex(b, 1)
         /\ \A l \in {1, 2} : SameBlock(l + 1, a, b) <=>
              SameBlock(l, a, b) /\ GetVaIndex(a, l + 1) = GetVaIndex(b, l + 1)
<1> USE DEF Pages
<1>1. a \in Nat /\ b \in Nat
  BY PagesAre
<1>2. ASSUME NEW c \in Pages
      PROVE  GetVaIndex(c, 1) = c \div LevelSize[1]
  <2> DEFINE n == LevelSize[1]
             q == c \div n
  <2>1. n \in Nat \ {0} /\ c \in Nat /\ c < NUM_BASE_LEVEL_ENTRIES * n
    <3>1. n \in Nat \ {0}
      BY LevelSizes
    <3>2. VaPages \in Nat /\ VaPages = NUM_BASE_LEVEL_ENTRIES * n
      BY PagesAre
    <3> QED
      BY <3>1, <3>2
  <2>2. q \in Nat /\ c = n * q + (c % n) /\ c % n \in 0 .. n - 1
    BY <2>1, DivMod
  <2>3. NUM_BASE_LEVEL_ENTRIES \in Nat /\ NUM_BASE_LEVEL_ENTRIES <= NX /\ NX \in Nat
    BY MmuAssumption DEF NX
  <2> HIDE DEF q, n
  <2>4. q < NUM_BASE_LEVEL_ENTRIES
    <3> SUFFICES ASSUME ~ q < NUM_BASE_LEVEL_ENTRIES PROVE FALSE
      OBVIOUS
    <3>1. PICK d \in Nat : q = NUM_BASE_LEVEL_ENTRIES + d
      <4>1. q - NUM_BASE_LEVEL_ENTRIES \in Nat
            /\ q = NUM_BASE_LEVEL_ENTRIES + (q - NUM_BASE_LEVEL_ENTRIES)
        BY <2>2, <2>3
      <4> QED
        BY <4>1
    <3>2. n * q = NUM_BASE_LEVEL_ENTRIES * n + n * d
      BY <2>1, <2>3, <3>1
    <3>3. n * d \in Nat /\ NUM_BASE_LEVEL_ENTRIES * n \in Nat
      BY <2>1, <2>3, <3>1
    <3> QED
      BY <2>1, <2>2, <3>2, <3>3
  <2>5. q % NX = q
    BY <2>2, <2>3, <2>4
  <2> QED
    BY <2>5 DEF GetVaIndex, NX, q, n
<1>3. ASSUME NEW l \in {1, 2}
      PROVE  SameBlock(l + 1, a, b) <=>
               SameBlock(l, a, b) /\ GetVaIndex(a, l + 1) = GetVaIndex(b, l + 1)
  <2> DEFINE e == GetVaIndex(a, l + 1)
             f == GetVaIndex(b, l + 1)
             p == a \div LevelSize[l]
             q == b \div LevelSize[l]
  <2>1. e \in 0 .. NX - 1 /\ f \in 0 .. NX - 1
    BY <1>1, IndexIsEntry, LevelSizes DEF Entries, NX
  <2>2. p \in Nat /\ q \in Nat
    BY <1>1, DivMod, LevelSizes
  <2>3. a \div LevelSize[l + 1] = NX * p + e /\ b \div LevelSize[l + 1] = NX * q + f
    BY <1>1, Digits
  <2> HIDE DEF e, f, p, q
  <2>4. NX * p + e = NX * q + f <=> p = q /\ e = f
    <3>1. NX \in Nat \ {0}
      BY LevelSizes
    <3>2. (NX * p + e) \div NX = p /\ (NX * p + e) % NX = e
      BY <3>1, <2>1, <2>2, DivModUnique
    <3>3. (NX * q + f) \div NX = q /\ (NX * q + f) % NX = f
      BY <3>1, <2>1, <2>2, DivModUnique
    <3> QED
      BY <3>2, <3>3
  <2> QED
    BY <2>3, <2>4 DEF SameBlock, e, f, p, q
<1> QED
  BY <1>2, <1>3 DEF SameBlock

\* The block at an aligned address.
LEMMA InBlock ==
  ASSUME NEW a \in Nat, NEW b \in Nat, NEW l \in Levels, b % LevelSize[l] = 0
  PROVE  /\ SameBlock(l, a, b) <=> a \in b .. b + LevelSize[l] - 1
         /\ SameBlock(l, a, b) => a % LevelSize[l] = a - b
<1> DEFINE n == LevelSize[l]
           p == a \div n
           q == b \div n
           s == a % n
<1>1. n \in Nat \ {0}
  BY LevelSizes
<1>2. p \in Nat /\ s \in 0 .. n - 1 /\ a = n * p + s
  BY <1>1, DivMod
<1>3. q \in Nat /\ b = n * q
  <2>1. q \in Nat /\ b = n * q + (b % n)
    BY <1>1, DivMod
  <2> QED
    BY <2>1, <1>1
<1> HIDE DEF n, p, q, s
<1>4. ASSUME a \in b .. b + (n - 1) PROVE p = q
  <2>1. a - b \in 0 .. n - 1 /\ a = n * q + (a - b)
    BY <1>1, <1>2, <1>3, <1>4
  <2> QED
    BY <1>1, <1>3, <2>1, DivModUnique DEF p
<1>5. ASSUME p = q PROVE a \in b .. b + (n - 1) /\ s = a - b
  <2>1. a = b + s
    BY <1>2, <1>3, <1>5
  <2> QED
    BY <2>1, <1>1, <1>2
<1>6. b + (n - 1) = b + n - 1
  BY <1>1
<1> QED
  BY <1>4, <1>5, <1>6 DEF SameBlock, n, p, q, s

-----------------------------------------------------------------------------
(* The tables as a tree *)

Attrs == {Attributes(b) : b \in [mem : 0 .. 5, rw : BOOLEAN, ns : BOOLEAN, xn : BOOLEAN]}

Descs == [type : {PTE_INVALID_DESC, PTE_BLOCK_DESC, PTE_TABLE_DESC}, addr : Nat, attrs : Attrs]

AllTables == [Tables -> [Entries -> Descs]]

\* The entry that links a table, its table one of the first two levels.
IsLink(x, t, e) == x[t][e].type = PTE_TABLE_DESC

Upper(x) == {0} \cup {x[0][e].addr : e \in {f \in Entries : IsLink(x, 0, f)}}

\* The linked tables are among the first i of the pool, and each has one place.
Tree(x, i) ==
  /\ \A t \in Upper(x), e \in Entries : IsLink(x, t, e) => x[t][e].addr \in 1 .. i
  /\ \A t, u \in Upper(x), e, f \in Entries :
       IsLink(x, t, e) /\ IsLink(x, u, f) /\ x[t][e].addr = x[u][f].addr => t = u /\ e = f

\* The tables on the way to an address, when the entries above link them.
Second(x, a) == x[0][GetVaIndex(a, 1)].addr

Third(x, a) == x[Second(x, a)][GetVaIndex(a, 2)].addr

TableAt(x, a, l) == IF l = 1 THEN 0 ELSE IF l = 2 THEN Second(x, a) ELSE Third(x, a)

EntryAt(x, a, l) == x[TableAt(x, a, l)][GetVaIndex(a, l)]

\* The entries above a level link tables all the way.
Open(x, a, l) == \A m \in Levels : m < l => EntryAt(x, a, m).type = PTE_TABLE_DESC

LEMMA OpenIs ==
  ASSUME NEW x, NEW a
  PROVE  /\ Open(x, a, 1)
         /\ Open(x, a, 2) <=> EntryAt(x, a, 1).type = PTE_TABLE_DESC
         /\ Open(x, a, 3) <=> Open(x, a, 2) /\ EntryAt(x, a, 2).type = PTE_TABLE_DESC
BY LevelSizes DEF Open

LEMMA TableAtIs ==
  ASSUME NEW x, NEW a
  PROVE  /\ TableAt(x, a, 1) = 0
         /\ TableAt(x, a, 2) = EntryAt(x, a, 1).addr
         /\ TableAt(x, a, 3) = EntryAt(x, a, 2).addr
BY DEF TableAt, EntryAt, Second, Third

\* An open way leads through tables of the pool, each of one level.
LEMMA OpenTables ==
  ASSUME NEW x, NEW i \in Nat, Tree(x, i), NEW a \in Nat
  PROVE  /\ Open(x, a, 2) => TableAt(x, a, 2) \in Upper(x) /\ TableAt(x, a, 2) \in 1 .. i
         /\ Open(x, a, 3) => TableAt(x, a, 3) \notin Upper(x) /\ TableAt(x, a, 3) \in 1 .. i
<1> DEFINE e1 == GetVaIndex(a, 1)
           e2 == GetVaIndex(a, 2)
<1>1. e1 \in Entries /\ e2 \in Entries
  BY IndexIsEntry, LevelSizes
<1> HIDE DEF e1, e2
<1>2. ASSUME Open(x, a, 2)
      PROVE  TableAt(x, a, 2) \in Upper(x) /\ TableAt(x, a, 2) \in 1 .. i
  <2>1. IsLink(x, 0, e1) /\ TableAt(x, a, 2) = x[0][e1].addr
    BY <1>2, OpenIs, TableAtIs DEF EntryAt, IsLink, e1
  <2> QED
    BY <1>1, <2>1 DEF Tree, Upper
<1>3. ASSUME Open(x, a, 3)
      PROVE  TableAt(x, a, 3) \notin Upper(x) /\ TableAt(x, a, 3) \in 1 .. i
  <2> DEFINE t == TableAt(x, a, 2)
  <2>1. t \in Upper(x) /\ t \in 1 .. i
    BY <1>2, <1>3, OpenIs
  <2>2. IsLink(x, t, e2) /\ TableAt(x, a, 3) = x[t][e2].addr
    BY <1>3, OpenIs, TableAtIs DEF EntryAt, IsLink, e2
  <2> HIDE DEF t
  <2>3. x[t][e2].addr \in 1 .. i
    BY <1>1, <2>1, <2>2 DEF Tree
  <2>4. ASSUME x[t][e2].addr \in Upper(x) PROVE FALSE
    <3>1. PICK f \in Entries : IsLink(x, 0, f) /\ x[t][e2].addr = x[0][f].addr
      BY <2>3, <2>4 DEF Upper
    <3>2. 0 \in Upper(x)
      BY DEF Upper
    <3>3. t = 0
      BY <1>1, <2>1, <2>2, <3>1, <3>2 DEF Tree
    <3> QED
      BY <2>1, <3>3
  <2> QED
    BY <2>2, <2>3, <2>4
<1> QED
  BY <1>2, <1>3

\* Two ways that meet at a table have come through the same entries.
LEMMA OneWay ==
  ASSUME NEW x, NEW i \in Nat, Tree(x, i), NEW a \in Pages, NEW b \in Pages,
         NEW l \in Levels, NEW m \in Levels, Open(x, a, l), Open(x, b, m),
         TableAt(x, a, l) = TableAt(x, b, m)
  PROVE  l = m /\ (GetVaIndex(a, l) = GetVaIndex(b, l) => SameBlock(l, a, b))
<1>1. a \in Nat /\ b \in Nat
  BY PagesAre DEF Pages
<1>2. ASSUME NEW c \in Nat, NEW k \in Levels, Open(x, c, k)
      PROVE  /\ k = 1 => TableAt(x, c, k) = 0
             /\ k = 2 => TableAt(x, c, k) \in Upper(x) \ {0}
             /\ k = 3 => TableAt(x, c, k) \notin Upper(x)
  BY <1>2, OpenTables, TableAtIs
<1>3. 0 \in Upper(x)
  BY DEF Upper
<1>4. l \in {1, 2, 3} /\ m \in {1, 2, 3}
  BY LevelSizes
<1>5. /\ l = 1 => TableAt(x, a, l) = 0
      /\ l = 2 => TableAt(x, a, l) \in Upper(x) \ {0}
      /\ l = 3 => TableAt(x, a, l) \notin Upper(x)
  BY <1>1, <1>2
<1>6. /\ m = 1 => TableAt(x, b, m) = 0
      /\ m = 2 => TableAt(x, b, m) \in Upper(x) \ {0}
      /\ m = 3 => TableAt(x, b, m) \notin Upper(x)
  BY <1>1, <1>2
<1>7. l = m
  BY <1>3, <1>4, <1>5, <1>6
<1> DEFINE e(c, k) == GetVaIndex(c, k)
<1>8. \A k \in Levels : e(a, k) \in Entries /\ e(b, k) \in Entries
  BY <1>1, IndexIsEntry
<1>9. ASSUME Open(x, a, 2), Open(x, b, 2), TableAt(x, a, 2) = TableAt(x, b, 2)
      PROVE  e(a, 1) = e(b, 1)
  <2>1. IsLink(x, 0, e(a, 1)) /\ IsLink(x, 0, e(b, 1))
        /\ x[0][e(a, 1)].addr = x[0][e(b, 1)].addr
    BY <1>9, OpenIs, TableAtIs DEF EntryAt, IsLink
  <2>2. e(a, 1) \in Entries /\ e(b, 1) \in Entries
    BY <1>8, LevelSizes
  <2> HIDE DEF e
  <2> QED
    BY <1>3, <2>1, <2>2 DEF Tree
<1>10. ASSUME Open(x, a, 3), Open(x, b, 3), TableAt(x, a, 3) = TableAt(x, b, 3)
       PROVE  e(a, 1) = e(b, 1) /\ e(a, 2) = e(b, 2)
  <2> DEFINE t == TableAt(x, a, 2)
             u == TableAt(x, b, 2)
  <2>1. IsLink(x, t, e(a, 2)) /\ IsLink(x, u, e(b, 2))
        /\ x[t][e(a, 2)].addr = x[u][e(b, 2)].addr
    BY <1>10, OpenIs, TableAtIs DEF EntryAt, IsLink
  <2>2. t \in Upper(x) /\ u \in Upper(x)
    BY <1>1, <1>10, OpenIs, OpenTables
  <2>3. e(a, 2) \in Entries /\ e(b, 2) \in Entries
    BY <1>8, LevelSizes
  <2> HIDE DEF e, t, u
  <2>4. t = u /\ e(a, 2) = e(b, 2)
    BY <2>1, <2>2, <2>3 DEF Tree
  <2> QED
    BY <1>9, <1>10, <2>4, OpenIs DEF t, u
<1>11. CASE l = 1
  BY <1>7, <1>11, SameIsIndices
<1>12. CASE l = 2
  <2>1. e(a, 1) = e(b, 1)
    BY <1>7, <1>9, <1>12
  <2> QED
    BY <1>7, <1>12, <2>1, SameIsIndices
<1>13. CASE l = 3
  <2>1. e(a, 1) = e(b, 1) /\ e(a, 2) = e(b, 2)
    BY <1>7, <1>10, <1>13
  <2>2. SameBlock(1, a, b)
    BY <2>1, SameIsIndices
  <2>3. SameBlock(2, a, b)
    BY <2>1, <2>2, SameIsIndices
  <2> QED
    BY <1>7, <1>13, <2>3, SameIsIndices
<1> QED
  BY <1>4, <1>11, <1>12, <1>13

\* Addresses in one block are looked up through the same entries down to its level.
LEMMA SameWay ==
  ASSUME NEW x, NEW a \in Pages, NEW b \in Pages, NEW l \in Levels, SameBlock(l, a, b),
         NEW m \in Levels, m <= l
  PROVE  /\ SameBlock(m, a, b)
         /\ GetVaIndex(a, m) = GetVaIndex(b, m)
         /\ TableAt(x, a, m) = TableAt(x, b, m)
         /\ EntryAt(x, a, m) = EntryAt(x, b, m)
         /\ Open(x, a, m) <=> Open(x, b, m)
<1>1. l \in {1, 2, 3} /\ m \in {1, 2, 3}
  BY LevelSizes
<1>2. \A k \in {1, 2} : SameBlock(k + 1, a, b) =>
        SameBlock(k, a, b) /\ GetVaIndex(a, k + 1) = GetVaIndex(b, k + 1)
  BY SameIsIndices
<1>3. SameBlock(3, a, b) => SameBlock(2, a, b) /\ GetVaIndex(a, 3) = GetVaIndex(b, 3)
  BY <1>2
<1>4. SameBlock(2, a, b) => SameBlock(1, a, b) /\ GetVaIndex(a, 2) = GetVaIndex(b, 2)
  BY <1>2
<1>5. SameBlock(1, a, b) => GetVaIndex(a, 1) = GetVaIndex(b, 1)
  BY SameIsIndices
<1>6. /\ l = 3 => SameBlock(3, a, b) /\ SameBlock(2, a, b) /\ SameBlock(1, a, b)
      /\ l = 2 => SameBlock(2, a, b) /\ SameBlock(1, a, b)
      /\ l = 1 => SameBlock(1, a, b)
  BY <1>3, <1>4
<1>7. \A k \in {1, 2, 3} : k <= l => SameBlock(k, a, b)
  BY <1>1, <1>6
<1>8. \A k \in {1, 2, 3} : k <= l => GetVaIndex(a, k) = GetVaIndex(b, k)
  <2> SUFFICES ASSUME NEW k \in {1, 2, 3}, k <= l PROVE GetVaIndex(a, k) = GetVaIndex(b, k)
    OBVIOUS
  <2> QED
    BY <1>3, <1>4, <1>5, <1>7
<1>9. \A k \in {1, 2, 3} : k <= l =>
        TableAt(x, a, k) = TableAt(x, b, k) /\ EntryAt(x, a, k) = EntryAt(x, b, k)
  <2>1. TableAt(x, a, 1) = TableAt(x, b, 1) /\ EntryAt(x, a, 1) = EntryAt(x, b, 1)
    BY <1>1, <1>8, TableAtIs DEF EntryAt
  <2>2. l >= 2 => TableAt(x, a, 2) = TableAt(x, b, 2) /\ EntryAt(x, a, 2) = EntryAt(x, b, 2)
    BY <1>8, <2>1, TableAtIs DEF EntryAt
  <2>3. l >= 3 => TableAt(x, a, 3) = TableAt(x, b, 3) /\ EntryAt(x, a, 3) = EntryAt(x, b, 3)
    BY <1>1, <1>8, <2>2, TableAtIs DEF EntryAt
  <2> QED
    BY <2>1, <2>2, <2>3, <1>1
<1>10. Open(x, a, m) <=> Open(x, b, m)
  <2>1. \A k \in Levels : k < m => EntryAt(x, a, k) = EntryAt(x, b, k)
    BY <1>1, <1>9, LevelSizes
  <2> QED
    BY <2>1 DEF Open
<1> QED
  BY <1>1, <1>7, <1>8, <1>9, <1>10

\* Of the tables up to i, only one entry is another one.
Differs(x, y, t, e, i) ==
  \A u \in Tables, f \in Entries : u <= i /\ ~(u = t /\ f = e) => y[u][f] = x[u][f]

\* Writing the entry of a block leaves what is on another way, or above.
LEMMA OtherEntry ==
  ASSUME NEW x, NEW y, NEW i \in Tables, Tree(x, i),
         NEW v \in Pages, NEW l \in Levels, Open(x, v, l),
         Differs(x, y, TableAt(x, v, l), GetVaIndex(v, l), i),
         NEW a \in Pages, NEW m \in Levels, Open(x, a, m), m # l \/ ~SameBlock(l, a, v)
  PROVE  y[TableAt(x, a, m)][GetVaIndex(a, m)] = EntryAt(x, a, m)
<1> DEFINE t == TableAt(x, a, m)
           f == GetVaIndex(a, m)
<1>1. a \in Nat /\ i \in Nat
  BY PagesAre DEF Pages, Tables
<1>2. t \in 0 .. i
  <2>1. m = 1 \/ m = 2 \/ m = 3
    BY LevelSizes
  <2>2. 0 \in 0 .. i /\ 1 .. i \subseteq 0 .. i
    BY <1>1
  <2> QED
    BY <1>1, <2>1, <2>2, OpenTables, TableAtIs
<1>3. t \in Tables /\ t <= i
  BY <1>1, <1>2, MmuAssumption DEF Tables
<1>4. f \in Entries
  BY <1>1, IndexIsEntry
<1>5. ~(t = TableAt(x, v, l) /\ f = GetVaIndex(v, l))
  BY <1>1, OneWay
<1> HIDE DEF t, f
<1>6. y[t][f] = x[t][f]
  BY <1>3, <1>4, <1>5 DEF Differs
<1> QED
  BY <1>6 DEF EntryAt, t, f

\* Outside of the block nothing that is looked up has changed.
LEMMA Elsewhere ==
  ASSUME NEW x, NEW y, NEW i \in Tables, Tree(x, i),
         NEW v \in Pages, NEW l \in Levels, Open(x, v, l),
         Differs(x, y, TableAt(x, v, l), GetVaIndex(v, l), i),
         NEW a \in Pages, ~SameBlock(l, a, v)
  PROVE  \A m \in Levels : /\ Open(y, a, m) <=> Open(x, a, m)
                           /\ Open(x, a, m) => EntryAt(y, a, m) = EntryAt(x, a, m)
<1>1. \A m \in Levels : Open(x, a, m) => y[TableAt(x, a, m)][GetVaIndex(a, m)] = EntryAt(x, a, m)
  BY OtherEntry
<1>2. EntryAt(y, a, 1) = EntryAt(x, a, 1) /\ Open(x, a, 1) /\ Open(y, a, 1)
  BY <1>1, OpenIs, TableAtIs, LevelSizes DEF EntryAt
<1>3. /\ Open(y, a, 2) <=> Open(x, a, 2)
      /\ Open(x, a, 2) => EntryAt(y, a, 2) = EntryAt(x, a, 2)
  <2>1. Open(y, a, 2) <=> Open(x, a, 2)
    BY <1>2, OpenIs
  <2>2. TableAt(y, a, 2) = TableAt(x, a, 2)
    BY <1>2, TableAtIs
  <2> QED
    BY <1>1, <2>1, <2>2, LevelSizes DEF EntryAt
<1>4. /\ Open(y, a, 3) <=> Open(x, a, 3)
      /\ Open(x, a, 3) => EntryAt(y, a, 3) = EntryAt(x, a, 3)
  <2>1. Open(y, a, 3) <=> Open(x, a, 3)
    BY <1>3, OpenIs
  <2>2. Open(x, a, 3) => TableAt(y, a, 3) = TableAt(x, a, 3)
    BY <1>3, OpenIs, TableAtIs
  <2> QED
    BY <1>1, <2>1, <2>2, LevelSizes DEF EntryAt
<1> QED
  BY <1>2, <1>3, <1>4, LevelSizes

\* In the block, the way is what it was, down to the new entry.
LEMMA Here ==
  ASSUME NEW x, NEW y, NEW i \in Tables, Tree(x, i),
         NEW v \in Pages, NEW l \in Levels, Open(x, v, l),
         Differs(x, y, TableAt(x, v, l), GetVaIndex(v, l), i),
         NEW a \in Pages, SameBlock(l, a, v)
  PROVE  /\ \A m \in Levels : m < l =>
              EntryAt(y, a, m) = EntryAt(x, v, m) /\ EntryAt(y, a, m).type = PTE_TABLE_DESC
         /\ Open(y, a, l)
         /\ TableAt(y, a, l) = TableAt(x, v, l)
         /\ EntryAt(y, a, l) = y[TableAt(x, v, l)][GetVaIndex(v, l)]
<1>1. \A m \in Levels : m <= l =>
        GetVaIndex(a, m) = GetVaIndex(v, m) /\ EntryAt(x, a, m) = EntryAt(x, v, m)
  BY SameWay
<1>2. \A m \in Levels : m <= l => Open(x, v, m)
  BY LevelSizes DEF Open
<1>3. \A m \in Levels : m < l => y[TableAt(x, v, m)][GetVaIndex(v, m)] = EntryAt(x, v, m)
  BY <1>2, OtherEntry, LevelSizes
<1>4. \A m \in Levels : m < l => EntryAt(x, v, m).type = PTE_TABLE_DESC
  BY DEF Open
<1>5. TableAt(y, a, 1) = TableAt(x, v, 1) /\ (1 < l => EntryAt(y, a, 1) = EntryAt(x, v, 1))
  BY <1>1, <1>3, TableAtIs, LevelSizes DEF EntryAt
<1>6. 2 <= l => TableAt(y, a, 2) = TableAt(x, v, 2) /\ (2 < l => EntryAt(y, a, 2) = EntryAt(x, v, 2))
  <2>1. 2 <= l => TableAt(y, a, 2) = TableAt(x, v, 2)
    BY <1>5, TableAtIs, LevelSizes
  <2> QED
    BY <2>1, <1>1, <1>3, LevelSizes DEF EntryAt
<1>7. 3 <= l => TableAt(y, a, 3) = TableAt(x, v, 3)
  BY <1>6, TableAtIs, LevelSizes
<1>8. TableAt(y, a, l) = TableAt(x, v, l)
  BY <1>5, <1>6, <1>7, LevelSizes
<1>9. \A m \in Levels : m < l =>
        EntryAt(y, a, m) = EntryAt(x, v, m) /\ EntryAt(y, a, m).type = PTE_TABLE_DESC
  BY <1>4, <1>5, <1>6, LevelSizes
<1>10. EntryAt(y, a, l) = y[TableAt(x, v, l)][GetVaIndex(v, l)]
  BY <1>1, <1>8, LevelSizes DEF EntryAt
<1> QED
  BY <1>8, <1>9, <1>10 DEF Open

-----------------------------------------------------------------------------
(* What FindPteIndex and the MMU find *)

\* Path's defining equation.
IsPath(x, a, t) ==
  t = [l \in Levels |->
         IF l = PAGE_TABLE_BASE_LEVEL THEN 0
         ELSE LET pte == x[t[l - 1]][GetVaIndex(a, l - 1)]
              IN  IF pte.type = PTE_TABLE_DESC /\ pte.addr \in Tables THEN pte.addr ELSE 0]

LEMMA PathEquation ==
  ASSUME NEW x, NEW a
  PROVE  IsPath(x, a, Path(x, a))
<1> DEFINE Next1(t, l) ==
             LET pte == x[t][GetVaIndex(a, l)]
             IN  IF pte.type = PTE_TABLE_DESC /\ pte.addr \in Tables THEN pte.addr ELSE 0
           two == Next1(0, 1)
           three == Next1(two, 2)
           w == [l \in Levels |-> IF l = 1 THEN 0 ELSE IF l = 2 THEN two ELSE three]
<1>1. Path(x, a) = CHOOSE t : IsPath(x, a, t)
  BY DEF Path, IsPath
<1>2. IsPath(x, a, w)
  <2>1. w[1] = 0 /\ w[2] = two
    BY LevelSizes
  <2>2. \A l \in Levels : w[l] = IF l = PAGE_TABLE_BASE_LEVEL THEN 0 ELSE Next1(w[l - 1], l - 1)
    <3> SUFFICES ASSUME NEW l \in Levels
                 PROVE  w[l] = IF l = PAGE_TABLE_BASE_LEVEL THEN 0 ELSE Next1(w[l - 1], l - 1)
      OBVIOUS
    <3> HIDE DEF Next1
    <3>1. l = 1 \/ l = 2 \/ l = 3
      BY LevelSizes
    <3>2. CASE l = 1
      BY <3>2 DEF PAGE_TABLE_BASE_LEVEL
    <3>3. CASE l = 2
      BY <3>3, <2>1 DEF PAGE_TABLE_BASE_LEVEL
    <3>4. CASE l = 3
      BY <3>4, <2>1 DEF PAGE_TABLE_BASE_LEVEL
    <3> QED
      BY <3>1, <3>2, <3>3, <3>4
  <2>3. w = [l \in Levels |-> w[l]]
    OBVIOUS
  <2> HIDE DEF w
  <2>4. w = [l \in Levels |-> IF l = PAGE_TABLE_BASE_LEVEL THEN 0 ELSE Next1(w[l - 1], l - 1)]
    BY <2>2, <2>3
  <2> QED
    BY <2>4 DEF IsPath
<1> HIDE DEF w
<1> QED
  BY <1>1, <1>2

\* On an open way it finds the tables.
LEMMA PathIs ==
  ASSUME NEW x, NEW i \in Tables, Tree(x, i), NEW a \in Nat, NEW l \in Levels, Open(x, a, l)
  PROVE  Path(x, a)[l] = TableAt(x, a, l)
<1> DEFINE t == Path(x, a)
<1>1. \A m \in Levels :
        t[m] = IF m = 1 THEN 0
               ELSE LET pte == x[t[m - 1]][GetVaIndex(a, m - 1)]
                    IN  IF pte.type = PTE_TABLE_DESC /\ pte.addr \in Tables THEN pte.addr ELSE 0
  BY PathEquation DEF IsPath, PAGE_TABLE_BASE_LEVEL
<1> HIDE DEF t
<1>2. t[1] = TableAt(x, a, 1)
  BY <1>1, TableAtIs, LevelSizes
<1>3. ASSUME NEW m \in {2, 3}, Open(x, a, m)
      PROVE  TableAt(x, a, m) \in Tables
  <2>1. TableAt(x, a, m) \in 1 .. i
    BY <1>3, OpenTables DEF Tables
  <2> QED
    BY <2>1, MmuAssumption DEF Tables
<1>4. ASSUME Open(x, a, 2) PROVE t[2] = TableAt(x, a, 2)
  <2> DEFINE p == x[0][GetVaIndex(a, 1)]
  <2>1. t[2] = IF p.type = PTE_TABLE_DESC /\ p.addr \in Tables THEN p.addr ELSE 0
    BY <1>1, <1>2, TableAtIs, LevelSizes
  <2>2. p.type = PTE_TABLE_DESC /\ p.addr = TableAt(x, a, 2)
    BY <1>4, OpenIs, TableAtIs DEF EntryAt
  <2> QED
    BY <1>3, <1>4, <2>1, <2>2
<1>5. ASSUME Open(x, a, 3) PROVE t[3] = TableAt(x, a, 3)
  <2> DEFINE p == x[TableAt(x, a, 2)][GetVaIndex(a, 2)]
  <2>0. t[2] = TableAt(x, a, 2)
    BY <1>4, <1>5, OpenIs
  <2>1. t[3] = IF p.type = PTE_TABLE_DESC /\ p.addr \in Tables THEN p.addr ELSE 0
    BY <1>1, <2>0, LevelSizes
  <2>2. p.type = PTE_TABLE_DESC /\ p.addr = TableAt(x, a, 3)
    BY <1>5, OpenIs, TableAtIs DEF EntryAt
  <2> QED
    BY <1>3, <1>5, <2>1, <2>2
<1> QED
  BY <1>2, <1>4, <1>5, LevelSizes DEF t

\* Walk, of any tables.
WalkIn(x, a) ==
  LET t == Path(x, a)
      d(l) == x[t[l]][GetVaIndex(a, l)]
      Out(l) == <<d(l).addr + (a % LevelSize[l]), d(l).attrs>>
  IN  CASE d(1).type = PTE_BLOCK_DESC -> Out(1)
        [] d(1).type = PTE_TABLE_DESC ->
             CASE d(2).type = PTE_BLOCK_DESC -> Out(2)
               [] d(2).type = PTE_TABLE_DESC ->
                    IF d(3).type = PTE_PAGE_DESC THEN Out(3) ELSE <<>>
               [] OTHER -> <<>>
        [] OTHER -> <<>>

\* An address's translation by the entry of a level.
Output(d, a, l) == <<d.addr + (a % LevelSize[l]), d.attrs>>

\* The type of an entry of a level that maps what it stands for.
Leaf(l) == IF l = 3 THEN PTE_PAGE_DESC ELSE PTE_BLOCK_DESC

\* The walk ends at the first entry that links no table.
LEMMA WalkEnds ==
  ASSUME NEW x, NEW i \in Tables, Tree(x, i), NEW a \in Nat,
         NEW l \in Levels, Open(x, a, l), l < 3 => EntryAt(x, a, l).type # PTE_TABLE_DESC
  PROVE  WalkIn(x, a) = IF EntryAt(x, a, l).type = Leaf(l) THEN Output(EntryAt(x, a, l), a, l)
                        ELSE <<>>
<1> DEFINE t == Path(x, a)
           d(m) == x[t[m]][GetVaIndex(a, m)]
           Out(m) == <<d(m).addr + (a % LevelSize[m]), d(m).attrs>>
<1>0. \A m \in Levels : m <= l => Open(x, a, m)
  BY LevelSizes DEF Open
<1>1. \A m \in Levels : m <= l => d(m) = EntryAt(x, a, m)
  BY <1>0, PathIs DEF EntryAt
<1>2. \A m \in Levels : m < l => d(m).type = PTE_TABLE_DESC
  BY <1>1, LevelSizes DEF Open
<1>3. d(l) = EntryAt(x, a, l)
  BY <1>1, LevelSizes
<1>4. Out(l) = Output(EntryAt(x, a, l), a, l)
  BY <1>3 DEF Output
<1>5. WalkIn(x, a) =
        CASE d(1).type = PTE_BLOCK_DESC -> Out(1)
          [] d(1).type = PTE_TABLE_DESC ->
               CASE d(2).type = PTE_BLOCK_DESC -> Out(2)
                 [] d(2).type = PTE_TABLE_DESC ->
                      IF d(3).type = PTE_PAGE_DESC THEN Out(3) ELSE <<>>
                 [] OTHER -> <<>>
          [] OTHER -> <<>>
  BY DEF WalkIn
<1> HIDE DEF d, Out
<1>6. CASE l = 1
  BY <1>3, <1>4, <1>5, <1>6 DEF Leaf, PTE_BLOCK_DESC, PTE_TABLE_DESC
<1>7. CASE l = 2
  <2>1. d(1).type = PTE_TABLE_DESC
    BY <1>2, <1>7, LevelSizes
  <2> QED
    BY <1>3, <1>4, <1>5, <1>7, <2>1 DEF Leaf, PTE_BLOCK_DESC, PTE_TABLE_DESC
<1>8. CASE l = 3
  <2>1. d(1).type = PTE_TABLE_DESC /\ d(2).type = PTE_TABLE_DESC
    BY <1>2, <1>8, LevelSizes
  <2> QED
    BY <1>3, <1>4, <1>5, <1>8, <2>1 DEF Leaf, PTE_BLOCK_DESC, PTE_TABLE_DESC
<1> QED
  BY <1>6, <1>7, <1>8, LevelSizes

\* Where it ends.
LEMMA WalkHasEnd ==
  ASSUME NEW x, NEW a
  PROVE  \E l \in Levels : Open(x, a, l) /\ (l < 3 => EntryAt(x, a, l).type # PTE_TABLE_DESC)
<1>1. CASE ~Open(x, a, 2)
  BY <1>1, OpenIs, LevelSizes
<1>2. CASE Open(x, a, 2) /\ ~Open(x, a, 3)
  BY <1>2, OpenIs, LevelSizes
<1>3. CASE Open(x, a, 3)
  BY <1>3, LevelSizes
<1> QED
  BY <1>1, <1>2, <1>3

-----------------------------------------------------------------------------
(* What a turn of the loop does to the tree and to translation *)

\* The tables of a tree are those taken from the pool, and the first one.
LEMMA UpperTables ==
  ASSUME NEW x, NEW i \in Tables, Tree(x, i)
  PROVE  Upper(x) \subseteq {t \in Tables : t <= i} /\ 0 \in Upper(x)
<1>1. 0 \in Upper(x)
  BY DEF Upper
<1>2. i \in Nat /\ i <= CONFIG_MMU_MAX_XLAT_TABLES /\ CONFIG_MMU_MAX_XLAT_TABLES \in Nat
  BY MmuAssumption DEF Tables
<1>3. ASSUME NEW e \in Entries, IsLink(x, 0, e) PROVE x[0][e].addr \in 1 .. i
  BY <1>1, <1>3 DEF Tree
<1>4. ASSUME NEW t \in Upper(x) PROVE t \in Tables /\ t <= i
  <2>1. t = 0 \/ \E e \in Entries : IsLink(x, 0, e) /\ t = x[0][e].addr
    BY DEF Upper
  <2>2. t \in 0 .. i
    BY <1>2, <1>3, <2>1
  <2> QED
    BY <1>2, <2>2 DEF Tables
<1> QED
  BY <1>1, <1>4

\* The table of the first two levels is one of the upper ones, that of the third is not.
LEMMA WhereWritten ==
  ASSUME NEW x, NEW i \in Tables, Tree(x, i), NEW v \in Pages, NEW l \in Levels, Open(x, v, l)
  PROVE  /\ l < 3 <=> TableAt(x, v, l) \in Upper(x)
         /\ l = 1 <=> TableAt(x, v, l) = 0
         /\ TableAt(x, v, l) \in Tables /\ TableAt(x, v, l) <= i
         /\ GetVaIndex(v, l) \in Entries
<1>1. v \in Nat /\ i \in Nat /\ i <= CONFIG_MMU_MAX_XLAT_TABLES
      /\ CONFIG_MMU_MAX_XLAT_TABLES \in Nat
  BY PagesAre, MmuAssumption DEF Pages, Tables
<1>2. GetVaIndex(v, l) \in Entries
  BY <1>1, IndexIsEntry
<1>3. 0 \in Upper(x)
  BY UpperTables
<1>4. /\ l = 1 => TableAt(x, v, l) = 0
      /\ l = 2 => TableAt(x, v, l) \in Upper(x) /\ TableAt(x, v, l) \in 1 .. i
      /\ l = 3 => TableAt(x, v, l) \notin Upper(x) /\ TableAt(x, v, l) \in 1 .. i
  BY <1>1, OpenTables, TableAtIs
<1> HIDE DEF Tables
<1>5. TableAt(x, v, l) \in 0 .. i
  BY <1>1, <1>4, LevelSizes
<1>6. TableAt(x, v, l) \in Tables /\ TableAt(x, v, l) <= i
  BY <1>1, <1>5 DEF Tables
<1>7. l < 3 <=> TableAt(x, v, l) \in Upper(x)
  BY <1>3, <1>4, LevelSizes
<1>8. l = 1 <=> TableAt(x, v, l) = 0
  BY <1>1, <1>4, LevelSizes
<1> QED
  BY <1>2, <1>6, <1>7, <1>8

\* A block or a page instead of an entry: what it linked is lost, nothing else.
LEMMA TreeKept ==
  ASSUME NEW x, NEW y, NEW i \in Tables, Tree(x, i),
         NEW v \in Pages, NEW l \in Levels, Open(x, v, l),
         Differs(x, y, TableAt(x, v, l), GetVaIndex(v, l), i),
         y[TableAt(x, v, l)][GetVaIndex(v, l)].type = Leaf(l)
  PROVE  Tree(y, i)
<1> DEFINE t == TableAt(x, v, l)
           e == GetVaIndex(v, l)
<1>1. /\ l < 3 <=> t \in Upper(x)
      /\ t \in Tables /\ t <= i /\ e \in Entries
      /\ l = 1 <=> t = 0
  BY WhereWritten
<1>2. /\ Upper(x) \subseteq {u \in Tables : u <= i}
      /\ 0 \in Upper(x)
  BY UpperTables
<1>3. y[t][e].type = Leaf(l) /\ Differs(x, y, t, e, i)
  OBVIOUS
<1> HIDE DEF t, e
<1>4. ASSUME NEW u \in Upper(x), NEW f \in Entries, IsLink(y, u, f)
      PROVE  y[u][f] = x[u][f] /\ IsLink(x, u, f)
  <2>1. CASE u = t /\ f = e
    BY <1>1, <1>3, <1>4, <2>1, LevelSizes DEF IsLink, Leaf, PTE_BLOCK_DESC, PTE_TABLE_DESC
  <2>2. CASE ~(u = t /\ f = e)
    BY <1>2, <1>3, <1>4, <2>2 DEF Differs, IsLink
  <2> QED
    BY <2>1, <2>2
<1>5. Upper(y) \subseteq Upper(x)
  BY <1>2, <1>4 DEF Upper
<1> QED
  BY <1>4, <1>5 DEF Tree

\* A new table in the place of an entry that linked none.
LEMMA TreeGrows ==
  ASSUME NEW x, NEW y, NEW i \in Tables, Tree(x, i),
         NEW v \in Pages, NEW l \in {1, 2}, Open(x, v, l),
         Differs(x, y, TableAt(x, v, l), GetVaIndex(v, l), i),
         y[TableAt(x, v, l)][GetVaIndex(v, l)].type = PTE_TABLE_DESC,
         y[TableAt(x, v, l)][GetVaIndex(v, l)].addr = i + 1,
         EntryAt(x, v, l).type # PTE_TABLE_DESC,
         l = 1 => \A f \in Entries : y[i + 1][f].type # PTE_TABLE_DESC
  PROVE  Tree(y, i + 1)
<1> DEFINE t == TableAt(x, v, l)
           e == GetVaIndex(v, l)
<1>0. l \in Levels
  BY LevelSizes
<1>1. /\ t \in Upper(x)
      /\ t \in Tables /\ t <= i /\ e \in Entries
      /\ l = 1 <=> t = 0
  BY <1>0, WhereWritten
<1>2. /\ Upper(x) \subseteq {u \in Tables : u <= i}
      /\ 0 \in Upper(x)
  BY UpperTables
<1>3. IsLink(y, t, e) /\ y[t][e].addr = i + 1 /\ Differs(x, y, t, e, i) /\ ~IsLink(x, t, e)
  BY DEF EntryAt, IsLink
<1>4. i \in Nat
  BY DEF Tables
<1> HIDE DEF t, e
<1>5. ASSUME NEW u \in Upper(x), NEW f \in Entries, ~(u = t /\ f = e)
      PROVE  y[u][f] = x[u][f]
  BY <1>2, <1>3, <1>5 DEF Differs
<1>6. ASSUME NEW u \in Upper(y) \ Upper(x)
      PROVE  l = 1 /\ u = i + 1
  <2>1. PICK f \in Entries : IsLink(y, 0, f) /\ u = y[0][f].addr
    BY <1>6, <1>2 DEF Upper
  <2>2. 0 = t /\ f = e
    BY <1>2, <1>5, <1>6, <2>1 DEF Upper, IsLink
  <2> QED
    BY <1>1, <1>3, <2>1, <2>2
<1>7. ASSUME NEW u \in Upper(y), NEW f \in Entries, IsLink(y, u, f)
      PROVE  \/ u = t /\ f = e /\ y[u][f].addr = i + 1
             \/ u \in Upper(x) /\ IsLink(x, u, f) /\ y[u][f].addr = x[u][f].addr
  <2>1. u \in Upper(x)
    BY <1>6, <1>7 DEF IsLink
  <2> QED
    BY <1>3, <1>5, <1>7, <2>1 DEF IsLink
<1>8. \A u \in Upper(x), f \in Entries : IsLink(x, u, f) => x[u][f].addr \in 1 .. i
  BY DEF Tree
<1>9. \A u \in Upper(y), f \in Entries : IsLink(y, u, f) => y[u][f].addr \in 1 .. i + 1
  BY <1>4, <1>7, <1>8
<1>10. ASSUME NEW u \in Upper(y), NEW w \in Upper(y), NEW f \in Entries, NEW g \in Entries,
              IsLink(y, u, f), IsLink(y, w, g), y[u][f].addr = y[w][g].addr
       PROVE  u = w /\ f = g
  <2>1. \/ u = t /\ f = e /\ y[u][f].addr = i + 1
        \/ u \in Upper(x) /\ IsLink(x, u, f) /\ y[u][f].addr = x[u][f].addr
    BY <1>7, <1>10
  <2>2. \/ w = t /\ g = e /\ y[w][g].addr = i + 1
        \/ w \in Upper(x) /\ IsLink(x, w, g) /\ y[w][g].addr = x[w][g].addr
    BY <1>7, <1>10
  <2>3. CASE y[u][f].addr = i + 1
    BY <1>4, <1>8, <1>10, <2>1, <2>2, <2>3
  <2>4. CASE y[u][f].addr # i + 1
    BY <1>10, <2>1, <2>2, <2>4 DEF Tree
  <2> QED
    BY <2>3, <2>4
<1> QED
  BY <1>9, <1>10 DEF Tree

\* Translation outside of the block.
LEMMA WalkElsewhere ==
  ASSUME NEW x, NEW y, NEW i \in Tables, Tree(x, i), NEW j \in Tables, Tree(y, j),
         NEW v \in Pages, NEW l \in Levels, Open(x, v, l),
         Differs(x, y, TableAt(x, v, l), GetVaIndex(v, l), i),
         NEW a \in Pages, ~SameBlock(l, a, v)
  PROVE  WalkIn(y, a) = WalkIn(x, a)
<1>1. a \in Nat
  BY PagesAre DEF Pages
<1>2. PICK m \in Levels : Open(x, a, m) /\ (m < 3 => EntryAt(x, a, m).type # PTE_TABLE_DESC)
  BY WalkHasEnd
<1>3. Open(y, a, m) /\ EntryAt(y, a, m) = EntryAt(x, a, m)
  BY <1>2, Elsewhere
<1>4. WalkIn(x, a) = IF EntryAt(x, a, m).type = Leaf(m) THEN Output(EntryAt(x, a, m), a, m)
                     ELSE <<>>
  BY <1>1, <1>2, WalkEnds
<1>5. WalkIn(y, a) = IF EntryAt(y, a, m).type = Leaf(m) THEN Output(EntryAt(y, a, m), a, m)
                     ELSE <<>>
  BY <1>1, <1>2, <1>3, WalkEnds
<1> QED
  BY <1>3, <1>4, <1>5

\* Translation in a block that was mapped.
LEMMA WalkMapped ==
  ASSUME NEW x, NEW y, NEW i \in Tables, Tree(x, i), Tree(y, i),
         NEW v \in Pages, NEW l \in Levels, Open(x, v, l),
         Differs(x, y, TableAt(x, v, l), GetVaIndex(v, l), i),
         NEW d, y[TableAt(x, v, l)][GetVaIndex(v, l)] = d, d.type = Leaf(l),
         NEW a \in Pages, SameBlock(l, a, v)
  PROVE  WalkIn(y, a) = Output(d, a, l)
<1>1. a \in Nat
  BY PagesAre DEF Pages
<1>2. Open(y, a, l) /\ EntryAt(y, a, l) = d
  BY Here
<1>3. l < 3 => d.type # PTE_TABLE_DESC
  BY LevelSizes DEF Leaf, PTE_BLOCK_DESC, PTE_TABLE_DESC
<1> QED
  BY <1>1, <1>2, <1>3, WalkEnds

\* Translation in a block whose entry gets a table: the table's entries decide.
LEMMA WalkBelow ==
  ASSUME NEW x, NEW y, NEW i \in Tables, Tree(x, i), NEW j \in Tables, Tree(y, j),
         NEW v \in Pages, NEW l \in {1, 2}, Open(x, v, l),
         Differs(x, y, TableAt(x, v, l), GetVaIndex(v, l), i),
         y[TableAt(x, v, l)][GetVaIndex(v, l)].type = PTE_TABLE_DESC,
         y[TableAt(x, v, l)][GetVaIndex(v, l)].addr = j,
         NEW a \in Pages, SameBlock(l, a, v),
         NEW d, y[j][GetVaIndex(a, l + 1)] = d, l + 1 < 3 => d.type # PTE_TABLE_DESC
  PROVE  WalkIn(y, a) = IF d.type = Leaf(l + 1) THEN Output(d, a, l + 1) ELSE <<>>
<1>1. a \in Nat /\ l \in Levels /\ l + 1 \in Levels
  BY PagesAre, LevelSizes DEF Pages
<1>2. Open(y, a, l) /\ EntryAt(y, a, l) = y[TableAt(x, v, l)][GetVaIndex(v, l)]
  BY <1>1, Here
<1>3. Open(y, a, l + 1) /\ TableAt(y, a, l + 1) = j
  BY <1>2, OpenIs, TableAtIs
<1>4. EntryAt(y, a, l + 1) = d
  BY <1>3 DEF EntryAt
<1> QED
  BY <1>1, <1>3, <1>4, WalkEnds

-----------------------------------------------------------------------------
(* The invariant *)

TypeOK ==
  /\ regions \in Layouts
  /\ r \in 1 .. Len(regions)
  /\ va \in Nat
  /\ size \in Nat
  /\ level \in Levels
  /\ xlat \in AllTables
  /\ idx \in Tables
  /\ panic \in BOOLEAN

\* CheckMmuConfigs let the guest regions pass.
InRange ==
  ~panic => \A k \in 1 .. Len(regions) : regions[k].base_va + regions[k].size <= VaPages

\* What is left of the region is its end.
Progress == va + size = Region.base_va + Region.size /\ Region.base_va <= va

\* The pool's tables are all zero until they are taken.
FreeTables == \A t \in Tables : t > idx => xlat[t] = [e \in Entries |-> Zero]

\* The loop has come to its level through entries that link tables.
WayOpen == size > 0 /\ ~panic => Open(xlat, va, level)

\* What TranslatesAsLastRegion asks of an address.
Covering(a) == {k \in 1 .. Len(regions) : a \in Mapped(k)}

Last(S) == CHOOSE k \in S : \A j \in S : j <= k

At(a, k) == <<regions[k].base_pa + (a - regions[k].base_va), Attributes(regions[k].attrs)>>

Target(a) == IF Covering(a) = {} THEN <<>> ELSE At(a, Last(Covering(a)))

MmuInv ==
  /\ TypeOK
  /\ InRange
  /\ Progress
  /\ FreeTables
  /\ Tree(xlat, idx)
  /\ WayOpen
  /\ ~panic => \A a \in Pages : WalkIn(xlat, a) = Target(a)

LEMMA LayoutsAre ==
  ASSUME NEW rs \in Layouts
  PROVE  /\ Len(rs) \in Nat \ {0}
         /\ \A k \in 1 .. Len(rs) : rs[k] \in MmuRegions
         /\ GuestRegions \in Nat /\ GuestRegions <= Len(rs)
<1>1. rs \in Seq(MmuRegions) /\ rs # <<>> /\ GuestRegions <= Len(rs) /\ GuestRegions \in Nat
  BY MmuAssumption
<1> QED
  BY <1>1

LEMMA RegionIs ==
  ASSUME TypeOK
  PROVE  /\ Region \in MmuRegions
         /\ Region.base_va \in Nat /\ Region.base_pa \in Nat /\ Region.size \in Nat
         /\ Attributes(Region.attrs) \in Attrs
<1>1. Region \in MmuRegions
  BY LayoutsAre DEF TypeOK, Region
<1> QED
  BY <1>1 DEF MmuRegions, Attrs

LEMMA DescIs ==
  ASSUME NEW type \in {PTE_INVALID_DESC, PTE_BLOCK_DESC, PTE_TABLE_DESC}, NEW addr \in Nat,
         NEW attrs \in Attrs
  PROVE  /\ Desc(type, addr, attrs) \in Descs
         /\ Desc(type, addr, attrs).type = type
         /\ Desc(type, addr, attrs).addr = addr
         /\ Desc(type, addr, attrs).attrs = attrs
BY DEF Desc, Descs

LEMMA ZeroIs == Zero \in Descs /\ Zero.type = PTE_INVALID_DESC /\ Attributes(Plain) \in Attrs
<1>1. Attributes(Plain) \in Attrs
  <2>1. Plain \in [mem : 0 .. 5, rw : BOOLEAN, ns : BOOLEAN, xn : BOOLEAN]
    BY DEF Plain, kDevicenGnRnE
  <2> HIDE DEF Plain
  <2> QED
    BY <2>1 DEF Attrs
<1> QED
  BY <1>1, DescIs DEF Zero

\* One entry is written.
With(x, t, e, d) == [x EXCEPT ![t][e] = d]

LEMMA Written ==
  ASSUME NEW x \in AllTables, NEW t \in Tables, NEW e \in Entries, NEW d \in Descs
  PROVE  /\ With(x, t, e, d) \in AllTables
         /\ With(x, t, e, d)[t][e] = d
         /\ \A i : Differs(x, With(x, t, e, d), t, e, i)
         /\ \A u \in Tables : u # t => With(x, t, e, d)[u] = x[u]
BY DEF AllTables, Differs, With

\* A turn of the loop is at a page of the region, on an open way.
LEMMA AtTurn ==
  ASSUME MmuInv, ~panic, size > 0
  PROVE  /\ va \in Pages
         /\ va .. va + size - 1 \subseteq Pages
         /\ Open(xlat, va, level)
         /\ Pte[1] = TableAt(xlat, va, level) /\ Pte[2] = GetVaIndex(va, level)
         /\ Pte[1] \in Tables /\ Pte[2] \in Entries /\ Pte[1] <= idx
         /\ OldDesc = EntryAt(xlat, va, level)
         /\ ~Fits => level \in {1, 2}
<1>1. /\ regions \in Layouts /\ r \in 1 .. Len(regions) /\ va \in Nat /\ size \in Nat
      /\ level \in Levels /\ idx \in Tables
  BY DEF MmuInv, TypeOK
<1>2. va \in Pages /\ va .. va + size - 1 \subseteq Pages
  <2>1. Region.base_va + Region.size <= VaPages
    BY <1>1 DEF MmuInv, InRange, Region
  <2>2. va + size = Region.base_va + Region.size
    BY DEF MmuInv, Progress
  <2> QED
    BY <1>1, <2>1, <2>2, PagesAre DEF Pages
<1>3. Open(xlat, va, level)
  BY DEF MmuInv, WayOpen
<1>4. Path(xlat, va)[level] = TableAt(xlat, va, level)
  BY <1>1, <1>3, PathIs DEF MmuInv
<1>5. Pte[1] = TableAt(xlat, va, level) /\ Pte[2] = GetVaIndex(va, level)
  BY <1>4 DEF Pte, FindPteIndex
<1>6. Pte[1] \in Tables /\ Pte[2] \in Entries /\ Pte[1] <= idx
  BY <1>1, <1>2, <1>3, <1>5, WhereWritten DEF MmuInv
<1>7. OldDesc = EntryAt(xlat, va, level)
  BY <1>5 DEF OldDesc, EntryAt
<1>8. ~Fits => level \in {1, 2}
  <2>1. level = 3 => Fits
    BY <1>1, LevelSizes DEF Fits
  <2> QED
    BY <1>1, <2>1, LevelSizes
<1> QED
  BY <1>2, <1>3, <1>5, <1>6, <1>7, <1>8

BlockDesc == Desc(Leaf(level), Region.base_pa + (va - Region.base_va), Attributes(Region.attrs))

LEMMA MapBlockWrites ==
  ASSUME MmuInv, ~panic, size > 0, MapBlock
  PROVE  /\ xlat' \in AllTables
         /\ xlat'[Pte[1]][Pte[2]] = BlockDesc
         /\ BlockDesc.type = Leaf(level)
         /\ BlockDesc.addr = Region.base_pa + (va - Region.base_va)
         /\ BlockDesc.attrs = Attributes(Region.attrs)
         /\ \A i : Differs(xlat, xlat', TableAt(xlat, va, level), GetVaIndex(va, level), i)
         /\ \A t \in Tables : t > idx => xlat'[t] = xlat[t]
         /\ va \in Nat /\ size \in Nat /\ level \in Levels
<1>1. TypeOK /\ Progress
  BY DEF MmuInv
<1>2. /\ va \in Nat /\ size \in Nat /\ level \in Levels /\ xlat \in AllTables /\ idx \in Tables
      /\ Region.base_pa \in Nat /\ Region.base_va \in Nat /\ Region.base_va <= va
      /\ Attributes(Region.attrs) \in Attrs
  BY <1>1, RegionIs DEF TypeOK, Progress
<1>3. /\ Pte[1] \in Tables /\ Pte[2] \in Entries /\ Pte[1] <= idx
      /\ Pte[1] = TableAt(xlat, va, level) /\ Pte[2] = GetVaIndex(va, level)
  BY AtTurn
<1>4. xlat' = With(xlat, Pte[1], Pte[2], BlockDesc)
  BY DEF MapBlock, SetPte, BlockDesc, Leaf, With
<1>5. /\ BlockDesc \in Descs
      /\ BlockDesc.type = Leaf(level)
      /\ BlockDesc.addr = Region.base_pa + (va - Region.base_va)
      /\ BlockDesc.attrs = Attributes(Region.attrs)
  <2>1. Region.base_pa + (va - Region.base_va) \in Nat
    BY <1>2
  <2>2. Leaf(level) \in {PTE_INVALID_DESC, PTE_BLOCK_DESC, PTE_TABLE_DESC}
    BY DEF Leaf, PTE_PAGE_DESC, PTE_BLOCK_DESC, PTE_TABLE_DESC, PTE_INVALID_DESC
  <2> QED
    BY <1>2, <2>1, <2>2, DescIs DEF BlockDesc
<1>6. /\ xlat' \in AllTables
      /\ xlat'[Pte[1]][Pte[2]] = BlockDesc
      /\ \A i : Differs(xlat, xlat', Pte[1], Pte[2], i)
      /\ \A u \in Tables : u # Pte[1] => xlat'[u] = xlat[u]
  <2>1. xlat \in AllTables /\ Pte[1] \in Tables /\ Pte[2] \in Entries /\ BlockDesc \in Descs
    BY <1>2, <1>3, <1>5
  <2> QED
    BY <1>4, <2>1, Written
<1>7. \A t \in Tables : t > idx => t # Pte[1]
  BY <1>2, <1>3, MmuAssumption DEF Tables
<1> QED
  BY <1>2, <1>3, <1>5, <1>6, <1>7

\* A table taken from the pool: empty or with the parts of the block.
Taken(y, s) ==
  /\ idx' = idx + 1 /\ idx' \in Tables /\ idx \in Nat
  /\ y \in AllTables
  /\ y[Pte[1]][Pte[2]].type = PTE_TABLE_DESC
  /\ y[Pte[1]][Pte[2]].addr = idx'
  /\ Differs(xlat, y, TableAt(xlat, va, level), GetVaIndex(va, level), idx)
  /\ y[idx'] = s
  /\ \A t \in Tables : t > idx' => y[t] = xlat[t]

LEMMA NewTableWrites ==
  ASSUME MmuInv, ~panic, size > 0, NewTable, idx < CONFIG_MMU_MAX_XLAT_TABLES
  PROVE  Taken(xlat', [e \in Entries |-> Zero])
<1>1. /\ xlat \in AllTables /\ idx \in Tables /\ idx \in Nat
      /\ CONFIG_MMU_MAX_XLAT_TABLES \in Nat
  BY MmuAssumption DEF MmuInv, TypeOK, Tables
<1>2. /\ Pte[1] \in Tables /\ Pte[2] \in Entries /\ Pte[1] <= idx
      /\ Pte[1] = TableAt(xlat, va, level) /\ Pte[2] = GetVaIndex(va, level)
  BY AtTurn
<1>3. idx' = idx + 1 /\ idx' \in Tables /\ idx' \in Nat
  BY <1>1 DEF NewTable, NoTable, Tables
<1> DEFINE d == Desc(PTE_TABLE_DESC, idx', Attributes(Plain))
<1>4. xlat' = With(xlat, Pte[1], Pte[2], d)
  BY <1>1 DEF NewTable, NoTable, SetPte, With
<1>5. d \in Descs /\ d.type = PTE_TABLE_DESC /\ d.addr = idx'
  BY <1>3, ZeroIs, DescIs
<1> HIDE DEF d
<1>6. /\ xlat' \in AllTables
      /\ xlat'[Pte[1]][Pte[2]] = d
      /\ \A i : Differs(xlat, xlat', Pte[1], Pte[2], i)
      /\ \A u \in Tables : u # Pte[1] => xlat'[u] = xlat[u]
  <2>1. xlat \in AllTables /\ Pte[1] \in Tables /\ Pte[2] \in Entries /\ d \in Descs
    BY <1>1, <1>2, <1>5
  <2> QED
    BY <1>4, <2>1, Written
<1>7. \A t \in Tables : t > idx => xlat'[t] = xlat[t]
  BY <1>1, <1>2, <1>6 DEF Tables
<1>8. xlat[idx'] = [e \in Entries |-> Zero]
  BY <1>1, <1>3 DEF MmuInv, FreeTables
<1>9. xlat'[idx'] = [e \in Entries |-> Zero]
  BY <1>1, <1>3, <1>7, <1>8
<1>10. \A t \in Tables : t > idx' => xlat'[t] = xlat[t]
  BY <1>1, <1>3, <1>7 DEF Tables
<1> QED
  BY <1>1, <1>2, <1>3, <1>5, <1>6, <1>9, <1>10 DEF Taken

\* A part of a split block.
Part(d, e, l) ==
  [d EXCEPT !.addr = @ + e * LevelSize[l + 1], !.type = IF l = 2 THEN PTE_PAGE_DESC ELSE @]

LEMMA PartIs ==
  ASSUME NEW d \in Descs, d.type = PTE_BLOCK_DESC, NEW e \in Entries, NEW l \in {1, 2}
  PROVE  /\ Part(d, e, l) \in Descs
         /\ Part(d, e, l).type = Leaf(l + 1)
         /\ Part(d, e, l).addr = d.addr + e * LevelSize[l + 1]
         /\ Part(d, e, l).attrs = d.attrs
<1> DEFINE n == LevelSize[l + 1]
<1>1. e \in Nat /\ n \in Nat
  BY LevelSizes DEF Entries
<1>2. d.addr \in Nat /\ d.attrs \in Attrs
  BY DEF Descs
<1> HIDE DEF n
<1>3. d.addr + e * n \in Nat
  <2>1. e * n \in Nat
    BY <1>1
  <2> QED
    BY <1>2, <2>1
<1>4. Part(d, e, l) = [type |-> Leaf(l + 1), addr |-> d.addr + e * n, attrs |-> d.attrs]
  <2>1. Part(d, e, l) = [d EXCEPT !.addr = @ + e * n, !.type = Leaf(l + 1)]
    <3>1. CASE l = 1
      BY <3>1 DEF Part, Leaf, Descs, PTE_PAGE_DESC, PTE_BLOCK_DESC, n
    <3>2. CASE l = 2
      BY <3>2 DEF Part, Leaf, Descs, PTE_PAGE_DESC, PTE_BLOCK_DESC, n
    <3> QED
      BY <3>1, <3>2
  <2>2. d = [type |-> d.type, addr |-> d.addr, attrs |-> d.attrs]
    BY DEF Descs
  <2> QED
    BY <2>1, <2>2
<1>5. Leaf(l + 1) \in {PTE_INVALID_DESC, PTE_BLOCK_DESC, PTE_TABLE_DESC}
  BY DEF Leaf, PTE_PAGE_DESC, PTE_BLOCK_DESC, PTE_TABLE_DESC
<1> QED
  BY <1>2, <1>3, <1>4, <1>5 DEF Descs, n

LEMMA SplitWrites ==
  ASSUME MmuInv, ~panic, size > 0, SplitPteBlockDesc, idx < CONFIG_MMU_MAX_XLAT_TABLES
  PROVE  Taken(xlat', [e \in Entries |-> Part(OldDesc, e, level)])
<1>1. /\ xlat \in AllTables /\ idx \in Tables /\ idx \in Nat
      /\ CONFIG_MMU_MAX_XLAT_TABLES \in Nat
  BY MmuAssumption DEF MmuInv, TypeOK, Tables
<1>2. /\ Pte[1] \in Tables /\ Pte[2] \in Entries /\ Pte[1] <= idx
      /\ Pte[1] = TableAt(xlat, va, level) /\ Pte[2] = GetVaIndex(va, level)
      /\ level \in {1, 2}
  BY AtTurn DEF SplitPteBlockDesc
<1>3. idx' = idx + 1 /\ idx' \in Tables /\ idx' \in Nat
  BY <1>1 DEF SplitPteBlockDesc, NoTable, Tables
<1> DEFINE d == Desc(PTE_TABLE_DESC, idx', Attributes(Plain))
           s == [e \in Entries |-> Part(OldDesc, e, level)]
           z == [xlat EXCEPT ![idx'] = s]
<1>4. xlat' = With(z, Pte[1], Pte[2], d)
  <2>1. s = Split
    BY DEF Split, Part
  <2>2. xlat' = SetPte([xlat EXCEPT ![idx'] = Split], d)
    BY <1>1 DEF SplitPteBlockDesc, NoTable
  <2> QED
    BY <2>1, <2>2 DEF SetPte, With
<1>5. d \in Descs /\ d.type = PTE_TABLE_DESC /\ d.addr = idx'
  BY <1>3, ZeroIs, DescIs
<1>6. OldDesc \in Descs
  BY <1>1, <1>2 DEF OldDesc, AllTables
<1>7. s \in [Entries -> Descs]
  <2>1. OldDesc.type = PTE_BLOCK_DESC
    BY DEF SplitPteBlockDesc
  <2> QED
    BY <1>2, <1>6, <2>1, PartIs
<1> HIDE DEF d, s
<1>8. z \in AllTables /\ z[idx'] = s /\ \A t \in Tables : t # idx' => z[t] = xlat[t]
  BY <1>1, <1>3, <1>7 DEF AllTables
<1> HIDE DEF z
<1>9. /\ xlat' \in AllTables
      /\ xlat'[Pte[1]][Pte[2]] = d
      /\ \A i : Differs(z, xlat', Pte[1], Pte[2], i)
      /\ \A u \in Tables : u # Pte[1] => xlat'[u] = z[u]
  <2>1. z \in AllTables /\ Pte[1] \in Tables /\ Pte[2] \in Entries /\ d \in Descs
    BY <1>2, <1>5, <1>8
  <2> QED
    BY <1>4, <2>1, Written
<1>10. xlat'[idx'] = s
  BY <1>1, <1>2, <1>3, <1>8, <1>9 DEF Tables
<1>11. \A t \in Tables : t > idx' => xlat'[t] = xlat[t]
  BY <1>1, <1>2, <1>3, <1>8, <1>9 DEF Tables
<1>12. Differs(xlat, xlat', Pte[1], Pte[2], idx)
  BY <1>1, <1>3, <1>8, <1>9 DEF Differs, Tables
<1> QED
  BY <1>1, <1>2, <1>3, <1>5, <1>9, <1>10, <1>11, <1>12 DEF Taken, s

LEMMA InitIsInv == Init => MmuInv
<1> SUFFICES ASSUME Init PROVE MmuInv
  OBVIOUS
<1> DEFINE zeros == [e \in Entries |-> Zero]
<1>1. /\ regions \in Layouts /\ r = 1 /\ va = regions[1].base_va /\ size = regions[1].size
      /\ level = 1 /\ xlat = [t \in Tables |-> zeros] /\ idx = 0
      /\ panic = ~CheckMmuConfigs(regions)
  BY DEF Init, PAGE_TABLE_BASE_LEVEL
<1>2. Len(regions) \in Nat \ {0} /\ r \in 1 .. Len(regions) /\ Region \in MmuRegions
  <2>1. Len(regions) \in Nat \ {0} /\ \A k \in 1 .. Len(regions) : regions[k] \in MmuRegions
    BY <1>1, LayoutsAre
  <2> QED
    BY <1>1, <2>1 DEF Region
<1>3. TypeOK
  <2>1. zeros \in [Entries -> Descs]
    BY ZeroIs
  <2> HIDE DEF zeros
  <2>2. xlat \in AllTables
    BY <1>1, <2>1 DEF AllTables
  <2>3. va \in Nat /\ size \in Nat
    BY <1>1, <1>2 DEF Region, MmuRegions
  <2>4. idx \in Tables
    BY <1>1, MmuAssumption DEF Tables
  <2>5. level \in Levels
    BY <1>1, LevelSizes
  <2>6. panic \in BOOLEAN
    BY <1>1
  <2> QED
    BY <1>1, <1>2, <2>2, <2>3, <2>4, <2>5, <2>6 DEF TypeOK
<1>4. InRange
  <2> SUFFICES ASSUME ~panic, NEW k \in 1 .. Len(regions)
               PROVE  regions[k].base_va + regions[k].size <= VaPages
    BY DEF InRange
  <2>1. k \in Nat /\ GuestRegions \in Nat
    BY <1>2, MmuAssumption
  <2>2. CASE k <= GuestRegions
    <3>1. CheckMmuConfigs(regions)
      BY <1>1
    <3>2. k \in 1 .. GuestRegions
      BY <2>1, <2>2
    <3> QED
      BY <3>1, <3>2 DEF CheckMmuConfigs
  <2>3. CASE k > GuestRegions
    BY <1>1, <2>3, MmuAssumption
  <2> QED
    BY <2>1, <2>2, <2>3
<1>5. Progress
  BY <1>1, <1>2 DEF Progress, Region, MmuRegions
<1>6. FreeTables
  BY <1>1 DEF FreeTables
<1>7. 0 \in Tables
  BY MmuAssumption DEF Tables
<1>8. \A e \in Entries : xlat[0][e].type # PTE_TABLE_DESC
  <2>1. xlat[0] = zeros
    BY <1>1, <1>7
  <2>2. \A e \in Entries : zeros[e].type # PTE_TABLE_DESC
    BY ZeroIs DEF PTE_INVALID_DESC, PTE_TABLE_DESC
  <2> QED
    BY <2>1, <2>2
<1>9. Tree(xlat, idx)
  <2>1. Upper(xlat) = {0}
    BY <1>8 DEF Upper, IsLink
  <2> QED
    BY <1>8, <2>1 DEF Tree, IsLink
<1>10. WayOpen
  BY <1>1, OpenIs DEF WayOpen
<1>11. ASSUME NEW a \in Pages PROVE WalkIn(xlat, a) = Target(a)
  <2>1. a \in Nat /\ 1 \in Levels /\ idx \in Tables
    BY <1>3, PagesAre, LevelSizes DEF Pages, TypeOK
  <2>2. EntryAt(xlat, a, 1) = Zero
    <3>1. GetVaIndex(a, 1) \in Entries
      BY <2>1, IndexIsEntry
    <3>2. xlat[0] = zeros
      BY <1>1, <1>7
    <3> QED
      BY <3>1, <3>2, TableAtIs DEF EntryAt
  <2>3. WalkIn(xlat, a) = <<>>
    <3>1. /\ EntryAt(xlat, a, 1).type # PTE_TABLE_DESC
          /\ EntryAt(xlat, a, 1).type # Leaf(1)
      BY <2>2, ZeroIs DEF Leaf, PTE_BLOCK_DESC, PTE_TABLE_DESC, PTE_INVALID_DESC
    <3>2. Open(xlat, a, 1)
      BY OpenIs
    <3> QED
      BY <1>9, <2>1, <3>1, <3>2, WalkEnds
  <2>4. Covering(a) = {}
    <3>1. \A k \in 1 .. Len(regions) : Mapped(k) = {}
      <4> SUFFICES ASSUME NEW k \in 1 .. Len(regions) PROVE Mapped(k) = {}
        OBVIOUS
      <4>1. CASE k = r
        <5>1. Mapped(k) = va .. va - 1 /\ va \in Nat
          BY <1>1, <1>3, <4>1 DEF Mapped, TypeOK
        <5> QED
          BY <5>1
      <4>2. CASE k > r
        BY <1>1, <1>2, <4>2 DEF Mapped
      <4> QED
        BY <1>1, <1>2, <4>1, <4>2
    <3> QED
      BY <3>1 DEF Covering
  <2> QED
    BY <2>3, <2>4 DEF Target
<1> QED
  BY <1>3, <1>4, <1>5, <1>6, <1>9, <1>10, <1>11 DEF MmuInv

\* The last region of a set.
LEMMA LastIs ==
  ASSUME NEW S, NEW k \in S, S \subseteq Nat, \A j \in S : j <= k
  PROVE  Last(S) = k
<1>1. \A m \in S : (\A j \in S : j <= m) => m = k
  BY SMT
<1> QED
  BY <1>1 DEF Last

\* While the regions and what is left of them are the same, so is what is asked.
LEMMA SameTarget ==
  ASSUME UNCHANGED <<regions, r, va>>
  PROVE  \A a : Target(a)' = Target(a)
<1>1. \A k : Mapped(k)' = Mapped(k)
  BY DEF Mapped
<1>2. \A a : Covering(a)' = Covering(a)
  BY <1>1 DEF Covering
<1> QED
  BY <1>2 DEF Target, At

LEMMA MapBlockKeeps ==
  ASSUME MmuInv, ~panic, size > 0, MapBlock, UNCHANGED <<regions, r>>
  PROVE  MmuInv'
<1> DEFINE n == LevelSize[level]
<1>1. TypeOK /\ InRange /\ Progress /\ FreeTables /\ Tree(xlat, idx)
  BY DEF MmuInv
<1>2. /\ regions \in Layouts /\ r \in 1 .. Len(regions) /\ va \in Nat /\ size \in Nat
      /\ level \in Levels /\ idx \in Tables /\ panic \in BOOLEAN
  BY <1>1 DEF TypeOK
<1>3. n \in Nat \ {0}
  BY <1>2, LevelSizes
<1>4. /\ n <= size /\ va % n = 0 /\ va' = va + n /\ size' = size - n /\ level' = 1
      /\ idx' = idx /\ panic' = panic /\ regions' = regions /\ r' = r
  BY DEF MapBlock, Fits, PAGE_TABLE_BASE_LEVEL
<1>5. /\ xlat' \in AllTables
      /\ xlat'[Pte[1]][Pte[2]] = BlockDesc
      /\ BlockDesc.type = Leaf(level)
      /\ BlockDesc.addr = Region.base_pa + (va - Region.base_va)
      /\ BlockDesc.attrs = Attributes(Region.attrs)
      /\ Differs(xlat, xlat', TableAt(xlat, va, level), GetVaIndex(va, level), idx)
      /\ \A t \in Tables : t > idx => xlat'[t] = xlat[t]
  BY MapBlockWrites
<1>6. /\ va \in Pages /\ va .. va + size - 1 \subseteq Pages /\ Open(xlat, va, level)
      /\ Pte[1] = TableAt(xlat, va, level) /\ Pte[2] = GetVaIndex(va, level)
  BY AtTurn
<1>7. Tree(xlat', idx)
  BY <1>1, <1>2, <1>5, <1>6, TreeKept
<1> HIDE DEF n
<1>8. TypeOK'
  <2>1. va' \in Nat /\ size' \in Nat
    BY <1>2, <1>3, <1>4
  <2>2. level' \in Levels
    BY <1>4, LevelSizes
  <2> QED
    BY <1>2, <1>4, <1>5, <2>1, <2>2 DEF TypeOK
<1>9. InRange'
  BY <1>1, <1>4 DEF InRange
<1>10. Progress'
  <2>1. Region' = Region
    BY <1>4 DEF Region
  <2>2. Region.base_va \in Nat
    BY <1>1, RegionIs
  <2> QED
    BY <1>1, <1>2, <1>3, <1>4, <2>1, <2>2 DEF Progress
<1>11. FreeTables'
  BY <1>1, <1>4, <1>5 DEF FreeTables
<1>12. WayOpen'
  BY <1>4, OpenIs DEF WayOpen
<1>13. ASSUME NEW a \in Pages PROVE WalkIn(xlat', a) = Target(a)'
  <2>1. a \in Nat /\ Region.base_va \in Nat /\ Region.base_pa \in Nat /\ Region.base_va <= va
        /\ r \in Nat
    BY <1>1, <1>2, PagesAre, RegionIs, LayoutsAre DEF Pages, Progress
  <2>2. SameBlock(level, a, va) <=> a \in va .. va + n - 1
    BY <1>2, <1>4, <2>1, InBlock DEF n
  <2>3. \A k \in 1 .. Len(regions) : k # r => Mapped(k)' = Mapped(k)
    BY <1>4 DEF Mapped
  <2>4. r \in 1 .. Len(regions) /\ Mapped(r) = Region.base_va .. va - 1
        /\ Mapped(r)' = Region.base_va .. va + n - 1
    <3>1. Mapped(r) = Region.base_va .. va - 1
      BY <2>1 DEF Mapped, Region
    <3>2. Mapped(r)' = regions'[r].base_va .. va' - 1
      BY <1>4, <2>1 DEF Mapped
    <3>3. va' - 1 = va + n - 1
      BY <1>2, <1>3, <1>4
    <3> QED
      BY <1>2, <1>4, <3>1, <3>2, <3>3 DEF Region
  <2>5. CASE SameBlock(level, a, va)
    <3>1. WalkIn(xlat', a) = Output(BlockDesc, a, level)
      BY <1>1, <1>2, <1>5, <1>6, <1>7, <2>5, WalkMapped
    <3>2. a % n = a - va
      BY <1>2, <1>4, <2>1, <2>5, InBlock DEF n
    <3>3. BlockDesc.addr + (a % n) = Region.base_pa + (a - Region.base_va)
      BY <1>2, <1>5, <2>1, <3>2
    <3>4. WalkIn(xlat', a) = At(a, r)
      BY <1>5, <3>1, <3>3 DEF Output, At, Region, n
    <3>5. a \in Mapped(r)'
      BY <1>2, <1>3, <2>1, <2>2, <2>4, <2>5
    <3>6. r \in Covering(a)'
      BY <1>4, <2>4, <3>5 DEF Covering
    <3>7. \A k \in Covering(a)' : k <= r /\ k \in Nat
      <4> SUFFICES ASSUME NEW k \in 1 .. Len(regions), a \in Mapped(k)' PROVE k <= r /\ k \in Nat
        BY <1>4 DEF Covering
      <4>1. k > r => Mapped(k)' = {}
        BY <1>4, <2>1 DEF Mapped
      <4> QED
        BY <1>2, <2>1, <4>1
    <3>8. PICK C : C = Covering(a)'
      OBVIOUS
    <3>9. r \in C /\ Last(C) = r
      <4>1. r \in C /\ C \subseteq Nat /\ \A k \in C : k <= r
        BY <3>6, <3>7, <3>8
      <4> QED
        BY <4>1, LastIs
    <3>10. Target(a)' = At(a, r)
      BY <1>4, <3>8, <3>9 DEF Target, At
    <3> QED
      BY <3>4, <3>10
  <2>6. CASE ~SameBlock(level, a, va)
    <3>1. WalkIn(xlat', a) = WalkIn(xlat, a)
      BY <1>1, <1>2, <1>5, <1>6, <1>7, <2>6, WalkElsewhere
    <3>2. a \in Mapped(r)' <=> a \in Mapped(r)
      BY <1>2, <1>3, <2>1, <2>2, <2>4, <2>6
    <3>3. \A k \in 1 .. Len(regions) : a \in Mapped(k)' <=> a \in Mapped(k)
      BY <2>3, <3>2
    <3>4. Covering(a)' = Covering(a)
      BY <1>4, <3>3 DEF Covering
    <3>5. Target(a)' = Target(a)
      BY <1>4, <3>4 DEF Target, At
    <3>6. ~panic
      OBVIOUS
    <3> QED
      BY <3>1, <3>5, <3>6 DEF MmuInv
  <2> QED
    BY <2>5, <2>6
<1>14. Tree(xlat, idx)'
  BY <1>4, <1>7 DEF Tree, Upper, IsLink
<1>15. \A a \in Pages : (WalkIn(xlat, a) = Target(a))'
  BY <1>13 DEF WalkIn, Path
<1> QED
  BY <1>8, <1>9, <1>10, <1>11, <1>12, <1>14, <1>15 DEF MmuInv, Pages

\* A turn that takes a table and goes down to it: what has to hold of the table.
LEMMA TakenKeeps ==
  ASSUME MmuInv, ~panic, size > 0, ~Fits, OldDesc.type # PTE_TABLE_DESC,
         NEW s, Taken(xlat', s),
         level = 1 => \A e \in Entries : s[e].type # PTE_TABLE_DESC,
         \A a \in Pages : SameBlock(level, a, va) =>
           (Tree(xlat', idx') => WalkIn(xlat', a) = WalkIn(xlat, a)),
         level' = level + 1, UNCHANGED <<regions, r, va, size, panic>>
  PROVE  MmuInv'
<1>1. TypeOK /\ InRange /\ Progress /\ FreeTables /\ Tree(xlat, idx)
  BY DEF MmuInv
<1>2. /\ regions \in Layouts /\ r \in 1 .. Len(regions) /\ va \in Nat /\ size \in Nat
      /\ level \in Levels /\ idx \in Tables /\ panic \in BOOLEAN
  BY <1>1 DEF TypeOK
<1>3. /\ va \in Pages /\ Open(xlat, va, level)
      /\ Pte[1] = TableAt(xlat, va, level) /\ Pte[2] = GetVaIndex(va, level)
      /\ OldDesc = EntryAt(xlat, va, level) /\ level \in {1, 2}
  BY AtTurn
<1>4. /\ idx' = idx + 1 /\ idx' \in Tables /\ idx \in Nat /\ xlat' \in AllTables
      /\ xlat'[Pte[1]][Pte[2]].type = PTE_TABLE_DESC
      /\ xlat'[Pte[1]][Pte[2]].addr = idx'
      /\ Differs(xlat, xlat', TableAt(xlat, va, level), GetVaIndex(va, level), idx)
      /\ xlat'[idx'] = s
      /\ \A t \in Tables : t > idx' => xlat'[t] = xlat[t]
  BY DEF Taken
<1>5. Tree(xlat', idx')
  <2>1. level = 1 => \A e \in Entries : xlat'[idx + 1][e].type # PTE_TABLE_DESC
    BY <1>4
  <2> QED
    BY <1>1, <1>2, <1>3, <1>4, <2>1, TreeGrows
<1>6. TypeOK'
  <2>1. level' \in Levels
    BY <1>3, LevelSizes
  <2> QED
    BY <1>2, <1>4, <2>1 DEF TypeOK
<1>7. InRange' /\ Progress'
  BY <1>1 DEF InRange, Progress, Region
<1>8. FreeTables'
  <2> SUFFICES ASSUME NEW t \in Tables, t > idx' PROVE xlat'[t] = [e \in Entries |-> Zero]
    BY DEF FreeTables
  <2>1. t > idx
    BY <1>4 DEF Tables
  <2> QED
    BY <1>1, <1>4, <2>1 DEF FreeTables
<1>9. Open(xlat', va, level')
  <2>1. SameBlock(level, va, va)
    BY DEF SameBlock
  <2>2. /\ Open(xlat', va, level)
        /\ EntryAt(xlat', va, level) = xlat'[TableAt(xlat, va, level)][GetVaIndex(va, level)]
    BY <1>1, <1>2, <1>3, <1>4, <2>1, Here
  <2> QED
    BY <1>3, <1>4, <2>2, OpenIs
<1>10. WayOpen'
  BY <1>9 DEF WayOpen, Open, EntryAt, TableAt, Second, Third
<1>11. ASSUME NEW a \in Pages PROVE WalkIn(xlat', a) = Target(a)'
  <2>1. WalkIn(xlat, a) = Target(a)
    BY DEF MmuInv
  <2>2. Target(a)' = Target(a)
    BY SameTarget
  <2>3. CASE SameBlock(level, a, va)
    BY <1>5, <2>1, <2>2, <2>3
  <2>4. CASE ~SameBlock(level, a, va)
    <3>1. WalkIn(xlat', a) = WalkIn(xlat, a)
      BY <1>1, <1>2, <1>3, <1>4, <1>5, <2>4, WalkElsewhere
    <3> QED
      BY <2>1, <2>2, <3>1
  <2> QED
    BY <2>3, <2>4
<1>12. Tree(xlat, idx)'
  BY <1>5 DEF Tree, Upper, IsLink
<1>13. \A a \in Pages : (WalkIn(xlat, a) = Target(a))'
  BY <1>11 DEF WalkIn, Path
<1> QED
  BY <1>6, <1>7, <1>8, <1>10, <1>12, <1>13 DEF MmuInv, Pages

\* The pool is empty: EL2 stops, and nothing has changed.
LEMMA NoTableKeeps ==
  ASSUME MmuInv, NoTable, UNCHANGED <<regions, r>>
  PROVE  MmuInv'
<1>1. UNCHANGED <<regions, r, va, size, level, xlat, idx>> /\ panic' = TRUE
  BY DEF NoTable
<1>2. TypeOK' /\ InRange' /\ Progress' /\ FreeTables' /\ WayOpen'
  BY <1>1 DEF MmuInv, TypeOK, InRange, Progress, Region, FreeTables, WayOpen
<1>3. Tree(xlat, idx)'
  BY <1>1 DEF MmuInv, Tree, Upper, IsLink
<1> QED
  BY <1>1, <1>2, <1>3 DEF MmuInv

LEMMA NewTableKeeps ==
  ASSUME MmuInv, ~panic, size > 0, NewTable, UNCHANGED <<regions, r>>
  PROVE  MmuInv'
<1>1. CASE NoTable
  BY <1>1, NoTableKeeps
<1>2. CASE ~NoTable
  <2> DEFINE s == [e \in Entries |-> Zero]
  <2>1. /\ idx < CONFIG_MMU_MAX_XLAT_TABLES /\ level' = level + 1
        /\ UNCHANGED <<va, size, panic>>
        /\ ~Fits /\ OldDesc.type = PTE_INVALID_DESC
    BY <1>2 DEF NewTable
  <2>2. Taken(xlat', s)
    BY <2>1, NewTableWrites
  <2>3. \A e \in Entries : s[e] = Zero
    OBVIOUS
  <2> HIDE DEF s
  <2>4. \A e \in Entries : s[e].type # PTE_TABLE_DESC
    BY <2>3, ZeroIs DEF PTE_INVALID_DESC, PTE_TABLE_DESC
  <2>5. ASSUME NEW a \in Pages, SameBlock(level, a, va), Tree(xlat', idx')
        PROVE  WalkIn(xlat', a) = WalkIn(xlat, a)
    <3>1. /\ Tree(xlat, idx) /\ idx \in Tables /\ idx' \in Tables /\ a \in Nat
          /\ level + 1 \in Levels /\ level \in Levels
      <4>1. level \in {1, 2}
        BY <2>1, AtTurn
      <4> QED
        BY <2>2, <4>1, PagesAre, LevelSizes DEF MmuInv, TypeOK, Pages, Taken
    <3>2. /\ va \in Pages /\ Open(xlat, va, level) /\ level \in {1, 2}
          /\ Pte[1] = TableAt(xlat, va, level) /\ Pte[2] = GetVaIndex(va, level)
          /\ OldDesc = EntryAt(xlat, va, level)
      BY <2>1, AtTurn
    <3>3. /\ Differs(xlat, xlat', TableAt(xlat, va, level), GetVaIndex(va, level), idx)
          /\ xlat'[Pte[1]][Pte[2]].type = PTE_TABLE_DESC
          /\ xlat'[Pte[1]][Pte[2]].addr = idx'
          /\ xlat'[idx'] = s
      BY <2>2 DEF Taken
    <3>4. xlat'[idx'][GetVaIndex(a, level + 1)] = Zero
      <4>1. GetVaIndex(a, level + 1) \in Entries
        BY <3>1, IndexIsEntry
      <4> QED
        BY <2>3, <3>3, <4>1
    <3>5. Zero.type # PTE_TABLE_DESC /\ \A k \in Levels : Zero.type # Leaf(k)
      BY ZeroIs DEF Leaf, PTE_BLOCK_DESC, PTE_PAGE_DESC, PTE_TABLE_DESC, PTE_INVALID_DESC
    <3>6. WalkIn(xlat', a) = <<>>
      <4>1. WalkIn(xlat', a) = IF Zero.type = Leaf(level + 1) THEN Output(Zero, a, level + 1)
                               ELSE <<>>
        <5>1. Zero.type # PTE_TABLE_DESC
          BY <3>5
        <5>2. /\ va \in Pages /\ level \in {1, 2} /\ Open(xlat, va, level)
              /\ xlat'[TableAt(xlat, va, level)][GetVaIndex(va, level)].type = PTE_TABLE_DESC
              /\ xlat'[TableAt(xlat, va, level)][GetVaIndex(va, level)].addr = idx'
              /\ Tree(xlat, idx) /\ idx \in Tables /\ idx' \in Tables
          BY <3>1, <3>2, <3>3
        <5>3. Differs(xlat, xlat', TableAt(xlat, va, level), GetVaIndex(va, level), idx)
          BY <3>3
        <5> QED
          BY <2>5, <3>4, <5>1, <5>2, <5>3, WalkBelow
      <4> QED
        BY <3>1, <3>5, <4>1
    <3>7. Open(xlat, a, level) /\ EntryAt(xlat, a, level) = OldDesc
      BY <2>5, <3>1, <3>2, SameWay
    <3>8. OldDesc.type # PTE_TABLE_DESC /\ OldDesc.type # Leaf(level)
      BY <2>1, ZeroIs, <3>1, <3>5
    <3>9. WalkIn(xlat, a) = <<>>
      BY <3>1, <3>7, <3>8, WalkEnds
    <3> QED
      BY <3>6, <3>9
  <2>6. OldDesc.type # PTE_TABLE_DESC
    BY <2>1 DEF PTE_INVALID_DESC, PTE_TABLE_DESC
  <2> QED
    BY <2>1, <2>2, <2>4, <2>5, <2>6, TakenKeeps
<1> QED
  BY <1>1, <1>2

LEMMA SplitKeeps ==
  ASSUME MmuInv, ~panic, size > 0, SplitPteBlockDesc, UNCHANGED <<regions, r>>
  PROVE  MmuInv'
<1>1. CASE NoTable
  BY <1>1, NoTableKeeps
<1>2. CASE ~NoTable
  <2> DEFINE s == [e \in Entries |-> Part(OldDesc, e, level)]
  <2>1. /\ idx < CONFIG_MMU_MAX_XLAT_TABLES /\ level' = level + 1
        /\ UNCHANGED <<va, size, panic>>
        /\ ~Fits /\ OldDesc.type = PTE_BLOCK_DESC
    BY <1>2 DEF SplitPteBlockDesc
  <2>2. Taken(xlat', s)
    BY <2>1, SplitWrites
  <2>3. \A e \in Entries : s[e] = Part(OldDesc, e, level)
    OBVIOUS
  <2> HIDE DEF s
  <2>4. /\ va \in Pages /\ Open(xlat, va, level) /\ level \in {1, 2}
        /\ Pte[1] = TableAt(xlat, va, level) /\ Pte[2] = GetVaIndex(va, level)
        /\ Pte[1] \in Tables /\ Pte[2] \in Entries
        /\ OldDesc = EntryAt(xlat, va, level)
    BY <2>1, AtTurn
  <2>5. OldDesc \in Descs
    BY <2>4 DEF OldDesc, AllTables, MmuInv, TypeOK
  <2>6. \A e \in Entries :
          /\ s[e].type = Leaf(level + 1)
          /\ s[e].addr = OldDesc.addr + e * LevelSize[level + 1]
          /\ s[e].attrs = OldDesc.attrs
    BY <2>1, <2>3, <2>4, <2>5, PartIs
  <2>7. level + 1 < 3 => Leaf(level + 1) # PTE_TABLE_DESC
    BY <2>4 DEF Leaf, PTE_BLOCK_DESC, PTE_TABLE_DESC
  <2>8. ASSUME NEW a \in Pages, SameBlock(level, a, va), Tree(xlat', idx')
        PROVE  WalkIn(xlat', a) = WalkIn(xlat, a)
    <3>1. /\ Tree(xlat, idx) /\ idx \in Tables /\ idx' \in Tables /\ a \in Nat
          /\ level + 1 \in Levels /\ level \in Levels
      BY <2>2, <2>4, PagesAre, LevelSizes DEF MmuInv, TypeOK, Pages, Taken
    <3>2. /\ Differs(xlat, xlat', TableAt(xlat, va, level), GetVaIndex(va, level), idx)
          /\ xlat'[Pte[1]][Pte[2]].type = PTE_TABLE_DESC
          /\ xlat'[Pte[1]][Pte[2]].addr = idx'
          /\ xlat'[idx'] = s
      BY <2>2 DEF Taken
    <3> DEFINE e == GetVaIndex(a, level + 1)
               d == s[e]
    <3>3. e \in Entries
      BY <3>1, IndexIsEntry
    <3>4. xlat'[idx'][e] = d /\ d.type = Leaf(level + 1)
          /\ d.addr = OldDesc.addr + e * LevelSize[level + 1] /\ d.attrs = OldDesc.attrs
      BY <2>6, <3>2, <3>3
    <3> HIDE DEF d
    <3>5. WalkIn(xlat', a) = Output(d, a, level + 1)
      <4>1. ASSUME NEW j \in Tables, j = idx', NEW y, y = xlat'
            PROVE  WalkIn(y, a) = IF d.type = Leaf(level + 1)
                                  THEN Output(d, a, level + 1) ELSE <<>>
        <5>1. level \in {1, 2} /\ va \in Pages /\ Open(xlat, va, level)
          BY <2>4
        <5>2. Tree(y, j) /\ SameBlock(level, a, va) /\ Differs(xlat, y, TableAt(xlat, va, level), GetVaIndex(va, level), idx)
          BY <2>8, <3>2, <4>1
        <5>3. /\ y[TableAt(xlat, va, level)][GetVaIndex(va, level)].type = PTE_TABLE_DESC
              /\ y[TableAt(xlat, va, level)][GetVaIndex(va, level)].addr = j
          BY <2>4, <3>2, <4>1
        <5>4. y[j][GetVaIndex(a, level + 1)] = d /\ (level + 1 < 3 => d.type # PTE_TABLE_DESC)
          BY <2>7, <3>4, <4>1 DEF e
        <5> QED
          BY <2>8, <3>1, <5>1, <5>2, <5>3, <5>4, WalkBelow
      <4> QED
        BY <3>1, <3>4, <4>1
    <3>6. Open(xlat, a, level) /\ EntryAt(xlat, a, level) = OldDesc
      BY <2>4, <2>8, <3>1, SameWay
    <3>7. OldDesc.type = Leaf(level) /\ OldDesc.type # PTE_TABLE_DESC
      BY <2>1, <2>4 DEF Leaf, PTE_BLOCK_DESC, PTE_TABLE_DESC
    <3>8. WalkIn(xlat, a) = Output(OldDesc, a, level)
      BY <3>1, <3>6, <3>7, WalkEnds
    <3>9. Output(d, a, level + 1) = Output(OldDesc, a, level)
      <4> DEFINE n == LevelSize[level + 1]
      <4>1. a % LevelSize[level] = e * n + (a % n)
        BY <2>4, <3>1, Digits
      <4>2. e \in Nat /\ n \in Nat \ {0} /\ a % n \in Nat /\ OldDesc.addr \in Nat
        <5>1. n \in Nat \ {0}
          BY <3>1, LevelSizes
        <5>2. a % n \in 0 .. n - 1
          BY <3>1, <5>1, DivMod
        <5> QED
          BY <2>5, <3>3, <5>1, <5>2 DEF Entries, Descs
      <4> HIDE DEF n, e
      <4>3. (OldDesc.addr + e * n) + (a % n) = OldDesc.addr + (e * n + (a % n))
        <5>1. e * n \in Nat
          BY <4>2
        <5> QED
          BY <4>2, <5>1
      <4> QED
        BY <3>4, <4>1, <4>3 DEF Output, n
    <3> QED
      BY <3>5, <3>8, <3>9
  <2>9. OldDesc.type # PTE_TABLE_DESC
    BY <2>1 DEF PTE_BLOCK_DESC, PTE_TABLE_DESC
  <2>10. level = 1 => \A e \in Entries : s[e].type # PTE_TABLE_DESC
    BY <2>6, <2>7
  <2> QED
    BY <2>1, <2>2, <2>8, <2>9, <2>10, TakenKeeps
<1> QED
  BY <1>1, <1>2

LEMMA NextLevelKeeps ==
  ASSUME MmuInv, ~panic, size > 0, NextLevel, UNCHANGED <<regions, r>>
  PROVE  MmuInv'
<1>1. /\ UNCHANGED <<regions, r, va, size, xlat, idx, panic>> /\ level' = level + 1
      /\ OldDesc.type = PTE_TABLE_DESC /\ ~Fits
  BY DEF NextLevel
<1>2. level \in {1, 2} /\ Open(xlat, va, level) /\ OldDesc = EntryAt(xlat, va, level)
  BY <1>1, AtTurn
<1>3. TypeOK' /\ InRange' /\ Progress' /\ FreeTables'
  <2>1. level' \in Levels
    BY <1>1, <1>2, LevelSizes
  <2>2. TypeOK'
    BY <1>1, <2>1 DEF MmuInv, TypeOK
  <2>3. InRange'
    BY <1>1 DEF MmuInv, InRange
  <2>4. Progress'
    BY <1>1 DEF MmuInv, Progress, Region
  <2>5. FreeTables'
    BY <1>1 DEF MmuInv, FreeTables
  <2> QED
    BY <2>2, <2>3, <2>4, <2>5
<1>4. Open(xlat, va, level')
  BY <1>1, <1>2, OpenIs
<1>5. WayOpen'
  BY <1>1, <1>4 DEF WayOpen, Open, EntryAt, TableAt, Second, Third
<1>6. Tree(xlat, idx)'
  BY <1>1 DEF MmuInv, Tree, Upper, IsLink
<1>7. ASSUME NEW a \in Pages PROVE (WalkIn(xlat, a) = Target(a))'
  <2>1. Target(a)' = Target(a)
    BY <1>1, SameTarget
  <2>2. WalkIn(xlat, a)' = WalkIn(xlat, a)
    BY <1>1 DEF WalkIn, Path
  <2> QED
    BY <2>1, <2>2 DEF MmuInv
<1> QED
  BY <1>3, <1>5, <1>6, <1>7 DEF MmuInv, Pages

LEMMA NextRegionKeeps ==
  ASSUME MmuInv, NextRegion
  PROVE  MmuInv'
<1>1. /\ ~panic /\ size = 0 /\ r < Len(regions) /\ r' = r + 1
      /\ va' = regions[r'].base_va /\ size' = regions[r'].size /\ level' = 1
      /\ UNCHANGED <<regions, xlat, idx, panic>>
  BY DEF NextRegion, PAGE_TABLE_BASE_LEVEL
<1>2. TypeOK /\ InRange /\ Progress /\ FreeTables /\ Tree(xlat, idx)
  BY DEF MmuInv
<1>3. /\ regions \in Layouts /\ r \in Nat \ {0} /\ Len(regions) \in Nat
      /\ r' \in 1 .. Len(regions) /\ va \in Nat
  BY <1>1, <1>2, LayoutsAre DEF TypeOK
<1>4. regions[r'] \in MmuRegions /\ Region' = regions[r']
  BY <1>1, <1>3, LayoutsAre DEF Region
<1>5. va' \in Nat /\ size' \in Nat
  BY <1>1, <1>4 DEF MmuRegions
<1>6. TypeOK'
  BY <1>1, <1>2, <1>3, <1>5, LevelSizes DEF TypeOK
<1>7. InRange' /\ FreeTables'
  BY <1>1, <1>2 DEF InRange, FreeTables
<1>8. Progress'
  BY <1>1, <1>4, <1>5 DEF Progress
<1>9. WayOpen'
  BY <1>1, OpenIs DEF WayOpen
<1>10. Tree(xlat, idx)'
  BY <1>1, <1>2 DEF Tree, Upper, IsLink
<1>11. ASSUME NEW a \in Pages PROVE (WalkIn(xlat, a) = Target(a))'
  <2>1. ASSUME NEW k \in 1 .. Len(regions) PROVE Mapped(k)' = Mapped(k)
    <3>1. CASE k < r
      BY <1>1, <1>3, <3>1 DEF Mapped
    <3>2. CASE k = r
      <4>1. Mapped(k) = Region.base_va .. va - 1
        BY <1>3, <3>2 DEF Mapped, Region
      <4>2. Mapped(k)' = regions[k].base_va .. regions[k].base_va + regions[k].size - 1
        BY <1>1, <1>3, <3>2 DEF Mapped
      <4>3. /\ va = Region.base_va + Region.size
            /\ Region.base_va \in Nat /\ Region.size \in Nat
        BY <1>1, <1>2, <1>3, RegionIs DEF Progress
      <4> QED
        BY <3>2, <4>1, <4>2, <4>3 DEF Region
    <3>3. CASE k = r'
      <4>1. Mapped(k) = {}
        BY <1>1, <1>3, <3>3 DEF Mapped
      <4>2. Mapped(k)' = va' .. va' - 1
        BY <1>1, <1>3, <3>3 DEF Mapped
      <4>3. \A n \in Nat : n .. n - 1 = {}
        OBVIOUS
      <4> QED
        BY <1>5, <4>1, <4>2, <4>3
    <3>4. CASE k > r'
      BY <1>1, <1>3, <3>4 DEF Mapped
    <3> QED
      BY <1>1, <1>3, <3>1, <3>2, <3>3, <3>4
  <2>2. Covering(a)' = Covering(a)
    BY <1>1, <2>1 DEF Covering
  <2>3. Target(a)' = Target(a)
    BY <1>1, <2>2 DEF Target, At
  <2>4. WalkIn(xlat, a)' = WalkIn(xlat, a)
    BY <1>1 DEF WalkIn, Path
  <2> QED
    BY <1>1, <2>3, <2>4 DEF MmuInv
<1> QED
  BY <1>6, <1>7, <1>8, <1>9, <1>10, <1>11 DEF MmuInv, Pages

LEMMA NextKeepsInv ==
  ASSUME MmuInv, [Next]_vars
  PROVE  MmuInv'
<1>1. CASE InitXlatTables
  <2>1. ~panic /\ size > 0 /\ UNCHANGED <<regions, r>>
    BY <1>1 DEF InitXlatTables
  <2>2. CASE MapBlock
    BY <2>1, <2>2, MapBlockKeeps
  <2>3. CASE NewTable
    BY <2>1, <2>3, NewTableKeeps
  <2>4. CASE SplitPteBlockDesc
    BY <2>1, <2>4, SplitKeeps
  <2>5. CASE NextLevel
    BY <2>1, <2>5, NextLevelKeeps
  <2> QED
    BY <1>1, <2>2, <2>3, <2>4, <2>5 DEF InitXlatTables
<1>2. CASE NextRegion
  BY <1>2, NextRegionKeeps
<1>3. CASE UNCHANGED vars
  <2>1. UNCHANGED <<regions, r, va, size, level, xlat, idx, panic>>
    BY <1>3 DEF vars
  <2>2. TypeOK' /\ InRange' /\ Progress' /\ FreeTables' /\ WayOpen'
    BY <2>1 DEF MmuInv, TypeOK, InRange, Progress, Region, FreeTables, WayOpen,
                Open, EntryAt, TableAt, Second, Third
  <2>3. Tree(xlat, idx)'
    BY <2>1 DEF MmuInv, Tree, Upper, IsLink
  <2>4. ASSUME ~panic, NEW a \in Pages PROVE (WalkIn(xlat, a) = Target(a))'
    <3>1. Target(a)' = Target(a)
      BY <2>1, SameTarget
    <3>2. WalkIn(xlat, a)' = WalkIn(xlat, a)
      BY <2>1 DEF WalkIn, Path
    <3> QED
      BY <2>4, <3>1, <3>2 DEF MmuInv
  <2> QED
    BY <2>1, <2>2, <2>3, <2>4 DEF MmuInv, Pages
<1> QED
  BY <1>1, <1>2, <1>3 DEF Next

\* The loop's state, the tree and the translation, through every turn: what is left
\* of the region, tables of the pool that are still zero, the way to the level.
THEOREM MmuSafety == Spec => []MmuInv
<1>1. Init => MmuInv
  BY InitIsInv
<1>2. MmuInv /\ [Next]_vars => MmuInv'
  BY NextKeepsInv
<1> QED
  BY <1>1, <1>2, PTL DEF Spec

\* Every turn brings InitXlatTables nearer to its end, in this order: a region is
\* done, pages of it are, or the loop is one of three levels further down.  Each of
\* them is bounded, so with turns that keep coming BootEnds follows.
THEOREM EveryTurnAdvances ==
  Spec => [][/\ Len(regions') = Len(regions)
             /\ \/ panic'
                \/ r' = r + 1 /\ r' <= Len(regions)
                \/ r' = r /\ size' < size /\ size' \in Nat
                \/ r' = r /\ size' = size /\ level' = level + 1 /\ level' \in Levels]_vars
<1>1. MmuInv /\ [Next]_vars =>
        [/\ Len(regions') = Len(regions)
         /\ \/ panic'
            \/ r' = r + 1 /\ r' <= Len(regions)
            \/ r' = r /\ size' < size /\ size' \in Nat
            \/ r' = r /\ size' = size /\ level' = level + 1 /\ level' \in Levels]_vars
  <2> SUFFICES ASSUME MmuInv, Next
               PROVE  /\ regions' = regions
                      /\ \/ panic'
                         \/ r' = r + 1 /\ r' <= Len(regions)
                         \/ r' = r /\ size' < size /\ size' \in Nat
                         \/ r' = r /\ size' = size /\ level' = level + 1 /\ level' \in Levels
    OBVIOUS
  <2>0. /\ size \in Nat /\ r \in Nat /\ level \in Levels /\ Len(regions) \in Nat
        /\ LevelSize[level] \in Nat \ {0}
    BY LayoutsAre, LevelSizes DEF MmuInv, TypeOK
  <2>1. CASE NextRegion
    BY <2>0, <2>1 DEF NextRegion
  <2>2. CASE InitXlatTables
    <3>1. ~panic /\ size > 0 /\ UNCHANGED <<regions, r>>
      BY <2>2 DEF InitXlatTables
    <3>2. CASE MapBlock
      <4>1. size >= LevelSize[level] /\ size' = size - LevelSize[level]
        BY <3>2 DEF MapBlock, Fits
      <4> QED
        BY <2>0, <3>1, <4>1
    <3>3. ASSUME ~Fits, panic' \/ (level' = level + 1 /\ UNCHANGED size)
          PROVE  panic' \/ (r' = r /\ size' = size /\ level' = level + 1 /\ level' \in Levels)
      <4>1. level \in {1, 2}
        BY <3>1, <3>3, AtTurn
      <4>2. level + 1 \in Levels
        BY <4>1 DEF Levels, PAGE_TABLE_BASE_LEVEL, CONFIG_MMU_TABLE_LEVEL_MAX
      <4> QED
        BY <3>1, <3>3, <4>2
    <3>4. CASE NewTable \/ SplitPteBlockDesc \/ NextLevel
      <4>1. ~Fits /\ (panic' \/ (level' = level + 1 /\ UNCHANGED size))
        BY <3>4 DEF NewTable, SplitPteBlockDesc, NextLevel, NoTable
      <4> QED
        BY <3>1, <3>3, <4>1
    <3> QED
      BY <2>2, <3>1, <3>2, <3>4 DEF InitXlatTables
  <2> QED
    BY <2>1, <2>2 DEF Next
<1> QED
  BY MmuSafety, <1>1, PTL DEF Spec

\* TranslatesAsLastRegion: each page translates as the last region over it says, at
\* every moment of InitXlatTables, for any regions and any size of tables: a split
\* or a replaced table never moves, loses or exposes a page.
THEOREM LastRegionTranslates == Spec => []TranslatesAsLastRegion
<1>1. ASSUME MmuInv PROVE TranslatesAsLastRegion
  <2>1. ASSUME ~panic, NEW a \in 0 .. VaPages - 1
        PROVE  LET covering == {k \in 1 .. Len(regions) : a \in Mapped(k)}
               IN  IF covering = {} THEN Walk(a) = <<>>
                   ELSE LET k == CHOOSE x \in covering : \A y \in covering : y <= x
                        IN  Walk(a) = <<regions[k].base_pa + (a - regions[k].base_va),
                                        Attributes(regions[k].attrs)>>
    <3>1. WalkIn(xlat, a) = Target(a)
      BY <1>1, <2>1 DEF MmuInv, Pages
    <3>2. Walk(a) = WalkIn(xlat, a)
      BY DEF Walk, WalkIn
    <3> QED
      BY <3>1, <3>2 DEF Target, Covering, Last, At
  <2> QED
    BY <2>1 DEF TranslatesAsLastRegion
<1> QED
  BY <1>1, MmuSafety, PTL

\* TablesAreATree: each linked table has one place, was taken from the pool, and
\* FindPteIndex never comes to an entry that leads nowhere.
THEOREM TablesFormATree == Spec => []TablesAreATree
<1>1. ASSUME MmuInv PROVE TablesAreATree
  <2> DEFINE links == {p \in ({0} \cup Middle) \X Entries : IsTable(p[1], p[2])}
  <2>1. Upper(xlat) = {0} \cup Middle
    BY DEF Upper, Middle, Below, IsLink, IsTable
  <2>2. Tree(xlat, idx) /\ TypeOK
    BY <1>1 DEF MmuInv
  <2>3. ASSUME NEW p \in links
        PROVE  p[1] \in Upper(xlat) /\ p[2] \in Entries /\ IsLink(xlat, p[1], p[2])
    BY <2>1 DEF IsLink, IsTable
  <2>4. \A p \in links : xlat[p[1]][p[2]].addr \in 1 .. idx
    BY <2>2, <2>3 DEF Tree
  <2>5. \A p, q \in links : xlat[p[1]][p[2]].addr = xlat[q[1]][q[2]].addr => p = q
    <3> SUFFICES ASSUME NEW p \in links, NEW q \in links,
                        xlat[p[1]][p[2]].addr = xlat[q[1]][q[2]].addr
                 PROVE  p = q
      OBVIOUS
    <3>1. p[1] = q[1] /\ p[2] = q[2]
      BY <2>2, <2>3 DEF Tree
    <3>2. p = <<p[1], p[2]>> /\ q = <<q[1], q[2]>>
      OBVIOUS
    <3> QED
      BY <3>1, <3>2
  <2>6. Middle \subseteq 1 .. idx
    <3> SUFFICES ASSUME NEW t \in Middle PROVE t \in 1 .. idx
      OBVIOUS
    <3>1. PICK e \in Entries : IsTable(0, e) /\ t = xlat[0][e].addr
      BY DEF Middle, Below
    <3> QED
      BY <2>2, <3>1 DEF Tree, Upper, IsTable, IsLink
  <2>7. ASSUME size > 0, ~panic, NEW l \in 1 .. level - 1
        PROVE  LET p == FindPteIndex(va, l) IN IsTable(p[1], p[2])
    <3>1. Open(xlat, va, level) /\ level \in Levels /\ idx \in Tables /\ va \in Nat
      BY <1>1, <2>2, <2>7 DEF MmuInv, WayOpen, TypeOK
    <3>2. l \in Levels /\ l < level
      BY <3>1, LevelSizes
    <3>3. Open(xlat, va, l) /\ EntryAt(xlat, va, l).type = PTE_TABLE_DESC
      BY <3>1, <3>2, LevelSizes DEF Open
    <3>4. FindPteIndex(va, l) = <<TableAt(xlat, va, l), GetVaIndex(va, l)>>
      BY <2>2, <3>1, <3>2, <3>3, PathIs DEF FindPteIndex
    <3> QED
      BY <3>3, <3>4 DEF IsTable, EntryAt
  <2> QED
    BY <2>4, <2>5, <2>6, <2>7 DEF TablesAreATree
<1> QED
  BY <1>1, MmuSafety, PTL

-----------------------------------------------------------------------------
(* The pool's demand: blocks a region covers in part *)

BlockOf(l, a) == <<l, a \div LevelSize[l]>>

\* The pages of a block.
LEMMA BlockPages ==
  ASSUME NEW a \in Nat, NEW l \in Levels, NEW c \in Nat
  PROVE  /\ (a \div LevelSize[l]) * LevelSize[l] \in Nat
         /\ SameBlock(l, c, a) <=>
              /\ (a \div LevelSize[l]) * LevelSize[l] <= c
              /\ c < (a \div LevelSize[l]) * LevelSize[l] + LevelSize[l]
         /\ (a \div LevelSize[l]) * LevelSize[l] <= a
         /\ a < (a \div LevelSize[l]) * LevelSize[l] + LevelSize[l]
         /\ a % LevelSize[l] = 0 => (a \div LevelSize[l]) * LevelSize[l] = a
<1> DEFINE n == LevelSize[l]
           q == a \div n
           b == q * n
           s == a % n
<1>1. n \in Nat \ {0}
  BY LevelSizes
<1>2. q \in Nat /\ s \in 0 .. n - 1 /\ a = n * q + s
  BY <1>1, DivMod
<1> HIDE DEF n, q, s
<1>3. b \in Nat /\ b = n * q
  BY <1>1, <1>2
<1>4. b \div n = q /\ b % n = 0
  <2>1. 0 \in 0 .. n - 1 /\ n * q + 0 = n * q
    BY <1>1, <1>3
  <2> QED
    BY <1>1, <1>2, <1>3, <2>1, DivModUnique
<1> HIDE DEF b
<1>5. SameBlock(l, c, b) <=> c \in b .. b + (n - 1)
  <2>1. SameBlock(l, c, b) <=> c \in b .. b + LevelSize[l] - 1
    BY <1>3, <1>4, InBlock DEF n
  <2>2. b + LevelSize[l] - 1 = b + (n - 1)
    BY <1>1, <1>3 DEF n
  <2> QED
    BY <2>1, <2>2
<1>6. SameBlock(l, c, a) <=> SameBlock(l, c, b)
  BY <1>4 DEF SameBlock, n, q
<1>7. b <= a /\ a < b + n /\ (s = 0 => b = a)
  BY <1>1, <1>2, <1>3
<1>8. SameBlock(l, c, a) <=> b <= c /\ c < b + n
  BY <1>1, <1>3, <1>5, <1>6
<1> QED
  BY <1>3, <1>7, <1>8 DEF b, n, q, s

\* The block of a page is all in a region.
Within(reg, l, p) ==
  /\ reg.base_va <= (p \div LevelSize[l]) * LevelSize[l]
  /\ (p \div LevelSize[l]) * LevelSize[l] + LevelSize[l] <= reg.base_va + reg.size

\* Partial has the blocks with pages of the region that are not all in it.
LEMMA PartialIs ==
  ASSUME NEW reg \in MmuRegions, NEW p \in Nat, NEW l \in {1, 2},
         reg.base_va <= p, p < reg.base_va + reg.size
  PROVE  BlockOf(l, p) \in Partial(reg) <=> ~Within(reg, l, p)
<1> DEFINE n == LevelSize[l]
           q == p \div n
           first == q * n
           base == reg.base_va
           end == reg.base_va + reg.size - 1
<1>1. /\ base \in Nat /\ reg.size \in Nat /\ reg.size > 0
      /\ n \in Nat \ {0} /\ l \in Levels
      /\ end \in Nat /\ base + reg.size = end + 1 /\ p <= end
  BY LevelSizes DEF MmuRegions
<1>2. first \in Nat /\ first <= p /\ p < first + n
  BY <1>1, BlockPages
<1>0. \A c \in Nat : first <= c /\ c < first + n => q = c \div n
  BY <1>1, BlockPages DEF SameBlock
<1>3. Partial(reg) =
        {b \in {<<k, a \div LevelSize[k]>> : k \in {1, 2}, a \in {base, end}} :
           /\ reg.size > 0
           /\ \/ b[2] * LevelSize[b[1]] < base
              \/ base + reg.size <= b[2] * LevelSize[b[1]] + LevelSize[b[1]] - 1}
  BY DEF Partial
<1>4. BlockOf(l, p) \in Partial(reg) <=>
        /\ \E k \in {1, 2}, a \in {base, end} : <<l, q>> = <<k, a \div LevelSize[k]>>
        /\ first < base \/ base + reg.size <= first + n - 1
  BY <1>1, <1>3 DEF BlockOf
<1>5. Within(reg, l, p) <=> base <= first /\ first + n <= base + reg.size
  BY DEF Within
<1>6. ASSUME first < base \/ base + reg.size < first + n
      PROVE  \E a \in {base, end} : q = a \div n
  <2> HIDE DEF first, q, n, base, end
  <2>1. base <= p
    BY DEF base
  <2>2. first < base => q = base \div n
    <3>1. base \in Nat /\ (first < base => first <= base /\ base < first + n)
      BY <1>1, <1>2, <2>1
    <3> QED
      BY <1>0, <3>1
  <2>3. base + reg.size < first + n => q = end \div n
    <3>1. end \in Nat /\ (base + reg.size < first + n => first <= end /\ end < first + n)
      BY <1>1, <1>2
    <3> QED
      BY <1>0, <3>1
  <2> QED
    BY <1>6, <2>2, <2>3
<1>7. base + reg.size <= first + n - 1 <=> base + reg.size < first + n
  BY <1>1, <1>2
<1>8. first < base \/ base + reg.size < first + n <=> ~Within(reg, l, p)
  BY <1>1, <1>2, <1>5
<1> HIDE DEF first, q, n, base, end
<1>9. (\E a \in {base, end} : q = a \div n) =>
        \E k \in {1, 2}, a \in {base, end} : <<l, q>> = <<k, a \div LevelSize[k]>>
  BY DEF n
<1> QED
  BY <1>4, <1>6, <1>7, <1>8, <1>9

\* Each of them is the block of a page of the region.
LEMMA PartialHasPage ==
  ASSUME NEW reg \in MmuRegions, NEW b \in Partial(reg)
  PROVE  \E l \in {1, 2}, p \in Nat :
           /\ b = BlockOf(l, p)
           /\ reg.base_va <= p /\ p < reg.base_va + reg.size
<1>1. PICK l \in {1, 2}, p \in {reg.base_va, reg.base_va + reg.size - 1} :
        b = <<l, p \div LevelSize[l]>> /\ reg.size > 0
  BY DEF Partial
<1>2. reg.base_va \in Nat /\ reg.size \in Nat
  BY DEF MmuRegions
<1>3. p \in Nat /\ reg.base_va <= p /\ p < reg.base_va + reg.size
  BY <1>1, <1>2
<1> QED
  BY <1>1, <1>3 DEF BlockOf

\* A step by the size of a small block: where it ends in the larger one.
LEMMA StepInBlock ==
  ASSUME NEW a \in Nat, NEW n \in Nat \ {0}, NEW k \in Nat \ {0}, a % n = 0,
         (a + n) % (n * k) # 0
  PROVE  (a + n) \div (n * k) = a \div (n * k)
<1> DEFINE q == a \div n
           p == q \div k
           t == q % k
<1>1. q \in Nat /\ a = n * q
  <2>1. q \in Nat /\ a = n * q + (a % n)
    BY DivMod
  <2> QED
    BY <2>1
<1> HIDE DEF q
<1>2. p \in Nat /\ t \in 0 .. k - 1 /\ q = k * p + t
  BY <1>1, DivMod
<1> HIDE DEF p, t
<1>3. n * k \in Nat \ {0}
  <2>1. n * 0 + n <= n * k
    BY Product
  <2>2. n * 0 = 0 /\ n * k \in Nat
    OBVIOUS
  <2> QED
    BY <2>1, <2>2
<1>4. a = (n * k) * p + n * t /\ n * t \in 0 .. (n * k) - 1
  <2>1. n * (k * p + t) = (n * k) * p + n * t
    BY <1>2
  <2>2. n * t + n <= n * k
    BY <1>2, Product
  <2>3. n * t \in Nat
    BY <1>2
  <2> QED
    BY <1>1, <1>2, <1>3, <2>1, <2>2, <2>3
<1>5. a \div (n * k) = p
  BY <1>2, <1>3, <1>4, DivModUnique
<1>6. a + n = (n * k) * p + n * (t + 1)
  <2>1. n * (t + 1) = n * t + n
    BY <1>2
  <2>2. (n * k) * p \in Nat /\ n * t \in Nat
    BY <1>2, <1>3
  <2> QED
    BY <1>4, <2>1, <2>2
<1>7. CASE t + 1 = k
  <2>1. a + n = (n * k) * (p + 1) + 0
    <3>1. (n * k) * (p + 1) = (n * k) * p + n * k
      BY <1>2, <1>3
    <3>2. (n * k) * (p + 1) \in Nat
      BY <1>2, <1>3
    <3> QED
      BY <1>6, <1>7, <3>1, <3>2
  <2>2. ((n * k) * (p + 1) + 0) % (n * k) = 0
    <3>1. 0 \in 0 .. (n * k) - 1 /\ p + 1 \in Nat
      BY <1>2, <1>3
    <3> QED
      BY <1>3, <3>1, DivModUnique
  <2> QED
    BY <2>1, <2>2
<1>8. CASE t + 1 # k
  <2>1. t + 1 \in Nat /\ t + 1 < k
    BY <1>2, <1>8
  <2>2. n * (t + 1) + n <= n * k
    BY <2>1, Product
  <2>3. n * (t + 1) \in 0 .. (n * k) - 1
    <3>1. n * (t + 1) \in Nat
      BY <2>1
    <3> QED
      BY <1>3, <2>2, <3>1
  <2>4. ((n * k) * p + n * (t + 1)) \div (n * k) = p
    BY <1>2, <1>3, <2>3, DivModUnique
  <2> QED
    BY <1>5, <1>6, <2>4
<1> QED
  BY <1>7, <1>8

\* A larger block is made of smaller ones.
LEMMA SizesDivide ==
  ASSUME NEW l \in Levels, NEW m \in Levels, m <= l
  PROVE  \E k \in Nat \ {0} : LevelSize[m] = LevelSize[l] * k
<1>1. l \in {1, 2, 3} /\ m \in {1, 2, 3}
  BY LevelSizes
<1>2. CASE m = l
  <2>1. LevelSize[m] = LevelSize[l] * 1
    BY <1>2, LevelSizes
  <2> QED
    BY <2>1
<1>3. CASE m = 1 /\ l = 2
  BY <1>3, LevelSizes
<1>4. CASE m = 2 /\ l = 3
  BY <1>4, LevelSizes
<1>5. CASE m = 1 /\ l = 3
  <2>1. LevelSize[1] \in Nat \ {0} /\ LevelSize[3] = 1
    BY LevelSizes
  <2>2. LevelSize[1] = LevelSize[3] * LevelSize[1]
    BY <2>1
  <2> QED
    BY <1>5, <2>1, <2>2
<1> QED
  BY <1>1, <1>2, <1>3, <1>4, <1>5

\* An address aligned for a block is aligned for smaller ones, at its end too.
LEMMA AlignedBelow ==
  ASSUME NEW a \in Nat, NEW l \in Levels, NEW m \in Levels, m <= l, a % LevelSize[m] = 0
  PROVE  a % LevelSize[l] = 0 /\ (a + LevelSize[m]) % LevelSize[l] = 0
<1>1. PICK k \in Nat \ {0} : LevelSize[m] = LevelSize[l] * k
  BY SizesDivide
<1> DEFINE n == LevelSize[l]
           q == a \div (n * k)
<1>2. n \in Nat \ {0} /\ n * k \in Nat \ {0}
  BY <1>1, LevelSizes
<1>3. q \in Nat /\ a = (n * k) * q
  <2>1. q \in Nat /\ a = (n * k) * q + (a % (n * k))
    BY <1>2, DivMod
  <2>2. a % (n * k) = 0
    BY <1>1
  <2> QED
    BY <1>2, <2>1, <2>2
<1> HIDE DEF q, n
<1>4. k * q \in Nat /\ k * (q + 1) \in Nat
  BY <1>3
<1>5. a = n * (k * q) + 0 /\ a + n * k = n * (k * (q + 1)) + 0
  <2>1. (n * k) * q = n * (k * q) /\ (n * k) * q + n * k = n * (k * (q + 1))
    BY <1>2, <1>3
  <2>2. n * (k * q) \in Nat /\ n * (k * (q + 1)) \in Nat
    BY <1>2, <1>4
  <2> QED
    BY <1>3, <2>1, <2>2
<1>6. 0 \in 0 .. n - 1
  BY <1>2
<1>7. (n * (k * q) + 0) % n = 0 /\ (n * (k * (q + 1)) + 0) % n = 0
  BY <1>2, <1>4, <1>6, DivModUnique
<1> QED
  BY <1>1, <1>5, <1>7 DEF n

\* The blocks that have a table.
Tabled(x) ==
  {b \in {1, 2} \X Nat : \E a \in Pages : b[2] = a \div LevelSize[b[1]] /\ Open(x, a, b[1] + 1)}

LEMMA TabledIs ==
  ASSUME NEW x, NEW l \in {1, 2}, NEW a \in Pages
  PROVE  BlockOf(l, a) \in Tabled(x) <=> Open(x, a, l + 1)
<1>1. a \in Nat /\ l \in Levels
  BY PagesAre, LevelSizes DEF Pages
<1>2. BlockOf(l, a) \in {1, 2} \X Nat
  BY <1>1, DivMod, LevelSizes DEF BlockOf
<1>3. BlockOf(l, a) \in Tabled(x) <=>
        \E c \in Pages : a \div LevelSize[l] = c \div LevelSize[l] /\ Open(x, c, l + 1)
  BY <1>2 DEF Tabled, BlockOf
<1>4. ASSUME NEW c \in Pages, a \div LevelSize[l] = c \div LevelSize[l], Open(x, c, l + 1)
      PROVE  Open(x, a, l + 1)
  <2>1. SameBlock(l, a, c)
    BY <1>4 DEF SameBlock
  <2>2. \A m \in Levels : m <= l => EntryAt(x, a, m) = EntryAt(x, c, m)
    BY <1>1, <2>1, SameWay
  <2>3. \A m \in Levels : m < l + 1 => m <= l
    BY LevelSizes
  <2> QED
    BY <1>4, <2>2, <2>3 DEF Open
<1> QED
  BY <1>3, <1>4

\* A set of such blocks is known by its pages.
LEMMA TabledHasPage ==
  ASSUME NEW x, NEW b \in Tabled(x)
  PROVE  \E l \in {1, 2}, a \in Pages : b = BlockOf(l, a) /\ Open(x, a, l + 1)
<1>1. PICK a \in Pages : b[2] = a \div LevelSize[b[1]] /\ Open(x, a, b[1] + 1)
  BY DEF Tabled
<1>2. b \in {1, 2} \X Nat
  BY DEF Tabled
<1>3. b[1] \in {1, 2} /\ b = BlockOf(b[1], a)
  BY <1>1, <1>2 DEF BlockOf
<1> QED
  BY <1>1, <1>3

\* A block is open or not as the levels above it are: an open way is open above.
LEMMA OpenAbove ==
  ASSUME NEW x, NEW a, NEW l \in Levels, NEW m \in Levels, m <= l, Open(x, a, l)
  PROVE  Open(x, a, m)
BY LevelSizes DEF Open

\* Mapping a block in which no smaller one has a table.
LEMMA TabledKept ==
  ASSUME NEW x, NEW y, NEW i \in Tables, Tree(x, i),
         NEW v \in Pages, NEW l \in Levels, Open(x, v, l),
         Differs(x, y, TableAt(x, v, l), GetVaIndex(v, l), i),
         y[TableAt(x, v, l)][GetVaIndex(v, l)].type = Leaf(l),
         \A a \in Pages, m \in {1, 2} : SameBlock(l, a, v) /\ l <= m => BlockOf(m, a) \notin Tabled(x)
  PROVE  Tabled(y) = Tabled(x)
<1>1. ASSUME NEW a \in Pages, NEW m \in {1, 2}
      PROVE  Open(y, a, m + 1) <=> Open(x, a, m + 1)
  <2>0. m + 1 \in Levels /\ m \in Levels
    BY LevelSizes
  <2>1. CASE ~SameBlock(l, a, v)
    BY <2>0, <2>1, Elsewhere
  <2>2. CASE SameBlock(l, a, v) /\ m + 1 <= l
    <3>1. Open(y, a, l)
      BY <2>2, Here
    <3>2. Open(x, a, l)
      BY <2>2, SameWay, LevelSizes
    <3> QED
      BY <2>0, <2>2, <3>1, <3>2, OpenAbove
  <2>3. CASE SameBlock(l, a, v) /\ ~(m + 1 <= l)
    <3>1. l <= m /\ l < m + 1
      BY <2>3, LevelSizes
    <3>2. ~Open(x, a, m + 1)
      BY <2>3, <3>1, TabledIs
    <3>3. EntryAt(y, a, l).type = Leaf(l)
      BY <2>3, Here
    <3>4. Leaf(l) # PTE_TABLE_DESC
      BY <3>1, LevelSizes DEF Leaf, PTE_BLOCK_DESC, PTE_TABLE_DESC
    <3> QED
      BY <3>1, <3>2, <3>3, <3>4 DEF Open
  <2> QED
    BY <2>1, <2>2, <2>3
<1>2. ASSUME NEW b \in {1, 2} \X Nat, NEW a \in Pages
      PROVE  Open(y, a, b[1] + 1) <=> Open(x, a, b[1] + 1)
  BY <1>1
<1> QED
  BY <1>2 DEF Tabled

\* A table for a block that had none.
LEMMA TabledGrows ==
  ASSUME NEW x, NEW y, NEW i \in Tables, Tree(x, i),
         NEW v \in Pages, NEW l \in {1, 2}, Open(x, v, l),
         Differs(x, y, TableAt(x, v, l), GetVaIndex(v, l), i),
         y[TableAt(x, v, l)][GetVaIndex(v, l)].type = PTE_TABLE_DESC,
         y[TableAt(x, v, l)][GetVaIndex(v, l)].addr = i + 1,
         EntryAt(x, v, l).type # PTE_TABLE_DESC,
         l = 1 => \A f \in Entries : y[i + 1][f].type # PTE_TABLE_DESC
  PROVE  Tabled(y) = Tabled(x) \cup {BlockOf(l, v)} /\ BlockOf(l, v) \notin Tabled(x)
<1>0. l \in Levels
  BY LevelSizes
<1>1. ~Open(x, v, l + 1)
  BY <1>0, LevelSizes DEF Open
<1>2. BlockOf(l, v) \notin Tabled(x)
  BY <1>1, TabledIs
<1>3. ASSUME NEW a \in Pages, NEW m \in {1, 2}
      PROVE  Open(y, a, m + 1) <=> Open(x, a, m + 1) \/ BlockOf(m, a) = BlockOf(l, v)
  <2>0. m + 1 \in Levels /\ m \in Levels /\ a \in Nat
    BY LevelSizes, PagesAre DEF Pages
  <2>1. BlockOf(m, a) = BlockOf(l, v) <=> m = l /\ SameBlock(l, a, v)
    BY DEF BlockOf, SameBlock
  <2>2. CASE ~SameBlock(l, a, v)
    BY <1>0, <2>0, <2>1, <2>2, Elsewhere
  <2>3. CASE SameBlock(l, a, v)
    <3>0. a \in Pages /\ l \in Levels /\ l <= l
      BY <1>0, LevelSizes
    <3>1. Open(y, a, l) /\ TableAt(y, a, l) = TableAt(x, v, l)
          /\ EntryAt(y, a, l) = y[TableAt(x, v, l)][GetVaIndex(v, l)]

      <4> QED
        BY <3>0, <2>3, Here
    <3>2. Open(x, a, l) /\ EntryAt(x, a, l) = EntryAt(x, v, l)
      BY <3>0, <2>3, SameWay
    <3>3. CASE m = l
      BY <2>1, <2>3, <3>1, <3>3, OpenIs
    <3>4. CASE m < l
      <4>1. m + 1 <= l
        BY <3>4
      <4> QED
        BY <1>0, <2>0, <3>1, <3>2, <4>1, OpenAbove
    <3>5. CASE m > l
      <4>1. l = 1 /\ m = 2
        BY <3>5
      <4>2. ~Open(x, a, 2)
        BY <3>2, <4>1, OpenIs
      <4>3. EntryAt(y, a, 2).type # PTE_TABLE_DESC
        <5>1. TableAt(y, a, 2) = i + 1
          BY <3>1, <4>1, TableAtIs
        <5>2. GetVaIndex(a, 2) \in Entries
          BY <2>0, <4>1, IndexIsEntry
        <5> QED
          BY <4>1, <5>1, <5>2 DEF EntryAt
      <4> QED
        BY <2>1, <4>1, <4>2, <4>3, OpenIs
    <3> QED
      BY <3>3, <3>4, <3>5
  <2> QED
    BY <2>2, <2>3
<1>4. ASSUME NEW b \in Tabled(y) PROVE b \in Tabled(x) \cup {BlockOf(l, v)}
  <2>1. PICK m \in {1, 2}, a \in Pages : b = BlockOf(m, a) /\ Open(y, a, m + 1)
    BY <1>4, TabledHasPage
  <2> QED
    BY <1>3, <2>1, TabledIs
<1>5. ASSUME NEW b \in Tabled(x) PROVE b \in Tabled(y)
  <2>1. PICK m \in {1, 2}, a \in Pages : b = BlockOf(m, a) /\ Open(x, a, m + 1)
    BY <1>5, TabledHasPage
  <2> QED
    BY <1>3, <2>1, TabledIs
<1>6. BlockOf(l, v) \in Tabled(y)
  BY <1>3, TabledIs
<1> QED
  BY <1>2, <1>4, <1>5, <1>6

\* The loop looks at a level after the block of each level above did not fit.
FitsAt(l) == size >= LevelSize[l] /\ va % LevelSize[l] = 0

Above == size > 0 => \A l \in Levels : l < level => ~FitsAt(l)

\* A block the loop is in the middle of is covered in part.
Behind ==
  size > 0 => \A l \in {1, 2} : va % LevelSize[l] # 0 => BlockOf(l, va) \in Partial(Region)

\* Of the first n regions none has a block in it that an earlier one covers in part.
NoneLost(n) ==
  \A j, k \in 1 .. n : j < k =>
    \A l \in {1, 2}, p \in Nat :
      BlockOf(l, p) \in Partial(regions[j]) => ~Within(regions[k], l, p)

\* The blocks with a table: those the regions cover in part, as far as the loop has come.
Wanted == UNION {Partial(regions[k]) : k \in 1 .. r}

Counted ==
  ~panic /\ NoneLost(r) =>
    /\ IsFiniteSet(Tabled(xlat)) /\ idx = Cardinality(Tabled(xlat))
    /\ Tabled(xlat) \subseteq Wanted
    /\ \A k \in 1 .. r - 1 : Partial(regions[k]) \subseteq Tabled(xlat)
    /\ \A l \in {1, 2}, a \in Region.base_va .. va - 1 :
         BlockOf(l, a) \in Partial(Region) => BlockOf(l, a) \in Tabled(xlat)

PoolInv == Above /\ Behind /\ Counted

\* The block of a page and aligned addresses before and behind it.
LEMMA AlignedBounds ==
  ASSUME NEW n \in Nat \ {0}, NEW a \in Nat, NEW c \in Nat, c % n = 0
  PROVE  /\ c <= a => c <= (a \div n) * n
         /\ a < c => (a \div n) * n + n <= c
<1> DEFINE q == a \div n
           p == c \div n
           s == a % n
<1>1. q \in Nat /\ s \in 0 .. n - 1 /\ a = n * q + s
  BY DivMod
<1>2. p \in Nat /\ c = n * p
  <2>1. p \in Nat /\ c = n * p + (c % n)
    BY DivMod
  <2> QED
    BY <2>1
<1> HIDE DEF q, p, s
<1>3. q < p => n * q + n <= n * p
  BY <1>1, <1>2, Product
<1>4. p < q => n * p + n <= n * q
  BY <1>1, <1>2, Product
<1>5. n * q \in Nat /\ n * p \in Nat /\ q * n = n * q
  BY <1>1, <1>2
<1>6. c <= a => c <= q * n
  <2>1. q < p \/ q = p \/ p < q
    BY <1>1, <1>2
  <2> QED
    BY <1>1, <1>2, <1>3, <1>4, <1>5, <2>1
<1>7. a < c => q * n + n <= c
  <2>1. q < p \/ p <= q
    BY <1>1, <1>2
  <2>2. p <= q => n * p <= n * q
    BY <1>1, <1>2, <1>4, <1>5
  <2> QED
    BY <1>1, <1>2, <1>3, <1>5, <2>1, <2>2
<1> QED
  BY <1>6, <1>7 DEF q

\* A smaller block in a block that is all in the region is all in the region.
LEMMA BlockInside ==
  ASSUME NEW reg \in MmuRegions, NEW v \in Nat, NEW l \in Levels, v % LevelSize[l] = 0,
         reg.base_va <= v, v + LevelSize[l] <= reg.base_va + reg.size,
         NEW a \in Nat, v <= a, a < v + LevelSize[l], NEW m \in Levels, l <= m
  PROVE  Within(reg, m, a)
<1> DEFINE n == LevelSize[m]
           e == v + LevelSize[l]
<1>1. n \in Nat \ {0} /\ LevelSize[l] \in Nat /\ e \in Nat
  BY LevelSizes
<1>2. v % n = 0 /\ e % n = 0
  BY AlignedBelow
<1>3. reg.base_va \in Nat /\ reg.size \in Nat
  BY DEF MmuRegions
<1>4. reg.base_va <= v /\ e <= reg.base_va + reg.size /\ v <= a /\ a < e
  OBVIOUS
<1> HIDE DEF n, e
<1>5. v <= (a \div n) * n /\ (a \div n) * n + n <= e
  BY <1>1, <1>2, <1>4, AlignedBounds
<1>6. (a \div n) * n \in Nat
  <2>1. a \div n \in Nat
    BY <1>1, DivMod
  <2> QED
    BY <1>1, <2>1
<1>7. /\ reg.base_va <= (a \div n) * n
      /\ (a \div n) * n + n <= reg.base_va + reg.size
  BY <1>1, <1>3, <1>4, <1>5, <1>6
<1> QED
  BY <1>7 DEF Within, n

\* The block the loop is at, when it does not fit, is covered in part.
LEMMA NotFitPartial ==
  ASSUME TypeOK, Progress, Behind, size > 0, NEW l \in {1, 2}, ~FitsAt(l)
  PROVE  BlockOf(l, va) \in Partial(Region)
<1>1. CASE va % LevelSize[l] # 0
  BY <1>1 DEF Behind
<1>2. CASE va % LevelSize[l] = 0
  <2>1. /\ va \in Nat /\ size \in Nat /\ l \in Levels /\ LevelSize[l] \in Nat
        /\ Region \in MmuRegions /\ Region.base_va \in Nat /\ Region.size \in Nat
    BY RegionIs, LevelSizes DEF TypeOK
  <2>2. size < LevelSize[l]
    BY <1>2, <2>1 DEF FitsAt
  <2>3. (va \div LevelSize[l]) * LevelSize[l] = va
    BY <1>2, <2>1, BlockPages
  <2>4. Region.base_va <= va /\ va + size = Region.base_va + Region.size
    BY DEF Progress
  <2>5. va < Region.base_va + Region.size
    BY <2>1, <2>4
  <2>6. ~Within(Region, l, va)
    BY <2>1, <2>2, <2>3, <2>4 DEF Within
  <2> QED
    BY <2>1, <2>4, <2>5, <2>6, PartialIs
<1> QED
  BY <1>1, <1>2

\* At the start of a region too, when it is in the middle of a block.
LEMMA StartPartial ==
  ASSUME NEW reg \in MmuRegions, reg.size > 0, NEW l \in {1, 2},
         reg.base_va % LevelSize[l] # 0
  PROVE  BlockOf(l, reg.base_va) \in Partial(reg)
<1> DEFINE b == reg.base_va
           n == LevelSize[l]
<1>1. b \in Nat /\ reg.size \in Nat /\ n \in Nat \ {0} /\ l \in Levels
  BY LevelSizes DEF MmuRegions
<1>2. (b \div n) * n < b
  <2>1. b \div n \in Nat /\ b % n \in 0 .. n - 1 /\ b = n * (b \div n) + (b % n)
    BY <1>1, DivMod
  <2>2. b % n > 0
    BY <1>1, <2>1
  <2>3. n * (b \div n) = (b \div n) * n /\ n * (b \div n) \in Nat
    BY <1>1, <2>1
  <2> QED
    BY <1>1, <2>1, <2>2, <2>3
<1>3. (b \div n) * n \in Nat
  BY <1>1, BlockPages
<1>4. ~Within(reg, l, b)
  BY <1>1, <1>2, <1>3 DEF Within
<1>5. b <= b /\ b < b + reg.size
  BY <1>1
<1> QED
  BY <1>1, <1>4, <1>5, PartialIs

\* The loop is in its region.
LEMMA AtRegion ==
  ASSUME MmuInv
  PROVE  /\ TypeOK /\ Progress
         /\ va \in Nat /\ size \in Nat /\ level \in Levels /\ idx \in Nat
         /\ Region \in MmuRegions /\ Region.base_va \in Nat /\ Region.size \in Nat
         /\ Region.base_va <= va /\ va + size = Region.base_va + Region.size
         /\ r \in Nat \ {0} /\ r \in 1 .. Len(regions) /\ Len(regions) \in Nat
<1>1. TypeOK /\ Progress
  BY DEF MmuInv
<1>2. idx \in Nat
  BY <1>1 DEF TypeOK, Tables
<1>3. r \in Nat \ {0} /\ r \in 1 .. Len(regions) /\ Len(regions) \in Nat
  BY <1>1, LayoutsAre DEF TypeOK
<1>4. Region.base_va <= va /\ va + size = Region.base_va + Region.size
  BY <1>1 DEF Progress
<1> QED
  BY <1>1, <1>2, <1>3, <1>4, RegionIs DEF TypeOK

\* In the block that is mapped no smaller one is covered in part.
LEMMA NothingLost ==
  ASSUME MmuInv, PoolInv, ~panic, size > 0, Fits, NoneLost(r),
         NEW a \in Nat, va <= a, a < va + LevelSize[level], NEW m \in {1, 2}, level <= m
  PROVE  BlockOf(m, a) \notin Partial(Region) /\ BlockOf(m, a) \notin Tabled(xlat)
<1>1. /\ va \in Nat /\ size \in Nat /\ level \in Levels /\ LevelSize[level] \in Nat
      /\ Region \in MmuRegions /\ Region.base_va \in Nat /\ Region.size \in Nat
      /\ Region.base_va <= va /\ va + size = Region.base_va + Region.size
      /\ r \in Nat \ {0} /\ m \in Levels
  BY AtRegion, LevelSizes
<1>2. size >= LevelSize[level] /\ va % LevelSize[level] = 0
  BY DEF Fits
<1>3. va + LevelSize[level] <= Region.base_va + Region.size
  BY <1>1, <1>2
<1>4. Within(Region, m, a)
  BY <1>1, <1>2, <1>3, BlockInside
<1>5. Region.base_va <= a /\ a < Region.base_va + Region.size
  BY <1>1, <1>3
<1>6. BlockOf(m, a) \notin Partial(Region)
  BY <1>1, <1>4, <1>5, PartialIs
<1>7. ASSUME BlockOf(m, a) \in Tabled(xlat) PROVE FALSE
  <2>1. Tabled(xlat) \subseteq Wanted
    BY DEF PoolInv, Counted
  <2>2. PICK k \in 1 .. r : BlockOf(m, a) \in Partial(regions[k])
    BY <1>7, <2>1 DEF Wanted
  <2>3. k # r
    BY <1>6, <2>2 DEF Region
  <2>4. k < r /\ r \in 1 .. r
    BY <1>1, <2>3
  <2>5. ~Within(regions[r], m, a)
    BY <2>2, <2>4 DEF NoneLost
  <2> QED
    BY <1>4, <2>5 DEF Region
<1> QED
  BY <1>6, <1>7

\* Where the next turn is in a block above the one that was mapped.
LEMMA StepBehind ==
  ASSUME MmuInv, PoolInv, size > 0, Fits, NEW l \in {1, 2},
         (va + LevelSize[level]) % LevelSize[l] # 0
  PROVE  BlockOf(l, va + LevelSize[level]) \in Partial(Region)
<1> DEFINE n == LevelSize[level]
<1>1. /\ va \in Nat /\ size \in Nat /\ level \in Levels /\ n \in Nat \ {0}
      /\ TypeOK /\ Progress /\ l \in Levels
  BY AtRegion, LevelSizes
<1>2. Above /\ Behind
  BY DEF PoolInv
<1>3. va % n = 0
  BY DEF Fits
<1>4. l < level
  <2>1. level <= l => (va + LevelSize[level]) % LevelSize[l] = 0
    BY <1>1, <1>3, AlignedBelow
  <2> QED
    BY <1>1, <2>1, LevelSizes
<1>5. ~FitsAt(l)
  BY <1>1, <1>2, <1>4 DEF Above
<1>6. BlockOf(l, va) \in Partial(Region)
  BY <1>1, <1>2, <1>5, NotFitPartial
<1>7. l <= level
  BY <1>1, <1>4, LevelSizes
<1>8. PICK k \in Nat \ {0} : LevelSize[l] = n * k
  BY <1>1, <1>7, SizesDivide
<1>9. (va + n) \div (n * k) = va \div (n * k)
  <2>1. (va + n) % (n * k) # 0
    BY <1>8
  <2> QED
    BY <1>1, <1>3, <2>1, StepInBlock
<1>10. BlockOf(l, va + n) = BlockOf(l, va)
  BY <1>8, <1>9 DEF BlockOf
<1> QED
  BY <1>6, <1>10

LEMMA MapBlockCounts ==
  ASSUME MmuInv, PoolInv, ~panic, size > 0, MapBlock, UNCHANGED <<regions, r>>
  PROVE  PoolInv'
<1> DEFINE n == LevelSize[level]
<1>1. /\ va \in Nat /\ size \in Nat /\ level \in Levels /\ n \in Nat \ {0}
      /\ Region \in MmuRegions /\ Region.base_va \in Nat /\ Region.size \in Nat
      /\ Region.base_va <= va /\ va + size = Region.base_va + Region.size
      /\ r \in Nat \ {0}
  BY AtRegion, LevelSizes
<1>2. /\ Fits /\ va' = va + n /\ size' = size - n /\ level' = 1
      /\ UNCHANGED <<idx, panic>> /\ size >= n /\ va % n = 0
  BY DEF MapBlock, Fits, PAGE_TABLE_BASE_LEVEL
<1>3. Above'
  BY <1>2, LevelSizes DEF Above
<1>4. Behind'
  <2>1. \A l \in {1, 2} : va' % LevelSize[l] # 0 => BlockOf(l, va') \in Partial(Region)
    BY <1>2, StepBehind
  <2>2. Region' = Region
    BY DEF Region
  <2> QED
    BY <2>1, <2>2 DEF Behind
<1>5. ASSUME NoneLost(r) PROVE Tabled(xlat') = Tabled(xlat)
  <2>1. /\ va \in Pages /\ Open(xlat, va, level)
        /\ Pte[1] = TableAt(xlat, va, level) /\ Pte[2] = GetVaIndex(va, level)
    BY AtTurn
  <2>2. /\ xlat'[TableAt(xlat, va, level)][GetVaIndex(va, level)].type = Leaf(level)
        /\ Differs(xlat, xlat', TableAt(xlat, va, level), GetVaIndex(va, level), idx)
    BY <2>1, MapBlockWrites
  <2>3. ASSUME NEW a \in Pages, NEW m \in {1, 2}, SameBlock(level, a, va), level <= m
        PROVE  BlockOf(m, a) \notin Tabled(xlat)
    <3>1. a \in Nat
      BY PagesAre DEF Pages
    <3>2. a \in va .. va + n - 1
      BY <1>1, <1>2, <2>3, <3>1, InBlock
    <3>3. va <= a /\ a < va + n
      BY <1>1, <3>1, <3>2
    <3> QED
      BY <1>2, <1>5, <2>3, <3>1, <3>3, NothingLost
  <2>4. Tree(xlat, idx) /\ idx \in Tables
    BY DEF MmuInv, TypeOK
  <2> QED
    BY <1>1, <2>1, <2>2, <2>3, <2>4, TabledKept
<1>6. ASSUME NoneLost(r), NEW l \in {1, 2}, NEW a \in Region.base_va .. va + n - 1,
             BlockOf(l, a) \in Partial(Region)
      PROVE  BlockOf(l, a) \in Tabled(xlat)
  <2>1. CASE a < va
    <3>1. a \in Region.base_va .. va - 1
      BY <1>1, <2>1
    <3> QED
      BY <1>6, <3>1 DEF PoolInv, Counted
  <2>2. CASE va <= a
    <3>1. a \in Nat /\ a < va + n /\ a \in va .. va + n - 1
      BY <1>1, <2>2
    <3>2. a \in Pages /\ va \in Pages /\ Open(xlat, va, level)
      <4>1. va .. va + size - 1 \subseteq Pages /\ va \in Pages /\ Open(xlat, va, level)
        BY AtTurn
      <4>2. a \in va .. va + size - 1
        BY <1>1, <1>2, <3>1
      <4> QED
        BY <4>1, <4>2
    <3>3. SameBlock(level, a, va)
      BY <1>1, <1>2, <3>1, InBlock
    <3>4. l < level
      <4>1. level <= l => BlockOf(l, a) \notin Partial(Region)
        BY <1>2, <1>6, <2>2, <3>1, NothingLost
      <4> QED
        BY <1>1, <1>6, <4>1, LevelSizes
    <3>5. Open(xlat, a, level)
      BY <1>1, <3>2, <3>3, SameWay, LevelSizes
    <3>6. l + 1 \in Levels /\ l + 1 <= level
      BY <1>1, <3>4, LevelSizes
    <3>7. Open(xlat, a, l + 1)
      BY <1>1, <3>5, <3>6, OpenAbove
    <3> QED
      BY <3>2, <3>7, TabledIs
  <2> QED
    BY <1>1, <2>1, <2>2
<1>7. Counted'
  <2> SUFFICES ASSUME ~panic', NoneLost(r)'
               PROVE  /\ IsFiniteSet(Tabled(xlat')) /\ idx' = Cardinality(Tabled(xlat'))
                      /\ Tabled(xlat') \subseteq Wanted'
                      /\ \A k \in 1 .. r' - 1 : Partial(regions'[k]) \subseteq Tabled(xlat')
                      /\ \A l \in {1, 2}, a \in Region'.base_va .. va' - 1 :
                           BlockOf(l, a) \in Partial(Region') => BlockOf(l, a) \in Tabled(xlat')
    BY DEF Counted, Tabled, Open, EntryAt, TableAt, Second, Third
  <2>1. NoneLost(r)
    BY DEF NoneLost
  <2>2. Wanted' = Wanted /\ Region' = Region
    BY DEF Wanted, Region
  <2>3. /\ IsFiniteSet(Tabled(xlat)) /\ idx = Cardinality(Tabled(xlat))
        /\ Tabled(xlat) \subseteq Wanted
        /\ \A k \in 1 .. r - 1 : Partial(regions[k]) \subseteq Tabled(xlat)
    BY <2>1 DEF PoolInv, Counted
  <2>4. Tabled(xlat') = Tabled(xlat)
    BY <1>5, <2>1
  <2>5. \A l \in {1, 2}, a \in Region'.base_va .. va' - 1 :
          BlockOf(l, a) \in Partial(Region') => BlockOf(l, a) \in Tabled(xlat')
    <3>1. va' - 1 = va + n - 1 /\ Region' = Region
      BY <1>1, <1>2, <2>2
    <3> QED
      BY <1>6, <2>1, <2>4, <3>1
  <2> HIDE DEF n
  <2>6. IsFiniteSet(Tabled(xlat')) /\ idx' = Cardinality(Tabled(xlat'))
    BY <1>2, <2>3, <2>4
  <2>7. Tabled(xlat') \subseteq Wanted'
    BY <2>2, <2>3, <2>4
  <2>8. \A k \in 1 .. r' - 1 : Partial(regions'[k]) \subseteq Tabled(xlat')
    BY <2>3, <2>4
  <2> QED
    BY <2>5, <2>6, <2>7, <2>8
<1> QED
  BY <1>3, <1>4, <1>7 DEF PoolInv

\* A table for the block that did not fit.
LEMMA TakenCounts ==
  ASSUME MmuInv, PoolInv, ~panic, size > 0, ~Fits, OldDesc.type # PTE_TABLE_DESC,
         NEW s, Taken(xlat', s),
         level = 1 => \A e \in Entries : s[e].type # PTE_TABLE_DESC,
         level' = level + 1, UNCHANGED <<regions, r, va, size, panic>>
  PROVE  PoolInv'
<1>1. /\ TypeOK /\ Progress /\ Above /\ Behind /\ level \in {1, 2} /\ ~FitsAt(level)
      /\ va \in Pages /\ Open(xlat, va, level)
      /\ Pte[1] = TableAt(xlat, va, level) /\ Pte[2] = GetVaIndex(va, level)
      /\ OldDesc = EntryAt(xlat, va, level)
  BY AtRegion, AtTurn DEF PoolInv, Fits, FitsAt
<1>2. Above'
  <2>1. \A l \in Levels : l < level + 1 => l < level \/ l = level
    BY <1>1, LevelSizes
  <2>2. \A l \in Levels : l < level' => ~FitsAt(l)
    BY <1>1, <2>1 DEF Above
  <2> QED
    BY <2>2 DEF Above, FitsAt
<1>3. Behind'
  BY <1>1 DEF Behind, Region
<1>4. BlockOf(level, va) \in Partial(Region)
  BY <1>1, NotFitPartial
<1>5. Tabled(xlat') = Tabled(xlat) \cup {BlockOf(level, va)} /\ BlockOf(level, va) \notin Tabled(xlat)
  <2>1. /\ idx' = idx + 1 /\ xlat'[Pte[1]][Pte[2]].type = PTE_TABLE_DESC
        /\ xlat'[Pte[1]][Pte[2]].addr = idx + 1
        /\ Differs(xlat, xlat', TableAt(xlat, va, level), GetVaIndex(va, level), idx)
        /\ xlat'[idx + 1] = s
    BY DEF Taken
  <2>2. Tree(xlat, idx) /\ idx \in Tables
    BY DEF MmuInv, TypeOK
  <2>3. level = 1 => \A e \in Entries : xlat'[idx + 1][e].type # PTE_TABLE_DESC
    BY <2>1
  <2>4. /\ xlat'[TableAt(xlat, va, level)][GetVaIndex(va, level)].type = PTE_TABLE_DESC
        /\ xlat'[TableAt(xlat, va, level)][GetVaIndex(va, level)].addr = idx + 1
        /\ EntryAt(xlat, va, level).type # PTE_TABLE_DESC
    BY <1>1, <2>1
  <2>5. va \in Pages /\ level \in {1, 2} /\ Open(xlat, va, level)
    BY <1>1
  <2>6. ASSUME NEW x, x = xlat, NEW y, y = xlat', NEW i \in Tables, i = idx,
               NEW v \in Pages, v = va, NEW l \in {1, 2}, l = level
        PROVE  Tabled(y) = Tabled(x) \cup {BlockOf(l, v)} /\ BlockOf(l, v) \notin Tabled(x)
    <3>1. Tree(x, i) /\ Open(x, v, l) /\ Differs(x, y, TableAt(x, v, l), GetVaIndex(v, l), i)
      BY <2>1, <2>2, <2>5, <2>6
    <3>2. /\ y[TableAt(x, v, l)][GetVaIndex(v, l)].type = PTE_TABLE_DESC
          /\ y[TableAt(x, v, l)][GetVaIndex(v, l)].addr = i + 1
          /\ EntryAt(x, v, l).type # PTE_TABLE_DESC
      BY <2>4, <2>6
    <3>3. l = 1 => \A f \in Entries : y[i + 1][f].type # PTE_TABLE_DESC
      BY <2>3, <2>6
    <3> QED
      BY <3>1, <3>2, <3>3, TabledGrows
  <2> QED
    BY <2>2, <2>5, <2>6
<1>6. Counted'
  <2> SUFFICES ASSUME ~panic', NoneLost(r)'
               PROVE  /\ IsFiniteSet(Tabled(xlat')) /\ idx' = Cardinality(Tabled(xlat'))
                      /\ Tabled(xlat') \subseteq Wanted'
                      /\ \A k \in 1 .. r' - 1 : Partial(regions'[k]) \subseteq Tabled(xlat')
                      /\ \A l \in {1, 2}, a \in Region'.base_va .. va' - 1 :
                           BlockOf(l, a) \in Partial(Region') => BlockOf(l, a) \in Tabled(xlat')
    BY DEF Counted, Tabled, Open, EntryAt, TableAt, Second, Third
  <2>1. NoneLost(r)
    BY DEF NoneLost
  <2>2. Wanted' = Wanted /\ Region' = Region
    BY DEF Wanted, Region
  <2>3. /\ IsFiniteSet(Tabled(xlat)) /\ idx = Cardinality(Tabled(xlat))
        /\ Tabled(xlat) \subseteq Wanted
        /\ \A k \in 1 .. r - 1 : Partial(regions[k]) \subseteq Tabled(xlat)
        /\ \A l \in {1, 2}, a \in Region.base_va .. va - 1 :
             BlockOf(l, a) \in Partial(Region) => BlockOf(l, a) \in Tabled(xlat)
    BY <2>1 DEF PoolInv, Counted
  <2>4. IsFiniteSet(Tabled(xlat')) /\ Cardinality(Tabled(xlat')) = Cardinality(Tabled(xlat)) + 1
    BY <1>5, <2>3, FS_AddElement
  <2>5. idx' = Cardinality(Tabled(xlat'))
    BY <2>3, <2>4 DEF Taken
  <2>6. BlockOf(level, va) \in Wanted
    <3>1. r \in 1 .. r
      BY AtRegion
    <3> QED
      BY <1>4, <3>1 DEF Wanted, Region
  <2>7. Tabled(xlat') \subseteq Wanted'
    BY <1>5, <2>2, <2>3, <2>6
  <2>8. \A k \in 1 .. r' - 1 : Partial(regions'[k]) \subseteq Tabled(xlat')
    BY <1>5, <2>3
  <2>9. \A l \in {1, 2}, a \in Region'.base_va .. va' - 1 :
          BlockOf(l, a) \in Partial(Region') => BlockOf(l, a) \in Tabled(xlat')
    BY <1>5, <2>2, <2>3
  <2> QED
    BY <2>4, <2>5, <2>7, <2>8, <2>9
<1> QED
  BY <1>2, <1>3, <1>6 DEF PoolInv

\* EL2 stops: nothing is promised of the pool any more.
LEMMA NoTableCounts ==
  ASSUME PoolInv, NoTable, UNCHANGED <<regions, r>>
  PROVE  PoolInv'
<1>1. UNCHANGED <<regions, r, va, size, level, xlat, idx>> /\ panic' = TRUE
  BY DEF NoTable
<1>2. Above' /\ Behind'
  BY <1>1 DEF PoolInv, Above, Behind, FitsAt, Region
<1>3. Counted'
  BY <1>1 DEF Counted
<1> QED
  BY <1>2, <1>3 DEF PoolInv

LEMMA NewTableCounts ==
  ASSUME MmuInv, PoolInv, ~panic, size > 0, NewTable, UNCHANGED <<regions, r>>
  PROVE  PoolInv'
<1>1. CASE NoTable
  BY <1>1, NoTableCounts
<1>2. CASE ~NoTable
  <2> DEFINE s == [e \in Entries |-> Zero]
  <2>1. /\ idx < CONFIG_MMU_MAX_XLAT_TABLES /\ level' = level + 1
        /\ UNCHANGED <<va, size, panic>>
        /\ ~Fits /\ OldDesc.type = PTE_INVALID_DESC
    BY <1>2 DEF NewTable
  <2>2. Taken(xlat', s)
    BY <2>1, NewTableWrites
  <2>3. \A e \in Entries : s[e].type # PTE_TABLE_DESC
    BY ZeroIs DEF PTE_INVALID_DESC, PTE_TABLE_DESC
  <2>4. OldDesc.type # PTE_TABLE_DESC
    BY <2>1 DEF PTE_INVALID_DESC, PTE_TABLE_DESC
  <2> HIDE DEF s
  <2> QED
    BY <2>1, <2>2, <2>3, <2>4, TakenCounts
<1> QED
  BY <1>1, <1>2

LEMMA SplitCounts ==
  ASSUME MmuInv, PoolInv, ~panic, size > 0, SplitPteBlockDesc, UNCHANGED <<regions, r>>
  PROVE  PoolInv'
<1>1. CASE NoTable
  BY <1>1, NoTableCounts
<1>2. CASE ~NoTable
  <2> DEFINE s == [e \in Entries |-> Part(OldDesc, e, level)]
  <2>1. /\ idx < CONFIG_MMU_MAX_XLAT_TABLES /\ level' = level + 1
        /\ UNCHANGED <<va, size, panic>>
        /\ ~Fits /\ OldDesc.type = PTE_BLOCK_DESC
    BY <1>2 DEF SplitPteBlockDesc
  <2>2. Taken(xlat', s)
    BY <2>1, SplitWrites
  <2>3. OldDesc \in Descs
    <3>1. Pte[1] \in Tables /\ Pte[2] \in Entries
      BY AtTurn
    <3> QED
      BY <3>1 DEF OldDesc, AllTables, MmuInv, TypeOK
  <2>4. level = 1 => \A e \in Entries : s[e].type # PTE_TABLE_DESC
    <3> SUFFICES ASSUME level = 1, NEW e \in Entries PROVE s[e].type # PTE_TABLE_DESC
      OBVIOUS
    <3>1. Part(OldDesc, e, level).type = Leaf(level + 1)
      BY <2>1, <2>3, PartIs
    <3>2. Leaf(level + 1) = PTE_BLOCK_DESC
      BY DEF Leaf
    <3> QED
      BY <3>1, <3>2 DEF PTE_BLOCK_DESC, PTE_TABLE_DESC
  <2>5. OldDesc.type # PTE_TABLE_DESC
    BY <2>1 DEF PTE_BLOCK_DESC, PTE_TABLE_DESC
  <2> HIDE DEF s
  <2> QED
    BY <2>1, <2>2, <2>4, <2>5, TakenCounts
<1> QED
  BY <1>1, <1>2

LEMMA NextLevelCounts ==
  ASSUME MmuInv, PoolInv, ~panic, size > 0, NextLevel, UNCHANGED <<regions, r>>
  PROVE  PoolInv'
<1>1. ~Fits /\ level' = level + 1 /\ UNCHANGED <<va, size, xlat, idx, panic>>
  BY DEF NextLevel
<1>2. Above /\ Behind /\ Counted /\ ~FitsAt(level) /\ level \in {1, 2}
  BY <1>1, AtTurn DEF PoolInv, Fits, FitsAt
<1>3. Above'
  <2>1. \A l \in Levels : l < level + 1 => l < level \/ l = level
    BY <1>2, LevelSizes
  <2>2. \A l \in Levels : l < level' => ~FitsAt(l)
    BY <1>1, <1>2, <2>1 DEF Above
  <2> QED
    BY <1>1, <2>2 DEF Above, FitsAt
<1>4. Behind'
  BY <1>1, <1>2 DEF Behind, Region
<1>5. Counted'
  <2>1. UNCHANGED <<regions, r, va, xlat, idx, panic>>
    BY <1>1
  <2>2. NoneLost(r)' <=> NoneLost(r)
    BY <2>1 DEF NoneLost
  <2>3. Wanted' = Wanted /\ Region' = Region
    BY <2>1 DEF Wanted, Region
  <2>4. Tabled(xlat)' = Tabled(xlat)
    BY <2>1 DEF Tabled, Open, EntryAt, TableAt, Second, Third
  <2> QED
    BY <1>2, <2>1, <2>2, <2>3, <2>4 DEF Counted
<1> QED
  BY <1>3, <1>4, <1>5 DEF PoolInv

\* The loop at the start of a region.
LEMMA StartBehind ==
  ASSUME NEW k \in 1 .. Len(regions), regions \in Layouts, regions[k].size > 0,
         NEW l \in {1, 2}, regions[k].base_va % LevelSize[l] # 0
  PROVE  BlockOf(l, regions[k].base_va) \in Partial(regions[k])
<1>1. regions[k] \in MmuRegions
  BY LayoutsAre
<1> QED
  BY <1>1, StartPartial

\* The region that is done has a table for each block it covers in part.
LEMMA RegionDone ==
  ASSUME MmuInv, PoolInv, ~panic, size = 0, NoneLost(r)
  PROVE  Partial(Region) \subseteq Tabled(xlat)
<1>1. /\ va \in Nat /\ Region \in MmuRegions
      /\ Region.base_va \in Nat /\ Region.size \in Nat /\ va = Region.base_va + Region.size
  BY AtRegion
<1>2. \A l \in {1, 2}, a \in Region.base_va .. va - 1 :
        BlockOf(l, a) \in Partial(Region) => BlockOf(l, a) \in Tabled(xlat)
  BY DEF PoolInv, Counted
<1> SUFFICES ASSUME NEW b \in Partial(Region) PROVE b \in Tabled(xlat)
  OBVIOUS
<1>3. PICK l \in {1, 2}, p \in Nat :
        b = BlockOf(l, p) /\ Region.base_va <= p /\ p < Region.base_va + Region.size
  BY <1>1, PartialHasPage
<1>4. p \in Region.base_va .. va - 1
  BY <1>1, <1>3
<1> QED
  BY <1>2, <1>3, <1>4

LEMMA NextRegionCounts ==
  ASSUME MmuInv, PoolInv, NextRegion
  PROVE  PoolInv'
<1>1. /\ ~panic /\ size = 0 /\ r < Len(regions) /\ r' = r + 1
      /\ va' = regions[r'].base_va /\ size' = regions[r'].size /\ level' = 1
      /\ UNCHANGED <<regions, xlat, idx, panic>>
  BY DEF NextRegion, PAGE_TABLE_BASE_LEVEL
<1>2. /\ r \in Nat \ {0} /\ r' \in 1 .. Len(regions) /\ regions \in Layouts
      /\ Region' = regions[r']
  <2>1. r \in Nat \ {0} /\ Len(regions) \in Nat
    BY AtRegion
  <2> QED
    BY <1>1, <2>1 DEF Region, MmuInv, TypeOK
<1>3. Above'
  BY <1>1, LevelSizes DEF Above
<1>4. Behind'
  <2>1. ASSUME size' > 0, NEW l \in {1, 2}, va' % LevelSize[l] # 0
        PROVE  BlockOf(l, va') \in Partial(Region')
    BY <1>1, <1>2, <2>1, StartBehind
  <2> QED
    BY <2>1 DEF Behind
<1>5. Counted'
  <2> SUFFICES ASSUME ~panic', NoneLost(r)'
               PROVE  /\ IsFiniteSet(Tabled(xlat')) /\ idx' = Cardinality(Tabled(xlat'))
                      /\ Tabled(xlat') \subseteq Wanted'
                      /\ \A k \in 1 .. r' - 1 : Partial(regions'[k]) \subseteq Tabled(xlat')
                      /\ \A l \in {1, 2}, a \in Region'.base_va .. va' - 1 :
                           BlockOf(l, a) \in Partial(Region') => BlockOf(l, a) \in Tabled(xlat')
    BY DEF Counted, Tabled, Open, EntryAt, TableAt, Second, Third
  <2>1. NoneLost(r)
    <3>1. NoneLost(r + 1)
      BY <1>1 DEF NoneLost
    <3>2. 1 .. r \subseteq 1 .. r + 1
      BY <1>2
    <3> QED
      BY <3>1, <3>2 DEF NoneLost
  <2>2. /\ IsFiniteSet(Tabled(xlat)) /\ idx = Cardinality(Tabled(xlat))
        /\ Tabled(xlat) \subseteq Wanted
        /\ \A k \in 1 .. r - 1 : Partial(regions[k]) \subseteq Tabled(xlat)
    BY <1>1, <2>1 DEF PoolInv, Counted
  <2>3. Wanted \subseteq Wanted'
    <3>1. 1 .. r \subseteq 1 .. r'
      BY <1>1, <1>2
    <3> QED
      BY <1>1, <3>1 DEF Wanted
  <2>4. ASSUME NEW k \in 1 .. r' - 1 PROVE Partial(regions'[k]) \subseteq Tabled(xlat')
    <3>1. CASE k = r
      BY <1>1, <2>1, <3>1, RegionDone DEF Region
    <3>2. CASE k # r
      <4>1. k \in 1 .. r - 1
        BY <1>1, <1>2, <3>2
      <4> QED
        BY <1>1, <2>2, <4>1
    <3> QED
      BY <3>1, <3>2
  <2>5. Region'.base_va .. va' - 1 = {}
    <3>1. va' = Region'.base_va
      BY <1>1, <1>2
    <3>2. va' \in Nat
      BY <1>1, <1>2, LayoutsAre DEF MmuRegions
    <3> QED
      BY <3>1, <3>2
  <2>6. IsFiniteSet(Tabled(xlat')) /\ idx' = Cardinality(Tabled(xlat'))
    BY <1>1, <2>2
  <2>7. Tabled(xlat') \subseteq Wanted'
    BY <1>1, <2>2, <2>3
  <2> QED
    BY <2>4, <2>5, <2>6, <2>7
<1> QED
  BY <1>3, <1>4, <1>5 DEF PoolInv

LEMMA InitCounts == Init => PoolInv
<1> SUFFICES ASSUME Init PROVE PoolInv
  OBVIOUS
<1>1. /\ regions \in Layouts /\ r = 1 /\ va = regions[1].base_va /\ size = regions[1].size
      /\ level = 1 /\ xlat = [t \in Tables |-> [e \in Entries |-> Zero]] /\ idx = 0
      /\ 1 \in 1 .. Len(regions) /\ Region = regions[1]
  <2>1. regions \in Layouts /\ r = 1
    BY DEF Init
  <2>2. 1 \in 1 .. Len(regions)
    BY <2>1, LayoutsAre
  <2> QED
    BY <2>1, <2>2 DEF Init, PAGE_TABLE_BASE_LEVEL, Region
<1>2. Above
  BY <1>1, LevelSizes DEF Above
<1>3. Behind
  BY <1>1, StartBehind DEF Behind
<1>4. Tabled(xlat) = {}
  <2> SUFFICES ASSUME NEW b \in Tabled(xlat) PROVE FALSE
    OBVIOUS
  <2>1. PICK l \in {1, 2}, a \in Pages : Open(xlat, a, l + 1)
    BY TabledHasPage
  <2>2. EntryAt(xlat, a, 1).type = PTE_TABLE_DESC
    BY <2>1, LevelSizes DEF Open
  <2>3. GetVaIndex(a, 1) \in Entries /\ 0 \in Tables
    <3>1. a \in Nat /\ 1 \in Levels
      BY PagesAre, LevelSizes DEF Pages
    <3> QED
      BY <3>1, IndexIsEntry, MmuAssumption DEF Tables
  <2>4. EntryAt(xlat, a, 1) = Zero
    BY <1>1, <2>3, TableAtIs DEF EntryAt
  <2> QED
    BY <2>2, <2>4, ZeroIs DEF PTE_INVALID_DESC, PTE_TABLE_DESC
<1>5. Counted
  <2>1. IsFiniteSet(Tabled(xlat)) /\ idx = Cardinality(Tabled(xlat))
    BY <1>1, <1>4, FS_EmptySet
  <2>2. Region.base_va .. va - 1 = {}
    <3>1. va \in Nat /\ Region.base_va = va
      BY <1>1, LayoutsAre DEF MmuRegions
    <3> QED
      BY <3>1
  <2>3. 1 .. r - 1 = {}
    BY <1>1
  <2> QED
    BY <1>4, <2>1, <2>2, <2>3 DEF Counted
<1> QED
  BY <1>2, <1>3, <1>5 DEF PoolInv

LEMMA NextKeepsPool ==
  ASSUME MmuInv, PoolInv, [Next]_vars
  PROVE  PoolInv'
<1>1. CASE InitXlatTables
  <2>1. ~panic /\ size > 0 /\ UNCHANGED <<regions, r>>
    BY <1>1 DEF InitXlatTables
  <2>2. CASE MapBlock
    BY <2>1, <2>2, MapBlockCounts
  <2>3. CASE NewTable
    BY <2>1, <2>3, NewTableCounts
  <2>4. CASE SplitPteBlockDesc
    BY <2>1, <2>4, SplitCounts
  <2>5. CASE NextLevel
    BY <2>1, <2>5, NextLevelCounts
  <2> QED
    BY <1>1, <2>2, <2>3, <2>4, <2>5 DEF InitXlatTables
<1>2. CASE NextRegion
  BY <1>2, NextRegionCounts
<1>3. CASE UNCHANGED vars
  <2>1. UNCHANGED <<regions, r, va, size, level, xlat, idx, panic>>
    BY <1>3 DEF vars
  <2>2. Above' /\ Behind'
    BY <2>1 DEF PoolInv, Above, Behind, FitsAt, Region
  <2>3. NoneLost(r)' <=> NoneLost(r)
    BY <2>1 DEF NoneLost
  <2>4. Wanted' = Wanted /\ Region' = Region
    BY <2>1 DEF Wanted, Region
  <2>5. Tabled(xlat)' = Tabled(xlat)
    BY <2>1 DEF Tabled, Open, EntryAt, TableAt, Second, Third
  <2>6. Counted'
    BY <2>1, <2>3, <2>4, <2>5 DEF PoolInv, Counted
  <2> QED
    BY <2>2, <2>6 DEF PoolInv
<1> QED
  BY <1>1, <1>2, <1>3 DEF Next

\* No region covers a block that an earlier one has a table for, as NoneReplaced has it.
LEMMA NoneReplacedIs ==
  ASSUME NEW rs, NEW n \in Nat, Len(rs) = n,
         \A k \in 1 .. n : rs[k] = regions[k] /\ regions[k] \in MmuRegions,
         NoneReplaced(rs)
  PROVE  NoneLost(n)
<1> SUFFICES ASSUME NEW j \in 1 .. n, NEW k \in 1 .. n, j < k, NEW l \in {1, 2}, NEW p \in Nat,
                    BlockOf(l, p) \in Partial(regions[j]), Within(regions[k], l, p)
             PROVE  FALSE
  BY DEF NoneLost
<1> DEFINE width == LevelSize[l]
           b == (p \div width) * width
           base == regions[k].base_va
           pages == regions[k].size
<1>1. b \in Nat /\ width \in Nat /\ base \in Nat /\ pages \in Nat
  <2>1. l \in Levels /\ LevelSize[l] \in Nat
    BY LevelSizes
  <2>2. b \in Nat
    BY <2>1, BlockPages
  <2>3. regions[k] \in MmuRegions
    OBVIOUS
  <2> QED
    BY <2>1, <2>2, <2>3 DEF MmuRegions
<1>2. base <= b /\ b + width <= base + pages
  BY DEF Within
<1> HIDE DEF b, width, base, pages
<1>3. \A a \in 0 .. width - 1 : base <= b + a /\ b + a < base + pages
  BY <1>1, <1>2
<1>4. \A c \in Partial(rs[j]) : ~(\A a \in 0 .. LevelSize[c[1]] - 1 :
        LET q == c[2] * LevelSize[c[1]] + a
        IN  rs[k].base_va <= q /\ q < rs[k].base_va + rs[k].size)
  BY DEF NoneReplaced
<1>5. BlockOf(l, p)[1] = l /\ BlockOf(l, p)[2] * LevelSize[l] = b
  BY DEF BlockOf, b, width
<1> QED
  BY <1>3, <1>4, <1>5 DEF width, base, pages

\* TablesAreShared: whatever the regions, their order and the pool, what is taken from
\* it when a region is done is one table for each block covered in part.
THEOREM PoolDemand == Spec => []TablesAreShared
<1>1. Init => MmuInv /\ PoolInv
  BY InitIsInv, InitCounts
<1>2. MmuInv /\ PoolInv /\ [Next]_vars => (MmuInv /\ PoolInv)'
  BY NextKeepsInv, NextKeepsPool
<1>3. ASSUME MmuInv, PoolInv PROVE TablesAreShared
  <2> DEFINE done == SubSeq(regions, 1, r)
  <2> SUFFICES ASSUME size = 0, ~panic, NoneReplaced(done) PROVE idx = TablesFor(done)
    BY DEF TablesAreShared
  <2>1. /\ r \in Nat \ {0} /\ Len(done) = r
        /\ \A k \in 1 .. r : done[k] = regions[k] /\ regions[k] \in MmuRegions
    <3>1. regions \in Seq(MmuRegions) /\ r \in 1 .. Len(regions)
      BY <1>3, MmuAssumption DEF MmuInv, TypeOK
    <3> QED
      BY <3>1
  <2> HIDE DEF done
  <2>2. NoneLost(r)
    BY <2>1, NoneReplacedIs
  <2>3. /\ idx = Cardinality(Tabled(xlat)) /\ Tabled(xlat) \subseteq Wanted
        /\ \A k \in 1 .. r - 1 : Partial(regions[k]) \subseteq Tabled(xlat)
    BY <1>3, <2>2 DEF PoolInv, Counted
  <2>4. Partial(regions[r]) \subseteq Tabled(xlat)
    BY <1>3, <2>2, RegionDone DEF Region
  <2>5. \A k \in 1 .. r : Partial(regions[k]) \subseteq Tabled(xlat)
    <3>1. \A k \in 1 .. r : k = r \/ k \in 1 .. r - 1
      BY <2>1
    <3> QED
      BY <2>3, <2>4, <3>1
  <2>6. Tabled(xlat) = Wanted
    BY <2>3, <2>5 DEF Wanted
  <2>7. UNION {Partial(done[k]) : k \in 1 .. Len(done)} = Wanted
    BY <2>1 DEF Wanted
  <2> QED
    BY <2>3, <2>6, <2>7 DEF TablesFor
<1> QED
  BY <1>1, <1>2, <1>3, PTL DEF Spec

\* Layouts the pool has enough tables for.
PoolSuffices ==
  /\ CheckMmuConfigs(regions)
  /\ NoneReplaced(regions)
  /\ TablesFor(regions) <= CONFIG_MMU_MAX_XLAT_TABLES

AllWanted == UNION {Partial(regions[k]) : k \in 1 .. Len(regions)}

\* There are only so many blocks.
LEMMA AllWantedFinite ==
  ASSUME MmuInv, ~panic
  PROVE  IsFiniteSet(AllWanted)
<1>1. IsFiniteSet({1, 2}) /\ IsFiniteSet(0 .. VaPages)
  <2>1. IsFiniteSet(0 .. VaPages)
    BY PagesAre, FS_Interval
  <2>2. IsFiniteSet({1} \cup {2}) /\ {1} \cup {2} = {1, 2}
    BY FS_Singleton, FS_AddElement
  <2> QED
    BY <2>1, <2>2
<1>2. IsFiniteSet({1, 2} \X (0 .. VaPages))
  BY <1>1, FS_Product
<1>3. AllWanted \subseteq {1, 2} \X (0 .. VaPages)
  <2> SUFFICES ASSUME NEW k \in 1 .. Len(regions), NEW b \in Partial(regions[k])
               PROVE  b \in {1, 2} \X (0 .. VaPages)
    BY DEF AllWanted
  <2>1. regions[k] \in MmuRegions /\ regions[k].base_va + regions[k].size <= VaPages
    BY LayoutsAre DEF MmuInv, TypeOK, InRange
  <2>2. PICK l \in {1, 2}, p \in Nat :
          /\ b = BlockOf(l, p)
          /\ regions[k].base_va <= p /\ p < regions[k].base_va + regions[k].size
    BY <2>1, PartialHasPage
  <2>3. regions[k].base_va \in Nat /\ regions[k].size \in Nat
    BY <2>1 DEF MmuRegions
  <2>4. p < VaPages /\ l \in Levels /\ VaPages \in Nat
    <3>1. VaPages \in Nat
      BY PagesAre
    <3>2. l \in Levels
      BY <2>2, LevelSizes
    <3>3. p < VaPages
      BY <2>1, <2>2, <2>3, <3>1
    <3> QED
      BY <3>1, <3>2, <3>3
  <2>5. p \div LevelSize[l] \in Nat /\ p \div LevelSize[l] <= p
    <3> DEFINE n == LevelSize[l]
               q == p \div n
    <3>1. n \in Nat \ {0}
      BY <2>4, LevelSizes
    <3>2. q \in Nat /\ q * n <= p
      BY <2>4, <3>1, BlockPages, DivMod
    <3> HIDE DEF n, q
    <3>3. q <= q * n
      <4>1. q = 0 \/ 0 < q
        BY <3>2
      <4>2. n >= 1 => q * n >= q * 1
        BY <3>1, <3>2
      <4> QED
        BY <3>1, <3>2, <4>2
    <3>4. q * n \in Nat /\ q <= p
      BY <3>1, <3>2, <3>3
    <3> QED
      BY <3>2, <3>4 DEF n, q
  <2>6. p \div LevelSize[l] \in 0 .. VaPages
    BY <2>4, <2>5
  <2> QED
    BY <2>2, <2>6 DEF BlockOf
<1> QED
  BY <1>2, <1>3, FS_Subset

\* A turn that needs a table finds one, if there is one for each block covered in part.
LEMMA TableLeft ==
  ASSUME MmuInv, PoolInv, PoolSuffices, ~panic, size > 0, ~Fits, OldDesc.type # PTE_TABLE_DESC
  PROVE  idx < CONFIG_MMU_MAX_XLAT_TABLES
<1>1. /\ regions \in Seq(MmuRegions) /\ Len(regions) \in Nat
      /\ r \in Nat \ {0} /\ r \in 1 .. Len(regions)
      /\ \A k \in 1 .. Len(regions) : regions[k] \in MmuRegions
  BY AtRegion, LayoutsAre, MmuAssumption DEF MmuInv, TypeOK
<1>2. NoneLost(Len(regions))
  BY <1>1, NoneReplacedIs DEF PoolSuffices
<1>3. NoneLost(r)
  <2>1. 1 .. r \subseteq 1 .. Len(regions)
    BY <1>1
  <2> QED
    BY <1>2, <2>1 DEF NoneLost
<1>4. IsFiniteSet(Tabled(xlat)) /\ idx = Cardinality(Tabled(xlat)) /\ Tabled(xlat) \subseteq Wanted
  BY <1>3 DEF PoolInv, Counted
<1>5. /\ TypeOK /\ Progress /\ Behind /\ level \in {1, 2} /\ ~FitsAt(level)
      /\ va \in Pages /\ OldDesc = EntryAt(xlat, va, level)
  BY AtRegion, AtTurn DEF PoolInv, Fits, FitsAt
<1> DEFINE b == BlockOf(level, va)
<1>6. b \in Wanted
  <2>1. b \in Partial(Region)
    BY <1>5, NotFitPartial
  <2>2. r \in 1 .. r
    BY <1>1
  <2> QED
    BY <2>1, <2>2 DEF Wanted, Region
<1>7. b \notin Tabled(xlat)
  <2>1. ~Open(xlat, va, level + 1)
    BY <1>5, LevelSizes DEF Open
  <2> QED
    BY <1>5, <2>1, TabledIs
<1> HIDE DEF b
<1>8. Wanted \subseteq AllWanted
  <2>1. 1 .. r \subseteq 1 .. Len(regions)
    BY <1>1
  <2> QED
    BY <2>1 DEF Wanted, AllWanted
<1>9. /\ IsFiniteSet(AllWanted)
      /\ Cardinality(Tabled(xlat) \cup {b}) <= Cardinality(AllWanted)
      /\ Cardinality(AllWanted) \in Nat
  <2>1. IsFiniteSet(AllWanted)
    BY AllWantedFinite
  <2>2. Tabled(xlat) \cup {b} \in SUBSET AllWanted
    BY <1>4, <1>6, <1>8
  <2> QED
    BY <2>1, <2>2, FS_Subset, FS_CardinalityType
<1>10. Cardinality(Tabled(xlat) \cup {b}) = idx + 1
  BY <1>4, <1>7, FS_AddElement
<1>11. Cardinality(AllWanted) <= CONFIG_MMU_MAX_XLAT_TABLES
  BY DEF PoolSuffices, TablesFor, AllWanted
<1>12. idx \in Nat
  BY AtRegion
<1> QED
  BY <1>9, <1>10, <1>11, <1>12, MmuAssumption

\* EL2 does not stop for want of a table: NewXlatTablesEntry's assertion never fails
\* for layouts whose guest regions CheckMmuConfigs lets pass, that replace no table,
\* and that cover no more blocks in part than the pool has tables.
THEOREM BootNeverStops == Spec => [](PoolSuffices => ~panic)
<1> DEFINE Runs == PoolSuffices => ~panic
<1>1. Init => MmuInv /\ PoolInv /\ Runs
  BY InitIsInv, InitCounts DEF Init, PoolSuffices
<1>2. ASSUME MmuInv, PoolInv, Runs, [Next]_vars PROVE Runs'
  <2> SUFFICES ASSUME PoolSuffices' PROVE ~panic'
    OBVIOUS
  <2>1. UNCHANGED regions
    BY <1>2 DEF Next, InitXlatTables, NextRegion, vars
  <2>2. PoolSuffices
    BY <2>1 DEF PoolSuffices
  <2>3. ~panic
    BY <1>2, <2>2
  <2>4. CASE InitXlatTables
    <3>1. size > 0
      BY <2>4 DEF InitXlatTables
    <3>2. CASE MapBlock \/ NextLevel
      BY <2>3, <3>2 DEF MapBlock, NextLevel
    <3>3. CASE NewTable \/ SplitPteBlockDesc
      <4>1. ~Fits /\ OldDesc.type # PTE_TABLE_DESC
        BY <3>3 DEF NewTable, SplitPteBlockDesc, PTE_INVALID_DESC, PTE_BLOCK_DESC, PTE_TABLE_DESC
      <4>2. idx < CONFIG_MMU_MAX_XLAT_TABLES
        BY <1>2, <2>2, <2>3, <3>1, <4>1, TableLeft
      <4>3. ~NoTable
        <5>1. idx \in Nat /\ CONFIG_MMU_MAX_XLAT_TABLES \in Nat
          BY <1>2, AtRegion, MmuAssumption
        <5> QED
          BY <4>2, <5>1 DEF NoTable
      <4> QED
        BY <2>3, <3>3, <4>3 DEF NewTable, SplitPteBlockDesc
    <3> QED
      BY <2>4, <3>2, <3>3 DEF InitXlatTables
  <2>5. CASE NextRegion
    BY <2>3, <2>5 DEF NextRegion
  <2>6. CASE UNCHANGED vars
    BY <2>3, <2>6 DEF vars
  <2> QED
    BY <1>2, <2>4, <2>5, <2>6 DEF Next
<1>3. MmuInv /\ PoolInv /\ Runs /\ [Next]_vars => (MmuInv /\ PoolInv /\ Runs)'
  BY <1>2, NextKeepsInv, NextKeepsPool
<1> QED
  BY <1>1, <1>3, PTL DEF Spec

=============================================================================
