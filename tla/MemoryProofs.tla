---------------------------- MODULE MemoryProofs ----------------------------
(***************************************************************************)
(* The stage-2 tables and the memory of the guests, for every number of    *)
(* guests and every size of the heaps, tables and images.                  *)
(***************************************************************************)
EXTENDS Memory, FiniteSetTheorems, TLAPS

-----------------------------------------------------------------------------
(***************************************************************************)
(* The kernel heap                                                         *)
(***************************************************************************)

\* An address has three indices.
LEMMA IpaParts ==
  ASSUME NEW a \in Ipas
  PROVE  /\ a[1] \in Index /\ a[2] \in Index /\ a[3] \in Index
         /\ a = <<a[1], a[2], a[3]>>
BY DEF Ipas

\* Addresses that agree in their indices are equal.
LEMMA IpaEqual ==
  ASSUME NEW a \in Ipas, NEW b \in Ipas,
         a[1] = b[1], a[2] = b[2], a[3] = b[3]
  PROVE  a = b
BY IpaParts

\* kmm_malloc returns the page after the last one in use.
LEMMA FirstFreeKernel ==
  ASSUME NEW h, HeapType(h), FreeFrom(h.used, 1) # {}
  PROVE  LET p == FirstFree(h.used, 1) IN
         /\ p \in HeapRange /\ ~h.used[p]
         /\ \A q \in HeapRange : h.used[q] <=> q < p
<1>1. DOMAIN h.used = HeapRange
  BY DEF HeapType
<1>2. PICK n \in 0 .. HeapPages : \A p \in HeapRange : h.used[p] <=> p <= n
  BY DEF HeapType
<1>3. PICK q \in HeapRange : ~h.used[q]
  BY <1>1 DEF FreeFrom
<1>4. n + 1 \in HeapRange /\ ~h.used[n + 1]
  BY <1>2, <1>3, MemoryAssumption DEF HeapRange
<1>5. /\ n + 1 \in FreeFrom(h.used, 1)
      /\ \A r \in FreeFrom(h.used, 1) : n + 1 <= r
  BY <1>1, <1>2, <1>4, MemoryAssumption DEF FreeFrom, HeapRange
<1> DEFINE p == FirstFree(h.used, 1)
<1>6. p \in FreeFrom(h.used, 1) /\ \A r \in FreeFrom(h.used, 1) : p <= r
  BY <1>5 DEF FirstFree
<1>7. p \in HeapRange /\ ~h.used[p]
  BY <1>1, <1>6 DEF FreeFrom
<1>8. p = n + 1
  BY <1>5, <1>6, <1>7, <1>4, MemoryAssumption DEF HeapRange
<1>9. QED
  BY <1>2, <1>7, <1>8, MemoryAssumption DEF HeapRange

\* Heap n is heap h with page p newly in use for l, and clear.
Fresh(h, n, p, l) ==
  /\ p \in HeapRange /\ h.used[p] = FALSE
  /\ n.used = [h.used EXCEPT ![p] = TRUE]
  /\ n.use = [h.use EXCEPT ![p] = l]
  /\ n.table = [h.table EXCEPT ![p] = [i \in Index |-> NoEntry]]
  /\ n.root = h.root /\ n.pages = h.pages

\* A page is allocated, or nothing but PANIC happens.
LEMMA ZallocEffect ==
  ASSUME NEW h, HeapType(h), h.full = FALSE, NEW l \in Uses
  PROVE  LET n == KmmZalloc(h, l) IN
         /\ HeapType(n)
         /\ n.full => n = [h EXCEPT !.full = TRUE]
         /\ ~n.full => Fresh(h, n, FirstFree(h.used, 1), l)
<1> DEFINE p == FirstFree(h.used, 1)
           n == KmmZalloc(h, l)
<1>1. CASE FreeFrom(h.used, 1) = {}
  <2>1. n = [h EXCEPT !.full = TRUE]
    BY <1>1 DEF KmmZalloc
  <2>2. HeapType(n) /\ n.full
    BY <2>1 DEF HeapType
  <2>3. QED
    BY <2>1, <2>2
<1>2. CASE FreeFrom(h.used, 1) # {}
  <2>1. /\ p \in HeapRange /\ ~h.used[p]
        /\ \A q \in HeapRange : h.used[q] <=> q < p
    BY <1>2, FirstFreeKernel
  <2> HIDE DEF p
  <2>2. n = [h EXCEPT !.used[p] = TRUE, !.use[p] = l,
                      !.table[p] = [i \in Index |-> NoEntry]]
    BY <1>2 DEF KmmZalloc, p
  <2> HIDE DEF n
  <2>3. NoEntry \in Entries
    BY DEF NoEntry, Entries
  <2>4. n \in [used : [HeapRange -> BOOLEAN], use : [HeapRange -> Uses],
               table : [HeapRange -> [Index -> Entries]],
               root : [Guests -> HeapRange \cup {Null}],
               pages : [Guests -> Nat], full : BOOLEAN]
    BY <2>2, <2>3 DEF HeapType
  <2>5. Fresh(h, n, p, l) /\ n.full = FALSE
    BY <2>1, <2>2 DEF Fresh, HeapType
  <2>6. \A q \in HeapRange : n.used[q] <=> q <= p
    BY <2>1, <2>5, MemoryAssumption DEF Fresh, HeapRange, HeapType
  <2>7. p \in 0 .. HeapPages
    BY <2>1, MemoryAssumption DEF HeapRange
  <2>8. HeapType(n)
    BY <2>4, <2>6, <2>7 DEF HeapType
  <2>9. QED
    BY <2>5, <2>8 DEF n, p
<1>3. QED
  BY <1>1, <1>2

-----------------------------------------------------------------------------
(***************************************************************************)
(* A new page changes no translation                                       *)
(***************************************************************************)

\* What a table may refer to depends on what it was allocated for.
LEMMA TreeEntry ==
  ASSUME NEW h, HeapOK(h), NEW p, NEW l, UsedFor(h, p, l), NEW i \in Index,
         h.table[p][i] # NoEntry
  PROVE  LET e == h.table[p][i]
         IN  /\ l.level = 1 => e.type = "table" /\ UsedFor(h, e.to, Lv2(l.g, i))
             /\ l.level = 2 => e.type = "table" /\ UsedFor(h, e.to, Lv3(l.g, l.i, i))
             /\ l.level = 3 => e.type \in Leaf
<1>1. p \in HeapRange /\ h.used[p] /\ h.use[p] = l
  BY DEF UsedFor
<1>2. TablesAreTrees(h)
  BY DEF HeapOK
<1>3. QED
  BY <1>1, <1>2 DEF TablesAreTrees

LEMMA Levels ==
  ASSUME NEW g, NEW i, NEW j
  PROVE  /\ Lv1(g).level = 1 /\ Lv1(g).g = g
         /\ Lv2(g, i).level = 2 /\ Lv2(g, i).g = g /\ Lv2(g, i).i = i
         /\ Lv3(g, i, j).level = 3 /\ Lv3(g, i, j).g = g
         /\ Lv3(g, i, j).i = i /\ Lv3(g, i, j).j = j
BY DEF Lv1, Lv2, Lv3

\* The tables a walk passes belong to its guest and its indices.
LEMMA WalkSteps ==
  ASSUME NEW h, HeapOK(h), NEW g \in Guests, NEW a \in Ipas, h.root[g] # Null
  PROVE  /\ UsedFor(h, h.root[g], Lv1(g))
         /\ Entry1(h, g, a) # NoEntry =>
              /\ Entry1(h, g, a).type = "table"
              /\ UsedFor(h, Entry1(h, g, a).to, Lv2(g, a[1]))
              /\ Entry2(h, g, a) # NoEntry =>
                   /\ Entry2(h, g, a).type = "table"
                   /\ UsedFor(h, LastTable(h, g, a), Lv3(g, a[1], a[2]))
<1>1. a[1] \in Index /\ a[2] \in Index
  BY IpaParts
<1>2. UsedFor(h, h.root[g], Lv1(g))
  BY DEF HeapOK, TablesAreTrees
<1>3. ASSUME Entry1(h, g, a) # NoEntry
      PROVE  /\ Entry1(h, g, a).type = "table"
             /\ UsedFor(h, Entry1(h, g, a).to, Lv2(g, a[1]))
  <2>1. h.table[h.root[g]][a[1]] # NoEntry
    BY <1>3 DEF Entry1
  <2>2. Lv1(g).level = 1 /\ Lv1(g).g = g
    BY Levels
  <2>3. /\ h.table[h.root[g]][a[1]].type = "table"
        /\ UsedFor(h, h.table[h.root[g]][a[1]].to, Lv2(g, a[1]))
    BY <1>1, <1>2, <2>1, <2>2, TreeEntry
  <2>4. QED
    BY <2>3 DEF Entry1
<1>4. ASSUME Entry1(h, g, a) # NoEntry, Entry2(h, g, a) # NoEntry
      PROVE  /\ Entry2(h, g, a).type = "table"
             /\ UsedFor(h, LastTable(h, g, a), Lv3(g, a[1], a[2]))
  <2> DEFINE q == Entry1(h, g, a).to
             l == Lv2(g, a[1])
  <2>1. UsedFor(h, q, l)
    BY <1>3, <1>4
  <2>2. h.table[q][a[2]] # NoEntry
    BY <1>4 DEF Entry2
  <2>3. l.level = 2 /\ l.g = g /\ l.i = a[1]
    BY Levels
  <2> HIDE DEF q, l
  <2>4. /\ h.table[q][a[2]].type = "table"
        /\ UsedFor(h, h.table[q][a[2]].to, Lv3(g, a[1], a[2]))
    BY <1>1, <2>1, <2>2, <2>3, TreeEntry
  <2>5. QED
    BY <2>4 DEF Entry2, LastTable, q
<1>5. QED
  BY <1>2, <1>3, <1>4

\* Where a walk ends.
LEMMA WalkEnds ==
  ASSUME NEW h, HeapOK(h), NEW g \in Guests, NEW a \in Ipas, h.root[g] # Null
  PROVE  /\ Entry1(h, g, a) = NoEntry => Walk(h, g, a) = NoEntry
         /\ (Entry1(h, g, a) # NoEntry /\ Entry2(h, g, a) = NoEntry) =>
              Walk(h, g, a) = NoEntry
         /\ (Entry1(h, g, a) # NoEntry /\ Entry2(h, g, a) # NoEntry) =>
              Walk(h, g, a) = Entry3(h, g, a)
<1>1. NoEntry.type # "table"
  BY DEF NoEntry
<1>2. QED
  BY <1>1, WalkSteps DEF Walk

SameWalk(h, n) ==
  \A g \in Guests, a \in Ipas : Walk(n, g, a) = Walk(h, g, a)

\* Without a root table there is no translation.
LEMMA WalkNoRoot ==
  ASSUME NEW h, NEW g \in Guests, NEW a \in Ipas, h.root[g] = Null
  PROVE  Walk(h, g, a) = NoEntry
BY DEF Walk

\* What was in use stays in use, for what it was.
LEMMA FreshKeepsUse ==
  ASSUME NEW h, HeapOK(h), NEW n, HeapType(n), NEW p, NEW l, Fresh(h, n, p, l),
         NEW q, NEW m, UsedFor(h, q, m)
  PROVE  /\ UsedFor(n, q, m) /\ q # p
         /\ n.table[q] = h.table[q]
BY DEF Fresh, UsedFor, HeapOK, HeapType

\* A new page keeps the trees.
LEMMA FreshTrees ==
  ASSUME NEW h, HeapOK(h), NEW n, HeapType(n), NEW p, NEW l, Fresh(h, n, p, l)
  PROVE  HeapOK(n)
<1>1. ASSUME NEW g \in Guests, n.root[g] # Null
      PROVE  UsedFor(n, n.root[g], Lv1(g))
  <2>1. UsedFor(h, h.root[g], Lv1(g)) /\ n.root[g] = h.root[g]
    BY <1>1 DEF Fresh, HeapOK, TablesAreTrees
  <2>2. QED
    BY <2>1, FreshKeepsUse
<1>2. ASSUME NEW q \in HeapRange, NEW i \in Index, n.used[q],
             n.table[q][i] # NoEntry
      PROVE  LET e == n.table[q][i]
                 u == n.use[q]
             IN  /\ u.level = 1 =>
                      e.type = "table" /\ UsedFor(n, e.to, Lv2(u.g, i))
                 /\ u.level = 2 =>
                      e.type = "table" /\ UsedFor(n, e.to, Lv3(u.g, u.i, i))
                 /\ u.level = 3 => e.type \in Leaf
  <2>1. q # p
    BY <1>2 DEF Fresh, HeapOK, HeapType
  <2>2. /\ h.used[q] /\ n.table[q] = h.table[q] /\ n.use[q] = h.use[q]
    BY <1>2, <2>1 DEF Fresh, HeapOK, HeapType
  <2> DEFINE e == h.table[q][i]
             u == h.use[q]
  <2>3. /\ u.level = 1 => e.type = "table" /\ UsedFor(h, e.to, Lv2(u.g, i))
        /\ u.level = 2 => e.type = "table" /\ UsedFor(h, e.to, Lv3(u.g, u.i, i))
        /\ u.level = 3 => e.type \in Leaf
    BY <1>2, <2>2 DEF HeapOK, TablesAreTrees
  <2>4. \A m : UsedFor(h, e.to, m) => UsedFor(n, e.to, m)
    BY FreshKeepsUse
  <2>5. QED
    BY <2>2, <2>3, <2>4
<1>3. QED
  BY <1>1, <1>2 DEF HeapOK, TablesAreTrees

\* Equal entries, as far as they are used, are the same walk.
LEMMA SameEntries ==
  ASSUME NEW h, HeapOK(h), NEW n, HeapOK(n), NEW g \in Guests, NEW a \in Ipas,
         h.root[g] # Null, n.root[g] # Null,
         Entry1(n, g, a) = Entry1(h, g, a),
         Entry1(h, g, a) # NoEntry => Entry2(n, g, a) = Entry2(h, g, a),
         (Entry1(h, g, a) # NoEntry /\ Entry2(h, g, a) # NoEntry) =>
           Entry3(n, g, a) = Entry3(h, g, a)
  PROVE  Walk(n, g, a) = Walk(h, g, a)
BY WalkEnds

\* A new page changes no translation.
LEMMA FreshWalk ==
  ASSUME NEW h, HeapOK(h), NEW n, HeapType(n), NEW p, NEW l, Fresh(h, n, p, l)
  PROVE  SameWalk(h, n)
<1> SUFFICES ASSUME NEW g \in Guests, NEW a \in Ipas
             PROVE  Walk(n, g, a) = Walk(h, g, a)
  BY DEF SameWalk
<1>1. n.root[g] = h.root[g]
  BY DEF Fresh
<1>2. CASE h.root[g] = Null
  BY <1>1, <1>2, WalkNoRoot
<1>3. CASE h.root[g] # Null
  <2>0. HeapOK(n)
    BY FreshTrees
  <2>1. /\ UsedFor(h, h.root[g], Lv1(g))
        /\ Entry1(h, g, a) # NoEntry =>
             UsedFor(h, Entry1(h, g, a).to, Lv2(g, a[1]))
        /\ (Entry1(h, g, a) # NoEntry /\ Entry2(h, g, a) # NoEntry) =>
             UsedFor(h, LastTable(h, g, a), Lv3(g, a[1], a[2]))
    BY <1>3, WalkSteps
  <2>2. \A q, m : UsedFor(h, q, m) => n.table[q] = h.table[q]
    BY FreshKeepsUse
  <2>3. Entry1(n, g, a) = Entry1(h, g, a)
    BY <1>1, <2>1, <2>2 DEF Entry1
  <2>4. Entry1(h, g, a) # NoEntry => Entry2(n, g, a) = Entry2(h, g, a)
    BY <2>1, <2>2, <2>3 DEF Entry2
  <2>5. (Entry1(h, g, a) # NoEntry /\ Entry2(h, g, a) # NoEntry) =>
          Entry3(n, g, a) = Entry3(h, g, a)
    BY <2>1, <2>2, <2>4 DEF Entry3, LastTable
  <2>6. QED
    BY <1>1, <1>3, <2>0, <2>3, <2>4, <2>5, SameEntries
<1>4. QED
  BY <1>2, <1>3

\* Another value of `full' changes neither the trees nor a translation.
LEMMA FullFlag ==
  ASSUME NEW h, HeapOK(h), NEW b \in BOOLEAN
  PROVE  LET n == [h EXCEPT !.full = b] IN HeapOK(n) /\ SameWalk(h, n)
<1> DEFINE n == [h EXCEPT !.full = b]
<1>1. HeapType(n)
  BY DEF HeapOK, HeapType
<1>2. /\ n.used = h.used /\ n.use = h.use /\ n.table = h.table
      /\ n.root = h.root
  BY DEF HeapOK, HeapType
<1> HIDE DEF n
<1>3. TablesAreTrees(n)
  <2>1. \A p, l : UsedFor(n, p, l) <=> UsedFor(h, p, l)
    BY <1>2 DEF UsedFor
  <2>2. TablesAreTrees(h)
    BY DEF HeapOK
  <2>3. \A g \in Guests : n.root[g] # Null => UsedFor(n, n.root[g], Lv1(g))
    BY <1>2, <2>1, <2>2 DEF TablesAreTrees
  <2>4. ASSUME NEW p \in HeapRange, NEW i \in Index, n.used[p], n.table[p][i] # NoEntry
        PROVE  LET e == n.table[p][i]
                   l == n.use[p]
               IN  /\ l.level = 1 => e.type = "table" /\ UsedFor(n, e.to, Lv2(l.g, i))
                   /\ l.level = 2 => e.type = "table" /\ UsedFor(n, e.to, Lv3(l.g, l.i, i))
                   /\ l.level = 3 => e.type \in Leaf
    BY <1>2, <2>1, <2>2, <2>4 DEF TablesAreTrees
  <2> QED
    BY <2>3, <2>4 DEF TablesAreTrees
<1>4. ASSUME NEW g, NEW a PROVE Walk(n, g, a) = Walk(h, g, a)
  <2>1. Entry1(n, g, a) = Entry1(h, g, a)
    BY <1>2 DEF Entry1
  <2>2. Entry2(n, g, a) = Entry2(h, g, a)
    BY <1>2, <2>1 DEF Entry2
  <2>3. Entry3(n, g, a) = Entry3(h, g, a)
    BY <1>2, <2>2 DEF Entry3, LastTable
  <2> QED
    BY <1>2, <2>1, <2>2, <2>3 DEF Walk
<1>5. QED
  BY <1>1, <1>3, <1>4 DEF HeapOK, SameWalk, n

-----------------------------------------------------------------------------
(***************************************************************************)
(* Linking an empty table changes no translation                           *)
(***************************************************************************)

\* A table for l is what entry i of a table for l0 refers to.
Child(l0, i, l) ==
  \/ l0.level = 1 /\ l = Lv2(l0.g, i)
  \/ l0.level = 2 /\ l = Lv3(l0.g, l0.i, i)

TableEntry(p) == [to |-> p, type |-> "table"]

\* Heap n is heap h with entry i of table t set to e.
SetEntry(h, n, t, i, e) ==
  /\ n.used = h.used /\ n.use = h.use
  /\ n.root = h.root
  /\ n.table = [h.table EXCEPT ![t][i] = e]

LEMMA SetEntryPoints ==
  ASSUME NEW h, HeapType(h), NEW n, NEW t \in HeapRange, NEW i \in Index,
         NEW e, SetEntry(h, n, t, i, e)
  PROVE  /\ n.table[t][i] = e
         /\ \A q \in HeapRange, j \in Index :
              (q # t \/ j # i) => n.table[q][j] = h.table[q][j]
         /\ \A q, m : UsedFor(h, q, m) => UsedFor(n, q, m)
<1>1. h.table \in [HeapRange -> [Index -> Entries]]
  BY DEF HeapType
<1>2. QED
  BY <1>1 DEF SetEntry, UsedFor

\* Linking a new table into the tree of its guest keeps the trees.
LEMMA LinkTrees ==
  ASSUME NEW h, HeapOK(h), NEW n, HeapType(n),
         NEW t, NEW l0, UsedFor(h, t, l0),
         NEW p, NEW l, UsedFor(h, p, l),
         NEW i \in Index, Child(l0, i, l),
         SetEntry(h, n, t, i, TableEntry(p))
  PROVE  HeapOK(n)
<1>1. t \in HeapRange /\ h.use[t] = l0 /\ HeapType(h)
  BY DEF UsedFor, HeapOK
<1>2. /\ n.table[t][i] = TableEntry(p)
      /\ \A q \in HeapRange, j \in Index :
           (q # t \/ j # i) => n.table[q][j] = h.table[q][j]
      /\ \A q, m : UsedFor(h, q, m) => UsedFor(n, q, m)
  BY <1>1, SetEntryPoints
<1>3. n.used = h.used /\ n.use = h.use /\ n.root = h.root
  BY DEF SetEntry
<1>4. ASSUME NEW g \in Guests, n.root[g] # Null
      PROVE  UsedFor(n, n.root[g], Lv1(g))
  BY <1>2, <1>3, <1>4 DEF HeapOK, TablesAreTrees
<1>5. ASSUME NEW q \in HeapRange, NEW j \in Index, n.used[q],
             n.table[q][j] # NoEntry
      PROVE  LET e == n.table[q][j]
                 u == n.use[q]
             IN  /\ u.level = 1 =>
                      e.type = "table" /\ UsedFor(n, e.to, Lv2(u.g, j))
                 /\ u.level = 2 =>
                      e.type = "table" /\ UsedFor(n, e.to, Lv3(u.g, u.i, j))
                 /\ u.level = 3 => e.type \in Leaf
  <2>1. CASE q = t /\ j = i
    <3>1. n.table[q][j].type = "table" /\ n.table[q][j].to = p
      BY <1>2, <2>1 DEF TableEntry
    <3>2. n.use[q] = l0 /\ UsedFor(n, p, l)
      BY <1>1, <1>2, <1>3, <2>1
    <3>3. QED
      BY <2>1, <3>1, <3>2 DEF Child
  <2>2. CASE q # t \/ j # i
    <3>1. n.table[q][j] = h.table[q][j] /\ h.used[q] /\ n.use[q] = h.use[q]
      BY <1>2, <1>3, <1>5, <2>2
    <3> DEFINE e == h.table[q][j]
               u == h.use[q]
    <3>2. /\ u.level = 1 => e.type = "table" /\ UsedFor(h, e.to, Lv2(u.g, j))
          /\ u.level = 2 => e.type = "table" /\ UsedFor(h, e.to, Lv3(u.g, u.i, j))
          /\ u.level = 3 => e.type \in Leaf
      BY <1>5, <3>1 DEF HeapOK, TablesAreTrees
    <3> HIDE DEF e, u
    <3>3. n.table[q][j] = e /\ n.use[q] = u
      BY <3>1 DEF e, u
    <3>4. QED
      BY <1>2, <3>2, <3>3
  <2>3. QED
    BY <2>1, <2>2
<1>6. QED
  BY <1>4, <1>5 DEF HeapOK, TablesAreTrees

\* Linking an empty table changes no translation.
LEMMA LinkWalk ==
  ASSUME NEW h, HeapOK(h), NEW n, HeapOK(n),
         NEW t, NEW l0, UsedFor(h, t, l0),
         NEW p, NEW l, UsedFor(h, p, l),
         NEW i \in Index, Child(l0, i, l),
         h.table[t][i] = NoEntry, \A j \in Index : h.table[p][j] = NoEntry,
         SetEntry(h, n, t, i, TableEntry(p))
  PROVE  SameWalk(h, n)
<1> SUFFICES ASSUME NEW g \in Guests, NEW a \in Ipas
             PROVE  Walk(n, g, a) = Walk(h, g, a)
  BY DEF SameWalk
<1>1. /\ t \in HeapRange /\ h.use[t] = l0 /\ HeapType(h)
      /\ p \in HeapRange /\ h.use[p] = l
  BY DEF UsedFor, HeapOK
<1>2. /\ n.table[t][i] = TableEntry(p)
      /\ \A q \in HeapRange, j \in Index :
           (q # t \/ j # i) => n.table[q][j] = h.table[q][j]
  BY <1>1, SetEntryPoints
<1>3. p # t
  BY <1>1 DEF Child, Lv2, Lv3
<1>4. /\ \A j \in Index : n.table[p][j] = NoEntry
      /\ TableEntry(p).to = p /\ TableEntry(p) # NoEntry
      /\ n.root[g] = h.root[g]
  BY <1>1, <1>2, <1>3 DEF TableEntry, NoEntry, SetEntry
<1>5. a[1] \in Index /\ a[2] \in Index /\ a[3] \in Index
  BY IpaParts
<1>6. CASE h.root[g] = Null
  BY <1>4, <1>6, WalkNoRoot
<1>7. CASE h.root[g] # Null
  <2> DEFINE t1 == h.root[g]
             e1 == Entry1(h, g, a)
             e2 == Entry2(h, g, a)
             q  == e1.to
             r  == LastTable(h, g, a)
  <2>0. \A x, m : UsedFor(h, x, m) => x \in HeapRange /\ h.use[x] = m
    BY DEF UsedFor
  <2>1. /\ UsedFor(h, t1, Lv1(g))
        /\ e1 # NoEntry => UsedFor(h, q, Lv2(g, a[1]))
        /\ (e1 # NoEntry /\ e2 # NoEntry) => UsedFor(h, r, Lv3(g, a[1], a[2]))
    BY <1>7, WalkSteps
  <2>2. /\ e1 = h.table[t1][a[1]] /\ Entry1(n, g, a) = n.table[t1][a[1]]
        /\ e2 = h.table[q][a[2]]
    BY <1>4 DEF Entry1, Entry2
  <2>3. /\ e1 = NoEntry => Walk(h, g, a) = NoEntry
        /\ (e1 # NoEntry /\ e2 = NoEntry) => Walk(h, g, a) = NoEntry
    BY <1>7, WalkEnds
  <2>4. CASE t1 = t /\ a[1] = i
    <3>1. Walk(h, g, a) = NoEntry
      BY <2>2, <2>3, <2>4
    <3>2. Entry1(n, g, a) = TableEntry(p)
      BY <1>2, <2>2, <2>4
    <3>3. Entry2(n, g, a) = NoEntry
      BY <1>4, <1>5, <3>2 DEF Entry2
    <3>4. Walk(n, g, a) = NoEntry
      BY <1>4, <1>7, <3>2, <3>3, WalkEnds
    <3>5. QED
      BY <3>1, <3>4
  <2>5. CASE ~(t1 = t /\ a[1] = i)
    <3>a. t1 \in HeapRange
      BY <2>0, <2>1
    <3>1. Entry1(n, g, a) = e1
      <4> HIDE DEF t1, e1
      <4>1. QED
        BY <1>2, <1>5, <2>2, <2>5, <3>a
    <3> HIDE DEF t1
    <3>2. CASE e1 = NoEntry
      BY <1>4, <1>7, <2>3, <3>1, <3>2, WalkEnds
    <3>3. CASE e1 # NoEntry
      <4>1. Entry2(n, g, a) = n.table[q][a[2]] /\ q \in HeapRange
        BY <2>0, <2>1, <3>1, <3>3 DEF Entry2
      <4>2. CASE q = t /\ a[2] = i
        <5>1. Walk(h, g, a) = NoEntry
          BY <2>2, <2>3, <3>3, <4>2
        <5>2. Entry2(n, g, a) = TableEntry(p)
          BY <1>2, <4>1, <4>2
        <5>3. Entry3(n, g, a) = NoEntry
          BY <1>4, <1>5, <5>2 DEF Entry3, LastTable
        <5>4. Walk(n, g, a) = NoEntry
          BY <1>4, <1>7, <3>1, <3>3, <5>2, <5>3, WalkEnds
        <5>5. QED
          BY <5>1, <5>4
      <4>3. CASE ~(q = t /\ a[2] = i)
        <5>1. Entry2(n, g, a) = e2
          <6> HIDE DEF q, e2
          <6>1. QED
            BY <1>2, <1>5, <2>2, <4>1, <4>3
        <5>2. e2 # NoEntry => Entry3(n, g, a) = Entry3(h, g, a)
          <6> SUFFICES ASSUME e2 # NoEntry
                       PROVE  Entry3(n, g, a) = Entry3(h, g, a)
            OBVIOUS
          <6>1. r \in HeapRange /\ h.use[r] = Lv3(g, a[1], a[2])
            BY <2>0, <2>1, <3>3
          <6>2. r # t
            <7> HIDE DEF r
            <7>1. QED
              BY <1>1, <6>1 DEF Child, Lv3
          <6>3. LastTable(n, g, a) = r
            BY <5>1 DEF LastTable
          <6>4. QED
            BY <1>2, <1>5, <6>1, <6>2, <6>3 DEF Entry3
        <5>3. QED
          BY <1>4, <1>7, <3>1, <5>1, <5>2, SameEntries
      <4>4. QED
        BY <4>2, <4>3
    <3>4. QED
      BY <3>2, <3>3
  <2>6. QED
    BY <2>4, <2>5
<1>8. QED
  BY <1>6, <1>7

-----------------------------------------------------------------------------
(***************************************************************************)
(* The three levels of MapPage                                             *)
(***************************************************************************)

\* n is h with more tables: no translation changes, nothing is taken away.
Grown(h, n) ==
  /\ HeapOK(n) /\ SameWalk(h, n)
  /\ n.pages = h.pages
  /\ \A q, m : UsedFor(h, q, m) => UsedFor(n, q, m)
  /\ \A q \in HeapRange, j \in Index :
       (h.used[q] /\ h.table[q][j] # NoEntry) => n.table[q][j] = h.table[q][j]

LEMMA GrownSelf ==
  ASSUME NEW h, HeapOK(h)
  PROVE  Grown(h, h)
BY DEF Grown, SameWalk

LEMMA GrownTwice ==
  ASSUME NEW h, NEW m, NEW n, HeapOK(h), Grown(h, m), Grown(m, n)
  PROVE  Grown(h, n)
<1>1. SameWalk(h, n) /\ n.pages = h.pages /\ HeapOK(n)
  BY DEF Grown, SameWalk
<1>2. \A q, l : UsedFor(h, q, l) => UsedFor(n, q, l)
  BY DEF Grown
<1>3. ASSUME NEW q \in HeapRange, NEW j \in Index,
             h.used[q], h.table[q][j] # NoEntry
      PROVE  n.table[q][j] = h.table[q][j]
  <2>1. UsedFor(h, q, h.use[q])
    BY <1>3 DEF UsedFor
  <2>2. m.used[q] /\ m.table[q][j] = h.table[q][j]
    BY <1>3, <2>1 DEF Grown, UsedFor
  <2>3. QED
    BY <1>3, <2>2 DEF Grown
<1>4. QED
  BY <1>1, <1>2, <1>3 DEF Grown

\* A page allocated, or PANIC.
LEMMA ZallocGrows ==
  ASSUME NEW h, HeapOK(h), h.full = FALSE, NEW l \in Uses
  PROVE  LET n == KmmZalloc(h, l) IN Grown(h, n) /\ n.root = h.root
<1> DEFINE n == KmmZalloc(h, l)
           p == FirstFree(h.used, 1)
<1>0. HeapType(h)
  BY DEF HeapOK
<1>1. /\ HeapType(n)
      /\ n.full => n = [h EXCEPT !.full = TRUE]
      /\ ~n.full => Fresh(h, n, p, l)
  BY <1>0, ZallocEffect
<1> HIDE DEF n, p
<1>2. CASE n.full
  <2>1. n = [h EXCEPT !.full = TRUE]
    BY <1>1, <1>2
  <2>2. HeapOK(n) /\ SameWalk(h, n)
    BY <2>1, FullFlag
  <2>3. /\ n.used = h.used /\ n.use = h.use /\ n.table = h.table
        /\ n.root = h.root /\ n.pages = h.pages
    BY <2>1, <1>0 DEF HeapType
  <2>4. QED
    BY <2>2, <2>3 DEF Grown, UsedFor, n
<1>3. CASE ~n.full
  <2>1. Fresh(h, n, p, l)
    BY <1>1, <1>3
  <2>2. HeapOK(n) /\ SameWalk(h, n)
    BY <1>1, <2>1, FreshTrees, FreshWalk
  <2>3. \A q, m : UsedFor(h, q, m) => UsedFor(n, q, m)
    BY <1>1, <2>1, FreshKeepsUse
  <2>4. ASSUME NEW q \in HeapRange, NEW j \in Index, h.used[q]
        PROVE  n.table[q][j] = h.table[q][j]
    BY <1>0, <2>1, <2>4 DEF Fresh, HeapType
  <2>5. n.root = h.root /\ n.pages = h.pages
    BY <2>1 DEF Fresh
  <2>6. QED
    BY <2>2, <2>3, <2>4, <2>5 DEF Grown, n
<1>4. QED
  BY <1>2, <1>3

LEMMA FreshIsEmpty ==
  ASSUME NEW h, HeapType(h), NEW n, NEW p, NEW l, Fresh(h, n, p, l)
  PROVE  /\ UsedFor(n, p, l) /\ p \in HeapRange /\ p # Null
         /\ \A j \in Index : n.table[p][j] = NoEntry
         /\ \A q, m : UsedFor(h, q, m) => n.table[q] = h.table[q]
BY MemoryAssumption DEF Fresh, HeapType, UsedFor, HeapRange, Null

\* n is h with a table below entry i of table t, or PANIC.
Links(h, n, t, i) ==
  /\ Grown(h, n) /\ n.root = h.root
  /\ ~n.full => n.table[t][i] # NoEntry

\* A page in use that may have a table below its entries.
Parent(h, t, i, l) ==
  \E l0 \in Uses : UsedFor(h, t, l0) /\ Child(l0, i, l)

\* CreatePageTable leaves a table below the entry, or ends in PANIC.
LEMMA CreateGrows ==
  ASSUME NEW h, HeapOK(h), h.full = FALSE,
         NEW i \in Index, NEW l \in Uses, NEW t, Parent(h, t, i, l)
  PROVE  Links(h, CreatePageTable(h, t, i, l), t, i)
<1> DEFINE n == CreatePageTable(h, t, i, l)
<1> SUFFICES /\ Grown(h, n) /\ n.root = h.root
             /\ ~n.full => n.table[t][i] # NoEntry
  <2> HIDE DEF n
  <2>1. QED
    BY DEF Links, n
<1>0. PICK l0 \in Uses : UsedFor(h, t, l0) /\ Child(l0, i, l)
  BY DEF Parent
<1>1. CASE h.table[t][i] # NoEntry
  <2>1. n = h
    BY <1>1 DEF CreatePageTable
  <2>2. QED
    BY <1>1, <2>1, GrownSelf
<1>2. CASE h.table[t][i] = NoEntry
  <2> DEFINE m == KmmZalloc(h, l)
             p == FirstFree(h.used, 1)
  <2>0. HeapType(h) /\ t \in HeapRange
    BY <1>0 DEF HeapOK, UsedFor
  <2>1. Grown(h, m) /\ m.root = h.root
    BY ZallocGrows
  <2>2. /\ HeapType(m)
        /\ ~m.full => Fresh(h, m, p, l)
    BY <2>0, ZallocEffect
  <2>3. n = IF m.full THEN m ELSE [m EXCEPT !.table[t][i] = TableEntry(p)]
    BY <1>2 DEF CreatePageTable, TableEntry
  <2> HIDE DEF n, m, p
  <2>4. CASE m.full
    <3>1. n = m
      BY <2>3, <2>4
    <3>2. QED
      BY <2>1, <2>4, <3>1 DEF n
  <2>5. CASE ~m.full
    <3>1. Fresh(h, m, p, l)
      BY <2>2, <2>5
    <3>2. /\ UsedFor(m, p, l) /\ p \in HeapRange
          /\ \A j \in Index : m.table[p][j] = NoEntry
          /\ m.table[t] = h.table[t]
      BY <1>0, <2>0, <3>1, FreshIsEmpty
    <3>3. n = [m EXCEPT !.table[t][i] = TableEntry(p)]
      BY <2>3, <2>5
    <3>4. TableEntry(p) \in Entries
      BY <3>2, MemoryAssumption DEF TableEntry, Entries, HeapRange
    <3>5. SetEntry(m, n, t, i, TableEntry(p)) /\ HeapType(n)
          /\ n.pages = m.pages /\ n.full = m.full
      BY <2>0, <2>2, <3>3, <3>4 DEF SetEntry, HeapType
    <3>6. HeapOK(m) /\ UsedFor(m, t, l0)
      BY <1>0, <2>1 DEF Grown
    <3>7. HeapOK(n)
      BY <1>0, <3>2, <3>5, <3>6, LinkTrees
    <3>8. SameWalk(m, n)
      BY <1>0, <1>2, <3>2, <3>5, <3>6, <3>7, LinkWalk
    <3>9. /\ n.table[t][i] = TableEntry(p)
          /\ \A q \in HeapRange, j \in Index :
               (q # t \/ j # i) => n.table[q][j] = m.table[q][j]
          /\ \A q, u : UsedFor(m, q, u) => UsedFor(n, q, u)
      BY <2>0, <2>2, <3>5, SetEntryPoints
    <3>10. Grown(m, n)
      <4>1. m.table[t][i] = NoEntry
        BY <1>2, <3>2
      <4>2. \A q \in HeapRange, j \in Index :
              m.table[q][j] # NoEntry => n.table[q][j] = m.table[q][j]
        BY <3>9, <4>1
      <4>3. QED
        BY <3>5, <3>7, <3>8, <3>9, <4>2 DEF Grown
    <3>11. Grown(h, n)
      BY <2>1, <3>10, GrownTwice
    <3>12. n.root = h.root
      BY <2>1, <3>5 DEF SetEntry
    <3>13. n.table[t][i] # NoEntry
      BY <3>9 DEF TableEntry, NoEntry
    <3>14. QED
      BY <3>11, <3>12, <3>13 DEF n
  <2>6. QED
    BY <2>4, <2>5
<1>3. QED
  BY <1>1, <1>2

\* The first table of a guest.
LEMMA RootGrows ==
  ASSUME NEW h, HeapOK(h), h.full = FALSE, NEW g \in Guests
  PROVE  LET n == CreateRoot(h, g) IN
         Grown(h, n) /\ (~n.full => n.root[g] # Null)
<1> DEFINE n == CreateRoot(h, g)
<1>1. CASE h.root[g] # Null
  BY <1>1, GrownSelf DEF CreateRoot
<1>2. CASE h.root[g] = Null
  <2> DEFINE m == KmmZalloc(h, Lv1(g))
             p == FirstFree(h.used, 1)
  <2>0. HeapType(h) /\ Lv1(g) \in Uses
    BY MemoryAssumption DEF HeapOK, Lv1, Uses, Guests
  <2>1. Grown(h, m) /\ m.root = h.root
    BY <2>0, ZallocGrows
  <2>2. /\ HeapType(m)
        /\ ~m.full => Fresh(h, m, p, Lv1(g))
    BY <2>0, ZallocEffect
  <2>3. n = IF m.full THEN m ELSE [m EXCEPT !.root[g] = p]
    BY <1>2 DEF CreateRoot
  <2> HIDE DEF n, m, p
  <2>4. CASE m.full
    BY <2>1, <2>3, <2>4 DEF n
  <2>5. CASE ~m.full
    <3>1. /\ UsedFor(m, p, Lv1(g)) /\ p \in HeapRange /\ p # Null
          /\ \A j \in Index : m.table[p][j] = NoEntry
      BY <2>0, <2>2, <2>5, FreshIsEmpty
    <3>2. n = [m EXCEPT !.root[g] = p]
      BY <2>3, <2>5
    <3>3. /\ HeapType(n) /\ n.used = m.used /\ n.use = m.use
          /\ n.table = m.table /\ n.pages = m.pages
          /\ n.root = [m.root EXCEPT ![g] = p]
      BY <2>2, <3>1, <3>2 DEF HeapType
    <3>4. m.root \in [Guests -> HeapRange \cup {Null}] /\ HeapOK(m)
      BY <2>1, <2>2 DEF HeapType, Grown
    <3>5. \A q, l : UsedFor(m, q, l) <=> UsedFor(n, q, l)
      BY <3>3 DEF UsedFor
    <3>6. TablesAreTrees(n)
      <4>1. \A k \in Guests : n.root[k] # Null => UsedFor(n, n.root[k], Lv1(k))
        BY <3>1, <3>3, <3>4, <3>5 DEF HeapOK, TablesAreTrees
      <4>2. QED
        BY <3>3, <3>4, <3>5, <4>1 DEF HeapOK, TablesAreTrees
    <3>a. HeapOK(n)
      BY <3>3, <3>6 DEF HeapOK
    <3>7. SameWalk(m, n)
      <4> SUFFICES ASSUME NEW k \in Guests, NEW a \in Ipas
                   PROVE  Walk(n, k, a) = Walk(m, k, a)
        BY DEF SameWalk
      <4>1. CASE k # g
        <5>1. n.root[k] = m.root[k] /\ n.table = m.table
          BY <3>3, <3>4, <4>1
        <5>2. Entry1(n, k, a) = Entry1(m, k, a)
          BY <5>1 DEF Entry1
        <5>3. Entry2(n, k, a) = Entry2(m, k, a)
          BY <5>1, <5>2 DEF Entry2
        <5>4. Entry3(n, k, a) = Entry3(m, k, a)
          BY <5>1, <5>3 DEF Entry3, LastTable
        <5>5. QED
          BY <5>1, <5>2, <5>3, <5>4 DEF Walk
      <4>2. CASE k = g
        <5>1. Walk(m, k, a) = NoEntry
          BY <1>2, <2>1, <4>2, WalkNoRoot
        <5>2. n.root[k] = p /\ n.table[p][a[1]] = NoEntry
          BY <3>1, <3>3, <3>4, <4>2, IpaParts
        <5>3. Walk(n, k, a) = NoEntry
          BY <3>1, <3>a, <5>2, WalkEnds DEF Entry1
        <5>4. QED
          BY <5>1, <5>3
      <4>3. QED
        BY <4>1, <4>2
    <3>8. Grown(m, n)
      BY <3>3, <3>5, <3>6, <3>7 DEF Grown, HeapOK
    <3>9. Grown(h, n) /\ n.root[g] # Null
      BY <2>1, <3>1, <3>3, <3>4, <3>8, GrownTwice
    <3>10. QED
      BY <3>9 DEF n
  <2>6. QED
    BY <2>4, <2>5
<1>3. QED
  BY <1>1, <1>2

LEMMA TableUses ==
  ASSUME NEW g \in Guests, NEW i \in Index, NEW j \in Index
  PROVE  /\ Lv1(g) \in Uses /\ Lv2(g, i) \in Uses /\ Lv3(g, i, j) \in Uses
         /\ Child(Lv1(g), i, Lv2(g, i)) /\ Child(Lv2(g, i), j, Lv3(g, i, j))
BY MemoryAssumption DEF Lv1, Lv2, Lv3, Uses, Guests, Child

\* The three tables for an address are there.
HasTables(h, g, a) ==
  h.root[g] # Null /\ Entry1(h, g, a) # NoEntry /\ Entry2(h, g, a) # NoEntry

\* After the three levels the last table is there, or PANIC.
LEMMA TablesGrow ==
  ASSUME NEW h, HeapOK(h), h.full = FALSE, NEW g \in Guests, NEW a \in Ipas
  PROVE  LET n == TablesFor(h, g, a) IN
         Grown(h, n) /\ (~n.full => HasTables(n, g, a))
<1> DEFINE i1 == a[1]
           i2 == a[2]
           u1 == Lv1(g)
           u2 == Lv2(g, i1)
           u3 == Lv3(g, i1, i2)
           h1 == CreateRoot(h, g)
           t1 == h1.root[g]
           h2 == IF h1.full THEN h1 ELSE CreatePageTable(h1, t1, i1, u2)
           t2 == h2.table[t1][i1].to
           n == IF h2.full THEN h2 ELSE CreatePageTable(h2, t2, i2, u3)
<1>0. TablesFor(h, g, a) = n
  BY DEF TablesFor
<1>1. i1 \in Index /\ i2 \in Index
  BY IpaParts
<1> HIDE DEF n, t2, h2, t1, h1
<1>2. /\ u1 \in Uses /\ u2 \in Uses /\ u3 \in Uses
      /\ Child(u1, i1, u2) /\ Child(u2, i2, u3)
  <2> HIDE DEF i1, i2
  <2>1. QED
    BY <1>1, TableUses
<1>3. Grown(h, h1) /\ (~h1.full => h1.root[g] # Null)
  BY RootGrows DEF h1
<1>4. HeapOK(h1) /\ h1.full \in BOOLEAN
  BY <1>3 DEF Grown, HeapOK, HeapType
<1>5. CASE h1.full
  <2>1. n = h1
    BY <1>5 DEF n, h2
  <2>2. QED
    BY <1>0, <1>3, <1>5, <2>1
<1>6. CASE ~h1.full
  <2>1. h2 = CreatePageTable(h1, t1, i1, u2)
    BY <1>6 DEF h2
  <2>2. t1 = h1.root[g] /\ UsedFor(h1, t1, u1) /\ h1.full = FALSE
    BY <1>3, <1>4, <1>6 DEF t1, HeapOK, TablesAreTrees
  <2> HIDE DEF u1, u2, u3, i1, i2
  <2>3. Parent(h1, t1, i1, u2)
    BY <1>2, <2>2 DEF Parent
  <2>4. Links(h1, h2, t1, i1)
    BY <1>1, <1>2, <1>4, <2>1, <2>2, <2>3, CreateGrows
  <2>5. /\ Grown(h1, h2) /\ h2.root = h1.root
        /\ ~h2.full => h2.table[t1][i1] # NoEntry
    BY <2>4 DEF Links
  <2>6. HeapOK(h2) /\ h2.full \in BOOLEAN
    BY <2>5 DEF Grown, HeapOK, HeapType
  <2>7. Grown(h, h2)
    BY <1>3, <2>5, GrownTwice
  <2>8. CASE h2.full
    <3>1. n = h2
      BY <2>8 DEF n
    <3>2. QED
      BY <1>0, <2>7, <2>8, <3>1
  <2>9. CASE ~h2.full
    <3>1. h2.root[g] = t1 /\ h2.root[g] # Null /\ h2.full = FALSE
      BY <1>3, <1>6, <2>2, <2>5, <2>6, <2>9
    <3>2. Entry1(h2, g, a) = h2.table[t1][i1] /\ Entry1(h2, g, a) # NoEntry
          /\ t2 = Entry1(h2, g, a).to
      BY <2>5, <2>9, <3>1 DEF Entry1, i1, t2
    <3>3. UsedFor(h2, t1, u1)
      BY <2>2, <2>5 DEF Grown
    <3>4. UsedFor(h2, t2, u2)
      BY <2>6, <3>1, <3>2, WalkSteps DEF u2, i1
    <3>5. n = CreatePageTable(h2, t2, i2, u3)
      BY <2>9 DEF n
    <3>6. Parent(h2, t2, i2, u3)
      BY <1>2, <3>4 DEF Parent
    <3>7. Links(h2, n, t2, i2)
      BY <1>1, <1>2, <2>6, <3>1, <3>5, <3>6, CreateGrows
    <3>8. /\ Grown(h2, n) /\ n.root = h2.root
          /\ ~n.full => n.table[t2][i2] # NoEntry
      BY <3>7 DEF Links
    <3>9. Grown(h, n)
      BY <2>7, <3>8, GrownTwice
    <3>10. h2.used[t1] /\ t1 \in HeapRange
      BY <3>3 DEF UsedFor
    <3>11. n.table[t1][i1] = h2.table[t1][i1]
      BY <1>1, <3>2, <3>8, <3>10 DEF Grown
    <3>12. n.root[g] = t1 /\ n.root[g] # Null
      BY <3>1, <3>8
    <3>13. Entry1(n, g, a) = Entry1(h2, g, a)
      BY <3>2, <3>11, <3>12 DEF Entry1, i1
    <3>14. Entry2(n, g, a) = n.table[t2][i2]
      BY <3>2, <3>13 DEF Entry2, i2
    <3>15. ~n.full => HasTables(n, g, a)
      BY <3>2, <3>8, <3>12, <3>13, <3>14 DEF HasTables
    <3>16. QED
      BY <1>0, <3>9, <3>15
  <2>10. QED
    BY <2>8, <2>9
<1>7. QED
  BY <1>5, <1>6

LEMMA LastTableUsed ==
  ASSUME NEW h, HeapOK(h), NEW g \in Guests, NEW a \in Ipas, HasTables(h, g, a)
  PROVE  UsedFor(h, LastTable(h, g, a), Lv3(g, a[1], a[2]))
BY WalkSteps DEF HasTables

\* Heap n maps address a of guest g to e, and every other address as h does.
Updates(h, n, g, a, e) ==
  \A k \in Guests, b \in Ipas :
    Walk(n, k, b) = IF k = g /\ b = a THEN e ELSE Walk(h, k, b)

\* The entry MapPage writes is the one the walk of that address, and of no
\* other, ends at.
LEMMA LeafWalk ==
  ASSUME NEW h, HeapOK(h), NEW n, HeapOK(n), NEW g \in Guests, NEW a \in Ipas,
         HasTables(h, g, a),
         NEW e, SetEntry(h, n, LastTable(h, g, a), a[3], e)
  PROVE  Updates(h, n, g, a, e)
<1> SUFFICES ASSUME NEW k \in Guests, NEW b \in Ipas
             PROVE  Walk(n, k, b) = IF k = g /\ b = a THEN e ELSE Walk(h, k, b)
  BY DEF Updates
<1> DEFINE r == LastTable(h, g, a)
<1>1. /\ a[1] \in Index /\ a[2] \in Index /\ a[3] \in Index
      /\ b[1] \in Index /\ b[2] \in Index /\ b[3] \in Index
  BY IpaParts
<1>2. UsedFor(h, r, Lv3(g, a[1], a[2]))
  BY LastTableUsed
<1>3. SetEntry(h, n, r, a[3], e)
  OBVIOUS
<1>4. r \in HeapRange /\ h.use[r] = Lv3(g, a[1], a[2]) /\ HeapType(h)
  BY <1>2 DEF UsedFor, HeapOK
<1>5. n.table[r][a[3]] = e
      /\ \A q \in HeapRange, j \in Index :
           (q # r \/ j # a[3]) => n.table[q][j] = h.table[q][j]
  <2> HIDE DEF r
  <2>1. QED
    BY <1>1, <1>3, <1>4, SetEntryPoints
<1>6. n.root[k] = h.root[k]
  BY <1>3 DEF SetEntry
<1>7. CASE h.root[k] = Null
  <2>1. Walk(h, k, b) = NoEntry /\ Walk(n, k, b) = NoEntry
    BY <1>6, <1>7, WalkNoRoot
  <2>2. k # g
    BY <1>7 DEF HasTables
  <2>3. QED
    BY <2>1, <2>2
<1>8. CASE h.root[k] # Null
  <2> DEFINE t == h.root[k]
             q == Entry1(h, k, b).to
             s == LastTable(h, k, b)
  <2>1. /\ UsedFor(h, t, Lv1(k))
        /\ Entry1(h, k, b) # NoEntry => UsedFor(h, q, Lv2(k, b[1]))
        /\ (Entry1(h, k, b) # NoEntry /\ Entry2(h, k, b) # NoEntry) =>
             UsedFor(h, s, Lv3(k, b[1], b[2]))
    BY <1>8, WalkSteps
  <2>2. \A x, m : UsedFor(h, x, m) =>
          x \in HeapRange /\ (m.level # 3 => x # r)
    BY <1>4 DEF UsedFor, Lv3
  <2>3. Lv1(k).level # 3 /\ Lv2(k, b[1]).level # 3
    BY Levels
  <2>4. Entry1(n, k, b) = Entry1(h, k, b)
    <3>1. t \in HeapRange /\ t # r
      BY <2>1, <2>2, <2>3
    <3> HIDE DEF r
    <3>2. QED
      BY <1>1, <1>5, <1>6, <3>1 DEF Entry1
  <2>5. Entry1(h, k, b) # NoEntry => Entry2(n, k, b) = Entry2(h, k, b)
    <3> SUFFICES ASSUME Entry1(h, k, b) # NoEntry
                 PROVE  Entry2(n, k, b) = Entry2(h, k, b)
      OBVIOUS
    <3>1. q \in HeapRange /\ q # r
      BY <2>1, <2>2, <2>3
    <3> HIDE DEF r
    <3>2. QED
      BY <1>1, <1>5, <2>4, <3>1 DEF Entry2
  <2>6. CASE k = g /\ b = a
    <3>1. /\ Entry1(n, g, a) # NoEntry /\ Entry2(n, g, a) # NoEntry
          /\ Entry2(n, g, a) = Entry2(h, g, a) /\ n.root[g] # Null
      BY <1>6, <1>8, <2>4, <2>5, <2>6 DEF HasTables
    <3>2. Entry3(n, g, a) = n.table[r][a[3]]
      BY <3>1 DEF Entry3, LastTable
    <3>3. Walk(n, g, a) = Entry3(n, g, a)
      BY <3>1, WalkEnds
    <3>4. QED
      BY <1>5, <2>6, <3>2, <3>3
  <2>7. CASE ~(k = g /\ b = a)
    <3>1. ASSUME Entry1(h, k, b) # NoEntry, Entry2(h, k, b) # NoEntry
          PROVE  Entry3(n, k, b) = Entry3(h, k, b)
      <4>1. s \in HeapRange /\ h.use[s] = Lv3(k, b[1], b[2])
        BY <2>1, <3>1 DEF UsedFor
      <4>2. LastTable(n, k, b) = s
        BY <2>5, <3>1 DEF LastTable
      <4> HIDE DEF r, s
      <4>3. s # r \/ b[3] # a[3]
        <5>1. SUFFICES ASSUME s = r, b[3] = a[3] PROVE FALSE
          OBVIOUS
        <5>2. Lv3(k, b[1], b[2]) = Lv3(g, a[1], a[2])
          BY <1>4, <4>1, <5>1
        <5>3. k = g /\ b[1] = a[1] /\ b[2] = a[2]
          BY <5>2 DEF Lv3
        <5>4. QED
          BY <2>7, <5>1, <5>3, IpaEqual
      <4>4. n.table[s][b[3]] = h.table[s][b[3]]
        BY <1>1, <1>5, <4>1, <4>3
      <4>5. QED
        BY <4>2, <4>4 DEF Entry3, s
    <3>2. Walk(n, k, b) = Walk(h, k, b)
      BY <1>6, <1>8, <2>4, <2>5, <3>1, SameEntries
    <3>3. QED
      BY <2>7, <3>2
  <2>8. QED
    BY <2>6, <2>7
<1>9. QED
  BY <1>7, <1>8

\* An entry of a last table may be any page.
LEMMA LeafTrees ==
  ASSUME NEW h, HeapOK(h), NEW n, HeapType(n),
         NEW r, NEW l, UsedFor(h, r, l), l.level = 3,
         NEW i \in Index, NEW e, e.type \in Leaf, SetEntry(h, n, r, i, e)
  PROVE  HeapOK(n)
<1>1. HeapType(h) /\ r \in HeapRange /\ h.use[r] = l /\ n.root = h.root
      /\ n.use = h.use /\ n.used = h.used
  BY DEF HeapOK, UsedFor, SetEntry
<1>2. /\ n.table[r][i] = e
      /\ \A q \in HeapRange, j \in Index :
           (q # r \/ j # i) => n.table[q][j] = h.table[q][j]
      /\ \A q, m : UsedFor(h, q, m) => UsedFor(n, q, m)
  BY <1>1, SetEntryPoints
<1>3. ASSUME NEW k \in Guests, n.root[k] # Null
      PROVE  UsedFor(n, n.root[k], Lv1(k))
  BY <1>1, <1>2, <1>3 DEF HeapOK, TablesAreTrees
<1>4. ASSUME NEW q \in HeapRange, NEW j \in Index, n.used[q],
             n.table[q][j] # NoEntry
      PROVE  LET f == n.table[q][j]
                 u == n.use[q]
             IN  /\ u.level = 1 =>
                      f.type = "table" /\ UsedFor(n, f.to, Lv2(u.g, j))
                 /\ u.level = 2 =>
                      f.type = "table" /\ UsedFor(n, f.to, Lv3(u.g, u.i, j))
                 /\ u.level = 3 => f.type \in Leaf
  <2> DEFINE f == h.table[q][j]
             u == h.use[q]
  <2>1. CASE q = r /\ j = i
    BY <1>1, <1>2, <2>1
  <2>2. CASE q # r \/ j # i
    <3>1. n.table[q][j] = f /\ n.use[q] = u /\ h.used[q] /\ f # NoEntry
      BY <1>1, <1>2, <1>4, <2>2
    <3>2. /\ u.level = 1 => f.type = "table" /\ UsedFor(h, f.to, Lv2(u.g, j))
          /\ u.level = 2 => f.type = "table" /\ UsedFor(h, f.to, Lv3(u.g, u.i, j))
          /\ u.level = 3 => f.type \in Leaf
      BY <3>1 DEF HeapOK, TablesAreTrees
    <3> HIDE DEF f, u
    <3>3. QED
      BY <1>2, <3>1, <3>2
  <2>3. QED
    BY <2>1, <2>2
<1>5. QED
  BY <1>3, <1>4 DEF HeapOK, TablesAreTrees

\* One translation is updated; or PANIC, and none changes.
Mapped(h, n, g, a, e) ==
  /\ HeapOK(n)
  /\ n.full => SameWalk(h, n)
  /\ ~n.full => Updates(h, n, g, a, e)

\* MapPage changes the translation of one address of one guest, however many
\* tables it has to create on the way (pgtable_stage2.cc:103-143).
THEOREM MapPageUpdates ==
  ASSUME NEW h, HeapOK(h), h.full = FALSE, NEW g \in Guests, NEW a \in Ipas,
         NEW e \in Entries, e.type \in Leaf
  PROVE  Mapped(h, MapPage(h, g, a, e), g, a, e)
<1> DEFINE m == TablesFor(h, g, a)
           r == LastTable(m, g, a)
           n == MapPage(h, g, a, e)
<1>1. /\ Grown(h, m)
      /\ ~m.full => HasTables(m, g, a)
  BY TablesGrow
<1>2. n = IF m.full THEN m
          ELSE [m EXCEPT !.pages[g] = @ + 1, !.table[r][a[3]] = e]
  BY DEF MapPage
<1> HIDE DEF m, n
<1>3. HeapOK(m) /\ HeapType(m) /\ SameWalk(h, m)
  BY <1>1 DEF Grown, HeapOK
<1>4. CASE m.full
  <2>1. n = m
    BY <1>2, <1>4
  <2>2. QED
    BY <1>3, <1>4, <2>1 DEF Mapped, n
<1>5. CASE ~m.full
  <2>1. HasTables(m, g, a)
    BY <1>1, <1>5
  <2>2. UsedFor(m, r, Lv3(g, a[1], a[2]))
    BY <1>3, <2>1, LastTableUsed
  <2> HIDE DEF r
  <2>3. n = [m EXCEPT !.pages[g] = @ + 1, !.table[r][a[3]] = e]
    BY <1>2, <1>5
  <2>4. /\ n.used = m.used /\ n.use = m.use /\ n.root = m.root
        /\ n.table = [m.table EXCEPT ![r][a[3]] = e]
        /\ n.pages = [m.pages EXCEPT ![g] = @ + 1]
        /\ n.full = m.full
    BY <1>3, <2>3 DEF HeapType
  <2>5. SetEntry(m, n, r, a[3], e)
    BY <2>4 DEF SetEntry
  <2>6. r \in HeapRange /\ a[3] \in Index
    BY <2>2, IpaParts DEF UsedFor
  <2>7. HeapType(n)
    <3>1. n.table \in [HeapRange -> [Index -> Entries]]
      BY <1>3, <2>4, <2>6 DEF HeapType
    <3>2. n.pages \in [Guests -> Nat]
      BY <1>3, <2>4 DEF HeapType
    <3>3. n \in [used : [HeapRange -> BOOLEAN], use : [HeapRange -> Uses],
                 table : [HeapRange -> [Index -> Entries]],
                 root : [Guests -> HeapRange \cup {Null}],
                 pages : [Guests -> Nat], full : BOOLEAN]
      BY <1>3, <2>3, <3>1, <3>2 DEF HeapType
    <3>4. \E x \in 0 .. HeapPages : \A p \in HeapRange : n.used[p] <=> p <= x
      BY <1>3, <2>4 DEF HeapType
    <3>5. QED
      BY <3>3, <3>4 DEF HeapType
  <2>8. HeapOK(n)
    BY <1>3, <2>2, <2>5, <2>6, <2>7, LeafTrees, Levels
  <2>9. Updates(m, n, g, a, e)
    <3>1. SetEntry(m, n, LastTable(m, g, a), a[3], e)
      BY <2>5 DEF r
    <3>2. QED
      BY <1>3, <2>1, <2>8, <3>1, LeafWalk
  <2>10. Updates(h, n, g, a, e)
    BY <1>3, <2>9 DEF SameWalk, Updates
  <2>11. QED
    BY <1>5, <2>4, <2>8, <2>10 DEF Mapped, n
<1>6. QED
  BY <1>4, <1>5

\* One translation and the count are updated, or neither.
Moved(h, n, g, a, e) ==
  \/ SameWalk(h, n) /\ n.pages = h.pages
  \/ Updates(h, n, g, a, e) /\ n.pages = [h.pages EXCEPT ![g] = @ + 1]

LEMMA MapPageMoves ==
  ASSUME NEW h, HeapOK(h), h.full = FALSE, NEW g \in Guests, NEW a \in Ipas,
         NEW e \in Entries, e.type \in Leaf
  PROVE  Moved(h, MapPage(h, g, a, e), g, a, e)
<1> DEFINE m == TablesFor(h, g, a)
           n == MapPage(h, g, a, e)
<1>1. Grown(h, m)
  BY TablesGrow
<1>2. Mapped(h, n, g, a, e)
  BY MapPageUpdates
<1>3. n = IF m.full THEN m
          ELSE [m EXCEPT !.pages[g] = @ + 1, !.table[LastTable(m, g, a)][a[3]] = e]
  BY DEF MapPage
<1> HIDE DEF m, n
<1>4. HeapType(m) /\ m.pages = h.pages /\ SameWalk(h, m)
  BY <1>1 DEF Grown, HeapOK
<1>5. CASE m.full
  BY <1>3, <1>4, <1>5 DEF Moved, n
<1>6. CASE ~m.full
  <2>1. n.pages = [m.pages EXCEPT ![g] = @ + 1] /\ n.full = m.full
    BY <1>3, <1>4, <1>6 DEF HeapType
  <2>2. Updates(h, n, g, a, e)
    BY <1>2, <1>6, <2>1 DEF Mapped
  <2>3. QED
    BY <1>4, <2>1, <2>2 DEF Moved, n
<1>7. QED
  BY <1>5, <1>6

-----------------------------------------------------------------------------
(***************************************************************************)
(* The invariant                                                           *)
(***************************************************************************)

\* User heap v is u with its next page in use, for l.
Taken(u, v, l) ==
  /\ u.next \in UserRange
  /\ v.used = [u.used EXCEPT ![u.next] = TRUE]
  /\ v.use = [u.use EXCEPT ![u.next] = l]
  /\ v.next = u.next + 1
  /\ v.full = FALSE

\* ... and with contents x.
TakenWith(u, v, l, x) ==
  v = [u EXCEPT !.used[u.next] = TRUE, !.use[u.next] = l,
                !.next = u.next + 1, !.frame[u.next] = x]

\* ... or there is none.
NextTaken(u, v, l) ==
  /\ v.full => v = [u EXCEPT !.full = TRUE]
  /\ ~v.full => /\ Taken(u, v, l) /\ NewFrame(u) = u.next
                /\ TakenWith(u, v, l, Zero)

\* umm_zalloc returns the page at nextFreeSpaceIndex, cleared, or PANIC.
LEMMA UmmTakes ==
  ASSUME UserType, uheap.full = FALSE, NEW l
  PROVE  NextTaken(uheap, UmmZalloc(uheap, l), l)
<1> DEFINE F == FreeFrom(uheap.used, uheap.next)
           p == FirstFree(uheap.used, uheap.next)
           v == UmmZalloc(uheap, l)
<1> SUFFICES NextTaken(uheap, v, l)
  OBVIOUS
<1>1. CASE F = {}
  <2>1. v = [uheap EXCEPT !.full = TRUE]
    BY <1>1 DEF UmmZalloc
  <2>2. v.full
    BY <2>1 DEF UserType
  <2> HIDE DEF v
  <2>3. QED
    BY <2>1, <2>2 DEF NextTaken
<1>2. CASE F # {}
  <2>1. /\ DOMAIN uheap.used = UserRange /\ uheap.next \in Nat
        /\ UserRange \subseteq Nat
        /\ \A q \in UserRange : uheap.used[q] <=> q < uheap.next
    BY MemoryAssumption DEF UserType, UserRange
  <2>2. F = {q \in UserRange : q >= uheap.next}
    <3>1. F = {q \in UserRange : q >= uheap.next /\ ~uheap.used[q]}
      BY <2>1 DEF FreeFrom
    <3>2. \A q \in UserRange : q >= uheap.next => ~uheap.used[q]
      BY <2>1
    <3> HIDE DEF F
    <3>3. QED
      BY <3>1, <3>2
  <2>3. uheap.next \in F /\ \A q \in F : uheap.next <= q
    <3>1. PICK q \in UserRange : q >= uheap.next
      BY <1>2, <2>2
    <3>2. uheap.next \in UserRange
      BY <3>1, MemoryAssumption DEF UserType, UserRange
    <3>3. QED
      BY <2>1, <2>2, <3>2
  <2>4. p \in F /\ \A q \in F : p <= q
    BY <2>3 DEF FirstFree
  <2>5. p = uheap.next
    <3> HIDE DEF p
    <3>1. p <= uheap.next /\ uheap.next <= p /\ p \in UserRange
      BY <2>2, <2>3, <2>4
    <3> HIDE DEF F
    <3>2. QED
      BY <2>1, <3>1
  <2>6. v = [uheap EXCEPT !.used[p] = TRUE, !.use[p] = l, !.next = p + 1,
                          !.frame[p] = Zero]
    BY <1>2 DEF UmmZalloc
  <2>7. NewFrame(uheap) = p /\ uheap.next \in UserRange
    BY <2>2, <2>3 DEF NewFrame
  <2> HIDE DEF p, v
  <2>8. v = [uheap EXCEPT !.used[uheap.next] = TRUE, !.use[uheap.next] = l,
                          !.next = uheap.next + 1, !.frame[uheap.next] = Zero]
    BY <2>5, <2>6
  <2>9. /\ v.used = [uheap.used EXCEPT ![uheap.next] = TRUE]
        /\ v.use = [uheap.use EXCEPT ![uheap.next] = l]
        /\ v.next = uheap.next + 1
        /\ v.frame = [uheap.frame EXCEPT ![uheap.next] = Zero]
        /\ v.full = FALSE
    BY <2>8 DEF UserType
  <2>10. QED
    BY <2>5, <2>7, <2>8, <2>9 DEF NextTaken, Taken, TakenWith, v
<1>3. QED
  BY <1>1, <1>2

\* A step that changes no translation keeps the owners.
LEMMA OwnersKept ==
  ASSUME SameWalk(kheap, kheap'), uheap'.used = uheap.used,
         uheap'.use = uheap.use
  PROVE  /\ RamIsOwned => RamIsOwned'
         /\ RamIsNoDevice => RamIsNoDevice'
<1>1. RamIsOwned => RamIsOwned'
  BY DEF RamIsOwned, SameWalk
<1>2. RamIsNoDevice => RamIsNoDevice'
  BY MemoryAssumption DEF RamIsNoDevice, SameWalk
<1>3. QED
  BY <1>1, <1>2

\* A page of the user heap that is mapped is not the next one.
LEMMA MappedIsOld ==
  ASSUME UserType, RamIsOwned, NEW g \in Guests, NEW a \in Ipas,
         Walk(kheap, g, a).type = "dram"
  PROVE  /\ Walk(kheap, g, a).to # uheap.next
         /\ Walk(kheap, g, a).to \in UserRange
<1>1. Walk(kheap, g, a).to \in UserRange /\ uheap.used[Walk(kheap, g, a).to]
  BY DEF RamIsOwned
<1> DEFINE p == Walk(kheap, g, a).to
<1> HIDE DEF p
<1>2. p \in UserRange /\ uheap.used[p]
  BY <1>1 DEF p
<1>3. p # uheap.next
  BY <1>2, MemoryAssumption DEF UserType, UserRange
<1>4. QED
  BY <1>2, <1>3 DEF p

\* Mapping the next page at an address of memory keeps the owners.
LEMMA OwnersGrow ==
  ASSUME UserType, RamIsOwned, RamIsNoDevice, NEW g \in Guests, NEW a \in Ram,
         Taken(uheap, uheap', <<g, a>>),
         \/ SameWalk(kheap, kheap')
         \/ Updates(kheap, kheap', g, a, Dram(uheap.next))
  PROVE  RamIsOwned' /\ RamIsNoDevice'
<1> DEFINE p == uheap.next
<1>0. /\ uheap.used \in [UserRange -> BOOLEAN]
      /\ uheap.use \in [UserRange -> ({0} \cup Guests) \X ({None} \cup Ram)]
      /\ p \in UserRange
      /\ uheap'.used = [uheap.used EXCEPT ![p] = TRUE]
      /\ uheap'.use = [uheap.use EXCEPT ![p] = <<g, a>>]
  BY DEF UserType, Taken
<1>1. /\ uheap'.used[p] /\ uheap'.use[p] = <<g, a>>
      /\ \A q \in UserRange : q # p =>
           uheap'.used[q] = uheap.used[q] /\ uheap'.use[q] = uheap.use[q]
  BY <1>0
<1>2. \A k \in Guests, b \in Ipas :
        \/ Walk(kheap', k, b) = Walk(kheap, k, b)
        \/ k = g /\ b = a /\ Walk(kheap', k, b) = Dram(p)
  BY DEF SameWalk, Updates
<1>3. Dram(p).type = "dram" /\ Dram(p).to = p
  BY DEF Dram
<1>4. ASSUME NEW k \in Guests, NEW b \in Ipas, Walk(kheap', k, b).type = "dram"
      PROVE  LET e == Walk(kheap', k, b) IN
             /\ b \in Ram /\ e.to \in UserRange
             /\ uheap'.used[e.to] /\ uheap'.use[e.to] = <<k, b>>
  <2>1. CASE Walk(kheap', k, b) = Walk(kheap, k, b)
    <3> DEFINE e == Walk(kheap, k, b)
    <3>1. /\ b \in Ram /\ e.to \in UserRange
          /\ uheap.used[e.to] /\ uheap.use[e.to] = <<k, b>> /\ e.to # p
      BY <1>4, <2>1, MappedIsOld DEF RamIsOwned
    <3> HIDE DEF e
    <3>2. Walk(kheap', k, b) = e
      BY <2>1 DEF e
    <3> HIDE DEF p
    <3>3. QED
      BY <1>1, <3>1, <3>2
  <2>2. CASE k = g /\ b = a /\ Walk(kheap', k, b) = Dram(p)
    BY <1>0, <1>1, <1>3, <2>2
  <2>3. QED
    BY <1>2, <2>1, <2>2
<1>5. ASSUME NEW k \in Guests, NEW b \in Ram
      PROVE  Walk(kheap', k, b) = NoEntry \/ Walk(kheap', k, b).type = "dram"
  BY <1>2, <1>3, MemoryAssumption DEF RamIsNoDevice
<1>6. QED
  BY <1>4, <1>5 DEF RamIsOwned, RamIsNoDevice

\* TypeOK of an allocated page, whatever is then written into it.
LEMMA TakenType ==
  ASSUME UserType, NEW l \in Guests \X Ram, NEW x \in Data,
         TakenWith(uheap, uheap', l, x), uheap.next \in UserRange
  PROVE  UserType'
<1> DEFINE p == uheap.next
<1>0. uheap' = [uheap EXCEPT !.used[p] = TRUE, !.use[p] = l, !.next = p + 1,
                             !.frame[p] = x]
  BY DEF TakenWith
<1>1. /\ uheap'.used = [uheap.used EXCEPT ![p] = TRUE]
      /\ uheap'.use = [uheap.use EXCEPT ![p] = l]
      /\ uheap'.next = p + 1
      /\ uheap'.frame = [uheap.frame EXCEPT ![p] = x]
      /\ uheap'.full = uheap.full
  BY <1>0 DEF UserType
<1>2. /\ uheap'.used \in [UserRange -> BOOLEAN]
      /\ uheap'.use \in [UserRange -> ({0} \cup Guests) \X ({None} \cup Ram)]
      /\ uheap'.frame \in [UserRange -> Data]
  BY <1>1 DEF UserType
<1>3. uheap'.next \in 1 .. UserPages + 1
  BY <1>1, MemoryAssumption DEF UserRange
<1>4. uheap' \in [used : [UserRange -> BOOLEAN],
                   use : [UserRange -> ({0} \cup Guests) \X ({None} \cup Ram)],
                   next : 1 .. UserPages + 1, frame : [UserRange -> Data],
                   full : BOOLEAN]
  BY <1>0, <1>1, <1>2, <1>3 DEF UserType
<1>5. ASSUME NEW q \in UserRange
      PROVE  uheap'.used[q] <=> q < uheap'.next
  <2>1. q \in Nat /\ p \in Nat
    BY MemoryAssumption DEF UserRange
  <2>2. uheap.used[q] <=> q < p
    BY DEF UserType
  <2>3. uheap.used \in [UserRange -> BOOLEAN]
    BY DEF UserType
  <2>4. uheap'.used[q] <=> (uheap.used[q] \/ q = p)
    BY <1>1, <2>3
  <2>5. (q < p \/ q = p) <=> q < p + 1
    BY <2>1
  <2>6. QED
    BY <1>1, <2>2, <2>4, <2>5
<1>6. QED
  BY <1>4, <1>5 DEF UserType

\* PANIC in umm_zalloc.
LEMMA FullType ==
  ASSUME UserType, uheap' = [uheap EXCEPT !.full = TRUE]
  PROVE  UserType' /\ uheap'.used = uheap.used /\ uheap'.use = uheap.use
         /\ uheap'.full = TRUE
<1>1. /\ uheap'.used = uheap.used /\ uheap'.use = uheap.use
      /\ uheap'.next = uheap.next /\ uheap'.full = TRUE
  BY DEF UserType
<1>2. UserType'
  BY <1>1 DEF UserType
<1>3. QED
  BY <1>1, <1>2

\* A loaded page is a page of memory.
LEMMA LoadedInRam ==
  ASSUME HandlerOK, TypeOK, NEW g \in Guests, NEW k \in 1 .. PagesLoaded(g)
  PROVE  /\ k \in DOMAIN LoadPages[g] /\ LoadPages[g][k] \in Ram
         /\ LoadPages[g][k] \in Ipas
<1>1. LoadPages[g] \in Seq(Ram)
  BY MemoryAssumption
<1>2. Len(LoadPages[g]) \in Nat /\ DOMAIN LoadPages[g] = 1 .. Len(LoadPages[g])
  BY <1>1
<1>3. Loading(g)
  BY DEF PagesLoaded
<1>4. handler.k \in Nat /\ handler.k <= Len(LoadPages[g])
  BY <1>3 DEF Loading, HandlerOK, TypeOK
<1>5. k \in 1 .. handler.k
  BY <1>3 DEF PagesLoaded
<1>6. k \in 1 .. Len(LoadPages[g])
  BY <1>2, <1>4, <1>5
<1>7. LoadPages[g][k] \in Ram
  BY <1>1, <1>6
<1>8. QED
  BY <1>2, <1>6, <1>7, MemoryAssumption

\* What is loaded stays loaded if the guest's translations and the pages they
\* lead to are the same.
LEMMA LoadedKept ==
  ASSUME HandlerOK, TypeOK, NEW g \in Guests, LoadedSoFar(g),
         PagesLoaded(g)' = PagesLoaded(g),
         \A a \in Ipas : Walk(kheap', g, a) = Walk(kheap, g, a),
         \A a \in Ipas : Walk(kheap, g, a).type = "dram" =>
           uheap'.frame[Walk(kheap, g, a).to] = uheap.frame[Walk(kheap, g, a).to]
  PROVE  LoadedSoFar(g)'
<1> DEFINE K == PagesLoaded(g)
<1>1. /\ \A k \in 1 .. K :
            LET e == Walk(kheap, g, LoadPages[g][k]) IN
            e.type = "dram" /\ uheap.frame[e.to] = File[g][k]
      /\ \A a \in Ram : (\A k \in 1 .. K : LoadPages[g][k] # a) =>
            Walk(kheap, g, a) = NoEntry
  BY DEF LoadedSoFar
<1>2. \A k \in 1 .. K : LoadPages[g][k] \in Ipas
  BY LoadedInRam
<1> HIDE DEF K
<1>3. PagesLoaded(g)' = K
  BY DEF K
<1>4. \A k \in 1 .. K :
        LET e == Walk(kheap', g, LoadPages[g][k]) IN
        e.type = "dram" /\ uheap'.frame[e.to] = File[g][k]
  <2> SUFFICES ASSUME NEW k \in 1 .. K
               PROVE  LET e == Walk(kheap', g, LoadPages[g][k]) IN
                      e.type = "dram" /\ uheap'.frame[e.to] = File[g][k]
    OBVIOUS
  <2> DEFINE a == LoadPages[g][k]
  <2>1. a \in Ipas
    BY <1>2
  <2>2. Walk(kheap, g, a).type = "dram"
        /\ uheap.frame[Walk(kheap, g, a).to] = File[g][k]
    BY <1>1
  <2> HIDE DEF a
  <2>3. Walk(kheap', g, a).type = "dram"
        /\ uheap'.frame[Walk(kheap', g, a).to] = File[g][k]
    BY <2>1, <2>2
  <2>4. QED
    BY <2>3 DEF a
<1>5. \A a \in Ram : (\A k \in 1 .. K : LoadPages[g][k] # a) =>
        Walk(kheap', g, a) = NoEntry
  BY <1>1, MemoryAssumption
<1>6. QED
  BY <1>3, <1>4, <1>5 DEF LoadedSoFar

\* Nothing is loaded or stored: what is loaded stays loaded.
LEMMA ProgressKept ==
  ASSUME LoadProgress, HandlerOK, TypeOK,
         SameWalk(kheap, kheap'), uheap'.frame = uheap.frame,
         \A g \in Guests : started'[g] = FALSE =>
           started[g] = FALSE /\ PagesLoaded(g)' = PagesLoaded(g),
         ~Panicked
  PROVE  LoadProgress'
<1> SUFFICES ASSUME NEW g \in Guests, started'[g] = FALSE
             PROVE  LoadedSoFar(g)'
  BY DEF LoadProgress
<1>1. LoadedSoFar(g) /\ PagesLoaded(g)' = PagesLoaded(g)
  BY DEF LoadProgress
<1>2. \A a \in Ipas : Walk(kheap', g, a) = Walk(kheap, g, a)
  BY DEF SameWalk
<1>3. QED
  BY <1>1, <1>2, LoadedKept

\* A page of another guest is new, or changes.
LEMMA OtherGuest ==
  ASSUME MemoryInv, NEW g \in Guests, NEW a \in Ipas, NEW p, NEW x,
         \/ SameWalk(kheap, kheap')
         \/ Updates(kheap, kheap', g, a, Dram(p)),
         uheap'.frame = [uheap.frame EXCEPT ![p] = x],
         \/ p = uheap.next
         \/ p \in UserRange /\ uheap.use[p] = <<g, a>>,
         NEW j \in Guests, j # g, LoadedSoFar(j),
         PagesLoaded(j)' = PagesLoaded(j)
  PROVE  LoadedSoFar(j)'
<1>1. UserType /\ RamIsOwned /\ HandlerOK /\ TypeOK
  BY DEF MemoryInv, TypeOK
<1>2. \A b \in Ipas : Walk(kheap', j, b) = Walk(kheap, j, b)
  BY DEF SameWalk, Updates
<1>3. ASSUME NEW b \in Ipas, Walk(kheap, j, b).type = "dram"
      PROVE  uheap'.frame[Walk(kheap, j, b).to] = uheap.frame[Walk(kheap, j, b).to]
  <2> DEFINE q == Walk(kheap, j, b).to
  <2>1. q # uheap.next /\ q \in UserRange
    BY <1>1, <1>3, MappedIsOld
  <2>2. uheap.use[q] = <<j, b>>
    BY <1>1, <1>3 DEF RamIsOwned
  <2> HIDE DEF q
  <2>3. q # p
    BY <2>1, <2>2
  <2>4. uheap.frame \in [UserRange -> Data]
    BY <1>1 DEF UserType
  <2>5. uheap'.frame[q] = uheap.frame[q]
    BY <2>1, <2>3, <2>4
  <2>6. QED
    BY <2>5 DEF q
<1>4. QED
  BY <1>1, <1>2, <1>3, LoadedKept

\* The next page of an image is loaded where nothing was mapped.
LEMMA OwnLoad ==
  ASSUME MemoryInv, handler.op = "load", NEW g \in Guests, g = handler.g,
         handler.k < Len(LoadPages[g]), LoadedSoFar(g),
         NEW a, a = LoadPages[g][handler.k + 1],
         Updates(kheap, kheap', g, a, Dram(uheap.next)),
         uheap.next \in UserRange,
         uheap'.frame = [uheap.frame EXCEPT ![uheap.next] = File[g][handler.k + 1]],
         handler' = [handler EXCEPT !.k = @ + 1]
  PROVE  LoadedSoFar(g)'
<1> DEFINE n == handler.k
           p == uheap.next
<1>1. UserType /\ RamIsOwned /\ HandlerOK /\ TypeOK
  BY DEF MemoryInv, TypeOK
<1>2. n \in Nat /\ PagesLoaded(g) = n /\ PagesLoaded(g)' = n + 1
  BY <1>1 DEF TypeOK, PagesLoaded, Loading
<1>3. /\ LoadPages[g] \in Seq(Ram) /\ Len(LoadPages[g]) \in Nat
      /\ DOMAIN LoadPages[g] = 1 .. Len(LoadPages[g])
      /\ \A k, l \in DOMAIN LoadPages[g] :
           LoadPages[g][k] = LoadPages[g][l] => k = l
  BY MemoryAssumption
<1>4. n + 1 \in DOMAIN LoadPages[g] /\ 1 .. n \subseteq DOMAIN LoadPages[g]
      /\ 1 .. n + 1 = 1 .. n \cup {n + 1} /\ n + 1 \notin 1 .. n
  BY <1>2, <1>3
<1>5. a \in Ram /\ a \in Ipas
  BY <1>3, <1>4, MemoryAssumption
<1>6. /\ \A k \in 1 .. n :
            LET e == Walk(kheap, g, LoadPages[g][k]) IN
            e.type = "dram" /\ uheap.frame[e.to] = File[g][k]
      /\ \A b \in Ram : (\A k \in 1 .. n : LoadPages[g][k] # b) =>
            Walk(kheap, g, b) = NoEntry
  BY <1>2 DEF LoadedSoFar
<1>7. uheap'.frame[p] = File[g][n + 1]
      /\ \A q \in UserRange : q # p => uheap'.frame[q] = uheap.frame[q]
  BY <1>1 DEF UserType
<1>8. /\ Walk(kheap', g, a) = Dram(p)
      /\ \A b \in Ipas : b # a => Walk(kheap', g, b) = Walk(kheap, g, b)
  BY <1>5 DEF Updates
<1>9. ASSUME NEW k \in 1 .. n
      PROVE  LET e == Walk(kheap', g, LoadPages[g][k]) IN
             e.type = "dram" /\ uheap'.frame[e.to] = File[g][k]
  <2> DEFINE b == LoadPages[g][k]
             q == Walk(kheap, g, b).to
  <2>1. b \in Ipas /\ b # a
    BY <1>3, <1>4, MemoryAssumption
  <2>2. Walk(kheap, g, b).type = "dram" /\ uheap.frame[q] = File[g][k]
    BY <1>6
  <2>3. q # p /\ q \in UserRange
    BY <1>1, <2>1, <2>2, MappedIsOld
  <2>4. Walk(kheap', g, b) = Walk(kheap, g, b)
    BY <1>8, <2>1
  <2>5. uheap'.frame[q] = File[g][k]
    <3> HIDE DEF q
    <3>1. QED
      BY <1>7, <2>2, <2>3
  <2>6. QED
    BY <2>2, <2>4, <2>5
<1>10. LET e == Walk(kheap', g, LoadPages[g][n + 1]) IN
       e.type = "dram" /\ uheap'.frame[e.to] = File[g][n + 1]
  BY <1>7, <1>8 DEF Dram
<1>11. ASSUME NEW b \in Ram, \A k \in 1 .. n + 1 : LoadPages[g][k] # b
       PROVE  Walk(kheap', g, b) = NoEntry
  <2>1. b # a /\ b \in Ipas
    BY <1>4, <1>11, MemoryAssumption
  <2>2. \A k \in 1 .. n : LoadPages[g][k] # b
    BY <1>4, <1>11
  <2>3. QED
    BY <1>6, <1>8, <2>1, <2>2
<1> HIDE DEF n, p
<1>12. \A k \in 1 .. n + 1 :
         LET e == Walk(kheap', g, LoadPages[g][k]) IN
         e.type = "dram" /\ uheap'.frame[e.to] = File[g][k]
  BY <1>4, <1>9, <1>10
<1>13. QED
  BY <1>2, <1>11, <1>12 DEF LoadedSoFar

\* A new page of memory at address a of guest g, or PANIC: HeapOK, the owners.
LEMMA PageMapped ==
  ASSUME MemoryInv, ~Panicked, NEW g \in Guests, NEW a \in Ram, NEW node
  PROVE  LET v == UmmZalloc(uheap, <<g, a>>)
             p == NewFrame(uheap)
             m == MapPage(kheap, g, a, Dram(p))
             n == IF node /\ ~m.full THEN KmmZalloc(m, Object) ELSE m
         IN  ~v.full => /\ p = uheap.next /\ HeapOK(n)
                        /\ SameWalk(kheap, n) \/ Updates(kheap, n, g, a, Dram(p))
                        /\ ~n.full => Updates(kheap, n, g, a, Dram(p))
<1> DEFINE v == UmmZalloc(uheap, <<g, a>>)
           p == NewFrame(uheap)
           e == Dram(p)
           m == MapPage(kheap, g, a, e)
           n == IF node /\ ~m.full THEN KmmZalloc(m, Object) ELSE m
<1>0. SUFFICES ASSUME ~v.full
               PROVE  /\ p = uheap.next /\ HeapOK(n)
                      /\ SameWalk(kheap, n) \/ Updates(kheap, n, g, a, e)
                      /\ ~n.full => Updates(kheap, n, g, a, e)
  OBVIOUS
<1>1. UserType /\ HeapOK(kheap) /\ a \in Ipas
  BY MemoryAssumption DEF MemoryInv, TypeOK
<1>2. kheap.full = FALSE /\ uheap.full = FALSE
  BY <1>1 DEF Panicked, UserType, HeapOK, HeapType
<1>a. NextTaken(uheap, v, <<g, a>>)
  BY <1>1, <1>2, UmmTakes
<1> HIDE DEF v
<1>3. p = uheap.next /\ uheap.next \in UserRange
  BY <1>0, <1>a DEF NextTaken, Taken
<1>4. e \in Entries /\ e.type \in Leaf
  BY <1>3, MemoryAssumption DEF Dram, Entries, Leaf, UserRange
<1> HIDE DEF p, e
<1>5. Mapped(kheap, m, g, a, e)
  BY <1>1, <1>2, <1>4, MapPageUpdates
<1> HIDE DEF m
<1>6. /\ HeapOK(m)
      /\ m.full => SameWalk(kheap, m)
      /\ ~m.full => Updates(kheap, m, g, a, e)
  BY <1>5 DEF Mapped
<1>7. CASE node /\ ~m.full
  <2>1. n = KmmZalloc(m, Object)
    BY <1>7
  <2>2. Object \in Uses /\ m.full = FALSE
    BY <1>6, <1>7 DEF Object, Uses, HeapOK, HeapType
  <2>3. Grown(m, n)
    BY <1>6, <2>1, <2>2, ZallocGrows
  <2> HIDE DEF n
  <2>4. HeapOK(n) /\ SameWalk(m, n)
    BY <2>3 DEF Grown
  <2>5. Updates(kheap, n, g, a, e)
    BY <1>6, <1>7, <2>4 DEF SameWalk, Updates
  <2>6. QED
    BY <1>3, <2>4, <2>5
<1>8. CASE ~(node /\ ~m.full)
  <2>1. n = m
    BY <1>8
  <2>2. QED
    BY <1>3, <1>6, <2>1
<1>9. QED
  BY <1>7, <1>8

LEMMA InitInv == Init => MemoryInv
<1> SUFFICES ASSUME Init PROVE MemoryInv
  OBVIOUS
<1>1. /\ \A g \in Guests : kheap.root[g] = Null /\ started[g] = FALSE
      /\ \A p \in HeapRange : kheap.used[p] = FALSE
      /\ \A p \in UserRange : uheap.used[p] = FALSE
      /\ handler = [op |-> "create", g |-> 1, k |-> 0]
      /\ uheap.next = 1
  BY DEF Init
<1>2. \A g \in Guests, a \in Ipas : Walk(kheap, g, a) = NoEntry
  BY <1>1, WalkNoRoot
<1>3. TypeOK
  <2>1. UserType
    <3>1. uheap \in [used : [UserRange -> BOOLEAN],
                     use : [UserRange -> ({0} \cup Guests) \X ({None} \cup Ram)],
                     next : 1 .. UserPages + 1, frame : [UserRange -> Data],
                     full : BOOLEAN]
      BY MemoryAssumption DEF Init
    <3>a. \A p \in UserRange : ~(p < uheap.next)
      BY <1>1, MemoryAssumption DEF UserRange
    <3>2. \A p \in UserRange : uheap.used[p] <=> p < uheap.next
      BY <1>1, <3>a
    <3>3. QED
      BY <3>1, <3>2 DEF UserType
  <2>2. handler \in [op : {"create", "load", "idle"}, g : 0 .. NrVcpus, k : Nat]
    BY <1>1, MemoryAssumption
  <2>3. started \in [Guests -> BOOLEAN] /\ access \in [Guests -> {None} \cup Ram]
    BY DEF Init
  <2>4. QED
    BY <2>1, <2>2, <2>3 DEF TypeOK
<1>4. HeapOK(kheap)
  <2>1. Object \in Uses /\ Null = 0
    BY DEF Object, Uses, Null
  <2>2. kheap \in [used : [HeapRange -> BOOLEAN], use : [HeapRange -> Uses],
                   table : [HeapRange -> [Index -> Entries]],
                   root : [Guests -> HeapRange \cup {Null}],
                   pages : [Guests -> Nat], full : BOOLEAN]
    BY <2>1, MemoryAssumption DEF Init
  <2>3. \A p \in HeapRange : kheap.used[p] <=> p <= 0
    BY <1>1, MemoryAssumption DEF HeapRange
  <2>4. 0 \in 0 .. HeapPages
    BY MemoryAssumption
  <2>5. HeapType(kheap)
    BY <2>2, <2>3, <2>4 DEF HeapType
  <2>6. TablesAreTrees(kheap)
    BY <1>1 DEF TablesAreTrees
  <2>7. QED
    BY <2>5, <2>6 DEF HeapOK
<1>5. HandlerOK
  <2>1. Len(Devices) \in Nat
    BY MemoryAssumption
  <2>2. \A g \in Guests : access[g] = None
    BY DEF Init
  <2>3. QED
    BY <1>1, <2>1, <2>2, MemoryAssumption DEF HandlerOK, Guests, NrObjects
<1>6. RamIsOwned /\ RamIsNoDevice
  BY <1>2, MemoryAssumption DEF RamIsOwned, RamIsNoDevice, NoEntry
<1>7. LoadProgress
  <2>1. \A g \in Guests : 1 .. PagesLoaded(g) = {}
    BY <1>1 DEF PagesLoaded, Loading
  <2>2. QED
    BY <1>2, <2>1, MemoryAssumption DEF LoadProgress, LoadedSoFar
<1>8. QED
  BY <1>3, <1>4, <1>5, <1>6, <1>7 DEF MemoryInv

\* What the steps have in common, taken out of the invariant.
LEMMA InvParts ==
  ASSUME MemoryInv
  PROVE  /\ TypeOK /\ UserType /\ HeapOK(kheap) /\ HeapType(kheap) /\ HandlerOK
         /\ RamIsOwned /\ RamIsNoDevice /\ LoadProgress
         /\ handler \in [op : {"create", "load", "idle"}, g : 0 .. NrVcpus, k : Nat]
         /\ kheap.full \in BOOLEAN /\ uheap.full \in BOOLEAN
BY DEF MemoryInv, TypeOK, HeapOK, HeapType, UserType

\* A step that changes no translation and none of the guests' pages.
LEMMA QuietStep ==
  ASSUME MemoryInv, ~Panicked, HeapOK(kheap'), SameWalk(kheap, kheap'),
         UNCHANGED uheap, TypeOK', HandlerOK',
         \A g \in Guests : started'[g] = FALSE =>
           started[g] = FALSE /\ PagesLoaded(g)' = PagesLoaded(g)
  PROVE  MemoryInv'
<1>1. RamIsOwned' /\ RamIsNoDevice'
  BY InvParts, OwnersKept
<1>2. LoadProgress'
  BY InvParts, ProgressKept
<1>3. QED
  BY <1>1, <1>2 DEF MemoryInv

LEMMA CreateObjectStep ==
  ASSUME MemoryInv, ~Panicked, CreateObject
  PROVE  MemoryInv'
<1>1. /\ handler.op = "create" /\ handler.k < NrObjects
      /\ handler' = [handler EXCEPT !.k = @ + 1]
      /\ kheap' = KmmZalloc(kheap, Object)
      /\ UNCHANGED <<uheap, started, access>>
  BY DEF CreateObject
<1>2. kheap.full = FALSE /\ Object \in Uses
  BY InvParts DEF Panicked, Object, Uses
<1>3. Grown(kheap, kheap')
  BY <1>1, <1>2, InvParts, ZallocGrows
<1>4. HeapOK(kheap') /\ SameWalk(kheap, kheap')
  BY <1>3 DEF Grown
<1>5. handler.k \in Nat /\ Len(Devices) \in Nat
  BY InvParts, MemoryAssumption
<1>6. TypeOK'
  BY <1>1, <1>5, InvParts DEF TypeOK, UserType
<1>7. handler'.op = "create" /\ handler'.g = handler.g
      /\ handler'.k = handler.k + 1
  BY <1>1, InvParts
<1>8. handler'.k <= NrObjects + Len(Devices)
  BY <1>1, <1>5, <1>7 DEF NrObjects
<1>9. HandlerOK'
  BY <1>1, <1>7, <1>8, InvParts DEF HandlerOK
<1>10. \A g \in Guests : started' = started /\ PagesLoaded(g)' = PagesLoaded(g)
  BY <1>1, <1>7 DEF PagesLoaded, Loading
<1>11. QED
  BY <1>1, <1>4, <1>6, <1>9, <1>10, QuietStep

LEMMA CreateEndStep ==
  ASSUME MemoryInv, ~Panicked, CreateEnd
  PROVE  MemoryInv'
<1>1. /\ handler.op = "create"
      /\ handler' = IF handler.g < NrVcpus
                    THEN [op |-> "create", g |-> handler.g + 1, k |-> 0]
                    ELSE Idle
      /\ UNCHANGED <<kheap, uheap, started, access>>
  BY DEF CreateEnd
<1>2. HeapOK(kheap') /\ SameWalk(kheap, kheap')
  BY <1>1, InvParts DEF SameWalk
<1>3. handler.g \in Guests /\ NrVcpus \in Nat /\ Len(Devices) \in Nat
  BY <1>1, InvParts, MemoryAssumption DEF HandlerOK
<1>4. /\ handler'.op \in {"create", "idle"} /\ handler'.g \in 0 .. NrVcpus
      /\ handler'.k = 0
      /\ handler'.op = "create" => handler'.g \in Guests
      /\ handler' \in [op : {"create", "load", "idle"}, g : 0 .. NrVcpus, k : Nat]
  BY <1>1, <1>3 DEF Guests, Idle
<1>5. TypeOK'
  BY <1>1, <1>4, InvParts DEF TypeOK, UserType
<1>a. 0 <= NrObjects + Len(Devices)
  BY <1>3 DEF NrObjects
<1>b. /\ \A g \in Guests : started[g] = FALSE
      /\ \A g \in Guests : access[g] # None => started[g] = TRUE
  BY <1>1, InvParts DEF HandlerOK
<1>6. HandlerOK'
  BY <1>1, <1>4, <1>a, <1>b DEF HandlerOK
<1>7. \A g \in Guests : started' = started /\ PagesLoaded(g)' = PagesLoaded(g)
  BY <1>1, <1>4 DEF PagesLoaded, Loading
<1>8. QED
  BY <1>1, <1>2, <1>5, <1>6, <1>7, QuietStep

LEMMA LoadStartStep ==
  ASSUME MemoryInv, ~Panicked, NEW g \in Guests, LoadStart(g)
  PROVE  MemoryInv'
<1>1. /\ handler.op = "idle" /\ started[g] = FALSE
      /\ handler' = [op |-> "load", g |-> g, k |-> 0]
      /\ UNCHANGED <<kheap, uheap, started, access>>
  BY DEF LoadStart
<1>2. HeapOK(kheap') /\ SameWalk(kheap, kheap')
  BY <1>1, InvParts DEF SameWalk
<1>3. LoadPages[g] \in Seq(Ram) /\ NrVcpus \in Nat
  BY MemoryAssumption
<1>4. TypeOK'
  BY <1>1, <1>3, InvParts DEF TypeOK, UserType, Guests
<1>a. 0 <= Len(LoadPages[g])
  BY <1>3
<1>b. \A j \in Guests : access[j] # None => started[j] = TRUE
  BY InvParts DEF HandlerOK
<1>5. HandlerOK'
  BY <1>1, <1>a, <1>b DEF HandlerOK
<1>6. \A j \in Guests : PagesLoaded(j)' = PagesLoaded(j)
  BY <1>1 DEF PagesLoaded, Loading
<1>7. QED
  BY <1>1, <1>2, <1>4, <1>5, <1>6, QuietStep

LEMMA LoadEndStep ==
  ASSUME MemoryInv, ~Panicked, LoadEnd
  PROVE  MemoryInv'
<1>1. /\ handler.op = "load" /\ handler' = Idle
      /\ started' = [started EXCEPT ![handler.g] = TRUE]
      /\ UNCHANGED <<kheap, uheap, access>>
  BY DEF LoadEnd
<1>2. HeapOK(kheap') /\ SameWalk(kheap, kheap')
  BY <1>1, InvParts DEF SameWalk
<1>3. handler.g \in Guests /\ NrVcpus \in Nat /\ started \in [Guests -> BOOLEAN]
  BY <1>1, InvParts, MemoryAssumption DEF HandlerOK, TypeOK
<1>4. TypeOK'
  BY <1>1, <1>3, InvParts DEF TypeOK, UserType, Idle
<1>5. HandlerOK'
  BY <1>1, <1>3, InvParts DEF HandlerOK, Idle
<1>6. \A j \in Guests : started'[j] = FALSE =>
        started[j] = FALSE /\ PagesLoaded(j)' = PagesLoaded(j)
  BY <1>1, <1>3 DEF PagesLoaded, Loading, Idle
<1>7. QED
  BY <1>1, <1>2, <1>4, <1>5, <1>6, QuietStep

LEMMA AccessStep ==
  ASSUME MemoryInv, ~Panicked, NEW g \in Guests, Access(g)
  PROVE  MemoryInv'
<1>1. PICK a \in Ram : access' = [access EXCEPT ![g] = a]
  BY DEF Access
<1>2. /\ handler.op = "idle" /\ started[g] = TRUE
      /\ UNCHANGED <<kheap, uheap, handler, started>>
  BY DEF Access, Runs
<1>3. HeapOK(kheap') /\ SameWalk(kheap, kheap')
  BY <1>2, InvParts DEF SameWalk
<1>4. TypeOK'
  BY <1>1, <1>2, InvParts DEF TypeOK, UserType
<1>5. HandlerOK'
  BY <1>1, <1>2, InvParts DEF HandlerOK, TypeOK
<1>6. \A j \in Guests : PagesLoaded(j)' = PagesLoaded(j)
  BY <1>2 DEF PagesLoaded, Loading
<1>7. QED
  BY <1>2, <1>3, <1>4, <1>5, <1>6, QuietStep

LEMMA MapDeviceStep ==
  ASSUME MemoryInv, ~Panicked, MapNewDevicePage
  PROVE  MemoryInv'
<1> DEFINE g == handler.g
           k == handler.k - NrObjects + 1
           a == Devices[k].ipa
           e == DeviceEntry(k)
<1>1. /\ handler.op = "create" /\ handler.k >= NrObjects
      /\ handler.k - NrObjects < Len(Devices)
      /\ kheap' = MapPage(kheap, g, a, e)
      /\ handler' = [handler EXCEPT !.k = @ + 1]
      /\ UNCHANGED <<uheap, started, access>>
  BY DEF MapNewDevicePage
<1>2. /\ handler.k \in Nat /\ Len(Devices) \in Nat /\ g \in Guests
      /\ DOMAIN Devices = 1 .. Len(Devices)
      /\ Devices \in Seq([ipa : Ipas \ Ram, pa : Nat, type : {"emulated", "direct"}])
  BY <1>1, InvParts, MemoryAssumption DEF HandlerOK
<1>3. k \in 1 .. Len(Devices) /\ handler.k + 1 <= NrObjects + Len(Devices)
  <2>1. handler.k >= NrObjects /\ handler.k - NrObjects < Len(Devices)
    BY <1>1
  <2>2. handler.k \in Nat /\ Len(Devices) \in Nat /\ NrObjects = 6
    BY <1>2 DEF NrObjects
  <2>3. QED
    BY <2>1, <2>2
<1>4. Devices[k] \in [ipa : Ipas \ Ram, pa : Nat, type : {"emulated", "direct"}]
  <2> DEFINE S == [ipa : Ipas \ Ram, pa : Nat, type : {"emulated", "direct"}]
  <2>1. Devices \in Seq(S)
    BY <1>2
  <2> HIDE DEF S, k
  <2>2. Devices[k] \in S
    BY <1>3, <2>1
  <2>3. QED
    BY <2>2 DEF S
<1>5. /\ a \in Ipas /\ a \notin Ram /\ e \in Entries /\ e.type \in Leaf
      /\ e.type # "dram"
  BY <1>4 DEF DeviceEntry, Entries, Leaf
<1>6. kheap.full = FALSE /\ HeapOK(kheap)
  BY InvParts DEF Panicked
<1> HIDE DEF a, e, k, g
<1>7. Mapped(kheap, kheap', g, a, e)
  BY <1>1, <1>2, <1>5, <1>6, MapPageUpdates
<1>8. /\ HeapOK(kheap')
      /\ SameWalk(kheap, kheap') \/ Updates(kheap, kheap', g, a, e)
      /\ kheap'.full \in BOOLEAN
  BY <1>7 DEF Mapped, HeapOK, HeapType
<1>9. \A j \in Guests, b \in Ipas :
        \/ Walk(kheap', j, b) = Walk(kheap, j, b)
        \/ b = a /\ Walk(kheap', j, b) = e
  BY <1>8 DEF SameWalk, Updates
<1>a. /\ handler' = [handler EXCEPT !.k = @ + 1]
      /\ UNCHANGED <<uheap, started, access>>
  BY <1>1
<1>10. TypeOK'
  BY <1>2, <1>a, InvParts DEF TypeOK, UserType
<1>11. handler'.op = "create" /\ handler'.g = handler.g
       /\ handler'.k = handler.k + 1
  BY <1>1, InvParts
<1>12. HandlerOK'
  <2>1. handler'.k <= NrObjects + Len(Devices)
    BY <1>3, <1>11
  <2>2. QED
    BY <1>1, <1>11, <2>1, InvParts DEF HandlerOK
<1>13. RamIsOwned'
  BY <1>1, <1>5, <1>9, InvParts DEF RamIsOwned
<1>14. \A j \in Guests, b \in Ram : Walk(kheap', j, b) = Walk(kheap, j, b)
  BY <1>5, <1>9, MemoryAssumption
<1>15. RamIsNoDevice'
  BY <1>14, InvParts DEF RamIsNoDevice
<1>16. ASSUME NEW j \in Guests PROVE LoadedSoFar(j)'
  <2>1. PagesLoaded(j)' = 0 /\ PagesLoaded(j) = 0 /\ started[j] = FALSE
    BY <1>1, <1>11, InvParts DEF PagesLoaded, Loading, HandlerOK
  <2>2. LoadedSoFar(j)
    BY <2>1, InvParts DEF LoadProgress
  <2>3. \A b \in Ram : Walk(kheap', j, b) = NoEntry
    BY <1>14, <2>1, <2>2 DEF LoadedSoFar
  <2>4. 1 .. PagesLoaded(j)' = {}
    BY <2>1
  <2>5. QED
    BY <2>3, <2>4 DEF LoadedSoFar
<1>17. LoadProgress'
  BY <1>16 DEF LoadProgress
<1>18. QED
  BY <1>8, <1>10, <1>12, <1>13, <1>15, <1>17 DEF MemoryInv

LEMMA CompleteStep ==
  ASSUME MemoryInv, ~Panicked, NEW g \in Guests, Complete(g)
  PROVE  MemoryInv'
<1> DEFINE a == Stage1[g][access[g]]
           p == Entry(g).to
<1>1. PICK x \in Data : uheap' = [uheap EXCEPT !.frame[p] = x]
  BY DEF Complete
<1>2. /\ handler.op = "idle" /\ started[g] = TRUE /\ access[g] # None
      /\ Walk(kheap, g, a).type = "dram"
      /\ access' = [access EXCEPT ![g] = None]
      /\ UNCHANGED <<kheap, handler, started>>
  BY DEF Complete, Runs, Entry
<1>3. a \in Ram /\ a \in Ipas
  BY <1>2, InvParts, MemoryAssumption DEF TypeOK
<1>4. p \in UserRange /\ uheap.use[p] = <<g, a>>
  BY <1>2, <1>3, InvParts DEF RamIsOwned, Entry
<1> HIDE DEF a, p
<1>5. /\ uheap'.used = uheap.used /\ uheap'.use = uheap.use
      /\ uheap'.next = uheap.next /\ uheap'.full = uheap.full
      /\ uheap'.frame = [uheap.frame EXCEPT ![p] = x]
      /\ UserType'
  BY <1>1, <1>4, InvParts DEF UserType
<1>6. TypeOK'
  BY <1>2, <1>5, InvParts DEF TypeOK
<1>7. HandlerOK'
  BY <1>2, InvParts DEF HandlerOK, TypeOK
<1>8. SameWalk(kheap, kheap') /\ HeapOK(kheap')
  BY <1>2, InvParts DEF SameWalk
<1>9. RamIsOwned' /\ RamIsNoDevice'
  BY <1>5, <1>8, InvParts, OwnersKept
<1>10. ASSUME NEW j \in Guests, started'[j] = FALSE
       PROVE  LoadedSoFar(j)'
  <2>1. j # g /\ LoadedSoFar(j)
    BY <1>2, <1>10, InvParts DEF LoadProgress
  <2>2. PagesLoaded(j)' = PagesLoaded(j)
    BY <1>2 DEF PagesLoaded, Loading
  <2>3. QED
    BY <1>3, <1>4, <1>5, <1>8, <2>1, <2>2, OtherGuest
<1>11. LoadProgress'
  BY <1>10 DEF LoadProgress
<1>12. QED
  BY <1>6, <1>7, <1>8, <1>9, <1>11 DEF MemoryInv

\* PANIC in umm_zalloc: nothing is mapped.
LEMMA NoPageStep ==
  ASSUME MemoryInv, ~Panicked, uheap' = [uheap EXCEPT !.full = TRUE],
         UNCHANGED kheap, TypeOK', HandlerOK'
  PROVE  MemoryInv'
<1>1. UserType /\ HeapOK(kheap)
  BY InvParts
<1>2. uheap'.used = uheap.used /\ uheap'.use = uheap.use /\ uheap'.full
  BY <1>1, FullType
<1>3. SameWalk(kheap, kheap') /\ HeapOK(kheap')
  BY <1>1 DEF SameWalk
<1>4. RamIsOwned' /\ RamIsNoDevice'
  BY <1>2, <1>3, InvParts, OwnersKept
<1>5. LoadProgress'
  BY <1>2 DEF LoadProgress, Panicked
<1>6. QED
  BY <1>3, <1>4, <1>5 DEF MemoryInv

LEMMA FaultStep ==
  ASSUME MemoryInv, ~Panicked, NEW g \in Guests,
         HandleMmTrapMemoryAccessFault(g)
  PROVE  MemoryInv'
<1> DEFINE a == access[g]
           l == <<g, a>>
           v == UmmZalloc(uheap, l)
           p == NewFrame(uheap)
           n == MapPage(kheap, g, a, Dram(p))
<1>1. /\ handler.op = "idle" /\ started[g] = TRUE /\ a # None
      /\ uheap' = v /\ kheap' = IF v.full THEN kheap ELSE n
      /\ UNCHANGED <<handler, started, access>>
  BY DEF HandleMmTrapMemoryAccessFault, Runs
<1>2. a \in Ram /\ a \in Ipas /\ l \in Guests \X Ram
  BY <1>1, InvParts, MemoryAssumption DEF TypeOK
<1>3. UserType /\ uheap.full = FALSE
  BY InvParts DEF Panicked
<1>4. NextTaken(uheap, v, l)
  BY <1>3, UmmTakes
<1>5. ~v.full => /\ p = uheap.next /\ HeapOK(n)
                 /\ SameWalk(kheap, n) \/ Updates(kheap, n, g, a, Dram(p))
  BY <1>2, PageMapped
<1> HIDE DEF v, p, n, l, a
<1>6. HandlerOK'
  BY <1>1, InvParts DEF HandlerOK
<1>7. CASE v.full
  <2>1. uheap' = [uheap EXCEPT !.full = TRUE] /\ UNCHANGED kheap
    BY <1>1, <1>4, <1>7 DEF NextTaken
  <2>2. UserType'
    BY <1>3, <2>1, FullType
  <2>3. TypeOK'
    BY <1>1, <2>2, InvParts DEF TypeOK
  <2>4. QED
    BY <1>6, <2>1, <2>3, NoPageStep
<1>8. CASE ~v.full
  <2>1. /\ Taken(uheap, uheap', l) /\ uheap.next \in UserRange
        /\ TakenWith(uheap, uheap', l, Zero)
    BY <1>1, <1>4, <1>8 DEF NextTaken, Taken
  <2>2. /\ p = uheap.next /\ HeapOK(kheap')
        /\ \/ SameWalk(kheap, kheap')
           \/ Updates(kheap, kheap', g, a, Dram(uheap.next))
    BY <1>1, <1>5, <1>8
  <2>3. UserType'
    <3>1. Zero \in Data
      BY MemoryAssumption
    <3>2. QED
      BY <1>2, <1>3, <2>1, <3>1, TakenType
  <2>4. TypeOK'
    BY <1>1, <2>3, InvParts DEF TypeOK
  <2>5. RamIsOwned' /\ RamIsNoDevice'
    <3>1. Taken(uheap, uheap', <<g, a>>)
      BY <2>1 DEF l
    <3>2. QED
      BY <1>2, <2>2, <3>1, InvParts, OwnersGrow
  <2>6. uheap'.frame = [uheap.frame EXCEPT ![uheap.next] = Zero]
    BY <1>3, <2>1 DEF UserType, TakenWith
  <2>7. ASSUME NEW j \in Guests, started'[j] = FALSE
        PROVE  LoadedSoFar(j)'
    <3>1. j # g /\ LoadedSoFar(j)
      BY <1>1, <2>7, InvParts DEF LoadProgress
    <3>2. PagesLoaded(j)' = PagesLoaded(j)
      BY <1>1 DEF PagesLoaded, Loading
    <3>3. QED
      BY <1>2, <2>2, <2>6, <3>1, <3>2, OtherGuest
  <2>8. LoadProgress'
    BY <2>7 DEF LoadProgress
  <2>9. QED
    BY <1>6, <2>2, <2>4, <2>5, <2>8 DEF MemoryInv
<1>9. QED
  BY <1>7, <1>8

LEMMA LoadPageStep ==
  ASSUME MemoryInv, ~Panicked, NEW node, LoadPage(node)
  PROVE  MemoryInv'
<1> DEFINE g == handler.g
           k == handler.k + 1
           a == LoadPages[g][k]
           l == <<g, a>>
           v == UmmZalloc(uheap, l)
           p == NewFrame(uheap)
           m == MapPage(kheap, g, a, Dram(p))
           n == IF node /\ ~m.full THEN KmmZalloc(m, Object) ELSE m
           x == File[g][k]
<1>1. /\ handler.op = "load" /\ handler.k < Len(LoadPages[g])
      /\ v.full => uheap' = v /\ UNCHANGED kheap
      /\ ~v.full => uheap' = [v EXCEPT !.frame[p] = x] /\ kheap' = n
      /\ handler' = [handler EXCEPT !.k = @ + 1]
      /\ UNCHANGED <<started, access>>
  BY DEF LoadPage
<1>2. /\ g \in Guests /\ handler.k \in Nat /\ started[g] = FALSE
      /\ Len(LoadPages[g]) \in Nat
  <2>1. g \in Guests /\ handler.k \in Nat /\ started[g] = FALSE
    BY <1>1, InvParts DEF HandlerOK
  <2>2. LoadPages[g] \in Seq(Ram)
    BY <2>1, MemoryAssumption
  <2>3. QED
    BY <2>1, <2>2
<1>3. k \in 1 .. Len(LoadPages[g])
  <2>1. handler.k < Len(LoadPages[g])
    BY <1>1
  <2>2. QED
    BY <1>2, <2>1
<1>4. a \in Ram /\ a \in Ipas /\ x \in Data
  BY <1>2, <1>3, MemoryAssumption
<1>5. UserType /\ uheap.full = FALSE /\ l \in Guests \X Ram
  BY <1>2, <1>4, InvParts DEF Panicked
<1>6. NextTaken(uheap, v, l)
  BY <1>5, UmmTakes
<1>7. ~v.full => /\ p = uheap.next /\ HeapOK(n)
                 /\ SameWalk(kheap, n) \/ Updates(kheap, n, g, a, Dram(p))
                 /\ ~n.full => Updates(kheap, n, g, a, Dram(p))
  BY <1>2, <1>4, PageMapped
<1>8. /\ handler'.op = "load" /\ handler'.g = g /\ handler'.k = k
      /\ handler' \in [op : {"create", "load", "idle"}, g : 0 .. NrVcpus, k : Nat]
  BY <1>1, <1>2, InvParts
<1>a. k <= Len(LoadPages[g])
  BY <1>2, <1>3
<1>b. \A j \in Guests : access[j] # None => started[j] = TRUE
  BY InvParts DEF HandlerOK
<1>9. HandlerOK'
  <2>1. UNCHANGED <<started, access>>
    BY <1>1
  <2> HIDE DEF k
  <2>2. QED
    BY <1>2, <1>8, <1>a, <1>b, <2>1 DEF HandlerOK
<1> HIDE DEF v, p, n, l, x, m
<1>10. CASE v.full
  <2>1. uheap' = [uheap EXCEPT !.full = TRUE] /\ UNCHANGED kheap
    BY <1>1, <1>6, <1>10 DEF NextTaken
  <2>2. UserType'
    BY <1>5, <2>1, FullType
  <2>3. TypeOK'
    BY <1>1, <1>8, <2>2, InvParts DEF TypeOK
  <2>4. QED
    BY <1>9, <2>1, <2>3, NoPageStep
<1>11. CASE ~v.full
  <2>1. /\ Taken(uheap, v, l) /\ uheap.next \in UserRange
        /\ TakenWith(uheap, v, l, Zero)
    BY <1>6, <1>11 DEF NextTaken, Taken
  <2>2. /\ p = uheap.next /\ HeapOK(kheap')
        /\ uheap' = [v EXCEPT !.frame[uheap.next] = x]
        /\ \/ SameWalk(kheap, kheap')
           \/ Updates(kheap, kheap', g, a, Dram(uheap.next))
        /\ ~kheap'.full => Updates(kheap, kheap', g, a, Dram(uheap.next))
    BY <1>1, <1>7, <1>11
  <2>3. TakenWith(uheap, uheap', l, x)
    BY <1>5, <2>1, <2>2 DEF UserType, TakenWith
  <2>4. UserType'
    BY <1>4, <1>5, <2>1, <2>3, TakenType
  <2>5. TypeOK'
    BY <1>1, <1>8, <2>4, InvParts DEF TypeOK
  <2>6. Taken(uheap, uheap', <<g, a>>)
        /\ uheap'.frame = [uheap.frame EXCEPT ![uheap.next] = x]
    BY <1>5, <2>1, <2>3 DEF UserType, Taken, TakenWith, l
  <2> HIDE DEF a
  <2>7. RamIsOwned' /\ RamIsNoDevice'
    BY <1>2, <1>4, <2>2, <2>6, InvParts, OwnersGrow
  <2>8. ASSUME NEW j \in Guests, started'[j] = FALSE, ~Panicked'
        PROVE  LoadedSoFar(j)'
    <3>1. LoadedSoFar(j)
      BY <1>1, <2>8, InvParts DEF LoadProgress
    <3>2. CASE j # g
      <4>1. PagesLoaded(j)' = PagesLoaded(j)
        BY <1>8, <3>2 DEF PagesLoaded, Loading
      <4>2. SameWalk(kheap, kheap')
            \/ Updates(kheap, kheap', g, a, Dram(uheap.next))
        BY <2>2
      <4>3. uheap'.frame = [uheap.frame EXCEPT ![uheap.next] = x]
        BY <2>6
      <4> DEFINE q == uheap.next
      <4> HIDE DEF g, k, q
      <4>4. QED
        BY <1>2, <1>4, <3>1, <3>2, <4>1, <4>2, <4>3, OtherGuest DEF q
    <3>3. CASE j = g
      <4>1. Updates(kheap, kheap', j, a, Dram(uheap.next))
        BY <2>2, <2>8, <3>3 DEF Panicked
      <4>2. a = LoadPages[j][handler.k + 1]
            /\ uheap'.frame = [uheap.frame EXCEPT ![uheap.next] = File[j][handler.k + 1]]
        BY <2>6, <3>3 DEF a, x
      <4>3. j = handler.g /\ handler.k < Len(LoadPages[j])
        BY <1>1, <3>3
      <4>4. QED
        BY <1>1, <2>1, <3>1, <4>1, <4>2, <4>3, OwnLoad
    <3>4. QED
      BY <3>2, <3>3
  <2>9. LoadProgress'
    BY <2>8 DEF LoadProgress
  <2>10. QED
    BY <1>9, <2>2, <2>5, <2>7, <2>9 DEF MemoryInv
<1>12. QED
  BY <1>10, <1>11

LEMMA StutterStep ==
  ASSUME MemoryInv, UNCHANGED vars
  PROVE  MemoryInv'
BY DEF MemoryInv, TypeOK, UserType, HandlerOK, RamIsOwned, RamIsNoDevice,
       LoadProgress, LoadedSoFar, PagesLoaded, Loading, Panicked, vars

LEMMA InvStep == MemoryInv /\ [Next]_vars => MemoryInv'
<1> SUFFICES ASSUME MemoryInv, [Next]_vars
             PROVE  MemoryInv'
  OBVIOUS
<1>1. CASE ~Panicked /\ Hypervisor
  <2> DEFINE yes == TRUE
             no == FALSE
  <2>1. LoadPage(yes) \/ LoadPage(no) => MemoryInv'
    <3> HIDE DEF yes, no
    <3>1. QED
      BY <1>1, LoadPageStep
  <2>2. CreateObject => MemoryInv'
    BY <1>1, CreateObjectStep
  <2>3. MapNewDevicePage => MemoryInv'
    BY <1>1, MapDeviceStep
  <2>4. CreateEnd \/ LoadEnd => MemoryInv'
    BY <1>1, CreateEndStep, LoadEndStep
  <2>5. QED
    BY <1>1, <2>1, <2>2, <2>3, <2>4, Zenon DEF Hypervisor
<1>2. CASE \E g \in Guests : ~Panicked /\ (LoadStart(g) \/ Access(g) \/ Guest(g))
  BY <1>2, LoadStartStep, AccessStep, CompleteStep, FaultStep DEF Guest
<1>3. CASE Halted
  BY <1>3, StutterStep DEF Halted
<1>4. CASE UNCHANGED vars
  BY <1>4, StutterStep
<1>5. QED
  BY <1>1, <1>2, <1>3, <1>4 DEF Next

\* Types, disjoint trees of tables, pages with one owner, and images loaded
\* page by page (kmm_malloc.cc, umm_malloc.cc, pgtable_stage2.cc, loader.cc).
THEOREM MemoryIsSafe == Spec => []MemoryInv
BY InitInv, InvStep, PTL DEF Spec

\* A page of memory is mapped at one address of one guest: no guest can reach
\* another's memory, and none has two names for a page.
THEOREM PagesPrivate == Spec => []PagesArePrivate
<1>1. MemoryInv => PagesArePrivate
  <2> SUFFICES ASSUME RamIsOwned,
                      NEW g \in Guests, NEW h \in Guests,
                      NEW a \in Ipas, NEW b \in Ipas,
                      Walk(kheap, g, a).type = "dram",
                      Walk(kheap, h, b).type = "dram",
                      Walk(kheap, g, a).to = Walk(kheap, h, b).to
               PROVE  g = h /\ a = b
    BY InvParts DEF PagesArePrivate
  <2>1. /\ uheap.use[Walk(kheap, g, a).to] = <<g, a>>
        /\ uheap.use[Walk(kheap, h, b).to] = <<h, b>>
    BY DEF RamIsOwned
  <2>2. <<g, a>> = <<h, b>>
    BY <2>1
  <2>3. QED
    BY <2>2
<1>2. QED
  BY MemoryIsSafe, <1>1, PTL

-----------------------------------------------------------------------------
(***************************************************************************)
(* The board's pages                                                       *)
(***************************************************************************)

LEMMA DevicePages ==
  /\ Len(Devices) \in Nat /\ DOMAIN Devices = 1 .. Len(Devices)
  /\ \A k \in 1 .. Len(Devices) :
       /\ Devices[k].ipa \in Ipas \ Ram
       /\ DeviceEntry(k) \in Entries /\ DeviceEntry(k).type \in Leaf
  /\ \A k, l \in 1 .. Len(Devices) : Devices[k].ipa = Devices[l].ipa => k = l
<1> DEFINE S == [ipa : Ipas \ Ram, pa : Nat, type : {"emulated", "direct"}]
<1>1. Devices \in Seq(S)
  BY MemoryAssumption
<1> HIDE DEF S
<1>2. Len(Devices) \in Nat /\ DOMAIN Devices = 1 .. Len(Devices)
      /\ \A k \in 1 .. Len(Devices) : Devices[k] \in S
  BY <1>1
<1>3. \A k \in 1 .. Len(Devices) :
        /\ Devices[k].ipa \in Ipas \ Ram
        /\ DeviceEntry(k) \in Entries /\ DeviceEntry(k).type \in Leaf
  BY <1>2 DEF S, DeviceEntry, Entries, Leaf
<1>4. QED
  BY <1>2, <1>3, MemoryAssumption

\* A device page is mapped next to those that are.
DeviceMapped(g, n) ==
  /\ handler.op = "create" /\ handler'.op = "create"
  /\ Mapped(kheap, kheap', g, Devices[n].ipa, DeviceEntry(n))
  /\ Moved(kheap, kheap', g, Devices[n].ipa, DeviceEntry(n))
  /\ DevicesMapped(g) = n - 1 /\ DevicesMapped(g)' = n
  /\ \A j \in Guests : j # g => DevicesMapped(j)' = DevicesMapped(j)

LEMMA DeviceIsMapped ==
  ASSUME MemoryInv, ~Panicked, MapNewDevicePage
  PROVE  \E g \in Guests, n \in 1 .. Len(Devices) : DeviceMapped(g, n)
<1> DEFINE g == handler.g
           n == handler.k - NrObjects + 1
<1>1. /\ handler.op = "create" /\ handler.k >= NrObjects
      /\ handler.k - NrObjects < Len(Devices)
      /\ kheap' = MapPage(kheap, g, Devices[n].ipa, DeviceEntry(n))
      /\ handler' = [handler EXCEPT !.k = @ + 1]
  BY DEF MapNewDevicePage
<1>2. g \in Guests /\ handler.k \in Nat /\ NrObjects = 6 /\ Guests \subseteq Nat
  BY <1>1, InvParts, MemoryAssumption DEF HandlerOK, NrObjects, Guests
<1>3. n \in 1 .. Len(Devices)
  BY <1>1, <1>2, DevicePages
<1>4. handler'.op = "create" /\ handler'.g = g /\ handler'.k = handler.k + 1
  BY <1>1, InvParts
<1>a. PICK g0 \in Guests, n0 \in 1 .. Len(Devices) : g0 = g /\ n0 = n
  BY <1>2, <1>3
<1>b. /\ handler.g = g0 /\ handler'.g = g0 /\ n0 \in Nat /\ n0 >= 1
      /\ handler.k = n0 + 5 /\ handler'.k = n0 + 6 /\ g0 \in Nat
  <2>1. n0 = handler.k - 6 + 1 /\ n0 \in Nat /\ n0 >= 1
    BY <1>2, <1>a, DevicePages
  <2>2. handler.k = n0 + 5 /\ g0 \in Nat
    BY <1>2, <2>1
  <2>3. handler.g = g0 /\ handler'.g = g0
    BY <1>4, <1>a
  <2>4. handler'.k = n0 + 6
    <3>1. handler'.k = handler.k + 1
      BY <1>4
    <3>2. QED
      BY <2>1, <2>2, <3>1
  <2>5. QED
    BY <2>1, <2>2, <2>3, <2>4
<1>5. DevicesMapped(g0) = n0 - 1 /\ DevicesMapped(g0)' = n0
  <2>1. DevicesMapped(g0)' = n0
    BY <1>2, <1>4, <1>b DEF DevicesMapped
  <2>2. DevicesMapped(g0) = n0 - 1
    BY <1>1, <1>2, <1>b DEF DevicesMapped
  <2>3. QED
    BY <2>1, <2>2
<1>6. \A j \in Guests : j # g0 => DevicesMapped(j)' = DevicesMapped(j)
  BY <1>1, <1>2, <1>4, <1>a DEF DevicesMapped
<1> HIDE DEF n, g
<1>7. /\ Mapped(kheap, kheap', g0, Devices[n0].ipa, DeviceEntry(n0))
      /\ Moved(kheap, kheap', g0, Devices[n0].ipa, DeviceEntry(n0))
  <2>1. kheap.full = FALSE /\ HeapOK(kheap)
    BY InvParts DEF Panicked
  <2>2. /\ Devices[n0].ipa \in Ipas /\ DeviceEntry(n0) \in Entries
        /\ DeviceEntry(n0).type \in Leaf
    BY DevicePages
  <2>3. kheap' = MapPage(kheap, g0, Devices[n0].ipa, DeviceEntry(n0))
    BY <1>1, <1>a
  <2>4. QED
    BY <2>1, <2>2, <2>3, MapPageUpdates, MapPageMoves
<1>8. QED
  BY <1>1, <1>4, <1>5, <1>6, <1>7 DEF DeviceMapped

\* The steps that leave the tables alone, or allocate next to them.
LEMMA TablesQuiet ==
  ASSUME MemoryInv, ~Panicked,
         \/ CreateObject \/ CreateEnd \/ LoadEnd
         \/ \E g \in Guests : LoadStart(g) \/ Access(g) \/ Complete(g)
  PROVE  /\ SameWalk(kheap, kheap') /\ kheap'.pages = kheap.pages
         /\ \A g \in Guests : DevicesMapped(g)' = DevicesMapped(g)
<1>1. /\ handler.k \in Nat /\ NrObjects = 6 /\ Len(Devices) \in Nat
      /\ Guests \subseteq Nat /\ NrVcpus \in Nat /\ handler.g \in Nat
      /\ handler \in [op : {"create", "load", "idle"}, g : 0 .. NrVcpus, k : Nat]
  BY InvParts, DevicePages, MemoryAssumption DEF NrObjects, Guests
<1>2. CASE CreateObject
  <2>1. /\ handler.op = "create" /\ handler.k < NrObjects
        /\ handler' = [handler EXCEPT !.k = @ + 1]
        /\ kheap' = KmmZalloc(kheap, Object)
    BY <1>2 DEF CreateObject
  <2>2. SameWalk(kheap, kheap') /\ kheap'.pages = kheap.pages
    <3>1. kheap.full = FALSE /\ Object \in Uses
      BY InvParts DEF Panicked, Object, Uses
    <3>2. QED
      BY <2>1, <3>1, InvParts, ZallocGrows DEF Grown
  <2>3. handler'.op = "create" /\ handler'.g = handler.g /\ handler'.k = handler.k + 1
    BY <1>1, <2>1
  <2>4. \A g \in Guests : DevicesMapped(g)' = DevicesMapped(g)
    BY <1>1, <2>1, <2>3 DEF DevicesMapped
  <2>5. QED
    BY <2>2, <2>4
<1>3. CASE CreateEnd
  <2>1. /\ handler.op = "create" /\ handler.k = NrObjects + Len(Devices)
        /\ handler' = IF handler.g < NrVcpus
                      THEN [op |-> "create", g |-> handler.g + 1, k |-> 0]
                      ELSE Idle
        /\ kheap' = kheap
    BY <1>3 DEF CreateEnd
  <2>2. CASE handler.g < NrVcpus
    <3>1. handler'.op = "create" /\ handler'.g = handler.g + 1 /\ handler'.k = 0
      BY <2>1, <2>2
    <3>2. \A g \in Guests : DevicesMapped(g)' = DevicesMapped(g)
      BY <1>1, <2>1, <3>1 DEF DevicesMapped
    <3>3. QED
      BY <2>1, <3>2 DEF SameWalk
  <2>3. CASE ~(handler.g < NrVcpus)
    <3>1. handler'.op = "idle"
      BY <2>1, <2>3 DEF Idle
    <3>2. \A g \in Guests : g < handler.g \/ g = handler.g
      BY <1>1, <2>3 DEF Guests
    <3>3. \A g \in Guests : DevicesMapped(g)' = DevicesMapped(g)
      BY <1>1, <2>1, <3>1, <3>2 DEF DevicesMapped
    <3>4. QED
      BY <2>1, <3>3 DEF SameWalk
  <2>4. QED
    BY <2>2, <2>3
<1>4. CASE LoadEnd \/ \E g \in Guests : LoadStart(g) \/ Access(g) \/ Complete(g)
  <2>1. kheap' = kheap /\ handler.op # "create" /\ handler'.op # "create"
    BY <1>4 DEF LoadEnd, LoadStart, Access, Complete, Runs, Idle
  <2>2. \A g \in Guests : DevicesMapped(g)' = DevicesMapped(g)
    BY <2>1 DEF DevicesMapped
  <2>3. QED
    BY <2>1, <2>2 DEF SameWalk
<1>5. QED
  BY <1>2, <1>3, <1>4

-----------------------------------------------------------------------------
(***************************************************************************)
(* The memory of a guest                                                   *)
(***************************************************************************)

\* The guests' memories, as GuestMemory sees them.
Mem == [g \in Guests |-> [a \in Ram |-> Content(g, a)]]

\* The guests' own translation is the identity, as with the MMU off.
Identity == \A g \in Guests : \A a \in Ram : Stage1[g][a] = a

LEMMA SameMem ==
  ASSUME \A g \in Guests : \A a \in Ram : Content(g, a)' = Content(g, a)
  PROVE  Mem' = Mem
BY DEF Mem

\* Until guests have started, their memory is what they will start with.
LEMMA NoneStarted ==
  ASSUME UNCHANGED started, \A g \in Guests : started[g] = FALSE
  PROVE  Mem' = Mem
<1>1. \A g \in Guests : \A a \in Ram : Content(g, a)' = Content(g, a)
  BY DEF Content, ImageOf
<1>2. QED
  BY <1>1, SameMem

\* A page that is taken for an address where nothing was mapped changes what
\* nobody sees, if it is cleared or the guest has not started.
LEMMA TakenUnseen ==
  ASSUME MemoryInv, UNCHANGED started, NEW g \in Guests, NEW a \in Ram,
         \/ SameWalk(kheap, kheap')
         \/ Updates(kheap, kheap', g, a, Dram(uheap.next)),
         \A q \in UserRange : q # uheap.next => uheap'.frame[q] = uheap.frame[q],
         started[g] = TRUE => /\ Walk(kheap, g, a) = NoEntry
                              /\ \/ SameWalk(kheap, kheap')
                                 \/ uheap'.frame[uheap.next] = Zero
  PROVE  Mem' = Mem
<1>1. SUFFICES ASSUME NEW j \in Guests, NEW b \in Ram
               PROVE  Content(j, b)' = Content(j, b)
  BY SameMem
<1>2. b \in Ipas /\ a \in Ipas
  BY MemoryAssumption
<1>3. CASE started[j] = FALSE
  BY <1>3 DEF Content, ImageOf
<1>4. CASE started[j] = TRUE /\ Walk(kheap', j, b) = Walk(kheap, j, b)
  <2>1. CASE Walk(kheap, j, b).type = "dram"
    <3>1. Walk(kheap, j, b).to # uheap.next /\ Walk(kheap, j, b).to \in UserRange
      BY <1>2, <2>1, InvParts, MappedIsOld
    <3>2. uheap'.frame[Walk(kheap, j, b).to] = uheap.frame[Walk(kheap, j, b).to]
      BY <3>1
    <3>3. QED
      BY <1>4, <2>1, <3>2 DEF Content
  <2>2. CASE Walk(kheap, j, b).type # "dram"
    BY <1>4, <2>2 DEF Content
  <2>3. QED
    BY <2>1, <2>2
<1>5. CASE started[j] = TRUE /\ Walk(kheap', j, b) # Walk(kheap, j, b)
  <2>1. ~SameWalk(kheap, kheap')
    BY <1>2, <1>5 DEF SameWalk
  <2>2. j = g /\ b = a
    BY <1>2, <1>5, <2>1 DEF Updates
  <2>3. Walk(kheap', j, b) = Dram(uheap.next)
    BY <1>2, <2>1, <2>2 DEF Updates
  <2>4. Walk(kheap, j, b) = NoEntry /\ uheap'.frame[uheap.next] = Zero
    BY <1>5, <2>1, <2>2
  <2>5. Content(j, b)' = Zero
    BY <1>5, <2>3, <2>4 DEF Content, Dram
  <2>6. Content(j, b) = Zero
    BY <1>5, <2>4 DEF Content, NoEntry
  <2>7. QED
    BY <2>5, <2>6
<1>6. started[j] \in BOOLEAN
  BY InvParts DEF TypeOK
<1>7. QED
  BY <1>3, <1>4, <1>5, <1>6

\* An access changes the page accessed, of that guest.
LEMMA CompleteFinishes ==
  ASSUME MemoryInv, NEW g \in Guests, Complete(g)
  PROVE  Abstract!Finish(g)
<1>1. PICK a \in Ram : a = Stage1[g][access[g]]
  BY InvParts, MemoryAssumption DEF TypeOK, Complete
<1>2. /\ started[g] = TRUE /\ access[g] # None
      /\ Walk(kheap, g, a).type = "dram"
      /\ access' = [access EXCEPT ![g] = None]
      /\ UNCHANGED <<kheap, handler, started>>
      /\ \E x \in Data : uheap' = [uheap EXCEPT !.frame[Walk(kheap, g, a).to] = x]
  BY <1>1 DEF Complete, Runs, Entry
<1>3. a \in Ipas
  BY MemoryAssumption
<1>4. PICK p \in UserRange : p = Walk(kheap, g, a).to /\ uheap.use[p] = <<g, a>>
  BY <1>2, <1>3, InvParts DEF RamIsOwned
<1>a. PICK x \in Data : uheap' = [uheap EXCEPT !.frame[p] = x]
  BY <1>2, <1>4
<1>5. uheap'.frame = [uheap.frame EXCEPT ![p] = x] /\ DOMAIN uheap.frame = UserRange
  BY <1>4, <1>a, InvParts DEF UserType
<1>6. Content(g, a)' = x
  BY <1>2, <1>4, <1>5 DEF Content
<1>7. ASSUME NEW j \in Guests, NEW b \in Ram, ~(j = g /\ b = a)
      PROVE  Content(j, b)' = Content(j, b)
  <2>1. b \in Ipas
    BY MemoryAssumption
  <2>2. CASE started[j] = FALSE
    BY <1>2, <2>2 DEF Content, ImageOf
  <2>3. CASE started[j] = TRUE /\ Walk(kheap, j, b).type = "dram"
    <3>1. uheap.use[Walk(kheap, j, b).to] = <<j, b>>
          /\ Walk(kheap, j, b).to \in UserRange
      BY <2>1, <2>3, InvParts DEF RamIsOwned
    <3>2. <<j, b>> # <<g, a>>
      BY <1>7
    <3>3. Walk(kheap, j, b).to # p
      BY <1>4, <3>1, <3>2
    <3>4. uheap'.frame[Walk(kheap, j, b).to] = uheap.frame[Walk(kheap, j, b).to]
      BY <1>5, <3>1, <3>3
    <3>5. QED
      BY <1>2, <2>3, <3>4 DEF Content
  <2>4. CASE started[j] = TRUE /\ Walk(kheap, j, b).type # "dram"
    BY <1>2, <2>4 DEF Content
  <2>5. started[j] \in BOOLEAN
    BY InvParts DEF TypeOK
  <2>6. QED
    BY <2>2, <2>3, <2>4, <2>5
<1>8. Mem' = [Mem EXCEPT ![g][a] = x]
  BY <1>6, <1>7 DEF Mem
<1>9. QED
  BY <1>1, <1>2, <1>8 DEF Abstract!Finish, Mem

\* When the last page is loaded, the memory is the image.
LEMMA LoadEndStarts ==
  ASSUME MemoryInv, ~Panicked, LoadEnd
  PROVE  \E g \in Guests : Abstract!Start(g)
<1>2. PICK g \in Guests : g = handler.g /\ started[g] = FALSE
  BY InvParts DEF HandlerOK, LoadEnd
<1>1. /\ handler.op = "load" /\ handler.k = Len(LoadPages[g])
      /\ started' = [started EXCEPT ![g] = TRUE]
      /\ UNCHANGED <<kheap, uheap, access>>
  BY <1>2 DEF LoadEnd
<1>3. LoadedSoFar(g) /\ PagesLoaded(g) = Len(LoadPages[g])
  BY <1>1, <1>2, InvParts DEF LoadProgress, PagesLoaded, Loading
<1>4. DOMAIN LoadPages[g] = 1 .. Len(LoadPages[g])
  <2>1. LoadPages[g] \in Seq(Ram)
    BY <1>2, MemoryAssumption
  <2>2. QED
    BY <2>1
<1>5. started' \in [Guests -> BOOLEAN] /\ started'[g] = TRUE
      /\ \A j \in Guests : j # g => started'[j] = started[j]
  BY <1>1, <1>2, InvParts DEF TypeOK
<1>6. ASSUME NEW a \in Ram
      PROVE  Content(g, a)' = Content(g, a)
  <2>1. Content(g, a) = ImageOf(g)[a]
    BY <1>2 DEF Content
  <2>2. CASE \E k \in DOMAIN LoadPages[g] : LoadPages[g][k] = a
    <3> DEFINE c == CHOOSE k \in DOMAIN LoadPages[g] : LoadPages[g][k] = a
    <3>1. c \in DOMAIN LoadPages[g] /\ LoadPages[g][c] = a
      BY <2>2
    <3>2. ImageOf(g)[a] = File[g][c]
      BY <2>2 DEF ImageOf
    <3> HIDE DEF c
    <3>3. /\ Walk(kheap, g, a).type = "dram"
          /\ uheap.frame[Walk(kheap, g, a).to] = File[g][c]
      BY <1>3, <1>4, <3>1 DEF LoadedSoFar
    <3>4. Content(g, a)' = File[g][c]
      BY <1>1, <1>5, <3>3 DEF Content
    <3>5. QED
      BY <2>1, <3>2, <3>4
  <2>3. CASE ~\E k \in DOMAIN LoadPages[g] : LoadPages[g][k] = a
    <3>1. ImageOf(g)[a] = Zero
      BY <2>3 DEF ImageOf
    <3>2. Walk(kheap, g, a) = NoEntry
      BY <1>3, <1>4, <2>3 DEF LoadedSoFar
    <3>3. Content(g, a)' = Zero
      BY <1>1, <1>5, <3>2 DEF Content, NoEntry
    <3>4. QED
      BY <2>1, <3>1, <3>3
  <2>4. QED
    BY <2>2, <2>3
<1>7. ASSUME NEW j \in Guests, NEW a \in Ram, j # g
      PROVE  Content(j, a)' = Content(j, a)
  BY <1>1, <1>5, <1>7 DEF Content, ImageOf
<1>8. Mem' = Mem
  BY <1>6, <1>7, SameMem
<1>9. Abstract!Start(g)
  BY <1>1, <1>2, <1>8 DEF Abstract!Start, Mem
<1>10. QED
  BY <1>2, <1>9

\* Zeros and then x written to the next page: it holds x.
LEMMA FrameIsSet ==
  ASSUME UserType, uheap.next \in UserRange, NEW l, NEW x, NEW v,
         TakenWith(uheap, v, l, Zero)
  PROVE  [v EXCEPT !.frame[uheap.next] = x].frame = [uheap.frame EXCEPT ![uheap.next] = x]
<1>1. uheap = [used |-> uheap.used, use |-> uheap.use, next |-> uheap.next,
               frame |-> uheap.frame, full |-> uheap.full]
  BY DEF UserType
<1> DEFINE q == uheap.next
           f == [uheap.frame EXCEPT ![q] = Zero]
<1>2. v = [used |-> [uheap.used EXCEPT ![q] = TRUE], use |-> [uheap.use EXCEPT ![q] = l],
           next |-> q + 1, frame |-> f, full |-> uheap.full]
  BY <1>1 DEF TakenWith
<1>3. DOMAIN uheap.frame = UserRange
  BY DEF UserType
<1> HIDE DEF f
<1>4. [v EXCEPT !.frame[q] = x].frame = [f EXCEPT ![q] = x]
  BY <1>2
<1>5. QED
  BY <1>3, <1>4 DEF f

\* A page of the image goes to a guest that does not run yet.
LEMMA LoadPageUnseen ==
  ASSUME MemoryInv, ~Panicked, NEW node, LoadPage(node)
  PROVE  UNCHANGED <<started, access, Mem>>
<1> DEFINE g == handler.g
           a == LoadPages[g][handler.k + 1]
           v == UmmZalloc(uheap, <<g, a>>)
           p == NewFrame(uheap)
           m == MapPage(kheap, g, a, Dram(p))
           n == IF node /\ ~m.full THEN KmmZalloc(m, Object) ELSE m
           x == File[g][handler.k + 1]
<1>1. /\ handler.op = "load" /\ handler.k < Len(LoadPages[g])
      /\ v.full => uheap' = v /\ UNCHANGED kheap
      /\ ~v.full => uheap' = [v EXCEPT !.frame[p] = x] /\ kheap' = n
      /\ UNCHANGED <<started, access>>
  BY DEF LoadPage
<1>2. /\ g \in Guests /\ handler.k \in Nat /\ started[g] = FALSE
      /\ LoadPages[g] \in Seq(Ram)
  BY <1>1, InvParts, MemoryAssumption DEF HandlerOK
<1>3. a \in Ram
  BY <1>1, <1>2
<1>4. UserType /\ uheap.full = FALSE
  BY InvParts DEF Panicked
<1>5. NextTaken(uheap, v, <<g, a>>)
  BY <1>4, UmmTakes
<1>6. ~v.full => /\ p = uheap.next
                 /\ SameWalk(kheap, n) \/ Updates(kheap, n, g, a, Dram(p))
  BY <1>2, <1>3, PageMapped
<1> HIDE DEF v, p, n, m, x, a, g
<1>7. \/ SameWalk(kheap, kheap')
      \/ Updates(kheap, kheap', g, a, Dram(uheap.next))
  <2>1. v.full => SameWalk(kheap, kheap')
    BY <1>1 DEF SameWalk
  <2>2. QED
    BY <1>1, <1>6, <2>1
<1>8. \A q \in UserRange : q # uheap.next => uheap'.frame[q] = uheap.frame[q]
  <2>1. CASE v.full
    BY <1>1, <1>4, <1>5, <2>1 DEF NextTaken, UserType
  <2>2. CASE ~v.full
    <3>1. /\ TakenWith(uheap, v, <<g, a>>, Zero) /\ uheap.next \in UserRange
          /\ uheap' = [v EXCEPT !.frame[uheap.next] = x]
      BY <1>1, <1>5, <1>6, <2>2 DEF NextTaken, Taken
    <3>2. [v EXCEPT !.frame[uheap.next] = x].frame
            = [uheap.frame EXCEPT ![uheap.next] = x]
      BY <1>4, <3>1, FrameIsSet
    <3>3. uheap'.frame = [uheap.frame EXCEPT ![uheap.next] = x]
      BY <3>1, <3>2
    <3>4. DOMAIN uheap.frame = UserRange
      BY <1>4 DEF UserType
    <3>5. QED
      BY <3>3, <3>4
  <2>3. QED
    BY <2>1, <2>2
<1>9. Mem' = Mem
  BY <1>1, <1>2, <1>3, <1>7, <1>8, TakenUnseen
<1>10. QED
  BY <1>1, <1>9

\* The page a fault brings holds what the guest was to find there.
LEMMA FaultUnseen ==
  ASSUME Identity, MemoryInv, ~Panicked, NEW g \in Guests,
         HandleMmTrapMemoryAccessFault(g)
  PROVE  UNCHANGED <<started, access, Mem>>
<1> DEFINE a == access[g]
           v == UmmZalloc(uheap, <<g, a>>)
           p == NewFrame(uheap)
           n == MapPage(kheap, g, a, Dram(p))
<1>1. /\ a # None /\ Walk(kheap, g, Stage1[g][a]) = NoEntry
      /\ uheap' = v /\ kheap' = IF v.full THEN kheap ELSE n
      /\ UNCHANGED <<handler, started, access>>
  BY DEF HandleMmTrapMemoryAccessFault, Entry
<1>2. a \in Ram
  BY <1>1, InvParts DEF TypeOK
<1>3. Walk(kheap, g, a) = NoEntry
  BY <1>1, <1>2 DEF Identity
<1>4. UserType /\ uheap.full = FALSE
  BY InvParts DEF Panicked
<1>5. NextTaken(uheap, v, <<g, a>>)
  BY <1>4, UmmTakes
<1>6. ~v.full => /\ p = uheap.next
                 /\ SameWalk(kheap, n) \/ Updates(kheap, n, g, a, Dram(p))
  BY <1>2, PageMapped
<1> HIDE DEF v, p, n, a
<1>7. /\ v.full => SameWalk(kheap, kheap')
      /\ ~v.full => \/ SameWalk(kheap, kheap')
                    \/ Updates(kheap, kheap', g, a, Dram(uheap.next))
  BY <1>1, <1>6 DEF SameWalk
<1>8. /\ \A q \in UserRange : q # uheap.next => uheap'.frame[q] = uheap.frame[q]
      /\ ~v.full => uheap'.frame[uheap.next] = Zero
  <2>1. CASE v.full
    BY <1>1, <1>4, <1>5, <2>1 DEF NextTaken, UserType
  <2>2. CASE ~v.full
    <3>1. /\ v.frame = [uheap.frame EXCEPT ![uheap.next] = Zero]
          /\ uheap.next \in UserRange
      BY <1>4, <1>5, <2>2 DEF UserType, NextTaken, Taken, TakenWith
    <3>2. DOMAIN uheap.frame = UserRange
      BY <1>4 DEF UserType
    <3>3. QED
      BY <1>1, <2>2, <3>1, <3>2
  <2>3. QED
    BY <2>1, <2>2
<1>9. Mem' = Mem
  BY <1>1, <1>2, <1>3, <1>7, <1>8, TakenUnseen
<1>10. QED
  BY <1>1, <1>9

LEMMA MemoryStep ==
  Identity /\ MemoryInv /\ [Next]_vars => [Abstract!Next]_<<started, access, Mem>>
<1> SUFFICES ASSUME Identity, MemoryInv, [Next]_vars
             PROVE  Abstract!Next \/ UNCHANGED <<started, access, Mem>>
  OBVIOUS
<1>1. CASE UNCHANGED vars
  <2>1. \A g \in Guests : \A a \in Ram : Content(g, a)' = Content(g, a)
    BY <1>1 DEF vars, Content, ImageOf
  <2>2. QED
    BY <1>1, <2>1, SameMem DEF vars
<1>2. CASE CreateObject \/ MapNewDevicePage \/ CreateEnd
  <2>1. handler.op = "create" /\ UNCHANGED <<started, access>>
    BY <1>2 DEF CreateObject, MapNewDevicePage, CreateEnd
  <2>2. \A g \in Guests : started[g] = FALSE
    BY <2>1, InvParts DEF HandlerOK
  <2>3. QED
    BY <2>1, <2>2, NoneStarted
<1>3. ASSUME NEW g \in Guests, LoadStart(g) PROVE UNCHANGED <<started, access, Mem>>
  <2>1. UNCHANGED <<kheap, uheap, started, access>>
    BY <1>3 DEF LoadStart
  <2>2. \A j \in Guests : \A a \in Ram : Content(j, a)' = Content(j, a)
    BY <2>1 DEF Content, ImageOf
  <2>3. QED
    BY <2>1, <2>2, SameMem
<1>4. ASSUME NEW g \in Guests, Access(g) PROVE Abstract!Begin(g)
  <2>1. /\ started[g] = TRUE /\ access[g] = None
        /\ \E a \in Ram : access' = [access EXCEPT ![g] = a]
        /\ UNCHANGED <<kheap, uheap, started>>
    BY <1>4 DEF Access, Runs
  <2>2. \A j \in Guests : \A a \in Ram : Content(j, a)' = Content(j, a)
    BY <2>1 DEF Content, ImageOf
  <2>3. Mem' = Mem
    BY <2>2, SameMem
  <2>4. QED
    BY <2>1, <2>3 DEF Abstract!Begin, Mem
<1>5. CASE ~Panicked /\ (LoadPage(TRUE) \/ LoadPage(FALSE))
  <2> DEFINE yes == TRUE
             no == FALSE
  <2>1. LoadPage(yes) \/ LoadPage(no) => UNCHANGED <<started, access, Mem>>
    <3> HIDE DEF yes, no
    <3>1. QED
      BY <1>5, LoadPageUnseen
  <2>2. QED
    BY <1>5, <2>1, Zenon
<1>6. CASE ~Panicked /\ LoadEnd
  BY <1>6, LoadEndStarts DEF Abstract!Next
<1>7. ASSUME NEW g \in Guests, ~Panicked, Guest(g)
      PROVE  Abstract!Next \/ UNCHANGED <<started, access, Mem>>
  BY <1>7, CompleteFinishes, FaultUnseen DEF Guest, Abstract!Next
<1>8. QED
  BY <1>1, <1>2, <1>3, <1>4, <1>5, <1>6, <1>7
  DEF Next, Hypervisor, Halted, Abstract!Next

\* Loading, tables and faults implement private memory for a guest whose own
\* translation is the identity, for any sizes and number of guests
\* (loader.cc, trap_mem.cc, pgtable_stage2.cc).
THEOREM MemoryIsPrivate == Identity => (Spec => ImplementsGuestMemory)
<1> SUFFICES ASSUME Identity PROVE Spec => ImplementsGuestMemory
  OBVIOUS
<1>1. Init => Abstract!Init
  <2> SUFFICES ASSUME Init PROVE Abstract!Init
    OBVIOUS
  <2>1. \A g \in Guests : \A a \in Ram : Content(g, a) = ImageOf(g)[a]
    BY DEF Init, Content
  <2>2. \A g \in Guests : ImageOf(g) = [a \in Ram |-> ImageOf(g)[a]]
    BY DEF ImageOf
  <2>3. Mem = [g \in Guests |-> ImageOf(g)]
    BY <2>1, <2>2 DEF Mem
  <2>4. QED
    BY <2>3 DEF Init, Abstract!Init, Mem
<1>2. MemoryInv /\ [Next]_vars =>
        [Abstract!Next]_<<started, access, [g \in Guests |-> [a \in Ram |-> Content(g, a)]]>>
  BY MemoryStep DEF Mem
<1>3. QED
  BY <1>1, <1>2, MemoryIsSafe, PTL
  DEF Spec, ImplementsGuestMemory, Abstract!Spec, Abstract!vars

-----------------------------------------------------------------------------
(***************************************************************************)
(* The number of pages                                                     *)
(***************************************************************************)

MappedAt(h, g) == {a \in Ipas : Walk(h, g, a) # NoEntry}

CountOK(h) ==
  \A g \in Guests : /\ IsFiniteSet(MappedAt(h, g))
                    /\ h.pages[g] = Cardinality(MappedAt(h, g))

\* While a guest is set up, nothing but the board's pages is mapped.
OnlyDevices ==
  handler.op = "create" =>
    \A g \in Guests, a \in Ipas :
      Walk(kheap, g, a) # NoEntry =>
        \E k \in 1 .. DevicesMapped(g) : Devices[k].ipa = a

CountInv == MemoryInv /\ OnlyDevices /\ CountOK(kheap)

LEMMA SameCounts ==
  ASSUME NEW h, NEW n, CountOK(h), SameWalk(h, n), n.pages = h.pages
  PROVE  CountOK(n)
<1>1. \A g \in Guests : MappedAt(n, g) = MappedAt(h, g)
  BY DEF MappedAt, SameWalk
<1>2. QED
  BY <1>1 DEF CountOK

\* A page mapped where there was none is one more.
LEMMA MovedCounts ==
  ASSUME NEW h, NEW n, CountOK(h), HeapType(h), NEW g \in Guests, NEW a \in Ipas,
         NEW e, e # NoEntry, Walk(h, g, a) = NoEntry, Moved(h, n, g, a, e)
  PROVE  CountOK(n)
<1>1. CASE SameWalk(h, n) /\ n.pages = h.pages
  BY <1>1, SameCounts
<1>2. CASE Updates(h, n, g, a, e) /\ n.pages = [h.pages EXCEPT ![g] = @ + 1]
  <2> SUFFICES ASSUME NEW j \in Guests
               PROVE  /\ IsFiniteSet(MappedAt(n, j))
                      /\ n.pages[j] = Cardinality(MappedAt(n, j))
    BY DEF CountOK
  <2>1. IsFiniteSet(MappedAt(h, j)) /\ h.pages[j] = Cardinality(MappedAt(h, j))
    BY DEF CountOK
  <2>2. h.pages \in [Guests -> Nat]
    BY DEF HeapType
  <2>3. CASE j # g
    <3>1. MappedAt(n, j) = MappedAt(h, j)
      BY <1>2, <2>3 DEF MappedAt, Updates
    <3>2. n.pages[j] = h.pages[j]
      BY <1>2, <2>2, <2>3
    <3>3. QED
      BY <2>1, <3>1, <3>2
  <2>4. CASE j = g
    <3>1. MappedAt(n, j) = MappedAt(h, j) \cup {a} /\ a \notin MappedAt(h, j)
      BY <1>2, <2>4 DEF MappedAt, Updates
    <3>2. n.pages[j] = h.pages[j] + 1
      BY <1>2, <2>2, <2>4
    <3>3. /\ IsFiniteSet(MappedAt(h, j) \cup {a})
          /\ Cardinality(MappedAt(h, j) \cup {a}) = Cardinality(MappedAt(h, j)) + 1
      BY <2>1, <3>1, FS_AddElement
    <3>4. QED
      BY <2>1, <3>1, <3>2, <3>3
  <2>5. QED
    BY <2>3, <2>4
<1>3. QED
  BY <1>1, <1>2 DEF Moved

\* PageMapped, with the count.
LEMMA PageMoved ==
  ASSUME MemoryInv, ~Panicked, NEW g \in Guests, NEW a \in Ram, NEW node,
         ~UmmZalloc(uheap, <<g, a>>).full
  PROVE  LET p == NewFrame(uheap)
             m == MapPage(kheap, g, a, Dram(p))
             n == IF node /\ ~m.full THEN KmmZalloc(m, Object) ELSE m
         IN  Moved(kheap, n, g, a, Dram(p))
<1> DEFINE p == NewFrame(uheap)
           e == Dram(p)
           m == MapPage(kheap, g, a, e)
           n == IF node /\ ~m.full THEN KmmZalloc(m, Object) ELSE m
<1>1. UserType /\ HeapOK(kheap) /\ a \in Ipas
  BY InvParts, MemoryAssumption
<1>2. kheap.full = FALSE /\ uheap.full = FALSE
  BY InvParts DEF Panicked
<1>3. NextTaken(uheap, UmmZalloc(uheap, <<g, a>>), <<g, a>>)
  BY <1>1, <1>2, UmmTakes
<1>4. p = uheap.next /\ uheap.next \in UserRange
  BY <1>3 DEF NextTaken, Taken
<1>5. e \in Entries /\ e.type \in Leaf
  BY <1>4, MemoryAssumption DEF Dram, Entries, Leaf, UserRange
<1> HIDE DEF p, e
<1>6. Moved(kheap, m, g, a, e) /\ Mapped(kheap, m, g, a, e)
  BY <1>1, <1>2, <1>5, MapPageMoves, MapPageUpdates
<1> HIDE DEF m
<1>7. CASE node /\ ~m.full
  <2>1. n = KmmZalloc(m, Object)
    BY <1>7
  <2>2. HeapOK(m) /\ Object \in Uses /\ m.full = FALSE
    BY <1>6, <1>7 DEF Mapped, Object, Uses, HeapOK, HeapType
  <2>3. Grown(m, n)
    BY <2>1, <2>2, ZallocGrows
  <2> HIDE DEF n
  <2>4. SameWalk(m, n) /\ n.pages = m.pages
    BY <2>3 DEF Grown
  <2>5. Moved(kheap, n, g, a, e)
    BY <1>6, <2>4 DEF Moved, SameWalk, Updates
  <2>6. QED
    BY <2>5 DEF n, m, e, p
<1>8. CASE ~(node /\ ~m.full)
  BY <1>6, <1>8 DEF m, e, p
<1>9. QED
  BY <1>7, <1>8

LEMMA CountStep == Identity /\ CountInv /\ [Next]_vars => OnlyDevices' /\ CountOK(kheap')
<1> SUFFICES ASSUME Identity, CountInv, [Next]_vars
             PROVE  OnlyDevices' /\ CountOK(kheap')
  OBVIOUS
<1>0. MemoryInv /\ OnlyDevices /\ CountOK(kheap) /\ HeapType(kheap)
  BY InvParts DEF CountInv
<1>1. CASE UNCHANGED vars
  BY <1>0, <1>1 DEF vars, OnlyDevices, DevicesMapped
<1>2. CASE ~Panicked /\ ( \/ CreateObject \/ CreateEnd \/ LoadEnd
                          \/ \E g \in Guests : LoadStart(g) \/ Access(g) \/ Complete(g))
  <2>1. /\ SameWalk(kheap, kheap') /\ kheap'.pages = kheap.pages
        /\ \A g \in Guests : DevicesMapped(g)' = DevicesMapped(g)
    BY <1>0, <1>2, TablesQuiet
  <2>2. handler'.op = "create" => handler.op = "create"
    BY <1>2 DEF CreateObject, CreateEnd, LoadEnd, LoadStart, Access, Complete, Runs, Idle
  <2>3. OnlyDevices'
    BY <1>0, <2>1, <2>2 DEF OnlyDevices, SameWalk
  <2>4. QED
    BY <1>0, <2>1, <2>3, SameCounts
<1>3. CASE ~Panicked /\ MapNewDevicePage
  <2>1. PICK g \in Guests, n \in 1 .. Len(Devices) : DeviceMapped(g, n)
    BY <1>0, <1>3, DeviceIsMapped
  <2>2. Devices[n].ipa \in Ipas /\ n \in Nat /\ DeviceEntry(n) # NoEntry
    BY DevicePages DEF NoEntry, Leaf
  <2>3. Walk(kheap, g, Devices[n].ipa) = NoEntry
    <3>1. SUFFICES ASSUME Walk(kheap, g, Devices[n].ipa) # NoEntry PROVE FALSE
      OBVIOUS
    <3>2. PICK k \in 1 .. n - 1 : Devices[k].ipa = Devices[n].ipa
      BY <1>0, <2>1, <2>2, <3>1 DEF OnlyDevices, DeviceMapped
    <3>3. QED
      BY <2>2, <3>2, DevicePages
  <2>4. CountOK(kheap')
    BY <1>0, <2>1, <2>2, <2>3, MovedCounts DEF DeviceMapped
  <2>5. ASSUME NEW j \in Guests, NEW a \in Ipas, Walk(kheap', j, a) # NoEntry
        PROVE  \E k \in 1 .. DevicesMapped(j)' : Devices[k].ipa = a
    <3>1. CASE j = g /\ a = Devices[n].ipa
      <4>1. n \in 1 .. DevicesMapped(j)'
        BY <2>1, <2>2, <3>1 DEF DeviceMapped
      <4>2. QED
        BY <3>1, <4>1
    <3>2. CASE ~(j = g /\ a = Devices[n].ipa)
      <4>1. Walk(kheap, j, a) # NoEntry
        BY <2>1, <2>2, <2>5, <3>2 DEF DeviceMapped, Moved, SameWalk, Updates
      <4>2. PICK k \in 1 .. DevicesMapped(j) : Devices[k].ipa = a
        BY <1>0, <2>1, <4>1 DEF OnlyDevices, DeviceMapped
      <4>3. k \in 1 .. DevicesMapped(j)'
        <5>1. CASE j = g
          BY <2>1, <2>2, <5>1 DEF DeviceMapped
        <5>2. CASE j # g
          BY <2>1, <5>2 DEF DeviceMapped
        <5>3. QED
          BY <5>1, <5>2
      <4>4. QED
        BY <4>2, <4>3
    <3>3. QED
      BY <3>1, <3>2
  <2>6. QED
    BY <2>4, <2>5 DEF OnlyDevices
<1>4. ASSUME NEW node, ~Panicked, LoadPage(node)
      PROVE  OnlyDevices' /\ CountOK(kheap')
  <2> DEFINE g == handler.g
             k == handler.k + 1
             a == LoadPages[g][k]
             v == UmmZalloc(uheap, <<g, a>>)
             p == NewFrame(uheap)
             m == MapPage(kheap, g, a, Dram(p))
             n == IF node /\ ~m.full THEN KmmZalloc(m, Object) ELSE m
  <2>1. /\ handler.op = "load" /\ handler.k < Len(LoadPages[g])
        /\ v.full => UNCHANGED kheap
        /\ ~v.full => kheap' = n
        /\ handler' = [handler EXCEPT !.k = @ + 1]
    BY <1>4 DEF LoadPage
  <2>2. /\ g \in Guests /\ handler.k \in Nat /\ started[g] = FALSE
        /\ LoadPages[g] \in Seq(Ram)
    BY <1>0, <2>1, InvParts, MemoryAssumption DEF HandlerOK
  <2>3. a \in Ram /\ a \in Ipas /\ k \in DOMAIN LoadPages[g]
    <3>1. k \in DOMAIN LoadPages[g] /\ LoadPages[g][k] \in Ram
      BY <2>1, <2>2
    <3>2. QED
      BY <3>1, MemoryAssumption
  <2>4. OnlyDevices'
    <3>1. handler'.op # "create"
      BY <1>0, <2>1, InvParts
    <3>2. QED
      BY <3>1 DEF OnlyDevices
  <2>5. Walk(kheap, g, a) = NoEntry
    <3>1. LoadedSoFar(g) /\ PagesLoaded(g) = handler.k
      BY <1>0, <1>4, <2>1, <2>2, InvParts DEF LoadProgress, PagesLoaded, Loading
    <3>2. DOMAIN LoadPages[g] = 1 .. Len(LoadPages[g]) /\ Len(LoadPages[g]) \in Nat
      BY <2>2
    <3>3. \A l \in 1 .. PagesLoaded(g) : l \in DOMAIN LoadPages[g] /\ l # k
      BY <2>1, <2>2, <3>1, <3>2
    <3>4. \A l \in 1 .. PagesLoaded(g) : LoadPages[g][l] # a
      <4> HIDE DEF k
      <4>1. QED
        BY <2>2, <2>3, <3>3, MemoryAssumption
    <3>5. QED
      BY <2>3, <3>1, <3>4 DEF LoadedSoFar
  <2>6. CASE v.full
    BY <1>0, <2>1, <2>4, <2>6
  <2>7. CASE ~v.full
    <3> HIDE DEF a, g
    <3>1. Moved(kheap, n, g, a, Dram(p))
      BY <1>0, <1>4, <2>2, <2>3, <2>7, PageMoved
    <3>2. Dram(p) # NoEntry
      BY DEF Dram, NoEntry
    <3> HIDE DEF n, p
    <3>3. CountOK(n)
      BY <1>0, <2>2, <2>3, <2>5, <3>1, <3>2, MovedCounts
    <3>4. QED
      BY <2>1, <2>4, <2>7, <3>3
  <2>8. QED
    BY <2>6, <2>7
<1>5. ASSUME NEW g \in Guests, ~Panicked, HandleMmTrapMemoryAccessFault(g)
      PROVE  OnlyDevices' /\ CountOK(kheap')
  <2> DEFINE a == access[g]
             v == UmmZalloc(uheap, <<g, a>>)
             p == NewFrame(uheap)
             no == FALSE
             m == MapPage(kheap, g, a, Dram(p))
             n == IF no /\ ~m.full THEN KmmZalloc(m, Object) ELSE m
  <2>1. /\ a # None /\ Walk(kheap, g, Stage1[g][a]) = NoEntry
        /\ kheap' = IF v.full THEN kheap ELSE n
        /\ handler.op = "idle" /\ UNCHANGED handler
    BY <1>5 DEF HandleMmTrapMemoryAccessFault, Entry, Runs
  <2>2. a \in Ram /\ a \in Ipas
    BY <1>0, <2>1, InvParts, MemoryAssumption DEF TypeOK
  <2>3. Walk(kheap, g, a) = NoEntry
    BY <2>1, <2>2 DEF Identity
  <2>4. OnlyDevices'
    BY <2>1 DEF OnlyDevices
  <2>5. CASE v.full
    BY <1>0, <2>1, <2>4, <2>5
  <2>6. CASE ~v.full
    <3> HIDE DEF a, no
    <3>1. Moved(kheap, n, g, a, Dram(p))
      BY <1>0, <1>5, <2>2, <2>6, PageMoved
    <3>2. Dram(p) # NoEntry
      BY DEF Dram, NoEntry
    <3> HIDE DEF n, p
    <3>3. CountOK(n)
      BY <1>0, <2>2, <2>3, <3>1, <3>2, MovedCounts
    <3>4. QED
      BY <2>1, <2>4, <2>6, <3>3
  <2>7. QED
    BY <2>5, <2>6
<1>6. CASE ~Panicked /\ (LoadPage(TRUE) \/ LoadPage(FALSE))
  <2> DEFINE yes == TRUE
             no == FALSE
  <2>1. LoadPage(yes) \/ LoadPage(no) => OnlyDevices' /\ CountOK(kheap')
    <3> HIDE DEF yes, no
    <3>1. QED
      BY <1>4, <1>6
  <2>2. QED
    BY <1>6, <2>1, Zenon
<1>7. QED
  BY <1>1, <1>2, <1>3, <1>5, <1>6 DEF Next, Hypervisor, Guest, Halted

\* mm.pages counts the pages mapped, for any sizes, while the guests' own
\* translation is the identity (pgtable_stage2.cc, trap_mem.cc).
THEOREM PagesCounted == Identity => (Spec => []PagesAreCounted)
<1> SUFFICES ASSUME Identity PROVE Spec => []PagesAreCounted
  OBVIOUS
<1>1. Init => CountInv
  <2> SUFFICES ASSUME Init PROVE CountInv
    OBVIOUS
  <2>1. MemoryInv
    BY InitInv
  <2>2. \A g \in Guests : kheap.root[g] = Null /\ kheap.pages[g] = 0
    BY DEF Init
  <2>3. \A g \in Guests, a \in Ipas : Walk(kheap, g, a) = NoEntry
    BY <2>2, WalkNoRoot
  <2>4. \A g \in Guests : MappedAt(kheap, g) = {}
    BY <2>3 DEF MappedAt
  <2>5. CountOK(kheap)
    BY <2>2, <2>4, FS_EmptySet DEF CountOK
  <2>6. OnlyDevices
    BY <2>3 DEF OnlyDevices
  <2>7. QED
    BY <2>1, <2>5, <2>6 DEF CountInv
<1>2. CountInv /\ [Next]_vars => CountInv'
  <2>1. MemoryInv /\ [Next]_vars => MemoryInv'
    BY InvStep
  <2>2. CountInv /\ [Next]_vars => OnlyDevices' /\ CountOK(kheap')
    BY CountStep
  <2>3. QED
    BY <2>1, <2>2 DEF CountInv, CountOK, MappedAt
<1>3. CountInv => PagesAreCounted
  BY DEF CountInv, CountOK, MappedAt, PagesAreCounted
<1>4. QED
  BY <1>1, <1>2, <1>3, PTL DEF Spec

\* A fault maps the page whose absence caused it, or ends in PANIC: repeating the
\* instruction does not fault again (trap_mem.cc).
THEOREM FaultsDoNotRepeat == Identity => (Spec => OneFaultIsEnough)
<1> SUFFICES ASSUME Identity PROVE Spec => OneFaultIsEnough
  OBVIOUS
<1> DEFINE Enough(g) ==
      (handler.op = "idle" /\ kheap'.pages[g] # kheap.pages[g]) =>
        Walk(kheap', g, Stage1[g][access[g]]).type = "dram"
<1>1. MemoryInv /\ [Next]_vars => [\A g \in Guests : Enough(g)]_vars
  <2> SUFFICES ASSUME MemoryInv, Next, NEW g \in Guests,
                      handler.op = "idle", kheap'.pages[g] # kheap.pages[g]
               PROVE  Walk(kheap', g, Stage1[g][access[g]]).type = "dram"
    OBVIOUS
  <2>1. PICK j \in Guests : ~Panicked /\ HandleMmTrapMemoryAccessFault(j)
    <3>1. kheap' # kheap
      OBVIOUS
    <3>2. QED
      BY <3>1 DEF Next, Hypervisor, Guest, Halted, vars, CreateObject, CreateEnd,
                  MapNewDevicePage, LoadPage, LoadEnd, LoadStart, Access, Complete
  <2> DEFINE a == access[j]
             p == NewFrame(uheap)
             n == MapPage(kheap, j, a, Dram(p))
             no == FALSE
             m == IF no /\ ~n.full THEN KmmZalloc(n, Object) ELSE n
  <2>2. /\ a # None /\ ~UmmZalloc(uheap, <<j, a>>).full /\ kheap' = m
    BY <2>1 DEF HandleMmTrapMemoryAccessFault
  <2>3. a \in Ram /\ a \in Ipas
    BY <2>2, InvParts, MemoryAssumption DEF TypeOK
  <2>4. HeapType(kheap)
    BY InvParts
  <2> HIDE DEF a, no
  <2>5. Moved(kheap, m, j, a, Dram(p))
    BY <2>1, <2>2, <2>3, PageMoved
  <2> HIDE DEF m, p
  <2>6. /\ Updates(kheap, kheap', j, a, Dram(p))
        /\ kheap'.pages = [kheap.pages EXCEPT ![j] = @ + 1]
    BY <2>2, <2>5 DEF Moved
  <2>7. j = g
    BY <2>4, <2>6 DEF HeapType
  <2>8. Walk(kheap', g, a) = Dram(p)
    BY <2>3, <2>6, <2>7 DEF Updates
  <2>9. Stage1[g][access[g]] = a
    BY <2>3, <2>7 DEF Identity, a
  <2>10. QED
    BY <2>8, <2>9 DEF Dram
<1>2. QED
  BY <1>1, MemoryIsSafe, PTL DEF Spec, OneFaultIsEnough
=============================================================================
