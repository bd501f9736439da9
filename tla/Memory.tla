------------------------------- MODULE Memory -------------------------------
(***************************************************************************)
(* Where guests' memory comes from: the kernel heap (page tables, objects),*)
(* the user heap (guests' pages), the stage-2 tables, the set-up of a vCPU,*)
(* the loader and the stage-2 translation fault.  All of it runs at EL2    *)
(* with interrupts masked; `handler' is the one call in progress.          *)
(***************************************************************************)
EXTENDS Naturals, Sequences, FiniteSets

CONSTANTS
  NrVcpus,
  HeapPages,    \* pages of the kernel heap
  UserPages,    \* pages of the user heap
  Index,        \* indices of a table's entries
  Ram,          \* guest pages that are memory
  Devices,      \* guest pages the board maps, in order: [ipa, pa, type]
  LoadPages,    \* LoadPages[g]: the pages from file_load_va on, in order
  File,         \* File[g][k]: the image's k-th page
  Stage1,       \* Stage1[g]: guest g's own translation
  Data,         \* contents of a page
  Zero,         \* ... after memzero
  Stale,        \* ... that was never written
  StaleEntry,   \* a table entry in a page that was never written
  None          \* no access

Guests == 1 .. NrVcpus

\* An address is the indices of its page at the levels 1, 2 and 3.
Ipas == Index \X Index \X Index

Null == 0
NoEntry == [to |-> 0, type |-> "none"]
Leaf == {"dram", "emulated", "direct"}
Entries == [to : Nat, type : {"none", "table"} \cup Leaf]
HeapRange == 1 .. HeapPages
UserRange == 1 .. UserPages

\* What a page was allocated for (never read by the code).
Uses == [level : 0 .. 3, g : Nat, i : Nat, j : Nat]
Object == [level |-> 0, g |-> 0, i |-> 0, j |-> 0]
Lv1(g) == [level |-> 1, g |-> g, i |-> 0, j |-> 0]
Lv2(g, i) == [level |-> 2, g |-> g, i |-> i, j |-> 0]
Lv3(g, i, j) == [level |-> 3, g |-> g, i |-> i, j |-> j]

ASSUME MemoryAssumption ==
  /\ NrVcpus \in Nat \ {0}
  /\ HeapPages \in Nat \ {0}
  /\ UserPages \in Nat \ {0}
  /\ Index \subseteq Nat
  /\ Ram \subseteq Ipas
  /\ Devices \in Seq([ipa : Ipas \ Ram, pa : Nat, type : {"emulated", "direct"}])
  /\ \A k, l \in DOMAIN Devices : Devices[k].ipa = Devices[l].ipa => k = l
  /\ LoadPages \in [Guests -> Seq(Ram)]
  /\ \A g \in Guests : \A k, l \in DOMAIN LoadPages[g] :
       LoadPages[g][k] = LoadPages[g][l] => k = l
  /\ File \in [Guests -> Seq(Data)]
  /\ \A g \in Guests : DOMAIN File[g] = DOMAIN LoadPages[g]
  /\ Stage1 \in [Guests -> [Ram -> Ram]]
  /\ Zero \in Data /\ Stale \in Data
  /\ StaleEntry \in Entries
  /\ None \notin Ram

VARIABLES
  kheap,      \* kernelHeapMemMap, pages used as tables, each task's mm
  uheap,      \* userMemoryRegionMap_, nextFreeSpaceIndex, contents of the pages
  handler,    \* what EL2 is doing: [op, g, k]
  started,    \* the guests whose image is loaded
  access      \* the address a guest's current instruction accesses

vars == <<kheap, uheap, handler, started, access>>

Idle == [op |-> "idle", g |-> 0, k |-> 0]

\* CreateTask and Board::Init allocate a Tcb, a Console, two queues and their
\* buffers.
NrObjects == 6

Init ==
  /\ kheap = [used  |-> [p \in HeapRange |-> FALSE],
              use   |-> [p \in HeapRange |-> Object],
              table |-> [p \in HeapRange |-> [i \in Index |-> StaleEntry]],
              root  |-> [g \in Guests |-> Null],
              pages |-> [g \in Guests |-> 0],
              full  |-> FALSE]
  /\ uheap = [used  |-> [p \in UserRange |-> FALSE],
              use   |-> [p \in UserRange |-> <<0, None>>],
              next  |-> 1,
              frame |-> [p \in UserRange |-> Stale],
              full  |-> FALSE]
  /\ handler = [op |-> "create", g |-> 1, k |-> 0]
  /\ started = [g \in Guests |-> FALSE]
  /\ access = [g \in Guests |-> None]

-----------------------------------------------------------------------------
(***************************************************************************)
(* Allocators.  PANIC ends everything: `full' is set, nothing is returned. *)
(***************************************************************************)

\* The first free page from a given one on.
FreeFrom(used, n) == {p \in DOMAIN used : p >= n /\ ~used[p]}
FirstFree(used, n) ==
  CHOOSE p \in FreeFrom(used, n) : \A q \in FreeFrom(used, n) : p <= q

\* Faulty: the page is not cleared.
KmmZallocStale(h, use) ==
  IF FreeFrom(h.used, 1) = {}
  THEN [h EXCEPT !.full = TRUE]
  ELSE LET p == FirstFree(h.used, 1) IN
       [h EXCEPT !.used[p] = TRUE, !.use[p] = use]

\* kmm_zalloc of a page or less, what the page is for being `use'.
KmmZalloc(h, use) ==
  IF FreeFrom(h.used, 1) = {}
  THEN [h EXCEPT !.full = TRUE]
  ELSE LET p == FirstFree(h.used, 1) IN
       [h EXCEPT !.used[p] = TRUE,
                 !.use[p] = use,
                 !.table[p] = [i \in Index |-> NoEntry]]

\* Faulty: the page is not cleared.
UmmZallocStale(u, use) ==
  IF FreeFrom(u.used, u.next) = {}
  THEN [u EXCEPT !.full = TRUE]
  ELSE LET p == FirstFree(u.used, u.next) IN
       [u EXCEPT !.used[p] = TRUE, !.use[p] = use, !.next = p + 1]

\* Faulty: neither the map nor the index is updated.
UmmZallocForgets(u, use) ==
  IF FreeFrom(u.used, u.next) = {}
  THEN [u EXCEPT !.full = TRUE]
  ELSE LET p == FirstFree(u.used, u.next) IN
       [u EXCEPT !.use[p] = use, !.frame[p] = Zero]

\* umm_zalloc of a page; the search starts at nextFreeSpaceIndex.
UmmZalloc(u, use) ==
  IF FreeFrom(u.used, u.next) = {}
  THEN [u EXCEPT !.full = TRUE]
  ELSE LET p == FirstFree(u.used, u.next) IN
       [u EXCEPT !.used[p] = TRUE,
                 !.use[p] = use,
                 !.next = p + 1,
                 !.frame[p] = Zero]

\* PageAllocate's result.
NewFrame(u) == FirstFree(u.used, u.next)

-----------------------------------------------------------------------------
(***************************************************************************)
(* The stage-2 tables                                                      *)
(***************************************************************************)

\* Faulty: an existing table is replaced.
CreatePageTableAlways(h, t, i, use) ==
  LET n == KmmZalloc(h, use) IN
  IF n.full
  THEN n
  ELSE [n EXCEPT !.table[t][i] =
          [to |-> FirstFree(h.used, 1), type |-> "table"]]

\* The table below entry i of table t, created if there is none.
CreatePageTable(h, t, i, use) ==
  IF h.full \/ h.table[t][i] # NoEntry
  THEN h
  ELSE LET n == KmmZalloc(h, use) IN
       IF n.full
       THEN n
       ELSE [n EXCEPT !.table[t][i] =
               [to |-> FirstFree(h.used, 1), type |-> "table"]]

CreateRoot(h, g) ==
  IF h.root[g] # Null
  THEN h
  ELSE LET n == KmmZalloc(h, Lv1(g)) IN
       IF n.full THEN n
       ELSE [n EXCEPT !.root[g] = FirstFree(h.used, 1)]

\* The three levels down to the table that maps ipa.
TablesFor(h, g, ipa) ==
  LET h1 == CreateRoot(h, g)
      lv1_table == h1.root[g]
      h2 == IF h1.full THEN h1
            ELSE CreatePageTable(h1, lv1_table, ipa[1], Lv2(g, ipa[1]))
      lv2_table == h2.table[lv1_table][ipa[1]].to
  IN  IF h2.full THEN h2
      ELSE CreatePageTable(h2, lv2_table, ipa[2], Lv3(g, ipa[1], ipa[2]))

\* The entries for an address at the levels 1, 2 and 3.
Entry1(h, g, ipa) == h.table[h.root[g]][ipa[1]]
Entry2(h, g, ipa) == h.table[Entry1(h, g, ipa).to][ipa[2]]
LastTable(h, g, ipa) == Entry2(h, g, ipa).to
Entry3(h, g, ipa) == h.table[LastTable(h, g, ipa)][ipa[3]]

\* Faulty: the last index is that of the level above.
MapPageAbove(h, g, ipa, entry) ==
  LET n == TablesFor(h, g, ipa) IN
  IF n.full THEN n
  ELSE [n EXCEPT !.pages[g] = @ + 1,
                 !.table[LastTable(n, g, ipa)][ipa[2]] = entry]

MapPage(h, g, ipa, entry) ==
  LET n == TablesFor(h, g, ipa) IN
  IF n.full THEN n
  ELSE [n EXCEPT !.pages[g] = @ + 1,
                 !.table[LastTable(n, g, ipa)][ipa[3]] = entry]

\* The walk of the processor; a table entry without a table faults.
Walk(h, g, ipa) ==
  IF h.root[g] = Null \/ Entry1(h, g, ipa).type # "table"
       \/ Entry2(h, g, ipa).type # "table"
  THEN NoEntry
  ELSE Entry3(h, g, ipa)

Dram(p) == [to |-> p, type |-> "dram"]
DeviceEntry(k) == [to |-> Devices[k].pa, type |-> Devices[k].type]

-----------------------------------------------------------------------------
(***************************************************************************)
(* Set-up of the vCPUs, in the order of kConfigVCPUs                       *)
(***************************************************************************)

Panicked == kheap.full \/ uheap.full

CreateObject ==
  /\ handler.op = "create" /\ handler.k < NrObjects
  /\ kheap' = KmmZalloc(kheap, Object)
  /\ handler' = [handler EXCEPT !.k = @ + 1]
  /\ UNCHANGED <<uheap, started, access>>

\* Board::Init's loops over the device pages.
MapNewDevicePage ==
  /\ handler.op = "create" /\ handler.k >= NrObjects
  /\ handler.k - NrObjects < Len(Devices)
  /\ LET k == handler.k - NrObjects + 1 IN
       kheap' = MapPage(kheap, handler.g, Devices[k].ipa, DeviceEntry(k))
  /\ handler' = [handler EXCEPT !.k = @ + 1]
  /\ UNCHANGED <<uheap, started, access>>

CreateEnd ==
  /\ handler.op = "create" /\ handler.k = NrObjects + Len(Devices)
  /\ handler' = IF handler.g < NrVcpus
                THEN [op |-> "create", g |-> handler.g + 1, k |-> 0]
                ELSE Idle
  /\ UNCHANGED <<kheap, uheap, started, access>>

-----------------------------------------------------------------------------
(***************************************************************************)
(* LoadTaskImage, when the vCPU is dispatched first                        *)
(***************************************************************************)

LoadStart(g) ==
  /\ handler.op = "idle" /\ started[g] = FALSE
  /\ handler' = [op |-> "load", g |-> g, k |-> 0]
  /\ UNCHANGED <<kheap, uheap, started, access>>

\* PageMap, and the read into the page; the file system may put a new
\* cluster on its list (an object of its own).
LoadPage(node) ==
  /\ handler.op = "load" /\ handler.k < Len(LoadPages[handler.g])
  /\ LET g == handler.g
         k == handler.k + 1
         a == LoadPages[g][k]
         u == UmmZalloc(uheap, <<g, a>>)
         p == NewFrame(uheap)
         h == MapPage(kheap, g, a, Dram(p))
     IN  IF u.full
         THEN uheap' = u /\ UNCHANGED kheap
         ELSE /\ uheap' = [u EXCEPT !.frame[p] = File[g][k]]
              /\ kheap' = IF node /\ ~h.full THEN KmmZalloc(h, Object) ELSE h
  /\ handler' = [handler EXCEPT !.k = @ + 1]
  /\ UNCHANGED <<started, access>>

LoadEnd ==
  /\ handler.op = "load" /\ handler.k = Len(LoadPages[handler.g])
  /\ started' = [started EXCEPT ![handler.g] = TRUE]
  /\ handler' = Idle
  /\ UNCHANGED <<kheap, uheap, access>>

-----------------------------------------------------------------------------
(***************************************************************************)
(* Guests at EL1, and the stage-2 translation fault                        *)
(***************************************************************************)

Runs(g) == handler.op = "idle" /\ started[g] = TRUE

\* The guest's next load or store.
Access(g) ==
  /\ Runs(g) /\ access[g] = None
  /\ \E a \in Ram : access' = [access EXCEPT ![g] = a]
  /\ UNCHANGED <<kheap, uheap, handler, started>>

Entry(g) == Walk(kheap, g, Stage1[g][access[g]])

\* The page is there: the access is done, a store changes the page.
Complete(g) ==
  /\ Runs(g) /\ access[g] # None /\ Entry(g).type = "dram"
  /\ \E x \in Data : uheap' = [uheap EXCEPT !.frame[Entry(g).to] = x]
  /\ access' = [access EXCEPT ![g] = None]
  /\ UNCHANGED <<kheap, handler, started>>

\* A new page at the address in FAR_EL2; the instruction is then repeated.
HandleMmTrapMemoryAccessFault(g) ==
  /\ Runs(g) /\ access[g] # None /\ Entry(g) = NoEntry
  /\ LET u == UmmZalloc(uheap, <<g, access[g]>>) IN
       /\ uheap' = u
       /\ kheap' = IF u.full THEN kheap
                   ELSE MapPage(kheap, g, access[g], Dram(NewFrame(uheap)))
  /\ UNCHANGED <<handler, started, access>>

Halted == Panicked /\ UNCHANGED vars

Hypervisor == CreateObject \/ MapNewDevicePage \/ CreateEnd \/ LoadPage(TRUE)
              \/ LoadPage(FALSE) \/ LoadEnd

Guest(g) == Complete(g) \/ HandleMmTrapMemoryAccessFault(g)

Next ==
  \/ ~Panicked /\ Hypervisor
  \/ \E g \in Guests : ~Panicked /\ (LoadStart(g) \/ Access(g) \/ Guest(g))
  \/ Halted

Spec == Init /\ [][Next]_vars

-----------------------------------------------------------------------------
(***************************************************************************)
(* Properties                                                              *)
(***************************************************************************)

\* The kernel heap.  Nothing is freed: the used pages are the first ones.
HeapType(h) ==
  /\ h \in [used : [HeapRange -> BOOLEAN], use : [HeapRange -> Uses],
            table : [HeapRange -> [Index -> Entries]],
            root : [Guests -> HeapRange \cup {Null}],
            pages : [Guests -> Nat], full : BOOLEAN]
  /\ \E n \in 0 .. HeapPages : \A p \in HeapRange : h.used[p] <=> p <= n

UserType ==
  /\ uheap \in [used : [UserRange -> BOOLEAN],
                use : [UserRange -> ({0} \cup Guests) \X ({None} \cup Ram)],
                next : 1 .. UserPages + 1, frame : [UserRange -> Data],
                full : BOOLEAN]
  /\ \A p \in UserRange : uheap.used[p] <=> p < uheap.next

TypeOK ==
  /\ UserType
  /\ handler \in [op : {"create", "load", "idle"}, g : 0 .. NrVcpus, k : Nat]
  /\ started \in [Guests -> BOOLEAN]
  /\ access \in [Guests -> {None} \cup Ram]

\* Page p is in use, for l.
UsedFor(h, p, l) == p \in HeapRange /\ h.used[p] /\ h.use[p] = l

\* Every reference leads to a page that was allocated for exactly that place:
\* the tables of all guests are disjoint trees.
TablesAreTrees(h) ==
  /\ \A g \in Guests : h.root[g] # Null => UsedFor(h, h.root[g], Lv1(g))
  /\ \A p \in HeapRange, i \in Index :
       LET e == h.table[p][i]
           l == h.use[p]
       IN  (h.used[p] /\ e # NoEntry) =>
             /\ l.level = 1 => e.type = "table" /\ UsedFor(h, e.to, Lv2(l.g, i))
             /\ l.level = 2 =>
                  e.type = "table" /\ UsedFor(h, e.to, Lv3(l.g, l.i, i))
             /\ l.level = 3 => e.type \in Leaf

HeapOK(h) == HeapType(h) /\ TablesAreTrees(h)

\* A mapped page of memory was allocated for exactly that address.
RamIsOwned ==
  \A g \in Guests, a \in Ipas :
    LET e == Walk(kheap, g, a) IN
    e.type = "dram" => /\ a \in Ram /\ e.to \in UserRange
                       /\ uheap.used[e.to] /\ uheap.use[e.to] = <<g, a>>

RamIsNoDevice ==
  \A g \in Guests, a \in Ram :
    Walk(kheap, g, a) = NoEntry \/ Walk(kheap, g, a).type = "dram"

\* How many of the device pages, and of the image's pages, are mapped.
DevicesMapped(g) ==
  IF handler.op # "create" \/ g < handler.g THEN Len(Devices)
  ELSE IF g = handler.g /\ handler.k > NrObjects THEN handler.k - NrObjects
  ELSE 0

Loading(g) == handler.op = "load" /\ handler.g = g

PagesLoaded(g) == IF Loading(g) THEN handler.k ELSE 0

LoadedSoFar(g) ==
  /\ \A k \in 1 .. PagesLoaded(g) :
       LET e == Walk(kheap, g, LoadPages[g][k]) IN
       e.type = "dram" /\ uheap.frame[e.to] = File[g][k]
  /\ \A a \in Ram : (\A k \in 1 .. PagesLoaded(g) : LoadPages[g][k] # a) =>
       Walk(kheap, g, a) = NoEntry

\* An image is loaded page by page, into memory nothing was mapped in.
LoadProgress ==
  \A g \in Guests : (started[g] = FALSE /\ ~Panicked) => LoadedSoFar(g)

\* Where the set-up of the vCPUs has got to.
HandlerOK ==
  /\ handler.op = "create" =>
       /\ handler.g \in Guests /\ handler.k <= NrObjects + Len(Devices)
       /\ \A g \in Guests : started[g] = FALSE
  /\ handler.op = "load" =>
       /\ handler.g \in Guests /\ started[handler.g] = FALSE
       /\ handler.k <= Len(LoadPages[handler.g])
  /\ \A g \in Guests : access[g] # None => started[g] = TRUE

\* From the time the board has put it there, a device page is where it was put:
\* pages mapped elsewhere, by any guest and in any order, do not disturb its entry
\* (pgtable_stage2.cc, MapPage).  The guests' memory lies beside the devices.
DevicesStayMapped ==
  \A g \in Guests : \A k \in 1 .. DevicesMapped(g) :
    ~Panicked => Walk(kheap, g, Devices[k].ipa) = DeviceEntry(k)

\* The invariant: types, trees, owners, and how far set-up and loading are.
MemoryInv ==
  /\ TypeOK /\ HeapOK(kheap) /\ HandlerOK
  /\ RamIsOwned /\ RamIsNoDevice /\ LoadProgress

\* No page of memory is mapped at two addresses, of one guest or of two.
PagesArePrivate ==
  \A g, h \in Guests : \A a, b \in Ipas :
    LET e == Walk(kheap, g, a)
        f == Walk(kheap, h, b)
    IN  (e.type = "dram" /\ f.type = "dram" /\ e.to = f.to) => (g = h /\ a = b)

\* mm.pages counts the pages that are mapped: none is mapped twice.
PagesAreCounted ==
  \A g \in Guests :
    kheap.pages[g] = Cardinality({a \in Ipas : Walk(kheap, g, a) # NoEntry})

\* What a guest's memory holds when it starts.
ImageOf(g) ==
  [a \in Ram |-> IF \E k \in DOMAIN LoadPages[g] : LoadPages[g][k] = a
                 THEN File[g][CHOOSE k \in DOMAIN LoadPages[g] :
                                LoadPages[g][k] = a]
                 ELSE Zero]

\* What the guest finds at an address; a page that is not mapped yet reads as
\* zeros, the fault being invisible.
Content(g, a) ==
  IF ~started[g] THEN ImageOf(g)[a]
  ELSE LET e == Walk(kheap, g, a) IN
       IF e.type = "dram" THEN uheap.frame[e.to] ELSE Zero

Abstract == INSTANCE GuestMemory WITH
  Image <- [g \in Guests |-> ImageOf(g)],
  mem <- [g \in Guests |-> [a \in Ram |-> Content(g, a)]]

\* Loading, demand paging and page tables give each guest a private memory:
\* a fault changes nothing a guest can see, an access only the page accessed.
ImplementsGuestMemory == Abstract!Spec

\* One fault is enough: the page the handler maps is the one that was missing,
\* so the repeated instruction finds it.
OneFaultIsEnough ==
  [][\A g \in Guests :
       (handler.op = "idle" /\ kheap'.pages[g] # kheap.pages[g]) =>
         Walk(kheap', g, Stage1[g][access[g]]).type = "dram"]_vars
=============================================================================
