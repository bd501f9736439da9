------------------------------ MODULE Storage -------------------------------
(***************************************************************************)
(* LoaderLoadVcpu, for both boards: on the Raspberry Pi a file of a FAT32  *)
(* volume (fs/fat/fat32.cc), on QEMU the whole disk, sector by sector      *)
(* (drivers/virtio/virtio-blk.cc); and the pages of the uncached region    *)
(* they use (mm/uncached).  A read of the card may fail (how is in Mmc),   *)
(* and one of the virtio disk.                                             *)
(*                                                                         *)
(* Sizes count units, a fixed part of a sector.  What is copied is named   *)
(* by where it was on the disk: <<sector, unit>>.                          *)
(***************************************************************************)
EXTENDS Integers, Sequences, FiniteSets

CONSTANTS
  B,            \* kBlockSize
  PageSectors,  \* sectors in a page
  Volumes,      \* what may be on the card
  Disks,        \* capacities the virtio disk may have, in sectors
  Region,       \* pages of the uncached region
  Loads,        \* images to load
  W             \* width of the virtqueue's indices

EOC == 0        \* every number of IsValidCluster's end and bad ranges
Null == 0
Page == B * PageSectors

\* A volume: the cluster after each one, where data begins, and of the file the
\* first cluster of its directory, the sector of its entry, its own first cluster.
IsVolume(v) ==
  /\ v.spc \in Nat \ {0}
  /\ {v.data_first_sector, v.root, v.entry, v.file, v.size} \subseteq Nat
  /\ DOMAIN v.fat \subseteq Nat \ {0, 1}
  /\ \A c \in DOMAIN v.fat : v.fat[c] \in Nat

ASSUME StorageAssumption ==
  /\ {B, PageSectors, Region, Loads, W} \subseteq Nat \ {0}
  /\ 2^W \in Nat \ {0, 1}
  /\ \A v \in Volumes : IsVolume(v)
  /\ Disks \subseteq Nat \ {0}

VARIABLES
  board,      \* the board the program is built for
  vol,        \* the volume or disk there is
  after,      \* whether the word after the region's map reads as free
  pages,      \* kernelUncachedMemoryRegionMap_: [ref_count, size]
  live,       \* blocks handed out and not given back: [at, num_pages]
  pc,         \* where the loader is
  loaded,     \* images loaded so far
  found, buf, \* Open: the result, and prev_buf
  list, node, \* the cluster list, and how far cluster_list has come in it
  cluster, sector,
  pos, remains, \* how much of the file is copied, how much Read has to copy
  mem,        \* what is in memory for each unit of the file
  vq          \* virtqueue: indices of driver and device; the request: its
              \* sector, the sector in its buffer, its status

region == <<pages, live>>
walk == <<list, node, cluster, sector>>
copy == <<pos, remains, mem>>
setting == <<board, vol, after>>
vars == <<setting, region, pc, loaded, found, buf, walk, copy, vq>>

Minimum(a, b) == IF a <= b THEN a ELSE b

-----------------------------------------------------------------------------
(* The uncached region *)

\* kmm_is_spaces_available; behind the map there is some other variable.
Available(p) == IF p > Region THEN after ELSE pages.ref_count[p] = 0

Spaces(n) == {i \in 1 .. Region : \A j \in 0 .. n - 1 : Available(i + j)}
First(s) == CHOOSE i \in s : \A j \in s : i <= j

\* The map after kmm_uncached_malloc has handed out n pages from i on.
Taken(m, i, n) ==
  [ref_count |-> [p \in 1 .. Region |-> IF p \in i .. i + n - 1
                    THEN (m.ref_count[p] + 1) % 256 ELSE m.ref_count[p]],
   size |-> [p \in 1 .. Region |-> IF p \in i .. i + n - 1
               THEN n ELSE m.size[p]]]

\* Faulty: the page stays in use.
FreeKeepsRef(m, i) == [m EXCEPT !.size[i] = 0]

\* The map after kmm_uncached_free: every turn of the loop is about the block's
\* first page, whose size the first turn has cleared.
Free(m, i) ==
  [m EXCEPT !.ref_count[i] = (@ - m.size[i]) % 256, !.size[i] = 0]

Malloc(n) ==
  /\ Spaces(n) # {}
  /\ pages' = Taken(pages, First(Spaces(n)), n)
  /\ live' = live \cup {[at |-> First(Spaces(n)), num_pages |-> n]}

\* A block that is given back before the handler goes on.
MallocFree(n) ==
  /\ Spaces(n) # {}
  /\ pages' = Free(Taken(pages, First(Spaces(n)), n), First(Spaces(n)))
  /\ UNCHANGED live

Occupied(p) == {b \in live : b.at = p}

-----------------------------------------------------------------------------
(* Fat32Fs *)

Fat(c) == IF c \in DOMAIN vol.fat THEN vol.fat[c] ELSE EOC
IsValidCluster(c) == c >= 2

CalcSector(c, offset) ==
  vol.data_first_sector + (c - 2) * vol.spc + ((offset \div B) % vol.spc)

\* Faulty: the number of the last sector is off by one.
LastOfClusterNever(s) == s % vol.spc = vol.spc

LastOfCluster(s) == s % vol.spc = vol.spc - 1

\* CalcNextCluster: the next element, read from the FAT if it is the first time.
CalcNextCluster ==
  list' = IF node < Len(list) THEN list ELSE Append(list, Fat(list[node]))

\* CalcNextSector and the step of cluster_list after it, which is taken in every
\* turn, whether the cluster ends or not: cluster_list must not be null yet.
NextSector ==
  /\ node # Null
  /\ IF LastOfCluster(sector)
     THEN /\ CalcNextCluster
          /\ sector' = CalcSector(list'[node + 1], 0)
     ELSE UNCHANGED list /\ sector' = sector + 1
  /\ node' = IF node < Len(list') THEN node + 1 ELSE Null

\* Nothing is mapped at address 0: following a null pointer is the end, as is a
\* PANIC of a handler below.
Stop(as) ==
  /\ pc' = as
  /\ UNCHANGED <<setting, region, loaded, found, buf, walk, copy, vq>>

\* The FAT is read for an element the list does not have yet ...
NeedsFat == LastOfCluster(sector) /\ node = Len(list)

\* ... and the list has none where the cluster goes on.
RunsOff == ~LastOfCluster(sector) /\ node = Len(list)

\* How often a cluster's end is passed on the way to pos, and the first one.
Hops == pos \div (vol.spc * B) + 1

\* The points at which Fat32Fs calls ReadSector.
ReadsSector ==
  \/ pc = "init"
  \/ pc = "open" /\ ~found /\ IsValidCluster(cluster)
  \/ pc = "next" /\ NeedsFat
  \/ pc = "page" /\ pos < vol.size /\ Hops > Len(list)
  \/ pc = "read" /\ remains > 0 /\ IsValidCluster(cluster)

\* Mmc::Read has failed: ReadSector keeps its page and returns a null pointer, and
\* every one of its callers follows it.
ReadSectorFails ==
  /\ ReadsSector
  /\ Malloc(1)
  /\ pc' = "lost"
  /\ UNCHANGED <<setting, loaded, found, buf, walk, copy, vq>>

\* Mmc::Open asks the mailbox for a clock rate, which takes two pages, and
\* Fat32Fs::Init PANICs if the card does not come up.
MmcOpen ==
  /\ board = "raspi4" /\ pc = "start"
  /\ MallocFree(2)
  /\ pc' \in {"init", "lost"}
  /\ UNCHANGED <<setting, loaded, found, buf, walk, copy, vq>>

\* Fat32Fs::Init: the MBR and the volume's first sector are read and checked.
FsInit ==
  /\ pc = "init"
  /\ MallocFree(1)
  /\ pc' = IF vol.valid THEN "open" ELSE "failed"
  /\ list' = <<vol.root>> /\ node' = 1
  /\ cluster' = vol.root /\ sector' = CalcSector(vol.root, 0)
  /\ found' = FALSE /\ buf' = Null
  /\ UNCHANGED <<setting, loaded, copy, vq>>

\* Faulty: prev_buf is not given back.
OpenReadKeeps ==
  /\ pc = "open" /\ ~found /\ IsValidCluster(cluster)
  /\ Malloc(1)
  /\ buf' = First(Spaces(1))
  /\ found' = (sector = vol.entry)
  /\ pc' = "next"
  /\ UNCHANGED <<setting, loaded, walk, copy, vq>>

\* Open: one sector of the directory is read and searched; the buffer of the
\* one before is given back.
OpenRead ==
  /\ pc = "open" /\ ~found /\ IsValidCluster(cluster)
  /\ Spaces(1) # {}
  /\ LET p == First(Spaces(1))
         m == Taken(pages, p, 1)
     IN  /\ pages' = IF buf = Null THEN m ELSE Free(m, buf)
         /\ live' = (live \ Occupied(buf)) \cup {[at |-> p, num_pages |-> 1]}
         /\ buf' = p
  /\ found' = (sector = vol.entry)
  /\ pc' = "next"
  /\ UNCHANGED <<setting, loaded, walk, copy, vq>>

\* ... and the next sector is found.
OpenNext ==
  /\ pc = "next" /\ ~RunsOff
  /\ IF NeedsFat THEN MallocFree(1) ELSE UNCHANGED region
  /\ NextSector
  /\ cluster' = list'[node']
  /\ pc' = "open"
  /\ UNCHANGED <<setting, loaded, found, buf, copy, vq>>

\* cluster_list has become null, and `val' is read through it, whether the file has
\* been found or not.
OpenAstray ==
  /\ pc = "next" /\ RunsOff
  /\ Stop("astray")

\* The loop is left.  A file that was found has a cluster list of its own.
OpenEnd ==
  /\ pc = "open" /\ (found \/ ~IsValidCluster(cluster))
  /\ IF buf = Null THEN UNCHANGED <<pages, live>>
     ELSE pages' = Free(pages, buf) /\ live' = live \ Occupied(buf)
  /\ buf' = Null
  /\ IF found
     THEN pc' = "page" /\ list' = <<vol.file>>
     ELSE pc' = "failed" /\ UNCHANGED list
  /\ node' = Null
  /\ pos' = 0 /\ mem' = [u \in 0 .. vol.size - 1 |-> <<>>]
  /\ UNCHANGED <<setting, loaded, found, cluster, sector, remains, vq>>

\* Faulty: the FAT's entry for the first cluster is read each time.
ExtendedFromHead(n) ==
  [i \in 1 .. n |-> IF i <= Len(list) THEN list[i] ELSE Fat(list[1])]

\* The list as far as its n-th element.
Extended(n) ==
  LET c[i \in 1 .. n] == IF i <= Len(list) THEN list[i] ELSE Fat(c[i - 1])
  IN  [i \in 1 .. n |-> c[i]]

\* CalcCluster stops where the chain does.
ChainEnds(n) == \E i \in Len(list) + 1 .. n : ~IsValidCluster(Extended(n)[i])

\* The loader asks for the next page, which starts at a sector's beginning.
ReadBegin ==
  /\ pc = "page" /\ pos < vol.size /\ ~ChainEnds(Hops)
  /\ IF Hops > Len(list) THEN MallocFree(1) ELSE UNCHANGED region
  /\ list' = IF Hops > Len(list) THEN Extended(Hops) ELSE list
  /\ cluster' = list'[Hops]
  /\ node' = First({i \in DOMAIN list' : list'[i] = cluster'})
  /\ sector' = CalcSector(cluster', pos)
  /\ remains' = Minimum(Page, vol.size - pos)
  /\ pc' = "read"
  /\ UNCHANGED <<setting, loaded, found, buf, pos, mem, vq>>

ReadBeginLost ==
  /\ pc = "page" /\ pos < vol.size /\ ChainEnds(Hops)
  /\ Stop("lost")

\* Faulty: the number of sectors is rounded down.
CopyLenTruncated ==
  IF remains <= B \/ vol.spc = 1
  THEN Minimum(remains, B)
  ELSE Minimum(remains, B * (remains \div B))

\* Several sectors are read at once only if a cluster has several; how many is
\* rounded to the nearest.  (BPB_SecPerClus - sector is negative, as unsigned
\* number larger than any count: it bounds nothing.)
CopyLen ==
  IF remains <= B \/ vol.spc = 1
  THEN Minimum(remains, B)
  ELSE Minimum(remains, B * ((2 * remains + B) \div (2 * B)))

\* One turn of Read's loop.
ReadStep ==
  /\ pc = "read" /\ remains > 0 /\ IsValidCluster(cluster)
  /\ MallocFree(1)
  /\ mem' = [u \in DOMAIN mem |->
               IF u \in pos .. pos + CopyLen - 1
               THEN <<sector + (u - pos) \div B, (u - pos) % B>>
               ELSE mem[u]]
  /\ pos' = pos + CopyLen /\ remains' = remains - CopyLen
  /\ NextSector
  /\ UNCHANGED <<setting, pc, loaded, found, buf, cluster, vq>>

\* The turn before has left cluster_list null.  Whatever this one still reads and
\* copies, it then follows it.
ReadLost ==
  /\ pc = "read" /\ remains > 0 /\ IsValidCluster(cluster)
  /\ node = Null /\ Spaces(1) # {}
  /\ Stop("lost")

\* Where the list already has the chain's end, nothing is read; the loader sees
\* that less was read than it asked for.
ReadEnd ==
  /\ pc = "read" /\ (remains = 0 \/ ~IsValidCluster(cluster))
  /\ pc' = IF remains = 0 THEN "page" ELSE "failed"
  /\ UNCHANGED <<setting, region, loaded, found, buf, walk, copy, vq>>

-----------------------------------------------------------------------------
(* VirtioBlk *)

Succ(i) == (i + 1) % 2^W

NoRequest ==
  [avail |-> 0, last |-> 0, used |-> 0, seen |-> 0,
   sector |-> 0, data |-> -1, status |-> "none"]

\* DeviceInit and BlockDeviceInit: the device is reset, the virtqueue gets two
\* fresh pages, of which the index of the available ring reads as 0.
VirtioInit ==
  /\ board = "qemu" /\ pc = "start"
  /\ Malloc(2)
  /\ vq' = NoRequest
  /\ pc' = "request"
  /\ UNCHANGED <<setting, loaded, found, buf, walk, copy>>

\* ... and the request one.  Nothing gives them back.
VirtioInitEnd ==
  /\ pc = "request"
  /\ Malloc(1)
  /\ pc' = "disk"
  /\ pos' = 0 /\ mem' = [u \in 0 .. vol.size - 1 |-> <<>>]
  /\ UNCHANGED <<setting, loaded, found, buf, walk, remains, vq>>

Request == [vq EXCEPT !.sector = pos \div B, !.status = "none"]

\* Faulty: the device is not told.
ReadWriteDiskQuiet ==
  /\ pc = "disk" /\ pos < vol.size
  /\ vq' = Request
  /\ pc' = "notified"
  /\ UNCHANGED <<setting, region, loaded, found, buf, walk, copy>>

\* A request for the next sector is put into the available ring ...
ReadWriteDisk ==
  /\ pc = "disk" /\ pos < vol.size
  /\ vq' = [Request EXCEPT !.avail = Succ(@)]
  /\ pc' = "notified"
  /\ UNCHANGED <<setting, region, loaded, found, buf, walk, copy>>

\* ... and the driver counts it, before or after the device has served it.
CountRequest ==
  /\ pc = "notified"
  /\ vq' = [vq EXCEPT !.last = Succ(@)]
  /\ pc' = "wait"
  /\ UNCHANGED <<setting, region, loaded, found, buf, walk, copy>>

\* The device serves a request it has not seen, or fails.
Disk ==
  /\ vq.seen # vq.avail
  /\ \E s \in {"ok", "error"} :
       vq' = [vq EXCEPT !.seen = Succ(@), !.used = Succ(@), !.status = s,
                        !.data = IF s = "ok" THEN vq.sector ELSE @]
  /\ UNCHANGED <<setting, region, pc, loaded, found, buf, walk, copy>>

VirtqIsBusy == vq.last # vq.used

ReadWriteDiskEnd ==
  /\ pc = "wait" /\ ~VirtqIsBusy
  /\ IF vq.status = "ok"
     THEN /\ pc' = "disk" /\ pos' = pos + B
          /\ mem' = [u \in DOMAIN mem |->
                       IF u \in pos .. pos + B - 1
                       THEN <<vq.data, u - pos>> ELSE mem[u]]
     ELSE pc' = "failed" /\ UNCHANGED <<pos, mem>>
  /\ UNCHANGED <<setting, region, loaded, found, buf, walk, remains, vq>>

-----------------------------------------------------------------------------
(* LoaderLoadFile *)

NoVolume == [valid |-> TRUE, size |-> 0]

Init ==
  /\ \/ board = "raspi4" /\ vol \in Volumes
     \/ board = "qemu" /\ vol \in {[NoVolume EXCEPT !.size = n * B] : n \in Disks}
  /\ after \in BOOLEAN
  /\ pages = [ref_count |-> [p \in 1 .. Region |-> 0],
              size |-> [p \in 1 .. Region |-> 0]]
  /\ live = {}
  /\ pc = "start" /\ loaded = 0
  /\ found = FALSE /\ buf = Null
  /\ list = <<>> /\ node = Null /\ cluster = EOC /\ sector = 0
  /\ pos = 0 /\ remains = 0 /\ mem = <<>>
  /\ vq = NoRequest

\* "Successfully loaded"
LoadEnd ==
  /\ pc \in {"page", "disk"} /\ pos = vol.size
  /\ pc' = "loaded" /\ loaded' = loaded + 1
  /\ UNCHANGED <<setting, region, found, buf, walk, copy, vq>>

\* The next vCPU is dispatched first.
NextLoad ==
  /\ pc = "loaded" /\ loaded < Loads
  /\ pc' = "start"
  /\ UNCHANGED <<setting, region, loaded, found, buf, walk, copy, vq>>

\* What the next allocation asks for; PANIC if it is not there.
Asked ==
  IF pc = "start" THEN 2
  ELSE IF pc = "request" \/ ReadsSector THEN 1 ELSE 0

NoFreeSpace ==
  /\ pc # "panic" /\ Asked > 0 /\ Spaces(Asked) = {}
  /\ pc' = "panic"
  /\ UNCHANGED <<setting, region, loaded, found, buf, walk, copy, vq>>

Ended ==
  /\ pc \in {"failed", "panic", "lost", "astray"} \/ (pc = "loaded" /\ loaded = Loads)
  /\ UNCHANGED vars

Open == FsInit \/ OpenRead \/ OpenNext \/ OpenAstray \/ OpenEnd
Read == ReadBegin \/ ReadBeginLost \/ ReadStep \/ ReadLost \/ ReadEnd
Virtio ==
  \/ VirtioInit \/ VirtioInitEnd
  \/ ReadWriteDisk \/ CountRequest \/ ReadWriteDiskEnd

Loader ==
  \/ MmcOpen \/ Open \/ Read \/ ReadSectorFails \/ Virtio \/ LoadEnd \/ NextLoad \/ NoFreeSpace

Next == Loader \/ Disk \/ Ended

Spec == Init /\ [][Next]_vars

\* The loader runs on, with interrupts masked; the disk answers.
FairSpec == Spec /\ WF_vars(Loader) /\ WF_vars(Disk)

-----------------------------------------------------------------------------
(* Properties *)

Points == {"start", "init", "open", "next", "page", "read", "request", "disk",
           "notified", "wait", "loaded", "failed", "panic", "lost", "astray"}

TypeOK ==
  /\ pages \in [ref_count : [1 .. Region -> 0 .. 255],
                size : [1 .. Region -> 0 .. 2]]
  /\ live \subseteq [at : 1 .. Region, num_pages : 1 .. 2]
  /\ pc \in Points /\ loaded \in 0 .. Loads
  /\ buf \in 0 .. Region /\ node \in 0 .. Len(list)
  /\ list \in Seq(Nat) /\ cluster \in Nat /\ sector \in Int
  /\ pos \in 0 .. vol.size /\ remains \in 0 .. Page
  /\ vq \in [avail : 0 .. 2^W - 1, last : 0 .. 2^W - 1, used : 0 .. 2^W - 1,
             seen : 0 .. 2^W - 1, sector : Nat, data : Nat \cup {-1},
             status : {"none", "ok", "error"}]

\* The n-th cluster of a chain.
InChain(c, n) == LET d[i \in 0 .. n] == IF i = 0 THEN c ELSE Fat(d[i - 1]) IN d[n]

\* Where unit u of the image is on the disk.
Place(u) ==
  IF board = "qemu" THEN <<u \div B, u % B>>
  ELSE <<CalcSector(InChain(vol.file, u \div (vol.spc * B)), u), u % B>>

\* What is reported as successfully loaded is the image, each part in its place.
LoadedIsFile ==
  pc = "loaded" => mem = [u \in 0 .. vol.size - 1 |-> Place(u)]

\* Open says that there is no such file, or does not come back from its walk of the
\* directory, only if the file is in no sector of the root directory.
OpenFinds ==
  (board = "raspi4" /\ vol.valid /\ (pc = "astray" \/ (pc = "failed" /\ ~found))) =>
    \A n \in 0 .. Cardinality(DOMAIN vol.fat), k \in 0 .. vol.spc - 1 :
      IsValidCluster(InChain(vol.root, n)) =>
        vol.entry # CalcSector(InChain(vol.root, n), k * B)

\* Elements of the cluster list are what the FAT says, in its order, whichever
\* of the two functions that extend it put them there.
ListFollowsFat ==
  (list # <<>> /\ pc \in {"next", "open", "page", "read"}) =>
    /\ Head(list) \in {vol.root, vol.file}
    /\ \A i \in 1 .. Len(list) - 1 : list[i + 1] = Fat(list[i])

\* How many images the region lasts for: the mailbox's two pages and the virtio
\* driver's three never come back.
Lasting == IF board = "raspi4" THEN (Region - 2) \div 2 ELSE Region \div 3

\* Nothing else is lost: that long there is space, in the region, and no page is
\* in two blocks.
RegionLasts ==
  loaded < Lasting =>
    /\ pc # "panic"
    /\ \A b \in live : b.at + b.num_pages - 1 <= Region
    /\ \A b, c \in live : b # c =>
         b.at + b.num_pages <= c.at \/ c.at + c.num_pages <= b.at

\* The file system returns with no buffer left.
BuffersReturned ==
  (board = "raspi4" /\ pc \in {"start", "page", "loaded", "failed"}) => live = {}

\* Loading ends: no walk of the FAT and no wait for the disk goes on for ever.
LoadEnds == pc = "start" ~> pc \in {"loaded", "failed", "panic", "lost", "astray"}
=============================================================================
