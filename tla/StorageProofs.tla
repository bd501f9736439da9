--------------------------- MODULE StorageProofs ----------------------------
(***************************************************************************)
(* Theorems of Storage, for any region, any sizes and any volume or disk.  *)
(***************************************************************************)
EXTENDS Storage, SequenceTheorems, WellFoundedInduction, TLAPS

-----------------------------------------------------------------------------
(* Numbers and chains *)

LEMMA Least ==
  ASSUME NEW T, T \subseteq Nat, T # {}
  PROVE  \E x \in T : \A y \in T : x <= y
<1> DEFINE R == OpToRel(<, Nat)
<1>1. IsWellFoundedOn(R, Nat)
  BY NatLessThanWellFounded, Zenon
<1>2. \A x, y \in Nat : x < y => <<x, y>> \in R
  BY DEF OpToRel
<1> HIDE DEF R
<1>3. PICK x \in T : \A y \in T : ~ (<<y, x>> \in R)
  BY <1>1, WFMin, Zenon
<1>4. ASSUME NEW y \in T PROVE x <= y
  <2>1. x \in Nat /\ y \in Nat
    OBVIOUS
  <2>2. ~(y < x)
    BY <1>2, <1>3, <2>1
  <2> QED
    BY <2>1, <2>2
<1> QED
  BY <1>4

\* What a set of numbers has if it has 0 and with each number the next one.
LEMMA Steps ==
  ASSUME NEW S, 0 \in S, \A n \in Nat : n \in S => n + 1 \in S
  PROVE  Nat \subseteq S
<1> SUFFICES ASSUME Nat \ S # {} PROVE FALSE
  OBVIOUS
<1>1. PICK x \in Nat \ S : \A y \in Nat \ S : x <= y
  BY Least
<1>2. x # 0 /\ x \in Nat
  OBVIOUS
<1>3. x - 1 \in Nat /\ (x - 1) + 1 = x /\ ~(x <= x - 1)
  BY <1>2
<1>4. x - 1 \in S
  BY <1>1, <1>3
<1> QED
  BY <1>3, <1>4

LEMMA FirstIn ==
  ASSUME NEW S, S \subseteq Nat, S # {}
  PROVE  First(S) \in S /\ \A j \in S : First(S) <= j
BY Least DEF First

\* A position and what is left of it after whole blocks.
LEMMA Blocks ==
  ASSUME NEW b \in Nat \ {0}, NEW k \in Nat, NEW r \in 0 .. b - 1
  PROVE  /\ k * b \in Nat /\ k * b + r \in Nat
         /\ (k * b + r) \div b = k /\ (k * b + r) % b = r
<1>1. k * b \in Nat
  OBVIOUS
<1> QED
  BY <1>1

\* Quotient and remainder.
LEMMA DivMod ==
  ASSUME NEW a \in Nat, NEW n \in Nat \ {0}
  PROVE  /\ a \div n \in Nat /\ a % n \in 0 .. n - 1
         /\ a = (a \div n) * n + (a % n)
<1>1. a % n \in 0 .. n - 1
  OBVIOUS
<1>2. a \div n \in Nat
  OBVIOUS
<1>3. a = n * (a \div n) + (a % n)
  OBVIOUS
<1> QED
  BY <1>1, <1>2, <1>3

LEMMA Spread ==
  ASSUME NEW a \in Nat, NEW n \in Nat, NEW i \in Nat, NEW b \in Nat
  PROVE  (a * n + i) * b = a * (n * b) + i * b
<1>1. (a * n + i) * b = (a * n) * b + i * b
  OBVIOUS
<1>2. (a * n) * b = a * (n * b)
  OBVIOUS
<1> QED
  BY <1>1, <1>2

\* Between a whole number of blocks and a larger one there is a block.
LEMMA NextBlock ==
  ASSUME NEW b \in Nat \ {0}, NEW k \in Nat, NEW n \in Nat
  PROVE  /\ (k + 1) * b = k * b + b
         /\ k * b < n * b => k * b + b <= n * b
<1>1. (k + 1) * b = k * b + b
  OBVIOUS
<1>2. ASSUME k * b < n * b PROVE k * b + b <= n * b
  <2>1. k < n
    BY <1>2
  <2>2. PICK m \in Nat : n = k + 1 + m
    <3>1. n - k - 1 \in Nat /\ n = k + 1 + (n - k - 1)
      BY <2>1
    <3> QED
      BY <3>1
  <2>3. n * b = k * b + b + m * b /\ m * b \in Nat /\ k * b \in Nat
    BY <2>2
  <2> QED
    BY <2>3
<1> QED
  BY <1>1, <1>2

FatOf(v, c) == IF c \in DOMAIN v.fat THEN v.fat[c] ELSE EOC

\* A chain as far as its n-th element, as InChain has it.
IsChain(v, c, n, d) == d = [i \in 0 .. n |-> IF i = 0 THEN c ELSE FatOf(v, d[i - 1])]
At(v, c, n) == (CHOOSE d : IsChain(v, c, n, d))[n]

LEMMA AtIsInChain == \A c, n : InChain(c, n) = At(vol, c, n)
BY DEF InChain, At, IsChain, Fat, FatOf

LEMMA FatNat == ASSUME NEW v, IsVolume(v), NEW c PROVE FatOf(v, c) \in Nat
BY DEF IsVolume, FatOf, EOC

\* Two chains from c are the same as far as both go.
LEMMA ChainsAgree ==
  ASSUME NEW v, NEW c, NEW n \in Nat, NEW m \in Nat, NEW d, NEW e,
         IsChain(v, c, n, d), IsChain(v, c, m, e)
  PROVE  \A i \in Nat : i <= n /\ i <= m => d[i] = e[i]
<1> DEFINE S == {i \in Nat : i <= n /\ i <= m => d[i] = e[i]}
<1>1. \A i \in 0 .. n : d[i] = IF i = 0 THEN c ELSE FatOf(v, d[i - 1])
  BY Zenon DEF IsChain
<1>2. \A i \in 0 .. m : e[i] = IF i = 0 THEN c ELSE FatOf(v, e[i - 1])
  BY Zenon DEF IsChain
<1>3. 0 \in S
  BY <1>1, <1>2
<1>4. ASSUME NEW i \in Nat, i \in S PROVE i + 1 \in S
  <2> SUFFICES ASSUME i + 1 <= n, i + 1 <= m PROVE d[i + 1] = e[i + 1]
    OBVIOUS
  <2>1. i <= n /\ i <= m /\ i + 1 \in 0 .. n /\ i + 1 \in 0 .. m /\ i + 1 # 0
        /\ (i + 1) - 1 = i
    OBVIOUS
  <2>2. d[i] = e[i]
    BY <1>4, <2>1
  <2>3. d[i + 1] = FatOf(v, d[i]) /\ e[i + 1] = FatOf(v, e[i])
    BY <1>1, <1>2, <2>1
  <2> QED
    BY <2>2, <2>3
<1> HIDE DEF S
<1>5. Nat \subseteq S
  BY <1>3, <1>4, Steps
<1> QED
  BY <1>5 DEF S

LEMMA ChainExists ==
  ASSUME NEW v, NEW c, NEW n \in Nat
  PROVE  \E d : IsChain(v, c, n, d)
<1> DEFINE S == {k \in Nat : \E d : IsChain(v, c, k, d)}
<1>1. 0 \in S
  <2>1. IsChain(v, c, 0, [i \in 0 .. 0 |-> c])
    BY DEF IsChain
  <2> QED
    BY <2>1
<1>2. ASSUME NEW k \in Nat, k \in S PROVE k + 1 \in S
  <2>1. PICK d : IsChain(v, c, k, d)
    BY <1>2
  <2> DEFINE e == [i \in 0 .. k + 1 |-> IF i = k + 1 THEN FatOf(v, d[k]) ELSE d[i]]
  <2>2. \A i \in 0 .. k : d[i] = IF i = 0 THEN c ELSE FatOf(v, d[i - 1])
    BY <2>1, Zenon DEF IsChain
  <2>3. ASSUME NEW i \in 0 .. k + 1
        PROVE  e[i] = IF i = 0 THEN c ELSE FatOf(v, e[i - 1])
    <3>1. CASE i = k + 1
      <4>1. i # 0 /\ i - 1 = k /\ i - 1 \in 0 .. k + 1 /\ i - 1 # k + 1
        BY <3>1
      <4> QED
        BY <3>1, <4>1
    <3>2. CASE i = 0
      BY <2>2, <3>2
    <3>3. CASE i # 0 /\ i # k + 1
      <4>1. i \in 0 .. k /\ i - 1 \in 0 .. k + 1 /\ i - 1 # k + 1
        BY <3>3
      <4> QED
        BY <2>2, <3>3, <4>1
    <3> QED
      BY <3>1, <3>2, <3>3
  <2>4. e = [i \in 0 .. k + 1 |-> e[i]]
    OBVIOUS
  <2> HIDE DEF e
  <2>5. IsChain(v, c, k + 1, e)
    BY <2>3, <2>4, Zenon DEF IsChain
  <2> QED
    BY <2>5
<1> HIDE DEF S
<1>3. Nat \subseteq S
  BY <1>1, <1>2, Steps
<1> QED
  BY <1>3 DEF S

\* The chain starts at c, and its elements are what the FAT says.
LEMMA AtSteps ==
  ASSUME NEW v, NEW c
  PROVE  /\ At(v, c, 0) = c
         /\ \A n \in Nat : At(v, c, n + 1) = FatOf(v, At(v, c, n))
<1> DEFINE d(n) == CHOOSE e : IsChain(v, c, n, e)
<1>1. \A n \in Nat : IsChain(v, c, n, d(n))
  BY ChainExists
<1>2. \A n : At(v, c, n) = d(n)[n]
  BY DEF At
<1> HIDE DEF d
<1>3. At(v, c, 0) = c
  BY <1>1, <1>2 DEF IsChain
<1>4. ASSUME NEW n \in Nat PROVE At(v, c, n + 1) = FatOf(v, At(v, c, n))
  <2>1. IsChain(v, c, n, d(n)) /\ IsChain(v, c, n + 1, d(n + 1))
    BY <1>1
  <2>2. d(n + 1)[n] = d(n)[n]
    BY <2>1, ChainsAgree
  <2>3. n + 1 \in 0 .. n + 1 /\ n + 1 # 0 /\ (n + 1) - 1 = n
    OBVIOUS
  <2>4. d(n + 1)[n + 1] = FatOf(v, d(n + 1)[n])
    BY <2>1, <2>3 DEF IsChain
  <2> QED
    BY <1>2, <2>2, <2>4
<1> QED
  BY <1>3, <1>4

\* Past its end a chain stays ended.
LEMMA EndedChain ==
  ASSUME NEW v, IsVolume(v), NEW c, NEW m \in Nat, ~IsValidCluster(At(v, c, m)),
         At(v, c, m) \in Nat
  PROVE  \A n \in Nat : n >= m => ~IsValidCluster(At(v, c, n))
<1> DEFINE S == {k \in Nat : At(v, c, m + k) \in {0, 1}}
<1>1. 0 \in S
  BY DEF IsValidCluster
<1>2. ASSUME NEW k \in Nat, k \in S PROVE k + 1 \in S
  <2>1. m + k \in Nat /\ m + (k + 1) = (m + k) + 1
    OBVIOUS
  <2>2. At(v, c, m + (k + 1)) = FatOf(v, At(v, c, m + k))
    BY <2>1, AtSteps
  <2>3. At(v, c, m + k) \notin DOMAIN v.fat
    BY <1>2 DEF IsVolume
  <2> QED
    BY <2>2, <2>3 DEF FatOf, EOC
<1> HIDE DEF S
<1>3. Nat \subseteq S
  BY <1>1, <1>2, Steps
<1> SUFFICES ASSUME NEW n \in Nat, n >= m PROVE ~IsValidCluster(At(v, c, n))
  OBVIOUS
<1>4. n - m \in Nat /\ m + (n - m) = n
  OBVIOUS
<1> QED
  BY <1>3, <1>4 DEF S, IsValidCluster

\* Elements of a list that follows the FAT are those of the chain.
Follows(v, l) == \A i \in 1 .. Len(l) - 1 : l[i + 1] = FatOf(v, l[i])

LEMMA FollowsAt ==
  ASSUME NEW v, NEW c, NEW l \in Seq(Nat), l # <<>>, l[1] = c, Follows(v, l)
  PROVE  \A i \in 1 .. Len(l) : l[i] = At(v, c, i - 1)
<1> DEFINE S == {k \in Nat : k < Len(l) => l[k + 1] = At(v, c, k)}
<1>1. 0 \in S
  <2>1. At(v, c, 0) = c
    BY AtSteps
  <2>2. 0 \in Nat /\ 0 + 1 = 1
    OBVIOUS
  <2> QED
    BY <2>1, <2>2
<1>2. ASSUME NEW k \in Nat, k \in S PROVE k + 1 \in S
  <2> SUFFICES ASSUME k + 1 < Len(l) PROVE l[(k + 1) + 1] = At(v, c, k + 1)
    OBVIOUS
  <2>1. Len(l) \in Nat /\ k < Len(l) /\ k + 1 \in 1 .. Len(l) - 1
    OBVIOUS
  <2>2. l[k + 1] = At(v, c, k)
    BY <1>2, <2>1
  <2>3. l[(k + 1) + 1] = FatOf(v, l[k + 1])
    BY <2>1 DEF Follows
  <2>4. At(v, c, k + 1) = FatOf(v, At(v, c, k))
    BY AtSteps
  <2> QED
    BY <2>2, <2>3, <2>4
<1> HIDE DEF S
<1>3. Nat \subseteq S
  BY <1>1, <1>2, Steps
<1> SUFFICES ASSUME NEW i \in 1 .. Len(l) PROVE l[i] = At(v, c, i - 1)
  OBVIOUS
<1>4. i - 1 \in Nat /\ i - 1 < Len(l) /\ (i - 1) + 1 = i
  OBVIOUS
<1> QED
  BY <1>3, <1>4 DEF S

\* What Extended is of a list that is shorter.
IsExtension(v, l, n, c) ==
  c = [i \in 1 .. n |-> IF i <= Len(l) THEN l[i] ELSE FatOf(v, c[i - 1])]
Extension(v, l, n) == [i \in 1 .. n |-> (CHOOSE c : IsExtension(v, l, n, c))[i]]

LEMMA ExtendedIs == \A n : Extended(n) = Extension(vol, list, n)
BY DEF Extended, Extension, IsExtension, Fat, FatOf

LEMMA Extends ==
  ASSUME NEW v, IsVolume(v), NEW l \in Seq(Nat), l # <<>>, NEW n \in Nat, n > Len(l)
  PROVE  /\ Extension(v, l, n) \in Seq(Nat) /\ Len(Extension(v, l, n)) = n
         /\ \A i \in 1 .. Len(l) : Extension(v, l, n)[i] = l[i]
         /\ Follows(v, l) => Follows(v, Extension(v, l, n))
<1> DEFINE m == Len(l)
           e == [i \in 1 .. n |-> IF i <= m THEN l[i] ELSE At(v, l[m], i - m)]
           c == CHOOSE f : IsExtension(v, l, n, f)
           x == Extension(v, l, n)
<1>1. m \in Nat /\ m >= 1 /\ \A i \in 1 .. m : l[i] \in Nat
  OBVIOUS
<1>2. ASSUME NEW i \in 1 .. n
      PROVE  e[i] = IF i <= m THEN l[i] ELSE FatOf(v, e[i - 1])
  <2>1. CASE i <= m
    BY <2>1
  <2>2. CASE i = m + 1
    <3>1. i - 1 = m /\ i - m = 0 + 1 /\ ~(i <= m) /\ m \in 1 .. n /\ m <= m
      BY <1>1, <2>2
    <3>2. e[i] = At(v, l[m], 0 + 1) /\ e[i - 1] = l[m]
      BY <3>1
    <3>3. At(v, l[m], 0 + 1) = FatOf(v, At(v, l[m], 0)) /\ At(v, l[m], 0) = l[m]
      BY AtSteps
    <3> HIDE DEF e
    <3> QED
      BY <3>1, <3>2, <3>3
  <2>3. CASE i > m + 1
    <3>1. /\ i - 1 \in 1 .. n /\ ~(i - 1 <= m) /\ ~(i <= m)
          /\ (i - 1) - m \in Nat /\ i - m = ((i - 1) - m) + 1
      BY <1>1, <2>3
    <3>2. e[i] = At(v, l[m], ((i - 1) - m) + 1) /\ e[i - 1] = At(v, l[m], (i - 1) - m)
      BY <3>1
    <3>3. At(v, l[m], ((i - 1) - m) + 1) = FatOf(v, At(v, l[m], (i - 1) - m))
      BY <3>1, AtSteps
    <3> HIDE DEF e
    <3> QED
      BY <3>1, <3>2, <3>3
  <2> QED
    BY <1>1, <2>1, <2>2, <2>3
<1>3. e = [i \in 1 .. n |-> e[i]]
  OBVIOUS
<1> HIDE DEF e
<1>4. e = [i \in 1 .. n |-> IF i <= m THEN l[i] ELSE FatOf(v, e[i - 1])]
  <2> HIDE DEF m
  <2> QED
    BY <1>2, <1>3, Zenon
<1>5. IsExtension(v, l, n, e)
  BY <1>4 DEF IsExtension
<1>6. IsExtension(v, l, n, c)
  BY <1>5
<1>7. x = [i \in 1 .. n |-> c[i]]
  BY DEF Extension
<1> HIDE DEF c, x
<1>8. \A i \in 1 .. n : x[i] = IF i <= m THEN l[i] ELSE FatOf(v, c[i - 1])
  BY <1>6, <1>7 DEF IsExtension
<1>9. \A i \in 1 .. n : x[i] \in Nat
  BY <1>1, <1>8, FatNat
<1>10. x \in Seq(Nat) /\ Len(x) = n
  BY <1>7, <1>9
<1>11. \A i \in 1 .. m : x[i] = l[i]
  BY <1>1, <1>8
<1>12. ASSUME Follows(v, l) PROVE Follows(v, x)
  <2> SUFFICES ASSUME NEW i \in 1 .. n - 1 PROVE x[i + 1] = FatOf(v, x[i])
    BY <1>10 DEF Follows
  <2>1. i \in 1 .. n /\ i + 1 \in 1 .. n /\ (i + 1) - 1 = i
    OBVIOUS
  <2>2. CASE i + 1 <= m
    <3>1. i \in 1 .. m - 1 /\ i <= m
      BY <1>1, <2>2
    <3> QED
      BY <1>8, <1>12, <2>1, <2>2, <3>1 DEF Follows
  <2>3. CASE ~(i + 1 <= m)
    BY <1>7, <1>8, <2>1, <2>3
  <2> QED
    BY <2>2, <2>3
<1> QED
  BY <1>10, <1>11, <1>12 DEF x

-----------------------------------------------------------------------------
(* Types *)

\* The board and its volume or disk.
Setting ==
  \/ board = "raspi4" /\ vol \in Volumes
  \/ board = "qemu" /\ \E n \in Disks : vol = [NoVolume EXCEPT !.size = n * B]

\* Where the loader is on which board.
Sides ==
  /\ pc \in {"init", "open", "next", "page", "read"} => board = "raspi4"
  /\ pc \in {"request", "disk", "notified", "wait"} => board = "qemu"

\* Read stays in the file; the disk is read by whole sectors.
Copying ==
  /\ pc = "read" => pos + remains <= vol.size
  /\ pc \in {"notified", "wait"} => pos < vol.size
  /\ board = "qemu" => \E k \in Nat : pos = k * B

RegionOK ==
  /\ pages \in [ref_count : [1 .. Region -> 0 .. 255], size : [1 .. Region -> 0 .. 2]]
  /\ live \subseteq [at : 1 .. Region, num_pages : 1 .. 2]

WalkOK ==
  /\ list \in Seq(Nat) /\ node \in 0 .. Len(list)
  /\ cluster \in Nat /\ sector \in Int
  /\ pc \in {"open", "next", "page", "read"} => list # <<>>

CopyOK == pos \in 0 .. vol.size /\ remains \in 0 .. Page

Indices == 0 .. 2^W - 1
VqOK ==
  vq \in [avail : Indices, last : Indices, used : Indices, seen : Indices,
          sector : Nat, data : Nat \cup {-1}, status : {"none", "ok", "error"}]

PointOK ==
  /\ pc \in Points /\ loaded \in 0 .. Loads
  /\ pc \notin {"loaded", "failed", "panic", "lost", "astray"} => loaded < Loads
  /\ buf \in 0 .. Region /\ found \in BOOLEAN

TypeInv ==
  /\ Setting /\ Sides /\ Copying
  /\ RegionOK /\ WalkOK /\ CopyOK /\ VqOK /\ PointOK

LEMMA TypeInvIsTypeOK == TypeInv => TypeOK
BY DEF TypeInv, RegionOK, WalkOK, CopyOK, VqOK, PointOK, TypeOK, Indices

LEMMA SettingFacts ==
  ASSUME Setting
  PROVE  /\ board \in {"raspi4", "qemu"} /\ vol.size \in Nat
         /\ board = "raspi4" => IsVolume(vol)
         /\ board = "qemu" => \E n \in Disks : vol.size = n * B
<1>1. CASE board = "raspi4" /\ vol \in Volumes
  <2>1. IsVolume(vol)
    BY <1>1, StorageAssumption
  <2> QED
    BY <1>1, <2>1 DEF IsVolume
<1>2. CASE board = "qemu" /\ \E n \in Disks : vol = [NoVolume EXCEPT !.size = n * B]
  <2>1. PICK n \in Disks : vol = [NoVolume EXCEPT !.size = n * B]
    BY <1>2
  <2>2. vol.size = n * B
    BY <2>1 DEF NoVolume
  <2>3. n \in Nat /\ B \in Nat
    BY StorageAssumption
  <2>4. vol.size \in Nat
    BY <2>2, <2>3
  <2> QED
    BY <1>2, <2>2, <2>4
<1> QED
  BY <1>1, <1>2 DEF Setting

LEMMA Space ==
  ASSUME NEW n, Spaces(n) # {}
  PROVE  First(Spaces(n)) \in 1 .. Region /\ First(Spaces(n)) # Null
<1>1. Spaces(n) \subseteq 1 .. Region
  BY DEF Spaces
<1>2. 1 .. Region \subseteq Nat \ {0}
  BY StorageAssumption
<1>3. First(Spaces(n)) \in Spaces(n)
  BY <1>1, <1>2, FirstIn
<1> QED
  BY <1>1, <1>2, <1>3 DEF Null

Maps == [ref_count : [1 .. Region -> 0 .. 255], size : [1 .. Region -> 0 .. 2]]

LEMMA MapsAre ==
  ASSUME NEW m \in Maps
  PROVE  /\ m.ref_count \in [1 .. Region -> 0 .. 255] /\ m.size \in [1 .. Region -> 0 .. 2]
         /\ m = [ref_count |-> m.ref_count, size |-> m.size]
BY DEF Maps

LEMMA MapIs ==
  ASSUME NEW a \in [1 .. Region -> 0 .. 255], NEW b \in [1 .. Region -> 0 .. 2]
  PROVE  [ref_count |-> a, size |-> b] \in Maps
BY DEF Maps

LEMMA TakenOK ==
  ASSUME NEW m \in Maps, NEW i, NEW n \in {1, 2}
  PROVE  Taken(m, i, n) \in Maps
<1> DEFINE r == m.ref_count
           s == m.size
           a == [p \in 1 .. Region |-> IF p \in i .. i + n - 1
                   THEN (r[p] + 1) % 256 ELSE r[p]]
           b == [p \in 1 .. Region |-> IF p \in i .. i + n - 1 THEN n ELSE s[p]]
<1>1. r \in [1 .. Region -> 0 .. 255] /\ s \in [1 .. Region -> 0 .. 2]
  BY MapsAre
<1>2. Taken(m, i, n) = [ref_count |-> a, size |-> b]
  BY DEF Taken
<1> HIDE DEF r, s
<1>3. a \in [1 .. Region -> 0 .. 255]
  <2>1. ASSUME NEW x \in 0 .. 255 PROVE (x + 1) % 256 \in 0 .. 255
    OBVIOUS
  <2>2. ASSUME NEW p \in 1 .. Region PROVE a[p] \in 0 .. 255
    <3>1. (r[p] + 1) % 256 \in 0 .. 255 /\ r[p] \in 0 .. 255
      BY <1>1, <2>1
    <3>2. a[p] = (r[p] + 1) % 256 \/ a[p] = r[p]
      OBVIOUS
    <3> QED
      BY <3>1, <3>2
  <2>3. a = [p \in 1 .. Region |-> a[p]]
    OBVIOUS
  <2> HIDE DEF a
  <2> QED
    BY <2>2, <2>3
<1>4. b \in [1 .. Region -> 0 .. 2]
  BY <1>1
<1> HIDE DEF a, b
<1> QED
  BY <1>2, <1>3, <1>4, MapIs

LEMMA FreeOK ==
  ASSUME NEW m \in Maps, NEW i \in 1 .. Region
  PROVE  Free(m, i) \in Maps
<1> DEFINE r == m.ref_count
           s == m.size
           a == [r EXCEPT ![i] = (r[i] - s[i]) % 256]
           b == [s EXCEPT ![i] = 0]
<1>1. r \in [1 .. Region -> 0 .. 255] /\ s \in [1 .. Region -> 0 .. 2]
  BY MapsAre
<1>2. Free(m, i) = [ref_count |-> a, size |-> b]
  <2>1. m = [ref_count |-> r, size |-> s]
    BY MapsAre
  <2>2. Free(m, i) = [[m EXCEPT !.ref_count[i] = (r[i] - s[i]) % 256] EXCEPT !.size[i] = 0]
    BY DEF Free
  <2> HIDE DEF r, s
  <2>3. [m EXCEPT !.ref_count[i] = (r[i] - s[i]) % 256] = [ref_count |-> a, size |-> s]
    BY <2>1
  <2> DEFINE e == [m EXCEPT !.ref_count[i] = (r[i] - s[i]) % 256]
  <2>4. e = [ref_count |-> a, size |-> s] /\ Free(m, i) = [e EXCEPT !.size[i] = 0]
    BY <2>2, <2>3
  <2> HIDE DEF a, e
  <2> QED
    BY <2>4
<1> HIDE DEF r, s
<1>3. a \in [1 .. Region -> 0 .. 255]
  <2>1. r[i] \in 0 .. 255 /\ s[i] \in 0 .. 2
    BY <1>1
  <2>2. (r[i] - s[i]) % 256 \in 0 .. 255
    BY <2>1
  <2> QED
    BY <1>1, <2>2
<1>4. b \in [1 .. Region -> 0 .. 2]
  BY <1>1
<1> HIDE DEF a, b
<1> QED
  BY <1>2, <1>3, <1>4, MapIs

\* What a step does with the region.
LEMMA RegionChanges ==
  ASSUME [Next]_vars
  PROVE  \/ UNCHANGED region \/ OpenRead \/ OpenEnd
         \/ \E n \in {1, 2} : Malloc(n) \/ MallocFree(n)
<1>1. Disk \/ Ended \/ UNCHANGED vars => UNCHANGED region
  BY DEF Disk, Ended, vars
<1>2. LoadEnd \/ NextLoad \/ NoFreeSpace => UNCHANGED region
  BY DEF LoadEnd, NextLoad, NoFreeSpace
<1>3. ASSUME Virtio PROVE UNCHANGED region \/ Malloc(1) \/ Malloc(2)
  BY <1>3 DEF Virtio, VirtioInit, VirtioInitEnd, ReadWriteDisk, CountRequest, ReadWriteDiskEnd
<1>4. ASSUME Read PROVE UNCHANGED region \/ MallocFree(1)
  BY <1>4 DEF Read, ReadBegin, ReadBeginLost, ReadStep, ReadLost, ReadEnd, Stop
<1>5. ASSUME Open PROVE UNCHANGED region \/ MallocFree(1) \/ OpenRead \/ OpenEnd
  BY <1>5 DEF Open, FsInit, OpenNext, OpenAstray, Stop
<1>6. MmcOpen => MallocFree(2)
  BY DEF MmcOpen
<1>7. ReadSectorFails => Malloc(1)
  BY DEF ReadSectorFails
<1> HIDE DEF region, OpenRead, OpenEnd, Malloc, MallocFree
<1> QED
  BY <1>1, <1>2, <1>3, <1>4, <1>5, <1>6, <1>7 DEF Next, Loader

LEMMA FatIs == \A c : Fat(c) = FatOf(vol, c)
BY DEF Fat, FatOf

\* CalcSector, of any volume.
SectorOf(v, c, offset) ==
  v.data_first_sector + (c - 2) * v.spc + ((offset \div B) % v.spc)

LEMMA SectorInt ==
  ASSUME NEW v, IsVolume(v), NEW c \in Nat, NEW offset \in Nat
  PROVE  SectorOf(v, c, offset) \in Int
<1>1. v.data_first_sector \in Int /\ v.spc \in Nat \ {0} /\ B \in Nat \ {0}
  BY StorageAssumption DEF IsVolume
<1>2. offset \div B \in Int
  BY <1>1
<1>3. (offset \div B) % v.spc \in Int /\ (c - 2) * v.spc \in Int
  BY <1>1, <1>2
<1> QED
  BY <1>1, <1>3 DEF SectorOf

\* What NextSector does with the list: the element after node is there, or is
\* read from the FAT.
LEMMA NextSectorIs ==
  ASSUME IsVolume(vol), list \in Seq(Nat), list # <<>>, node \in 0 .. Len(list),
         sector \in Int, NextSector
  PROVE  /\ list' \in Seq(Nat) /\ list' # <<>> /\ Len(list') >= Len(list)
         /\ \A i \in 1 .. Len(list) : list'[i] = list[i]
         /\ Follows(vol, list) => Follows(vol, list')
         /\ node' \in 0 .. Len(list') /\ sector' \in Int
         /\ LastOfCluster(sector) => /\ node' = node + 1
                                     /\ sector' = SectorOf(vol, list'[node + 1], 0)
         /\ node \in 1 .. Len(list) /\ (~RunsOff => node' \in 1 .. Len(list'))
<1>0. node \in 1 .. Len(list)
  BY DEF NextSector, Null
<1>1. CASE ~LastOfCluster(sector)
  <2>1. list' = list /\ sector' = sector + 1
    BY <1>1 DEF NextSector
  <2>2. node' = IF node < Len(list) THEN node + 1 ELSE Null
    BY <2>1 DEF NextSector
  <2> QED
    BY <1>0, <1>1, <2>1, <2>2 DEF Null, RunsOff
<1>2. CASE LastOfCluster(sector)
  <2>1. node \in 1 .. Len(list) /\ Len(list) \in Nat
    BY <1>2 DEF NextSector, Null
  <2>2. /\ list' = IF node < Len(list) THEN list ELSE Append(list, FatOf(vol, list[node]))
        /\ sector' = SectorOf(vol, list'[node + 1], 0)
        /\ node' = IF node < Len(list') THEN node + 1 ELSE Null
    BY <1>2, <2>1, FatIs DEF NextSector, CalcNextCluster, CalcSector, SectorOf, Null
  <2>3. CASE node < Len(list)
    <3>1. list' = list /\ node' = node + 1 /\ node + 1 \in 1 .. Len(list)
      BY <2>1, <2>2, <2>3
    <3>2. list'[node + 1] \in Nat
      BY <3>1
    <3>3. sector' \in Int
      BY <2>2, <3>2, SectorInt
    <3>4. sector' = SectorOf(vol, list'[node + 1], 0)
      BY <2>2
    <3>5. Len(list') >= Len(list) /\ node' \in 0 .. Len(list') /\ node' \in 1 .. Len(list')
      BY <2>1, <3>1
    <3> QED
      BY <1>0, <3>1, <3>3, <3>4, <3>5, Zenon
  <2>4. CASE node = Len(list)
    <3> DEFINE x == FatOf(vol, list[node])
    <3>1. x \in Nat /\ list' = Append(list, x)
      BY <2>2, <2>4, FatNat
    <3> HIDE DEF x
    <3>2. /\ list' \in Seq(Nat) /\ list' # <<>> /\ Len(list') = Len(list) + 1
          /\ \A i \in 1 .. Len(list) : list'[i] = list[i]
          /\ list'[Len(list) + 1] = x
      BY <3>1, AppendProperties
    <3>3. node' = node + 1 /\ node + 1 \in 1 .. Len(list')
      BY <2>1, <2>2, <2>4, <3>2
    <3>4. sector' \in Int
      <4>1. list'[node + 1] \in Nat
        BY <3>2, <3>3
      <4> QED
        BY <2>2, <4>1, SectorInt
    <3>5. ASSUME Follows(vol, list) PROVE Follows(vol, list')
      <4> SUFFICES ASSUME NEW i \in 1 .. Len(list') - 1
                   PROVE  list'[i + 1] = FatOf(vol, list'[i])
        BY DEF Follows
      <4>1. CASE i = Len(list)
        BY <2>1, <2>4, <3>2, <4>1 DEF x
      <4>2. CASE i # Len(list)
        <5>1. i \in 1 .. Len(list) - 1 /\ i + 1 \in 1 .. Len(list) /\ i \in 1 .. Len(list)
          BY <2>1, <3>2, <4>2
        <5>2. list[i + 1] = FatOf(vol, list[i])
          BY <3>5, <5>1 DEF Follows
        <5> QED
          BY <3>2, <5>1, <5>2
      <4> QED
        BY <4>1, <4>2
    <3>6. sector' = SectorOf(vol, list'[node + 1], 0)
      BY <2>2
    <3>7. Len(list') >= Len(list) /\ node' \in 0 .. Len(list') /\ node' \in 1 .. Len(list')
      BY <2>1, <3>2, <3>3
    <3> QED
      BY <1>0, <3>2, <3>3, <3>4, <3>5, <3>6, <3>7, Zenon
  <2> QED
    BY <2>1, <2>3, <2>4
<1> QED
  BY <1>1, <1>2

\* How many units a turn of Read's loop copies.
LEMMA CopyLenIs ==
  ASSUME remains \in Nat, remains > 0
  PROVE  /\ CopyLen \in 1 .. remains
         /\ vol.spc = 1 => CopyLen = Minimum(remains, B)
<1>1. B \in Nat \ {0}
  BY StorageAssumption
<1>2. CASE remains <= B \/ vol.spc = 1
  BY <1>1, <1>2 DEF CopyLen, Minimum
<1>3. CASE ~(remains <= B \/ vol.spc = 1)
  <2> DEFINE q == (2 * remains + B) \div (2 * B)
  <2>1. 2 * B \in Nat \ {0} /\ 2 * remains + B \in Nat /\ 2 * remains + B >= 2 * B
    BY <1>1, <1>3
  <2>2. q \in Nat /\ q >= 1
    <3>1. ASSUME NEW a \in Nat, NEW b \in Nat \ {0}, a >= b
          PROVE  a \div b \in Nat /\ a \div b >= 1
      BY <3>1
    <3> QED
      BY <2>1, <3>1
  <2> HIDE DEF q
  <2>3. B * q \in Nat /\ B * q >= 1
    BY <1>1, <2>2
  <2>4. CopyLen = Minimum(remains, B * q)
    BY <1>3 DEF CopyLen, q
  <2> QED
    BY <1>3, <2>3, <2>4 DEF Minimum
<1> QED
  BY <1>2, <1>3

-----------------------------------------------------------------------------
(* What steps change *)

\* Where the actions lead, and what they leave alone.
Walking == {"open", "next", "page", "read"}

LEMMA SettingStays ==
  ASSUME [Next]_vars
  PROVE  board' = board /\ vol' = vol
<1>1. Disk \/ Ended \/ UNCHANGED vars => UNCHANGED setting
  BY DEF Disk, Ended, vars
<1>2. MmcOpen \/ ReadSectorFails \/ LoadEnd \/ NextLoad \/ NoFreeSpace => UNCHANGED setting
  BY DEF MmcOpen, ReadSectorFails, LoadEnd, NextLoad, NoFreeSpace
<1>3. Virtio => UNCHANGED setting
  BY DEF Virtio, VirtioInit, VirtioInitEnd, ReadWriteDisk, CountRequest, ReadWriteDiskEnd
<1>4. Read => UNCHANGED setting
  BY DEF Read, ReadBegin, ReadBeginLost, ReadStep, ReadLost, ReadEnd, Stop
<1>5. Open => UNCHANGED setting
  BY DEF Open, FsInit, OpenRead, OpenNext, OpenAstray, OpenEnd, Stop
<1> QED
  BY <1>1, <1>2, <1>3, <1>4, <1>5 DEF Next, Loader, setting

LEMMA WalkChanges ==
  ASSUME [Next]_vars
  PROVE  \/ UNCHANGED walk /\ (pc' \in Walking => pc \in Walking)
            /\ (pc' \in {"open", "next"} => pc \in {"open", "next"})
            /\ (pc' \in {"page", "read"} => pc \in {"page", "read"})
         \/ FsInit \/ OpenNext \/ OpenEnd \/ ReadBegin \/ ReadStep
<1> DEFINE Stays == UNCHANGED walk /\ (pc' \in Walking => pc \in Walking)
            /\ (pc' \in {"open", "next"} => pc \in {"open", "next"})
            /\ (pc' \in {"page", "read"} => pc \in {"page", "read"})
<1>1. Disk \/ Ended \/ UNCHANGED vars => Stays
  BY DEF Disk, Ended, vars
<1>2. MmcOpen \/ ReadSectorFails \/ LoadEnd \/ NextLoad \/ NoFreeSpace => Stays
  BY DEF MmcOpen, ReadSectorFails, LoadEnd, NextLoad, NoFreeSpace, Walking
<1>3. Virtio => Stays
  BY DEF Virtio, VirtioInit, VirtioInitEnd, ReadWriteDisk, CountRequest, ReadWriteDiskEnd,
         Walking
<1>4. Read => Stays \/ ReadBegin \/ ReadStep
  BY DEF Read, ReadBeginLost, ReadLost, ReadEnd, Stop, Walking
<1>5. Open => Stays \/ FsInit \/ OpenNext \/ OpenEnd
  BY DEF Open, OpenRead, OpenAstray, Stop, Walking
<1> HIDE DEF Stays
<1>6. Stays \/ FsInit \/ OpenNext \/ OpenEnd \/ ReadBegin \/ ReadStep
  BY <1>1, <1>2, <1>3, <1>4, <1>5 DEF Next, Loader
<1> QED
  BY <1>6 DEF Stays

LEMMA CopyChanges ==
  ASSUME [Next]_vars
  PROVE  \/ UNCHANGED copy /\ (pc' \in {"page", "read"} => pc \in {"page", "read"})
            /\ (pc' = "read" => pc = "read")
            /\ (pc' \in {"disk", "notified", "wait"} => pc \in {"disk", "notified", "wait"})
            /\ (pc' \in {"notified", "wait"} => pc \in {"notified", "wait"} \/ pos < vol.size)
            /\ (pc' = "loaded" => pc = "loaded" \/ (pc \in {"page", "disk"} /\ pos = vol.size))
         \/ OpenEnd \/ ReadBegin \/ ReadStep \/ VirtioInitEnd \/ ReadWriteDiskEnd
<1> DEFINE Stays == UNCHANGED copy /\ (pc' \in {"page", "read"} => pc \in {"page", "read"})
            /\ (pc' = "read" => pc = "read")
            /\ (pc' \in {"disk", "notified", "wait"} => pc \in {"disk", "notified", "wait"})
            /\ (pc' \in {"notified", "wait"} => pc \in {"notified", "wait"} \/ pos < vol.size)
            /\ (pc' = "loaded" => pc = "loaded" \/ (pc \in {"page", "disk"} /\ pos = vol.size))
<1>1. Disk \/ Ended \/ UNCHANGED vars => Stays
  BY DEF Disk, Ended, vars
<1>2. MmcOpen \/ ReadSectorFails \/ LoadEnd \/ NextLoad \/ NoFreeSpace => Stays
  BY DEF MmcOpen, ReadSectorFails, LoadEnd, NextLoad, NoFreeSpace
<1>3. Virtio => Stays \/ VirtioInitEnd \/ ReadWriteDiskEnd
  BY DEF Virtio, VirtioInit, ReadWriteDisk, CountRequest
<1>4. Read => Stays \/ ReadBegin \/ ReadStep
  BY DEF Read, ReadBeginLost, ReadLost, ReadEnd, Stop
<1>5. Open => Stays \/ OpenEnd
  BY DEF Open, FsInit, OpenRead, OpenNext, OpenAstray, Stop
<1> HIDE DEF Stays
<1>6. Stays \/ OpenEnd \/ ReadBegin \/ ReadStep \/ VirtioInitEnd \/ ReadWriteDiskEnd
  BY <1>1, <1>2, <1>3, <1>4, <1>5 DEF Next, Loader
<1> QED
  BY <1>6 DEF Stays

LEMMA VqChanges ==
  ASSUME [Next]_vars
  PROVE  \/ UNCHANGED vq /\ (pc' \in {"notified", "wait"} => pc' = pc)
            /\ (pc' \in {"notified", "wait"} => pos' = pos)
            /\ (pc \in {"notified", "wait"} => pc' = pc \/ ReadWriteDiskEnd)
         \/ VirtioInit \/ ReadWriteDisk \/ CountRequest \/ Disk
<1> DEFINE Stays == UNCHANGED vq /\ (pc' \in {"notified", "wait"} => pc' = pc)
            /\ (pc' \in {"notified", "wait"} => pos' = pos)
            /\ (pc \in {"notified", "wait"} => pc' = pc \/ ReadWriteDiskEnd)
<1>1. Ended \/ UNCHANGED vars => Stays
  BY DEF Ended, vars, copy
<1>2. MmcOpen \/ ReadSectorFails \/ LoadEnd \/ NextLoad \/ NoFreeSpace => Stays
  <2>1. NoFreeSpace => Stays
    BY DEF NoFreeSpace, Asked, ReadsSector
  <2>2. ReadSectorFails => Stays
    BY DEF ReadSectorFails, ReadsSector
  <2>3. MmcOpen \/ LoadEnd \/ NextLoad => Stays
    BY DEF MmcOpen, LoadEnd, NextLoad
  <2> QED
    BY <2>1, <2>2, <2>3
<1>3. Virtio => Stays \/ VirtioInit \/ ReadWriteDisk \/ CountRequest
  BY DEF Virtio, VirtioInitEnd, ReadWriteDiskEnd
<1>4. Read => Stays
  BY DEF Read, ReadBegin, ReadBeginLost, ReadStep, ReadLost, ReadEnd, Stop
<1>5. Open => Stays
  BY DEF Open, FsInit, OpenRead, OpenNext, OpenAstray, OpenEnd, Stop
<1> HIDE DEF Stays
<1>6. Stays \/ VirtioInit \/ ReadWriteDisk \/ CountRequest \/ Disk
  BY <1>1, <1>2, <1>3, <1>4, <1>5 DEF Next, Loader
<1> QED
  BY <1>6 DEF Stays

-----------------------------------------------------------------------------
(* Types are kept *)

LEMMA TypeInit == Init => TypeInv
<1> SUFFICES ASSUME Init PROVE TypeInv
  OBVIOUS
<1>1. Setting
  BY DEF Init, Setting
<1>2. Sides /\ Copying
  <2>1. 0 \in Nat /\ 0 * B = 0
    BY StorageAssumption
  <2> QED
    BY <2>1 DEF Init, Sides, Copying
<1>3. RegionOK
  <2>1. pages = [ref_count |-> [p \in 1 .. Region |-> 0], size |-> [p \in 1 .. Region |-> 0]]
        /\ live = {}
    BY DEF Init
  <2> QED
    BY <2>1 DEF RegionOK
<1>4. WalkOK
  <2>1. <<>> \in Seq(Nat) /\ 0 \in 0 .. Len(<<>>)
    OBVIOUS
  <2> QED
    BY <2>1 DEF Init, WalkOK, Null, EOC
<1>5. CopyOK
  <2>1. pos = 0 /\ remains = 0
    BY DEF Init
  <2>2. Page \in Nat
    BY StorageAssumption DEF Page
  <2> QED
    BY <1>1, <2>1, <2>2, SettingFacts DEF CopyOK
<1>6. VqOK
  <2>1. vq = [avail |-> 0, last |-> 0, used |-> 0, seen |-> 0,
              sector |-> 0, data |-> -1, status |-> "none"]
    BY DEF Init, NoRequest
  <2>2. 0 \in Indices
    BY StorageAssumption DEF Indices
  <2> QED
    BY <2>1, <2>2 DEF VqOK
<1>7. PointOK
  <2>1. pc = "start" /\ loaded = 0 /\ buf = 0 /\ found = FALSE
    BY DEF Init, Null
  <2>2. 0 \in 0 .. Region /\ 0 \in 0 .. Loads /\ 0 < Loads
    BY StorageAssumption
  <2> QED
    BY <2>1, <2>2 DEF PointOK, Points
<1> QED
  BY <1>1, <1>2, <1>3, <1>4, <1>5, <1>6, <1>7 DEF TypeInv

LEMMA SettingStep == TypeInv /\ [Next]_vars => Setting'
BY SettingStays DEF TypeInv, Setting

LEMMA PointStep ==
  ASSUME TypeInv, [Next]_vars
  PROVE  PointOK' /\ Sides'
<1>1. board' = board
  BY SettingStays
<1> DEFINE Good == PointOK' /\ Sides'
<1> USE DEF TypeInv, PointOK, Sides, Points
<1>2. Disk \/ Ended \/ UNCHANGED vars => Good
  BY <1>1 DEF Disk, Ended, vars
<1>3. MmcOpen \/ ReadSectorFails \/ LoadEnd \/ NextLoad \/ NoFreeSpace => Good
  <2>1. LoadEnd => Good
    <3> SUFFICES ASSUME LoadEnd PROVE Good
      OBVIOUS
    <3>1. /\ pc \in {"page", "disk"} /\ pc' = "loaded" /\ loaded' = loaded + 1
          /\ UNCHANGED <<found, buf>>
      BY DEF LoadEnd
    <3>2. loaded < Loads /\ loaded \in Nat /\ Loads \in Nat
      BY <3>1, StorageAssumption
    <3>3. loaded' \in 0 .. Loads
      BY <3>1, <3>2
    <3> QED
      BY <1>1, <3>1, <3>3
  <2>2. MmcOpen \/ ReadSectorFails \/ NextLoad \/ NoFreeSpace => Good
    BY <1>1 DEF MmcOpen, ReadSectorFails, NextLoad, NoFreeSpace
  <2> QED
    BY <2>1, <2>2
<1>4. Virtio => Good
  BY <1>1 DEF Virtio, VirtioInit, VirtioInitEnd, ReadWriteDisk, CountRequest, ReadWriteDiskEnd
<1>5. Read => Good
  BY <1>1 DEF Read, ReadBegin, ReadBeginLost, ReadStep, ReadLost, ReadEnd, Stop
<1>6. Open => Good
  <2>1. Null \in 0 .. Region
    BY StorageAssumption DEF Null
  <2>2. OpenRead => Good
    <3> SUFFICES ASSUME OpenRead PROVE Good
      OBVIOUS
    <3>1. /\ pc = "open" /\ pc' = "next" /\ loaded' = loaded /\ found' \in BOOLEAN
          /\ buf' = First(Spaces(1)) /\ Spaces(1) # {}
      BY DEF OpenRead
    <3>2. buf' \in 0 .. Region
      BY <3>1, Space
    <3> QED
      BY <1>1, <3>1, <3>2
  <2>3. FsInit \/ OpenNext \/ OpenAstray \/ OpenEnd => Good
    BY <1>1, <2>1 DEF FsInit, OpenNext, OpenAstray, OpenEnd, Stop
  <2> QED
    BY <2>2, <2>3 DEF Open
<1> HIDE DEF Good
<1>7. Good
  BY <1>2, <1>3, <1>4, <1>5, <1>6 DEF Next, Loader
<1> QED
  BY <1>7 DEF Good

LEMMA RegionStep ==
  ASSUME TypeInv, [Next]_vars
  PROVE  RegionOK'
<1>1. pages \in Maps /\ live \subseteq [at : 1 .. Region, num_pages : 1 .. 2]
  BY DEF TypeInv, RegionOK, Maps
<1>2. CASE UNCHANGED region
  BY <1>1, <1>2 DEF region, RegionOK, Maps
<1>3. ASSUME NEW n \in {1, 2}, Malloc(n) PROVE RegionOK'
  <2>1. pages' \in Maps
    BY <1>1, <1>3, TakenOK DEF Malloc
  <2>2. [at |-> First(Spaces(n)), num_pages |-> n] \in [at : 1 .. Region, num_pages : 1 .. 2]
    BY <1>3, Space DEF Malloc
  <2> QED
    BY <1>1, <1>3, <2>1, <2>2 DEF Malloc, RegionOK, Maps
<1>4. ASSUME NEW n \in {1, 2}, MallocFree(n) PROVE RegionOK'
  <2>1. pages' \in Maps
    BY <1>1, <1>4, TakenOK, FreeOK, Space DEF MallocFree
  <2> QED
    BY <1>1, <1>4, <2>1 DEF MallocFree, RegionOK, Maps
<1>5. ASSUME OpenRead PROVE RegionOK'
  <2> DEFINE p == First(Spaces(1))
  <2>1. p \in 1 .. Region
    BY <1>5, Space DEF OpenRead
  <2>2. /\ pages' = IF buf = Null THEN Taken(pages, p, 1) ELSE Free(Taken(pages, p, 1), buf)
        /\ live' = (live \ Occupied(buf)) \cup {[at |-> p, num_pages |-> 1]}
    BY <1>5 DEF OpenRead
  <2> HIDE DEF p
  <2>3. buf # Null => buf \in 1 .. Region
    BY StorageAssumption DEF TypeInv, PointOK, Null
  <2>4. pages' \in Maps
    BY <1>1, <2>2, <2>3, TakenOK, FreeOK
  <2>5. [at |-> p, num_pages |-> 1] \in [at : 1 .. Region, num_pages : 1 .. 2]
    BY <2>1
  <2> QED
    BY <1>1, <2>2, <2>4, <2>5 DEF RegionOK, Maps
<1>6. ASSUME OpenEnd PROVE RegionOK'
  <2>1. buf # Null => buf \in 1 .. Region
    BY StorageAssumption DEF TypeInv, PointOK, Null
  <2>2. /\ pages' = pages \/ (buf # Null /\ pages' = Free(pages, buf))
        /\ live' \subseteq live
    BY <1>6 DEF OpenEnd
  <2>3. pages' \in Maps
    BY <1>1, <2>1, <2>2, FreeOK
  <2> QED
    BY <1>1, <2>2, <2>3 DEF RegionOK, Maps
<1> QED
  BY <1>2, <1>3, <1>4, <1>5, <1>6, RegionChanges

LEMMA HopsIs == TypeInv /\ IsVolume(vol) => Hops \in Nat \ {0}
<1> SUFFICES ASSUME TypeInv, IsVolume(vol) PROVE Hops \in Nat \ {0}
  OBVIOUS
<1>1. pos \in Nat /\ vol.spc \in Nat \ {0} /\ B \in Nat \ {0} /\ vol.size \in Nat
  BY StorageAssumption DEF TypeInv, CopyOK, IsVolume
<1>2. vol.spc * B \in Nat \ {0}
  BY <1>1
<1>3. ASSUME NEW a \in Nat, NEW b \in Nat \ {0} PROVE a \div b \in Nat
  OBVIOUS
<1>4. pos \div (vol.spc * B) \in Nat
  BY <1>1, <1>2, <1>3
<1> QED
  BY <1>4 DEF Hops

\* Where Read begins: at the list's element for the position.
LEMMA ReadBeginIs ==
  ASSUME TypeInv, ReadBegin
  PROVE  /\ list' \in Seq(Nat) /\ list' # <<>> /\ list'[1] = list[1]
         /\ Follows(vol, list) => Follows(vol, list')
         /\ Hops \in 1 .. Len(list') /\ cluster' = list'[Hops]
         /\ node' \in 1 .. Len(list') /\ list'[node'] = cluster'
         /\ sector' = SectorOf(vol, cluster', pos) /\ sector' \in Int
<1>1. pc = "page" /\ board = "raspi4" /\ IsVolume(vol)
  BY SettingFacts DEF ReadBegin, TypeInv, Sides
<1>2. list \in Seq(Nat) /\ list # <<>> /\ Len(list) \in Nat /\ 1 \in 1 .. Len(list)
  BY <1>1 DEF TypeInv, WalkOK
<1>3. Hops \in Nat \ {0}
  BY <1>1, HopsIs
<1>4. /\ list' = IF Hops > Len(list) THEN Extension(vol, list, Hops) ELSE list
      /\ cluster' = list'[Hops]
      /\ node' = First({i \in DOMAIN list' : list'[i] = cluster'})
      /\ sector' = SectorOf(vol, cluster', pos)
  BY ExtendedIs DEF ReadBegin, CalcSector, SectorOf
<1>5. /\ list' \in Seq(Nat) /\ list' # <<>> /\ list'[1] = list[1]
      /\ Follows(vol, list) => Follows(vol, list')
      /\ Hops \in 1 .. Len(list')
  <2>1. CASE Hops > Len(list)
    <3> DEFINE x == Extension(vol, list, Hops)
    <3>1. /\ x \in Seq(Nat) /\ Len(x) = Hops /\ x[1] = list[1]
          /\ Follows(vol, list) => Follows(vol, x)
      BY <1>1, <1>2, <1>3, <2>1, Extends
    <3>2. list' = x
      BY <1>4, <2>1
    <3> HIDE DEF x
    <3>3. x # <<>>
      BY <1>3, <3>1
    <3>4. Hops \in 1 .. Len(x)
      BY <1>3, <3>1
    <3> QED
      BY <3>1, <3>2, <3>3, <3>4
  <2>2. CASE ~(Hops > Len(list))
    <3>1. list' = list
      BY <1>4, <2>2
    <3> QED
      BY <1>2, <1>3, <2>2, <3>1
  <2> QED
    BY <2>1, <2>2
<1>6. node' \in 1 .. Len(list') /\ list'[node'] = cluster'
  <2> DEFINE S == {i \in DOMAIN list' : list'[i] = cluster'}
  <2>1. DOMAIN list' = 1 .. Len(list')
    BY <1>5
  <2>2. Hops \in S /\ S \subseteq Nat
    BY <1>4, <1>5, <2>1
  <2>3. First(S) \in S
    BY <2>2, FirstIn
  <2>4. node' = First(S)
    BY <1>4
  <2> HIDE DEF First
  <2> QED
    BY <2>1, <2>3, <2>4
<1>7. sector' \in Int
  <2>1. cluster' \in Nat
    BY <1>4, <1>5
  <2>2. pos \in Nat
    BY SettingFacts DEF TypeInv, CopyOK
  <2> QED
    BY <1>1, <1>4, <2>1, <2>2, SectorInt
<1> QED
  BY <1>4, <1>5, <1>6, <1>7

LEMMA WalkStep ==
  ASSUME TypeInv, [Next]_vars
  PROVE  WalkOK'
<1>1. WalkOK /\ (pc \in Walking \cup {"init"} => board = "raspi4" /\ IsVolume(vol))
  BY SettingFacts DEF TypeInv, Sides, Walking
<1>2. CASE UNCHANGED walk /\ (pc' \in Walking => pc \in Walking)
  BY <1>1, <1>2 DEF walk, WalkOK, Walking
<1>3. CASE FsInit
  <2>1. /\ list' = <<vol.root>> /\ node' = 1 /\ cluster' = vol.root
        /\ sector' = SectorOf(vol, vol.root, 0) /\ pc = "init"
    BY <1>3 DEF FsInit, CalcSector, SectorOf
  <2>2. vol.root \in Nat /\ IsVolume(vol)
    BY <1>1, <2>1 DEF IsVolume
  <2>3. sector' \in Int
    BY <2>1, <2>2, SectorInt
  <2>4. list' \in Seq(Nat) /\ list' # <<>> /\ node' \in 0 .. Len(list')
    BY <2>1, <2>2
  <2> QED
    BY <2>1, <2>2, <2>3, <2>4 DEF WalkOK
<1>4. CASE OpenNext \/ ReadStep
  <2>1. pc \in Walking /\ NextSector
    BY <1>4 DEF OpenNext, ReadStep, Walking
  <2>2. /\ list' \in Seq(Nat) /\ list' # <<>> /\ node' \in 0 .. Len(list') /\ sector' \in Int
    BY <1>1, <2>1, NextSectorIs DEF WalkOK, Walking
  <2>3. cluster' \in Nat
    <3>1. CASE ReadStep
      BY <1>1, <3>1 DEF ReadStep, WalkOK
    <3>2. CASE OpenNext
      <4>1. cluster' = list'[node'] /\ ~RunsOff
        BY <3>2 DEF OpenNext
      <4>2. node' \in 1 .. Len(list')
        BY <1>1, <2>1, <4>1, NextSectorIs DEF WalkOK, Walking
      <4> QED
        BY <2>2, <4>1, <4>2
    <3> QED
      BY <1>4, <3>1, <3>2
  <2> QED
    BY <2>2, <2>3 DEF WalkOK
<1>5. CASE OpenEnd
  <2>1. /\ pc = "open" /\ node' = 0 /\ UNCHANGED <<cluster, sector>>
        /\ list' = <<vol.file>> \/ list' = list
    BY <1>5 DEF OpenEnd, Null
  <2>2. vol.file \in Nat
    BY <1>1, <2>1 DEF IsVolume, Walking
  <2>3. list' \in Seq(Nat) /\ list' # <<>>
    <3>1. list \in Seq(Nat) /\ list # <<>>
      BY <1>1, <2>1 DEF WalkOK
    <3>2. <<vol.file>> \in Seq(Nat) /\ <<vol.file>> # <<>>
      BY <2>2
    <3> QED
      BY <2>1, <3>1, <3>2
  <2>4. node' \in 0 .. Len(list')
    BY <2>1, <2>3
  <2> QED
    BY <1>1, <2>1, <2>3, <2>4 DEF WalkOK
<1>6. CASE ReadBegin
  <2>1. /\ list' \in Seq(Nat) /\ list' # <<>> /\ Hops \in 1 .. Len(list')
        /\ cluster' = list'[Hops] /\ node' \in 1 .. Len(list') /\ sector' \in Int
    BY <1>6, ReadBeginIs
  <2>2. cluster' \in Nat /\ node' \in 0 .. Len(list')
    BY <2>1
  <2> QED
    BY <2>1, <2>2 DEF WalkOK
<1> QED
  BY <1>2, <1>3, <1>4, <1>5, <1>6, WalkChanges

LEMMA CopyStep ==
  ASSUME TypeInv, [Next]_vars
  PROVE  CopyOK' /\ Copying'
<1>1. /\ CopyOK /\ Copying /\ vol' = vol /\ board' = board /\ vol.size \in Nat
      /\ Page \in Nat /\ B \in Nat \ {0}
      /\ pc \in {"open", "page", "read"} => board = "raspi4"
  BY SettingStays, SettingFacts, StorageAssumption DEF TypeInv, Sides, Page
<1>2. CASE UNCHANGED copy /\ (pc' = "read" => pc = "read")
           /\ (pc' \in {"notified", "wait"} => pc \in {"notified", "wait"} \/ pos < vol.size)
  BY <1>1, <1>2 DEF CopyOK, Copying, copy
<1>3. CASE OpenEnd \/ VirtioInitEnd
  <2>1. pos' = 0 /\ remains' = remains /\ pc' \notin {"read", "notified", "wait"}
    BY <1>3 DEF OpenEnd, VirtioInitEnd
  <2>2. 0 \in Nat /\ 0 * B = 0
    BY <1>1
  <2> QED
    BY <1>1, <2>1, <2>2 DEF CopyOK, Copying
<1>4. CASE ReadBegin
  <2>1. /\ pc = "page" /\ pc' = "read" /\ pos' = pos /\ remains' = Minimum(Page, vol.size - pos)
        /\ pos < vol.size
    BY <1>4 DEF ReadBegin
  <2>2. remains' \in 0 .. Page /\ pos' + remains' <= vol.size
    BY <1>1, <2>1 DEF Minimum, CopyOK
  <2> QED
    BY <1>1, <2>1, <2>2 DEF CopyOK, Copying
<1>5. CASE ReadStep
  <2>1. /\ pc = "read" /\ pc' = "read" /\ remains > 0 /\ pos' = pos + CopyLen /\ remains' = remains - CopyLen
    BY <1>5 DEF ReadStep
  <2>2. remains \in Nat /\ pos \in Nat /\ pos + remains <= vol.size /\ remains <= Page
    BY <1>1, <2>1 DEF CopyOK, Copying
  <2>3. CopyLen \in 1 .. remains
    BY <2>1, <2>2, CopyLenIs
  <2>4. pos' \in 0 .. vol.size /\ remains' \in 0 .. Page /\ pos' + remains' <= vol.size
    BY <1>1, <2>1, <2>2, <2>3
  <2> QED
    BY <1>1, <2>1, <2>4 DEF CopyOK, Copying
<1>6. CASE ReadWriteDiskEnd
  <2>1. pc = "wait" /\ remains' = remains /\ pc' \notin {"read", "notified", "wait"}
        /\ (pos' = pos \/ pos' = pos + B)
    BY <1>6 DEF ReadWriteDiskEnd
  <2>2. board = "qemu"
    BY <2>1 DEF TypeInv, Sides
  <2>3. CASE pos' = pos
    BY <1>1, <2>1, <2>3 DEF CopyOK, Copying
  <2>4. CASE pos' = pos + B
    <3>1. PICK k \in Nat : pos = k * B
      BY <1>1, <2>2 DEF Copying
    <3>2. PICK n \in Nat : vol.size = n * B
      BY <2>2, SettingFacts, StorageAssumption DEF TypeInv
    <3>3. pos < vol.size
      BY <1>1, <2>1 DEF Copying
    <3>4. pos' <= vol.size /\ pos' = (k + 1) * B
      BY <1>1, <2>4, <3>1, <3>2, <3>3, NextBlock
    <3>5. k + 1 \in Nat /\ pos' \in Nat
      BY <1>1, <2>4 DEF CopyOK
    <3> QED
      BY <1>1, <2>1, <3>4, <3>5 DEF CopyOK, Copying
  <2> QED
    BY <2>1, <2>3, <2>4
<1> QED
  BY <1>2, <1>3, <1>4, <1>5, <1>6, CopyChanges

LEMMA SuccOK == ASSUME NEW i \in Indices PROVE Succ(i) \in Indices
<1> DEFINE m == 2^W
<1>1. m \in Nat \ {0} /\ i \in Nat
  BY StorageAssumption DEF Indices
<1> HIDE DEF m
<1>2. (i + 1) % m \in 0 .. m - 1
  BY <1>1
<1> QED
  BY <1>2 DEF Succ, Indices, m

LEMMA VqStep ==
  ASSUME TypeInv, [Next]_vars
  PROVE  VqOK'
<1>1. VqOK
  BY DEF TypeInv
<1>2. /\ vq.avail \in Indices /\ vq.last \in Indices /\ vq.used \in Indices
      /\ vq.seen \in Indices /\ vq.sector \in Nat
  BY <1>1 DEF VqOK
<1>3. 0 \in Indices
  BY StorageAssumption DEF Indices
<1>4. CASE UNCHANGED vq
  BY <1>1, <1>4 DEF VqOK
<1>5. CASE VirtioInit
  <2>1. vq' = [avail |-> 0, last |-> 0, used |-> 0, seen |-> 0,
               sector |-> 0, data |-> -1, status |-> "none"]
    BY <1>5 DEF VirtioInit, NoRequest
  <2> QED
    BY <1>3, <2>1 DEF VqOK
<1>6. CASE ReadWriteDisk
  <2>1. vq' = [[vq EXCEPT !.sector = pos \div B, !.status = "none"]
                 EXCEPT !.avail = Succ(vq.avail)]
    BY <1>1, <1>6 DEF ReadWriteDisk, Request, VqOK
  <2>2. pos \in Nat /\ B \in Nat \ {0}
    BY SettingFacts, StorageAssumption DEF TypeInv, CopyOK
  <2>3. pos \div B \in Nat
    BY <2>2
  <2> HIDE DEF Indices
  <2>4. [vq EXCEPT !.sector = pos \div B, !.status = "none"] \in
          [avail : Indices, last : Indices, used : Indices, seen : Indices,
           sector : Nat, data : Nat \cup {-1}, status : {"none", "ok", "error"}]
    BY <1>1, <2>3 DEF VqOK
  <2>5. Succ(vq.avail) \in Indices
    BY <1>2, SuccOK
  <2> QED
    BY <2>1, <2>4, <2>5 DEF VqOK
<1>7. CASE CountRequest
  <2>1. vq' = [vq EXCEPT !.last = Succ(vq.last)]
    BY <1>7 DEF CountRequest
  <2>2. Succ(vq.last) \in Indices
    BY <1>2, SuccOK
  <2> QED
    BY <1>1, <2>1, <2>2 DEF VqOK
<1>8. CASE Disk
  <2>1. PICK s \in {"ok", "error"} :
          vq' = [vq EXCEPT !.seen = Succ(vq.seen), !.used = Succ(vq.used), !.status = s,
                           !.data = IF s = "ok" THEN vq.sector ELSE vq.data]
    BY <1>8 DEF Disk
  <2>2. Succ(vq.seen) \in Indices /\ Succ(vq.used) \in Indices
    BY <1>2, SuccOK
  <2>3. (IF s = "ok" THEN vq.sector ELSE vq.data) \in Nat \cup {-1}
    BY <1>1, <1>2 DEF VqOK
  <2> QED
    BY <1>1, <2>1, <2>2, <2>3 DEF VqOK
<1> QED
  BY <1>4, <1>5, <1>6, <1>7, <1>8, VqChanges

LEMMA TypeStep == TypeInv /\ [Next]_vars => TypeInv'
BY SettingStep, PointStep, RegionStep, WalkStep, CopyStep, VqStep DEF TypeInv

\* The region's map, the cluster list, the progress of a load and the
\* virtqueue keep their types.
THEOREM TypeCorrect == Spec => []TypeOK
<1>1. TypeInv /\ UNCHANGED vars => TypeInv'
  BY TypeStep
<1> QED
  BY TypeInit, TypeStep, TypeInvIsTypeOK, PTL DEF Spec

LEMMA TypesHold == Spec => []TypeInv
BY TypeInit, TypeStep, PTL DEF Spec

-----------------------------------------------------------------------------
(* Buffers *)

\* The file system has no block but the one Open searches.
BufInv ==
  board = "raspi4" =>
    /\ pc \in {"start", "init", "page", "read", "loaded", "failed"} => live = {}
    /\ pc \in {"open", "next"} =>
         live = IF buf = Null THEN {} ELSE {[at |-> buf, num_pages |-> 1]}

LEMMA BufStep ==
  ASSUME TypeInv, BufInv, [Next]_vars
  PROVE  BufInv'
<1> SUFFICES ASSUME board = "raspi4" PROVE BufInv'
  BY SettingStays DEF BufInv
<1>1. Disk \/ Ended \/ UNCHANGED vars => BufInv'
  BY DEF Disk, Ended, vars, setting, region, BufInv
<1>2. MmcOpen \/ ReadSectorFails \/ LoadEnd \/ NextLoad \/ NoFreeSpace => BufInv'
  <2>1. LoadEnd => BufInv'
    BY DEF LoadEnd, setting, region, BufInv, TypeInv, Sides
  <2>2. MmcOpen \/ ReadSectorFails \/ NextLoad \/ NoFreeSpace => BufInv'
    BY DEF MmcOpen, MallocFree, ReadSectorFails, NextLoad, NoFreeSpace, setting,
           region, BufInv
  <2> QED
    BY <2>1, <2>2
<1>3. ~Virtio
  BY DEF Virtio, VirtioInit, VirtioInitEnd, ReadWriteDisk, CountRequest, ReadWriteDiskEnd,
         TypeInv, Sides
<1>4. Read => BufInv'
  BY DEF Read, ReadBegin, ReadBeginLost, ReadStep, ReadLost, ReadEnd, Stop, MallocFree,
         setting, region, BufInv
<1>5. FsInit \/ OpenNext \/ OpenAstray => BufInv'
  BY DEF FsInit, OpenNext, OpenAstray, Stop, MallocFree, setting, region, BufInv
<1>6. ASSUME OpenRead PROVE BufInv'
  <2> DEFINE p == First(Spaces(1))
  <2>1. p # Null
    BY <1>6, Space DEF OpenRead
  <2>2. /\ live' = (live \ Occupied(buf)) \cup {[at |-> p, num_pages |-> 1]}
        /\ buf' = p /\ pc = "open" /\ pc' = "next"
    BY <1>6 DEF OpenRead
  <2> HIDE DEF p
  <2>3. live \ Occupied(buf) = {}
    BY <2>2 DEF BufInv, Occupied
  <2> QED
    BY <2>1, <2>2, <2>3 DEF BufInv
<1>7. ASSUME OpenEnd PROVE BufInv'
  <2>1. /\ pc = "open" /\ pc' \in {"page", "failed"}
        /\ live' = IF buf = Null THEN live ELSE live \ Occupied(buf)
    BY <1>7 DEF OpenEnd
  <2>2. live' = {}
    BY <2>1 DEF BufInv, Occupied
  <2> QED
    BY <2>1, <2>2 DEF BufInv
<1> QED
  BY <1>1, <1>2, <1>3, <1>4, <1>5, <1>6, <1>7 DEF Next, Loader, Open

LEMMA BufHolds == Spec => []BufInv
<1>1. Init => BufInv
  BY DEF Init, BufInv
<1>2. TypeInv /\ BufInv /\ [Next]_vars => BufInv'
  BY BufStep
<1> QED
  BY <1>1, <1>2, TypesHold, PTL DEF Spec

\* The file system gives back every buffer it has read into, however the load
\* ends, unless a handler PANICs or follows a null pointer.
THEOREM BuffersComeBack == Spec => []BuffersReturned
<1>1. BufInv => BuffersReturned
  BY DEF BufInv, BuffersReturned
<1> QED
  BY <1>1, BufHolds, PTL

-----------------------------------------------------------------------------
(* The cluster list *)

\* The list follows the FAT from the directory's first cluster, and then from
\* the file's.
ListInv ==
  pc \in Walking =>
    /\ Follows(vol, list)
    /\ list[1] = IF pc \in {"open", "next"} THEN vol.root ELSE vol.file

LEMMA ListStep ==
  ASSUME TypeInv, ListInv, [Next]_vars
  PROVE  ListInv'
<1>1. vol' = vol
  BY SettingStays
<1>2. ASSUME pc \in Walking
      PROVE  IsVolume(vol) /\ list \in Seq(Nat) /\ list # <<>> /\ node \in 0 .. Len(list)
             /\ sector \in Int
  BY <1>2, SettingFacts DEF TypeInv, Sides, WalkOK, Walking
<1>3. CASE UNCHANGED walk /\ (pc' \in {"open", "next"} => pc \in {"open", "next"})
           /\ (pc' \in {"page", "read"} => pc \in {"page", "read"})
  BY <1>1, <1>3 DEF walk, ListInv, Walking
<1>4. CASE FsInit
  <2>1. list' = <<vol.root>> /\ pc' \notin {"page", "read", "next"}
    BY <1>4 DEF FsInit
  <2>2. Follows(vol, list')
    BY <2>1 DEF Follows
  <2> QED
    BY <1>1, <2>1, <2>2 DEF ListInv, Walking
<1>5. CASE OpenNext \/ ReadStep
  <2>1. /\ pc \in Walking /\ NextSector
        /\ pc' \in Walking /\ (pc \in {"open", "next"} <=> pc' \in {"open", "next"})
    BY <1>5 DEF OpenNext, ReadStep, Walking
  <2>2. /\ Len(list) \in Nat /\ \A i \in 1 .. Len(list) : list'[i] = list[i]
        /\ Follows(vol, list) => Follows(vol, list')
    BY <1>2, <2>1, NextSectorIs
  <2>3. list'[1] = list[1]
    BY <1>2, <2>1, <2>2
  <2> QED
    BY <1>1, <2>1, <2>2, <2>3 DEF ListInv
<1>6. CASE OpenEnd
  <2>1. pc' = "failed" \/ (pc' = "page" /\ list' = <<vol.file>>)
    BY <1>6 DEF OpenEnd
  <2>2. Follows(vol, <<vol.file>>)
    BY DEF Follows
  <2> QED
    BY <1>1, <2>1, <2>2 DEF ListInv, Walking
<1>7. CASE ReadBegin
  <2>1. pc = "page" /\ pc' = "read"
    BY <1>7 DEF ReadBegin
  <2>2. list'[1] = list[1] /\ (Follows(vol, list) => Follows(vol, list'))
    BY <1>7, ReadBeginIs
  <2> QED
    BY <1>1, <2>1, <2>2 DEF ListInv, Walking
<1> QED
  BY <1>3, <1>4, <1>5, <1>6, <1>7, WalkChanges

LEMMA ListHolds == Spec => []ListInv
<1>1. Init => ListInv
  BY DEF Init, ListInv, Walking
<1>2. TypeInv /\ ListInv /\ [Next]_vars => ListInv'
  BY ListStep
<1> QED
  BY <1>1, <1>2, TypesHold, PTL DEF Spec

\* Whichever of CalcNextCluster and CalcCluster extends the cluster list, its
\* elements are what the FAT says, in its order.
THEOREM ListsAreChains == Spec => []ListFollowsFat
<1>1. TypeInv /\ ListInv => ListFollowsFat
  <2> SUFFICES ASSUME TypeInv, ListInv, list # <<>>, pc \in {"next", "open", "page", "read"}
               PROVE  /\ Head(list) \in {vol.root, vol.file}
                      /\ \A i \in 1 .. Len(list) - 1 : list[i + 1] = Fat(list[i])
    BY DEF ListFollowsFat
  <2>1. list \in Seq(Nat) /\ Head(list) = list[1]
    BY DEF TypeInv, WalkOK
  <2> QED
    BY <2>1, FatIs DEF ListInv, Walking, Follows
<1> QED
  BY <1>1, TypesHold, ListHolds, PTL

-----------------------------------------------------------------------------
(* The search for the file *)

\* With one sector per cluster a sector depends on the cluster alone, and each is
\* its cluster's last.
LEMMA SingleSector ==
  ASSUME NEW v, IsVolume(v), v.spc = 1
  PROVE  /\ \A c \in Nat, o \in Nat : SectorOf(v, c, o) = SectorOf(v, c, 0)
         /\ \A s \in Int : s % v.spc = v.spc - 1
<1>1. B \in Nat \ {0}
  BY StorageAssumption
<1>2. ASSUME NEW x \in Int PROVE x % 1 = 0
  OBVIOUS
<1>3. ASSUME NEW o \in Nat PROVE (o \div B) % 1 = 0
  <2>1. o \div B \in Int
    BY <1>1
  <2> QED
    BY <1>2, <2>1
<1>4. \A c \in Nat, o \in Nat : SectorOf(v, c, o) = v.data_first_sector + (c - 2) * v.spc + 0
  BY <1>3 DEF SectorOf
<1> QED
  BY <1>2, <1>4

\* Behind a cluster's last sector is the first one of the next in the list.
LEMMA LastNext ==
  ASSUME TypeInv, LastOfCluster(sector), pc \in Walking, NextSector
  PROVE  /\ node' = node + 1 /\ node' \in 1 .. Len(list')
         /\ sector' = SectorOf(vol, list'[node'], 0) /\ list'[node'] \in Nat
         /\ \A i \in 1 .. Len(list) : list'[i] = list[i]
         /\ Len(list') >= Len(list) /\ list' \in Seq(Nat)
         /\ Follows(vol, list) => Follows(vol, list')
<1>1. IsVolume(vol) /\ list \in Seq(Nat) /\ list # <<>> /\ node \in 0 .. Len(list) /\ sector \in Int
  BY SettingFacts DEF TypeInv, Sides, WalkOK, Walking
<1>3. /\ list' \in Seq(Nat) /\ Len(list') >= Len(list)
      /\ \A i \in 1 .. Len(list) : list'[i] = list[i]
      /\ Follows(vol, list) => Follows(vol, list')
      /\ node' \in 0 .. Len(list') /\ node' = node + 1
      /\ sector' = SectorOf(vol, list'[node + 1], 0)
  BY <1>1, NextSectorIs
<1>4. node' \in 1 .. Len(list') /\ list'[node'] \in Nat
  BY <1>1, <1>3
<1> QED
  BY <1>3, <1>4

\* The data begin a sector before a multiple of a cluster's size: CalcNextSector, which
\* takes the remainder of a sector's absolute number, then takes each cluster's first
\* sector for its last.
FirstIsLast(v) == v.data_first_sector % v.spc = v.spc - 1

LEMMA ShiftedRemainder ==
  ASSUME NEW n \in Nat \ {0}, NEW a \in Nat, NEW m \in Nat
  PROVE  (a + m * n) % n = a % n
<1> DEFINE q == a \div n
           i == a % n
<1>1. q \in Nat /\ i \in 0 .. n - 1 /\ a = q * n + i
  BY DivMod
<1> HIDE DEF q, i
<1>2. a + m * n = (q + m) * n + i
  <2>1. (q + m) * n = q * n + m * n /\ q * n \in Nat /\ m * n \in Nat
    BY <1>1
  <2> QED
    BY <1>1, <2>1
<1>3. ((q + m) * n + i) % n = i
  <2>1. q + m \in Nat
    BY <1>1
  <2> QED
    BY <1>1, <2>1, Blocks
<1> QED
  BY <1>2, <1>3 DEF i

\* What a cluster's first sector is taken for does not depend on the cluster.
LEMMA FirstSector ==
  ASSUME NEW v, IsVolume(v), NEW c \in Nat, IsValidCluster(c)
  PROVE  (SectorOf(v, c, 0) % v.spc = v.spc - 1) <=> FirstIsLast(v)
<1>1. v.spc \in Nat \ {0} /\ v.data_first_sector \in Nat /\ c - 2 \in Nat /\ B \in Nat \ {0}
  BY StorageAssumption DEF IsVolume, IsValidCluster
<1>2. (0 \div B) % v.spc = 0
  <2>1. 0 \div B = 0
    BY <1>1
  <2>2. 0 % v.spc = 0
    BY <1>1
  <2> QED
    BY <2>1, <2>2
<1>3. (c - 2) * v.spc \in Nat
  BY <1>1
<1>4. SectorOf(v, c, 0) = v.data_first_sector + (c - 2) * v.spc
  BY <1>1, <1>2, <1>3 DEF SectorOf
<1>5. (v.data_first_sector + (c - 2) * v.spc) % v.spc = v.data_first_sector % v.spc
  BY <1>1, ShiftedRemainder
<1> QED
  BY <1>4, <1>5 DEF FirstIsLast

\* The file's entry is in the first sector of no cluster of the root directory.
Unfound(v) ==
  \A n \in Nat : IsValidCluster(At(v, v.root, n)) =>
                   v.entry # SectorOf(v, At(v, v.root, n), 0)

\* Open has looked at the clusters before node, and then at node's.
Looked == IF pc = "open" THEN node - 1 ELSE node

\* Where each first sector is taken for a last, Open goes from cluster to cluster.
OpenInv ==
  FirstIsLast(vol) /\ board = "raspi4" =>
    /\ pc \in {"open", "next"} =>
         /\ node \in 1 .. Len(list) /\ cluster = list[node]
         /\ sector = SectorOf(vol, list[node], 0)
         /\ ~found => \A i \in 1 .. Looked : vol.entry # SectorOf(vol, list[i], 0)
    /\ pc = "next" => IsValidCluster(cluster)
    /\ pc \in {"page", "read"} => found
    /\ pc = "failed" /\ vol.valid /\ ~found => Unfound(vol)
    /\ pc # "astray"

LEMMA OpenStep ==
  ASSUME TypeInv, ListInv, OpenInv, [Next]_vars
  PROVE  OpenInv'
<1>1. vol' = vol /\ board' = board
  BY SettingStays
<1> SUFFICES ASSUME FirstIsLast(vol), board = "raspi4" PROVE OpenInv'
  BY <1>1 DEF OpenInv
<1>2. IsVolume(vol)
  BY SettingFacts DEF TypeInv
<1>3. Disk \/ Ended \/ UNCHANGED vars => OpenInv'
  BY DEF Disk, Ended, vars, setting, walk, OpenInv, Looked
<1>4. MmcOpen \/ ReadSectorFails \/ LoadEnd \/ NextLoad \/ NoFreeSpace => OpenInv'
  BY DEF MmcOpen, ReadSectorFails, LoadEnd, NextLoad, NoFreeSpace, setting, walk, OpenInv
<1>5. ~Virtio
  BY DEF Virtio, VirtioInit, VirtioInitEnd, ReadWriteDisk, CountRequest, ReadWriteDiskEnd,
         TypeInv, Sides
<1>6. Read => OpenInv'
  BY DEF Read, ReadBegin, ReadBeginLost, ReadStep, ReadLost, ReadEnd, Stop, setting, OpenInv
\* At "next" Open is at a first sector, which is taken for a last.
<1>7. ASSUME pc = "next" PROVE LastOfCluster(sector)
  <2>1. /\ IsValidCluster(cluster) /\ cluster = list[node]
        /\ sector = SectorOf(vol, list[node], 0)
    BY <1>7 DEF OpenInv
  <2>2. cluster \in Nat
    BY DEF TypeInv, WalkOK
  <2> QED
    BY <1>2, <2>1, <2>2, FirstSector DEF LastOfCluster
<1>8. ~OpenAstray
  BY <1>7 DEF OpenAstray, RunsOff
<1>9. ASSUME FsInit PROVE OpenInv'
  <2>1. /\ list' = <<vol.root>> /\ node' = 1 /\ cluster' = vol.root
        /\ sector' = SectorOf(vol, vol.root, 0)
        /\ pc' = IF vol.valid THEN "open" ELSE "failed"
    BY <1>9 DEF FsInit, CalcSector, SectorOf
  <2>2. node' \in 1 .. Len(list') /\ list'[node'] = vol.root /\ node' - 1 = 0
    BY <2>1
  <2>3. 1 .. node' - 1 = {}
    BY <2>2
  <2> QED
    BY <1>1, <2>1, <2>2, <2>3 DEF OpenInv, Looked
<1>10. ASSUME OpenRead PROVE OpenInv'
  <2>1. /\ pc = "open" /\ ~found /\ pc' = "next" /\ found' = (sector = vol.entry)
        /\ UNCHANGED <<list, node, cluster, sector>> /\ IsValidCluster(cluster)
    BY <1>10 DEF OpenRead, walk
  <2>2. /\ node \in 1 .. Len(list) /\ cluster = list[node]
        /\ sector = SectorOf(vol, list[node], 0)
        /\ \A i \in 1 .. node - 1 : vol.entry # SectorOf(vol, list[i], 0)
    BY <2>1 DEF OpenInv, Looked
  <2>3. ASSUME ~found', NEW i \in 1 .. node PROVE vol.entry # SectorOf(vol, list[i], 0)
    <3>1. i = node \/ i \in 1 .. node - 1
      BY <2>2
    <3> QED
      BY <2>1, <2>2, <2>3, <3>1
  <2>4. IsValidCluster(cluster)'
    BY <2>1 DEF IsValidCluster
  <2> QED
    BY <1>1, <2>1, <2>2, <2>3, <2>4 DEF OpenInv, Looked
<1>11. ASSUME OpenNext PROVE OpenInv'
  <2>1. /\ pc = "next" /\ pc' = "open" /\ found' = found /\ NextSector
        /\ cluster' = list'[node']
    BY <1>11 DEF OpenNext
  <2>2. /\ node' = node + 1 /\ node' \in 1 .. Len(list')
        /\ sector' = SectorOf(vol, list'[node'], 0)
        /\ \A i \in 1 .. Len(list) : list'[i] = list[i]
    BY <1>7, <2>1, LastNext DEF Walking
  <2>3. /\ node \in 1 .. Len(list)
        /\ ~found => \A i \in 1 .. node : vol.entry # SectorOf(vol, list[i], 0)
    BY <2>1 DEF OpenInv, Looked
  <2>4. node' - 1 = node
    BY <2>2, <2>3
  <2>5. ~found => \A i \in 1 .. node : vol.entry # SectorOf(vol, list'[i], 0)
    BY <2>2, <2>3
  <2> QED
    BY <1>1, <2>1, <2>2, <2>4, <2>5 DEF OpenInv, Looked
<1>12. ASSUME OpenEnd PROVE OpenInv'
  <2>1. /\ pc = "open" /\ found' = found /\ (found \/ ~IsValidCluster(cluster))
        /\ IF found THEN pc' = "page" ELSE pc' = "failed"
    BY <1>12 DEF OpenEnd
  <2>2. CASE found
    BY <1>1, <2>1, <2>2 DEF OpenInv, PointOK, TypeInv
  <2>3. CASE ~found
    <3>1. /\ node \in 1 .. Len(list) /\ cluster = list[node] /\ list \in Seq(Nat) /\ list # <<>>
          /\ \A i \in 1 .. node - 1 : vol.entry # SectorOf(vol, list[i], 0)
          /\ list[1] = vol.root /\ Follows(vol, list)
      BY <2>1, <2>3 DEF OpenInv, ListInv, Looked, TypeInv, WalkOK, Walking
    <3>2. \A i \in 1 .. Len(list) : list[i] = At(vol, vol.root, i - 1)
      BY <3>1, FollowsAt
    <3>3. ASSUME NEW n \in Nat, IsValidCluster(At(vol, vol.root, n))
          PROVE  vol.entry # SectorOf(vol, At(vol, vol.root, n), 0)
      <4>1. node - 1 \in Nat /\ ~IsValidCluster(At(vol, vol.root, node - 1))
            /\ At(vol, vol.root, node - 1) \in Nat
        BY <2>1, <2>3, <3>1, <3>2
      <4>2. ~(n >= node - 1)
        BY <1>2, <3>3, <4>1, EndedChain
      <4>3. /\ n + 1 \in 1 .. node - 1 /\ n + 1 \in 1 .. Len(list) /\ (n + 1) - 1 = n
        BY <3>1, <4>1, <4>2
      <4>4. list[n + 1] = At(vol, vol.root, n)
        BY <3>2, <4>3
      <4> QED
        BY <3>1, <4>3, <4>4
    <3>4. Unfound(vol)
      BY <3>3 DEF Unfound
    <3> QED
      BY <1>1, <2>1, <2>3, <3>4 DEF OpenInv
  <2> QED
    BY <2>2, <2>3
<1> QED
  BY <1>3, <1>4, <1>5, <1>6, <1>8, <1>9, <1>10, <1>11, <1>12 DEF Next, Loader, Open

\* The file's entry is in no sector of a directory's cluster but its first.
Searched(v) ==
  \A n \in Nat, k \in 1 .. v.spc - 1 :
    IsValidCluster(At(v, v.root, n)) => v.entry # SectorOf(v, At(v, v.root, n), k * B)

\* Open finds the file if it is in the directory, however long the directory's chain is
\* and whatever it winds through, with one sector per cluster; and with several where it
\* takes each cluster's first sector for the last, if the entry is in such a sector.
THEOREM OpenFindsTheFile == Spec => [](FirstIsLast(vol) /\ Searched(vol) => OpenFinds)
<1>1. Init => OpenInv
  BY DEF Init, OpenInv
<1>2. TypeInv /\ ListInv /\ OpenInv /\ [Next]_vars => OpenInv'
  BY OpenStep
<1>3. ASSUME TypeInv, OpenInv, FirstIsLast(vol), Searched(vol),
             board = "raspi4", vol.valid, pc = "astray" \/ (pc = "failed" /\ ~found),
             NEW n \in 0 .. Cardinality(DOMAIN vol.fat), NEW k \in 0 .. vol.spc - 1,
             IsValidCluster(InChain(vol.root, n))
      PROVE  vol.entry # CalcSector(InChain(vol.root, n), k * B)
  <2>1. n \in Nat /\ B \in Nat
    BY StorageAssumption
  <2>2. InChain(vol.root, n) = At(vol, vol.root, n)
    BY AtIsInChain
  <2>3. CalcSector(At(vol, vol.root, n), k * B) = SectorOf(vol, At(vol, vol.root, n), k * B)
    BY DEF CalcSector, SectorOf
  <2>4. Unfound(vol)
    BY <1>3 DEF OpenInv
  <2>5. CASE k = 0
    <3>1. k * B = 0
      BY <2>1, <2>5
    <3>2. vol.entry # SectorOf(vol, At(vol, vol.root, n), 0)
      BY <1>3, <2>1, <2>2, <2>4 DEF Unfound
    <3> QED
      BY <2>2, <2>3, <3>1, <3>2
  <2>6. CASE k # 0
    <3>1. k \in 1 .. vol.spc - 1
      BY <2>6
    <3>2. vol.entry # SectorOf(vol, At(vol, vol.root, n), k * B)
      BY <1>3, <2>1, <2>2, <3>1 DEF Searched
    <3> QED
      BY <2>2, <2>3, <3>2
  <2> QED
    BY <2>5, <2>6
<1>4. TypeInv /\ OpenInv => (FirstIsLast(vol) /\ Searched(vol) => OpenFinds)
  BY <1>3 DEF OpenFinds
<1> QED
  BY <1>1, <1>2, <1>4, TypesHold, ListHolds, PTL DEF Spec

\* Everywhere else Open does not get past the directory's first sector.
AstrayInv ==
  board = "raspi4" /\ ~FirstIsLast(vol) =>
    /\ pc \in {"open", "next"} =>
         /\ list = <<vol.root>> /\ node = 1 /\ cluster = vol.root
         /\ sector = SectorOf(vol, vol.root, 0)
    /\ pc = "open" => ~found
    /\ pc = "next" => IsValidCluster(vol.root)
    /\ pc \notin {"page", "read", "loaded"}

LEMMA AstrayStep ==
  ASSUME TypeInv, AstrayInv, [Next]_vars
  PROVE  AstrayInv'
<1>1. vol' = vol /\ board' = board
  BY SettingStays
<1> SUFFICES ASSUME ~FirstIsLast(vol), board = "raspi4" PROVE AstrayInv'
  BY <1>1 DEF AstrayInv
<1>2. IsVolume(vol)
  BY SettingFacts DEF TypeInv
<1>3. Disk \/ Ended \/ UNCHANGED vars => AstrayInv'
  BY DEF Disk, Ended, vars, setting, walk, AstrayInv
<1>4. MmcOpen \/ ReadSectorFails \/ NoFreeSpace => AstrayInv'
  BY DEF MmcOpen, ReadSectorFails, NoFreeSpace, setting, walk, AstrayInv
<1>5. ~LoadEnd /\ ~NextLoad
  BY DEF LoadEnd, NextLoad, AstrayInv, TypeInv, Sides
<1>6. ~Virtio
  BY DEF Virtio, VirtioInit, VirtioInitEnd, ReadWriteDisk, CountRequest, ReadWriteDiskEnd,
         TypeInv, Sides
<1>7. ~Read
  BY DEF Read, ReadBegin, ReadBeginLost, ReadStep, ReadLost, ReadEnd, AstrayInv
<1>8. ASSUME FsInit PROVE AstrayInv'
  <2>1. /\ list' = <<vol.root>> /\ node' = 1 /\ cluster' = vol.root /\ found' = FALSE
        /\ sector' = SectorOf(vol, vol.root, 0)
        /\ pc' \in {"open", "failed"}
    BY <1>8 DEF FsInit, CalcSector, SectorOf
  <2> QED
    BY <1>1, <2>1 DEF AstrayInv
<1>9. ASSUME OpenRead PROVE AstrayInv'
  <2>1. /\ pc = "open" /\ pc' = "next" /\ IsValidCluster(cluster)
        /\ UNCHANGED <<list, node, cluster, sector>>
    BY <1>9 DEF OpenRead, walk
  <2> QED
    BY <1>1, <2>1 DEF AstrayInv, IsValidCluster
\* The list has one element, and the cluster is not taken to end.
<1>10. ~OpenNext
  <2> SUFFICES ASSUME pc = "next" PROVE RunsOff
    BY DEF OpenNext
  <2>1. /\ list = <<vol.root>> /\ node = 1 /\ sector = SectorOf(vol, vol.root, 0)
        /\ IsValidCluster(vol.root)
    BY DEF AstrayInv
  <2>2. vol.root \in Nat /\ Len(list) = 1
    BY <1>2, <2>1 DEF IsVolume
  <2>3. ~LastOfCluster(sector)
    BY <1>2, <2>1, <2>2, FirstSector DEF LastOfCluster
  <2> QED
    BY <2>1, <2>2, <2>3 DEF RunsOff
<1>11. OpenAstray => AstrayInv'
  BY DEF OpenAstray, Stop, AstrayInv
<1>12. OpenEnd => AstrayInv'
  BY DEF OpenEnd, AstrayInv
<1> QED
  BY <1>3, <1>4, <1>5, <1>6, <1>7, <1>8, <1>9, <1>10, <1>11, <1>12 DEF Next, Loader, Open

\* A load from a card that got past Open.
PastOpen == board = "raspi4" /\ pc \in {"page", "read", "loaded"}

\* A file is read, and an image reported as loaded, only from a card with one sector per
\* cluster or with its data a sector before a multiple of a cluster's size: from any
\* other Open does not come back with a file, since after the directory's first sector
\* it has no list element for the second.
THEOREM OpenGoesAstray == Spec => [](PastOpen => FirstIsLast(vol))
<1>1. Init => AstrayInv
  BY DEF Init, AstrayInv
<1>2. TypeInv /\ AstrayInv /\ [Next]_vars => AstrayInv'
  BY AstrayStep
<1>3. AstrayInv => (PastOpen => FirstIsLast(vol))
  BY DEF AstrayInv, PastOpen
<1> QED
  BY <1>1, <1>2, <1>3, TypesHold, PTL DEF Spec

-----------------------------------------------------------------------------
(* The virtqueue *)

\* The device has what the driver has put into the queue, or is one behind; the
\* driver counts a request after it has been put there.
VqInv ==
  /\ pc \notin {"notified", "wait"} =>
       vq.last = vq.avail /\ vq.used = vq.avail /\ vq.seen = vq.avail
  /\ pc \in {"notified", "wait"} =>
       /\ pos = vq.sector * B
       /\ \/ vq.used = vq.seen /\ Succ(vq.seen) = vq.avail
          \/ /\ vq.used = vq.avail /\ vq.seen = vq.avail
             /\ vq.status = "ok" => vq.data = vq.sector
  /\ pc = "notified" => Succ(vq.last) = vq.avail
  /\ pc = "wait" => vq.last = vq.avail

LEMMA SuccDiffers == ASSUME NEW i \in Indices PROVE Succ(i) # i
<1> DEFINE m == 2^W
<1>1. m \in Nat \ {0, 1} /\ i \in 0 .. m - 1
  BY StorageAssumption DEF Indices
<1> HIDE DEF m
<1>2. CASE i + 1 = m
  <2>1. m % m = 0
    BY <1>1
  <2>2. (i + 1) % m = 0 /\ i # 0
    BY <1>1, <1>2, <2>1
  <2> QED
    BY <2>2 DEF Succ, m
<1>3. CASE i + 1 # m
  <2>1. i + 1 \in 0 .. m - 1
    BY <1>1, <1>3
  <2>2. (i + 1) % m = i + 1
    BY <1>1, <2>1
  <2> QED
    BY <1>1, <2>2 DEF Succ, m
<1> QED
  BY <1>2, <1>3

LEMMA VqInvStep ==
  ASSUME TypeInv, VqInv, [Next]_vars
  PROVE  VqInv'
<1>1. /\ vq.avail \in Indices /\ vq.last \in Indices /\ vq.used \in Indices
      /\ vq.seen \in Indices
      /\ vq \in [avail : Indices, last : Indices, used : Indices, seen : Indices,
                 sector : Nat, data : Nat \cup {-1}, status : {"none", "ok", "error"}]
  BY DEF TypeInv, VqOK
<1>2. CASE VirtioInit
  <2>1. pc' = "request" /\ vq' = [avail |-> 0, last |-> 0, used |-> 0, seen |-> 0,
                                  sector |-> 0, data |-> -1, status |-> "none"]
    BY <1>2 DEF VirtioInit, NoRequest
  <2> QED
    BY <2>1 DEF VqInv
<1>3. CASE ReadWriteDisk
  <2>1. /\ vq' = [[vq EXCEPT !.sector = pos \div B, !.status = "none"]
                    EXCEPT !.avail = Succ(vq.avail)]
        /\ pc = "disk" /\ pc' = "notified" /\ pos' = pos
    BY <1>1, <1>3 DEF ReadWriteDisk, Request, copy
  <2>2. /\ vq'.avail = Succ(vq.avail) /\ vq'.last = vq.last /\ vq'.used = vq.used
        /\ vq'.seen = vq.seen /\ vq'.sector = pos \div B
    BY <1>1, <2>1
  <2>3. vq.last = vq.avail /\ vq.used = vq.avail /\ vq.seen = vq.avail
    BY <2>1 DEF VqInv
  <2>4. pos = (pos \div B) * B
    <3>1. PICK k \in Nat : pos = k * B
      BY <2>1 DEF TypeInv, Sides, Copying
    <3>2. B \in Nat \ {0} /\ 0 \in 0 .. B - 1
      BY StorageAssumption
    <3>3. (k * B + 0) \div B = k /\ k * B \in Nat
      BY <3>2, Blocks
    <3>4. pos \div B = k
      BY <3>1, <3>3
    <3> QED
      BY <3>1, <3>4
  <2> QED
    BY <2>1, <2>2, <2>3, <2>4 DEF VqInv
<1>4. CASE CountRequest
  <2>1. vq' = [vq EXCEPT !.last = Succ(vq.last)] /\ pc = "notified" /\ pc' = "wait" /\ pos' = pos
    BY <1>4 DEF CountRequest, copy
  <2>2. /\ vq'.avail = vq.avail /\ vq'.last = Succ(vq.last) /\ vq'.used = vq.used
        /\ vq'.seen = vq.seen /\ vq'.sector = vq.sector /\ vq'.data = vq.data
        /\ vq'.status = vq.status
    BY <1>1, <2>1
  <2> QED
    BY <2>1, <2>2 DEF VqInv
<1>5. CASE Disk
  <2>1. PICK s \in {"ok", "error"} :
          vq' = [vq EXCEPT !.seen = Succ(vq.seen), !.used = Succ(vq.used), !.status = s,
                           !.data = IF s = "ok" THEN vq.sector ELSE vq.data]
    BY <1>5 DEF Disk
  <2>2. vq.seen # vq.avail /\ pc' = pc /\ pos' = pos
    BY <1>5 DEF Disk, copy
  <2>3. /\ vq'.avail = vq.avail /\ vq'.last = vq.last /\ vq'.used = Succ(vq.used)
        /\ vq'.seen = Succ(vq.seen) /\ vq'.sector = vq.sector /\ vq'.status = s
        /\ s = "ok" => vq'.data = vq.sector
    BY <1>1, <2>1
  <2>4. pc \in {"notified", "wait"} /\ vq.used = vq.seen /\ Succ(vq.seen) = vq.avail
    BY <2>2 DEF VqInv
  <2> QED
    BY <2>2, <2>3, <2>4 DEF VqInv
<1>6. CASE UNCHANGED vq /\ (pc' \in {"notified", "wait"} => pc' = pc)
           /\ (pc' \in {"notified", "wait"} => pos' = pos)
           /\ (pc \in {"notified", "wait"} => pc' = pc \/ ReadWriteDiskEnd)
  <2>1. CASE pc \in {"notified", "wait"} /\ pc' # pc
    <3>1. pc = "wait" /\ vq.last = vq.used /\ pc' \notin {"notified", "wait"}
      BY <1>6, <2>1 DEF ReadWriteDiskEnd, VirtqIsBusy
    <3>2. vq.last = vq.avail /\ vq.used = vq.avail
      BY <3>1 DEF VqInv
    <3>3. vq.seen = vq.avail
      BY <1>1, <3>1, <3>2, SuccDiffers DEF VqInv
    <3> QED
      BY <1>6, <3>1, <3>2, <3>3 DEF VqInv
  <2>2. CASE ~(pc \in {"notified", "wait"} /\ pc' # pc)
    BY <1>6, <2>2 DEF VqInv
  <2> QED
    BY <2>1, <2>2
<1> QED
  BY <1>2, <1>3, <1>4, <1>5, <1>6, VqChanges

-----------------------------------------------------------------------------
(* What is copied *)

\* Place, of any board and any volume.
PlaceAt(b, v, u) ==
  IF b = "qemu" THEN <<u \div B, u % B>>
  ELSE <<SectorOf(v, At(v, v.file, u \div (v.spc * B)), u), u % B>>

LEMMA PlaceIs == \A u : Place(u) = PlaceAt(board, vol, u)
BY AtIsInChain DEF Place, PlaceAt, CalcSector, SectorOf

\* On a volume with one sector per cluster Read is, before each turn, at a
\* sector's beginning, and its cluster and its sector are those of the position.
ReadAt(k) ==
  /\ pos = k * B
  /\ node \in 1 .. Len(list) /\ list[node] = At(vol, vol.file, k)
  /\ sector = SectorOf(vol, list[node], 0)
  /\ pos + remains = vol.size \/ \E j \in Nat : remains = j * B

ReadInv ==
  (vol.spc = 1 /\ board = "raspi4" /\ pc \in {"page", "read"}) =>
    \/ pc = "page" /\ (pos = vol.size \/ \E k \in Nat : pos = k * B)
    \/ pc = "read" /\ remains = 0 /\ (pos = vol.size \/ \E k \in Nat : pos = k * B)
    \/ pc = "read" /\ \E k \in Nat : ReadAt(k)

LEMMA ReadBeginPlace ==
  ASSUME TypeInv, ListInv, ReadInv, vol.spc = 1, ReadBegin
  PROVE  ReadInv'
<1>1. /\ pc = "page" /\ pc' = "read" /\ pos < vol.size /\ pos' = pos /\ vol' = vol
      /\ board' = board /\ remains' = Minimum(Page, vol.size - pos)
  BY DEF ReadBegin, setting
<1>2. board = "raspi4" /\ IsVolume(vol) /\ pos \in Nat /\ vol.size \in Nat
  BY <1>1, SettingFacts DEF TypeInv, Sides, CopyOK
<1>3. B \in Nat \ {0} /\ PageSectors \in Nat /\ Page = PageSectors * B
  BY StorageAssumption DEF Page
<1>4. PICK k \in Nat : pos = k * B
  BY <1>1, <1>2 DEF ReadInv
<1>5. Hops = k + 1
  <2>1. 0 \in 0 .. B - 1 /\ k * B = k * B + 0 /\ vol.spc * B = B
    BY <1>2, <1>3, <1>4
  <2>2. (k * B + 0) \div B = k
    BY <1>3, <2>1, Blocks
  <2> QED
    BY <1>4, <2>1, <2>2 DEF Hops
<1>6. /\ list' \in Seq(Nat) /\ list' # <<>> /\ list'[1] = vol.file /\ Follows(vol, list')
      /\ Hops \in 1 .. Len(list') /\ cluster' = list'[Hops]
      /\ node' \in 1 .. Len(list') /\ list'[node'] = cluster'
      /\ sector' = SectorOf(vol, cluster', pos)
  BY <1>1, ReadBeginIs DEF ListInv, Walking
<1>7. list'[node'] = At(vol, vol.file, k)
  <2>1. list'[Hops] = At(vol, vol.file, Hops - 1)
    BY <1>6, FollowsAt
  <2>2. Hops - 1 = k
    BY <1>5
  <2> QED
    BY <1>6, <2>1, <2>2
<1>8. sector' = SectorOf(vol, list'[node'], 0)
  <2>1. list'[node'] \in Nat
    BY <1>6
  <2> QED
    BY <1>2, <1>6, <2>1, SingleSector
<1>9. pos' + remains' = vol.size \/ remains' = PageSectors * B
  BY <1>1, <1>2, <1>3 DEF Minimum
<1>10. ReadAt(k)'
  BY <1>1, <1>3, <1>4, <1>6, <1>7, <1>8, <1>9 DEF ReadAt
<1> QED
  BY <1>1, <1>10 DEF ReadInv

LEMMA ReadStepPlace ==
  ASSUME TypeInv, ListInv, ReadInv, vol.spc = 1, ReadStep
  PROVE  /\ ReadInv'
         /\ \A u \in pos .. pos' - 1 : u \in DOMAIN mem => mem'[u] = PlaceAt(board, vol, u)
<1>1. /\ pc = "read" /\ pc' = "read" /\ remains > 0 /\ NextSector
      /\ pos' = pos + CopyLen /\ remains' = remains - CopyLen
      /\ vol' = vol /\ board' = board
      /\ mem' = [u \in DOMAIN mem |->
                   IF u \in pos .. pos + CopyLen - 1
                   THEN <<sector + (u - pos) \div B, (u - pos) % B>> ELSE mem[u]]
  BY DEF ReadStep, setting
<1>2. /\ board = "raspi4" /\ IsVolume(vol) /\ vol.size \in Nat
      /\ pos \in Nat /\ remains \in Nat /\ pos + remains <= vol.size
      /\ list \in Seq(Nat) /\ list # <<>> /\ sector \in Int
      /\ list[1] = vol.file /\ Follows(vol, list)
  BY <1>1, SettingFacts DEF TypeInv, Sides, CopyOK, Copying, WalkOK, ListInv, Walking
<1>3. B \in Nat \ {0}
  BY StorageAssumption
<1>4. PICK k \in Nat : ReadAt(k)
  BY <1>1, <1>2 DEF ReadInv
<1>5. CopyLen = Minimum(remains, B) /\ CopyLen \in 1 .. remains
  BY <1>1, <1>2, CopyLenIs
<1>6. ReadInv'
  <2>1. /\ node' = node + 1 /\ node' \in 1 .. Len(list') /\ list' \in Seq(Nat)
        /\ sector' = SectorOf(vol, list'[node'], 0)
        /\ \A i \in 1 .. Len(list) : list'[i] = list[i]
        /\ Follows(vol, list')
    <3>1. LastOfCluster(sector)
      BY <1>2, SingleSector DEF LastOfCluster
    <3> QED
      BY <1>1, <1>2, <3>1, LastNext DEF Walking
  <2>2. list'[node'] = At(vol, vol.file, k + 1)
    <3>1. node \in 1 .. Len(list) /\ list[node] = At(vol, vol.file, k)
      BY <1>4 DEF ReadAt
    <3>2. node \in 1 .. Len(list') - 1
      BY <2>1, <3>1
    <3>3. list'[node + 1] = FatOf(vol, list'[node]) /\ list'[node] = list[node]
      BY <2>1, <3>1, <3>2 DEF Follows
    <3>4. At(vol, vol.file, k + 1) = FatOf(vol, At(vol, vol.file, k))
      BY AtSteps
    <3> QED
      BY <2>1, <3>1, <3>3, <3>4
  <2>3. pos + remains = vol.size \/ \E j \in Nat : remains = j * B
    BY <1>4 DEF ReadAt
  <2>4. (k + 1) * B = k * B + B /\ pos = k * B /\ k + 1 \in Nat
    BY <1>3, <1>4, NextBlock DEF ReadAt
  <2>5. CASE remains > B
    <3>1. CopyLen = B /\ pos' = (k + 1) * B /\ remains' = remains - B
      BY <1>1, <1>2, <1>3, <1>5, <2>4, <2>5 DEF Minimum
    <3>2. pos' + remains' = vol.size \/ \E j \in Nat : remains' = j * B
      <4>1. CASE pos + remains = vol.size
        BY <1>1, <1>2, <1>3, <3>1, <4>1
      <4>2. ASSUME NEW j \in Nat, remains = j * B PROVE \E i \in Nat : remains' = i * B
        <5>1. j # 0
          BY <1>1, <1>3, <4>2
        <5>2. j - 1 \in Nat /\ (j - 1) + 1 = j
          BY <5>1
        <5>3. ((j - 1) + 1) * B = (j - 1) * B + B /\ (j - 1) * B \in Nat
          BY <1>3, <5>2, NextBlock
        <5> QED
          BY <1>3, <3>1, <4>2, <5>2, <5>3
      <4> QED
        BY <2>3, <4>1, <4>2
    <3>3. ReadAt(k + 1)'
      BY <1>1, <2>1, <2>2, <3>1, <3>2 DEF ReadAt
    <3> QED
      BY <1>1, <2>4, <3>3 DEF ReadInv
  <2>6. CASE ~(remains > B)
    <3>1. CopyLen = remains /\ pos' = pos + remains /\ remains' = 0
      BY <1>1, <1>2, <1>3, <1>5, <2>6 DEF Minimum
    <3>2. pos' = vol.size \/ pos' = (k + 1) * B
      <4>1. CASE pos + remains = vol.size
        BY <3>1, <4>1
      <4>2. ASSUME NEW j \in Nat, remains = j * B PROVE pos' = (k + 1) * B
        <5>1. 0 * B = 0 /\ 0 * B < j * B
          BY <1>1, <1>3, <4>2
        <5>2. 0 * B + B <= j * B
          BY <1>3, <5>1, NextBlock
        <5> QED
          BY <1>2, <1>3, <2>4, <2>6, <3>1, <4>2, <5>1, <5>2
      <4> QED
        BY <2>3, <4>1, <4>2
    <3> QED
      BY <1>1, <2>4, <3>1, <3>2 DEF ReadInv
  <2> QED
    BY <1>2, <1>3, <2>5, <2>6
<1>7. ASSUME NEW u \in pos .. pos' - 1, u \in DOMAIN mem
      PROVE  mem'[u] = PlaceAt(board, vol, u)
  <2> DEFINE r == u - pos
  <2>1. /\ r \in 0 .. B - 1 /\ u = k * B + r /\ u \in pos .. pos + CopyLen - 1 /\ u \in Nat
        /\ pos = k * B
    <3>0. CopyLen \in Nat /\ pos' = pos + CopyLen /\ pos = k * B
      BY <1>1, <1>2, <1>4, <1>5 DEF ReadAt
    <3>1. pos = k * B /\ u \in pos .. pos + CopyLen - 1 /\ CopyLen \in Nat
      BY <1>2, <3>0
    <3>2. CopyLen <= B
      BY <1>2, <1>3, <1>5 DEF Minimum
    <3>3. r \in 0 .. B - 1 /\ u = pos + r /\ u \in Nat
      BY <1>2, <1>3, <3>1, <3>2
    <3> QED
      BY <3>1, <3>3
  <2>2. mem'[u] = <<sector + r \div B, r % B>>
    BY <1>1, <1>7, <2>1
  <2>3. u - pos = r
    OBVIOUS
  <2> HIDE DEF r
  <2>4. r \div B = 0 /\ r % B = r
    <3>1. 0 * B + r = r
      BY <1>3, <2>1
    <3> QED
      BY <1>3, <2>1, <3>1, Blocks
  <2>5. u \div B = k /\ u % B = r
    BY <1>3, <2>1, Blocks
  <2>6. sector = SectorOf(vol, At(vol, vol.file, k), 0) /\ At(vol, vol.file, k) \in Nat
    BY <1>2, <1>4 DEF ReadAt
  <2>7. SectorOf(vol, At(vol, vol.file, k), u) = sector
    BY <1>2, <2>1, <2>6, SingleSector
  <2>8. vol.spc * B = B
    BY <1>3
  <2>9. PlaceAt(board, vol, u) = <<sector, r>>
    BY <1>2, <2>5, <2>7, <2>8 DEF PlaceAt
  <2> QED
    BY <1>2, <2>2, <2>4, <2>9
<1> QED
  BY <1>6, <1>7

\* How Read is left.
LEMMA ReadEnds ==
  ASSUME [Next]_vars, pc = "read", pc' = "page"
  PROVE  ReadEnd
BY DEF Next, Loader, Open, Read, Virtio, MmcOpen, FsInit, OpenRead, OpenNext, OpenAstray,
         OpenEnd, ReadBegin, ReadBeginLost, ReadStep, ReadLost, Stop, ReadSectorFails,
         VirtioInit, VirtioInitEnd, ReadWriteDisk, CountRequest, ReadWriteDiskEnd, LoadEnd,
         NextLoad, NoFreeSpace, Disk, Ended, vars

LEMMA ReadInvStep ==
  ASSUME TypeInv, ListInv, ReadInv, [Next]_vars
  PROVE  ReadInv'
<1>1. vol' = vol /\ board' = board
  BY SettingStays
<1> SUFFICES ASSUME vol.spc = 1, board = "raspi4" PROVE ReadInv'
  BY <1>1 DEF ReadInv
<1>2. CASE OpenEnd
  <2>1. pos' = 0 /\ pc' # "read"
    BY <1>2 DEF OpenEnd
  <2>2. 0 \in Nat /\ 0 = 0 * B
    BY StorageAssumption
  <2> QED
    BY <2>1, <2>2 DEF ReadInv
<1>3. CASE ReadBegin \/ ReadStep
  BY <1>3, ReadBeginPlace, ReadStepPlace
<1>4. CASE VirtioInitEnd \/ ReadWriteDiskEnd
  BY <1>4 DEF VirtioInitEnd, ReadWriteDiskEnd, TypeInv, Sides
<1>5. CASE /\ UNCHANGED copy /\ UNCHANGED walk
           /\ pc' \in {"page", "read"} => pc \in {"page", "read"}
           /\ pc' = "read" => pc = "read"
           /\ pc = "read" /\ pc' = "page" => ReadEnd
  <2>1. UNCHANGED <<pos, remains, list, node, sector>>
    BY <1>5 DEF copy, walk
  <2>2. CASE pc' \notin {"page", "read"}
    BY <2>2 DEF ReadInv
  <2>3. CASE pc' = "read"
    <3>1. pc = "read"
      BY <1>5, <2>3
    <3>2. ASSUME NEW k \in Nat, ReadAt(k) PROVE ReadAt(k)'
      BY <1>1, <2>1, <3>2 DEF ReadAt
    <3> QED
      BY <1>1, <2>1, <2>3, <3>1, <3>2 DEF ReadInv
  <2>4. CASE pc' = "page" /\ pc = "page"
    BY <1>1, <2>1, <2>4 DEF ReadInv
  <2>5. CASE pc' = "page" /\ pc = "read"
    <3>1. remains = 0
      BY <1>5, <2>5 DEF ReadEnd
    <3>2. pos = vol.size \/ \E k \in Nat : pos = k * B
      BY <2>5, <3>1 DEF ReadInv, ReadAt
    <3> QED
      BY <1>1, <2>1, <2>5, <3>2 DEF ReadInv
  <2> QED
    BY <1>5, <2>2, <2>3, <2>4, <2>5
<1>6. CASE FsInit \/ OpenNext
  BY <1>6 DEF FsInit, OpenNext, ReadInv
<1> QED
  BY <1>2, <1>3, <1>4, <1>5, <1>6, WalkChanges, CopyChanges, ReadEnds

-----------------------------------------------------------------------------
(* Clusters of whole pages: what is copied *)

\* How much of the file its last page has, if it is not whole.
Rest(v) == v.size % Page

\* As much as CopyLen copies at once: it is a sector at most, or what follows its last
\* whole sector is nothing or half a one at least.
Whole(r) == r <= B \/ r % B = 0 \/ 2 * (r % B) >= B

\* A card whose directory Open gets through, whose clusters are whole pages, and a file
\* whose last page is read in one turn.
PageClusters(v) ==
  /\ FirstIsLast(v)
  /\ v.spc % PageSectors = 0
  /\ Whole(Rest(v))

\* Sector and unit of a position s sectors and x units into the file, where this is the
\* same cluster.
LEMMA Position ==
  ASSUME NEW b \in Nat \ {0}, NEW n \in Nat \ {0}, NEW s \in Nat, NEW x \in Nat,
         (s % n) * b + x < n * b
  PROVE  /\ (s * b + x) \div b = s + x \div b /\ (s * b + x) % b = x % b
         /\ (s + x \div b) % n = (s % n) + x \div b
         /\ (s * b + x) \div (n * b) = s \div n
         /\ x \div b \in Nat /\ x % b \in Nat
<1> DEFINE y == x \div b
           z == x % b
           q == s \div n
           i == s % n
<1>1. y \in Nat /\ z \in 0 .. b - 1 /\ x = y * b + z
  BY DivMod
<1>2. q \in Nat /\ i \in 0 .. n - 1 /\ s = q * n + i
  BY DivMod
<1> HIDE DEF y, z, q, i
<1>3. i * b + (y * b + z) < n * b
  BY <1>1 DEF i
<1>4. (i + y) * b = i * b + y * b /\ i * b \in Nat /\ y * b \in Nat /\ n * b \in Nat
  BY <1>1, <1>2
<1>4a. (i + y) * b < n * b
  BY <1>1, <1>3, <1>4
<1>5. i + y \in 0 .. n - 1
  <2>1. ASSUME NEW c \in Nat, c * b < n * b PROVE c < n
    BY <2>1
  <2> QED
    BY <1>1, <1>2, <1>4a, <2>1
<1>6. (s + y) * b = s * b + y * b /\ s * b \in Nat /\ y * b \in Nat
  BY <1>1, <1>2
<1>7. s * b + x = (s + y) * b + z /\ s + y \in Nat
  <2>1. s * b + (y * b + z) = (s * b + y * b) + z
    BY <1>1, <1>6
  <2> QED
    BY <1>1, <1>6, <2>1
<1>8. (s * b + x) \div b = s + y /\ (s * b + x) % b = z
  <2>1. ((s + y) * b + z) \div b = s + y /\ ((s + y) * b + z) % b = z
    BY <1>1, <1>7, Blocks
  <2> QED
    BY <1>7, <2>1
<1>9. s + y = q * n + (i + y)
  BY <1>1, <1>2
<1>10. (s + y) % n = i + y
  <2>1. (q * n + (i + y)) % n = i + y
    BY <1>2, <1>5, Blocks
  <2> QED
    BY <1>9, <2>1
<1>11. s * b + x = q * (n * b) + ((i + y) * b + z)
  <2>1. (q * n + (i + y)) * b = q * (n * b) + (i + y) * b
    BY <1>2, <1>5, Spread
  <2> QED
    BY <1>1, <1>2, <1>7, <1>9, <2>1
<1>12. (i + y) * b + z \in 0 .. n * b - 1 /\ n * b \in Nat \ {0}
  BY <1>1, <1>2, <1>3, <1>4, <1>5
<1>13. (s * b + x) \div (n * b) = q
  <2> DEFINE m == n * b
             w == (i + y) * b + z
  <2>1. m \in Nat \ {0} /\ w \in 0 .. m - 1 /\ s * b + x = q * m + w
    BY <1>11, <1>12
  <2> HIDE DEF m, w
  <2>2. (q * m + w) \div m = q
    BY <1>2, <2>1, Blocks
  <2>3. (s * b + x) \div m = q
    BY <2>1, <2>2
  <2> QED
    BY <2>3 DEF m
<1> QED
  BY <1>1, <1>8, <1>10, <1>13 DEF y, z, q, i

LEMMA PositionOfSector ==
  ASSUME NEW b \in Nat \ {0}, NEW n \in Nat \ {0}, NEW s \in Nat
  PROVE  (s * b) \div (n * b) = s \div n
<1>1. s % n \in Nat /\ s % n < n
  BY DivMod
<1>2. ASSUME NEW a \in Nat, a < n PROVE a * b < n * b /\ a * b \in Nat
  BY <1>2
<1>3. (s % n) * b < n * b /\ (s % n) * b \in Nat
  BY <1>1, <1>2
<1>4. ASSUME NEW x \in Nat, x = 0 PROVE (s * b) \div (n * b) = s \div n
  <2>1. (s % n) * b + x < n * b /\ s * b + x = s * b
    BY <1>3, <1>4
  <2>2. (s * b + x) \div (n * b) = s \div n
    BY <2>1, Position
  <2> QED
    BY <2>1, <2>2
<1> QED
  BY <1>4

LEMMA CopiesAll ==
  ASSUME remains \in Nat, remains > 0, Whole(remains), vol.spc # 1
  PROVE  CopyLen = remains
<1>1. B \in Nat \ {0}
  BY StorageAssumption
<1>2. CASE remains <= B
  BY <1>1, <1>2 DEF CopyLen, Minimum
<1>3. CASE ~(remains <= B)
  <2> DEFINE q == (2 * remains + B) \div (2 * B)
             m == remains \div B
             t == remains % B
  <2>1. m \in Nat /\ t \in 0 .. B - 1 /\ remains = m * B + t
    BY <1>1, DivMod
  <2>2. CopyLen = Minimum(remains, B * q)
    BY <1>3 DEF CopyLen
  <2>3. t = 0 \/ 2 * t >= B
    BY <1>3 DEF Whole
  <2>4. 2 * B \in Nat \ {0}
    BY <1>1
  <2> HIDE DEF m, t, q
  <2>5. m * (2 * B) = 2 * (m * B) /\ m * B \in Nat /\ B * m = m * B
    BY <1>1, <2>1
  <2>6. CASE t = 0
    <3>1. 2 * remains + B = m * (2 * B) + B /\ B \in 0 .. 2 * B - 1
      BY <1>1, <2>1, <2>5, <2>6
    <3>2. (m * (2 * B) + B) \div (2 * B) = m
      BY <2>1, <2>4, <3>1, Blocks
    <3>3. q = m
      BY <3>1, <3>2 DEF q
    <3> QED
      BY <2>1, <2>2, <2>5, <2>6, <3>3 DEF Minimum
  <2>7. CASE 2 * t >= B
    <3>1. (m + 1) * (2 * B) = m * (2 * B) + 2 * B /\ B * (m + 1) = m * B + B /\ m + 1 \in Nat
      BY <1>1, <2>1
    <3>2. 2 * remains + B = (m + 1) * (2 * B) + (2 * t - B) /\ 2 * t - B \in 0 .. 2 * B - 1
      BY <1>1, <2>1, <2>5, <2>7, <3>1
    <3>3. ((m + 1) * (2 * B) + (2 * t - B)) \div (2 * B) = m + 1
      BY <2>4, <3>1, <3>2, Blocks
    <3>4. q = m + 1
      BY <3>2, <3>3 DEF q
    <3> QED
      BY <1>1, <2>1, <2>2, <2>5, <3>1, <3>4 DEF Minimum
  <2> QED
    BY <2>3, <2>6, <2>7
<1> QED
  BY <1>2, <1>3

\* Before a turn Read is at a sector's beginning, in a cluster that has room for what
\* it is about to copy; behind that is the end of a page or of the file.
PageEnds(p) == p = vol.size \/ \E k \in Nat : p = k * Page

Turn(s) ==
  /\ pos = s * B
  /\ cluster = At(vol, vol.file, s \div vol.spc)
  /\ sector = SectorOf(vol, cluster, pos)
  /\ (s % vol.spc) * B + remains <= vol.spc * B
  /\ Whole(remains)
  /\ PageEnds(pos + remains)

PagedInv ==
  (board = "raspi4" /\ vol.spc # 1 /\ PageClusters(vol) /\ pc \in {"page", "read"}) =>
    IF pc = "page" \/ remains = 0 THEN PageEnds(pos) ELSE \E s \in Nat : Turn(s)

\* A page is in one cluster.
LEMMA PageInCluster ==
  ASSUME NEW n \in Nat \ {0}, n % PageSectors = 0, NEW k \in Nat
  PROVE  ((k * PageSectors) % n) * B + Page <= n * B
<1> DEFINE m == n \div PageSectors
           j == k % m
           q == k \div m
<1>1. PageSectors \in Nat \ {0} /\ B \in Nat \ {0} /\ Page \in Nat
  BY StorageAssumption DEF Page
<1>2. m \in Nat /\ n = m * PageSectors
  BY <1>1, DivMod
<1>3. m # 0
  BY <1>1, <1>2
<1>4. q \in Nat /\ j \in 0 .. m - 1 /\ k = q * m + j
  BY <1>2, <1>3, DivMod
<1> HIDE DEF m, j, q
<1>5. k * PageSectors = q * n + j * PageSectors
  BY <1>1, <1>2, <1>4, Spread
<1>6. (j + 1) * PageSectors = j * PageSectors + PageSectors /\ j * PageSectors \in Nat
  BY <1>1, <1>4
<1>7. (j + 1) * PageSectors <= m * PageSectors
  <2>1. ASSUME NEW a \in Nat, a <= m PROVE a * PageSectors <= m * PageSectors
    BY <1>1, <1>2, <2>1
  <2> QED
    BY <1>2, <1>4, <2>1
<1>8. j * PageSectors \in 0 .. n - 1
  BY <1>1, <1>2, <1>6, <1>7
<1>9. (k * PageSectors) % n = j * PageSectors
  BY <1>4, <1>5, <1>8, Blocks
<1>10. (j * PageSectors) * B + PageSectors * B <= n * B
  <2>1. (j * PageSectors + PageSectors) * B = (j * PageSectors) * B + PageSectors * B
    BY <1>1, <1>6
  <2>2. ASSUME NEW a \in Nat, a <= n PROVE a * B <= n * B
    BY <1>1, <2>2
  <2>3. (j * PageSectors + PageSectors) * B <= n * B
    BY <1>1, <1>2, <1>6, <1>7, <2>2
  <2> QED
    BY <2>1, <2>3
<1>11. PageSectors * B = Page
  BY <1>1 DEF Page
<1> QED
  BY <1>9, <1>10, <1>11

LEMMA ReadBeginTurn ==
  ASSUME TypeInv, ListInv, PagedInv, PageClusters(vol), vol.spc # 1, ReadBegin
  PROVE  PagedInv'
<1>1. /\ pc = "page" /\ pc' = "read" /\ pos < vol.size /\ pos' = pos /\ vol' = vol
      /\ board' = board /\ remains' = Minimum(Page, vol.size - pos)
  BY DEF ReadBegin, setting
<1>2. board = "raspi4" /\ IsVolume(vol) /\ pos \in Nat /\ vol.size \in Nat
      /\ vol.spc \in Nat \ {0}
  BY <1>1, SettingFacts DEF TypeInv, Sides, CopyOK, IsVolume
<1>3. B \in Nat \ {0} /\ PageSectors \in Nat \ {0} /\ Page = PageSectors * B /\ Page \in Nat \ {0}
  BY StorageAssumption DEF Page
<1>4. PICK k \in Nat : pos = k * Page
  BY <1>1, <1>2 DEF PagedInv, PageEnds
<1> DEFINE s == k * PageSectors
           n == vol.spc
<1>5. s \in Nat /\ pos = s * B
  <2>1. k * (PageSectors * B) = (k * PageSectors) * B
    BY <1>3
  <2> QED
    BY <1>3, <1>4, <2>1
<1>6. /\ list' \in Seq(Nat) /\ list' # <<>> /\ list'[1] = vol.file /\ Follows(vol, list')
      /\ Hops \in 1 .. Len(list') /\ cluster' = list'[Hops]
      /\ sector' = SectorOf(vol, cluster', pos)
  BY <1>1, ReadBeginIs DEF ListInv, Walking
<1>7. (s % n) * B + Page <= n * B
  BY <1>2, PageInCluster DEF PageClusters
<1> HIDE DEF s
<1>8. pos \div (n * B) = s \div n
  BY <1>2, <1>3, <1>5, PositionOfSector
<1>9. cluster' = At(vol, vol.file, s \div n)
  <2>1. list'[Hops] = At(vol, vol.file, Hops - 1)
    BY <1>6, FollowsAt
  <2>2. s \div n \in Nat
    BY <1>2, <1>5, DivMod
  <2>3. Hops - 1 = s \div n
    BY <1>8, <2>2 DEF Hops
  <2> QED
    BY <1>6, <2>1, <2>3
<1>10. remains' \in 1 .. Page
  BY <1>1, <1>2, <1>3 DEF Minimum
<1>11. (s % n) * B + remains' <= n * B
  <2>1. (s % n) * B \in Nat /\ n * B \in Nat
    <3>1. s % n \in Nat
      BY <1>2, <1>5
    <3> QED
      BY <1>2, <1>3, <3>1
  <2> QED
    BY <1>3, <1>7, <1>10, <2>1
<1>12. /\ Whole(remains')
       /\ pos + remains' = vol.size \/ \E i \in Nat : pos + remains' = i * Page
  <2>1. CASE Page <= vol.size - pos
    <3>1. remains' = Page
      BY <1>1, <2>1 DEF Minimum
    <3>2. (PageSectors * B + 0) % B = 0
      BY <1>3, Blocks
    <3>3. Whole(remains')
      BY <1>3, <3>1, <3>2 DEF Whole
    <3>4. pos + remains' = (k + 1) * Page /\ k + 1 \in Nat
      BY <1>3, <1>4, <3>1
    <3> QED
      BY <3>3, <3>4
  <2>2. CASE ~(Page <= vol.size - pos)
    <3>1. remains' = vol.size - pos /\ remains' \in 0 .. Page - 1
      BY <1>1, <1>2, <1>3, <2>2 DEF Minimum
    <3>2. pos + remains' = vol.size /\ vol.size = k * Page + remains'
      BY <1>2, <1>4, <3>1
    <3>3. (k * Page + remains') % Page = remains'
      BY <1>3, <3>1, Blocks
    <3>4. Rest(vol) = remains'
      BY <3>2, <3>3 DEF Rest
    <3> QED
      BY <3>2, <3>4 DEF PageClusters
  <2> QED
    BY <2>1, <2>2
<1>13. Turn(s)'
  BY <1>1, <1>5, <1>6, <1>9, <1>11, <1>12 DEF Turn, PageEnds
<1>14. remains' # 0
  BY <1>10
<1> QED
  BY <1>1, <1>5, <1>13, <1>14 DEF PagedInv

LEMMA ReadStepTurn ==
  ASSUME TypeInv, ListInv, PagedInv, PageClusters(vol), vol.spc # 1, ReadStep
  PROVE  /\ PagedInv'
         /\ \A u \in pos .. pos' - 1 : u \in DOMAIN mem => mem'[u] = PlaceAt(board, vol, u)
<1>1. /\ pc = "read" /\ pc' = "read" /\ remains > 0 /\ NextSector /\ cluster' = cluster
      /\ IsValidCluster(cluster)
      /\ pos' = pos + CopyLen /\ remains' = remains - CopyLen
      /\ vol' = vol /\ board' = board
      /\ mem' = [u \in DOMAIN mem |->
                   IF u \in pos .. pos + CopyLen - 1
                   THEN <<sector + (u - pos) \div B, (u - pos) % B>> ELSE mem[u]]
  BY DEF ReadStep, setting
<1>2. /\ board = "raspi4" /\ IsVolume(vol) /\ vol.size \in Nat /\ vol.spc \in Nat \ {0}
      /\ pos \in Nat /\ remains \in Nat /\ cluster \in Nat /\ vol.data_first_sector \in Nat
  BY <1>1, SettingFacts DEF TypeInv, Sides, CopyOK, WalkOK, Walking, IsVolume
<1>3. B \in Nat \ {0}
  BY StorageAssumption
<1>4. PICK s \in Nat : Turn(s)
  BY <1>1, <1>2 DEF PagedInv
<1>5. CopyLen \in 1 .. remains
  BY <1>1, <1>2, CopyLenIs
<1> DEFINE n == vol.spc
           base == vol.data_first_sector + (cluster - 2) * n
<1>6. base \in Int
  <2>1. (cluster - 2) * n \in Int
    BY <1>2
  <2> QED
    BY <1>2, <2>1
<1> HIDE DEF base
<1>7. /\ pos = s * B /\ (s % n) * B + remains <= n * B
      /\ cluster = At(vol, vol.file, s \div n)
      /\ sector = SectorOf(vol, cluster, pos)
  BY <1>4 DEF Turn
<1>8. ASSUME NEW x \in Nat, x < remains
      PROVE  /\ (pos + x) \div B = s + x \div B /\ (pos + x) % B = x % B
             /\ (s + x \div B) % n = (s % n) + x \div B
             /\ (pos + x) \div (n * B) = s \div n
             /\ x \div B \in Nat /\ x % B \in Nat
  <2>1. (s % n) * B + x < n * B
    <3>1. s % n \in Nat
      BY <1>2
    <3>2. (s % n) * B \in Nat /\ n * B \in Nat
      BY <1>2, <1>3, <3>1
    <3> QED
      BY <1>2, <1>7, <1>8, <3>2
  <2>2. /\ (s * B + x) \div B = s + x \div B /\ (s * B + x) % B = x % B
        /\ (s + x \div B) % n = (s % n) + x \div B
        /\ (s * B + x) \div (n * B) = s \div n
        /\ x \div B \in Nat /\ x % B \in Nat
    BY <1>2, <1>3, <2>1, Position
  <2> QED
    BY <1>7, <2>2
<1>9. \A o : SectorOf(vol, cluster, o) = base + ((o \div B) % n)
  BY DEF SectorOf, base
<1>10. s % n \in 0 .. n - 1 /\ sector = base + (s % n)
  <2>1. 0 \in Nat /\ 0 < remains /\ pos + 0 = pos /\ 0 \div B = 0
    BY <1>1, <1>2, <1>3
  <2>2. pos \div B = s + 0 /\ s + 0 = s
    BY <1>8, <2>1
  <2>3. sector = base + ((pos \div B) % n)
    BY <1>7, <1>9
  <2>4. s % n \in 0 .. n - 1
    BY <1>2, DivMod
  <2> QED
    BY <2>2, <2>3, <2>4
<1>11. ASSUME NEW x \in Nat, x < remains
       PROVE  SectorOf(vol, cluster, pos + x) = sector + x \div B
  <2>1. SectorOf(vol, cluster, pos + x) = base + ((s % n) + x \div B)
    BY <1>8, <1>9, <1>11
  <2>2. x \div B \in Nat
    BY <1>8, <1>11
  <2> QED
    BY <1>6, <1>10, <2>1, <2>2
<1>12. ASSUME NEW u \in pos .. pos' - 1, u \in DOMAIN mem
       PROVE  mem'[u] = PlaceAt(board, vol, u)
  <2> DEFINE x == u - pos
  <2>1. u \in pos .. pos + CopyLen - 1 /\ x \in Nat /\ x < remains /\ pos + x = u
    <3>1. pos' = pos + CopyLen /\ CopyLen \in Nat /\ CopyLen <= remains
      BY <1>1, <1>2, <1>5
    <3> QED
      BY <1>2, <1>12, <3>1
  <2>2. mem'[u] = <<sector + x \div B, x % B>>
    BY <1>1, <1>12, <2>1
  <2> HIDE DEF x
  <2>3. u % B = x % B /\ u \div (n * B) = s \div n /\ SectorOf(vol, cluster, u) = sector + x \div B
    BY <1>8, <1>11, <2>1
  <2>4. PlaceAt(board, vol, u) = <<SectorOf(vol, cluster, u), u % B>>
    BY <1>2, <1>7, <2>3 DEF PlaceAt
  <2> QED
    BY <2>2, <2>3, <2>4
<1>13. PagedInv'
  <2>1. CopyLen = remains
    BY <1>1, <1>2, <1>4, CopiesAll DEF Turn
  <2>2. pos' = pos + remains /\ remains' = 0
    BY <1>1, <1>2, <2>1
  <2>3. PageEnds(pos)'
    BY <1>1, <1>4, <2>2 DEF Turn, PageEnds
  <2> QED
    BY <2>2, <2>3 DEF PagedInv
<1> QED
  BY <1>12, <1>13

LEMMA PagedStep ==
  ASSUME TypeInv, ListInv, PagedInv, [Next]_vars
  PROVE  PagedInv'
<1>1. vol' = vol /\ board' = board
  BY SettingStays
<1> SUFFICES ASSUME PageClusters(vol), vol.spc # 1, board = "raspi4" PROVE PagedInv'
  BY <1>1 DEF PagedInv
<1>2. CASE OpenEnd
  <2>1. pos' = 0 /\ pc' # "read"
    BY <1>2 DEF OpenEnd
  <2>2. 0 \in Nat /\ 0 = 0 * Page
    BY StorageAssumption DEF Page
  <2> QED
    BY <1>1, <2>1, <2>2 DEF PagedInv, PageEnds
<1>3. CASE ReadBegin \/ ReadStep
  BY <1>3, ReadBeginTurn, ReadStepTurn
<1>4. CASE VirtioInitEnd \/ ReadWriteDiskEnd
  BY <1>4 DEF VirtioInitEnd, ReadWriteDiskEnd, TypeInv, Sides
<1>5. CASE /\ UNCHANGED copy /\ UNCHANGED walk
           /\ pc' \in {"page", "read"} => pc \in {"page", "read"}
           /\ pc' = "read" => pc = "read"
           /\ pc = "read" /\ pc' = "page" => ReadEnd
  <2>1. UNCHANGED <<pos, remains, cluster, sector>>
    BY <1>5 DEF copy, walk
  <2>2. CASE pc' \notin {"page", "read"}
    BY <2>2 DEF PagedInv
  <2>3. PageEnds(pos) => PageEnds(pos)'
    BY <1>1, <2>1 DEF PageEnds
  <2>4. ASSUME NEW s \in Nat, Turn(s) PROVE Turn(s)'
    BY <1>1, <2>1, <2>4 DEF Turn, PageEnds
  <2>5. CASE pc' = "read"
    <3>1. pc = "read"
      BY <1>5, <2>5
    <3> QED
      BY <1>1, <2>1, <2>3, <2>4, <2>5, <3>1 DEF PagedInv
  <2>6. CASE pc' = "page"
    <3>1. pc = "page" \/ (pc = "read" /\ remains = 0)
      BY <1>5, <2>6 DEF ReadEnd
    <3>2. PageEnds(pos)
      BY <3>1 DEF PagedInv
    <3> QED
      BY <1>1, <2>1, <2>3, <2>6, <3>2 DEF PagedInv
  <2> QED
    BY <2>2, <2>5, <2>6
<1>6. CASE FsInit \/ OpenNext
  BY <1>6 DEF FsInit, OpenNext, PagedInv
<1> QED
  BY <1>2, <1>3, <1>4, <1>5, <1>6, WalkChanges, CopyChanges, ReadEnds

-----------------------------------------------------------------------------
(* The image *)

\* Where a unit is sure to come from its place.
Exact == board = "qemu" \/ vol.spc = 1 \/ PageClusters(vol)

Copies == {"page", "read", "disk", "notified", "wait", "loaded"}

MemInv ==
  Exact /\ pc \in Copies =>
    /\ mem = [u \in 0 .. vol.size - 1 |-> mem[u]]
    /\ \A u \in 0 .. pos - 1 : mem[u] = PlaceAt(board, vol, u)
    /\ pc = "loaded" => pos = vol.size

LEMMA MemStep ==
  ASSUME TypeInv, ListInv, ReadInv, PagedInv, VqInv, MemInv, [Next]_vars
  PROVE  MemInv'
<1>1. vol' = vol /\ board' = board /\ vol.size \in Nat /\ B \in Nat \ {0} /\ pos \in 0 .. vol.size
  BY SettingStays, SettingFacts, StorageAssumption DEF TypeInv, CopyOK
<1> SUFFICES ASSUME Exact PROVE MemInv'
  BY <1>1 DEF MemInv, Exact
<1>2. CASE /\ UNCHANGED copy
           /\ pc' \in {"page", "read"} => pc \in {"page", "read"}
           /\ pc' \in {"disk", "notified", "wait"} => pc \in {"disk", "notified", "wait"}
           /\ pc' = "loaded" => pc = "loaded" \/ (pc \in {"page", "disk"} /\ pos = vol.size)
  <2>1. mem' = mem /\ pos' = pos /\ (pc' \in Copies => pc \in Copies)
    BY <1>2 DEF copy, Copies
  <2> QED
    BY <1>1, <1>2, <2>1 DEF MemInv
<1>3. CASE OpenEnd \/ VirtioInitEnd
  <2>1. /\ pos' = 0 /\ pc' # "loaded"
        /\ mem' = [u \in 0 .. vol.size - 1 |-> <<>>]
    BY <1>3 DEF OpenEnd, VirtioInitEnd
  <2>2. mem' = [u \in 0 .. vol.size - 1 |-> mem'[u]]
    BY <2>1
  <2>3. 0 .. pos' - 1 = {}
    BY <2>1
  <2> QED
    BY <1>1, <2>1, <2>2, <2>3 DEF MemInv
<1>4. CASE ReadBegin
  <2>1. mem' = mem /\ pos' = pos /\ pc = "page" /\ pc' = "read"
    BY <1>4 DEF ReadBegin
  <2> QED
    BY <1>1, <2>1 DEF MemInv, Copies
<1>5. CASE ReadStep \/ ReadWriteDiskEnd
  <2>1. /\ pc \in {"read", "wait"} /\ pc' # "loaded"
    BY <1>5 DEF ReadStep, ReadWriteDiskEnd
  <2>2. /\ mem = [u \in 0 .. vol.size - 1 |-> mem[u]]
        /\ \A u \in 0 .. pos - 1 : mem[u] = PlaceAt(board, vol, u)
    BY <2>1 DEF MemInv, Copies
  <2>3. DOMAIN mem = 0 .. vol.size - 1
    BY <2>2
  <2>4. /\ mem' = [u \in 0 .. vol.size - 1 |-> mem'[u]]
        /\ pos' \in Nat
        /\ \A u \in DOMAIN mem : u \notin pos .. pos' - 1 => mem'[u] = mem[u]
        /\ \A u \in pos .. pos' - 1 : u \in DOMAIN mem => mem'[u] = PlaceAt(board, vol, u)
        /\ pos' <= vol.size
    <3>1. pos' \in 0 .. vol.size
      BY <1>1, CopyStep DEF CopyOK
    <3>2. CASE ReadStep
      <4>1. /\ pos' = pos + CopyLen
            /\ mem' = [u \in DOMAIN mem |->
                         IF u \in pos .. pos + CopyLen - 1
                         THEN <<sector + (u - pos) \div B, (u - pos) % B>> ELSE mem[u]]
        BY <3>2 DEF ReadStep
      <4>2. vol.spc = 1 \/ (PageClusters(vol) /\ vol.spc # 1)
        BY <3>2 DEF ReadStep, Exact, TypeInv, Sides
      <4>0. CopyLen \in Int
        <5>1. remains \in Nat /\ remains > 0
          BY <3>2 DEF ReadStep, TypeInv, CopyOK
        <5> QED
          BY <5>1, CopyLenIs
      <4>3. \A u \in pos .. pos' - 1 : u \in DOMAIN mem => mem'[u] = PlaceAt(board, vol, u)
        BY <3>2, <4>2, ReadStepPlace, ReadStepTurn
      <4>4. \A u \in DOMAIN mem : u \notin pos .. pos' - 1 => mem'[u] = mem[u]
        <5>1. pos' = pos + CopyLen /\ CopyLen \in Int
          BY <1>1, <4>1, <4>0
        <5>2. pos .. pos' - 1 = pos .. pos + CopyLen - 1
          BY <1>1, <5>1
        <5> QED
          BY <4>1, <5>2, Zenon
      <4>5. mem' = [u \in 0 .. vol.size - 1 |-> mem'[u]]
        BY <2>3, <4>1, Zenon
      <4> QED
        BY <1>1, <3>1, <4>3, <4>4, <4>5
    <3>3. CASE ReadWriteDiskEnd /\ vq.status # "ok"
      <4>1. mem' = mem /\ pos' = pos
        BY <3>3 DEF ReadWriteDiskEnd
      <4>2. pos .. pos' - 1 = {}
        BY <1>1, <4>1
      <4> QED
        BY <1>1, <2>2, <3>1, <4>1, <4>2
    <3>4. CASE ReadWriteDiskEnd /\ vq.status = "ok"
      <4>1. /\ pos' = pos + B /\ pc = "wait" /\ vq.last = vq.used
            /\ mem' = [u \in DOMAIN mem |->
                         IF u \in pos .. pos + B - 1 THEN <<vq.data, u - pos>> ELSE mem[u]]
        BY <3>4 DEF ReadWriteDiskEnd, VirtqIsBusy
      <4>2. vq.sector \in Nat /\ vq.seen \in Indices
        BY DEF TypeInv, VqOK
      <4>3. vq.data = vq.sector /\ pos = vq.sector * B
        <5>1. vq.last = vq.avail /\ vq.used = vq.avail
          BY <4>1 DEF VqInv
        <5> QED
          BY <3>4, <4>1, <4>2, <5>1, SuccDiffers DEF VqInv
      <4>4. board = "qemu"
        BY <4>1 DEF TypeInv, Sides
      <4>5. ASSUME NEW u \in pos .. pos' - 1, u \in DOMAIN mem
            PROVE  mem'[u] = PlaceAt(board, vol, u)
        <5>1. PICK r \in 0 .. B - 1 : u = pos + r
          <6>1. u - pos \in 0 .. B - 1 /\ u = pos + (u - pos)
            BY <1>1, <4>1
          <6> QED
            BY <6>1
        <5>2. u \div B = vq.sector /\ u % B = r
          BY <1>1, <4>2, <4>3, <5>1, Blocks
        <5>3. u \in pos .. pos + B - 1 /\ u - pos = r
          BY <1>1, <4>1, <5>1
        <5>4. mem'[u] = <<vq.sector, r>>
          BY <4>1, <4>3, <4>5, <5>3
        <5> QED
          BY <4>4, <5>2, <5>4 DEF PlaceAt
      <4>6. \A u \in DOMAIN mem : u \notin pos .. pos' - 1 => mem'[u] = mem[u]
        <5>1. pos' = pos + B /\ B \in Int
          BY <1>1, <4>1
        <5>2. pos .. pos' - 1 = pos .. pos + B - 1
          BY <1>1, <5>1
        <5> QED
          BY <4>1, <5>2, Zenon
      <4>7. mem' = [u \in 0 .. vol.size - 1 |-> mem'[u]]
        BY <2>3, <4>1, Zenon
      <4> QED
        BY <1>1, <3>1, <4>5, <4>6, <4>7
    <3> QED
      BY <1>5, <3>2, <3>3, <3>4
  <2>5. ASSUME NEW u \in 0 .. pos' - 1 PROVE mem'[u] = PlaceAt(board, vol, u)
    <3>1. u \in DOMAIN mem /\ u \in Nat
      BY <1>1, <2>3, <2>4
    <3>2. CASE u \in pos .. pos' - 1
      BY <2>4, <3>1, <3>2
    <3>3. CASE u \notin pos .. pos' - 1
      <4>1. u \in 0 .. pos - 1
        BY <1>1, <2>4, <3>1, <3>3
      <4> QED
        BY <2>2, <2>4, <3>1, <3>3, <4>1
    <3> QED
      BY <3>2, <3>3
  <2> QED
    BY <1>1, <2>1, <2>4, <2>5 DEF MemInv
<1> QED
  BY <1>2, <1>3, <1>4, <1>5, CopyChanges

\* What is reported as successfully loaded is the image, each part in its place: from
\* the virtio disk, whenever the disk serves a request and however the virtqueue's
\* indices wrap, and from the card, with one sector per cluster or, but for some sizes
\* of the file, with clusters of whole pages, if Open gets through the directory.
THEOREM LoadsTheFile == Spec => [](Exact => LoadedIsFile)
<1>1. Init => ReadInv /\ PagedInv /\ VqInv /\ MemInv
  BY DEF Init, ReadInv, PagedInv, VqInv, MemInv, NoRequest, Copies
<1>2. TypeInv /\ ListInv /\ ReadInv /\ PagedInv /\ VqInv /\ MemInv /\ [Next]_vars =>
        ReadInv' /\ PagedInv' /\ VqInv' /\ MemInv'
  BY ReadInvStep, PagedStep, VqInvStep, MemStep
<1>3. MemInv => (Exact => LoadedIsFile)
  <2> SUFFICES ASSUME MemInv, Exact, pc = "loaded"
               PROVE  mem = [u \in 0 .. vol.size - 1 |-> Place(u)]
    BY DEF LoadedIsFile
  <2>1. /\ mem = [u \in 0 .. vol.size - 1 |-> mem[u]]
        /\ \A u \in 0 .. vol.size - 1 : mem[u] = PlaceAt(board, vol, u)
    BY DEF MemInv, Copies
  <2>2. \A u \in 0 .. vol.size - 1 : mem[u] = Place(u)
    BY <2>1, PlaceIs
  <2> QED
    BY <2>1, <2>2, Zenon
<1> QED
  BY <1>1, <1>2, <1>3, TypesHold, ListHolds, PTL DEF Spec

-----------------------------------------------------------------------------
(* The region *)

UsedOf(m) == {p \in 1 .. Region : m.ref_count[p] # 0}

LEMMA TakenUsed ==
  ASSUME NEW m \in Maps, NEW i \in 1 .. Region, NEW n \in {1, 2}, i + n - 1 <= Region,
         \A p \in i .. i + n - 1 : p \notin UsedOf(m)
  PROVE  /\ UsedOf(Taken(m, i, n)) = UsedOf(m) \cup (i .. i + n - 1)
         /\ \A p \in i .. i + n - 1 : /\ Taken(m, i, n).ref_count[p] = 1
                                      /\ Taken(m, i, n).size[p] = n
         /\ \A p \in 1 .. Region : p \notin i .. i + n - 1 =>
              /\ Taken(m, i, n).ref_count[p] = m.ref_count[p]
              /\ Taken(m, i, n).size[p] = m.size[p]
<1>1. Region \in Nat /\ i \in Nat /\ n \in Nat
  BY StorageAssumption
<1>2. \A p \in i .. i + n - 1 : p \in 1 .. Region
  BY <1>1
<1> DEFINE t == Taken(m, i, n)
<1>3. \A p \in 1 .. Region :
        /\ t.ref_count[p] = IF p \in i .. i + n - 1 THEN (m.ref_count[p] + 1) % 256
                            ELSE m.ref_count[p]
        /\ t.size[p] = IF p \in i .. i + n - 1 THEN n ELSE m.size[p]
  BY DEF Taken
<1>4. \A p \in i .. i + n - 1 : m.ref_count[p] = 0
  BY <1>2 DEF UsedOf
<1> HIDE DEF t
<1>5. (0 + 1) % 256 = 1
  OBVIOUS
<1>6. \A p \in i .. i + n - 1 : t.ref_count[p] = 1 /\ t.size[p] = n
  BY <1>2, <1>3, <1>4, <1>5
<1>7. \A p \in 1 .. Region : p \notin i .. i + n - 1 =>
        t.ref_count[p] = m.ref_count[p] /\ t.size[p] = m.size[p]
  BY <1>3
<1>8. UsedOf(t) = UsedOf(m) \cup (i .. i + n - 1)
  BY <1>2, <1>6, <1>7 DEF UsedOf
<1> QED
  BY <1>6, <1>7, <1>8 DEF t

LEMMA FreeUsed ==
  ASSUME NEW m \in Maps, NEW i \in 1 .. Region, m.ref_count[i] = 1
  PROVE  /\ m.size[i] = 1 => UsedOf(Free(m, i)) = UsedOf(m) \ {i}
         /\ m.size[i] = 2 => UsedOf(Free(m, i)) = UsedOf(m)
         /\ \A p \in 1 .. Region : p # i =>
              /\ Free(m, i).ref_count[p] = m.ref_count[p]
              /\ Free(m, i).size[p] = m.size[p]
<1> DEFINE r == m.ref_count
           s == m.size
           f == Free(m, i)
           x == (r[i] - s[i]) % 256
<1>1. r \in [1 .. Region -> 0 .. 255] /\ s \in [1 .. Region -> 0 .. 2]
      /\ m = [ref_count |-> r, size |-> s]
  BY MapsAre
<1>2. f.ref_count = [r EXCEPT ![i] = x] /\ f.size = [s EXCEPT ![i] = 0]
  <2>1. f = [[m EXCEPT !.ref_count[i] = x] EXCEPT !.size[i] = 0]
    BY DEF Free
  <2> HIDE DEF r, s, f, x
  <2>2. [m EXCEPT !.ref_count[i] = x] = [ref_count |-> [r EXCEPT ![i] = x], size |-> s]
    BY <1>1
  <2> QED
    BY <2>1, <2>2
<1>3. s[i] = 1 => x = 0
  <2>1. (1 - 1) % 256 = 0
    OBVIOUS
  <2> QED
    BY <2>1
<1>4. s[i] = 2 => x = 255
  <2>1. ASSUME NEW a \in Int, a < 0, a >= -256 PROVE a % 256 = a + 256
    BY <2>1
  <2>2. ASSUME s[i] = 2
        PROVE  r[i] - s[i] \in Int /\ r[i] - s[i] < 0 /\ r[i] - s[i] >= -256
               /\ (r[i] - s[i]) + 256 = 255
    BY <2>2
  <2> QED
    BY <2>1, <2>2
<1> HIDE DEF x, f
<1>5. f.ref_count[i] = x /\ \A p \in 1 .. Region : p # i =>
        f.ref_count[p] = m.ref_count[p] /\ f.size[p] = m.size[p]
  BY <1>1, <1>2
<1>6. s[i] = 1 => UsedOf(f) = UsedOf(m) \ {i}
  BY <1>3, <1>5 DEF UsedOf
<1>7. s[i] = 2 => UsedOf(f) = UsedOf(m)
  BY <1>4, <1>5 DEF UsedOf
<1> QED
  BY <1>5, <1>6, <1>7 DEF f

\* Where no page up to m is free and n pages behind it are, they are handed out.
LEMMA FirstSpace ==
  ASSUME NEW n \in {1, 2}, NEW i \in 1 .. Region, i + n - 1 <= Region,
         \A p \in 1 .. i - 1 : p \in UsedOf(pages),
         \A p \in i .. i + n - 1 : p \notin UsedOf(pages)
  PROVE  Spaces(n) # {} /\ First(Spaces(n)) = i
<1>1. Region \in Nat /\ i \in Nat /\ n \in Nat
  BY StorageAssumption
<1>2. i \in Spaces(n)
  <2> SUFFICES ASSUME NEW j \in 0 .. n - 1 PROVE Available(i + j)
    BY DEF Spaces
  <2>1. i + j \in i .. i + n - 1 /\ i + j \in 1 .. Region /\ ~(i + j > Region)
    BY <1>1
  <2> QED
    BY <2>1 DEF Available, UsedOf
<1>3. ASSUME NEW k \in Spaces(n) PROVE i <= k
  <2>1. k \in 1 .. Region /\ 0 \in 0 .. n - 1 /\ k + 0 = k
    BY <1>1 DEF Spaces
  <2>2. Available(k + 0)
    BY <2>1 DEF Spaces
  <2>3. k \notin UsedOf(pages)
    BY <1>1, <2>1, <2>2 DEF Available, UsedOf
  <2>4. ~(k \in 1 .. i - 1)
    BY <2>3
  <2> QED
    BY <1>1, <2>1, <2>4
<1>4. Spaces(n) \subseteq Nat
  BY <1>1 DEF Spaces
<1>5. First(Spaces(n)) \in Spaces(n) /\ First(Spaces(n)) <= i
  BY <1>2, <1>4, FirstIn
<1>6. i <= First(Spaces(n)) /\ First(Spaces(n)) \in Nat
  BY <1>3, <1>4, <1>5
<1> QED
  BY <1>1, <1>2, <1>5, <1>6

\* Blocks in the region that have no page in common, as RegionLasts has it.
Apart(s) ==
  /\ \A b \in s : b.at + b.num_pages - 1 <= Region
  /\ \A b, c \in s : b # c => b.at + b.num_pages <= c.at \/ c.at + c.num_pages <= b.at

\* The pages in use are the first n, but for the buffer of Open behind them.
BufferBehind(n) ==
  IF buf = Null THEN UsedOf(pages) = 1 .. n
  ELSE /\ buf \in {n + 1, n + 2} /\ UsedOf(pages) = (1 .. n) \cup {buf}
       /\ pages.ref_count[buf] = 1 /\ pages.size[buf] = 1

\* The pages in use are the first n, and every block is one of them.
Below(n) == UsedOf(pages) = 1 .. n /\ \A b \in live : b.at + b.num_pages - 1 <= n

\* With each image that is loaded the pages in use grow by two, or by three.
RegInv ==
  loaded < Lasting =>
    /\ pc # "panic" /\ Apart(live)
    /\ board = "raspi4" =>
         /\ pc \in {"start", "loaded"} => UsedOf(pages) = 1 .. 2 * loaded
         /\ pc \in {"init", "page", "read"} => UsedOf(pages) = 1 .. 2 * loaded + 2
         /\ pc \in {"open", "next"} => BufferBehind(2 * loaded + 2)
    /\ board = "qemu" =>
         /\ pc \in {"start", "loaded"} => Below(3 * loaded)
         /\ pc = "request" => Below(3 * loaded + 2)
         /\ pc \in {"disk", "notified", "wait"} => Below(3 * loaded + 3)

LEMMA Room ==
  ASSUME TypeInv, loaded < Lasting
  PROVE  /\ board = "raspi4" => 2 * loaded + 4 <= Region
         /\ board = "qemu" => 3 * loaded + 3 <= Region
         /\ loaded \in Nat /\ Region \in Nat
<1>1. loaded \in Nat /\ Region \in Nat
  BY StorageAssumption DEF TypeInv, PointOK
<1>2. ASSUME board = "raspi4" PROVE 2 * loaded + 4 <= Region
  <2>1. loaded < (Region - 2) \div 2
    BY <1>2 DEF Lasting
  <2> QED
    BY <1>1, <2>1
<1>3. ASSUME board = "qemu" PROVE 3 * loaded + 3 <= Region
  <2>1. loaded < Region \div 3
    BY <1>3 DEF Lasting
  <2> QED
    BY <1>1, <2>1
<1> QED
  BY <1>1, <1>2, <1>3

\* Beside the pages in use and a buffer there is one more, or there are two.
LEMMA SpaceBeside ==
  ASSUME NEW n \in Nat, n + 2 <= Region,
         UsedOf(pages) = 1 .. n \/ BufferBehind(n)
  PROVE  \E i \in {n + 1, n + 2} :
           /\ i \in 1 .. Region /\ i \notin UsedOf(pages)
           /\ Spaces(1) # {} /\ First(Spaces(1)) = i
<1>0. Region \in Nat
  BY StorageAssumption
<1>1. CASE UsedOf(pages) = (1 .. n) \cup {n + 1}
  <2>1. n + 2 \in 1 .. Region /\ n + 2 \notin UsedOf(pages)
        /\ (n + 2) + 1 - 1 = n + 2 /\ (n + 2) - 1 = n + 1
    BY <1>0, <1>1
  <2>2. \A p \in 1 .. (n + 2) - 1 : p \in UsedOf(pages)
    BY <1>1, <2>1
  <2>3. \A p \in n + 2 .. (n + 2) + 1 - 1 : p \notin UsedOf(pages)
    BY <2>1
  <2>4. Spaces(1) # {} /\ First(Spaces(1)) = n + 2
    BY <1>0, <2>1, <2>2, <2>3, FirstSpace
  <2> QED
    BY <2>1, <2>4
<1>2. CASE UsedOf(pages) = 1 .. n \/ UsedOf(pages) = (1 .. n) \cup {n + 2}
  <2>1. n + 1 \in 1 .. Region /\ n + 1 \notin UsedOf(pages)
        /\ (n + 1) + 1 - 1 = n + 1 /\ (n + 1) - 1 = n
    BY <1>0, <1>2
  <2>2. \A p \in 1 .. (n + 1) - 1 : p \in UsedOf(pages)
    BY <1>2, <2>1
  <2>3. \A p \in n + 1 .. (n + 1) + 1 - 1 : p \notin UsedOf(pages)
    BY <2>1
  <2>4. Spaces(1) # {} /\ First(Spaces(1)) = n + 1
    BY <1>0, <2>1, <2>2, <2>3, FirstSpace
  <2> QED
    BY <2>1, <2>4
<1> QED
  BY <1>1, <1>2 DEF BufferBehind

\* A page that is handed out.
LEMMA PageTaken ==
  ASSUME NEW m \in Maps, NEW i \in 1 .. Region, i \notin UsedOf(m)
  PROVE  /\ Taken(m, i, 1) \in Maps /\ UsedOf(Taken(m, i, 1)) = UsedOf(m) \cup {i}
         /\ Taken(m, i, 1).ref_count[i] = 1 /\ Taken(m, i, 1).size[i] = 1
         /\ \A p \in 1 .. Region : p # i => /\ Taken(m, i, 1).ref_count[p] = m.ref_count[p]
                                            /\ Taken(m, i, 1).size[p] = m.size[p]
<1>1. i \in Nat /\ Region \in Nat /\ i + 1 - 1 = i /\ i .. i + 1 - 1 = {i}
  BY StorageAssumption
<1>2. i + 1 - 1 <= Region /\ \A p \in i .. i + 1 - 1 : p \notin UsedOf(m)
  BY <1>1
<1>3. /\ UsedOf(Taken(m, i, 1)) = UsedOf(m) \cup (i .. i + 1 - 1)
      /\ \A p \in i .. i + 1 - 1 : /\ Taken(m, i, 1).ref_count[p] = 1
                                   /\ Taken(m, i, 1).size[p] = 1
      /\ \A p \in 1 .. Region : p \notin i .. i + 1 - 1 =>
           /\ Taken(m, i, 1).ref_count[p] = m.ref_count[p]
           /\ Taken(m, i, 1).size[p] = m.size[p]
  BY <1>2, TakenUsed
<1> QED
  BY <1>1, <1>3, TakenOK

\* A buffer that is given back at once leaves the pages in use as they are.
LEMMA PassingBuffer ==
  ASSUME pages \in Maps, NEW n \in Nat, n + 2 <= Region,
         UsedOf(pages) = 1 .. n \/ BufferBehind(n), MallocFree(1)
  PROVE  /\ UsedOf(pages') = UsedOf(pages) /\ live' = live
         /\ \A p \in UsedOf(pages) : /\ pages'.ref_count[p] = pages.ref_count[p]
                                     /\ pages'.size[p] = pages.size[p]
<1>1. PICK i \in {n + 1, n + 2} :
        i \in 1 .. Region /\ i \notin UsedOf(pages) /\ First(Spaces(1)) = i
  BY SpaceBeside
<1> DEFINE t == Taken(pages, i, 1)
<1>2. pages' = Free(t, i) /\ live' = live
  BY <1>1 DEF MallocFree
<1>3. /\ t \in Maps /\ UsedOf(t) = UsedOf(pages) \cup {i}
      /\ t.ref_count[i] = 1 /\ t.size[i] = 1
      /\ \A p \in 1 .. Region : p # i => /\ t.ref_count[p] = pages.ref_count[p]
                                         /\ t.size[p] = pages.size[p]
  BY <1>1, PageTaken
<1> HIDE DEF t
<1>4. /\ UsedOf(Free(t, i)) = UsedOf(t) \ {i}
      /\ \A p \in 1 .. Region : p # i => /\ Free(t, i).ref_count[p] = t.ref_count[p]
                                         /\ Free(t, i).size[p] = t.size[p]
  BY <1>1, <1>3, FreeUsed
<1>5. UsedOf(Free(t, i)) = UsedOf(pages)
  BY <1>1, <1>3, <1>4
<1>6. \A p \in UsedOf(pages) : p \in 1 .. Region /\ p # i
  BY <1>1 DEF UsedOf
<1> QED
  BY <1>2, <1>3, <1>4, <1>5, <1>6

\* What is left of RegInv where there is room, and what a step needs of it.
LEMMA SameRegion ==
  ASSUME RegInv, loaded' < Lasting => loaded < Lasting, loaded' = loaded,
         board' = board, UNCHANGED region, buf' = buf, pc' # "panic",
         pc' \in {"start", "loaded"} => pc \in {"start", "loaded"},
         pc' \in {"init", "page", "read"} => pc \in {"init", "page", "read"},
         pc' \in {"open", "next"} => pc \in {"open", "next"},
         pc' = "request" => pc = "request",
         pc' \in {"disk", "notified", "wait"} => pc \in {"disk", "notified", "wait"}
  PROVE  RegInv'
<1>1. pages' = pages /\ live' = live
  BY DEF region
<1> QED
  BY <1>1 DEF RegInv, Lasting, BufferBehind, Below

\* The mailbox's call: both its pages stay in use.
LEMMA MailboxStays ==
  ASSUME TypeInv, RegInv, loaded < Lasting, MmcOpen
  PROVE  RegInv'
<1> DEFINE i == 2 * loaded + 1
           t == Taken(pages, i, 2)
<1>1. /\ board = "raspi4" /\ pc = "start" /\ pc' \in {"init", "lost"} /\ loaded' = loaded
      /\ board' = board /\ MallocFree(2) /\ live' = live
  BY DEF MmcOpen, setting, MallocFree
<1>2. 2 * loaded + 4 <= Region /\ loaded \in Nat /\ Region \in Nat /\ pages \in Maps
  BY <1>1, Room DEF TypeInv, RegionOK, Maps
<1>3. UsedOf(pages) = 1 .. 2 * loaded /\ Apart(live)
  BY <1>1 DEF RegInv
<1>4. /\ i \in 1 .. Region /\ i + 2 - 1 <= Region /\ i - 1 = 2 * loaded
      /\ i .. i + 2 - 1 = {2 * loaded + 1, 2 * loaded + 2}
  BY <1>2
<1>5. /\ \A p \in 1 .. i - 1 : p \in UsedOf(pages)
      /\ \A p \in i .. i + 2 - 1 : p \notin UsedOf(pages)
  BY <1>2, <1>3, <1>4
<1> HIDE DEF i
<1>6. First(Spaces(2)) = i
  BY <1>4, <1>5, FirstSpace
<1>7. /\ t \in Maps /\ UsedOf(t) = UsedOf(pages) \cup (i .. i + 2 - 1)
      /\ \A p \in i .. i + 2 - 1 : t.ref_count[p] = 1 /\ t.size[p] = 2
  BY <1>2, <1>4, <1>5, TakenUsed, TakenOK
<1>8. pages' = Free(t, i)
  BY <1>1, <1>6 DEF MallocFree
<1> HIDE DEF t
<1>9. i \in i .. i + 2 - 1
  BY <1>4 DEF i
<1>10. UsedOf(pages') = UsedOf(t)
  BY <1>4, <1>7, <1>8, <1>9, FreeUsed
<1>11. UsedOf(pages') = 1 .. 2 * loaded + 2
  BY <1>2, <1>3, <1>4, <1>7, <1>10
<1> QED
  BY <1>1, <1>3, <1>11 DEF RegInv

\* A sector is read, and its buffer given back at once.
LEMMA PassingStays ==
  ASSUME TypeInv, RegInv, loaded < Lasting, board = "raspi4", board' = board,
         loaded' = loaded, MallocFree(1),
         \/ pc \in {"init", "page", "read"} /\ pc' = "read" /\ buf' = buf
         \/ pc = "init" /\ pc' \in {"open", "failed"} /\ buf' = Null
         \/ pc = "next" /\ pc' = "open" /\ buf' = buf
  PROVE  RegInv'
<1> DEFINE n == 2 * loaded + 2
<1>1. n \in Nat /\ n + 2 <= Region /\ pages \in Maps
  <2>1. 2 * loaded + 4 <= Region /\ loaded \in Nat /\ Region \in Nat
    BY Room
  <2>2. pages \in Maps
    BY DEF TypeInv, RegionOK, Maps
  <2> QED
    BY <2>1, <2>2
<1>2. Apart(live)
  BY DEF RegInv
<1>3. CASE pc \in {"init", "page", "read"}
  <2>1. UsedOf(pages) = 1 .. n
    BY <1>3 DEF RegInv
  <2> HIDE DEF n
  <2>2. UsedOf(pages') = 1 .. n /\ live' = live
    BY <1>1, <2>1, PassingBuffer
  <2> QED
    BY <1>2, <1>3, <2>2 DEF RegInv, BufferBehind, n
<1>4. CASE pc = "next"
  <2>1. BufferBehind(n)
    BY <1>4 DEF RegInv
  <2> HIDE DEF n
  <2>2. /\ UsedOf(pages') = UsedOf(pages) /\ live' = live
        /\ \A p \in UsedOf(pages) : /\ pages'.ref_count[p] = pages.ref_count[p]
                                    /\ pages'.size[p] = pages.size[p]
    BY <1>1, <2>1, PassingBuffer
  <2>3. buf # Null => buf \in UsedOf(pages)
    BY <2>1 DEF BufferBehind
  <2>4. /\ buf' = Null => UsedOf(pages') = 1 .. n
        /\ buf' # Null => /\ buf' \in {n + 1, n + 2} /\ UsedOf(pages') = (1 .. n) \cup {buf'}
                          /\ pages'.ref_count[buf'] = 1 /\ pages'.size[buf'] = 1
    BY <1>4, <2>1, <2>2, <2>3 DEF BufferBehind
  <2> QED
    BY <1>2, <1>4, <2>2, <2>4 DEF RegInv, BufferBehind, n
<1> QED
  BY <1>3, <1>4

\* A buffer that is kept for one that is given back.
LEMMA BufferStays ==
  ASSUME TypeInv, BufInv, RegInv, loaded < Lasting, OpenRead
  PROVE  RegInv'
<1> DEFINE n == 2 * loaded + 2
<1>1. /\ pc = "open" /\ pc' = "next" /\ board = "raspi4" /\ board' = board
      /\ loaded' = loaded /\ buf' = First(Spaces(1))
      /\ pages' = IF buf = Null THEN Taken(pages, buf', 1) ELSE Free(Taken(pages, buf', 1), buf)
      /\ live' = (live \ Occupied(buf)) \cup {[at |-> buf', num_pages |-> 1]}
  BY DEF OpenRead, TypeInv, Sides, setting
<1>2. n \in Nat /\ n + 2 <= Region /\ pages \in Maps /\ Region \in Nat
  <2>1. 2 * loaded + 4 <= Region /\ loaded \in Nat /\ Region \in Nat
    BY <1>1, Room
  <2>2. pages \in Maps
    BY DEF TypeInv, RegionOK, Maps
  <2> QED
    BY <2>1, <2>2
<1>3. BufferBehind(n)
  BY <1>1 DEF RegInv
<1>4. live \ Occupied(buf) = {}
  BY <1>1 DEF BufInv, Occupied
<1> HIDE DEF n
<1>5. PICK i \in {n + 1, n + 2} :
        i \in 1 .. Region /\ i \notin UsedOf(pages) /\ First(Spaces(1)) = i
  BY <1>2, <1>3, SpaceBeside
<1> DEFINE t == Taken(pages, i, 1)
<1>6. /\ t \in Maps /\ UsedOf(t) = UsedOf(pages) \cup {i}
      /\ t.ref_count[i] = 1 /\ t.size[i] = 1
      /\ \A p \in 1 .. Region : p # i => /\ t.ref_count[p] = pages.ref_count[p]
                                         /\ t.size[p] = pages.size[p]
  BY <1>2, <1>5, PageTaken
<1>7. pages' = IF buf = Null THEN t ELSE Free(t, buf)
  BY <1>1, <1>5
<1> HIDE DEF t
<1>8. /\ UsedOf(pages') = (1 .. n) \cup {i}
      /\ pages'.ref_count[i] = 1 /\ pages'.size[i] = 1
  <2>1. CASE buf = Null
    BY <1>3, <1>6, <1>7, <2>1 DEF BufferBehind
  <2>2. CASE buf # Null
    <3>1. /\ buf \in {n + 1, n + 2} /\ UsedOf(pages) = (1 .. n) \cup {buf}
          /\ pages.ref_count[buf] = 1 /\ pages.size[buf] = 1
      BY <1>3, <2>2 DEF BufferBehind
    <3>2. buf # i /\ buf \in 1 .. Region
      BY <1>2, <1>5, <3>1
    <3>3. t.ref_count[buf] = 1 /\ t.size[buf] = 1
      BY <1>6, <3>1, <3>2
    <3>4. /\ UsedOf(Free(t, buf)) = UsedOf(t) \ {buf}
          /\ Free(t, buf).ref_count[i] = t.ref_count[i] /\ Free(t, buf).size[i] = t.size[i]
      BY <1>5, <1>6, <3>2, <3>3, FreeUsed
    <3>5. buf \notin 1 .. n
      BY <1>2, <3>1
    <3> QED
      BY <1>6, <1>7, <2>2, <3>1, <3>2, <3>4, <3>5
  <2> QED
    BY <2>1, <2>2
<1>9. buf' = i /\ i # Null /\ i + 1 - 1 <= Region
  BY <1>1, <1>2, <1>5 DEF Null
<1>10. Apart(live')
  <2>1. live' = {[at |-> i, num_pages |-> 1]}
    BY <1>1, <1>4, <1>9
  <2> QED
    BY <1>9, <2>1 DEF Apart
<1> QED
  BY <1>1, <1>5, <1>8, <1>9, <1>10 DEF RegInv, BufferBehind, n

LEMMA BufferReturns ==
  ASSUME TypeInv, BufInv, RegInv, loaded < Lasting, OpenEnd
  PROVE  RegInv'
<1> DEFINE n == 2 * loaded + 2
<1>1. /\ pc = "open" /\ pc' \in {"page", "failed"} /\ board = "raspi4" /\ board' = board
      /\ loaded' = loaded /\ live' \subseteq live
      /\ pages' = IF buf = Null THEN pages ELSE Free(pages, buf)
  <2>1. /\ pc = "open" /\ pc' \in {"page", "failed"} /\ UNCHANGED <<setting, loaded>>
        /\ IF buf = Null THEN UNCHANGED <<pages, live>>
           ELSE pages' = Free(pages, buf) /\ live' = live \ Occupied(buf)
    BY DEF OpenEnd
  <2>2. board = "raspi4"
    BY <2>1 DEF TypeInv, Sides
  <2>3. /\ live' \subseteq live
        /\ pages' = IF buf = Null THEN pages ELSE Free(pages, buf)
    BY <2>1
  <2> QED
    BY <2>1, <2>2, <2>3 DEF setting
<1>2. n \in Nat /\ n + 2 <= Region /\ pages \in Maps /\ Region \in Nat
  <2>1. 2 * loaded + 4 <= Region /\ loaded \in Nat /\ Region \in Nat
    BY <1>1, Room
  <2>2. pages \in Maps
    BY DEF TypeInv, RegionOK, Maps
  <2> QED
    BY <2>1, <2>2
<1>3. BufferBehind(n) /\ Apart(live)
  BY <1>1 DEF RegInv
<1>4. Apart(live')
  BY <1>1, <1>3 DEF Apart
<1> HIDE DEF n
<1>5. UsedOf(pages') = 1 .. n
  <2>1. CASE buf = Null
    BY <1>1, <1>3, <2>1 DEF BufferBehind
  <2>2. CASE buf # Null
    <3>1. /\ buf \in {n + 1, n + 2} /\ UsedOf(pages) = (1 .. n) \cup {buf}
          /\ pages.ref_count[buf] = 1 /\ pages.size[buf] = 1
      BY <1>3, <2>2 DEF BufferBehind
    <3>2. buf \in 1 .. Region /\ buf \notin 1 .. n
      BY <1>2, <3>1
    <3>3. UsedOf(pages') = UsedOf(pages) \ {buf}
      BY <1>1, <1>2, <2>2, <3>1, <3>2, FreeUsed
    <3> QED
      BY <3>1, <3>2, <3>3
  <2> QED
    BY <2>1, <2>2
<1> QED
  BY <1>1, <1>4, <1>5 DEF RegInv, n

\* A block that is kept is apart from those there are.
LEMMA OneMoreBlock ==
  ASSUME NEW s, s \subseteq [at : 1 .. Region, num_pages : 1 .. 2], Apart(s),
         NEW i \in 1 .. Region, NEW k \in {1, 2}, i + k - 1 <= Region,
         \A b \in s : b.at + b.num_pages <= i \/ i + k <= b.at
  PROVE  Apart(s \cup {[at |-> i, num_pages |-> k]})
<1> DEFINE e == [at |-> i, num_pages |-> k]
<1>1. e.at = i /\ e.num_pages = k
  OBVIOUS
<1> HIDE DEF e
<1>2. ASSUME NEW b \in s \cup {e} PROVE b.at + b.num_pages - 1 <= Region
  BY <1>1, <1>2 DEF Apart
<1>3. ASSUME NEW b \in s \cup {e}, NEW c \in s \cup {e}, b # c
      PROVE  b.at + b.num_pages <= c.at \/ c.at + c.num_pages <= b.at
  <2>1. CASE b \in s /\ c \in s
    BY <1>3, <2>1 DEF Apart
  <2>2. CASE b = e /\ c \in s
    BY <1>1, <2>2
  <2>3. CASE b \in s /\ c = e
    BY <1>1, <2>3
  <2> QED
    BY <1>3, <2>1, <2>2, <2>3
<1> QED
  BY <1>2, <1>3 DEF Apart, e

\* ReadSector keeps the page of a read that has failed.
LEMMA FailureStays ==
  ASSUME TypeInv, BufInv, RegInv, loaded < Lasting, ReadSectorFails
  PROVE  RegInv'
<1> DEFINE n == 2 * loaded + 2
<1>1. /\ pc \in {"init", "open", "next", "page", "read"} /\ pc' = "lost" /\ loaded' = loaded
      /\ Malloc(1) /\ board' = board
  BY DEF ReadSectorFails, ReadsSector, setting
<1>2. board = "raspi4"
  BY <1>1 DEF TypeInv, Sides
<1>3. n \in Nat /\ n + 2 <= Region /\ Region \in Nat
  BY <1>2, Room
<1>4. Apart(live) /\ (UsedOf(pages) = 1 .. n \/ BufferBehind(n))
  BY <1>1, <1>2 DEF RegInv
<1> HIDE DEF n
<1>5. PICK i \in {n + 1, n + 2} :
        i \in 1 .. Region /\ i \notin UsedOf(pages) /\ First(Spaces(1)) = i
  BY <1>3, <1>4, SpaceBeside
<1>6. live' = live \cup {[at |-> i, num_pages |-> 1]}
  BY <1>1, <1>5 DEF Malloc
<1>7. \A b \in live : b.at + b.num_pages <= i \/ i + 1 <= b.at
  <2>1. CASE live = {}
    BY <2>1
  <2>2. CASE live # {}
    <3>1. /\ pc \in {"open", "next"} /\ buf # Null
          /\ live = {[at |-> buf, num_pages |-> 1]}
      BY <1>1, <1>2, <2>2 DEF BufInv
    <3>2. buf \in {n + 1, n + 2} /\ buf \in UsedOf(pages)
      BY <1>2, <3>1 DEF RegInv, BufferBehind, n
    <3>3. buf # i
      BY <1>5, <3>2
    <3>4. buf + 1 <= i \/ i + 1 <= buf
      BY <1>3, <1>5, <3>2, <3>3
    <3> QED
      BY <3>1, <3>4
  <2> QED
    BY <2>1, <2>2
<1>8. Apart(live')
  <2>1. i + 1 - 1 <= Region /\ live \subseteq [at : 1 .. Region, num_pages : 1 .. 2]
    BY <1>3, <1>5 DEF TypeInv, RegionOK
  <2> QED
    BY <1>4, <1>5, <1>6, <1>7, <2>1, OneMoreBlock
<1> QED
  BY <1>1, <1>8 DEF RegInv

\* A block of the virtio driver's.
LEMMA BlockStays ==
  ASSUME TypeInv, Apart(live), NEW n \in Nat, Below(n), NEW k \in {1, 2}, n + k <= Region,
         Malloc(k)
  PROVE  /\ Apart(live') /\ UsedOf(pages') = 1 .. n + k
         /\ \A b \in live' : b.at + b.num_pages - 1 <= n + k
<1> DEFINE i == n + 1
<1>1. Region \in Nat /\ pages \in Maps /\ live \subseteq [at : 1 .. Region, num_pages : 1 .. 2]
  BY StorageAssumption DEF TypeInv, RegionOK, Maps
<1>2. /\ i \in 1 .. Region /\ i + k - 1 <= Region /\ i - 1 = n /\ i + k - 1 = n + k
      /\ n \in Nat /\ i \in Nat /\ k \in Nat /\ i = n + 1
  BY <1>1
<1> HIDE DEF i
<1>3. /\ \A p \in 1 .. i - 1 : p \in UsedOf(pages)
      /\ \A p \in i .. i + k - 1 : p \notin UsedOf(pages)
  BY <1>2 DEF Below
<1>4. First(Spaces(k)) = i
  BY <1>2, <1>3, FirstSpace
<1>5. pages' = Taken(pages, i, k) /\ live' = live \cup {[at |-> i, num_pages |-> k]}
  BY <1>4 DEF Malloc
<1>6. UsedOf(pages') = UsedOf(pages) \cup (i .. i + k - 1)
  BY <1>1, <1>2, <1>3, <1>5, TakenUsed
<1>7. UsedOf(pages') = 1 .. n + k
  <2>1. (1 .. n) \cup (i .. n + k) = 1 .. n + k
    BY <1>2
  <2> QED
    BY <1>2, <1>6, <2>1 DEF Below
<1>8. ASSUME NEW b \in live
      PROVE  b.at + b.num_pages <= i /\ b.at + b.num_pages - 1 <= n + k
  <2>1. b.at \in Nat /\ b.num_pages \in Nat
    BY <1>1
  <2>2. b.at + b.num_pages - 1 <= n
    BY DEF Below
  <2> QED
    BY <1>2, <2>1, <2>2
<1>9. Apart(live')
  BY <1>1, <1>2, <1>5, <1>8, OneMoreBlock
<1>10. ASSUME NEW b \in live' PROVE b.at + b.num_pages - 1 <= n + k
  <2>1. CASE b \in live
    BY <1>8, <2>1
  <2>2. CASE b = [at |-> i, num_pages |-> k]
    BY <1>2, <2>2
  <2> QED
    BY <1>5, <1>10, <2>1, <2>2
<1> QED
  BY <1>7, <1>9, <1>10

LEMMA VirtioStays ==
  ASSUME TypeInv, RegInv, loaded < Lasting, VirtioInit \/ VirtioInitEnd
  PROVE  RegInv'
<1>1. CASE VirtioInit
  <2>1. /\ board = "qemu" /\ pc = "start" /\ pc' = "request" /\ loaded' = loaded
        /\ board' = board /\ Malloc(2)
    BY <1>1 DEF VirtioInit, setting
  <2>2. 3 * loaded + 3 <= Region /\ 3 * loaded \in Nat /\ 3 * loaded + 2 <= Region
    BY <2>1, Room, StorageAssumption
  <2>3. Apart(live) /\ Below(3 * loaded)
    BY <2>1 DEF RegInv
  <2>4. /\ Apart(live') /\ UsedOf(pages') = 1 .. 3 * loaded + 2
        /\ \A b \in live' : b.at + b.num_pages - 1 <= 3 * loaded + 2
    BY <2>1, <2>2, <2>3, BlockStays
  <2> QED
    BY <2>1, <2>4 DEF RegInv, Below
<1>2. CASE VirtioInitEnd
  <2>1. /\ pc = "request" /\ pc' = "disk" /\ loaded' = loaded /\ board' = board /\ Malloc(1)
    BY <1>2 DEF VirtioInitEnd, setting
  <2>2. board = "qemu"
    BY <2>1 DEF TypeInv, Sides
  <2>3. /\ 3 * loaded + 2 \in Nat /\ (3 * loaded + 2) + 1 <= Region
        /\ (3 * loaded + 2) + 1 = 3 * loaded + 3
    BY <2>2, Room, StorageAssumption
  <2>4. Apart(live) /\ Below(3 * loaded + 2)
    BY <2>1, <2>2 DEF RegInv
  <2>5. /\ Apart(live') /\ UsedOf(pages') = 1 .. (3 * loaded + 2) + 1
        /\ \A b \in live' : b.at + b.num_pages - 1 <= (3 * loaded + 2) + 1
    BY <2>1, <2>3, <2>4, BlockStays
  <2> QED
    BY <2>1, <2>2, <2>3, <2>5 DEF RegInv, Below
<1> QED
  BY <1>1, <1>2

\* While it lasts there is space for what is asked for.
LEMMA ThereIsSpace ==
  ASSUME TypeInv, RegInv, loaded < Lasting, Asked > 0
  PROVE  Spaces(Asked) # {}
<1>1. /\ loaded \in Nat /\ Region \in Nat
      /\ board = "raspi4" => 2 * loaded + 4 <= Region
      /\ board = "qemu" => 3 * loaded + 3 <= Region
      /\ board \in {"raspi4", "qemu"}
  BY Room, SettingFacts DEF TypeInv
<1>2. ASSUME NEW n \in Nat, NEW k \in {1, 2}, n + k <= Region, UsedOf(pages) = 1 .. n
      PROVE  Spaces(k) # {}
  <2>1. /\ n + 1 \in 1 .. Region /\ (n + 1) + k - 1 <= Region /\ (n + 1) - 1 = n
    BY <1>1, <1>2
  <2>2. /\ \A p \in 1 .. (n + 1) - 1 : p \in UsedOf(pages)
        /\ \A p \in n + 1 .. (n + 1) + k - 1 : p \notin UsedOf(pages)
    BY <1>2, <2>1
  <2> QED
    BY <2>1, <2>2, FirstSpace
<1>3. CASE pc = "start"
  <2>1. Asked = 2
    BY <1>3 DEF Asked
  <2>2. CASE board = "raspi4"
    <3>1. UsedOf(pages) = 1 .. 2 * loaded /\ 2 * loaded \in Nat /\ 2 * loaded + 2 <= Region
      BY <1>1, <1>3, <2>2 DEF RegInv
    <3> QED
      BY <1>2, <2>1, <3>1
  <2>3. CASE board = "qemu"
    <3>1. UsedOf(pages) = 1 .. 3 * loaded /\ 3 * loaded \in Nat /\ 3 * loaded + 2 <= Region
      BY <1>1, <1>3, <2>3 DEF RegInv, Below
    <3> QED
      BY <1>2, <2>1, <3>1
  <2> QED
    BY <1>1, <2>2, <2>3
<1>4. CASE pc = "request"
  <2>1. Asked = 1 /\ board = "qemu"
    BY <1>4 DEF Asked, TypeInv, Sides
  <2>2. /\ UsedOf(pages) = 1 .. 3 * loaded + 2 /\ 3 * loaded + 2 \in Nat
        /\ (3 * loaded + 2) + 1 <= Region
    BY <1>1, <1>4, <2>1 DEF RegInv, Below
  <2> QED
    BY <1>2, <2>1, <2>2
<1>5. CASE pc \notin {"start", "request"}
  <2>1. Asked = 1 /\ pc \in {"init", "open", "next", "page", "read"}
    BY <1>5 DEF Asked, ReadsSector
  <2>2. board = "raspi4"
    BY <2>1 DEF TypeInv, Sides
  <2> DEFINE n == 2 * loaded + 2
  <2>3. n \in Nat /\ n + 2 <= Region
    BY <1>1, <2>2
  <2>4. UsedOf(pages) = 1 .. n \/ BufferBehind(n)
    BY <2>1, <2>2 DEF RegInv
  <2> HIDE DEF n
  <2> QED
    BY <2>1, <2>3, <2>4, SpaceBeside
<1> QED
  BY <1>3, <1>4, <1>5

LEMMA RegStep ==
  ASSUME TypeInv, BufInv, RegInv, [Next]_vars
  PROVE  RegInv'
<1>1. board' = board /\ (loaded' = loaded \/ LoadEnd)
  <2>1. LoadEnd \/ loaded' = loaded
    BY DEF Next, Loader, Open, Read, Virtio, MmcOpen, FsInit, OpenRead, OpenNext, OpenAstray,
           OpenEnd, ReadBegin, ReadBeginLost, ReadStep, ReadLost, ReadEnd, Stop,
           ReadSectorFails, VirtioInit, VirtioInitEnd, ReadWriteDisk, CountRequest,
           ReadWriteDiskEnd, NextLoad, NoFreeSpace, Disk, Ended, vars
  <2> QED
    BY <2>1, SettingStays
<1>2. loaded' < Lasting' => loaded < Lasting
  <2>1. loaded' = loaded \/ loaded' = loaded + 1
    BY <1>1 DEF LoadEnd
  <2>2. loaded \in Nat /\ Lasting \in Int
    <3>1. loaded \in Nat /\ Region \in Nat
      BY StorageAssumption DEF TypeInv, PointOK
    <3>2. (Region - 2) \div 2 \in Int /\ Region \div 3 \in Int
      BY <3>1
    <3> QED
      BY <3>1, <3>2 DEF Lasting
  <2>3. Lasting' = Lasting
    BY <1>1 DEF Lasting
  <2> QED
    BY <2>1, <2>2, <2>3
<1> SUFFICES ASSUME loaded < Lasting, loaded' < Lasting' PROVE RegInv'
  BY <1>2 DEF RegInv
<1>3. Apart(live) /\ pc # "panic"
  BY DEF RegInv
<1>4. ASSUME live' = live, pc' \in {"lost", "astray", "failed"} PROVE RegInv'
  BY <1>3, <1>4 DEF RegInv
<1>5. OpenAstray \/ ReadBeginLost \/ ReadLost => RegInv'
  BY <1>4 DEF OpenAstray, ReadBeginLost, ReadLost, Stop, region
<1>6. Disk \/ Ended \/ UNCHANGED vars => RegInv'
  <2>1. Disk \/ Ended \/ UNCHANGED vars =>
          UNCHANGED region /\ pc' = pc /\ buf' = buf /\ loaded' = loaded
    BY DEF Disk, Ended, vars
  <2> QED
    BY <1>1, <1>3, <2>1, SameRegion
<1>7. ReadWriteDisk \/ CountRequest \/ NextLoad => RegInv'
  <2>1. ReadWriteDisk \/ CountRequest =>
          /\ UNCHANGED region /\ buf' = buf /\ loaded' = loaded
          /\ pc \in {"disk", "notified"} /\ pc' \in {"notified", "wait"}
    BY DEF ReadWriteDisk, CountRequest
  <2>2. NextLoad => /\ UNCHANGED region /\ buf' = buf /\ loaded' = loaded
                    /\ pc = "loaded" /\ pc' = "start"
    BY DEF NextLoad
  <2>3. ReadWriteDisk \/ CountRequest => RegInv'
    BY <1>1, <2>1, SameRegion
  <2>4. NextLoad => RegInv'
    BY <1>1, <2>2, SameRegion
  <2> QED
    BY <2>3, <2>4
<1>8. ReadEnd \/ ReadWriteDiskEnd => RegInv'
  <2>1. ReadEnd => /\ UNCHANGED region /\ buf' = buf /\ loaded' = loaded
                   /\ pc = "read" /\ pc' \in {"page", "failed"}
    BY DEF ReadEnd
  <2>2. ReadWriteDiskEnd => /\ UNCHANGED region /\ buf' = buf /\ loaded' = loaded
                            /\ pc = "wait" /\ pc' \in {"disk", "failed"}
    BY DEF ReadWriteDiskEnd
  <2>3. ReadEnd => RegInv'
    BY <1>1, <2>1, SameRegion
  <2>4. ReadWriteDiskEnd => RegInv'
    BY <1>1, <2>2, SameRegion
  <2> QED
    BY <2>3, <2>4
<1>9. ASSUME LoadEnd PROVE RegInv'
  <2>1. /\ pc \in {"page", "disk"} /\ pc' = "loaded" /\ loaded' = loaded + 1
        /\ pages' = pages /\ live' = live
    BY <1>9 DEF LoadEnd, region
  <2>2. loaded \in Nat
    BY DEF TypeInv, PointOK
  <2>3. 2 * loaded' = 2 * loaded + 2 /\ 3 * loaded' = 3 * loaded + 3
    BY <2>1, <2>2
  <2>4. board = "raspi4" => pc = "page" /\ UsedOf(pages) = 1 .. 2 * loaded + 2
    BY <2>1 DEF RegInv, TypeInv, Sides
  <2>5. board = "qemu" => pc = "disk" /\ Below(3 * loaded + 3)
    BY <2>1 DEF RegInv, TypeInv, Sides
  <2> QED
    BY <1>1, <1>3, <2>1, <2>3, <2>4, <2>5 DEF RegInv, Below
<1>10. MmcOpen => RegInv'
  BY MailboxStays
<1>11. ASSUME FsInit \/ ReadStep PROVE RegInv'
  <2>1. /\ pc \in {"init", "read"} /\ loaded' = loaded /\ MallocFree(1)
        /\ \/ pc = "read" /\ pc' = "read" /\ buf' = buf
           \/ pc = "init" /\ pc' \in {"open", "failed"} /\ buf' = Null
    BY <1>11 DEF FsInit, ReadStep
  <2>2. board = "raspi4"
    BY <2>1 DEF TypeInv, Sides
  <2> HIDE DEF Null
  <2> QED
    BY <1>1, <2>1, <2>2, PassingStays
<1>12. ASSUME OpenNext \/ ReadBegin PROVE RegInv'
  <2>1. /\ loaded' = loaded /\ buf' = buf /\ (MallocFree(1) \/ UNCHANGED region)
        /\ \/ pc = "page" /\ pc' = "read"
           \/ pc = "next" /\ pc' = "open"
    BY <1>12 DEF OpenNext, ReadBegin
  <2>2. board = "raspi4"
    BY <2>1 DEF TypeInv, Sides
  <2>3. MallocFree(1) => RegInv'
    BY <1>1, <2>1, <2>2, PassingStays
  <2>4. UNCHANGED region => RegInv'
    BY <1>1, <2>1, SameRegion
  <2> QED
    BY <2>1, <2>3, <2>4
<1>13. OpenRead => RegInv'
  BY BufferStays
<1>14. OpenEnd => RegInv'
  BY BufferReturns
<1>15. ReadSectorFails => RegInv'
  BY FailureStays
<1>16. VirtioInit \/ VirtioInitEnd => RegInv'
  BY VirtioStays
<1>17. ~NoFreeSpace
  BY ThereIsSpace DEF NoFreeSpace
<1> QED
  BY <1>5, <1>6, <1>7, <1>8, <1>9, <1>10, <1>11, <1>12, <1>13, <1>14, <1>15, <1>16, <1>17
     DEF Next, Loader, Open, Read, Virtio

\* Nothing but the mailbox's two pages and the virtio driver's three is lost: for
\* as many images as there are such pages, less the two that Open needs, there is
\* space, in the region, and no page is in two blocks.
THEOREM TheRegionLasts == Spec => []RegionLasts
<1>1. Init => RegInv
  <2> SUFFICES ASSUME Init PROVE RegInv
    OBVIOUS
  <2>1. /\ pc = "start" /\ loaded = 0 /\ live = {}
        /\ pages = [ref_count |-> [p \in 1 .. Region |-> 0], size |-> [p \in 1 .. Region |-> 0]]
    BY DEF Init
  <2>2. UsedOf(pages) = {}
    BY <2>1 DEF UsedOf
  <2>3. 1 .. 2 * loaded = {} /\ 1 .. 3 * loaded = {}
    BY <2>1
  <2>4. Apart(live)
    BY <2>1 DEF Apart
  <2> QED
    BY <2>1, <2>2, <2>3, <2>4 DEF RegInv, Below
<1>2. TypeInv /\ BufInv /\ RegInv /\ [Next]_vars => RegInv'
  BY RegStep
<1>3. RegInv => RegionLasts
  BY DEF RegInv, RegionLasts, Apart
<1> QED
  BY <1>1, <1>2, <1>3, TypesHold, BufHolds, PTL DEF Spec

=============================================================================
