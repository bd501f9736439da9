----------------------------- MODULE MCStorage ------------------------------
(***************************************************************************)
(* Instances of Storage for TLC: a sector of four units, a page of four    *)
(* sectors.                                                                *)
(***************************************************************************)
EXTENDS Storage

Volume(spc, first, fat, entry, size) ==
  [valid |-> TRUE, spc |-> spc, data_first_sector |-> first, fat |-> fat,
   root |-> 2, entry |-> entry, file |-> 5, size |-> size]

\* Fragmented chains: the root directory 2, 7; the file 5, 3, 6, 4, 8.
Chains ==
  [c \in 2 .. 8 |-> CASE c = 2 -> 7 [] c = 5 -> 3 [] c = 3 -> 6 [] c = 6 -> 4
                      [] c = 4 -> 8 [] OTHER -> EOC]

\* One sector per cluster: any size, the entry in either cluster of the
\* directory or in none.
Single == {Volume(1, 9, Chains, e, n) : e \in {9, 14, 30}, n \in {1, 16, 17, 20}}

\* A page or two per cluster, the data a sector before a multiple of that, which
\* brings Open from cluster to cluster: the entry in a first sector or in none,
\* and no size that ends less than half a sector into a second or later one.
Paged ==
  {Volume(4, 11, Chains, e, n) : e \in {11, 31, 99}, n \in {1, 10, 16, 18, 47, 64}}
    \cup {Volume(8, 15, Chains, e, n) : e \in {15, 55}, n \in {30, 33, 64, 80}}

NoFat == {[v EXCEPT !.valid = FALSE] : v \in Single}

\* Where the loader follows a null pointer: no entry in a directory of several
\* sectors per cluster; a chain shorter than the file; six sectors per cluster,
\* which Init does not refuse, where a page begins within a new cluster.
\* The last volume's chain ends with a page, and the loader sees it.
Broken == {Volume(4, 8, Chains, 99, 16), Volume(4, 11, Chains, 11, 96),
           Volume(6, 11, Chains, 11, 37),
           [Volume(6, 11, Chains, 11, 64) EXCEPT !.file = 4],
           [Volume(1, 9, Chains, 9, 20) EXCEPT !.file = 3]}

Usual == Single \cup Paged \cup NoFat \cup Broken

\* Two and more sectors per cluster, the data at a multiple of that; the entry in
\* the first sector of the directory, in its second, or in its second cluster.
Aligned ==
  {Volume(spc, 8, Chains, e, 16) : spc \in {2, 4, 8}, e \in {8, 9}}
    \cup {Volume(4, 8, Chains, 28, 16)}

Capacities == {1, 4, 5}
=============================================================================
