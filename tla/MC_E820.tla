------------------------------ MODULE MC_E820 ------------------------------
(***************************************************************************)
(* Model-checking instances of E820: every map of up to three records of   *)
(* length 1..3, AVAILABLE or RESERVED, and every hide range of size 1..3   *)
(* starting at 0..9.                                                       *)
(***************************************************************************)
EXTENDS E820

MapOf(gaps, lens, types) ==
  [i \in 1..Len(lens) |->
     Entry(FoldLeft(+, 0, SubSeq(gaps, 1, i)) + FoldLeft(+, 0, SubSeq(lens, 1, i - 1)),
           lens[i], types[i])]

MapsWithGaps(G) ==
  UNION {{MapOf(g, l, t) : g \in [1..n -> G], l \in [1..n -> 1..3],
                           t \in [1..n -> {MULTIBOOT_MEMORY_AVAILABLE,
                                           MULTIBOOT_MEMORY_RESERVED}]}
         : n \in 1..3}

\* Sorted records with no hole between them, as the spec's example map.
ContiguousMaps == MapsWithGaps({0})

\* Sorted, non-overlapping records with holes of one unit before any record.
HoleyMaps == MapsWithGaps({0, 1})

\* Two AVAILABLE records that overlap: the second starts inside the first.
OverlapMaps ==
  {<<Entry(0, 6, MULTIBOOT_MEMORY_AVAILABLE), Entry(2, 6, MULTIBOOT_MEMORY_AVAILABLE)>>}
=============================================================================
