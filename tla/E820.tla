-------------------------------- MODULE E820 --------------------------------
(***************************************************************************)
(* The "hide a region" transform of the physical memory map,               *)
(* hide_runtime_memory in src/pre_os/xmon_loader/e820.c.                   *)
(*                                                                         *)
(* The multiboot memory map is a sequence of {addr, len, type} records.    *)
(* hide_runtime_memory allocates a new array of mmap_length/24 + 2         *)
(* records, walks the old map and copies every record that is disjoint    *)
(* from [hide_mem_addr, hide_mem_addr + hide_mem_size); a record that      *)
(* meets the range is split into a prefix, a reserved record for the range *)
(* and, when the record goes on past the range, a suffix.  The mbi is      *)
(* pointed at the new array only when the walk succeeds.                   *)
(*                                                                         *)
(* Addresses are scaled down: W64 and W32 stand for 2^64 and 2^32, the     *)
(* moduli of the record fields (uint64) and of the hide arguments (uint32) *)
(***************************************************************************)
EXTENDS Integers, Sequences, FiniteSets, SequencesExt

CONSTANTS
  W64,        \* 2^64 scaled down: modulus of multiboot_memory_map_t.addr/len
  W32,        \* 2^32 scaled down: modulus of hide_mem_addr/hide_mem_size
  InputMaps,  \* memory maps the firmware may hand over
  HideAddrs,  \* values of hide_mem_addr
  HideSizes   \* values of hide_mem_size

MULTIBOOT_MEMORY_AVAILABLE == 1
MULTIBOOT_MEMORY_RESERVED  == 2

ASSUME W32 \in Nat \ {0} /\ W64 \in Nat /\ W32 <= W64
ASSUME HideAddrs \subseteq 0..(W32 - 1) /\ HideSizes \subseteq 0..(W32 - 1)

VARIABLES
  mbiMap,      \* the map mbi->mmap_addr/mmap_length describe
  mbiMemmap,   \* mbi->flags & MBI_MEMMAP
  heapFree,    \* whether allocate_memory has room for the new array
  hideAddr,    \* hide_mem_addr
  hideSize,    \* hide_mem_size
  status,      \* "idle"; then "ok" (returned TRUE) or "fail" (returned FALSE)
  written,     \* records written into the new array (failed walks included)
  capacity,    \* records the new array was allocated for
  origMap      \* history: the map before the call

vars == <<mbiMap, mbiMemmap, heapFree, hideAddr, hideSize, status,
          written, capacity, origMap>>

Entry(a, l, t) == [addr |-> a, len |-> l, type |-> t]
EntryEnd(e) == (e.addr + e.len) % W64

\* The uint32 sum hide_mem_addr + hide_mem_size, compared as a uint64.
HideEnd(ha, hs) == (ha + hs) % W32

\* num_of_entries: mmap_length / sizeof(multiboot_memory_map_t) + 2.
NumOfEntriesOne(n) == n + 1
NumOfEntries(n) == n + 2

(***************************************************************************)
(* One iteration of the loop of hide_runtime_memory, as a fold over the    *)
(* old records.  acc.ok turns FALSE at the first early return; acc.out     *)
(* holds every record written, also those of the iteration that fails.     *)
(***************************************************************************)
Disjoint(e, ha, hs) == EntryEnd(e) <= ha \/ HideEnd(ha, hs) <= e.addr

Prefix(e, ha) == Entry(e.addr, (ha - e.addr) % W64, e.type)

\* Mutant: the hidden record gets type 3 (ACPI reclaimable), not RESERVED.
HiddenAcpi(e, ha, hs) == Entry(ha, hs, 3)

Hidden(e, ha, hs) == Entry(ha, hs, MULTIBOOT_MEMORY_RESERVED)
Suffix(e, ha, hs) ==
  Entry(HideEnd(ha, hs), (EntryEnd(e) - HideEnd(ha, hs)) % W64, e.type)

\* Mutant: "crossing" tested with >= instead of >.
HideStepCrossGe(acc, e, ha, hs) ==
  IF ~acc.ok \/ Disjoint(e, ha, hs) THEN
    [acc EXCEPT !.out = IF acc.ok THEN Append(@, e) ELSE @]
  ELSE IF e.type # MULTIBOOT_MEMORY_AVAILABLE THEN [acc EXCEPT !.ok = FALSE]
  ELSE IF HideEnd(ha, hs) >= EntryEnd(e) THEN
    [ok |-> FALSE, out |-> acc.out \o <<Prefix(e, ha), Hidden(e, ha, hs)>>]
  ELSE [acc EXCEPT !.out = @ \o <<Prefix(e, ha), Hidden(e, ha, hs),
                                  Suffix(e, ha, hs)>>]

\* Mutant: the suffix record after the hidden range is never written.
HideStepNoSuffix(acc, e, ha, hs) ==
  IF ~acc.ok \/ Disjoint(e, ha, hs) THEN
    [acc EXCEPT !.out = IF acc.ok THEN Append(@, e) ELSE @]
  ELSE IF e.type # MULTIBOOT_MEMORY_AVAILABLE THEN [acc EXCEPT !.ok = FALSE]
  ELSE IF HideEnd(ha, hs) > EntryEnd(e) THEN
    [ok |-> FALSE, out |-> acc.out \o <<Prefix(e, ha), Hidden(e, ha, hs)>>]
  ELSE [acc EXCEPT !.out = @ \o <<Prefix(e, ha), Hidden(e, ha, hs)>>]

HideStep(acc, e, ha, hs) ==
  IF ~acc.ok \/ Disjoint(e, ha, hs) THEN
    [acc EXCEPT !.out = IF acc.ok THEN Append(@, e) ELSE @]
  ELSE IF e.type # MULTIBOOT_MEMORY_AVAILABLE THEN [acc EXCEPT !.ok = FALSE]
  ELSE IF HideEnd(ha, hs) > EntryEnd(e) THEN
    [ok |-> FALSE, out |-> acc.out \o <<Prefix(e, ha), Hidden(e, ha, hs)>>]
  ELSE IF HideEnd(ha, hs) < EntryEnd(e) THEN
    [acc EXCEPT !.out = @ \o <<Prefix(e, ha), Hidden(e, ha, hs),
                               Suffix(e, ha, hs)>>]
  ELSE [acc EXCEPT !.out = @ \o <<Prefix(e, ha), Hidden(e, ha, hs)>>]

HideWalk(map, ha, hs) ==
  FoldLeft(LAMBDA acc, e : HideStep(acc, e, ha, hs), [ok |-> TRUE, out |-> <<>>], map)

-----------------------------------------------------------------------------
Init ==
  /\ mbiMap \in InputMaps
  /\ origMap = mbiMap
  /\ mbiMemmap \in BOOLEAN
  /\ heapFree \in BOOLEAN
  /\ hideAddr \in HideAddrs
  /\ hideSize \in HideSizes
  /\ status = "idle"
  /\ written = 0
  /\ capacity = 0

(***************************************************************************)
(* hide_runtime_memory(mbi, hide_mem_addr, hide_mem_size): the whole call. *)
(* It returns FALSE without allocating when the map is not valid, FALSE    *)
(* when allocate_memory fails, FALSE on the first record it may not carve, *)
(* and otherwise TRUE with the mbi pointing at the new array.             *)
(***************************************************************************)
HideRuntimeMemory ==
  LET walk == HideWalk(mbiMap, hideAddr, hideSize) IN
  /\ status = "idle"
  /\ \/ /\ ~mbiMemmap
        /\ status' = "fail"
        /\ UNCHANGED <<mbiMap, written, capacity>>
     \/ /\ mbiMemmap
        /\ ~heapFree
        /\ status' = "fail"
        /\ UNCHANGED <<mbiMap, written, capacity>>
     \/ /\ mbiMemmap
        /\ heapFree
        /\ capacity' = NumOfEntries(Len(mbiMap))
        /\ written' = Len(walk.out)
        /\ status' = IF walk.ok THEN "ok" ELSE "fail"
        /\ mbiMap' = IF walk.ok THEN walk.out ELSE mbiMap
  /\ UNCHANGED <<mbiMemmap, heapFree, hideAddr, hideSize, origMap>>

Next == HideRuntimeMemory

Spec == Init /\ [][Next]_vars

-----------------------------------------------------------------------------
\* Reference definitions over the scaled address space.
Addr == 0..(W64 - 1)
Covers(e, x) == e.addr <= x /\ x < e.addr + e.len
CoveredAs(map, t) == {x \in Addr : \E i \in DOMAIN map : map[i].type = t /\ Covers(map[i], x)}
CoveredAny(map) == {x \in Addr : \E i \in DOMAIN map : Covers(map[i], x)}
TotalLength(map) == FoldLeft(LAMBDA s, e : s + e.len, 0, map)
HideRange == {x \in Addr : hideAddr <= x /\ x < hideAddr + hideSize}

TypeOK ==
  /\ status \in {"idle", "ok", "fail"}
  /\ \A i \in DOMAIN mbiMap :
       mbiMap[i] \in [addr : 0..(W64 - 1), len : 0..(W64 - 1),
                      type : {MULTIBOOT_MEMORY_AVAILABLE, MULTIBOOT_MEMORY_RESERVED}]
  /\ capacity \in Nat
  /\ written \in Nat

(***************************************************************************)
(* The walk writes no record past the num_of_entries records that          *)
(* hide_runtime_memory allocated, whether it succeeds or returns FALSE     *)
(* half way: the two spare records are room for one split.                 *)
(***************************************************************************)
HideWithinArray == written <= capacity

(***************************************************************************)
(* A successful hide_runtime_memory marks exactly the RAM of the hidden    *)
(* range reserved, leaves the type of every other address as it was, and  *)
(* keeps the total length of the map.                                      *)
(***************************************************************************)
HidePreservesMap ==
  status = "ok" =>
    /\ CoveredAs(mbiMap, MULTIBOOT_MEMORY_AVAILABLE)
         = CoveredAs(origMap, MULTIBOOT_MEMORY_AVAILABLE) \ HideRange
    /\ CoveredAs(mbiMap, MULTIBOOT_MEMORY_RESERVED)
         = CoveredAs(origMap, MULTIBOOT_MEMORY_RESERVED)
             \cup (HideRange \cap CoveredAny(origMap))
    /\ TotalLength(mbiMap) = TotalLength(origMap)

(***************************************************************************)
(* A range that lies inside one AVAILABLE record is always hidden when the *)
(* map is valid and the heap has room.                                     *)
(***************************************************************************)
HideSucceedsWhenContained ==
  (status # "idle" /\ mbiMemmap /\ heapFree
     /\ \E i \in DOMAIN origMap :
          /\ origMap[i].type = MULTIBOOT_MEMORY_AVAILABLE
          /\ origMap[i].addr <= hideAddr
          /\ hideAddr + hideSize <= origMap[i].addr + origMap[i].len)
    => status = "ok"

(***************************************************************************)
(* No record of a successfully rewritten map is empty ("the unaffected     *)
(* prefix (if any)", spec section 4.4).                                    *)
(***************************************************************************)
NoEmptyEntries ==
  status = "ok" => \A i \in DOMAIN mbiMap : mbiMap[i].len > 0

=============================================================================
