-------------------------------- MODULE Heap --------------------------------
(***************************************************************************)
(* The loader's bump allocator, src/pre_os/xmon_loader/utils/memory/      *)
(* memory.c: initialize_memory_manager, allocate_memory, mon_page_alloc.   *)
(* heap_base, heap_current and heap_tops are uint32; W is 2^32 scaled      *)
(* down and PAGE_SIZE the scaled 4 KiB.  NULL is address 0.                *)
(***************************************************************************)
EXTENDS Integers

CONSTANTS
  W,          \* 2^32 scaled down
  PAGE_SIZE   \* 1024 * 4, scaled down

ASSUME W \in Nat \ {0} /\ PAGE_SIZE \in 1..W

NULL == 0

VARIABLES
  heapBase,     \* heap_base
  heapCurrent,  \* heap_current
  heapTops,     \* heap_tops
  ret,          \* the address the last call returned
  blocks        \* history: every block handed out, as [addr, size]

heapVars == <<heapBase, heapCurrent, heapTops, ret, blocks>>

\* ALIGN_FORWARD(addr, align) of mon_defs.h, in uint32 arithmetic.
ALIGN_FORWARD(a, align) == (((a + align - 1) % W) \div align) * align

HeapInit ==
  /\ heapBase = 0
  /\ heapCurrent = 0
  /\ heapTops = 0
  /\ ret = NULL
  /\ blocks = {}

\* initialize_memory_manager(&base, &bytes)
InitializeMemoryManager(base, bytes) ==
  /\ heapBase' = base
  /\ heapCurrent' = base
  /\ heapTops' = (base + bytes) % W
  /\ UNCHANGED <<ret, blocks>>

\* Mutant: the heap-top check is missing.
AllocateMemoryUnchecked(size) ==
  /\ ret' = heapCurrent
  /\ heapCurrent' = (heapCurrent + size) % W
  /\ blocks' = blocks \cup {[addr |-> heapCurrent, size |-> size]}
  /\ UNCHANGED <<heapBase, heapTops>>

\* Mutant: failure reported as (uint32)-1, as ap_procs_startup does.
AllocateMemoryMinusOne(size) ==
  \/ /\ (heapCurrent + size) % W > heapTops
     /\ ret' = -1
     /\ UNCHANGED <<heapBase, heapCurrent, heapTops, blocks>>
  \/ /\ (heapCurrent + size) % W <= heapTops
     /\ ret' = heapCurrent
     /\ heapCurrent' = (heapCurrent + size) % W
     /\ blocks' = blocks \cup {[addr |-> heapCurrent, size |-> size]}
     /\ UNCHANGED <<heapBase, heapTops>>

(***************************************************************************)
(* allocate_memory(size_request): NULL when heap_current + size_request   *)
(* (a uint32 sum) passes heap_tops; otherwise the old heap_current, and    *)
(* heap_current moves up by the request.  zero_mem is not modelled: the   *)
(* model does not track memory contents.                                   *)
(***************************************************************************)
AllocateMemory(size) ==
  \/ /\ (heapCurrent + size) % W > heapTops
     /\ ret' = NULL
     /\ UNCHANGED <<heapBase, heapCurrent, heapTops, blocks>>
  \/ /\ (heapCurrent + size) % W <= heapTops
     /\ ret' = heapCurrent
     /\ heapCurrent' = (heapCurrent + size) % W
     /\ blocks' = blocks \cup {[addr |-> heapCurrent, size |-> size]}
     /\ UNCHANGED <<heapBase, heapTops>>

\* Mutant: heap_current is not moved past the pages handed out.
MonPageAllocNoAdvance(pages) ==
  LET size == (pages * PAGE_SIZE) % W
      address == ALIGN_FORWARD(heapCurrent, PAGE_SIZE)
  IN \/ /\ (address + size) % W > heapTops
        /\ ret' = NULL
        /\ UNCHANGED <<heapBase, heapCurrent, heapTops, blocks>>
     \/ /\ (address + size) % W <= heapTops
        /\ ret' = address
        /\ blocks' = blocks \cup {[addr |-> address, size |-> size]}
        /\ UNCHANGED <<heapBase, heapCurrent, heapTops>>

\* Mutant: the heap-top check of mon_page_alloc is missing.
MonPageAllocUnchecked(pages) ==
  LET size == (pages * PAGE_SIZE) % W
      address == ALIGN_FORWARD(heapCurrent, PAGE_SIZE)
  IN /\ ret' = address
     /\ heapCurrent' = (address + size) % W
     /\ blocks' = blocks \cup {[addr |-> address, size |-> size]}
     /\ UNCHANGED <<heapBase, heapTops>>

(***************************************************************************)
(* mon_page_alloc(pages): the block starts at heap_current rounded up to a *)
(* page; NULL when its end passes heap_tops.                               *)
(***************************************************************************)
MonPageAlloc(pages) ==
  LET size == (pages * PAGE_SIZE) % W
      address == ALIGN_FORWARD(heapCurrent, PAGE_SIZE)
  IN \/ /\ (address + size) % W > heapTops
        /\ ret' = NULL
        /\ UNCHANGED <<heapBase, heapCurrent, heapTops, blocks>>
     \/ /\ (address + size) % W <= heapTops
        /\ ret' = address
        /\ heapCurrent' = (address + size) % W
        /\ blocks' = blocks \cup {[addr |-> address, size |-> size]}
        /\ UNCHANGED <<heapBase, heapTops>>

-----------------------------------------------------------------------------
HeapTypeOK ==
  /\ {heapBase, heapCurrent, heapTops, ret} \subseteq 0..(W - 1)
  /\ \A b \in blocks : b.addr \in 0..(W - 1) /\ b.size \in 0..(W - 1)

(***************************************************************************)
(* Every block allocate_memory or mon_page_alloc hands out lies inside     *)
(* [heap_base, heap_tops): no caller is given memory of the startap image  *)
(* that follows the heap.                                                  *)
(***************************************************************************)
BlocksInHeap ==
  \A b \in blocks : heapBase <= b.addr /\ b.addr + b.size <= heapTops

Alloc == INSTANCE Allocator
           WITH arena <- [base |-> heapBase, tops |-> heapTops],
                owned <- blocks, result <- ret

(***************************************************************************)
(* The bump allocator implements the heap's contract (Allocator): once    *)
(* initialize_memory_manager has set the arena, allocate_memory and        *)
(* mon_page_alloc return NULL or the address of a new block inside         *)
(* [heap_base, heap_tops) that overlaps no block handed out before.        *)
(***************************************************************************)
HeapRefined == Alloc!Spec

(***************************************************************************)
(* No two blocks handed out share a byte: the E820 page, the hidden map,   *)
(* the AP stacks and boot_params never overwrite one another.              *)
(***************************************************************************)
BlocksDisjoint ==
  \A b1, b2 \in blocks :
    b1 # b2 /\ b1.size > 0 /\ b2.size > 0 =>
      b1.addr + b1.size <= b2.addr \/ b2.addr + b2.size <= b1.addr
=============================================================================
