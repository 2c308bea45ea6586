----------------------------- MODULE HeapClient -----------------------------
(***************************************************************************)
(* The heap as its callers drive it: xmon_loader initialises it once       *)
(* (base XMON_LOADER_HEAP_BASE, XMON_LOADER_HEAP_SIZE bytes), then any     *)
(* sequence of allocate_memory and mon_page_alloc calls follows.           *)
(***************************************************************************)
EXTENDS Heap

CONSTANTS
  HeapBases,   \* possible values of heap_base
  HeapBytes,   \* XMON_LOADER_HEAP_SIZE, scaled
  Sizes,       \* size_request arguments of allocate_memory
  PageCounts,  \* pages arguments of mon_page_alloc
  MaxCalls     \* bound on the number of allocation calls

VARIABLES
  started,  \* initialize_memory_manager has run
  calls     \* allocation calls made so far

vars == <<heapVars, started, calls>>

Init == HeapInit /\ started = FALSE /\ calls = 0

Start ==
  /\ ~started
  /\ started' = TRUE
  /\ \E base \in HeapBases : InitializeMemoryManager(base, HeapBytes)
  /\ UNCHANGED calls

Call ==
  /\ started
  /\ calls < MaxCalls
  /\ calls' = calls + 1
  /\ \/ \E size \in Sizes : AllocateMemory(size)
     \/ \E pages \in PageCounts : MonPageAlloc(pages)
  /\ UNCHANGED started

Next == Start \/ Call

Spec == Init /\ [][Next]_vars
=============================================================================
