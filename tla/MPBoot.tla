------------------------------- MODULE MPBoot -------------------------------
(***************************************************************************)
(* The boot of one machine end to end on the BSP's side: the loader chain  *)
(* of LoaderChain runs to call_startap_entry, and the startap image then   *)
(* brings the APs up with ap_procs_startup and ap_procs_run (ApProcsInit). *)
(*                                                                         *)
(* The two components meet in init32 (xmon_loader.c): the loader passes   *)
(* &init32 only when num_of_aps is not 0, with i32_low_memory_page =       *)
(* p_low_mem and i32_esp[0 .. num_of_aps-1] the AP stacks it allocated;    *)
(* an AP of rank r runs on i32_esp[r-1] once the gate opens.  The startap  *)
(* image's entry, which makes the calls, is outside src/: it passes init32 *)
(* on unchanged, which is all the composition assumes of it.               *)
(*                                                                         *)
(* ApProcsInit is extended (its names are this module's); LoaderChain is   *)
(* a named instance, L, so that its NULL (the heap's 0) stays apart from   *)
(* ApProcsInit's g_user_func NULL.                                         *)
(***************************************************************************)
EXTENDS ApProcsInit

CONSTANTS W, PAGE_SIZE, Descs, Mbis, Cpus, LogicalCounts, E820Sources, Sfis

VARIABLES heapBase, heapCurrent, heapTops, ret, blocks,
          pc, desc, mbi, cpu, startup, cpus, source, sfi,
          e820, e820Count, vmem, numAps, esp, scrub

L == INSTANCE LoaderChain

\* L!vars, spelled out in this module's variables.
loaderVars == <<heapBase, heapCurrent, heapTops, ret, blocks, pc, desc, mbi,
                cpu, startup, cpus, source, sfi, e820, e820Count, vmem,
                numAps, esp, scrub>>

bootVars == <<vars, loaderVars>>

\* p_low_mem = 0x8000, "20 KB below 640 K".
LOW_MEMORY_PAGE == 32768

\* The init32 the loader hands over, as ap_procs_startup sees it: NULL
\* (page 0) when num_of_aps is 0, else the page of i32_low_memory_page.
Init32Page == IF numAps # 0 THEN LOW_MEMORY_PAGE ELSE 0

\* The BSP has called call_startap_entry and runs the startap image.
InStartap == pc = "startap_entry"

BootInit == L!Init /\ Init

\* A step of the loader chain; the APs are still waiting for a SIPI.
LoaderStep == L!Next /\ UNCHANGED vars

\* The startap image calls ap_procs_startup with the init32 it was given.
StartapStartup ==
  /\ InStartap
  /\ IF Init32Page = 0 THEN StartupNullPage ELSE Startup(Init32Page)
  /\ UNCHANGED loaderVars

\* The rest of the bring-up leaves the loader's state as it was.
StartapStep ==
  /\ \/ SendInit \/ SendSipi \/ StallEnd \/ EnumerateSlot \/ StoreApsCounter
     \/ Run \/ RunReturn
     \/ \E a \in Aps : ApNext(a)
  /\ UNCHANGED loaderVars

BootNext == LoaderStep \/ StartapStartup \/ StartapStep

\* The loader chain carries no fairness (both of its ends are halts); the
\* bring-up keeps ApProcsInit's.
BootSpec == BootInit /\ [][BootNext]_bootVars /\ Fairness

-----------------------------------------------------------------------------
BootTypeOK == TypeOK /\ L!TypeOK

(***************************************************************************)
(* Every AP past the gate runs on a stack the loader allocated: its rank   *)
(* is at most the number of i32_esp entries xmon_loader filled.  The       *)
(* loader sizes that array from CPUID.1 EBX[23:16] of the BSP, the APs'    *)
(* ranks come from the processors that answered the SIPIs.                 *)
(***************************************************************************)
StacksAllocated ==
  \A a \in Aps : ap[a] \in PastGate => stack[a] \in 1..Len(esp)
=============================================================================
