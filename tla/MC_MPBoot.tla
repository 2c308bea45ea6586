----------------------------- MODULE MC_MPBoot -----------------------------
(***************************************************************************)
(* One machine for MPBoot: a boot package at 16 MiB, a multiboot map and  *)
(* a flat GDT (as in MC_LoaderChain), and the presence-array slots of     *)
(* MC_ApProcsInit.                                                         *)
(***************************************************************************)
EXTENDS MPBoot, TLC

\* Respondents per bring-up cycle, as in MC_ApProcsInit.
RespondAllButThree == [c \in 1..3 |-> {1, 2, 4}]

\* The first package of MC_LoaderChain's PassDescs.
BootDescs ==
  { [base |-> 65536, guest1_start |-> 580, guest1_count |-> 8,
     xmon_loader_start |-> 60, xmon_mem_in_mb |-> 4] }

\* A multiboot block with a map of four records (MBI_MEMLIMITS|MBI_MEMMAP).
BootMbis == { [flags |-> 67, mmap_length |-> 96, entry_size |-> 20] }

\* Unused with the multiboot builder; any SFI table will do.
BootSfis ==
  { [syst |-> 0, syst_len |-> 56, mmap_slot |-> 2, mmap |-> 2130706432,
     mmap_len |-> 132] }

\* FlatCpu of MC_LoaderChain with the selectors left out of its GDT: a
\* null descriptor, 32-bit code and data; VMX enabled and locked on.
Seg(base, limit, type, g) ==
  [base_15_00 |-> base % 65536, base_23_16 |-> (base \div 65536) % 256,
   base_31_24 |-> base \div 16777216,
   limit_15_00 |-> limit % 65536, limit_19_16 |-> limit \div 65536,
   type |-> type, s |-> 1, dpl |-> 0, p |-> 1, avl |-> 0, l |-> 0,
   db |-> 1, g |-> g, ghost_base |-> base, ghost_limit |-> limit]

BootCpus ==
  { [gdt_limit |-> 23,
     gdt |-> (0 :> [Seg(0, 0, 0, 0) EXCEPT !.p = 0]
              @@ 1 :> Seg(0, 524287, 11, 1) @@ 2 :> Seg(1048576, 65535, 3, 0)),
     sel |-> [CS |-> 8, DS |-> 16, ES |-> 16, FS |-> 16, GS |-> 16, SS |-> 16],
     ldtr_index |-> 0, cpuid1_ecx |-> 32, feature_control |-> 5] }
=============================================================================
