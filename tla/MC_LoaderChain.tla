---------------------------- MODULE MC_LoaderChain ----------------------------
(***************************************************************************)
(* Boot descriptors, multiboot blocks and CPU counts for LoaderChain.      *)
(* Addresses are in the 256-byte units of Layout.                          *)
(***************************************************************************)
EXTENDS LoaderChain, Sequences

\* A package loaded at 16 MiB with a 4 MiB reservation, and one at 1 MiB +
\* 1 KiB (td is only 256-byte aligned) with 8 MiB; neither puts the
\* startup states on a 4 KiB boundary, so the loader base is rounded up.
PassDescs ==
  { [base |-> 65536, guest1_start |-> 580, guest1_count |-> 8,
     xmon_loader_start |-> 60, xmon_mem_in_mb |-> 4],
    [base |-> 4100, guest1_start |-> 583, guest1_count |-> 8,
     xmon_loader_start |-> 60, xmon_mem_in_mb |-> 8] }

\* A reservation smaller than the loader area in front of the monitor.
SmallDescs ==
  { [base |-> 65536, guest1_start |-> 580, guest1_count |-> 8,
     xmon_loader_start |-> 60, xmon_mem_in_mb |-> 0] }

Mbi(f, len) == [flags |-> f, mmap_length |-> len, entry_size |-> 20]

\* 0x43: MBI_MEMLIMITS, MBI_BOOTDEV and MBI_MEMMAP.  170 records fill the
\* 4096-byte bound exactly as far as whole 24-byte records go; 171 do not
\* pass it; a map-only block (0x40) fails the flags & 3 test.
PassMbis == { Mbi(67, 96), Mbi(67, 4080), Mbi(67, 4104), Mbi(64, 96) }

\* A block with MBI_MEMLIMITS only: mmap_length holds whatever was there.
NoMemmapMbis == { Mbi(1, 96) }

Sfi(syst, slot, len) ==
  [syst |-> syst, syst_len |-> 56, mmap_slot |-> slot, mmap |-> 2130706432,
   mmap_len |-> len]

\* SYST at 0xe0040 with four table pointers, MMAP in slot 2 with three
\* descriptors; no SYST; SYST off the 16-byte grid; no MMAP pointer; an
\* MMAP pointer in slot 5, past the end of SYST.
PassSfis ==
  { Sfi(917568, 2, 132), Sfi(0, 2, 132), Sfi(917576, 2, 132),
    Sfi(917568, -1, 132), Sfi(917568, 5, 132) }

\* An MMAP of 171 descriptors, and one whose len is below the header.
LargeSfis == { Sfi(917568, 2, 6180), Sfi(917568, 2, 16) }

\* A present descriptor, DPL 0, with its base and 20-bit limit split as in
\* memory; ghost_base and ghost_limit keep what it encodes.
Desc(base, limit, type, s, db, g) ==
  [base_15_00 |-> base % 65536, base_23_16 |-> (base \div 65536) % 256,
   base_31_24 |-> base \div 16777216,
   limit_15_00 |-> limit % 65536, limit_19_16 |-> limit \div 65536,
   type |-> type, s |-> s, dpl |-> 0, p |-> 1, avl |-> 0, l |-> 0,
   db |-> db, g |-> g, ghost_base |-> base, ghost_limit |-> limit]

NullDesc == [Desc(0, 0, 0, 0, 0, 0) EXCEPT !.p = 0]

\* 32-bit code (execute/read, accessed), 4 KiB granular; 32-bit data at
\* 1 MiB, byte granular; an available 32-bit TSS; a 16-bit code segment;
\* a busy TSS; 32-bit data at 1 GiB, granular.
Code32 == Desc(0, 524287, 11, 1, 1, 1)
Data32 == Desc(1048576, 65535, 3, 1, 1, 0)
Tss32  == Desc(8192, 103, 9, 0, 0, 0)
Code16 == Desc(65536, 65535, 11, 1, 0, 0)
TssBusy == Desc(12288, 103, 11, 0, 0, 0)
DataHigh == Desc(1073741824, 262143, 3, 1, 1, 1)

Sels(cs, ds, es, fs, gs, ss) ==
  [r \in SegRegs |-> CASE r = "CS" -> cs [] r = "DS" -> ds [] r = "ES" -> es
                       [] r = "FS" -> fs [] r = "GS" -> gs [] r = "SS" -> ss]

Gdt(s) == [i \in 0..(Len(s) - 1) |-> s[i + 1]]

\* A flat GDT of four descriptors, VMX enabled and locked on.
FlatCpu ==
  [gdt_limit |-> 31, gdt |-> Gdt(<<NullDesc, Code32, Data32, Tss32>>),
   sel |-> Sels(8, 16, 16, 16, 16, 16), ldtr_index |-> 0,
   cpuid1_ecx |-> 32, feature_control |-> 5]

\* A null DS, an LDT selector in ES, a TSS in FS, a GS past even the
\* divided bound, a 16-bit CS; no VMX in CPUID.
OddCpu ==
  [gdt_limit |-> 31, gdt |-> Gdt(<<NullDesc, Code16, DataHigh, TssBusy>>),
   sel |-> Sels(8, 0, 20, 24, 256, 16), ldtr_index |-> 0,
   cpuid1_ecx |-> 0, feature_control |-> 0]

\* A non-null LDTR; VMX locked off outside SMX.
LdtCpu ==
  [gdt_limit |-> 31, gdt |-> Gdt(<<NullDesc, Code32, Data32, Tss32>>),
   sel |-> Sels(8, 16, 16, 16, 16, 16), ldtr_index |-> 3,
   cpuid1_ecx |-> 32, feature_control |-> 1]

PassCpus == {FlatCpu, OddCpu, LdtCpu}

FlatCpus == {FlatCpu}

\* The GDTR limit covers four descriptors, the memory after it holds a
\* valid data descriptor, and DS selects it (index 5, 5 \div 8 = 0).
PastLimitCpus ==
  { [FlatCpu EXCEPT
       !.gdt = Gdt(<<NullDesc, Code32, Data32, Tss32, NullDesc, Data32>>),
       !.sel = Sels(8, 40, 16, 16, 16, 16)] }
=============================================================================
